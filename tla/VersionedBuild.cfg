SPECIFICATION Spec
CONSTANTS
  Files <- MCFiles
  Inspected <- MCInspected
  Plans <- MCPlans
  MaxEdits = 1
INVARIANT TypeOK
INVARIANT AcceptedAsPlanned
INVARIANT MixedResumes
PROPERTY EditsKept
CHECK_DEADLOCK FALSE
