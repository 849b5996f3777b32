SPECIFICATION Spec
CONSTANTS
  Runs = {r1, r2}
  r1 = r1
  r2 = r2
  Bases = {b1}
  b1 = b1
  NoRun = NoRun
  NoPlan = NoPlan
  NoFile = NoFile
  BuildNumberFloor = 5
  MaxBuildNumber = 99
  MaxTriggers = 4
  MaxSequence = 3
  Serialized = TRUE
  OperatorDeletes = FALSE
SYMMETRY Symmetry
INVARIANT FailedRunsLeaveOnlyGaps
CHECK_DEADLOCK FALSE
