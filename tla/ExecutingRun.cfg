SPECIFICATION Spec
CONSTANTS
  MaxAttempts = 2
  MaxEdits = 1
  Wait = 1
  Tries = 2
INVARIANT AttemptProven
INVARIANT WholeAnswers
INVARIANT PromotedUntouched
PROPERTY WaitEnds
CHECK_DEADLOCK FALSE
