SPECIFICATION Spec
CONSTANTS
  Runs = {r1}
  None = None
  Foreign = Foreign
  MaxMeddles = 0
  SwapsSeen = FALSE
INVARIANT CleanupNeverRollsBack
CHECK_DEADLOCK FALSE
