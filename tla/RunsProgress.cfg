SPECIFICATION Spec
CONSTANTS
  MaxRuns = 3
  MaxPushes = 2
  MaxReruns = 0
  MaxExpired = 0
  Probes = 1
  PushesSkip = TRUE
PROPERTY SupersededIsReplaced
PROPERTY HeadConcludes
CHECK_DEADLOCK FALSE
