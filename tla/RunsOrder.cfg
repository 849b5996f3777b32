SPECIFICATION Spec
CONSTANTS
  MaxRuns = 3
  MaxPushes = 1
  MaxReruns = 1
  MaxExpired = 1
  Probes = 1
  PushesSkip = FALSE
PROPERTY AutomaticInOrder
PROPERTY NightlyKeepsCandidates
CHECK_DEADLOCK FALSE
