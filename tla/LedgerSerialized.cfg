SPECIFICATION Spec
CONSTANTS
  Runs = {r1, r2, r3}
  r1 = r1
  r2 = r2
  r3 = r3
  Bases = {b1, b2}
  b1 = b1
  b2 = b2
  NoRun = NoRun
  NoPlan = NoPlan
  NoFile = NoFile
  BuildNumberFloor = 5
  MaxBuildNumber = 99
  MaxTriggers = 3
  MaxSequence = 3
  Serialized = TRUE
  OperatorDeletes = TRUE
SYMMETRY Symmetry
PROPERTY PublishedInOrder
PROPERTY StableFromNewest
PROPERTY StableFreezesBase
CHECK_DEADLOCK FALSE
