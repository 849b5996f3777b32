SPECIFICATION Spec
CONSTANTS
  Runs = {r1, r2}
  None = None
  Foreign = Foreign
  MaxMeddles = 2
  SwapsSeen = FALSE
INVARIANT ReturnedWhole
INVARIANT RolledBack
INVARIANT EvidenceComesLast
PROPERTY ForeignKept
SYMMETRY Symmetry
CHECK_DEADLOCK FALSE
