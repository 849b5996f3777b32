SPECIFICATION Spec
CONSTANTS
  Publishers = {p1, p2}
  p1 = p1
  p2 = p2
  Commits = {c1, c2}
  c1 = c1
  c2 = c2
  Assets = {a1, a2}
  a1 = a1
  a2 = a2
  Maintainer = Maintainer
  NoCommit = NoCommit
  MaxReleases = 3
  MaxMeddling = 2
SYMMETRY Symmetry
INVARIANT TransactionInv
INVARIANT WorksOnOwnRelease
INVARIANT PublishedWhole
INVARIANT CreateNeverReplayed
INVARIANT TagIsLock
PROPERTY PublishedAtItsCommit
CHECK_DEADLOCK FALSE
