SPECIFICATION Spec
CONSTANTS
  MaxDepth = 2
  MaxVisited = 6
  Publishers = {p1, p2}
  ImageOrder <- MCImages
  Versions <- MCVersions
  NewVersion = "2"
  OldVersion = "1"
  Newest = "2"
  Revision = "2"
  Offers <- MCOffers
  MaxAssemblies = 2
  MaxPushes = 1
  MaxEdits = 1
INVARIANT TypeOK
INVARIANT AssembledVerifies
INVARIANT ReleasableAsBuilt
INVARIANT DeployedIsStored
INVARIANT LatestIsComplete
PROPERTY VersionTagsKept
SYMMETRY Symmetry
CHECK_DEADLOCK FALSE
