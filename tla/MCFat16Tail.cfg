SPECIFICATION FairSpec
CONSTANTS
  ALLOC_LIMIT = 5
  LAST_CLUSTER = 3
  NumFats = 2
  RootEntries = 1
  SectorBytes = 2
  FatNames <- MCFatNames
  Names <- MCNames
  FatNameOf <- MCFatNameOf
  v1 = v1
  v2 = v2
  Vals = {v1}
  Sizes = {0, 3}
  BufSizes = {1, 4}
  RawClusters = {3}
  MaxCrashes = 1
INVARIANTS
  MirrorKept
PROPERTIES
  CallsEnd
CHECK_DEADLOCK FALSE
