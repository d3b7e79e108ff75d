SPECIFICATION Spec
CONSTANTS
  ALLOC_LIMIT = 5
  LAST_CLUSTER = 4
  NumFats = 2
  RootEntries = 2
  SectorBytes = 2
  FatNames <- MCFatNames
  Names <- MCNames
  FatNameOf <- MCFatNameOf
  v1 = v1
  v2 = v2
  Vals = {v1, v2}
  Sizes = {0, 3}
  BufSizes = {1, 4}
  RawClusters = {}
  MaxCrashes = 1
INVARIANTS
  FatAcyclic
  NoSharing
  NoLeak
  DirectorySound
PROPERTIES
  RefinesFileStore
  WriteStores
  ReadReturnsFile
SYMMETRY MCSymmetry
