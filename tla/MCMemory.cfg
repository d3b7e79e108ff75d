SPECIFICATION FairSpec
CONSTANTS
  HEAP_START = 4
  HEAP_SIZE = 84
  WordMod = 256
  Requests <- MCRequests
INVARIANTS
  HeapTiled
  OwnedDisjoint
  NothingLeaked
  Coalesced
  HeapInv
PROPERTIES
  FailsOnlyWhenFull
  RefinesHeap
  CallsReturn
