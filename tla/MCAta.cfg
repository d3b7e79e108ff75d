SPECIFICATION Spec
CONSTANTS
  ByteMod = 2
  TopMod = 2
  Words = 2
  NumSectors = 11
  Lbas <- MCLbas
  Buffers <- MCBuffers
CHECK_DEADLOCK FALSE
PROPERTIES
  RefinesDisk
  TransferEnds
