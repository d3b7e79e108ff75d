SPECIFICATION FairSpec
CONSTANTS
  NumTCBs = 3
  NumStacks = 2
  MaxSpawns = 1
  Cooperative = FALSE
  ShellYields = FALSE
  MS = 29
  current_freq = 100
  TickMod = 6
CHECK_DEADLOCK FALSE
PROPERTY EveryoneRuns
