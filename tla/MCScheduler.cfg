SPECIFICATION FairSpec
CONSTANTS
  NumTCBs = 4
  NumStacks = 3
  MaxSpawns = 3
  Cooperative = TRUE
  ShellYields = FALSE
  MS = 29
  current_freq = 100
  TickMod = 6
INVARIANTS
  RingSound
  StacksApart
  ShellInterruptible
PROPERTIES
  SleepPunctual
  SleepEnds
  EveryoneRuns
