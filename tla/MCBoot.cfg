SPECIFICATION FairSpec
CONSTANTS
  first_page_table_raw = 36896
  MaxResets = 2
INVARIANTS
  InterruptsHandled
  HeapRestarts
  TickHarmless
PROPERTY ReachesUser
