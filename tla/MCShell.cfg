SPECIFICATION Spec
CONSTANTS
  BASE = 2
  EXT = 1
  Chars = {"a", ".", " "}
  Lines <- MCLines
  NAME_LIMIT = 4
  MaxCommands = 3
CHECK_DEADLOCK FALSE
INVARIANTS
  NameAsSpecified
  CatShowsWritten
  ListedFindsFile
