SPECIFICATION Spec
CONSTANTS
  VGA_WIDTH = 4
  VGA_HEIGHT = 3
  Calls <- ListCalls
  WordMod = 32
  OFFSET = 2
  CountMod = 2
  MaxCalls = 1
INVARIANTS
  OutputAsFormatted
