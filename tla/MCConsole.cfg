SPECIFICATION Spec
CONSTANTS
  VGA_WIDTH = 4
  VGA_HEIGHT = 3
  Calls <- ShellCalls
  WordMod = 32
  OFFSET = 2
  CountMod = 12
  MaxCalls = 3
INVARIANTS
  OutputAsFormatted
  OutputUndisturbed
