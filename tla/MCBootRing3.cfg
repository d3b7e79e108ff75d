SPECIFICATION Spec
CONSTANTS
  first_page_table_raw = 36896
  MaxResets = 1
INVARIANT Ring3Sound
