CONSTANTS
  N = 4
  Programs <- Chain
  Structural = FALSE
  MaxEdited = 2
  MaxUpdates = 1
SPECIFICATION Spec
INVARIANTS
  SameFixpoint
