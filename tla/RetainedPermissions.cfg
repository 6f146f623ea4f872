CONSTANTS
  N = 4
  Programs <- Cyclic
  Structural = TRUE
  MaxEdited = 2
  MaxUpdates = 2
SPECIFICATION Spec
INVARIANTS
  UpdatesSolved
  ValidationCurrent
