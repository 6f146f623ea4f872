CONSTANTS
  N = 3
  Programs <- PingPong
  Structural = FALSE
  MaxEdited = 1
  MaxUpdates = 1
SPECIFICATION Spec
INVARIANT
  RowsLeast
