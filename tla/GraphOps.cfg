SPECIFICATION Spec
CONSTANTS
  Cell = {n1, n2, n3}
  MaxNodes = 3
  MaxRefs = 1
  MaxEdges = 5
  CountMod = 4
  EagerEdges = FALSE
  EagerNodes = TRUE
  NULL = NULL
SYMMETRY CellSymmetry
INVARIANTS TypeOK RecursionBounded
PROPERTIES RetainedNotDeleted CollectsAllGarbage
CHECK_DEADLOCK FALSE
