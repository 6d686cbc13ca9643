SPECIFICATION AnySpec
CONSTANTS
  Cell = {n1, n2}
  MaxNodes = 2
  MaxRefs = 1
  MaxEdges = 2
  CountMod = 4
  EagerEdges = TRUE
  EagerNodes = TRUE
  NULL = NULL
PROPERTY MissingReferenceIsFatal
CHECK_DEADLOCK FALSE
