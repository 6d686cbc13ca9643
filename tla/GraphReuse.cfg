SPECIFICATION FairSpec
CONSTANTS
  Cell = {n1, n2}
  MaxNodes = 3
  MaxRefs = 2
  MaxEdges = 4
  CountMod = 4
  EagerEdges = TRUE
  EagerNodes = TRUE
  NULL = NULL
INVARIANTS NoDanglingReference EdgesMirrored EdgesAccounted
PROPERTIES ImplementsEntityGraph CollectReturns
CHECK_DEADLOCK FALSE
