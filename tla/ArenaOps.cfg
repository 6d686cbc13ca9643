SPECIFICATION Spec
CONSTANTS
  Block = {b1, b2, b3}
  Chunk = 2
  NULL = NULL
  Junk = Junk
SYMMETRY BlockSymmetry
INVARIANTS TypeOK NoSharedCell FreeLinksOK NoCellLost NoDoubleFree FinalizeFreesAll
PROPERTY ImplementsRegion
