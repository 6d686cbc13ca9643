SPECIFICATION Spec
CONSTANTS
  Addr = {a1, a2, a3, a4}
  MaxCount = 4
  Debug = FALSE
  NoBlock = NoBlock
SYMMETRY AddrSymmetry
INVARIANTS TypeOK InfosMatchBlocks FinalizeFreesUnfreed MemoryCleared
PROPERTY AlarmOnlyWhenLost
CHECK_DEADLOCK FALSE
