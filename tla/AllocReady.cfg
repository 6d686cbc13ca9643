SPECIFICATION Spec
CONSTANTS
  Addr = {a1, a2}
  MaxCount = 2
  Debug = FALSE
  NoBlock = NoBlock
INVARIANT ReadyTellsTruth
CHECK_DEADLOCK FALSE
