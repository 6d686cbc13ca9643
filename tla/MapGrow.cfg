SPECIFICATION FairGrowSpec
CONSTANTS
  k1 = k1
  k2 = k2
  k3 = k3
  k4 = k4
  v1 = v1
  v2 = v2
  Key = {k1, k2, k3, k4}
  Value = {v1, v2}
  Hash <- Hash4
  InitSize = 3
  MaxSize = 7
  UintMod = 64
  NoKey = NoKey
  NoValue = NoValue
INVARIANT OneEntryPerKey
PROPERTIES ImplementsMap LookupReturns
CHECK_DEADLOCK FALSE
