SPECIFICATION FairSpec
CONSTANTS
  k1 = k1
  k2 = k2
  k3 = k3
  k4 = k4
  v1 = v1
  v2 = v2
  Key = {k1, k2, k3}
  Value = {v1}
  Hash <- Hash3
  InitSize = 3
  MaxSize = 3
  UintMod = 64
  NoKey = NoKey
  NoValue = NoValue
PROPERTY LookupReturns
CHECK_DEADLOCK FALSE
