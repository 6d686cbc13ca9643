SPECIFICATION Spec
CONSTANTS
  k1 = k1
  k2 = k2
  k3 = k3
  k4 = k4
  v1 = v1
  v2 = v2
  Key = {k1, k2, k3, k4}
  Value = {v1}
  Hash <- Hash4
  InitSize = 5
  MaxSize = 5
  UintMod = 64
  NoKey = NoKey
  NoValue = NoValue
INVARIANT OneEntryPerKey
CHECK_DEADLOCK FALSE
