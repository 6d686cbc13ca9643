SPECIFICATION SetSpec
CONSTANTS
  k1 = k1
  k2 = k2
  k3 = k3
  k4 = k4
  Key = {k1, k2, k3, k4}
  Value = {k1, k2, k3, k4}
  Hash <- Hash4
  InitSize = 5
  MaxSize = 5
  UintMod = 64
  NoKey = NoKey
  NoValue = NoValue
PROPERTY TidyKeepsEntries
CHECK_DEADLOCK FALSE
