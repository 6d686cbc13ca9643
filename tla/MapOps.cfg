SPECIFICATION FairSetSpec
CONSTANTS
  k1 = k1
  k2 = k2
  k3 = k3
  k4 = k4
  Key = {k1, k2, k3}
  Value = {k1, k2, k3}
  Hash <- Hash3
  InitSize = 3
  MaxSize = 7
  UintMod = 64
  NoKey = NoKey
  NoValue = NoValue
INVARIANTS TypeOK ListMatchesTable EntriesReachable NeverHappens LoopMeetsAll TidyNoDuplicate
PROPERTIES AbsentMeansAbsent PresentLookupReturns InsertReturns ImplementsLossySet
CHECK_DEADLOCK FALSE
