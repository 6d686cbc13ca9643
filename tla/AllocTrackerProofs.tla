------------------------- MODULE AllocTrackerProofs -------------------------
(***************************************************************************)
(* Theorems about the allocation tracker, for any addresses and sizes.     *)
(***************************************************************************)
EXTENDS AllocTrackerProps, FiniteSetTheorems, TLAPS

\* The inductive invariant: the properties, and when the tracker is busy.
IInv ==
  /\ TypeOK
  /\ RegistryExact
  /\ InfosMatchBlocks
  /\ IsFiniteSet(Allocated)
  /\ FinalizeFreesUnfreed
  /\ MemoryCleared
  /\ pc = "idle" => ~busy
  /\ pc = "finalize" => busy /\ in_mem = "set"

\* No descriptor means no block.
LEMMA BlockFacts ==
  /\ NoBlock \notin Info
  /\ MaxCount \in Nat \ {0}
  /\ \A n \in 1 .. MaxCount : [count |-> n, clean |-> n] \in Info
BY TrackerAssumption DEF Info

\* Nothing is allocated before alloc_init.
LEMMA InitInv == Init => IInv
<1> SUFFICES ASSUME Init PROVE IInv
  OBVIOUS
<1>1. Allocated = {}
  BY DEF Init, Allocated
<1>2. Cardinality({}) = 0 /\ IsFiniteSet({})
  BY FS_EmptySet
<1>3. TypeOK
  <2>1. block \in [Addr -> Info \union {NoBlock}]
    BY DEF Init
  <2>2. infos \in Int /\ registered \subseteq Addr /\ todo \subseteq Addr
    BY DEF Init
  <2>3. worn \in BOOLEAN
    BY DEF Init
  <2> QED
    BY <2>1, <2>2, <2>3 DEF Init, TypeOK
<1>4. RegistryExact /\ FinalizeFreesUnfreed /\ MemoryCleared
  BY <1>1 DEF Init, RegistryExact, Usable, FinalizeFreesUnfreed, MemoryCleared
<1>5. InfosMatchBlocks
  BY <1>1, <1>2 DEF Init, InfosMatchBlocks
<1> QED
  BY <1>1, <1>2, <1>3, <1>4, <1>5 DEF Init, IInv

\* An invariant state in which the process may end.
LEMMA ExitInv == IInv /\ Exit => IInv'
<1> SUFFICES ASSUME IInv, Exit PROVE IInv'
  OBVIOUS
<1>1. Allocated' = Allocated
  BY DEF Exit, Allocated
<1> QED
  BY <1>1 DEF IInv, Exit, TypeOK, RegistryExact, InfosMatchBlocks, Usable,
              FinalizeFreesUnfreed, MemoryCleared

\* alloc_init: an empty set, and no block.
LEMMA AllocInitInv == IInv /\ AllocInit => IInv'
<1> SUFFICES ASSUME IInv, AllocInit PROVE IInv'
  OBVIOUS
<1>1. CASE Exit
  BY <1>1, ExitInv
<1>2. CASE ~Exit
  <2>1. /\ pc = "idle" /\ in_mem # "set" /\ in_mem' = "set" /\ registered' = {}
        /\ worn' = FALSE /\ is_inited' = TRUE /\ UNCHANGED <<busy, block, infos, pc, todo>>
    BY <1>2 DEF AllocInit
  <2>2. Allocated = {} /\ Allocated' = Allocated
    BY <2>1 DEF IInv, FinalizeFreesUnfreed, Allocated
  <2> QED
    BY <2>1, <2>2 DEF IInv, TypeOK, RegistryExact, InfosMatchBlocks, Usable,
                      FinalizeFreesUnfreed, MemoryCleared
<1> QED
  BY <1>1, <1>2

\* A pointer that was not registered is now, and nothing else is lost while
\* the process runs.
LEMMA RegisterFacts ==
  ASSUME NEW p \in Addr, NEW s \in SUBSET Addr, NEW isWorn \in BOOLEAN,
         ~busy, pc = "idle", p \notin s, Register(p, s, isWorn)
  PROVE  /\ registered' \subseteq Addr /\ worn' \in BOOLEAN
         /\ \/ pc' = "idle" /\ registered' = s \union {p}
            \/ pc' = "exit" /\ \E m \in s : m # p /\ m \notin registered'
<1>1. PICK dropped \in Drops(s, isWorn) :
        /\ registered' = (s \ dropped) \union {p}
        /\ pc' = IF FailsInsert(p, s, dropped) THEN "exit" ELSE pc
  BY DEF Register
<1>2. worn' = isWorn
  BY DEF Register
<1>3. CASE dropped = {}
  BY <1>1, <1>2, <1>3 DEF FailsInsert
<1>4. CASE dropped # {}
  <2>1. PICK m \in s : dropped = {m}
    BY <1>1, <1>4 DEF Drops
  <2>2. m # p /\ m \notin registered'
    BY <1>1, <2>1
  <2> QED
    BY <1>1, <1>2, <1>4, <2>1, <2>2 DEF FailsInsert
<1> QED
  BY <1>3, <1>4

\* A block that malloc gives is not registered yet.
LEMMA AllocInv ==
  ASSUME IInv, NEW p \in Addr, NEW n \in 0 .. MaxCount, Alloc(p, n)
  PROVE  IInv' /\ (n # 0 /\ pc' = "exit" => Allocated' \ registered' # {})
<1>1. pc = "idle" /\ in_mem = "set" /\ registered = Allocated /\ ~busy /\ p \notin Allocated
  BY DEF IInv, RegistryExact, Usable, Alloc
<1>3. CASE n = 0
  BY <1>3, ExitInv DEF Alloc
<1>4. CASE n # 0
  <2>1. /\ block' = [block EXCEPT ![p] = [count |-> n, clean |-> n]]
        /\ infos' = infos + 1 /\ Register(p, registered, worn)
        /\ UNCHANGED <<in_mem, is_inited, busy, todo>>
    BY <1>4 DEF Alloc
  <2>2. n \in 1 .. MaxCount
    BY <1>4, BlockFacts
  <2>3. /\ block \in [Addr -> Info \union {NoBlock}] /\ infos \in Int
        /\ registered \in SUBSET Addr /\ worn \in BOOLEAN
    BY DEF IInv, TypeOK
  <2>4. block'[p] = [count |-> n, clean |-> n] /\ block'[p] # NoBlock
    BY <2>1, <2>2, <2>3, BlockFacts
  <2>5. Allocated' = Allocated \union {p}
    BY <2>1, <2>3, <2>4 DEF Allocated
  <2>9. /\ registered' \subseteq Addr /\ worn' \in BOOLEAN
        /\ \/ pc' = "idle" /\ registered' = Allocated'
           \/ pc' = "exit" /\ Allocated' \ registered' # {}
    BY <1>1, <2>1, <2>3, <2>5, RegisterFacts
  <2>6. TypeOK'
    BY <1>1, <2>1, <2>2, <2>3, <2>9, BlockFacts DEF IInv, TypeOK
  <2>7. InfosMatchBlocks' /\ IsFiniteSet(Allocated')
    BY <1>1, <2>1, <2>3, <2>5, FS_AddElement DEF IInv, InfosMatchBlocks
  <2>8. MemoryCleared'
    BY <2>1, <2>3, <2>4, <2>5 DEF IInv, MemoryCleared, Allocated
  <2> QED
    BY <1>1, <2>1, <2>6, <2>7, <2>8, <2>9
    DEF IInv, RegistryExact, Usable, FinalizeFreesUnfreed
<1> QED
  BY <1>3, <1>4

\* The old pointer is registered; the new one is another pointer that is not,
\* or the same.
LEMMA ReallocInv ==
  ASSUME IInv, NEW p \in Addr, NEW q \in Addr, NEW n \in 0 .. MaxCount,
         Realloc(p, q, n)
  PROVE  IInv' /\ (n # 0 /\ pc' = "exit" => Allocated' \ registered' # {})
<1>1. /\ pc = "idle" /\ in_mem = "set" /\ registered = Allocated /\ ~busy
      /\ p \in Allocated /\ (q = p \/ q \notin Allocated)
  BY DEF IInv, RegistryExact, Usable, Realloc
<1>2. Reregister(p, q) => Register(q, registered \ {p}, TRUE)
  BY <1>1 DEF Reregister, FailsUnregister, Unregistered
<1>3. CASE n = 0
  BY <1>3, ExitInv DEF Realloc
<1>4. CASE n # 0
  <2> DEFINE clean == Kept(block[p].clean, n) + Cleared(block[p].count, n)
  <2>1. /\ block' = [block EXCEPT ![p] = NoBlock,
                                  ![q] = [count |-> n, clean |-> clean]]
        /\ infos' = (infos + 1) - 1 /\ Register(q, registered \ {p}, TRUE)
        /\ UNCHANGED <<in_mem, is_inited, busy, todo>>
    BY <1>2, <1>4 DEF Realloc, InfoDelete
  <2>2. n \in 1 .. MaxCount
    BY <1>4, BlockFacts
  <2>3. /\ block \in [Addr -> Info \union {NoBlock}] /\ infos \in Int
        /\ registered \in SUBSET Addr
    BY DEF IInv, TypeOK
  <2>4. clean = n
    <3>1. block[p] \in Info /\ block[p].clean = block[p].count
      BY <1>1, <2>3 DEF IInv, MemoryCleared, Allocated
    <3>2. block[p].count \in 1 .. MaxCount
      BY <3>1 DEF Info
    <3> QED
      BY <2>2, <3>1, <3>2, BlockFacts DEF Kept, Cleared
  <2> HIDE DEF clean
  <2>5. /\ block'[q] = [count |-> n, clean |-> n] /\ block'[q] # NoBlock
        /\ p # q => block'[p] = NoBlock
        /\ \A r \in Addr : r # p /\ r # q => block'[r] = block[r]
    BY <2>1, <2>2, <2>3, <2>4, BlockFacts
  <2>6. Allocated' = (Allocated \ {p}) \union {q}
    BY <1>1, <2>5 DEF Allocated
  <2>10. /\ registered' \subseteq Addr /\ worn' \in BOOLEAN
         /\ \/ pc' = "idle" /\ registered' = Allocated'
            \/ pc' = "exit" /\ Allocated' \ registered' # {}
    <3>1. registered \ {p} \in SUBSET Addr /\ q \notin registered \ {p}
      BY <1>1, <2>3
    <3> QED
      BY <1>1, <2>1, <2>6, <3>1, RegisterFacts
  <2>7. TypeOK'
    <3>1. block' \in [Addr -> Info \union {NoBlock}]
      BY <2>1, <2>2, <2>3, <2>4, BlockFacts
    <3> QED
      BY <1>1, <2>1, <2>3, <2>10, <3>1 DEF IInv, TypeOK
  <2>8. InfosMatchBlocks' /\ IsFiniteSet(Allocated')
    <3>1. /\ IsFiniteSet(Allocated) /\ infos = Cardinality(Allocated)
          /\ Cardinality(Allocated) \in Nat
      BY FS_CardinalityType DEF IInv, InfosMatchBlocks
    <3>2. /\ IsFiniteSet(Allocated \ {p})
          /\ Cardinality(Allocated \ {p}) = Cardinality(Allocated) - 1
      BY <1>1, <3>1, FS_RemoveElement
    <3>3. q \notin Allocated \ {p}
      BY <1>1
    <3>4. /\ IsFiniteSet((Allocated \ {p}) \union {q})
          /\ Cardinality((Allocated \ {p}) \union {q}) = Cardinality(Allocated \ {p}) + 1
      BY <3>2, <3>3, FS_AddElement
    <3> QED
      BY <2>1, <2>6, <3>1, <3>2, <3>4 DEF InfosMatchBlocks
  <2>9. MemoryCleared'
    BY <2>5, <2>6 DEF IInv, MemoryCleared, Allocated
  <2> QED
    BY <1>1, <2>1, <2>7, <2>8, <2>9, <2>10
    DEF IInv, RegistryExact, Usable, FinalizeFreesUnfreed
<1> QED
  BY <1>3, <1>4

\* A block that goes takes its descriptor with it.
LEMMA ReleaseFacts ==
  ASSUME IInv, NEW p \in Addr, p \in Allocated, Release(p)
  PROVE  /\ block' \in [Addr -> Info \union {NoBlock}] /\ infos' \in Int
         /\ Allocated' = Allocated \ {p}
         /\ InfosMatchBlocks' /\ IsFiniteSet(Allocated') /\ MemoryCleared'
<1>1. block' = [block EXCEPT ![p] = NoBlock] /\ infos' = infos - 1
  BY DEF Release, InfoDelete
<1>2. block \in [Addr -> Info \union {NoBlock}] /\ infos \in Int
  BY DEF IInv, TypeOK
<1>3. Allocated' = Allocated \ {p}
  BY <1>1, <1>2 DEF Allocated
<1>4. InfosMatchBlocks' /\ IsFiniteSet(Allocated')
  BY <1>1, <1>3, FS_RemoveElement DEF IInv, InfosMatchBlocks
<1> QED
  BY <1>1, <1>2, <1>3, <1>4 DEF IInv, MemoryCleared, Allocated

\* The block given back is registered.
LEMMA DeallocInv ==
  ASSUME IInv, NEW p \in Addr, Dealloc(p)
  PROVE  IInv' /\ pc' # "exit"
<1>1. /\ pc = "idle" /\ in_mem = "set" /\ registered = Allocated /\ ~busy
      /\ p \in Allocated /\ Release(p) /\ UNCHANGED <<in_mem, is_inited, busy, todo>>
  BY DEF IInv, RegistryExact, Usable, Dealloc
<1>2. ~FailsUnregister(p)
  BY <1>1 DEF FailsUnregister
<1>3. registered' = registered \ {p} /\ pc' = pc /\ worn' \in BOOLEAN
  BY <1>1, <1>2 DEF Release, Unregister, Unregistered
<1> QED
  BY <1>1, <1>3, ReleaseFacts
  DEF IInv, TypeOK, RegistryExact, Usable, FinalizeFreesUnfreed

\* The loop of alloc_finalize visits what is allocated.
LEMMA FinalizeInv ==
  ASSUME IInv, Finalize \/ EndFinalize \/ (\E p \in Addr : FreeLeaked(p))
  PROVE  IInv'
<1>1. CASE Finalize
  <2>1. Allocated' = Allocated
    BY <1>1 DEF Finalize, Allocated
  <2> QED
    BY <1>1, <2>1 DEF Finalize, IInv, TypeOK, RegistryExact, Usable,
                      InfosMatchBlocks, FinalizeFreesUnfreed, MemoryCleared
<1>2. CASE EndFinalize
  <2>1. Allocated' = Allocated
    BY <1>2 DEF EndFinalize, Allocated
  <2> QED
    BY <1>2, <2>1 DEF EndFinalize, Has, IInv, TypeOK, RegistryExact, Usable,
                      InfosMatchBlocks, FinalizeFreesUnfreed, MemoryCleared
<1>3. ASSUME NEW p \in Addr, FreeLeaked(p) PROVE IInv'
  <2>1. /\ pc = "finalize" /\ p \in todo /\ Release(p) /\ todo = Allocated /\ busy
        /\ todo' = todo \ {p} /\ is_inited' = FALSE /\ UNCHANGED <<in_mem, busy>>
    BY <1>3 DEF FreeLeaked, IInv, RegistryExact
  <2>2. registered' = registered /\ pc' = pc /\ worn' \in BOOLEAN
    BY <2>1 DEF Release, Unregister, FailsUnregister, Unregistered, IInv, TypeOK
  <2> QED
    BY <2>1, <2>2, ReleaseFacts
    DEF IInv, TypeOK, RegistryExact, Usable, FinalizeFreesUnfreed
<1> QED
  BY <1>1, <1>2, <1>3

\* Every step keeps the invariant.
LEMMA NextInv == IInv /\ [Next]_vars => IInv'
<1> SUFFICES ASSUME IInv, [Next]_vars PROVE IInv'
  OBVIOUS
<1>1. CASE UNCHANGED vars
  <2>1. Allocated' = Allocated
    BY <1>1 DEF vars, Allocated
  <2> QED
    BY <1>1, <2>1 DEF vars, IInv, TypeOK, RegistryExact, Usable,
                      InfosMatchBlocks, FinalizeFreesUnfreed, MemoryCleared
<1>2. CASE AllocInit
  BY <1>2, AllocInitInv
<1>3. ASSUME NEW p \in Addr, NEW n \in 0 .. MaxCount, Alloc(p, n) PROVE IInv'
  BY <1>3, AllocInv
<1>7. ASSUME NEW p \in Addr, NEW n \in 0 .. MaxCount, Strndup(p, n) PROVE IInv'
  <2>1. n + 1 \in 0 .. MaxCount
    BY <1>7, TrackerAssumption DEF Strndup
  <2> QED BY <1>7, <2>1, AllocInv DEF Strndup
<1>4. ASSUME NEW p \in Addr, NEW q \in Addr, NEW n \in 0 .. MaxCount, Realloc(p, q, n)
      PROVE  IInv'
  BY <1>4, ReallocInv
<1>5. ASSUME NEW p \in Addr, Dealloc(p) PROVE IInv'
  BY <1>5, DeallocInv
<1>6. CASE Finalize \/ EndFinalize \/ (\E p \in Addr : FreeLeaked(p))
  BY <1>6, FinalizeInv
<1> QED
  BY <1>1, <1>2, <1>3, <1>4, <1>5, <1>6, <1>7 DEF Next

\* The inductive invariant holds of every behaviour.
THEOREM InductiveInvariant == Spec => []IInv
BY InitInv, NextInv, PTL DEF Spec

\* Types: memset clears nothing beyond a block.
THEOREM TypeCorrect == Spec => []TypeOK
<1>1. IInv => TypeOK
  BY DEF IInv
<1> QED
  BY <1>1, InductiveInvariant, PTL

\* The registry is exact between calls, for any number of blocks, because the
\* process does not go on after an insertion that has dropped one.
THEOREM RegistryIsExact == Spec => []RegistryExact
<1>1. IInv => RegistryExact
  BY DEF IInv
<1> QED
  BY <1>1, InductiveInvariant, PTL

\* The tracker's own descriptors are not leaked.
THEOREM DescriptorsNotLeaked == Spec => []InfosMatchBlocks
<1>1. IInv => InfosMatchBlocks
  BY DEF IInv
<1> QED
  BY <1>1, InductiveInvariant, PTL

\* alloc_finalize frees what the client forgot: none of it was dropped.
THEOREM FinalizeFrees == Spec => []FinalizeFreesUnfreed
<1>1. IInv => FinalizeFreesUnfreed
  BY DEF IInv
<1> QED
  BY <1>1, InductiveInvariant, PTL

\* Blocks hold no uninitialized memory, whatever sizes they went through.
THEOREM BlocksCleared == Spec => []MemoryCleared
<1>1. IInv => MemoryCleared
  BY DEF IInv
<1> QED
  BY <1>1, InductiveInvariant, PTL

\* A client that keeps to the rules is stopped only by a set that has dropped
\* one of its blocks.
THEOREM AlarmsMeanLoss == Spec => AlarmOnlyWhenLost
<1> DEFINE A == \A p, q \in Addr, n \in 1 .. MaxCount :
                  /\ (Alloc(p, n) \/ Realloc(p, q, n)) /\ pc' = "exit"
                       => Allocated' \ registered' # {}
                  /\ Dealloc(p) => pc' # "exit"
<1>1. IInv => A
  <2> SUFFICES ASSUME IInv, NEW p \in Addr, NEW q \in Addr, NEW n \in 1 .. MaxCount
               PROVE  /\ (Alloc(p, n) \/ Realloc(p, q, n)) /\ pc' = "exit"
                           => Allocated' \ registered' # {}
                      /\ Dealloc(p) => pc' # "exit"
    OBVIOUS
  <2>1. n \in 0 .. MaxCount /\ n # 0
    BY BlockFacts
  <2> QED
    BY <2>1, AllocInv, ReallocInv, DeallocInv
<1>2. IInv /\ [Next]_vars => [A]_vars
  BY <1>1
<1>3. [][A]_vars => AlarmOnlyWhenLost
  BY DEF AlarmOnlyWhenLost
<1> HIDE DEF A
<1> QED
  BY <1>2, <1>3, InductiveInvariant, PTL DEF Spec
=============================================================================
