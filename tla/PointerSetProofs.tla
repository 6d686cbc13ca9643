-------------------------- MODULE PointerSetProofs --------------------------
(***************************************************************************)
(* Theorems about the set and the loop over it, for any pointers, hash     *)
(* function and sizes: a client that inserts only what is not there never  *)
(* has a pointer twice and gets the set of module LossySet, and a loop     *)
(* whose body may remove the pointer it is given meets every pointer once. *)
(***************************************************************************)
EXTENDS PointerSetInv, HashMapGrowProofs

-----------------------------------------------------------------------------
(* The steps of the map that write to a table. *)

\* A pair goes to a slot that is not live.
LEMMA VacantWrites ==
  ASSUME IInv, InsertVacant
  PROVE  \E s \in SlotsOf(Target.sz), p \in Nat \ {0} :
           s \notin Live(Target) /\ SetTarget(Occupy(Target, hand, s, p))
<1> DEFINE n == Target.sz
<1>1. InHelper /\ Here.probes = Vacant
  BY DEF InsertVacant
<1>2. /\ hand \in HandType(n) /\ hand.probes \in Nat
      /\ At \in SlotsOf(n) /\ Here = Target.slots[At]
  BY <1>1, LoopFacts DEF InHelper
<1>3. CASE hand.empty # Nil
  <2>1. /\ hand.emptyProbes \in 1 .. hand.probes
        /\ Target.slots[hand.empty].probes = Removed
    BY <1>1, <1>3 DEF IInv, HandInv
  <2>2. /\ hand.empty \in SlotsOf(n) /\ hand.empty \notin Live(Target)
        /\ hand.emptyProbes \in Nat \ {0}
    BY <1>2, <1>3, <2>1 DEF HandType, Live, Removed
  <2>3. SetTarget(Occupy(Target, hand, hand.empty, hand.emptyProbes))
    BY <1>3 DEF InsertVacant
  <2> QED
    BY <2>2, <2>3
<1>4. CASE hand.empty = Nil
  <2>1. At \notin Live(Target) /\ hand.probes + 1 \in Nat \ {0}
    BY <1>1, <1>2 DEF Live, Vacant
  <2>2. SetTarget(Occupy(Target, hand, At, hand.probes + 1))
    BY <1>4 DEF InsertVacant
  <2> QED
    BY <1>2, <2>1, <2>2
<1> QED
  BY <1>3, <1>4

\* A pair takes the place of another in a live slot.
LEMMA RobWrites ==
  ASSUME IInv, InsertRob
  PROVE  /\ At \in Live(Target) /\ Here = Target.slots[At]
         /\ SetTarget(Displace(Target, hand, At))
         /\ hand'.key = Here.key /\ hand'.value = Here.value
         /\ UNCHANGED <<pc, call>>
BY LoopFacts DEF InsertRob, InHelper, PickUp

\* An entry is unlinked by map_remove.
LEMMA RemoveWrites ==
  ASSUME IInv, ProbeFound
  PROVE  /\ map' \in {map, Unlink(map, At)} /\ new' = new
         /\ At \in Live(map) /\ Here = map.slots[At] /\ Here.key = call.key
         /\ pc = "probe" /\ pc' = "idle"
BY LoopFacts DEF ProbeFound, Target, Return, IInv, ProbeInv

-----------------------------------------------------------------------------
(* A set maps each pointer to itself. *)

\* Whichever table the loop writes to.
LEMMA SelfTarget ==
  ASSUME IInv, SelfInv, InHelper, NEW t, SetTarget(t), SelfTable(t),
         pc' # "reinsert" \/ pc = "reinsert", pc' # "rehash" \/ pc = "reinsert",
         call' = call \/ pc' \notin {"insert", "rehash", "reinsert"},
         InHelper' => hand'.value = hand'.key
  PROVE  SelfInv'
BY DEF SelfInv, SetTarget, InHelper

LEMMA SelfHelper ==
  ASSUME IInv, SelfInv, InsertStep
  PROVE  SelfInv'
<1>0. InHelper
  BY DEF InsertStep, InsertVacant, InsertRemoved, InsertTooMany, InsertPresent,
         InsertRob, InsertPass
<1>1. /\ Target.sz \in Nat \ {0} /\ Target \in TableOf(Target.sz) /\ hand.key \in Key
      /\ hand.value \in Value /\ hand.value = hand.key /\ hand.probes \in Nat
      /\ SelfTable(Target)
      /\ hand \in HandType(Target.sz)
      /\ \A s \in Live(Target) : s \in SlotsOf(Target.sz)
  BY <1>0, LoopFacts DEF InHelper, IInv, HandInv, SelfInv, Target, Live
<1>2. CASE InsertVacant
  <2>1. PICK s \in SlotsOf(Target.sz), p \in Nat \ {0} :
          s \notin Live(Target) /\ SetTarget(Occupy(Target, hand, s, p))
    BY <1>2, VacantWrites
  <2>2. SelfTable(Occupy(Target, hand, s, p))
    BY <1>1, OccupyFields DEF SelfTable
  <2>3. pc' = IF pc = "reinsert" THEN "rehash" ELSE "idle"
    BY <1>2 DEF InsertVacant, HelperReturns, Return
  <2>4. pc = "reinsert" => call' = call
    BY <1>2 DEF InsertVacant, HelperReturns
  <2> QED
    BY <1>0, <2>1, <2>2, <2>3, <2>4, SelfTarget DEF InHelper
<1>3. CASE InsertPresent
  <2>1. pc' = IF pc = "reinsert" THEN "rehash" ELSE "idle"
    BY <1>3 DEF InsertPresent, HelperReturns, Return
  <2>2. pc = "reinsert" => call' = call
    BY <1>3 DEF InsertPresent, HelperReturns
  <2>3. SetTarget(Target)
    BY <1>3, PresentGood
  <2> QED
    BY <1>0, <1>1, <2>1, <2>2, <2>3, SelfTarget DEF InHelper
<1>4. CASE InsertRob
  <2>1. /\ At \in Live(Target) /\ Here = Target.slots[At]
        /\ SetTarget(Displace(Target, hand, At))
        /\ hand'.key = Here.key /\ hand'.value = Here.value
        /\ UNCHANGED <<pc, call>>
    BY <1>4, RobWrites
  <2>2. SelfTable(Displace(Target, hand, At))
    BY <1>1, <2>1, DisplaceFields DEF SelfTable
  <2>3. hand'.value = hand'.key
    BY <1>1, <2>1 DEF SelfTable
  <2> QED
    BY <1>0, <2>1, <2>2, <2>3, SelfTarget DEF InHelper
<1>5. CASE InsertRemoved \/ InsertPass
  <2>1. UNCHANGED <<map, new, pc, call>> /\ hand'.key = hand.key /\ hand'.value = hand.value
    BY <1>1, <1>5 DEF InsertRemoved, InsertPass, HandType
  <2> QED
    BY <1>1, <2>1 DEF SelfInv, InHelper
<1>6. CASE InsertTooMany
  <2>1. (pc = "insert" /\ ~retry) \/ pc' = "error"
    BY <1>0, <1>6 DEF InsertTooMany, InHelper
  <2>2. CASE pc' = "error"
    BY <1>6, <2>2 DEF InsertTooMany, SelfInv, InHelper
  <2>3. CASE pc = "insert" /\ ~retry
    <3>1. /\ pc' = "rehash" /\ new' = EmptyTable(NewSize(map.sz)) /\ UNCHANGED <<map, call>>
      BY <1>6, <2>3 DEF InsertTooMany, BeginResize
    <3>2. NewSize(map.sz) \in Nat \ {0}
      BY DEF IInv, TypeOK, NewSize
    <3>3. SelfTable(new')
      BY <3>1, <3>2, EmptyTableInv DEF SelfTable
    <3> QED
      BY <2>3, <3>1, <3>3 DEF SelfInv, InHelper
  <2> QED
    BY <2>1, <2>2, <2>3
<1> QED
  BY <1>2, <1>3, <1>4, <1>5, <1>6 DEF InsertStep

LEMMA SelfInternal ==
  ASSUME IInv, SelfInv, Internal
  PROVE  SelfInv'
<1>1. CASE ProbeVacant \/ ProbeNext
  BY <1>1 DEF ProbeVacant, ProbeNext, Return, SelfInv, InHelper
<1>2. CASE ProbeFound
  <2>1. /\ map' \in {map, Unlink(map, At)} /\ At \in Live(map) /\ pc' = "idle"
    BY <1>2, RemoveWrites
  <2>2. map.sz \in Nat \ {0} /\ map \in TableOf(map.sz)
    BY DEF IInv, TypeOK
  <2>3. \A s \in Live(map) : s \in SlotsOf(map.sz)
    BY DEF Live
  <2>4. SelfTable(Unlink(map, At))
    BY <2>1, <2>2, <2>3, UnlinkFields DEF SelfInv, SelfTable
  <2> QED
    BY <2>1, <2>4 DEF SelfInv, InHelper
<1>3. CASE InsertStep
  BY <1>3, SelfHelper
<1>4. CASE ReinsertNext
  <2>1. /\ pc = "rehash" /\ pc' = "reinsert" /\ UNCHANGED <<map, new, call>> /\ it # Nil
        /\ hand' = Fresh(map.slots[it].key, map.slots[it].value)
    BY <1>4 DEF ReinsertNext
  <2>2. it \in Live(map)
    BY <2>1 DEF IInv, ResizeInv
  <2>3. hand'.value = hand'.key
    BY <2>1, <2>2 DEF SelfInv, SelfTable, Fresh
  <2> QED
    BY <2>1, <2>3 DEF SelfInv
<1>5. CASE EndResize
  <2>1. /\ pc = "rehash" /\ pc' = "insert" /\ map' = new /\ call' = call
        /\ hand' = Fresh(call.key, call.value)
    BY <1>5 DEF EndResize
  <2> QED
    BY <2>1 DEF SelfInv, Fresh
<1> QED
  BY <1>1, <1>2, <1>3, <1>4, <1>5 DEF Internal
-----------------------------------------------------------------------------
(* No pointer twice. *)

\* The steps of an insertion whose pointer is not in the table.
LEMMA UniqueAbsent ==
  ASSUME IInv, DistinctKeys(map), pc = "insert", hand.key \notin KeysOf(map), InsertStep
  PROVE  UniqueInv'
<1>1. /\ map.sz \in Nat \ {0} /\ map \in TableOf(map.sz) /\ hand.key \in Key /\ Target = map
      /\ hand.value \in Value /\ hand.probes \in Nat
      /\ hand \in HandType(map.sz)
      /\ \A s \in Live(map) : s \in SlotsOf(map.sz)
      /\ \A s \in Live(map) : map.slots[s].key # hand.key
  BY LoopFacts DEF InHelper, IInv, HandInv, Target, Live, KeysOf
<1>2. CASE InsertVacant
  <2>1. PICK s \in SlotsOf(map.sz), p \in Nat \ {0} :
          s \notin Live(map) /\ SetTarget(Occupy(map, hand, s, p))
    BY <1>1, <1>2, VacantWrites
  <2> DEFINE u == Occupy(map, hand, s, p)
  <2>a. /\ Live(u) = Live(map) \union {s}
        /\ \A i \in SlotsOf(map.sz) :
             u.slots[i].key = IF i = s THEN hand.key ELSE map.slots[i].key
    BY <1>1, OccupyFields
  <2>2. DistinctKeys(u)
    <3> HIDE DEF u
    <3> QED
      BY <1>1, <2>1, <2>a DEF DistinctKeys
  <2>3. pc' = "idle"
    BY <1>2 DEF InsertVacant, HelperReturns, Return
  <2> QED
    BY <2>1, <2>2, <2>3 DEF SetTarget, UniqueInv
<1>3. CASE InsertPresent
  <2>1. pc' = "idle" /\ map' = map
    BY <1>3 DEF InsertPresent, HelperReturns, Return
  <2> QED
    BY <2>1 DEF UniqueInv
<1>4. CASE InsertRob
  <2> DEFINE u == Displace(map, hand, At)
  <2>1. /\ At \in Live(map) /\ Here = map.slots[At] /\ SetTarget(u)
        /\ hand'.key = Here.key
    BY <1>1, <1>4, RobWrites
  <2>2. /\ Live(u) = Live(map)
        /\ \A i \in Live(map) :
             u.slots[i].key = IF i = At THEN hand.key ELSE map.slots[i].key
    BY <1>1, <2>1, DisplaceFields
  <2>3. map' = u
    BY <2>1 DEF SetTarget
  <2> HIDE DEF u
  <2>4. DistinctKeys(u)
    BY <1>1, <2>1, <2>2 DEF DistinctKeys
  <2>5. hand'.key \notin KeysOf(u)
    BY <1>1, <2>1, <2>2 DEF DistinctKeys, KeysOf
  <2> QED
    BY <2>3, <2>4, <2>5 DEF UniqueInv
<1>5. CASE InsertRemoved \/ InsertPass
  <2>1. map' = map /\ hand'.key = hand.key
    BY <1>1, <1>5 DEF InsertRemoved, InsertPass, HandType
  <2> QED
    BY <2>1 DEF UniqueInv
<1>6. CASE InsertTooMany
  <2>1. map' = map /\ pc' \in {"rehash", "error"}
    BY <1>6 DEF InsertTooMany, BeginResize
  <2> QED
    BY <2>1 DEF UniqueInv
<1> QED
  BY <1>2, <1>3, <1>4, <1>5, <1>6 DEF InsertStep

LEMMA UniqueInternal ==
  ASSUME IInv, CleanInv, UniqueInv, Internal
  PROVE  UniqueInv'
<1>1. CASE ProbeVacant \/ ProbeNext \/ ReinsertNext
  BY <1>1 DEF ProbeVacant, ProbeNext, ReinsertNext, Return, UniqueInv
<1>2. CASE ProbeFound
  <2>1. /\ map' \in {map, Unlink(map, At)} /\ At \in Live(map) /\ pc' = "idle"
    BY <1>2, RemoveWrites
  <2>2. /\ map.sz \in Nat \ {0} /\ map \in TableOf(map.sz)
        /\ \A s \in Live(map) : s \in SlotsOf(map.sz)
    BY DEF IInv, TypeOK, Live
  <2>3. DistinctKeys(Unlink(map, At))
    BY <2>1, <2>2, UnlinkFields DEF UniqueInv, DistinctKeys
  <2> QED
    BY <2>1, <2>3 DEF UniqueInv
<1>3. CASE InsertStep /\ pc = "reinsert"
  <2>1. pc' # "insert"
    BY <1>3 DEF InsertStep, InsertVacant, InsertRemoved, InsertTooMany, InsertPresent,
                InsertRob, InsertPass, HelperReturns
  <2>2. map' = map
    BY <1>3 DEF InsertStep, InsertVacant, InsertRemoved, InsertTooMany, InsertPresent,
                InsertRob, InsertPass, SetTarget
  <2> QED
    BY <2>1, <2>2 DEF UniqueInv
<1>4. CASE InsertStep /\ pc = "insert" /\ hand.key \notin KeysOf(map)
  BY <1>4, UniqueAbsent DEF UniqueInv
<1>5. CASE InsertStep /\ pc = "insert" /\ GoodTable(map) /\ Placed(map, hand)
  <2>1. PICK t : /\ SetTarget(t) /\ GoodTable(t)
                 /\ \/ HelperReturns(TRUE) \/ HelperReturns(FALSE)
                    \/ Placed(t, hand') /\ UNCHANGED <<pc, retry>>
    BY <1>5, HelperGood DEF Target
  <2>2. map' = t
    BY <1>5, <2>1 DEF SetTarget
  <2>3. CASE HelperReturns(TRUE) \/ HelperReturns(FALSE)
    BY <1>5, <2>1, <2>2, <2>3 DEF HelperReturns, Return, UniqueInv, GoodTable
  <2>4. CASE Placed(t, hand') /\ UNCHANGED <<pc, retry>>
    BY <2>1, <2>2, <2>4 DEF UniqueInv, GoodTable
  <2> QED
    BY <2>1, <2>3, <2>4
<1>6. CASE EndResize
  <2>1. GoodTable(map') /\ pc' = "insert" /\ Placed(map', hand')
    BY <1>6, FreshPlaced DEF EndResize, CleanInv
  <2> QED
    BY <2>1 DEF UniqueInv, GoodTable
<1>7. InsertStep => pc \in {"insert", "reinsert"}
  BY DEF InsertStep, InsertVacant, InsertRemoved, InsertTooMany, InsertPresent,
         InsertRob, InsertPass, InHelper
<1> QED
  BY <1>1, <1>2, <1>3, <1>4, <1>5, <1>6, <1>7 DEF Internal, UniqueInv
-----------------------------------------------------------------------------
(* The list during a loop. *)

\* At the start: first leads to all pointers due.
LEMMA OrderStart ==
  ASSUME NEW n \in Nat \ {0}, NEW t \in TableOf(n), TableInv(t)
  PROVE  LET d == IterKeys(t) IN
         /\ d \in Seq(Key)
         /\ Distinct(d) => DistinctKeys(t) /\ Ordered(t, d, 0) /\ DueAt(t, d, 1, t.first)
<1> DEFINE w == Walk(t)
           d == IterKeys(t)
<1>1. w \in Seq(Live(t)) /\ ListOK(t)
  BY ListIsOK
<1> DEFINE m == Len(w)
<1>2. /\ {w[i] : i \in DOMAIN w} = Live(t)
      /\ \A i \in DOMAIN w : t.slots[w[i]].prev = IF i = 1 THEN Nil ELSE w[i-1]
      /\ t.last = IF w = << >> THEN Nil ELSE w[Len(w)]
  BY <1>1 DEF ListOK
<1>3. d = [i \in DOMAIN w |-> t.slots[w[i]].key]
  BY DEF IterKeys
<1>4. LinksOK(t) /\ Nil \notin Live(t) /\ \A s \in Live(t) : t.slots[s].key \in Key
  BY DEF TableInv, PairsOK, Live, SlotsOf, Nil
<1> HIDE DEF w, d
<1>5. /\ m \in Nat /\ DOMAIN w = 1 .. m
      /\ \A i \in 1 .. m : w[i] \in Live(t)
  BY <1>1
<1>6. d = [i \in 1 .. m |-> t.slots[w[i]].key]
  BY <1>3, <1>5
<1> HIDE DEF m
<1>7. Len(d) = m /\ \A i \in 1 .. m : d[i] = t.slots[w[i]].key
  BY <1>5, <1>6
<1>8. d \in Seq(Key)
  BY <1>4, <1>5, <1>6
<1>9. ASSUME Distinct(d)
      PROVE  DistinctKeys(t) /\ Ordered(t, d, 0) /\ DueAt(t, d, 1, t.first)
  <2>1. ASSUME NEW i \in 1 .. m, NEW s \in Live(t), t.slots[s].key = d[i]
        PROVE  s = w[i]
    <3>1. PICK j \in 1 .. m : w[j] = s
      BY <1>2, <1>5
    <3>2. d[j] = d[i]
      BY <1>7, <2>1, <3>1
    <3>3. DOMAIN d = 1 .. m
      BY <1>6
    <3>4. i = j
      BY <1>9, <3>2, <3>3 DEF Distinct
    <3> QED
      BY <3>1, <3>4
  <2>2. \A s \in Live(t) : \E i \in 1 .. m : t.slots[s].key = d[i]
    <3> SUFFICES ASSUME NEW s \in Live(t) PROVE \E i \in 1 .. m : t.slots[s].key = d[i]
      OBVIOUS
    <3>1. PICK j \in 1 .. m : w[j] = s
      BY <1>2, <1>5
    <3> QED
      BY <1>7, <3>1
  <2>3. DistinctKeys(t)
    BY <2>1, <2>2 DEF DistinctKeys
  <2>4. ASSUME NEW i \in 1 .. m PROVE DueAt(t, d, i + 1, t.slots[w[i]].next)
    <3>1. CASE i = m
      <4>1. t.last = w[m] /\ w[m] \in Live(t)
        BY <1>2, <1>5, <2>4, <3>1 DEF m
      <4>2. t.slots[w[i]].next = Nil
        BY <1>4, <3>1, <4>1 DEF LinksOK
      <4>3. i + 1 > Len(d)
        BY <1>5, <1>7, <3>1
      <4> QED
        BY <4>2, <4>3 DEF DueAt
    <3>2. CASE i # m
      <4>1. i + 1 \in 1 .. m /\ ~(i + 1 > m) /\ i + 1 # 1 /\ (i + 1) - 1 = i
        BY <1>5, <3>2
      <4>2. t.slots[w[i+1]].prev = w[i]
        BY <1>2, <1>5, <4>1
      <4>3. t.slots[w[i]].next = w[i+1]
        BY <1>4, <1>5, <4>1, <4>2 DEF LinksOK
      <4> QED
        BY <1>5, <1>7, <4>1, <4>3 DEF DueAt
    <3> QED
      BY <3>1, <3>2
  <2>5. Ordered(t, d, 0)
    <3>1. \A i \in 1 .. m : \A s \in Live(t) :
            t.slots[s].key = d[i] => DueAt(t, d, i + 1, t.slots[s].next)
      BY <2>1, <2>4
    <3>2. (0 + 1) .. Len(d) = 1 .. m
      BY <1>5, <1>7
    <3> QED
      BY <1>7, <2>2, <3>1, <3>2 DEF Ordered
  <2>6. DueAt(t, d, 1, t.first)
    <3>1. CASE m = 0
      <4>1. Live(t) = {}
        BY <1>2, <1>5, <3>1
      <4> QED
        BY <1>4, <1>7, <3>1, <4>1 DEF LinksOK, DueAt
    <3>2. CASE m # 0
      <4>1. 1 \in 1 .. m /\ ~(1 > m)
        BY <1>5, <3>2
      <4>2. w[1] = t.first
        BY <1>2, <1>4, <1>5, <4>1 DEF LinksOK
      <4> QED
        BY <1>5, <1>7, <4>1, <4>2 DEF DueAt
    <3> QED
      BY <3>1, <3>2
  <2> QED
    BY <2>3, <2>5, <2>6
<1> QED
  BY <1>8, <1>9 DEF d

\* The next pointer due is met.
LEMMA OrderVisit ==
  ASSUME NEW t, DistinctKeys(t), NEW d \in Seq(Key), NEW n \in Nat, n <= Len(d),
         Ordered(t, d, n), NEW s, s # Nil, DueAt(t, d, n + 1, s)
  PROVE  /\ n + 1 <= Len(d)
         /\ t.slots[s].key = d[n + 1]
         /\ Ordered(t, d, n + 1)
         /\ LeadsOn(t, d, n + 1, s)
<1>1. Len(d) \in Nat
  OBVIOUS
<1> DEFINE m == Len(d)
<1> HIDE DEF m
<1>2. n + 1 <= m /\ s \in Live(t) /\ t.slots[s].key = d[n + 1]
  BY <1>1 DEF DueAt, m
<1>3. n + 1 \in (n + 1) .. m
  BY <1>1, <1>2 DEF m
<1>4. DueAt(t, d, (n + 1) + 1, t.slots[s].next)
  BY <1>2, <1>3 DEF Ordered, m
<1>5. \A r \in Live(t) : t.slots[r].key = d[n + 1] => r = s
  BY <1>2 DEF DistinctKeys
<1>6. \A i \in ((n + 1) + 1) .. m : i \in (n + 1) .. m
  BY <1>1 DEF m
<1>7. Ordered(t, d, n + 1)
  BY <1>6 DEF Ordered, m
<1> QED
  BY <1>2, <1>4, <1>5, <1>7 DEF LeadsOn, m

\* The entry just met is unlinked.
LEMMA OrderUnlink ==
  ASSUME NEW z \in Nat \ {0}, NEW t \in TableOf(z), TableInv(t), DistinctKeys(t),
         NEW d \in Seq(Key), Distinct(d), NEW n \in 1 .. Len(d), Ordered(t, d, n),
         NEW s \in Live(t), LeadsOn(t, d, n, s)
  PROVE  LET u == Unlink(t, s)
         IN  DistinctKeys(u) /\ Ordered(u, d, n) /\ LeadsOn(u, d, n, s)
<1> DEFINE u == Unlink(t, s)
           m == Len(d)
<1>1. /\ \A i \in SlotsOf(z) :
           /\ u.slots[i].key = t.slots[i].key
           /\ u.slots[i].next = IF t.first # s /\ i = t.slots[s].prev
                                  THEN t.slots[s].next ELSE t.slots[i].next
      /\ Live(u) = Live(t) \ {s}
  BY UnlinkFields
<1>2. LinksOK(t) /\ Connected(t) /\ \A i \in Live(t) : i \in SlotsOf(z)
  BY TableFields DEF TableInv, Live
<1>3. t.slots[s].prev # s
  BY <1>2, NoSelfLink
<1> HIDE DEF u
<1>4. m \in Nat /\ n \in 1 .. m /\ \A i, j \in 1 .. m : d[i] = d[j] => i = j
  BY DEF Distinct
<1> HIDE DEF m
<1>5. ASSUME NEW i \in (n + 1) .. m, NEW r, DueAt(t, d, i, r)
      PROVE  DueAt(u, d, i, r)
  <2>1. i \in 1 .. m /\ i # n /\ ~(i > m)
    BY <1>4
  <2>2. r \in Live(t) /\ t.slots[r].key = d[i]
    BY <1>5, <2>1 DEF DueAt, m
  <2>3. r # s
    BY <1>4, <2>1, <2>2 DEF LeadsOn
  <2> QED
    BY <1>1, <1>2, <2>1, <2>2, <2>3 DEF DueAt, m
<1>6. ASSUME NEW i \in (n + 1) .. (m + 1), NEW r, DueAt(t, d, i, r)
      PROVE  DueAt(u, d, i, r)
  <2>1. CASE i \in (n + 1) .. m
    BY <1>5, <1>6, <2>1
  <2>2. CASE i = m + 1
    <3>1. i > m
      BY <1>4, <2>2
    <3> QED
      BY <1>6, <3>1 DEF DueAt, m
  <2> QED
    BY <1>4, <2>1, <2>2
\* The entry before s led to s, so it is not one that leads to what is left.
<1>7. ASSUME NEW i \in (n + 1) .. m, NEW r \in Live(t), t.slots[r].key = d[i]
      PROVE  u.slots[r].next = t.slots[r].next
  <2>1. DueAt(t, d, i + 1, t.slots[r].next)
    BY <1>7 DEF Ordered, m
  <2>2. t.slots[r].next # s
    <3>1. CASE i = m
      <4>1. t.slots[r].next = Nil
        BY <1>4, <2>1, <3>1 DEF DueAt, m
      <4> QED
        BY <4>1 DEF Live, SlotsOf, Nil
    <3>2. CASE i # m
      <4>1. i + 1 \in 1 .. m /\ i + 1 # n /\ ~(i + 1 > m)
        BY <1>4, <3>2
      <4>2. t.slots[t.slots[r].next].key = d[i + 1]
        BY <2>1, <4>1 DEF DueAt, m
      <4> QED
        BY <1>4, <4>1, <4>2 DEF LeadsOn
    <3> QED
      BY <3>1, <3>2
  <2>3. ~(t.first # s /\ r = t.slots[s].prev)
    <3> SUFFICES ASSUME t.first # s, r = t.slots[s].prev PROVE FALSE
      OBVIOUS
    <3>1. t.slots[s].prev # Nil
      BY <1>2 DEF LinksOK
    <3> QED
      BY <1>2, <2>2, <3>1 DEF LinksOK
  <2> QED
    BY <1>1, <1>2, <2>3
<1>8. u.slots[s].next = t.slots[s].next /\ u.slots[s].key = t.slots[s].key
  BY <1>1, <1>2, <1>3
<1>9. DistinctKeys(u)
  BY <1>1, <1>2 DEF DistinctKeys
<1>10. Ordered(u, d, n)
  <2>1. \A r \in Live(u) : \E i \in 1 .. m : u.slots[r].key = d[i]
    BY <1>1, <1>2 DEF Ordered, m
  <2>2. ASSUME NEW i \in (n + 1) .. m, NEW r \in Live(u), u.slots[r].key = d[i]
        PROVE  DueAt(u, d, i + 1, u.slots[r].next)
    <3>1. r \in Live(t) /\ t.slots[r].key = d[i]
      BY <1>1, <1>2, <2>2
    <3>2. DueAt(t, d, i + 1, t.slots[r].next) /\ i + 1 \in (n + 1) .. (m + 1)
      BY <1>4, <3>1 DEF Ordered, m
    <3> QED
      BY <1>6, <1>7, <3>1, <3>2
  <2> QED
    BY <2>1, <2>2 DEF Ordered, m
<1>11. LeadsOn(u, d, n, s)
  <2>1. DueAt(t, d, n + 1, t.slots[s].next) /\ n + 1 \in (n + 1) .. (m + 1)
    BY <1>4 DEF LeadsOn
  <2>2. DueAt(u, d, n + 1, u.slots[s].next)
    BY <1>6, <1>8, <2>1
  <2>3. u.slots[s].key = d[n]
    BY <1>8 DEF LeadsOn
  <2>4. \A r \in Live(u) : u.slots[r].key = d[n] => r = s
    BY <1>1, <1>2 DEF LeadsOn
  <2> QED
    BY <2>2, <2>3, <2>4 DEF LeadsOn
<1> QED
  BY <1>9, <1>10, <1>11 DEF u
-----------------------------------------------------------------------------
(* The steps of the set as steps of the map. *)

LEMMA SelfInsert ==
  ASSUME NEW p \in Key, SetInsert(p)
  PROVE  InsertCall /\ Insert(p, p)
BY SetAssumption DEF SetInsert, InsertCall

LEMMA BodyRemove ==
  ASSUME LoopCalls, RemoveMet
  PROVE  \E p \in Key : Remove(p) /\ p = met[Len(met)]
BY DEF RemoveMet, SetRemove, LoopCalls

LEMMA SetStepNext == LoopInv /\ [SetNext]_setVars => [Next]_vars
<1> SUFFICES ASSUME LoopInv, [SetNext]_setVars PROVE [Next]_vars
  OBVIOUS
<1>1. CASE Call
  <2>1. CASE \E p \in Key : SetLookup(p) \/ SetRemove(p)
    BY <2>1 DEF SetLookup, SetRemove, Next, LookupCall, RemoveCall
  <2>2. CASE \E p \in Key : SetInsert(p)
    BY <2>2, SelfInsert DEF Next
  <2>3. CASE Finalize
    BY <2>3 DEF Next
  <2> QED
    BY <1>1, <2>1, <2>2, <2>3 DEF Call
<1>2. CASE SetIter \/ Loop
  BY <1>2 DEF SetIter, Loop, Visit, Advance, EndLoop
<1>3. CASE RemoveMet
  BY <1>3, BodyRemove DEF LoopInv, Next, RemoveCall
<1>4. CASE Inside
  BY <1>4 DEF Inside, Next
<1>5. CASE UNCHANGED setVars
  BY <1>5 DEF setVars
<1> QED
  BY <1>1, <1>2, <1>3, <1>4, <1>5 DEF SetNext

\* A step of the map in a set: a call, or a step of the code.
LEMMA SetStepKinds ==
  ASSUME LoopInv, [SetNext]_setVars
  PROVE  \/ UNCHANGED vars /\ (tidy' = tidy)
         \/ Internal /\ tidy' = tidy
         \/ Finalize /\ tidy' = tidy
         \/ \E p \in Key : Insert(p, p) /\ tidy' = (tidy /\ p \notin KeysOf(map))
         \/ \E p \in Key, op \in {"lookup", "remove"} : Find(op, p) /\ tidy' = tidy
<1>1. CASE Call
  <2>1. CASE (\E p \in Key : SetLookup(p) \/ SetRemove(p)) /\ UNCHANGED tidy
    BY <2>1 DEF SetLookup, SetRemove, Lookup, Remove
  <2>2. CASE \E p \in Key : SetInsert(p) /\ tidy' = (tidy /\ p \notin KeysOf(map))
    BY <2>2, SelfInsert
  <2>3. CASE Finalize /\ UNCHANGED tidy
    BY <2>3
  <2> QED
    BY <1>1, <2>1, <2>2, <2>3 DEF Call
<1>2. CASE SetIter \/ Loop
  BY <1>2 DEF SetIter, Loop, Visit, Advance, EndLoop
<1>3. CASE RemoveMet
  BY <1>3, BodyRemove DEF LoopInv, Remove, RemoveMet
<1>4. CASE Inside
  BY <1>4 DEF Inside
<1>5. CASE UNCHANGED setVars
  BY <1>5 DEF setVars
<1> QED
  BY <1>1, <1>2, <1>3, <1>4, <1>5 DEF SetNext

\* The entry of a call.
LEMMA EnterSelf ==
  ASSUME IInv, SelfInv, NEW p \in Key, Insert(p, p)
  PROVE  SelfInv'
<1>1. /\ map' = map /\ call'.value = call'.key /\ hand'.value = hand'.key
      /\ (new' = EmptyTable(NewSize(map.sz)) /\ pc' = "rehash") \/ pc' = "insert"
  BY DEF Insert, BeginResize, Fresh
<1>2. NewSize(map.sz) \in Nat \ {0}
  BY DEF IInv, TypeOK, NewSize
<1>3. pc' = "rehash" => SelfTable(new')
  BY <1>1, <1>2, EmptyTableInv DEF SelfTable
<1> QED
  BY <1>1, <1>3 DEF SelfInv

LEMMA SelfNext ==
  ASSUME IInv, SelfInv, LoopInv, [SetNext]_setVars
  PROVE  SelfInv'
<1>1. CASE UNCHANGED vars
  BY <1>1 DEF vars, SelfInv, InHelper
<1>2. CASE Finalize
  BY <1>2 DEF Finalize, SelfInv, InHelper
<1>3. ASSUME NEW p \in Key, NEW op, Find(op, p) PROVE SelfInv'
  BY <1>3 DEF Find, SelfInv, InHelper
<1> QED
  BY <1>1, <1>2, <1>3, SelfInternal, EnterSelf, SetStepKinds

LEMMA TidyNext ==
  ASSUME IInv, CleanInv, TidyInv, LoopInv, [SetNext]_setVars
  PROVE  TidyInv'
<1> SUFFICES ASSUME tidy' PROVE UniqueInv'
  BY DEF TidyInv
<1>1. CASE UNCHANGED vars /\ tidy' = tidy
  BY <1>1 DEF vars, TidyInv, UniqueInv
<1>2. CASE Internal /\ tidy' = tidy
  BY <1>2, UniqueInternal DEF TidyInv
<1>3. CASE Finalize /\ tidy' = tidy
  BY <1>3 DEF Finalize, TidyInv, UniqueInv
<1>4. ASSUME NEW p \in Key, Insert(p, p), tidy' = (tidy /\ p \notin KeysOf(map))
      PROVE  UniqueInv'
  BY <1>4 DEF Insert, Fresh, TidyInv, UniqueInv
<1>5. ASSUME NEW p \in Key, NEW op, Find(op, p), tidy' = tidy PROVE UniqueInv'
  BY <1>5 DEF Find, TidyInv, UniqueInv
<1> QED
  BY <1>1, <1>2, <1>3, <1>4, <1>5, SetStepKinds
-----------------------------------------------------------------------------
(* The loop: its own steps, the call of its body, and the steps of calls. *)

LEMMA LoopBegins ==
  ASSUME IInv, SetIter
  PROVE  LoopInv'
<1>1. map.sz \in Nat \ {0} /\ map \in TableOf(map.sz) /\ TableInv(map)
  BY DEF IInv, TypeOK
<1>2. /\ pc = "idle" /\ loop' = "test" /\ iter' = map.first /\ met' = << >>
      /\ due' = IterKeys(map) /\ map' = map /\ pc' = pc
  BY DEF SetIter, vars
<1>3. LoopCalls'
  <2>1. IterKeys(map) \in Seq(Key) /\ map.first \in Live(map) \union {Nil}
    BY <1>1, OrderStart DEF TableInv, LinksOK
  <2> QED
    BY <1>2, <2>1 DEF LoopCalls
<1>4. LoopOrder'
  <2> SUFFICES ASSUME Distinct(due') PROVE LoopOrder'
    BY DEF LoopOrder
  <2>1. DistinctKeys(map) /\ Ordered(map, due', 0) /\ DueAt(map, due', 1, iter')
    BY <1>1, <1>2, OrderStart
  <2>2. Len(met') = 0 /\ 1 .. Len(met') = {} /\ Len(met') <= Len(due') /\ Len(met') + 1 = 1
    <3>1. due' \in Seq(Key)
      BY <1>1, <1>2, OrderStart
    <3> QED
      BY <1>2, <3>1
  <2> QED
    BY <1>2, <2>1, <2>2 DEF LoopOrder
<1> QED
  BY <1>3, <1>4 DEF LoopInv

LEMMA LoopVisits ==
  ASSUME IInv, SelfInv, LoopInv, Visit
  PROVE  LoopInv'
<1>1. /\ loop = "test" /\ iter # Nil /\ loop' = "body"
      /\ met' = Append(met, map.slots[iter].value)
      /\ map' = map /\ pc' = pc /\ iter' = iter /\ due' = due
  BY DEF Visit, Has, vars
<1>2. /\ due \in Seq(Key) /\ met \in Seq(Key) /\ iter \in Live(map) /\ pc = "idle"
  BY <1>1 DEF LoopInv, LoopCalls
<1>3. map.slots[iter].value = map.slots[iter].key /\ map.slots[iter].key \in Key
  BY <1>2 DEF SelfInv, SelfTable, IInv, TableInv, PairsOK
<1>4. /\ met' \in Seq(Key) /\ Len(met') = Len(met) + 1 /\ Len(met) \in Nat /\ Len(met') > 0
      /\ \A i \in 1 .. Len(met) : met'[i] = met[i]
      /\ met'[Len(met) + 1] = map.slots[iter].key
  BY <1>1, <1>2, <1>3
<1>5. LoopCalls'
  BY <1>1, <1>2, <1>4 DEF LoopCalls
<1>6. LoopOrder'
  <2> SUFFICES ASSUME Distinct(due) PROVE LoopOrder'
    BY <1>1 DEF LoopOrder
  <2>1. /\ DistinctKeys(map) /\ Len(met) <= Len(due) /\ Ordered(map, due, Len(met))
        /\ \A i \in 1 .. Len(met) : met[i] = due[i]
        /\ DueAt(map, due, Len(met) + 1, iter)
    BY <1>1 DEF LoopInv, LoopOrder
  <2>2. /\ Len(met) + 1 <= Len(due) /\ map.slots[iter].key = due[Len(met) + 1]
        /\ Ordered(map, due, Len(met) + 1) /\ LeadsOn(map, due, Len(met) + 1, iter)
    BY <1>1, <1>2, <1>4, <2>1, OrderVisit
  <2>3. \A i \in 1 .. (Len(met) + 1) : i \in 1 .. Len(met) \/ i = Len(met) + 1
    BY <1>4
  <2>4. \A i \in 1 .. Len(met') : met'[i] = due[i]
    BY <1>4, <2>1, <2>2, <2>3
  <2> QED
    BY <1>1, <1>4, <2>1, <2>2, <2>4 DEF LoopOrder
<1> QED
  BY <1>5, <1>6 DEF LoopInv

\* inc follows the next link, also of an entry that is unlinked.
LEMMA LoopAdvances ==
  ASSUME IInv, LoopInv, Advance
  PROVE  LoopInv'
<1>1. /\ loop = "body" /\ pc = "idle" /\ loop' = "test" /\ iter' = map.slots[iter].next
      /\ map' = map /\ pc' = pc /\ met' = met /\ due' = due
  BY DEF Advance, Inc, vars
<1>2. iter' \in Live(map) \union {Nil}
  BY <1>1 DEF LoopInv, LoopCalls, IInv, TableInv, LinksOK
<1>3. LoopCalls'
  BY <1>1, <1>2 DEF LoopInv, LoopCalls
<1>4. LoopOrder'
  BY <1>1 DEF LoopInv, LoopOrder, LeadsOn
<1> QED
  BY <1>3, <1>4 DEF LoopInv

\* The body calls set_remove: the iterator stands on an entry that is live.
LEMMA LoopRemoves ==
  ASSUME IInv, LoopInv, RemoveMet
  PROVE  LoopInv'
<1>1. PICK p \in Key : Remove(p) /\ p = met[Len(met)]
  BY BodyRemove DEF LoopInv
<1>2. /\ map' = map /\ pc' = "probe" /\ call'.key = p
      /\ loop = "body" /\ map.slots[iter].probes # Removed
      /\ UNCHANGED loopVars
  BY <1>1 DEF Remove, Find, RemoveMet
<1>3. LoopCalls'
  BY <1>1, <1>2 DEF LoopInv, LoopCalls, loopVars
<1>4. LoopOrder'
  BY <1>2 DEF LoopInv, LoopOrder, loopVars
<1> QED
  BY <1>3, <1>4 DEF LoopInv

\* It finds the entry and unlinks it, or another one with that pointer.
LEMMA LoopUnlinks ==
  ASSUME IInv, LoopInv, loop # "none", ProbeFound, UNCHANGED loopVars
  PROVE  LoopInv'
<1>1. /\ map' \in {map, Unlink(map, At)} /\ At \in Live(map)
      /\ map.slots[At].key = call.key /\ pc = "probe" /\ pc' = "idle"
  BY RemoveWrites
<1>2. /\ loop = "body" /\ call.key = met[Len(met)] /\ iter \in Live(map)
      /\ due \in Seq(Key) /\ met \in Seq(Key) /\ Len(met) > 0
  BY <1>1 DEF LoopInv, LoopCalls
<1>3. CASE map' = map
  <2>1. LoopCalls'
    BY <1>1, <1>2, <1>3 DEF LoopInv, LoopCalls, loopVars
  <2>2. LoopOrder'
    BY <1>3 DEF LoopInv, LoopOrder, loopVars
  <2> QED
    BY <2>1, <2>2 DEF LoopInv
<1>4. CASE map' = Unlink(map, At)
  <2>1. /\ map.sz \in Nat \ {0} /\ map \in TableOf(map.sz) /\ TableInv(map)
        /\ iter \in SlotsOf(map.sz)
    BY <1>2 DEF IInv, TypeOK, Live
  <2> DEFINE u == Unlink(map, At)
  <2>2. /\ u.sz = map.sz /\ Live(u) = Live(map) \ {At}
        /\ \A i \in SlotsOf(map.sz) :
             /\ u.slots[i].probes = IF i = At THEN Removed ELSE map.slots[i].probes
             /\ u.slots[i].next = IF map.first # At /\ i = map.slots[At].prev
                                    THEN map.slots[At].next ELSE map.slots[i].next
    BY <1>1, <2>1, UnlinkFields
  <2>u. map' = u
    BY <1>4
  <2> HIDE DEF u
  <2>3. LoopCalls'
    <3>1. CASE iter # At
      BY <1>1, <1>2, <2>u, <2>2, <3>1 DEF LoopCalls, loopVars
    <3>2. CASE iter = At
      <4>1. /\ map.slots[At].prev # At /\ map.slots[At].next # At
            /\ map.slots[At].next \in Live(map) \union {Nil}
        BY <1>1, <2>1, NoSelfLink DEF TableInv, LinksOK
      <4>2. u.slots[iter].next \in Live(u) \union {Nil} /\ u.slots[iter].probes = Removed
        BY <2>1, <2>2, <3>2, <4>1
      <4> QED
        BY <1>1, <1>2, <2>1, <2>u, <2>2, <4>2 DEF LoopCalls, loopVars
    <3> QED
      BY <3>1, <3>2
  <2>4. LoopOrder'
    <3> SUFFICES ASSUME Distinct(due) PROVE LoopOrder'
      BY DEF LoopOrder, loopVars
    <3>1. /\ DistinctKeys(map) /\ Len(met) <= Len(due) /\ Ordered(map, due, Len(met))
          /\ \A i \in 1 .. Len(met) : met[i] = due[i]
          /\ LeadsOn(map, due, Len(met), iter)
      BY <1>2 DEF LoopInv, LoopOrder
    <3>2. Len(met) \in 1 .. Len(due)
      BY <1>2, <3>1
    <3>3. At = iter
      BY <1>1, <1>2, <3>1, <3>2 DEF LeadsOn
    <3>4. DistinctKeys(u) /\ Ordered(u, due, Len(met)) /\ LeadsOn(u, due, Len(met), iter)
      BY <1>2, <2>1, <3>1, <3>2, <3>3, OrderUnlink DEF u
    <3> QED
      BY <1>2, <2>u, <3>1, <3>4 DEF LoopOrder, loopVars
  <2> QED
    BY <2>3, <2>4 DEF LoopInv
<1> QED
  BY <1>1, <1>3, <1>4

LEMMA LoopNext ==
  ASSUME IInv, SelfInv, LoopInv, [SetNext]_setVars
  PROVE  LoopInv'
<1>1. CASE Call
  BY <1>1 DEF Call, loopVars, LoopInv, LoopCalls, LoopOrder
<1>2. CASE EndLoop
  BY <1>2 DEF EndLoop, LoopInv, LoopCalls, LoopOrder
<1>3. CASE Inside
  <2>1. CASE loop = "none"
    BY <1>3, <2>1 DEF Inside, loopVars, LoopInv, LoopCalls, LoopOrder
  <2>2. CASE loop # "none" /\ ProbeFound
    BY <1>3, <2>2, LoopUnlinks DEF Inside
  <2>3. CASE loop # "none" /\ (ProbeVacant \/ ProbeNext)
    <3>1. /\ map' = map /\ pc = "probe" /\ UNCHANGED loopVars
          /\ pc' = "idle" \/ (pc' = pc /\ call' = call)
      BY <1>3, <2>3 DEF ProbeVacant, ProbeNext, Return, Inside
    <3>2. LoopCalls'
      BY <2>3, <3>1 DEF LoopInv, LoopCalls, loopVars
    <3>3. LoopOrder'
      BY <3>1 DEF LoopInv, LoopOrder, loopVars
    <3> QED
      BY <3>2, <3>3 DEF LoopInv
  <2>4. loop # "none" => pc \in {"idle", "probe"}
    BY DEF LoopInv, LoopCalls
  <2>5. InsertStep \/ ReinsertNext \/ EndResize => pc \notin {"idle", "probe"}
    BY DEF InsertStep, InsertVacant, InsertRemoved, InsertTooMany, InsertPresent,
           InsertRob, InsertPass, InHelper, ReinsertNext, EndResize
  <2> QED
    BY <1>3, <2>1, <2>2, <2>3, <2>4, <2>5 DEF Inside, Internal
<1>4. CASE UNCHANGED setVars
  <2>1. LoopCalls'
    BY <1>4 DEF setVars, vars, loopVars, LoopInv, LoopCalls
  <2>2. LoopOrder'
    BY <1>4 DEF setVars, vars, loopVars, LoopInv, LoopOrder
  <2> QED
    BY <2>1, <2>2 DEF LoopInv
<1> QED
  BY <1>1, <1>2, <1>3, <1>4, LoopBegins, LoopVisits, LoopAdvances, LoopRemoves
     DEF SetNext, Loop

-----------------------------------------------------------------------------
(* What a tidy client keeps. *)

LEMMA CallNext ==
  ASSUME IInv, CleanInv, CallInv, [Next]_vars
  PROVE  CallInv'
<1>1. CASE InsertCall
  BY <1>1 DEF InsertCall, Insert, BeginResize, CallInv
<1>2. ASSUME NEW k \in Key, NEW op \in {"lookup", "remove"}, Find(op, k) PROVE CallInv'
  BY <1>2 DEF Find, CallInv
<1>3. CASE ProbeVacant \/ ProbeFound
  BY <1>3 DEF ProbeVacant, ProbeFound, Return, CallInv
<1>4. CASE ProbeNext \/ ReinsertNext \/ EndResize \/ Finalize
  BY <1>4 DEF ProbeNext, ReinsertNext, EndResize, Finalize, CallInv
<1>5. CASE InsertTooMany
  <2>1. pc = "insert" /\ ~retry
    BY <1>5, NoTombstone DEF CleanInv, InsertTooMany, InHelper
  <2> QED
    BY <1>5, <2>1 DEF InsertTooMany, BeginResize, CallInv
<1>6. CASE InsertVacant \/ InsertPresent
  BY <1>6 DEF InsertVacant, InsertPresent, HelperReturns, Return, InHelper, CallInv
<1>7. CASE InsertRemoved \/ InsertRob \/ InsertPass
  BY <1>7 DEF InsertRemoved, InsertRob, InsertPass, InHelper, CallInv
<1>8. CASE UNCHANGED vars
  BY <1>8 DEF vars, CallInv
<1> QED
  BY <1>1, <1>2, <1>3, <1>4, <1>5, <1>6, <1>7, <1>8
     DEF Next, LookupCall, RemoveCall, Lookup, Remove, Internal, InsertStep

\* A pointer that is not in the table takes a slot, for good or from another.
LEMMA OwnVacant ==
  ASSUME IInv, UniqueInv, pc = "insert", InsertVacant
  PROVE  /\ hand.key \notin KeysOf(map)
         /\ KeysOf(map') = KeysOf(map) \union {hand.key}
         /\ Worn' => Worn
         /\ pc' = "idle" /\ call' = NoCall /\ ~retry' /\ ret' = TRUE
<1>1. /\ map.sz \in Nat \ {0} /\ map \in TableOf(map.sz) /\ hand.key \in Key /\ Target = map
      /\ hand.value \in Value
      /\ \A s \in Live(map) : s \in SlotsOf(map.sz)
  BY LoopFacts DEF InHelper, IInv, HandInv, Target, Live
<1>2. hand.key \notin KeysOf(map)
  BY <1>1, VacantGood DEF UniqueInv
<1>3. PICK s \in SlotsOf(map.sz), p \in Nat \ {0} :
        s \notin Live(map) /\ SetTarget(Occupy(map, hand, s, p))
  BY <1>1, VacantWrites
<1> DEFINE u == Occupy(map, hand, s, p)
<1>4. /\ Live(u) = Live(map) \union {s} /\ u.sz = map.sz
      /\ \A i \in SlotsOf(map.sz) :
           /\ u.slots[i].key = IF i = s THEN hand.key ELSE map.slots[i].key
           /\ u.slots[i].probes = IF i = s THEN p ELSE map.slots[i].probes
  BY <1>1, OccupyFields
<1>5. map' = u
  BY <1>3 DEF SetTarget
<1> HIDE DEF u
<1>6. KeysOf(u) = KeysOf(map) \union {hand.key}
  BY <1>1, <1>3, <1>4 DEF KeysOf
<1>7. Worn' => Worn
  BY <1>3, <1>4, <1>5 DEF Worn, Removed
<1>8. pc' = "idle" /\ call' = NoCall /\ ~retry' /\ ret' = TRUE
  BY DEF InsertVacant, HelperReturns, Return
<1> QED
  BY <1>2, <1>5, <1>6, <1>7, <1>8

LEMMA OwnRob ==
  ASSUME IInv, UniqueInv, pc = "insert", InsertRob
  PROVE  /\ hand.key \notin KeysOf(map)
         /\ hand'.key \in KeysOf(map)
         /\ KeysOf(map') = (KeysOf(map) \ {hand'.key}) \union {hand.key}
         /\ Worn' <=> Worn
         /\ UNCHANGED <<pc, call, retry, ret>>
<1>1. /\ map.sz \in Nat \ {0} /\ map \in TableOf(map.sz) /\ hand.key \in Key /\ Target = map
      /\ hand.value \in Value /\ hand.probes \in Nat
      /\ \A s \in Live(map) : s \in SlotsOf(map.sz)
  BY LoopFacts DEF InHelper, IInv, HandInv, Target, Live
<1>2. hand.key \notin KeysOf(map)
  BY <1>1, RobGood DEF UniqueInv
<1> DEFINE u == Displace(map, hand, At)
<1>3. /\ At \in Live(map) /\ SetTarget(u) /\ hand'.key = map.slots[At].key
  BY <1>1, RobWrites
<1>4. /\ Live(u) = Live(map) /\ u.sz = map.sz
      /\ \A i \in SlotsOf(map.sz) :
           /\ u.slots[i].key = IF i = At THEN hand.key ELSE map.slots[i].key
           /\ u.slots[i].probes = IF i = At THEN hand.probes + 1 ELSE map.slots[i].probes
  BY <1>1, <1>3, DisplaceFields
<1>5. map' = u
  BY <1>3 DEF SetTarget
<1> HIDE DEF u
<1>6. KeysOf(u) = (KeysOf(map) \ {hand'.key}) \union {hand.key}
  BY <1>1, <1>2, <1>3, <1>4 DEF KeysOf, UniqueInv, DistinctKeys
<1>7. Worn' <=> Worn
  <2>1. map.slots[At].probes # Removed /\ hand.probes + 1 # Removed
    BY <1>1, <1>3 DEF Live, Removed
  <2> QED
    BY <1>3, <1>4, <1>5, <2>1 DEF Worn
<1>8. hand'.key \in KeysOf(map)
  BY <1>3 DEF KeysOf
<1> QED
  BY <1>2, <1>5, <1>6, <1>7, <1>8 DEF InsertRob

\* A pointer that is in the table is the insertion's own, met again.
LEMMA OwnPresent ==
  ASSUME IInv, OwnInv, pc = "insert", InsertPresent
  PROVE  /\ hand.key = call.key /\ call.key \in KeysOf(map) /\ retry
         /\ map' = map
         /\ pc' = "idle" /\ call' = NoCall /\ ~retry' /\ ret' = FALSE
<1>1. hand.key \in KeysOf(map)
  BY PresentGood DEF Target
<1> QED
  BY <1>1 DEF OwnInv, InsertPresent, HelperReturns, Return

\* The insertion starts over on a worn table, once.
LEMMA OwnTooMany ==
  ASSUME IInv, CleanInv, pc = "insert", InsertTooMany
  PROVE  /\ ~retry /\ Worn
         /\ BeginResize /\ retry'
         /\ UNCHANGED <<map, call, ret>>
<1>1. ~retry
  BY NoTombstone DEF CleanInv, InHelper
<1>2. Worn
  BY LoopFacts DEF InsertTooMany, Worn, Target
<1> QED
  BY <1>1, <1>2 DEF InsertTooMany

\* The probes that write nothing.
LEMMA OwnPass ==
  ASSUME IInv, InHelper, InsertRemoved \/ InsertPass
  PROVE  hand'.key = hand.key /\ UNCHANGED <<map, pc, call, retry, ret>>
BY LoopFacts DEF InsertRemoved, InsertPass, HandType, InHelper

\* The steps of _resize_table's calls of the helper.
LEMMA OwnReinsert ==
  ASSUME IInv, CleanInv, RehashInv, pc = "reinsert", InsertStep
  PROVE  /\ RehashInv' /\ map' = map /\ pc' \in {"rehash", "reinsert"}
         /\ UNCHANGED <<call, retry, ret>>
<1>1. ~InsertTooMany
  BY NoTombstone DEF CleanInv, InHelper
<1> QED
  BY <1>1, HelperRehash
     DEF InsertStep, InsertVacant, InsertRemoved, InsertPresent, InsertRob, InsertPass,
         HelperReturns

\* The next pair of the list is taken over.
LEMMA NextRehash ==
  ASSUME IInv, DistinctKeys(map), RehashInv, ReinsertNext
  PROVE  RehashInv'
<1>1. /\ pc = "rehash" /\ pc' = "reinsert" /\ it # Nil
      /\ hand' = Fresh(map.slots[it].key, map.slots[it].value)
      /\ UNCHANGED <<map, new, it>>
  BY DEF ReinsertNext
<1>2. it \in Live(map)
  BY <1>1 DEF IInv, ResizeInv
<1>3. hand'.key = map.slots[it].key /\ HandPair' = <<map.slots[it].key, map.slots[it].value>>
  BY <1>1 DEF Fresh, HandPair
<1>4. HandPair' \in PairsOf(map)
  BY <1>2, <1>3 DEF PairsOf
<1>5. Met' = Met \union {it}
  <2>1. \A s \in Live(map) : map.slots[s].key = map.slots[it].key <=> s = it
    BY <1>2 DEF DistinctKeys
  <2> QED
    BY <1>1, <1>2, <1>3, <2>1 DEF Met
<1>6. /\ PairsOf(new) \subseteq PairsOf(map)
      /\ map.first \in Met \union {it}
      /\ \A s \in Met : map.slots[s].next \in Met \union {it, Nil}
  BY <1>1 DEF RehashInv
<1> QED
  BY <1>1, <1>4, <1>5, <1>6 DEF RehashInv

\* When the iterator ends, the new table has the pointers of the old one.
LEMMA KeysKept ==
  ASSUME IInv, RehashInv, EndResize
  PROVE  KeysOf(map') = KeysOf(map)
<1>1. /\ pc = "rehash" /\ it = Nil /\ map' = new
  BY DEF EndResize
<1>2. /\ PairsOf(new) \subseteq PairsOf(map)
      /\ map.first \in Met \union {Nil}
      /\ \A s \in Met : map.slots[s].next \in Met \union {Nil}
  BY <1>1 DEF RehashInv
<1>3. Met = Live(map)
  <2>1. Connected(map) /\ Met \in SUBSET Live(map)
    BY DEF IInv, TableInv, Met
  <2> HIDE DEF Met
  <2> QED
    BY <1>2, <2>1 DEF Connected
<1>4. KeysOf(map) \subseteq KeysOf(new)
  BY <1>1, <1>3 DEF Met, KeysOf
<1>5. ASSUME NEW s \in Live(new) PROVE new.slots[s].key \in KeysOf(map)
  <2>1. <<new.slots[s].key, new.slots[s].value>> \in PairsOf(map)
    BY <1>2 DEF PairsOf
  <2>2. PICK r \in Live(map) :
          <<new.slots[s].key, new.slots[s].value>> = <<map.slots[r].key, map.slots[r].value>>
    BY <2>1 DEF PairsOf
  <2> QED
    BY <2>2 DEF KeysOf
<1> QED
  BY <1>1, <1>4, <1>5 DEF KeysOf

LEMMA OwnInternal ==
  ASSUME IInv, CleanInv, UniqueInv, OwnInv, RehashInv, Internal
  PROVE  OwnInv' /\ RehashInv'
<1>1. CASE ProbeVacant \/ ProbeNext \/ ProbeFound
  BY <1>1 DEF ProbeVacant, ProbeNext, ProbeFound, Return, OwnInv, RehashInv
<1>2. CASE InsertStep /\ pc = "insert"
  <2>1. CASE InsertVacant
    BY <1>2, <2>1, OwnVacant DEF OwnInv, RehashInv
  <2>2. CASE InsertRob
    BY <1>2, <2>2, OwnRob DEF OwnInv, RehashInv
  <2>3. CASE InsertPresent
    BY <1>2, <2>3, OwnPresent DEF OwnInv, RehashInv
  <2>4. CASE InsertTooMany
    <3>1. RehashInv' /\ pc' = "rehash" /\ retry'
      BY <1>2, <2>4, OwnTooMany, BeginResizeRehash DEF BeginResize
    <3> QED
      BY <3>1 DEF OwnInv
  <2>5. CASE InsertRemoved \/ InsertPass
    BY <1>2, <2>5, OwnPass DEF OwnInv, RehashInv, InHelper
  <2> QED
    BY <1>2, <2>1, <2>2, <2>3, <2>4, <2>5 DEF InsertStep
<1>3. CASE InsertStep /\ pc = "reinsert"
  BY <1>3, OwnReinsert DEF OwnInv
<1>4. CASE ReinsertNext
  <2>1. RehashInv'
    BY <1>4, NextRehash DEF UniqueInv
  <2> QED
    BY <1>4, <2>1 DEF ReinsertNext, OwnInv
<1>5. CASE EndResize
  <2>1. KeysOf(map') = KeysOf(map)
    BY <1>5, KeysKept
  <2>2. pc = "rehash" /\ pc' = "insert" /\ hand'.key = call'.key /\ UNCHANGED <<call, retry>>
    BY <1>5 DEF EndResize, Fresh
  <2> QED
    BY <2>1, <2>2 DEF OwnInv, RehashInv
<1>6. InsertStep => pc \in {"insert", "reinsert"}
  BY DEF InsertStep, InsertVacant, InsertRemoved, InsertTooMany, InsertPresent,
         InsertRob, InsertPass, InHelper
<1> QED
  BY <1>1, <1>2, <1>3, <1>4, <1>5, <1>6 DEF Internal

LEMMA KeepNext ==
  ASSUME IInv, CleanInv, TidyInv, KeepInv, LoopInv, [SetNext]_setVars
  PROVE  KeepInv'
<1> SUFFICES ASSUME tidy' PROVE OwnInv' /\ RehashInv'
  BY DEF KeepInv
<1>1. CASE UNCHANGED vars /\ tidy' = tidy
  BY <1>1 DEF vars, KeepInv, OwnInv, RehashInv, Met, HandPair
<1>2. CASE Internal /\ tidy' = tidy
  BY <1>2, OwnInternal DEF TidyInv, KeepInv
<1>3. CASE Finalize /\ tidy' = tidy
  BY <1>3 DEF Finalize, OwnInv, RehashInv
<1>4. ASSUME NEW p \in Key, Insert(p, p), tidy' = (tidy /\ p \notin KeysOf(map))
      PROVE  OwnInv' /\ RehashInv'
  <2>1. /\ map' = map /\ call'.key = p /\ hand'.key = p /\ p \notin KeysOf(map)
    BY <1>4 DEF Insert, Fresh
  <2>2. OwnInv'
    BY <2>1 DEF OwnInv
  <2>3. RehashInv'
    <3>1. CASE Overloaded
      BY <1>4, <2>1, <3>1, BeginResizeRehash DEF Insert
    <3>2. CASE ~Overloaded
      BY <1>4, <3>2 DEF Insert, RehashInv
    <3> QED
      BY <3>1, <3>2
  <2> QED
    BY <2>2, <2>3
<1>5. ASSUME NEW p \in Key, NEW op, Find(op, p), tidy' = tidy PROVE OwnInv' /\ RehashInv'
  BY <1>5 DEF Find, OwnInv, RehashInv
<1> QED
  BY <1>1, <1>2, <1>3, <1>4, <1>5, SetStepKinds

-----------------------------------------------------------------------------
(* The theorems. *)

SetInv ==
  IInv /\ CleanInv /\ SelfInv /\ TidyInv /\ LoopInv /\ CallInv /\ KeepInv

LEMMA SetInitInv == SetInit => SetInv
<1> SUFFICES ASSUME SetInit PROVE SetInv
  OBVIOUS
<1>1. Init /\ loop = "none" /\ pc = "idle" /\ map = EmptyTable(InitSize)
  BY DEF SetInit, Init
<1>2. Live(map) = {}
  BY <1>1, HashMapAssumption, EmptyTableInv
<1>3. SelfInv
  BY <1>1, <1>2 DEF SelfInv, SelfTable, InHelper
<1>4. TidyInv
  BY <1>1, <1>2 DEF TidyInv, UniqueInv, DistinctKeys
<1>5. LoopInv
  BY <1>1 DEF LoopInv, LoopCalls, LoopOrder
<1>6. CallInv /\ KeepInv
  BY <1>1 DEF Init, CallInv, KeepInv, OwnInv, RehashInv
<1> QED
  BY <1>1, <1>3, <1>4, <1>5, <1>6, InitInv, CleanInit DEF SetInv

\* The inductive invariant of the set and the loop.
THEOREM SetInductive == SetSpec => []SetInv
<1>1. ASSUME SetInv, [SetNext]_setVars PROVE SetInv'
  BY <1>1, SetStepNext, NextInv, CleanNext, SelfNext, TidyNext, LoopNext, CallNext,
     KeepNext DEF SetInv
<1> QED
  BY <1>1, SetInitInv, PTL DEF SetSpec

\* A client that inserts only pointers that are not in the set - new blocks,
\* new nodes - never has one in it twice, whatever it removes.
THEOREM TidyHasNoDuplicate == SetSpec => []TidyNoDuplicate
<1>1. SetInv => TidyNoDuplicate
  BY DEF SetInv, TidyInv, UniqueInv, TidyNoDuplicate, OneEntryPerKey, DistinctKeys
<1> QED
  BY <1>1, SetInductive, PTL

\* A loop over the set is given each pointer once, in the order of the list,
\* although its body may remove the one that the iterator stands on.
THEOREM LoopMeetsEachOnce == SetSpec => []LoopMeetsAll
<1>1. ASSUME SetInv PROVE LoopMeetsAll
  <2> SUFFICES ASSUME loop # "none", Distinct(due)
               PROVE  /\ Len(met) <= Len(due) /\ met = SubSeq(due, 1, Len(met))
                      /\ loop = "test" /\ ~Has => met = due
    BY DEF LoopMeetsAll
  <2>1. /\ due \in Seq(Key) /\ met \in Seq(Key) /\ Len(met) <= Len(due)
        /\ \A i \in 1 .. Len(met) : met[i] = due[i]
        /\ loop = "test" => DueAt(map, due, Len(met) + 1, iter)
    BY <1>1 DEF SetInv, LoopInv, LoopCalls, LoopOrder
  <2>2. met = SubSeq(due, 1, Len(met))
    BY <2>1
  <2>3. ASSUME loop = "test", ~Has PROVE met = due
    <3>1. Nil \notin Live(map)
      BY DEF Live, SlotsOf, Nil
    <3>2. Len(met) + 1 > Len(due)
      BY <2>1, <2>3, <3>1 DEF Has, DueAt
    <3>3. Len(met) = Len(due)
      BY <2>1, <3>2
    <3> QED
      BY <2>1, <3>3
  <2> QED
    BY <2>1, <2>2, <2>3
<1> QED
  BY <1>1, SetInductive, PTL
-----------------------------------------------------------------------------
(* What a tidy client gets is the set of module LossySet. *)

\* Two of the variables are truth values.
LEMMA LossyBooleans ==
  Worn \in BOOLEAN /\ Worn' \in BOOLEAN /\ HasLost \in BOOLEAN /\ HasLost' \in BOOLEAN
BY DEF Worn, HasLost

\* The entry of a call.
LEMMA BeginLossy ==
  ASSUME CallInv, OwnInv', pc = "idle", NEW k \in Key,
         NEW op \in {"insert", "lookup", "remove"},
         call'.op = op, call'.key = k, op = "insert" => k \notin KeysOf(map),
         UNCHANGED <<map, ret>>, ~retry', pc' = "insert" => hand'.key = k
  PROVE  Lossy!Next
<1>1. call = NoCall /\ ~retry
  BY DEF CallInv
<1>2. Members = KeysOf(map)
  BY <1>1 DEF Members, NoCall
<1>3. Members' = KeysOf(map)
  BY DEF Members
<1>4. HasLost = FALSE /\ HasLost' = FALSE
  BY <1>1 DEF HasLost
<1>5. Worn' = Worn
  BY DEF Worn
<1>6. Lossy!Begin(op, k)
  BY <1>1, <1>2, <1>3, <1>4, <1>5 DEF Lossy!Begin, Lossy!NoCall, NoCall
<1> QED
  BY <1>6 DEF Lossy!Next

\* A search returns.
LEMMA SearchLossy ==
  ASSUME IInv, SelfInv, UniqueInv, CallInv, ProbeVacant \/ ProbeFound
  PROVE  Lossy!Next
<1>1. /\ pc = "probe" /\ call.op \in {"lookup", "remove"} /\ call.key = hand.key
      /\ ~retry /\ call' = NoCall /\ ~retry'
  BY DEF CallInv, IInv, ProbeInv, ProbeVacant, ProbeFound, Return
<1>2. Members = KeysOf(map) /\ Members' = KeysOf(map')
  BY <1>1 DEF Members, NoCall
<1>3. HasLost = FALSE /\ HasLost' = FALSE
  BY <1>1 DEF HasLost
<1>4. CASE ProbeVacant
  <2>1. call.key \notin KeysOf(map) /\ ret' = NoValue /\ map' = map
    BY <1>4, VacantMeansAbsent DEF ProbeVacant, Return
  <2>2. Worn' = Worn
    BY <2>1 DEF Worn
  <2>3. Worn' = (Worn \/ call.key \in Members)
    BY <1>2, <2>1, <2>2, LossyBooleans
  <2>4. Members' = Members \ {call.key} /\ Members' = Members
    BY <1>2, <2>1
  <2>5. Lossy!Found = NoValue
    BY <1>2, <2>1 DEF Lossy!Found
  <2>6. Lossy!Return
    BY <1>1, <1>3, <2>1, <2>2, <2>3, <2>4, <2>5
       DEF Lossy!Return, Lossy!Lookup, Lossy!Remove, Lossy!NoCall, NoCall
  <2> QED
    BY <2>6 DEF Lossy!Next
<1>5. CASE ProbeFound
  <2>1. /\ At \in Live(map) /\ map.slots[At].key = call.key /\ ret' = map.slots[At].value
    BY <1>1, <1>5, RemoveWrites DEF ProbeFound, Return
  <2>2. call.key \in KeysOf(map) /\ ret' = call.key
    BY <2>1 DEF SelfInv, SelfTable, KeysOf
  <2>3. CASE call.op = "lookup"
    <3>1. map' = map
      BY <1>5, <2>3 DEF ProbeFound
    <3>2. Worn' = Worn
      BY <3>1 DEF Worn
    <3>3. Lossy!Return
      BY <1>1, <1>2, <1>3, <2>2, <2>3, <3>1, <3>2
         DEF Lossy!Return, Lossy!Lookup, Lossy!Found, Lossy!NoCall, NoCall
    <3> QED
      BY <3>3 DEF Lossy!Next
  <2>4. CASE call.op = "remove"
    <3> DEFINE u == Unlink(map, At)
    <3>1. map' = u
      BY <1>5, <2>4 DEF ProbeFound
    <3>2. /\ map.sz \in Nat \ {0} /\ map \in TableOf(map.sz)
          /\ \A s \in Live(map) : s \in SlotsOf(map.sz)
      BY DEF IInv, TypeOK, Live
    <3>3. /\ Live(u) = Live(map) \ {At} /\ u.sz = map.sz
          /\ \A i \in SlotsOf(map.sz) :
               /\ u.slots[i].key = map.slots[i].key
               /\ u.slots[i].probes = IF i = At THEN Removed ELSE map.slots[i].probes
      BY <2>1, <3>2, UnlinkFields
    <3> HIDE DEF u
    <3>4. KeysOf(u) = KeysOf(map) \ {call.key}
      BY <2>1, <3>2, <3>3 DEF KeysOf, UniqueInv, DistinctKeys
    <3>5. Worn' = TRUE
      BY <2>1, <3>1, <3>2, <3>3 DEF Worn
    <3>6. Lossy!Return
      BY <1>1, <1>2, <1>3, <2>2, <2>4, <3>1, <3>4, <3>5
         DEF Lossy!Return, Lossy!Remove, Lossy!Found, Lossy!NoCall, NoCall
    <3> QED
      BY <3>6 DEF Lossy!Next
  <2> QED
    BY <1>1, <2>3, <2>4
<1> QED
  BY <1>4, <1>5

\* An insertion goes on or returns.
LEMMA InsertLossy ==
  ASSUME IInv, CleanInv, UniqueInv, OwnInv, InsertStep, pc = "insert"
  PROVE  Lossy!Next \/ UNCHANGED Lossy!vars
<1>1. /\ call.op = "insert"
      /\ Members = (KeysOf(map) \union {hand.key}) \ {call.key}
      /\ HasLost <=> retry /\ call.key \in KeysOf(map) /\ hand.key = call.key
      /\ hand.key # call.key => call.key \in KeysOf(map)
      /\ hand.key \in KeysOf(map) => retry /\ hand.key = call.key
  BY DEF Members, HasLost, IInv, ResizeInv, OwnInv
<1>2. CASE InsertVacant \/ InsertPresent
  <2>1. call' = NoCall /\ ~retry'
    BY <1>2, OwnVacant, OwnPresent
  <2>2. Members' = KeysOf(map') /\ HasLost' = FALSE
    BY <2>1 DEF Members, HasLost, NoCall
  <2>3. /\ KeysOf(map') = Members \union {call.key}
        /\ Worn' => Worn
        /\ ret' = ~HasLost
    <3>1. CASE InsertVacant
      <4>1. hand.key \notin KeysOf(map)
        BY <3>1, OwnVacant
      <4>2. KeysOf(map') = KeysOf(map) \union {hand.key}
        BY <3>1, OwnVacant
      <4>3. ret' = TRUE
        BY <3>1, OwnVacant
      <4>4. Worn' => Worn
        BY <3>1, OwnVacant
      <4>5. HasLost = FALSE
        BY <4>1 DEF HasLost
      <4>6. KeysOf(map') = Members \union {call.key}
        BY <1>1, <4>1, <4>2
      <4> QED
        BY <4>3, <4>4, <4>5, <4>6
    <3>2. CASE InsertPresent
      <4>1. /\ hand.key = call.key /\ call.key \in KeysOf(map) /\ retry /\ map' = map
            /\ ret' = FALSE
        BY <3>2, OwnPresent
      <4>2. HasLost = TRUE
        BY <1>1, <4>1
      <4>3. Worn' => Worn
        BY <4>1 DEF Worn
      <4>4. KeysOf(map') = KeysOf(map)
        BY <4>1
      <4> QED
        BY <1>1, <4>1, <4>2, <4>3, <4>4
    <3> QED
      BY <1>2, <3>1, <3>2
  <2>4. Worn' = Worn \/ Worn' = FALSE
    BY <2>3, LossyBooleans
  <2>5. Lossy!Return
    BY <1>1, <2>1, <2>2, <2>3, <2>4
       DEF Lossy!Return, Lossy!Insert, Lossy!NoCall, NoCall
  <2> QED
    BY <2>5 DEF Lossy!Next
<1>3. CASE InsertRob
  <2>1. /\ hand.key \notin KeysOf(map) /\ hand'.key \in KeysOf(map)
        /\ KeysOf(map') = (KeysOf(map) \ {hand'.key}) \union {hand.key}
        /\ Worn' <=> Worn
        /\ UNCHANGED <<pc, call, retry, ret>>
    BY <1>3, OwnRob
  <2>2. Members' = (KeysOf(map') \union {hand'.key}) \ {call.key}
    BY <1>1, <2>1 DEF Members
  <2>3. Members' = Members
    BY <1>1, <2>1, <2>2
  <2>4. HasLost = FALSE /\ HasLost' = FALSE
    BY <1>1, <2>1 DEF HasLost
  <2>5. Worn' = Worn
    BY <2>1, LossyBooleans
  <2> QED
    BY <2>1, <2>3, <2>4, <2>5 DEF Lossy!vars
<1>4. CASE InsertTooMany
  <2>1. /\ ~retry /\ Worn /\ pc' = "rehash" /\ retry' /\ UNCHANGED <<map, call, ret>>
    BY <1>4, OwnTooMany DEF BeginResize
  <2>2. /\ Members' = KeysOf(map) \ {call.key}
        /\ HasLost' <=> call.key \in KeysOf(map)
    BY <1>1, <2>1 DEF Members, HasLost
  <2>3. HasLost = FALSE
    BY <2>1 DEF HasLost
  <2>4. Worn = TRUE /\ Worn' = TRUE
    BY <2>1 DEF Worn
  <2>5. CASE hand.key = call.key
    <3>1. call.key \notin KeysOf(map)
      BY <1>1, <2>1, <2>5
    <3>2. Members' = Members
      BY <1>1, <2>2, <2>5
    <3>3. HasLost' = FALSE
      BY <2>2, <3>1
    <3> QED
      BY <2>1, <2>3, <2>4, <3>2, <3>3 DEF Lossy!vars
  <2>6. CASE hand.key # call.key
    <3>1. hand.key \notin KeysOf(map) /\ hand.key \in Members
      BY <1>1, <2>6
    <3>2. Members' = Members \ {hand.key}
      BY <1>1, <2>2, <3>1
    <3>3. HasLost' = TRUE
      BY <1>1, <2>2, <2>6
    <3>4. Lossy!StartOver(hand.key)
      BY <1>1, <2>1, <2>3, <2>4, <3>1, <3>2, <3>3 DEF Lossy!StartOver
    <3>5. hand.key \in Key
      BY LoopFacts
    <3> QED
      BY <3>4, <3>5 DEF Lossy!Next
  <2> QED
    BY <2>5, <2>6
<1>5. CASE InsertRemoved \/ InsertPass
  <2>1. hand'.key = hand.key /\ UNCHANGED <<map, pc, call, retry, ret>>
    BY <1>5, OwnPass DEF InHelper
  <2>2. Members' = Members /\ HasLost' = HasLost /\ Worn' = Worn
    BY <2>1 DEF Members, HasLost, Worn
  <2> QED
    BY <2>1, <2>2 DEF Lossy!vars
<1> QED
  BY <1>2, <1>3, <1>4, <1>5 DEF InsertStep

\* A resize shows at its end, in that the table is not worn any more.
LEMMA ResizeLossy ==
  ASSUME IInv, CleanInv, RehashInv,
         ReinsertNext \/ EndResize \/ (InsertStep /\ pc = "reinsert")
  PROVE  Lossy!Next \/ UNCHANGED Lossy!vars
<1>1. CASE ReinsertNext \/ (InsertStep /\ pc = "reinsert")
  <2>1. /\ pc \in {"rehash", "reinsert"} /\ pc' \in {"rehash", "reinsert"}
        /\ UNCHANGED <<map, call, retry, ret>>
    BY <1>1, OwnReinsert DEF ReinsertNext
  <2>2. Members' = Members /\ HasLost' = HasLost /\ Worn' = Worn
    BY <2>1 DEF Members, HasLost, Worn
  <2> QED
    BY <2>1, <2>2 DEF Lossy!vars
<1>2. CASE EndResize
  <2>1. /\ pc = "rehash" /\ pc' = "insert" /\ map' = new /\ hand'.key = call.key
        /\ UNCHANGED <<call, retry, ret>>
    BY <1>2 DEF EndResize, Fresh
  <2>2. KeysOf(map') = KeysOf(map)
    BY <1>2, KeysKept
  <2>3. call.op = "insert"
    BY <2>1 DEF IInv, ResizeInv
  <2>4. Members' = Members
    BY <2>1, <2>2, <2>3 DEF Members
  <2>5. HasLost' = HasLost
    BY <2>1, <2>2 DEF HasLost
  <2>6. Worn' = FALSE
    BY <2>1 DEF CleanInv, GoodTable, NoRemoved, Worn
  <2>7. Lossy!Rehash
    BY <2>1, <2>3, <2>4, <2>5, <2>6 DEF Lossy!Rehash
  <2> QED
    BY <2>7 DEF Lossy!Next
<1> QED
  BY <1>1, <1>2

LEMMA StepLossy ==
  ASSUME SetInv, SetInv', [SetNext]_setVars, tidy'
  PROVE  Lossy!Next \/ UNCHANGED Lossy!vars
<1>1. /\ IInv /\ CleanInv /\ SelfInv /\ LoopInv /\ CallInv /\ CallInv'
      /\ tidy => UniqueInv /\ OwnInv /\ RehashInv
      /\ OwnInv'
  BY DEF SetInv, TidyInv, KeepInv
<1>2. CASE (UNCHANGED vars \/ Finalize \/ ProbeNext) /\ tidy' = tidy
  <2>1. /\ UNCHANGED <<map, call, retry, ret>>
        /\ UNCHANGED <<pc, hand>> \/ (pc # "insert" /\ pc' # "insert")
    BY <1>2 DEF vars, Finalize, ProbeNext
  <2>2. Members' = Members /\ HasLost' = HasLost /\ Worn' = Worn
    BY <2>1 DEF Members, HasLost, Worn
  <2> QED
    BY <2>1, <2>2 DEF Lossy!vars
<1>3. CASE Internal /\ ~ProbeNext /\ tidy' = tidy
  <2>1. InsertStep => pc \in {"insert", "reinsert"}
    BY DEF InsertStep, InsertVacant, InsertRemoved, InsertTooMany, InsertPresent,
           InsertRob, InsertPass, InHelper
  <2> QED
    BY <1>1, <1>3, <2>1, SearchLossy, InsertLossy, ResizeLossy DEF Internal
<1>4. ASSUME NEW p \in Key, Insert(p, p), tidy' = (tidy /\ p \notin KeysOf(map))
      PROVE  Lossy!Next
  <2>1. /\ pc = "idle" /\ call'.op = "insert" /\ call'.key = p /\ hand'.key = p
        /\ UNCHANGED <<map, ret>> /\ ~retry' /\ p \notin KeysOf(map)
    BY <1>4 DEF Insert, Fresh
  <2> QED
    BY <1>1, <2>1, BeginLossy
<1>5. ASSUME NEW p \in Key, NEW op \in {"lookup", "remove"}, Find(op, p), tidy' = tidy
      PROVE  Lossy!Next
  <2>1. /\ pc = "idle" /\ pc' = "probe" /\ call'.op = op /\ call'.key = p
        /\ UNCHANGED <<map, ret, retry>> /\ ~retry
    BY <1>1, <1>5 DEF Find, CallInv
  <2> QED
    BY <1>1, <2>1, BeginLossy
<1> QED
  BY <1>1, <1>2, <1>3, <1>4, <1>5, SetStepKinds

\* For a client that inserts only pointers that are not in the set, any number
\* of them and on tables of any size, the set is that of module LossySet: an
\* insertion loses one other pointer at most, only on a worn table, and returns
\* false then and only then; searches and removals are never wrong.
THEOREM SetIsLossySet == SetSpec => ImplementsLossySet
<1>1. SetInit => Lossy!Init
  <2> SUFFICES ASSUME SetInit PROVE Lossy!Init
    OBVIOUS
  <2>1. Init /\ map = EmptyTable(InitSize) /\ call = NoCall /\ ~retry /\ ret = NoValue
    BY DEF SetInit, Init
  <2>2. KeysOf(map) = {} /\ NoRemoved(map)
    BY <2>1, HashMapAssumption, EmptyTableGood DEF GoodTable
  <2>3. Members = {} /\ Worn = FALSE /\ HasLost = FALSE
    BY <2>1, <2>2 DEF Members, Worn, HasLost, NoRemoved, NoCall
  <2> QED
    BY <2>1, <2>3 DEF Lossy!Init, Lossy!NoCall, NoCall
<1>2. SetInv /\ SetInv' /\ [SetNext]_setVars
        => [tidy' => [Lossy!Next]_(Lossy!vars)]_setVars
  BY StepLossy
<1> QED
  BY <1>1, <1>2, SetInductive, PTL DEF SetSpec, ImplementsLossySet

\* What is proved of the map, for any client, holds of the set too.
THEOREM SetIsMap == SetSpec => Spec
<1>1. SetInit => Init
  BY DEF SetInit
<1>2. SetInv /\ [SetNext]_setVars => [Next]_vars
  BY SetStepNext DEF SetInv
<1> QED
  BY <1>1, <1>2, SetInductive, PTL DEF SetSpec, Spec
=============================================================================
