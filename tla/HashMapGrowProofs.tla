------------------------- MODULE HashMapGrowProofs -------------------------
(***************************************************************************)
(* Theorems about a hash map from which nothing is removed, for any keys,  *)
(* hash function, sizes and sequence of calls: no key is in it twice, and  *)
(* it implements the map of the header, through every displacement and     *)
(* every resize.  The first lemmas are about good tables, whoever fills    *)
(* them.                                                                   *)
(***************************************************************************)
EXTENDS HashMapGrowInv, HashMapProofs

-----------------------------------------------------------------------------
(* Good tables. *)

\* What the lemmas below assume: h has reached slot s of a good table.
Reaches(t, h, s, n) ==
  /\ n \in Nat \ {0}
  /\ t \in TableOf(n)
  /\ TableInv(t)
  /\ GoodTable(t)
  /\ h.key \in Key /\ h.value \in Value /\ h.probes \in Nat
  /\ Placed(t, h)
  /\ s = Pos(Hash[h.key], h.probes, n)

LEMMA ReachesFacts ==
  ASSUME NEW n, NEW t, NEW h, NEW s, Reaches(t, h, s, n)
  PROVE  /\ t.sz = n /\ s \in SlotsOf(n)
         /\ \A k \in Key : \A j \in Nat : Pos(Hash[k], j, n) \in SlotsOf(n)
         /\ \A i \in SlotsOf(n) :
              /\ t.slots[i].probes \in Nat
              /\ t.slots[i].probes > 0 <=> i \in Live(t)
         /\ \A i \in Live(t) :
              /\ i \in SlotsOf(n)
              /\ t.slots[i].key \in Key /\ t.slots[i].value \in Value
              /\ t.slots[i].probes \in Nat \ {0}
              /\ i = Pos(Hash[t.slots[i].key], t.slots[i].probes - 1, n)
<1>1. n \in Nat \ {0} /\ t \in TableOf(n) /\ TableInv(t) /\ NoRemoved(t) /\ h.key \in Key
      /\ h.probes \in Nat /\ s = Pos(Hash[h.key], h.probes, n)
  BY DEF Reaches, GoodTable
<1>2. t.sz = n /\ \A i \in SlotsOf(n) : t.slots[i].probes \in Nat \union {Removed}
  BY <1>1, TableFields
<1>3. \A k \in Key : \A j \in Nat : Pos(Hash[k], j, n) \in SlotsOf(n)
  BY <1>1, PosInSlots, HashMapAssumption
<1>4. \A i \in SlotsOf(n) : t.slots[i].probes \in Nat
  BY <1>1, <1>2 DEF NoRemoved
<1>5. \A i \in SlotsOf(n) : t.slots[i].probes > 0 <=> i \in Live(t)
  BY <1>2 DEF Live
<1>6. \A i \in Live(t) : i \in SlotsOf(n) /\ t.slots[i].probes \in Nat \ {0}
  BY <1>2, <1>4, <1>5 DEF Live
<1>7. \A i \in Live(t) : t.slots[i].key \in Key /\ t.slots[i].value \in Value
  BY <1>1 DEF TableInv, PairsOK
<1>8. \A i \in Live(t) : i = Pos(Hash[t.slots[i].key], t.slots[i].probes - 1, n)
  BY <1>1, <1>2 DEF TableInv, TableReachable, EntryReachable
<1> QED
  BY <1>1, <1>2, <1>3, <1>4, <1>5, <1>6, <1>7, <1>8

\* A key that is in the table is met before a slot where it could be placed:
\* neither a never used slot nor an entry that probed less comes first.
LEMMA KeySeen ==
  ASSUME NEW n, NEW t, NEW h, NEW s, Reaches(t, h, s, n), h.key \in KeysOf(t)
  PROVE  t.slots[s].probes >= h.probes + 1
<1>1. PICK r \in Live(t) : t.slots[r].key = h.key
  BY DEF KeysOf
<1> DEFINE p == t.slots[r].probes
<1>2. /\ t.sz = n /\ p \in Nat \ {0} /\ r = Pos(Hash[h.key], p - 1, n)
      /\ h.probes \in Nat /\ s = Pos(Hash[h.key], h.probes, n)
  BY <1>1, ReachesFacts DEF Reaches
<1>3. CASE p - 1 < h.probes
  <2>1. p - 1 \in 0 .. (h.probes - 1)
    BY <1>2, <1>3
  <2>2. t.slots[Pos(Hash[h.key], p - 1, n)].key # h.key
    BY <1>2, <2>1 DEF Placed, Reaches
  <2> QED
    BY <1>1, <1>2, <2>2
<1>4. CASE p - 1 = h.probes
  BY <1>2, <1>4
<1>5. CASE p - 1 > h.probes
  <2>1. h.probes \in 0 .. (p - 2)
    BY <1>2, <1>5
  <2>2. RobinHood(t)
    BY DEF Reaches, GoodTable
  <2> QED
    BY <1>1, <1>2, <2>1, <2>2 DEF RobinHood
<1> QED
  BY <1>2, <1>3, <1>4, <1>5

\* A key that may be placed at s is not in the table.
LEMMA KeyAbsent ==
  ASSUME NEW n, NEW t, NEW h, NEW s, Reaches(t, h, s, n),
         t.slots[s].probes < h.probes + 1
  PROVE  h.key \notin KeysOf(t)
<1>1. t.slots[s].probes \in Nat /\ h.probes \in Nat
  BY ReachesFacts DEF Reaches
<1> QED
  BY <1>1, KeySeen

\* Passing an entry that probed as far.
LEMMA PassPlaced ==
  ASSUME NEW n, NEW t, NEW h, NEW s, Reaches(t, h, s, n),
         t.slots[s].key # h.key, t.slots[s].probes >= h.probes + 1,
         NEW g, g.key = h.key, g.probes = h.probes + 1
  PROVE  Placed(t, g)
<1>1. t.sz = n /\ h.probes \in Nat /\ s = Pos(Hash[h.key], h.probes, n)
  BY ReachesFacts DEF Reaches
<1> SUFFICES ASSUME NEW j \in 0 .. h.probes
             PROVE  LET e == t.slots[Pos(Hash[h.key], j, n)]
                    IN  e.probes >= j + 1 /\ e.key # h.key
  BY <1>1 DEF Placed
<1>2. CASE j = h.probes
  BY <1>1, <1>2
<1>3. CASE j # h.probes
  <2>1. j \in 0 .. (h.probes - 1)
    BY <1>1, <1>3
  <2> QED
    BY <1>1, <2>1 DEF Placed, Reaches
<1> QED
  BY <1>2, <1>3

\* The pair is written to a never used slot.
LEMMA OccupyGood ==
  ASSUME NEW n, NEW t, NEW h, NEW s, Reaches(t, h, s, n), t.slots[s].probes = Vacant
  PROVE  LET u == Occupy(t, h, s, h.probes + 1) IN
         /\ GoodTable(u)
         /\ KeysOf(u) = KeysOf(t) \union {h.key}
         /\ PairsOf(u) = PairsOf(t) \union {<<h.key, h.value>>}
<1> DEFINE p == h.probes + 1
           u == Occupy(t, h, s, p)
<1>1. /\ n \in Nat \ {0} /\ t \in TableOf(n) /\ h.key \in Key /\ h.value \in Value
      /\ h.probes \in Nat /\ p \in Nat \ {0} /\ s = Pos(Hash[h.key], h.probes, n)
      /\ s \in SlotsOf(n) /\ t.sz = n /\ GoodTable(t) /\ Placed(t, h) /\ p - 1 = h.probes
  BY ReachesFacts DEF Reaches
<1> HIDE DEF p
<1>2. /\ u.sz = n /\ Live(u) = Live(t) \union {s}
      /\ \A i \in SlotsOf(n) :
           /\ u.slots[i].probes = IF i = s THEN p ELSE t.slots[i].probes
           /\ u.slots[i].key = IF i = s THEN h.key ELSE t.slots[i].key
           /\ u.slots[i].value = IF i = s THEN h.value ELSE t.slots[i].value
  BY <1>1, OccupyFields
<1> HIDE DEF u
<1>3. /\ \A i \in SlotsOf(n) : t.slots[i].probes \in Nat
      /\ \A k \in Key : \A j \in Nat : Pos(Hash[k], j, n) \in SlotsOf(n)
      /\ \A i \in Live(t) : i \in SlotsOf(n) /\ i # s /\ t.slots[i].key \in Key
                            /\ t.slots[i].probes \in Nat
  BY ReachesFacts DEF Vacant
<1>4. h.key \notin KeysOf(t)
  BY <1>1, KeyAbsent DEF Vacant
<1>5. NoRemoved(u)
  BY <1>1, <1>2, <1>3 DEF NoRemoved, Removed
<1>6. \A i \in SlotsOf(n) : u.slots[i].probes >= t.slots[i].probes
  BY <1>1, <1>2, <1>3 DEF Vacant
<1>7. RobinHood(u)
  <2> SUFFICES ASSUME NEW i \in Live(u), NEW j \in 0 .. (u.slots[i].probes - 2)
               PROVE  u.slots[Pos(Hash[u.slots[i].key], j, n)].probes >= j + 1
    BY <1>2 DEF RobinHood
  <2>1. CASE i = s
    <3>1. u.slots[i].probes = p /\ u.slots[i].key = h.key
      BY <1>1, <1>2, <2>1
    <3>2. j \in 0 .. (h.probes - 1) /\ j \in Nat
      BY <1>1, <3>1
    <3>3. t.slots[Pos(Hash[h.key], j, n)].probes >= j + 1
      BY <1>1, <3>2 DEF Placed
    <3>4. Pos(Hash[h.key], j, n) \in SlotsOf(n)
      BY <1>1, <1>3, <3>2
    <3> QED
      BY <1>6, <3>1, <3>3, <3>4, <1>2, <1>3, <3>2, <1>1
  <2>2. CASE i # s
    <3>1. i \in Live(t) /\ i \in SlotsOf(n)
      BY <1>2, <1>3, <2>2
    <3>2. u.slots[i].probes = t.slots[i].probes /\ u.slots[i].key = t.slots[i].key
      BY <1>2, <2>2, <3>1
    <3>3. t.slots[Pos(Hash[t.slots[i].key], j, n)].probes >= j + 1
      BY <1>1, <3>1, <3>2 DEF GoodTable, RobinHood
    <3>4. Pos(Hash[t.slots[i].key], j, n) \in SlotsOf(n) /\ j \in Nat
      BY <1>3, <3>1, <3>2
    <3> QED
      BY <1>6, <3>2, <3>3, <3>4, <1>2, <1>3, <1>1
  <2> QED
    BY <2>1, <2>2
<1>8. DistinctKeys(u)
  BY <1>1, <1>2, <1>3, <1>4 DEF DistinctKeys, GoodTable, KeysOf
<1>9. KeysOf(u) = KeysOf(t) \union {h.key}
  BY <1>1, <1>2, <1>3 DEF KeysOf
<1>10. PairsOf(u) = PairsOf(t) \union {<<h.key, h.value>>}
  BY <1>1, <1>2, <1>3 DEF PairsOf
<1> QED
  BY <1>5, <1>7, <1>8, <1>9, <1>10 DEF GoodTable, u, p
\* The pair displaces an entry that probed less, which may go on from there.
LEMMA DisplaceGood ==
  ASSUME NEW n, NEW t, NEW h, NEW s, Reaches(t, h, s, n), s \in Live(t),
         t.slots[s].probes < h.probes + 1,
         NEW g, g.key = t.slots[s].key, g.probes = t.slots[s].probes
  PROVE  LET u == Displace(t, h, s)
             e == t.slots[s]
         IN  /\ GoodTable(u)
             /\ Placed(u, g)
             /\ KeysOf(u) = (KeysOf(t) \ {e.key}) \union {h.key}
             /\ PairsOf(u) = (PairsOf(t) \ {<<e.key, e.value>>}) \union {<<h.key, h.value>>}
             /\ h.key \notin KeysOf(t)
<1> DEFINE p == h.probes + 1
           u == Displace(t, h, s)
           e == t.slots[s]
<1>1. /\ n \in Nat \ {0} /\ t \in TableOf(n) /\ h.key \in Key /\ h.value \in Value
      /\ h.probes \in Nat /\ p \in Nat \ {0} /\ s = Pos(Hash[h.key], h.probes, n)
      /\ s \in SlotsOf(n) /\ t.sz = n /\ GoodTable(t) /\ Placed(t, h) /\ p - 1 = h.probes
  BY ReachesFacts DEF Reaches
<1>2. /\ u.sz = n /\ Live(u) = Live(t)
      /\ \A i \in SlotsOf(n) :
           /\ u.slots[i].probes = IF i = s THEN p ELSE t.slots[i].probes
           /\ u.slots[i].key = IF i = s THEN h.key ELSE t.slots[i].key
           /\ u.slots[i].value = IF i = s THEN h.value ELSE t.slots[i].value
  BY <1>1, DisplaceFields
<1>3. /\ \A i \in SlotsOf(n) : t.slots[i].probes \in Nat
      /\ \A k \in Key : \A j \in Nat : Pos(Hash[k], j, n) \in SlotsOf(n)
      /\ \A i \in Live(t) : i \in SlotsOf(n) /\ t.slots[i].key \in Key
                            /\ t.slots[i].probes \in Nat \ {0}
      /\ e.probes < p
      /\ s = Pos(Hash[e.key], e.probes - 1, n)
  BY ReachesFacts
<1>4. h.key \notin KeysOf(t)
  BY <1>1, KeyAbsent
<1> HIDE DEF p, u
<1>5. NoRemoved(u)
  BY <1>1, <1>2, <1>3 DEF NoRemoved, Removed, GoodTable
<1>6. \A i \in SlotsOf(n) : u.slots[i].probes >= t.slots[i].probes
  BY <1>1, <1>2, <1>3
<1>a. \A i \in SlotsOf(n) : u.slots[i].probes \in Nat
  BY <1>1, <1>2, <1>3
<1>b. ASSUME NEW i \in Live(t), NEW j \in 0 .. (t.slots[i].probes - 2)
      PROVE  u.slots[Pos(Hash[t.slots[i].key], j, n)].probes >= j + 1
  <2>3. t.slots[Pos(Hash[t.slots[i].key], j, n)].probes >= j + 1
    BY <1>1 DEF GoodTable, RobinHood
  <2>4. Pos(Hash[t.slots[i].key], j, n) \in SlotsOf(n) /\ j \in Nat
    BY <1>3
  <2> QED
    BY <1>3, <1>6, <1>a, <2>3, <2>4
<1>7. RobinHood(u)
  <2> SUFFICES ASSUME NEW i \in Live(u), NEW j \in 0 .. (u.slots[i].probes - 2)
               PROVE  u.slots[Pos(Hash[u.slots[i].key], j, n)].probes >= j + 1
    BY <1>2 DEF RobinHood
  <2>1. CASE i = s
    <3>1. u.slots[i].probes = p /\ u.slots[i].key = h.key
      BY <1>1, <1>2, <2>1
    <3>2. j \in 0 .. (h.probes - 1) /\ j \in Nat
      BY <1>1, <3>1
    <3>3. t.slots[Pos(Hash[h.key], j, n)].probes >= j + 1
      BY <1>1, <3>2 DEF Placed
    <3>4. Pos(Hash[h.key], j, n) \in SlotsOf(n)
      BY <1>1, <1>3, <3>2
    <3> QED
      BY <1>6, <3>1, <3>3, <3>4, <1>a, <1>3, <3>2
  <2>2. CASE i # s
    <3>1. i \in Live(t) /\ i \in SlotsOf(n)
      BY <1>2, <1>3
    <3>2. u.slots[i].probes = t.slots[i].probes /\ u.slots[i].key = t.slots[i].key
      BY <1>2, <2>2, <3>1
    <3> QED
      BY <1>b, <3>1, <3>2
  <2> QED
    BY <2>1, <2>2
<1>c. \A i \in Live(t) : t.slots[i].key = e.key => i = s
  BY <1>1 DEF DistinctKeys, GoodTable
<1>d. \A i \in Live(t) : t.slots[i].key # h.key
  BY <1>4 DEF KeysOf
<1>8. DistinctKeys(u)
  BY <1>1, <1>2, <1>3, <1>d DEF DistinctKeys, GoodTable
<1>9. KeysOf(u) = (KeysOf(t) \ {e.key}) \union {h.key}
  <2>1. \A i \in Live(t) : i # s =>
          u.slots[i].key = t.slots[i].key /\ t.slots[i].key # e.key
    BY <1>2, <1>3, <1>c
  <2>2. u.slots[s].key = h.key /\ s \in Live(t)
    BY <1>1, <1>2
  <2>3. KeysOf(u) = {u.slots[i].key : i \in Live(t)}
    BY <1>2 DEF KeysOf
  <2> QED
    BY <2>1, <2>2, <2>3 DEF KeysOf
<1>10. PairsOf(u) = (PairsOf(t) \ {<<e.key, e.value>>}) \union {<<h.key, h.value>>}
  BY <1>1, <1>2, <1>3, <1>c DEF PairsOf
<1>11. Placed(u, g)
  <2> SUFFICES ASSUME NEW j \in 0 .. (e.probes - 1)
               PROVE  LET x == u.slots[Pos(Hash[e.key], j, n)]
                      IN  x.probes >= j + 1 /\ x.key # e.key
    BY <1>2 DEF Placed
  <2>1. j \in Nat /\ Pos(Hash[e.key], j, n) \in SlotsOf(n) /\ e.probes \in Nat \ {0}
    BY <1>3
  <2>2. u.slots[Pos(Hash[e.key], j, n)].probes >= j + 1
    <3>1. CASE j = e.probes - 1
      BY <1>1, <1>2, <1>3, <3>1
    <3>2. CASE j # e.probes - 1
      <4>1. j \in 0 .. (e.probes - 2)
        BY <2>1, <3>2
      <4> QED
        BY <1>b, <4>1
    <3> QED
      BY <3>1, <3>2
  <2>3. ASSUME NEW i \in SlotsOf(n), u.slots[i].probes >= j + 1
        PROVE  u.slots[i].key # e.key
    <3>1. i \in Live(t)
      BY <1>2, <1>a, <2>1, <2>3 DEF Live
    <3> QED
      BY <1>2, <1>c, <1>d, <3>1
  <2> QED
    BY <2>1, <2>2, <2>3
<1> QED
  BY <1>4, <1>5, <1>7, <1>8, <1>9, <1>10, <1>11 DEF GoodTable, u, p
LEMMA EmptyTableGood ==
  ASSUME NEW n \in Nat \ {0}
  PROVE  /\ GoodTable(EmptyTable(n))
         /\ KeysOf(EmptyTable(n)) = {}
         /\ PairsOf(EmptyTable(n)) = {}
BY EmptyTableInv DEF GoodTable, RobinHood, DistinctKeys, KeysOf, PairsOf

\* A search that has probed nothing.
LEMMA FreshPlaced ==
  ASSUME NEW t, NEW k, NEW v
  PROVE  Placed(t, Fresh(k, v))
BY DEF Placed, Fresh

-----------------------------------------------------------------------------
(* The steps of _map_insert_helper on a good table. *)

\* Its loop stands on a slot of the table, and remembers no removed one.
LEMMA LoopReaches ==
  ASSUME IInv, InHelper, GoodTable(Target), Placed(Target, hand)
  PROVE  /\ Reaches(Target, hand, At, Target.sz)
         /\ Here = Target.slots[At]
         /\ Here.probes > 0 => At \in Live(Target)
         /\ Here.probes # Removed
         /\ hand.empty = Nil
<1>1. /\ Target.sz \in Nat \ {0} /\ Target \in TableOf(Target.sz) /\ TableInv(Target)
      /\ hand \in HandType(Target.sz) /\ hand.key \in Key /\ hand.probes \in Nat
      /\ At = Pos(Hash[hand.key], hand.probes, Target.sz) /\ At \in SlotsOf(Target.sz)
      /\ Here = Target.slots[At] /\ (Here.probes > 0 => At \in Live(Target))
  BY LoopFacts DEF InHelper
<1>2. hand.value \in Value
  BY DEF IInv, HandInv
<1>3. hand.empty = Nil
  <2>1. hand.empty # Nil => Target.slots[hand.empty].probes = Removed
    BY DEF IInv, HandInv
  <2>2. hand.empty \in SlotsOf(Target.sz) \union {Nil}
    BY <1>1 DEF HandType
  <2> QED
    BY <2>1, <2>2 DEF GoodTable, NoRemoved
<1> QED
  BY <1>1, <1>2, <1>3 DEF Reaches, GoodTable, NoRemoved

\* Neither a removed slot nor too many of them.
LEMMA NoTombstone ==
  ASSUME IInv, InHelper, GoodTable(Target), Placed(Target, hand)
  PROVE  ~InsertRemoved /\ ~InsertTooMany
BY LoopReaches DEF InsertRemoved, InsertTooMany

\* The key is not in the table, and its pair is added.
LEMMA VacantGood ==
  ASSUME IInv, GoodTable(Target), Placed(Target, hand), InsertVacant
  PROVE  \E t : /\ SetTarget(t) /\ GoodTable(t)
                /\ hand.key \notin KeysOf(Target)
                /\ KeysOf(t) = KeysOf(Target) \union {hand.key}
                /\ PairsOf(t) = PairsOf(Target) \union {HandPair}
<1> DEFINE t == Occupy(Target, hand, At, hand.probes + 1)
<1>1. InHelper /\ Here.probes = Vacant
  BY DEF InsertVacant
<1>2. /\ Reaches(Target, hand, At, Target.sz) /\ Here = Target.slots[At]
      /\ hand.empty = Nil
  BY <1>1, LoopReaches
<1>3. SetTarget(t)
  BY <1>2 DEF InsertVacant
<1>4. /\ GoodTable(t)
      /\ KeysOf(t) = KeysOf(Target) \union {hand.key}
      /\ PairsOf(t) = PairsOf(Target) \union {HandPair}
  BY <1>1, <1>2, OccupyGood DEF HandPair
<1>5. hand.key \notin KeysOf(Target)
  <2>1. hand.probes \in Nat
    BY <1>2 DEF Reaches
  <2>2. Target.slots[At].probes < hand.probes + 1
    BY <1>1, <1>2, <2>1 DEF Vacant
  <2> QED
    BY <1>2, <2>2, KeyAbsent
<1> HIDE DEF t
<1> QED
  BY <1>3, <1>4, <1>5

\* The key is not in the table, and its pair takes the place of another.
LEMMA RobGood ==
  ASSUME IInv, GoodTable(Target), Placed(Target, hand), InsertRob
  PROVE  \E t : /\ SetTarget(t) /\ GoodTable(t) /\ Placed(t, hand')
                /\ hand.key \notin KeysOf(Target)
                /\ hand'.key \in KeysOf(Target)
                /\ HandPair' \in PairsOf(Target)
                /\ KeysOf(t) = (KeysOf(Target) \ {hand'.key}) \union {hand.key}
                /\ PairsOf(t) = (PairsOf(Target) \ {HandPair'}) \union {HandPair}
<1> DEFINE t == Displace(Target, hand, At)
<1>1. InHelper /\ Here.probes > 0 /\ Robs /\ SetTarget(t) /\ hand' = PickUp(Here)
  BY DEF InsertRob
<1>2. /\ Reaches(Target, hand, At, Target.sz) /\ Here = Target.slots[At]
      /\ At \in Live(Target) /\ Here.probes < hand.probes + 1
  BY <1>1, LoopReaches DEF Robs
<1>3. /\ hand'.key = Here.key /\ hand'.value = Here.value
      /\ hand'.probes = Here.probes
  BY <1>1 DEF PickUp
<1>4. HandPair' = <<Here.key, Here.value>>
  BY <1>3 DEF HandPair
<1>5. hand'.key \in KeysOf(Target) /\ HandPair' \in PairsOf(Target)
  BY <1>2, <1>3, <1>4 DEF KeysOf, PairsOf
<1>6. /\ GoodTable(t) /\ Placed(t, hand')
      /\ KeysOf(t) = (KeysOf(Target) \ {hand'.key}) \union {hand.key}
      /\ PairsOf(t) = (PairsOf(Target) \ {HandPair'}) \union {HandPair}
      /\ hand.key \notin KeysOf(Target)
  BY <1>2, <1>3, <1>4, DisplaceGood DEF HandPair
<1> HIDE DEF t
<1> QED
  BY <1>1, <1>5, <1>6

\* Only the position changes.
LEMMA PassGood ==
  ASSUME IInv, GoodTable(Target), Placed(Target, hand), InsertPass
  PROVE  /\ SetTarget(Target) /\ Placed(Target, hand')
         /\ hand'.key = hand.key /\ hand'.value = hand.value
<1>1. /\ InHelper /\ Here.key # hand.key /\ ~Robs /\ UNCHANGED <<map, new>>
      /\ hand' = [hand EXCEPT !.probes = @ + 1]
  BY DEF InsertPass
<1>2. /\ Reaches(Target, hand, At, Target.sz) /\ Here = Target.slots[At]
      /\ hand \in HandType(Target.sz) /\ hand.probes \in Nat
      /\ Here.probes \in Nat
  BY <1>1, LoopReaches, LoopFacts, ReachesFacts DEF InHelper
<1>3. Here.probes >= hand.probes + 1
  BY <1>1, <1>2 DEF Robs
<1>4. /\ hand'.key = hand.key /\ hand'.value = hand.value
      /\ hand'.probes = hand.probes + 1
  BY <1>1, <1>2 DEF HandType
<1>5. SetTarget(Target)
  BY <1>1 DEF SetTarget, Target
<1> QED
  BY <1>1, <1>2, <1>3, <1>4, <1>5, PassPlaced

\* The key is in the table.
LEMMA PresentGood ==
  ASSUME IInv, InsertPresent
  PROVE  SetTarget(Target) /\ hand.key \in KeysOf(Target)
<1>1. InHelper /\ Here.probes > 0 /\ Here.key = hand.key /\ UNCHANGED <<map, new>>
  BY DEF InsertPresent
<1>2. At \in Live(Target) /\ Here = Target.slots[At]
  BY <1>1, LoopFacts DEF InHelper
<1> QED
  BY <1>1, <1>2 DEF SetTarget, Target, KeysOf

\* The table stays good, and while the loop goes on its pair stays placed.
LEMMA HelperGood ==
  ASSUME IInv, GoodTable(Target), Placed(Target, hand), InsertStep
  PROVE  \E t : /\ SetTarget(t) /\ GoodTable(t)
                /\ \/ HelperReturns(TRUE) \/ HelperReturns(FALSE)
                   \/ Placed(t, hand') /\ UNCHANGED <<pc, retry>>
<1>0. ~InsertRemoved /\ ~InsertTooMany
  BY NoTombstone DEF InsertStep, InsertRemoved, InsertTooMany
<1>1. CASE InsertVacant
  BY <1>1, VacantGood DEF InsertVacant
<1>2. CASE InsertPresent
  BY <1>2, PresentGood DEF InsertPresent
<1>3. CASE InsertRob
  BY <1>3, RobGood DEF InsertRob
<1>4. CASE InsertPass
  BY <1>4, PassGood DEF InsertPass
<1> QED
  BY <1>0, <1>1, <1>2, <1>3, <1>4 DEF InsertStep
-----------------------------------------------------------------------------
(* CleanInv, for every client. *)

\* A resize starts with an empty table.
LEMMA BeginResizeClean ==
  ASSUME IInv, BeginResize
  PROVE  CleanInv'
<1>1. pc' = "rehash" /\ new' = EmptyTable(NewSize(map.sz))
  BY DEF BeginResize
<1>2. NewSize(map.sz) \in Nat \ {0}
  BY DEF IInv, TypeOK, NewSize
<1> QED
  BY <1>1, <1>2, EmptyTableGood DEF CleanInv, InHelper

\* The steps of the helper.
LEMMA HelperClean ==
  ASSUME IInv, CleanInv, InsertStep
  PROVE  CleanInv'
<1>0. InHelper
  BY DEF InsertStep, InsertVacant, InsertRemoved, InsertTooMany, InsertPresent,
         InsertRob, InsertPass
<1>1. CASE pc = "reinsert" \/ retry
  <2>1. GoodTable(Target) /\ Placed(Target, hand)
    BY <1>0, <1>1 DEF CleanInv
  <2>2. PICK t : /\ SetTarget(t) /\ GoodTable(t)
                 /\ \/ HelperReturns(TRUE) \/ HelperReturns(FALSE)
                    \/ Placed(t, hand') /\ UNCHANGED <<pc, retry>>
    BY <2>1, HelperGood
  <2>3. CASE HelperReturns(TRUE) \/ HelperReturns(FALSE)
    <3>1. CASE pc = "reinsert"
      BY <2>2, <2>3, <3>1 DEF HelperReturns, SetTarget, CleanInv, InHelper
    <3>2. CASE pc # "reinsert"
      BY <2>3, <3>2 DEF HelperReturns, Return, CleanInv, InHelper
    <3> QED
      BY <3>1, <3>2
  <2>4. CASE Placed(t, hand') /\ UNCHANGED <<pc, retry>>
    BY <1>0, <1>1, <2>2, <2>4 DEF CleanInv, InHelper, SetTarget, Target
  <2> QED
    BY <2>2, <2>3, <2>4
<1>2. CASE pc = "insert" /\ ~retry
  <2>1. CASE InsertTooMany
    BY <1>2, <2>1, BeginResizeClean DEF InsertTooMany
  <2>2. CASE InsertVacant \/ InsertPresent
    BY <1>2, <2>2 DEF InsertVacant, InsertPresent, HelperReturns, Return, CleanInv, InHelper
  <2>3. CASE InsertRemoved \/ InsertRob \/ InsertPass
    BY <1>2, <2>3 DEF InsertRemoved, InsertRob, InsertPass, CleanInv, InHelper
  <2> QED
    BY <2>1, <2>2, <2>3 DEF InsertStep
<1> QED
  BY <1>0, <1>1, <1>2 DEF InHelper

LEMMA CleanNext == IInv /\ CleanInv /\ [Next]_vars => CleanInv'
<1> SUFFICES ASSUME IInv, CleanInv, [Next]_vars PROVE CleanInv'
  OBVIOUS
<1>1. ASSUME NEW k \in Key, NEW v \in Value, Insert(k, v) PROVE CleanInv'
  <2>1. CASE Overloaded
    BY <1>1, <2>1, BeginResizeClean DEF Insert
  <2>2. CASE ~Overloaded
    BY <1>1, <2>2 DEF Insert, CleanInv, InHelper
  <2> QED
    BY <2>1, <2>2
<1>2. ASSUME NEW k \in Key, NEW op, Find(op, k) PROVE CleanInv'
  BY <1>2 DEF Find, CleanInv, InHelper
<1>3. CASE ProbeVacant \/ ProbeFound
  BY <1>3 DEF ProbeVacant, ProbeFound, Return, CleanInv, InHelper
<1>4. CASE ProbeNext
  BY <1>4 DEF ProbeNext, CleanInv, InHelper
<1>5. CASE InsertStep
  BY <1>5, HelperClean
<1>6. CASE ReinsertNext
  <2>1. GoodTable(new') /\ pc' = "reinsert" /\ Placed(new', hand')
    BY <1>6, FreshPlaced DEF ReinsertNext, CleanInv
  <2> QED
    BY <2>1 DEF CleanInv, Target
<1>7. CASE EndResize
  <2>1. GoodTable(map') /\ pc' = "insert" /\ Placed(map', hand')
    BY <1>7, FreshPlaced DEF EndResize, CleanInv
  <2> QED
    BY <2>1 DEF CleanInv, Target
<1>8. CASE Finalize
  BY <1>8 DEF Finalize, CleanInv, InHelper
<1>9. CASE UNCHANGED vars
  BY <1>9 DEF vars, CleanInv, InHelper, Target
<1> QED
  BY <1>1, <1>2, <1>3, <1>4, <1>5, <1>6, <1>7, <1>8, <1>9
     DEF Next, InsertCall, LookupCall, RemoveCall, Lookup, Remove, Internal

LEMMA CleanInit == Init => CleanInv
BY DEF Init, CleanInv, InHelper

\* Every table that _resize_table fills has neither a removed slot nor a key
\* twice, and so has the table in which map_insert starts over, whatever the
\* client did to the table before.
THEOREM ResizedTablesGood == Spec => []CleanInv
BY CleanInit, CleanNext, InductiveInvariant, PTL DEF Spec
-----------------------------------------------------------------------------
(* A map that only grows. *)

\* The pairs of a good table are a function of the keys.
LEMMA PairsFunctional ==
  ASSUME NEW t, DistinctKeys(t)
  PROVE  /\ \A p, q \in PairsOf(t) : p[1] = q[1] => p = q
         /\ \A p \in PairsOf(t) : p = <<p[1], p[2]>> /\ p[1] \in KeysOf(t)
         /\ \A k \in KeysOf(t) : \E p \in PairsOf(t) : p[1] = k
<1>1. \A p \in PairsOf(t) : \E s \in Live(t) : p = <<t.slots[s].key, t.slots[s].value>>
  BY DEF PairsOf
<1>2. \A p \in PairsOf(t) : p = <<p[1], p[2]>> /\ p[1] \in KeysOf(t)
  BY <1>1 DEF KeysOf
<1>3. ASSUME NEW p \in PairsOf(t), NEW q \in PairsOf(t), p[1] = q[1] PROVE p = q
  <2>1. PICK s \in Live(t) : p = <<t.slots[s].key, t.slots[s].value>>
    BY <1>1
  <2>2. PICK r \in Live(t) : q = <<t.slots[r].key, t.slots[r].value>>
    BY <1>1
  <2>3. s = r
    BY <1>3, <2>1, <2>2 DEF DistinctKeys
  <2> QED
    BY <2>1, <2>2, <2>3
<1>4. ASSUME NEW k \in KeysOf(t) PROVE \E p \in PairsOf(t) : p[1] = k
  <2>1. PICK s \in Live(t) : t.slots[s].key = k
    BY DEF KeysOf
  <2>2. <<t.slots[s].key, t.slots[s].value>> \in PairsOf(t)
    BY DEF PairsOf
  <2> QED
    BY <2>1, <2>2
<1> QED
  BY <1>2, <1>3, <1>4

\* The displaced pair becomes the one in hand.
LEMMA RobPending ==
  ASSUME IInv, GrowInv, InsertRob, pc = "insert"
  PROVE  PendingInv'
<1>1. /\ GoodTable(map) /\ Placed(map, hand) /\ Target = map /\ pc' = "insert"
      /\ call' = call
      /\ IF hand.key = call.key THEN hand.value = call.value
           ELSE hand.key \notin KeysOf(map) /\ CallPair \in PairsOf(map)
  BY DEF GrowInv, PendingInv, Target, InsertRob
<1>2. PICK t : /\ SetTarget(t) /\ GoodTable(t) /\ Placed(t, hand')
               /\ hand.key \notin KeysOf(map)
               /\ hand'.key \in KeysOf(map)
               /\ HandPair' \in PairsOf(map)
               /\ KeysOf(t) = (KeysOf(map) \ {hand'.key}) \union {hand.key}
               /\ PairsOf(t) = (PairsOf(map) \ {HandPair'}) \union {HandPair}
  BY <1>1, RobGood
<1>3. map' = t /\ CallPair' = CallPair
  BY <1>1, <1>2 DEF SetTarget, CallPair
<1>4. hand'.key \notin KeysOf(t)
  BY <1>2
<1>5. CASE hand.key = call.key
  <2>1. HandPair = CallPair
    BY <1>1, <1>5 DEF HandPair, CallPair
  <2>2. hand'.key # call'.key /\ CallPair \in PairsOf(t)
    BY <1>1, <1>2, <1>5, <2>1
  <2> QED
    BY <1>1, <1>2, <1>3, <1>4, <2>2 DEF PendingInv
<1>6. CASE hand.key # call.key
  <2>1. CallPair \in PairsOf(map) /\ CallPair[1] = call.key /\ CallPair[2] = call.value
    BY <1>1, <1>6 DEF CallPair
  <2>2. HandPair'[1] = hand'.key /\ HandPair'[2] = hand'.value
    BY DEF HandPair
  <2>3. CASE hand'.key = call.key
    <3>1. HandPair' = CallPair
      BY <1>1, <1>2, <2>1, <2>2, <2>3, PairsFunctional DEF GoodTable
    <3>2. hand'.value = call.value
      BY <2>1, <2>2, <3>1
    <3> QED
      BY <1>1, <1>2, <1>3, <2>3, <3>2 DEF PendingInv
  <2>4. CASE hand'.key # call.key
    <3>1. CallPair \in PairsOf(t)
      BY <1>2, <2>1, <2>2, <2>4
    <3> QED
      BY <1>1, <1>2, <1>3, <1>4, <2>4, <3>1 DEF PendingInv
  <2> QED
    BY <2>3, <2>4
<1> QED
  BY <1>5, <1>6

\* A resize takes over the first pair.
LEMMA BeginResizeRehash ==
  ASSUME IInv, BeginResize, map' = map
  PROVE  RehashInv'
<1>1. /\ pc' = "rehash" /\ new' = EmptyTable(NewSize(map.sz)) /\ it' = map.first
  BY DEF BeginResize
<1>2. NewSize(map.sz) \in Nat \ {0}
  BY DEF IInv, TypeOK, NewSize
<1>3. KeysOf(new') = {} /\ PairsOf(new') = {}
  BY <1>1, <1>2, EmptyTableGood
<1>4. Met' = {}
  BY <1>1, <1>3 DEF Met
<1> QED
  BY <1>1, <1>3, <1>4 DEF RehashInv

\* An entry is taken over, and the iterator moves on.
LEMMA ReturnRehash ==
  ASSUME RehashInv, pc = "reinsert", map' = map, HelperReturns(TRUE) \/ HelperReturns(FALSE),
         KeysOf(new') = KeysOf(new) \union {hand.key},
         PairsOf(new') \subseteq PairsOf(new) \union {HandPair}
  PROVE  RehashInv'
<1>1. pc' = "rehash" /\ it' = map.slots[it].next
  BY DEF HelperReturns, Inc
<1>2. Met' = Met
  BY <1>1 DEF Met
<1>3. /\ PairsOf(new) \subseteq PairsOf(map) /\ HandPair \in PairsOf(map) /\ it \in Met
      /\ map.first \in Met \union {it}
      /\ \A s \in Met : s # it => map.slots[s].next \in Met \union {it, Nil}
  BY DEF RehashInv
<1> QED
  BY <1>1, <1>2, <1>3 DEF RehashInv

\* The loop goes on: what is in hand changes, or the table being filled.
LEMMA LoopRehash ==
  ASSUME RehashInv, pc = "reinsert", UNCHANGED <<map, pc, it>>,
         KeysOf(new') \union {hand'.key} = KeysOf(new) \union {hand.key},
         PairsOf(new') \subseteq PairsOf(new) \union {HandPair},
         HandPair' \in PairsOf(new) \union {HandPair}
  PROVE  RehashInv'
<1>1. Met' = Met
  BY DEF Met
<1>2. /\ PairsOf(new) \subseteq PairsOf(map) /\ HandPair \in PairsOf(map) /\ it \in Met
      /\ map.first \in Met \union {it}
      /\ \A s \in Met : s # it => map.slots[s].next \in Met \union {it, Nil}
  BY DEF RehashInv
<1> QED
  BY <1>1, <1>2 DEF RehashInv

\* The steps of _resize_table's calls of _map_insert_helper.
LEMMA HelperRehash ==
  ASSUME IInv, CleanInv, RehashInv, InsertStep, pc = "reinsert"
  PROVE  RehashInv' /\ map' = map
<1>1. Target = new /\ GoodTable(Target) /\ Placed(Target, hand)
  BY DEF CleanInv, InHelper, Target
<1>2. ~InsertRemoved /\ ~InsertTooMany
  BY <1>1, NoTombstone DEF InHelper
<1>3. \A t : SetTarget(t) => new' = t /\ map' = map
  BY DEF SetTarget
<1>4. CASE InsertVacant
  <2>1. /\ map' = map
        /\ KeysOf(new') = KeysOf(new) \union {hand.key}
        /\ PairsOf(new') = PairsOf(new) \union {HandPair}
    BY <1>1, <1>3, <1>4, VacantGood
  <2>2. HelperReturns(TRUE)
    BY <1>4 DEF InsertVacant
  <2> QED
    BY <2>1, <2>2, ReturnRehash
<1>5. CASE InsertPresent
  <2>1. HelperReturns(FALSE) /\ UNCHANGED <<map, new>> /\ hand.key \in KeysOf(new)
    BY <1>1, <1>5, PresentGood DEF InsertPresent
  <2>2. KeysOf(new') = KeysOf(new) \union {hand.key}
    BY <2>1
  <2> QED
    BY <2>1, <2>2, ReturnRehash
<1>6. CASE InsertRob
  <2>1. /\ map' = map
        /\ hand'.key \in KeysOf(new)
        /\ HandPair' \in PairsOf(new)
        /\ KeysOf(new') = (KeysOf(new) \ {hand'.key}) \union {hand.key}
        /\ PairsOf(new') = (PairsOf(new) \ {HandPair'}) \union {HandPair}
    BY <1>1, <1>3, <1>6, RobGood
  <2>2. UNCHANGED <<pc, it>>
    BY <1>6 DEF InsertRob
  <2>3. KeysOf(new') \union {hand'.key} = KeysOf(new) \union {hand.key}
    BY <2>1
  <2> QED
    BY <2>1, <2>2, <2>3, LoopRehash
<1>7. CASE InsertPass
  <2>1. UNCHANGED <<map, new, pc, it>> /\ hand'.key = hand.key /\ hand'.value = hand.value
    BY <1>1, <1>7, PassGood DEF InsertPass
  <2>2. HandPair' = HandPair
    BY <2>1 DEF HandPair
  <2> QED
    BY <2>1, <2>2, LoopRehash
<1> QED
  BY <1>2, <1>4, <1>5, <1>6, <1>7 DEF InsertStep
\* A step after which neither an insertion nor a resize is under way.
LEMMA ReturnGrow ==
  ASSUME GoodTable(map'), ~retry', call'.op # "remove", CleanInv',
         pc' \notin {"insert", "rehash", "reinsert"},
         pc' \in {"idle", "finalized"} => call' = NoCall
  PROVE  GrowInv'
BY DEF GrowInv, PendingInv, RehashInv

LEMMA GrowNextInv ==
  IInv /\ GrowInv /\ CleanInv' /\ [GrowNext]_vars => GrowInv'
<1> SUFFICES ASSUME IInv, GrowInv, CleanInv', [GrowNext]_vars PROVE GrowInv'
  OBVIOUS
<1>0. /\ GoodTable(map) /\ ~retry /\ call.op # "remove" /\ CleanInv
      /\ PendingInv /\ RehashInv
  BY DEF GrowInv
<1>a. call'.op # "remove"
  BY <1>0 DEF GrowNext, vars
<1>1. ASSUME NEW k \in Key, NEW v \in Value, Insert(k, v) PROVE GrowInv'
  <2>1. /\ map' = map /\ ~retry' /\ call' = [op |-> "insert", key |-> k, value |-> v]
        /\ hand' = Fresh(k, v) /\ pc' \in {"insert", "rehash"}
    BY <1>1 DEF Insert, BeginResize
  <2>2. PendingInv'
    BY <1>0, <2>1, FreshPlaced DEF PendingInv, Fresh
  <2>3. RehashInv'
    <3>1. CASE Overloaded
      BY <1>1, <2>1, <3>1, BeginResizeRehash DEF Insert
    <3>2. CASE ~Overloaded
      BY <1>1, <3>2 DEF Insert, RehashInv
    <3> QED
      BY <3>1, <3>2
  <2> QED
    BY <1>0, <1>a, <2>1, <2>2, <2>3 DEF GrowInv
<1>2. ASSUME NEW k \in Key, NEW op, Find(op, k) PROVE GrowInv'
  BY <1>0, <1>2, <1>a, ReturnGrow DEF Find
<1>3. CASE ProbeVacant \/ ProbeFound
  <2>1. call.op # "remove" /\ Return(ret') /\ map' = map
    BY <1>0, <1>3 DEF ProbeVacant, ProbeFound, Return
  <2> QED
    BY <1>0, <1>a, <2>1, ReturnGrow DEF Return
<1>4. CASE ProbeNext
  BY <1>0, <1>4, <1>a, ReturnGrow DEF ProbeNext
<1>5. CASE InsertStep /\ pc = "insert"
  <2>1. Target = map /\ GoodTable(map) /\ Placed(map, hand)
    BY <1>0, <1>5 DEF PendingInv, Target
  <2>2. ~InsertRemoved /\ ~InsertTooMany
    BY <1>5, <2>1, NoTombstone DEF InHelper
  <2>3. \A t : SetTarget(t) => map' = t
    BY <1>5 DEF SetTarget
  <2>4. PICK t : /\ SetTarget(t) /\ GoodTable(t)
                 /\ \/ HelperReturns(TRUE) \/ HelperReturns(FALSE)
                    \/ Placed(t, hand') /\ UNCHANGED <<pc, retry>>
    BY <1>5, <2>1, HelperGood
  <2>5. GoodTable(map')
    BY <2>3, <2>4
  <2>6. CASE InsertVacant \/ InsertPresent
    <3>1. pc' = "idle" /\ call' = NoCall /\ ~retry'
      BY <1>5, <2>6 DEF InsertVacant, InsertPresent, HelperReturns, Return
    <3> QED
      BY <1>a, <2>5, <3>1, ReturnGrow
  <2>7. CASE InsertRob \/ InsertPass
    <3>1. pc' = "insert" /\ UNCHANGED <<call, retry>>
      BY <1>5, <2>7 DEF InsertRob, InsertPass
    <3>2. PendingInv'
      <4>1. CASE InsertRob
        BY <1>5, <4>1, RobPending
      <4>2. CASE InsertPass
        <5>1. map' = map /\ Placed(map, hand') /\ hand'.key = hand.key /\ hand'.value = hand.value
          BY <2>1, <2>3, <4>2, PassGood
        <5>2. CallPair' = CallPair
          BY <3>1 DEF CallPair
        <5> QED
          BY <1>0, <1>5, <2>1, <3>1, <5>1, <5>2 DEF PendingInv
      <4> QED
        BY <2>7, <4>1, <4>2
    <3>3. RehashInv'
      BY <3>1 DEF RehashInv
    <3> QED
      BY <1>0, <1>a, <2>5, <3>1, <3>2, <3>3 DEF GrowInv
  <2> QED
    BY <1>5, <2>2, <2>6, <2>7 DEF InsertStep
<1>6. CASE InsertStep /\ pc = "reinsert"
  <2>1. RehashInv' /\ map' = map
    BY <1>0, <1>6, HelperRehash
  <2>2. pc' \in {"rehash", "reinsert"} /\ UNCHANGED <<call, retry>>
    <3>1. ~InsertTooMany
      BY <1>0, <1>6, NoTombstone DEF CleanInv, InHelper
    <3> QED
      BY <1>6, <3>1 DEF InsertStep, InsertVacant, InsertRemoved, InsertPresent,
                        InsertRob, InsertPass, HelperReturns
  <2> QED
    BY <1>0, <1>a, <2>1, <2>2 DEF GrowInv, PendingInv
<1>7. CASE ReinsertNext
  <2>1. /\ pc = "rehash" /\ pc' = "reinsert" /\ it # Nil
        /\ hand' = Fresh(map.slots[it].key, map.slots[it].value)
        /\ UNCHANGED <<map, new, call, it, retry>>
    BY <1>7 DEF ReinsertNext
  <2>2. it \in Live(map)
    BY <2>1 DEF IInv, ResizeInv
  <2>3. hand'.key = map.slots[it].key /\ HandPair' = <<map.slots[it].key, map.slots[it].value>>
    BY <2>1 DEF Fresh, HandPair
  <2>4. HandPair' \in PairsOf(map)
    BY <2>2, <2>3 DEF PairsOf
  <2>5. Met' = Met \union {it}
    <3>1. \A s \in Live(map) : map.slots[s].key = map.slots[it].key <=> s = it
      BY <1>0, <2>2 DEF GoodTable, DistinctKeys
    <3> QED
      BY <2>1, <2>2, <2>3, <3>1 DEF Met
  <2>6. /\ PairsOf(new) \subseteq PairsOf(map)
        /\ map.first \in Met \union {it}
        /\ \A s \in Met : map.slots[s].next \in Met \union {it, Nil}
    BY <1>0, <2>1 DEF RehashInv
  <2>7. RehashInv'
    BY <2>1, <2>4, <2>5, <2>6 DEF RehashInv
  <2> QED
    BY <1>0, <1>a, <2>1, <2>7 DEF GrowInv, PendingInv
<1>8. CASE EndResize
  <2>1. /\ pc' = "insert" /\ map' = new /\ hand' = Fresh(call.key, call.value)
        /\ UNCHANGED <<call, retry>> /\ GoodTable(new)
    BY <1>0, <1>8 DEF EndResize, CleanInv
  <2>2. PendingInv'
    BY <2>1, FreshPlaced DEF PendingInv, Fresh
  <2> QED
    BY <1>0, <1>a, <2>1, <2>2 DEF GrowInv, RehashInv
<1>9. CASE Finalize
  BY <1>0, <1>9, <1>a, ReturnGrow DEF Finalize, GrowInv
<1>10. CASE UNCHANGED vars
  BY <1>10 DEF vars, GrowInv, CleanInv, PendingInv, RehashInv, Met, CallPair, HandPair,
              InHelper, Target
<1>11. InsertStep => pc \in {"insert", "reinsert"}
  BY DEF InsertStep, InsertVacant, InsertRemoved, InsertTooMany, InsertPresent,
         InsertRob, InsertPass, InHelper
<1> QED
  BY <1>1, <1>2, <1>3, <1>4, <1>5, <1>6, <1>7, <1>8, <1>9, <1>10, <1>11
     DEF GrowNext, Next, InsertCall, LookupCall, RemoveCall, Lookup, Remove, Internal

LEMMA GrowInit == Init => GrowInv
<1> SUFFICES ASSUME Init PROVE GrowInv
  OBVIOUS
<1>1. GoodTable(map)
  BY EmptyTableGood, HashMapAssumption DEF Init
<1> QED
  BY <1>1, CleanInit DEF Init, GrowInv, PendingInv, RehashInv, NoCall

LEMMA GrowInvariant == GrowSpec => [](IInv /\ GrowInv)
<1>1. [GrowNext]_vars => [Next]_vars
  BY DEF GrowNext
<1>2. IInv /\ GrowInv /\ [GrowNext]_vars => (IInv /\ GrowInv)'
  BY <1>1, NextInv, CleanNext, GrowNextInv DEF GrowInv
<1>3. Init => IInv /\ GrowInv
  BY InitInv, GrowInit
<1> QED
  BY <1>2, <1>3, PTL DEF GrowSpec

\* A map from which nothing is removed never holds a key twice, through every
\* displacement and every resize: map_insert sees that a key is present
\* before it displaces anything.
THEOREM KeysStayUnique == GrowSpec => []OneEntryPerKey
<1>1. GrowInv => OneEntryPerKey
  BY DEF GrowInv, GoodTable, DistinctKeys, OneEntryPerKey
<1> QED
  BY <1>1, GrowInvariant, PTL
-----------------------------------------------------------------------------
(* A map that only grows implements the map of the header.                 *)

\* A set of pairs as a function, when no two pairs have the same key.
Single(P) == /\ \A p \in P : p = <<p[1], p[2]>>
             /\ \A p, q \in P : p[1] = q[1] => p = q

FunOf(P) == [k \in {p[1] : p \in P} |-> CHOOSE v : <<k, v>> \in P]

LEMMA FunOfPair ==
  ASSUME NEW P, Single(P), NEW p \in P
  PROVE  p[1] \in DOMAIN FunOf(P) /\ FunOf(P)[p[1]] = p[2]
<1> DEFINE w == CHOOSE v : <<p[1], v>> \in P
<1>1. <<p[1], p[2]>> \in P
  BY DEF Single
<1>2. <<p[1], w>> \in P
  BY <1>1
<1>3. w = p[2]
  <2>1. <<p[1], w>> = <<p[1], p[2]>>
    BY <1>1, <1>2 DEF Single
  <2> QED
    BY <2>1
<1> QED
  BY <1>3 DEF FunOf

\* It is the only function with those pairs.
LEMMA FunOfOnly ==
  ASSUME NEW P, Single(P),
         NEW D, D = {p[1] : p \in P},
         NEW f, f = [k \in D |-> f[k]], \A p \in P : f[p[1]] = p[2]
  PROVE  f = FunOf(P)
<1>1. DOMAIN FunOf(P) = D /\ FunOf(P) = [k \in D |-> FunOf(P)[k]]
  <2> DEFINE val(k) == CHOOSE v : <<k, v>> \in P
             g == [k \in D |-> val(k)]
  <2>2. FunOf(P) = g
    BY DEF FunOf
  <2> HIDE DEF val
  <2>1. DOMAIN g = D /\ g = [k \in D |-> g[k]]
    OBVIOUS
  <2> HIDE DEF g
  <2> QED
    BY <2>1, <2>2
<1>2. \A k \in D : f[k] = FunOf(P)[k]
  BY FunOfPair
<1> QED
  BY <1>1, <1>2

\* A new pair.
LEMMA FunOfAdd ==
  ASSUME NEW P, Single(P), NEW k, NEW v, \A p \in P : p[1] # k
  PROVE  FunOf(P \union {<<k, v>>}) =
           [j \in DOMAIN FunOf(P) \union {k} |-> IF j = k THEN v ELSE FunOf(P)[j]]
<1> DEFINE Q == P \union {<<k, v>>}
           D == DOMAIN FunOf(P) \union {k}
           f == [j \in D |-> IF j = k THEN v ELSE FunOf(P)[j]]
<1>1. Single(Q)
  BY DEF Single
<1>2. D = {p[1] : p \in Q}
  <2>1. DOMAIN FunOf(P) = {p[1] : p \in P}
    BY DEF FunOf
  <2>2. <<k, v>> \in Q /\ <<k, v>>[1] = k
    OBVIOUS
  <2>3. \A p \in Q : p \in P \/ p[1] = k
    OBVIOUS
  <2> QED
    BY <2>1, <2>2, <2>3
<1>3. ASSUME NEW p \in Q PROVE f[p[1]] = p[2]
  <2>1. CASE p \in P
    BY <2>1, FunOfPair
  <2>2. CASE p = <<k, v>>
    BY <2>2
  <2> QED
    BY <2>1, <2>2
<1>4. f = [j \in D |-> f[j]]
  OBVIOUS
<1> HIDE DEF Q, D, f
<1>5. f = FunOf(Q)
  BY <1>1, <1>2, <1>3, <1>4, FunOfOnly
<1> QED
  BY <1>5 DEF Q, D, f

\* What the map holds, as pairs: see Contents.
Pairs == IF pc = "insert" /\ hand.key # call.key
           THEN (PairsOf(map) \union {HandPair}) \ {CallPair}
           ELSE PairsOf(map)

\* The value that the table has for a key.
LEMMA ValueAtPair ==
  ASSUME DistinctKeys(map), NEW p \in PairsOf(map)
  PROVE  ValueAt(p[1]) = p[2]
<1>1. PICK s \in Live(map) : p = <<map.slots[s].key, map.slots[s].value>>
  BY DEF PairsOf
<1>2. \A r \in Live(map) : map.slots[r].key = p[1] => r = s
  BY <1>1 DEF DistinctKeys
<1> DEFINE w == CHOOSE r \in Live(map) : map.slots[r].key = p[1]
<1>3. w \in Live(map) /\ map.slots[w].key = p[1]
  BY <1>1
<1>4. ValueAt(p[1]) = map.slots[w].value
  BY DEF ValueAt
<1> HIDE DEF w
<1> QED
  BY <1>1, <1>2, <1>3, <1>4

LEMMA ContentsArePairs ==
  ASSUME GrowInv
  PROVE  Single(Pairs) /\ Contents = FunOf(Pairs)
<1>1. DistinctKeys(map)
  BY DEF GrowInv, GoodTable
<1>2. /\ Single(PairsOf(map))
      /\ \A p \in PairsOf(map) : p[1] \in KeysOf(map)
      /\ KeysOf(map) = {p[1] : p \in PairsOf(map)}
  BY <1>1, PairsFunctional DEF Single
<1>3. CASE pc = "insert" /\ hand.key # call.key
  <2>1. hand.key \notin KeysOf(map) /\ CallPair \in PairsOf(map)
    BY <1>3 DEF GrowInv, PendingInv
  <2>2. /\ HandPair = <<hand.key, hand.value>> /\ CallPair = <<call.key, call.value>>
        /\ Pairs = (PairsOf(map) \union {HandPair}) \ {CallPair}
    BY <1>3 DEF Pairs, HandPair, CallPair
  <2>3. Single(Pairs)
    BY <1>2, <2>1, <2>2 DEF Single
  <2> DEFINE D == (KeysOf(map) \union {hand.key}) \ {call.key}
             f == [k \in D |-> IF k = hand.key THEN hand.value ELSE ValueAt(k)]
  <2>4. Contents = f
    BY <1>3 DEF Contents
  <2>5. \A p \in Pairs :
         \/ p \in PairsOf(map) /\ p[1] # call.key /\ p[1] # hand.key
         \/ p = HandPair
    BY <1>2, <2>1, <2>2 DEF Single
  <2>6. D = {p[1] : p \in Pairs}
    <3>1. ASSUME NEW k \in D PROVE \E p \in Pairs : p[1] = k
      <4>1. CASE k = hand.key
        <5>1. HandPair \in Pairs /\ HandPair[1] = k
          BY <1>3, <2>2, <4>1
        <5> QED
          BY <5>1
      <4>2. CASE k # hand.key
        <5>1. PICK p \in PairsOf(map) : p[1] = k
          BY <1>2, <4>2
        <5> QED
          BY <2>2, <5>1
      <4> QED
        BY <4>1, <4>2
    <3>2. ASSUME NEW p \in Pairs PROVE p[1] \in D
      BY <1>2, <1>3, <2>2, <2>5
    <3> QED
      BY <3>1, <3>2
  <2>7. ASSUME NEW p \in Pairs PROVE f[p[1]] = p[2]
    <3>1. p[1] \in D
      BY <2>6
    <3>2. CASE p = HandPair
      BY <2>2, <3>1, <3>2
    <3>3. CASE p # HandPair
      <4>1. p \in PairsOf(map) /\ p[1] # hand.key
        BY <2>5, <3>3
      <4> QED
        BY <1>1, <3>1, <4>1, ValueAtPair
    <3> QED
      BY <3>2, <3>3
  <2>8. f = [k \in D |-> f[k]]
    OBVIOUS
  <2> HIDE DEF D, f
  <2> QED
    BY <2>3, <2>4, <2>6, <2>7, <2>8, FunOfOnly
<1>4. CASE ~(pc = "insert" /\ hand.key # call.key)
  <2>1. Pairs = PairsOf(map)
    BY <1>4 DEF Pairs
  <2> DEFINE D == KeysOf(map)
             f == [k \in D |-> ValueAt(k)]
  <2>2. Contents = f
    BY <1>4 DEF Contents
  <2>3. \A p \in PairsOf(map) : f[p[1]] = p[2]
    BY <1>1, <1>2, ValueAtPair
  <2>4. f = [k \in D |-> f[k]]
    OBVIOUS
  <2> HIDE DEF f
  <2> QED
    BY <1>2, <2>1, <2>2, <2>3, <2>4, FunOfOnly
<1> QED
  BY <1>3, <1>4
\* What the steps below use of a state and of the next one.
ContentsOK == Single(Pairs) /\ Contents = FunOf(Pairs)

GrowOK == IInv /\ GrowInv /\ ContentsOK

LEMMA GrowStaysOK == GrowSpec => []GrowOK
<1>1. IInv /\ GrowInv => GrowOK
  BY ContentsArePairs DEF GrowOK, ContentsOK
<1> QED
  BY <1>1, GrowInvariant, PTL

\* A key is held if a pair has it.
LEMMA HeldKeys ==
  ASSUME ContentsOK
  PROVE  DOMAIN Contents = {p[1] : p \in Pairs}
BY DEF ContentsOK, FunOf

\* A step that changes neither the pairs, nor the call, nor the result.
LEMMA SamePairs ==
  ASSUME ContentsOK, ContentsOK', Pairs' = Pairs, UNCHANGED <<call, ret>>
  PROVE  UNCHANGED Abstract!vars
BY DEF ContentsOK, Abstract!vars

\* map_insert, map_lookup and map_remove are called.
LEMMA BeginRefines ==
  ASSUME GrowOK, GrowOK', pc = "idle", NEW c \in Abstract!Calls, call' = c,
         UNCHANGED <<map, ret>>, pc' = "insert" => hand'.key = call'.key
  PROVE  Abstract!Next
<1>1. call = Abstract!NoCall
  BY DEF GrowOK, GrowInv, NoCall, Abstract!NoCall
<1>2. Pairs' = Pairs
  BY DEF Pairs
<1>3. Contents' = Contents
  BY <1>2 DEF GrowOK, ContentsOK
<1> QED
  BY <1>1, <1>3 DEF Abstract!Next, Abstract!Begin

\* A lookup returns.
LEMMA ProbeRefines ==
  ASSUME GrowOK, GrowOK', ProbeVacant \/ ProbeFound
  PROVE  Abstract!Next
<1>1. /\ pc = "probe" /\ call.op = "lookup" /\ call.key = hand.key
      /\ pc' = "idle" /\ call' = NoCall /\ map' = map
  BY DEF GrowOK, GrowInv, IInv, TypeOK, ProbeInv, ProbeVacant, ProbeFound, Return
<1>2. Pairs = PairsOf(map) /\ Pairs' = PairsOf(map)
  BY <1>1 DEF Pairs
<1>3. Contents' = Contents /\ Contents = FunOf(PairsOf(map)) /\ Single(PairsOf(map))
  BY <1>2 DEF GrowOK, ContentsOK
<1>4. ret' = IF call.key \in DOMAIN Contents THEN Contents[call.key] ELSE NoValue
  <2>1. CASE ProbeVacant
    <3>1. call.key \notin KeysOf(map) /\ ret' = NoValue
      BY <2>1, VacantMeansAbsent DEF GrowOK, ProbeVacant, Return
    <3>2. DOMAIN Contents = {p[1] : p \in PairsOf(map)}
      BY <1>2, HeldKeys DEF GrowOK
    <3>3. \A p \in PairsOf(map) : p[1] \in KeysOf(map)
      BY PairsFunctional DEF GrowOK, GrowInv, GoodTable
    <3> QED
      BY <3>1, <3>2, <3>3
  <2>2. CASE ProbeFound
    <3>1. /\ Here.probes > 0 /\ Here.key = call.key /\ ret' = Here.value
      BY <1>1, <2>2 DEF ProbeFound, Return
    <3>2. At \in Live(map) /\ Here = map.slots[At]
      BY <1>1, <3>1, LoopFacts DEF GrowOK, Target
    <3> DEFINE p == <<call.key, Here.value>>
    <3>3. p \in PairsOf(map)
      BY <3>1, <3>2 DEF PairsOf
    <3>4. p[1] \in DOMAIN Contents /\ Contents[p[1]] = p[2]
      BY <1>3, <3>3, FunOfPair
    <3> QED
      BY <3>1, <3>4
  <2> QED
    BY <2>1, <2>2
<1> QED
  BY <1>1, <1>3, <1>4 DEF Abstract!Next, Abstract!Return, Abstract!Lookup, Abstract!Present,
                          Abstract!NoCall, NoCall

\* An insertion returns TRUE, or FALSE.
LEMMA InsertRefines ==
  ASSUME GrowOK, GrowOK', InsertVacant \/ InsertPresent, pc = "insert"
  PROVE  Abstract!Next
<1>1. /\ Target = map /\ GoodTable(map) /\ Placed(map, hand)
      /\ call.op = "insert"
      /\ IF hand.key = call.key THEN hand.value = call.value
           ELSE hand.key \notin KeysOf(map) /\ CallPair \in PairsOf(map)
      /\ HandPair = <<hand.key, hand.value>> /\ CallPair = <<call.key, call.value>>
  BY DEF GrowOK, GrowInv, PendingInv, Target, IInv, ResizeInv, HandPair, CallPair
<1>2. pc' = "idle" /\ call' = NoCall
  BY DEF InsertVacant, InsertPresent, HelperReturns, Return
<1>3. Pairs' = PairsOf(map')
  BY <1>2 DEF Pairs
<1>4. /\ \A p \in PairsOf(map) : p[1] \in KeysOf(map)
      /\ \A k \in KeysOf(map) : \E p \in PairsOf(map) : p[1] = k
      /\ \A p, q \in PairsOf(map) : p[1] = q[1] => p = q
  BY <1>1, PairsFunctional DEF GoodTable
<1>5. DOMAIN Contents = {p[1] : p \in Pairs}
  BY HeldKeys DEF GrowOK
<1>6. CASE InsertVacant
  <2>1. /\ hand.key \notin KeysOf(map) /\ PairsOf(map') = PairsOf(map) \union {HandPair}
    <3>1. PICK t : /\ SetTarget(t) /\ hand.key \notin KeysOf(map)
                   /\ PairsOf(t) = PairsOf(map) \union {HandPair}
      BY <1>1, <1>6, VacantGood DEF GrowOK
    <3> QED
      BY <3>1 DEF SetTarget
  <2>2. \A p \in Pairs : p[1] # call.key
    <3>1. CASE hand.key = call.key
      BY <1>4, <2>1, <3>1 DEF Pairs
    <3>2. CASE hand.key # call.key
      BY <1>1, <1>4, <3>2 DEF Pairs
    <3> QED
      BY <3>1, <3>2
  <2>3. Pairs' = Pairs \union {CallPair}
    <3>1. CASE hand.key = call.key
      BY <1>1, <1>3, <2>1, <3>1 DEF Pairs
    <3>2. CASE hand.key # call.key
      BY <1>1, <1>3, <2>1, <3>2 DEF Pairs
    <3> QED
      BY <3>1, <3>2
  <2>4. Contents' = [k \in DOMAIN Contents \union {call.key} |->
                       IF k = call.key THEN call.value ELSE Contents[k]]
    BY <1>1, <2>2, <2>3, FunOfAdd DEF GrowOK, ContentsOK
  <2>5. call.key \notin DOMAIN Contents
    BY <1>5, <2>2
  <2>6. ret' = TRUE
    BY <1>6 DEF InsertVacant, HelperReturns, Return
  <2> QED
    BY <1>1, <1>2, <2>4, <2>5, <2>6
       DEF Abstract!Next, Abstract!Return, Abstract!Insert, Abstract!Present,
           Abstract!NoCall, NoCall
<1>7. CASE InsertPresent
  <2>1. map' = map /\ hand.key \in KeysOf(map) /\ ret' = FALSE
    BY <1>1, <1>7, PresentGood DEF GrowOK, InsertPresent, HelperReturns, Return
  <2>2. hand.key = call.key
    BY <1>1, <2>1
  <2>3. Pairs = PairsOf(map) /\ Pairs' = Pairs
    BY <1>3, <2>1, <2>2 DEF Pairs
  <2>4. Contents' = Contents
    BY <2>3 DEF GrowOK, ContentsOK
  <2>5. call.key \in DOMAIN Contents
    BY <1>4, <1>5, <2>1, <2>2, <2>3
  <2> QED
    BY <1>1, <1>2, <2>1, <2>4, <2>5
       DEF Abstract!Next, Abstract!Return, Abstract!Insert, Abstract!Present,
           Abstract!NoCall, NoCall
<1> QED
  BY <1>6, <1>7

\* A displacement changes what is in hand and what is in the table, not what
\* the map holds.
LEMMA RobRefines ==
  ASSUME GrowOK, GrowOK', InsertRob, pc = "insert"
  PROVE  Pairs' = Pairs
<1>1. /\ Target = map /\ GoodTable(map) /\ Placed(map, hand)
      /\ IF hand.key = call.key THEN hand.value = call.value
           ELSE hand.key \notin KeysOf(map) /\ CallPair \in PairsOf(map)
      /\ HandPair = <<hand.key, hand.value>> /\ CallPair = <<call.key, call.value>>
      /\ pc' = "insert" /\ call' = call
  BY DEF GrowOK, GrowInv, PendingInv, Target, HandPair, CallPair, InsertRob
<1>2. /\ hand.key \notin KeysOf(map)
      /\ HandPair' \in PairsOf(map) /\ HandPair' = <<hand'.key, hand'.value>>
      /\ PairsOf(map') = (PairsOf(map) \ {HandPair'}) \union {HandPair}
  <2>1. PICK t : /\ SetTarget(t) /\ hand.key \notin KeysOf(map)
                 /\ HandPair' \in PairsOf(map)
                 /\ PairsOf(t) = (PairsOf(map) \ {HandPair'}) \union {HandPair}
    BY <1>1, RobGood DEF GrowOK
  <2> QED
    BY <1>1, <2>1 DEF SetTarget, HandPair
<1>3. CallPair' = CallPair
  BY <1>1 DEF CallPair
<1>4. Pairs' = IF hand'.key # call.key THEN (PairsOf(map') \union {HandPair'}) \ {CallPair}
                                       ELSE PairsOf(map')
  BY <1>1, <1>3 DEF Pairs
<1>5. Pairs = IF hand.key # call.key THEN (PairsOf(map) \union {HandPair}) \ {CallPair}
                                     ELSE PairsOf(map)
  BY DEF Pairs
<1>6. /\ \A p \in PairsOf(map) : p[1] \in KeysOf(map)
      /\ \A p, q \in PairsOf(map) : p[1] = q[1] => p = q
  BY <1>1, PairsFunctional DEF GoodTable
<1>7. hand'.key # hand.key /\ hand'.key = HandPair'[1] /\ HandPair \notin PairsOf(map)
      /\ call.key = CallPair[1]
  BY <1>1, <1>2, <1>6
<1>8. CASE hand.key = call.key
  <2>1. HandPair = CallPair /\ hand'.key # call.key
    BY <1>1, <1>7, <1>8
  <2>2. Pairs' = (PairsOf(map') \union {HandPair'}) \ {CallPair} /\ Pairs = PairsOf(map)
    BY <1>4, <1>5, <1>8, <2>1
  <2> QED
    BY <1>2, <1>7, <2>1, <2>2
<1>9. CASE hand.key # call.key
  <2>1. CallPair \in PairsOf(map) /\ CallPair # HandPair
    BY <1>1, <1>7, <1>9
  <2>2. CASE hand'.key = call.key
    <3>1. HandPair' = CallPair
      BY <1>2, <1>6, <1>7, <2>1, <2>2
    <3> QED
      BY <1>2, <1>4, <1>5, <1>9, <2>1, <2>2, <3>1
  <2>3. CASE hand'.key # call.key
    <3>1. HandPair' # CallPair
      BY <1>7, <2>3
    <3>2. Pairs' = (PairsOf(map') \union {HandPair'}) \ {CallPair}
      BY <1>4, <2>3
    <3>3. Pairs = (PairsOf(map) \union {HandPair}) \ {CallPair}
      BY <1>5, <1>9
    <3> QED
      BY <1>2, <3>2, <3>3
  <2> QED
    BY <2>2, <2>3
<1> QED
  BY <1>8, <1>9
\* _resize_table has taken over every pair when its iterator ends: the slots
\* it met hold first and are closed under next, so they are all of the list.
LEMMA NothingLost ==
  ASSUME IInv, GrowInv, pc = "rehash", it = Nil
  PROVE  PairsOf(new) = PairsOf(map)
<1>1. /\ PairsOf(new) \subseteq PairsOf(map)
      /\ map.first \in Met \union {Nil}
      /\ \A s \in Met : map.slots[s].next \in Met \union {Nil}
  BY DEF GrowInv, RehashInv
<1>2. Met = Live(map)
  <2>1. Connected(map) /\ Met \in SUBSET Live(map)
    BY DEF IInv, TableInv, Met
  <2> HIDE DEF Met
  <2> QED
    BY <1>1, <2>1 DEF Connected
<1>3. /\ \A p, q \in PairsOf(map) : p[1] = q[1] => p = q
      /\ DistinctKeys(new)
  BY PairsFunctional DEF GrowInv, GoodTable, CleanInv
<1>4. ASSUME NEW s \in Live(map)
      PROVE  <<map.slots[s].key, map.slots[s].value>> \in PairsOf(new)
  <2> DEFINE p == <<map.slots[s].key, map.slots[s].value>>
  <2>1. map.slots[s].key \in KeysOf(new)
    BY <1>2, <1>4 DEF Met
  <2>2. PICK q \in PairsOf(new) : q[1] = p[1]
    BY <1>3, <2>1, PairsFunctional
  <2>3. p \in PairsOf(map)
    BY <1>4 DEF PairsOf
  <2> HIDE DEF p
  <2>4. p = q
    BY <1>1, <1>3, <2>2, <2>3
  <2>5. p \in PairsOf(new)
    BY <2>2, <2>4
  <2> QED
    BY <2>5 DEF p
<1>5. PairsOf(map) \subseteq PairsOf(new)
  BY <1>4 DEF PairsOf
<1> QED
  BY <1>1, <1>5

\* Every step is a call, a return, or invisible.
LEMMA StepRefines ==
  GrowOK /\ GrowOK' /\ [GrowNext]_vars => [Abstract!Next]_(Abstract!vars)
<1> SUFFICES ASSUME GrowOK, GrowOK', [GrowNext]_vars
             PROVE  Abstract!Next \/ UNCHANGED Abstract!vars
  OBVIOUS
<1>0. IInv /\ GrowInv /\ ContentsOK /\ ContentsOK'
  BY DEF GrowOK
<1>1. ASSUME NEW k \in Key, NEW v \in Value, Insert(k, v) PROVE Abstract!Next
  <2>1. /\ pc = "idle" /\ call' = [op |-> "insert", key |-> k, value |-> v]
        /\ hand' = Fresh(k, v) /\ UNCHANGED <<map, ret>>
    BY <1>1 DEF Insert
  <2>2. call' \in Abstract!Calls /\ hand'.key = call'.key
    BY <2>1 DEF Abstract!Calls, Fresh
  <2> QED
    BY <2>1, <2>2, BeginRefines
<1>2. ASSUME NEW k \in Key, NEW op \in {"lookup", "remove"}, Find(op, k)
      PROVE  Abstract!Next
  <2>1. /\ pc = "idle" /\ call' = [op |-> op, key |-> k, value |-> NoValue]
        /\ pc' = "probe" /\ UNCHANGED <<map, ret>>
    BY <1>2 DEF Find
  <2>2. call' \in Abstract!Calls
    BY <2>1 DEF Abstract!Calls
  <2> QED
    BY <2>1, <2>2, BeginRefines
<1>3. CASE ProbeVacant \/ ProbeFound
  BY <1>3, ProbeRefines
<1>4. ASSUME Pairs' = Pairs, UNCHANGED <<call, ret>> PROVE UNCHANGED Abstract!vars
  BY <1>0, <1>4, SamePairs
<1>5. CASE ProbeNext \/ ReinsertNext \/ Finalize
  <2>1. pc # "insert" /\ pc' # "insert" /\ UNCHANGED <<map, call, ret>>
    BY <1>5 DEF ProbeNext, ReinsertNext, Finalize
  <2>2. Pairs' = Pairs
    BY <2>1 DEF Pairs
  <2> QED
    BY <1>4, <2>1, <2>2
<1>6. CASE EndResize
  <2>1. /\ pc = "rehash" /\ it = Nil /\ map' = new
        /\ hand' = Fresh(call.key, call.value) /\ UNCHANGED <<call, ret>>
    BY <1>6 DEF EndResize
  <2>2. hand'.key = call'.key
    BY <2>1 DEF Fresh
  <2>3. PairsOf(new) = PairsOf(map)
    BY <1>0, <2>1, NothingLost
  <2>4. Pairs = PairsOf(map) /\ Pairs' = PairsOf(new)
    BY <2>1, <2>2 DEF Pairs
  <2> QED
    BY <1>4, <2>1, <2>3, <2>4
<1>7. CASE InsertStep /\ pc = "insert"
  <2>1. ~InsertRemoved /\ ~InsertTooMany /\ Target = map /\ GoodTable(map) /\ Placed(map, hand)
    BY <1>0, <1>7, NoTombstone DEF GrowInv, PendingInv, InHelper, Target
  <2>2. CASE InsertVacant \/ InsertPresent
    BY <1>7, <2>2, InsertRefines
  <2>3. CASE InsertRob
    BY <1>4, <1>7, <2>3, RobRefines DEF InsertRob
  <2>4. CASE InsertPass
    <3>1. hand'.key = hand.key /\ hand'.value = hand.value
          /\ UNCHANGED <<map, pc, call, ret>>
      BY <1>0, <2>1, <2>4, PassGood DEF InsertPass
    <3>2. Pairs' = Pairs
      BY <3>1 DEF Pairs, HandPair, CallPair
    <3> QED
      BY <1>4, <3>1, <3>2
  <2> QED
    BY <1>7, <2>1, <2>2, <2>3, <2>4 DEF InsertStep
<1>8. CASE InsertStep /\ pc = "reinsert"
  <2>1. map' = map /\ ~InsertTooMany
    BY <1>0, <1>8, HelperRehash, NoTombstone DEF GrowInv, CleanInv, InHelper
  <2>2. pc' # "insert" /\ UNCHANGED <<call, ret>>
    BY <1>8, <2>1 DEF InsertStep, InsertVacant, InsertRemoved, InsertPresent, InsertRob,
                      InsertPass, HelperReturns
  <2>3. Pairs' = Pairs
    BY <1>8, <2>1, <2>2 DEF Pairs
  <2> QED
    BY <1>4, <2>2, <2>3
<1>9. CASE UNCHANGED vars
  BY <1>4, <1>9 DEF vars, Pairs, HandPair, CallPair
<1>10. InsertStep => pc \in {"insert", "reinsert"}
  BY DEF InsertStep, InsertVacant, InsertRemoved, InsertTooMany, InsertPresent,
         InsertRob, InsertPass, InHelper
<1> QED
  BY <1>1, <1>2, <1>3, <1>5, <1>6, <1>7, <1>8, <1>9, <1>10
     DEF GrowNext, Next, InsertCall, LookupCall, RemoveCall, Lookup, Remove, Internal

LEMMA InitRefines == Init => Abstract!Init
<1> SUFFICES ASSUME Init PROVE Abstract!Init
  OBVIOUS
<1>1. KeysOf(map) = {} /\ pc = "idle" /\ call = NoCall /\ ret = NoValue
  BY EmptyTableGood, HashMapAssumption DEF Init
<1>2. Contents = [k \in {} |-> NoValue]
  BY <1>1 DEF Contents
<1> QED
  BY <1>1, <1>2 DEF Abstract!Init, Abstract!NoCall, NoCall

\* A map from which nothing is removed implements the map that struct/map.h
\* describes: displacements and resizes neither lose, add nor change a pair,
\* and every call returns what the contents say.
THEOREM GrowingMapIsMap == GrowSpec => ImplementsMap
BY InitRefines, StepRefines, GrowStaysOK, PTL
   DEF GrowSpec, ImplementsMap, Abstract!Spec
=============================================================================
