--------------------------- MODULE HashMapProofs ---------------------------
(***************************************************************************)
(* Theorems about the hash map, for any keys, hash function, sizes and     *)
(* sequence of calls.  IInv of HashMapInv is inductive: each table         *)
(* operation keeps TableInv (the first group of lemmas), and each step     *)
(* applies one of them (the second group).                                 *)
(***************************************************************************)
EXTENDS HashMapInv, FiniteSetTheorems, Iteration

-----------------------------------------------------------------------------
(* Arithmetic. *)

\* A probed position lies inside the table.
LEMMA PosInSlots ==
  ASSUME NEW h \in Nat, NEW p \in Nat, NEW n \in Nat \ {0}
  PROVE  Pos(h, p, n) \in SlotsOf(n)
<1>1. p * p \in Nat
  OBVIOUS
<1>2. h + p * p \in Nat
  BY <1>1
<1> DEFINE x == h + p * p
<1>3. x \in Nat
  BY <1>2
<1> HIDE DEF x
<1>4. (x % UintMod) \in Nat
  BY <1>3, HashMapAssumption
<1>5. ((x % UintMod) % n) \in 0 .. (n - 1)
  BY <1>4
<1> QED
  BY <1>5 DEF x, Pos, SlotsOf

\* NULL is not the number of a slot.
LEMMA NilNoSlot ==
  ASSUME NEW n \in Nat
  PROVE  Nil \notin SlotsOf(n)
BY DEF Nil, SlotsOf

-----------------------------------------------------------------------------
(* The operations on tables. *)

\* A table fresh from the allocator has no entries to misplace.
LEMMA EmptyTableInv ==
  ASSUME NEW n \in Nat \ {0}
  PROVE  /\ EmptyTable(n) \in TableOf(n)
         /\ EmptyTable(n).sz = n
         /\ Live(EmptyTable(n)) = {}
         /\ TableInv(EmptyTable(n))
         /\ NoRemoved(EmptyTable(n))
<1> DEFINE t == EmptyTable(n)
<1>1. /\ t.sz = n /\ t.first = Nil /\ t.last = Nil
      /\ t.slots = [s \in SlotsOf(n) |-> EmptyEntry]
  BY DEF EmptyTable
<1>2. EmptyEntry \in EntryOf(n)
  BY DEF EmptyEntry, EntryOf, Vacant, Removed
<1>3. t \in TableOf(n)
  BY <1>2 DEF EmptyTable, TableOf
<1>4. \A s \in SlotsOf(n) : t.slots[s].probes = 0
  BY <1>1 DEF EmptyEntry, Vacant
<1> HIDE DEF t
<1>5. Live(t) = {}
  BY <1>1, <1>4 DEF Live
<1>6. NoRemoved(t)
  BY <1>1, <1>4 DEF NoRemoved, Removed
<1>7. TableInv(t)
  BY <1>1, <1>5 DEF TableInv, PairsOK, LinksOK, Connected, TableReachable
<1> QED
  BY <1>1, <1>3, <1>5, <1>6, <1>7 DEF t

\* What TableOf says of the fields.
LEMMA TableFields ==
  ASSUME NEW n \in Nat, NEW t \in TableOf(n)
  PROVE  /\ t.sz = n
         /\ DOMAIN t.slots = SlotsOf(n)
         /\ t.first \in SlotsOf(n) \union {Nil}
         /\ t.last \in SlotsOf(n) \union {Nil}
         /\ t = [sz |-> t.sz, slots |-> t.slots, first |-> t.first, last |-> t.last]
         /\ \A s \in SlotsOf(n) :
              /\ t.slots[s] \in EntryOf(n)
              /\ t.slots[s].probes \in Nat \union {Removed}
              /\ t.slots[s].key \in Key \union {NoKey}
              /\ t.slots[s].value \in Value \union {NoValue}
              /\ t.slots[s].prev \in SlotsOf(n) \union {Nil}
              /\ t.slots[s].next \in SlotsOf(n) \union {Nil}
         /\ Live(t) = {s \in SlotsOf(n) : t.slots[s].probes > 0}
<1>1. \A s \in SlotsOf(n) : t.slots[s] \in EntryOf(n)
  BY DEF TableOf
<1> QED
  BY <1>1 DEF TableOf, EntryOf, Live

\* A pair written to a slot, and the slot appended to the list.
LEMMA OccupyFields ==
  ASSUME NEW n \in Nat \ {0}, NEW t \in TableOf(n),
         NEW h, h.key \in Key, h.value \in Value,
         NEW s \in SlotsOf(n), NEW p \in Nat \ {0}
  PROVE  LET u == Occupy(t, h, s, p) IN
         /\ u \in TableOf(n)
         /\ u.sz = n
         /\ u.first = IF t.first = Nil THEN s ELSE t.first
         /\ u.last = s
         /\ \A i \in SlotsOf(n) :
              /\ u.slots[i].probes = IF i = s THEN p ELSE t.slots[i].probes
              /\ u.slots[i].key = IF i = s THEN h.key ELSE t.slots[i].key
              /\ u.slots[i].value = IF i = s THEN h.value ELSE t.slots[i].value
              /\ u.slots[i].prev = IF i = s THEN t.last ELSE t.slots[i].prev
              /\ u.slots[i].next = IF i = s THEN Nil
                                   ELSE IF i = t.last THEN s ELSE t.slots[i].next
         /\ Live(u) = Live(t) \union {s}
<1> DEFINE u == Occupy(t, h, s, p)
           e == [probes |-> p, key |-> h.key, value |-> h.value,
                 prev |-> t.last, next |-> Nil]
<1>0. /\ n \in Nat
      /\ Nil \notin SlotsOf(n)
  BY NilNoSlot
<1>1. /\ t.sz = n
      /\ t.first \in SlotsOf(n) \union {Nil}
      /\ t.last \in SlotsOf(n) \union {Nil}
      /\ \A i \in SlotsOf(n) : t.slots[i] \in EntryOf(n)
      /\ Live(t) = {i \in SlotsOf(n) : t.slots[i].probes > 0}
  BY <1>0, TableFields
<1> DEFINE S == [i \in SlotsOf(n) |->
                    IF i = s THEN e
                    ELSE IF i = t.last THEN [t.slots[i] EXCEPT !.next = s]
                    ELSE t.slots[i]]
           f == IF t.first = Nil THEN s ELSE t.first
<1>2. S \in [SlotsOf(n) -> EntryOf(n)]
  <2>1. e \in EntryOf(n)
    BY <1>1 DEF EntryOf
  <2>2. \A i \in SlotsOf(n) : [t.slots[i] EXCEPT !.next = s] \in EntryOf(n)
    BY <1>1 DEF EntryOf
  <2> QED
    BY <1>1, <2>1, <2>2
<1>3. f \in SlotsOf(n) \union {Nil}
  BY <1>1
<1>4. u = [t EXCEPT !.slots = S, !.first = f, !.last = s]
  BY <1>1 DEF Occupy
<1>a. /\ u \in TableOf(n)
      /\ u.sz = n /\ u.slots = S /\ u.first = f /\ u.last = s
  <2> HIDE DEF S, f, u
  <2> QED
    BY <1>2, <1>3, <1>4 DEF TableOf
<1> HIDE DEF u
<1>5. \A i \in SlotsOf(n) :
        /\ u.slots[i].probes = IF i = s THEN p ELSE t.slots[i].probes
        /\ u.slots[i].key = IF i = s THEN h.key ELSE t.slots[i].key
        /\ u.slots[i].value = IF i = s THEN h.value ELSE t.slots[i].value
        /\ u.slots[i].prev = IF i = s THEN t.last ELSE t.slots[i].prev
        /\ u.slots[i].next = IF i = s THEN Nil
                             ELSE IF i = t.last THEN s ELSE t.slots[i].next
  <2> SUFFICES ASSUME NEW i \in SlotsOf(n) PROVE
        LET a == IF i = s THEN e
                 ELSE IF i = t.last THEN [t.slots[i] EXCEPT !.next = s]
                 ELSE t.slots[i]
        IN  /\ a.probes = IF i = s THEN p ELSE t.slots[i].probes
            /\ a.key = IF i = s THEN h.key ELSE t.slots[i].key
            /\ a.value = IF i = s THEN h.value ELSE t.slots[i].value
            /\ a.prev = IF i = s THEN t.last ELSE t.slots[i].prev
            /\ a.next = IF i = s THEN Nil
                        ELSE IF i = t.last THEN s ELSE t.slots[i].next
    BY <1>a
  <2> QED
    BY <1>1 DEF EntryOf
<1> HIDE DEF e, S
<1>6. Live(u) = Live(t) \union {s}
  BY <1>1, <1>a, <1>5 DEF Live
<1> QED
  BY <1>a, <1>5, <1>6 DEF u

\* A pair written to a slot that is not live, on the path of its key.
LEMMA OccupyInv ==
  ASSUME NEW n \in Nat \ {0}, NEW t \in TableOf(n), TableInv(t),
         NEW h, h.key \in Key, h.value \in Value,
         NEW s \in SlotsOf(n), s \notin Live(t),
         NEW p \in Nat \ {0}, s = Pos(Hash[h.key], p - 1, n),
         Used(t, h.key, p - 1)
  PROVE  /\ Occupy(t, h, s, p) \in TableOf(n)
         /\ Live(Occupy(t, h, s, p)) = Live(t) \union {s}
         /\ TableInv(Occupy(t, h, s, p))
         /\ NoRemoved(t) => NoRemoved(Occupy(t, h, s, p))
<1> DEFINE u == Occupy(t, h, s, p)
<1>0. /\ n \in Nat
      /\ Nil \notin SlotsOf(n)
  BY NilNoSlot
<1>1. /\ t.sz = n
      /\ t.first \in SlotsOf(n) \union {Nil}
      /\ t.last \in SlotsOf(n) \union {Nil}
      /\ \A i \in SlotsOf(n) : t.slots[i] \in EntryOf(n)
      /\ Live(t) = {i \in SlotsOf(n) : t.slots[i].probes > 0}
  BY <1>0, TableFields
<1> HIDE DEF u
<1>a. /\ u \in TableOf(n)
      /\ u.sz = n /\ u.last = s
      /\ u.first = IF t.first = Nil THEN s ELSE t.first
  BY OccupyFields DEF u
<1>5. \A i \in SlotsOf(n) :
        /\ u.slots[i].probes = IF i = s THEN p ELSE t.slots[i].probes
        /\ u.slots[i].key = IF i = s THEN h.key ELSE t.slots[i].key
        /\ u.slots[i].value = IF i = s THEN h.value ELSE t.slots[i].value
        /\ u.slots[i].prev = IF i = s THEN t.last ELSE t.slots[i].prev
        /\ u.slots[i].next = IF i = s THEN Nil
                             ELSE IF i = t.last THEN s ELSE t.slots[i].next
  BY OccupyFields DEF u
<1>6. Live(u) = Live(t) \union {s}
  BY OccupyFields DEF u
<1>7. PairsOK(u)
  BY <1>1, <1>5, <1>6 DEF TableInv, PairsOK
<1>8. LinksOK(u)
  <2>1. LinksOK(t)
    BY DEF TableInv
  <2>2. /\ u.first \in Live(u) \union {Nil}
        /\ u.last \in Live(u) \union {Nil}
        /\ u.first # Nil /\ u.last # Nil
    BY <2>1, <1>0, <1>1, <1>a, <1>6 DEF LinksOK
  <2> SUFFICES ASSUME NEW i \in Live(u) PROVE
        /\ u.slots[i].prev \in Live(u) \union {Nil}
        /\ u.slots[i].next \in Live(u) \union {Nil}
        /\ u.slots[i].prev = Nil <=> i = u.first
        /\ u.slots[i].next = Nil <=> i = u.last
        /\ u.slots[i].prev # Nil => u.slots[u.slots[i].prev].next = i
        /\ u.slots[i].next # Nil => u.slots[u.slots[i].next].prev = i
    BY <2>2 DEF LinksOK
  <2>3. CASE i = s
    BY <2>1, <2>3, <1>0, <1>1, <1>a, <1>5, <1>6 DEF LinksOK
  <2>4. CASE i # s
    <3>1. i \in Live(t) /\ i \in SlotsOf(n)
      BY <2>4, <1>6, <1>1
    <3>2. /\ u.slots[i].prev \in Live(u) \union {Nil}
          /\ u.slots[i].prev = Nil <=> i = u.first
          /\ u.slots[i].prev # Nil => u.slots[u.slots[i].prev].next = i
      BY <2>1, <2>4, <3>1, <1>0, <1>1, <1>a, <1>5, <1>6 DEF LinksOK
    <3>3. /\ u.slots[i].next \in Live(u) \union {Nil}
          /\ u.slots[i].next = Nil <=> i = u.last
          /\ u.slots[i].next # Nil => u.slots[u.slots[i].next].prev = i
      BY <2>1, <2>4, <3>1, <1>0, <1>1, <1>a, <1>5, <1>6 DEF LinksOK
    <3> QED
      BY <3>2, <3>3
  <2> QED
    BY <2>3, <2>4
<1>9. TableReachable(u)
  <2>1. \A k \in Key, j \in Nat : Pos(Hash[k], j, n) \in SlotsOf(n)
    BY PosInSlots, HashMapAssumption
  <2>2. \A i \in SlotsOf(n) : t.slots[i].probes # Vacant => u.slots[i].probes # Vacant
    BY <1>5 DEF Vacant
  <2> SUFFICES ASSUME NEW i \in Live(u) PROVE EntryReachable(u, i)
    BY DEF TableReachable
  <2>3. CASE i = s
    <3>1. /\ u.slots[i].key = h.key
          /\ u.slots[i].probes = p
      BY <2>3, <1>5
    <3>2. \A j \in 0 .. (p - 2) :
            /\ j \in Nat
            /\ t.slots[Pos(Hash[h.key], j, n)].probes # Vacant
      BY <1>1 DEF Used
    <3> QED
      BY <3>1, <3>2, <2>1, <2>2, <2>3, <1>a DEF EntryReachable
  <2>4. CASE i # s
    <3>1. i \in Live(t) /\ i \in SlotsOf(n)
      BY <2>4, <1>6, <1>1
    <3>2. /\ u.slots[i].key = t.slots[i].key
          /\ u.slots[i].probes = t.slots[i].probes
          /\ t.slots[i].key \in Key
      BY <2>4, <3>1, <1>5 DEF TableInv, PairsOK
    <3>3. EntryReachable(t, i)
      BY <3>1 DEF TableInv, TableReachable
    <3>4. \A j \in 0 .. (t.slots[i].probes - 2) : j \in Nat
      OBVIOUS
    <3> QED
      BY <3>2, <3>3, <3>4, <2>1, <2>2, <1>1, <1>a DEF EntryReachable
  <2> QED
    BY <2>3, <2>4
<1>10. NoRemoved(t) => NoRemoved(u)
  BY <1>1, <1>a, <1>5 DEF NoRemoved, Removed
<1>11. Connected(u)
  <2> SUFFICES ASSUME NEW S \in SUBSET Live(u), u.first \in S \union {Nil},
                      \A i \in S : u.slots[i].next \in S \union {Nil}
               PROVE  S = Live(u)
    BY DEF Connected
  <2> DEFINE R == S \ {s}
  <2>1. LinksOK(t) /\ Connected(t)
    BY DEF TableInv
  <2>2. R \in SUBSET Live(t) /\ Live(t) \subseteq SlotsOf(n) /\ Nil \notin Live(u)
    BY <1>0, <1>1, <1>6
  <2>3. t.first \in R \union {Nil}
    BY <1>a, <2>1, <2>2 DEF LinksOK
  <2>4. \A i \in R : t.slots[i].next \in R \union {Nil}
    BY <1>5, <2>1, <2>2 DEF LinksOK
  <2>5. R = Live(t)
    BY <2>1, <2>2, <2>3, <2>4 DEF Connected
  <2>6. s \in S
    <3>1. CASE t.first = Nil
      BY <1>a, <2>2, <3>1, <1>0
    <3>2. CASE t.first # Nil
      <4>1. t.last \in Live(t) /\ t.last # s
        BY <2>1, <3>2 DEF LinksOK
      <4>2. u.slots[t.last].next = s
        BY <1>5, <2>2, <4>1
      <4> QED
        BY <1>0, <2>5, <4>1, <4>2
    <3> QED
      BY <3>1, <3>2
  <2> QED
    BY <1>6, <2>5, <2>6
<1> QED
  BY <1>a, <1>6, <1>7, <1>8, <1>9, <1>10, <1>11 DEF u, TableInv

\* A pair written over the one in a live slot.
LEMMA DisplaceFields ==
  ASSUME NEW n \in Nat \ {0}, NEW t \in TableOf(n),
         NEW h, h.key \in Key, h.value \in Value, h.probes \in Nat,
         NEW s \in Live(t)
  PROVE  LET u == Displace(t, h, s) IN
         /\ u \in TableOf(n)
         /\ u.sz = n /\ u.first = t.first /\ u.last = t.last
         /\ \A i \in SlotsOf(n) :
              /\ u.slots[i].probes = IF i = s THEN h.probes + 1 ELSE t.slots[i].probes
              /\ u.slots[i].key = IF i = s THEN h.key ELSE t.slots[i].key
              /\ u.slots[i].value = IF i = s THEN h.value ELSE t.slots[i].value
              /\ u.slots[i].prev = t.slots[i].prev
              /\ u.slots[i].next = t.slots[i].next
         /\ Live(u) = Live(t)
<1> DEFINE u == Displace(t, h, s)
           p == h.probes + 1
<1>0. /\ n \in Nat
      /\ Nil \notin SlotsOf(n)
  BY NilNoSlot
<1>1. /\ t.sz = n
      /\ t.first \in SlotsOf(n) \union {Nil}
      /\ t.last \in SlotsOf(n) \union {Nil}
      /\ \A i \in SlotsOf(n) : t.slots[i] \in EntryOf(n)
      /\ Live(t) = {i \in SlotsOf(n) : t.slots[i].probes > 0}
      /\ s \in SlotsOf(n)
  BY <1>0, TableFields
<1> DEFINE e == [t.slots[s] EXCEPT !.probes = p, !.key = h.key, !.value = h.value]
<1>2. /\ e \in EntryOf(n)
      /\ e.probes = p /\ e.key = h.key /\ e.value = h.value
      /\ e.prev = t.slots[s].prev /\ e.next = t.slots[s].next
  <2>1. p \in Nat
    OBVIOUS
  <2>2. t.slots[s] \in EntryOf(n)
    BY <1>1
  <2> HIDE DEF p
  <2> QED
    BY <2>1, <2>2 DEF EntryOf
<1>3. u = [t EXCEPT !.slots = [t.slots EXCEPT ![s] = e]]
  BY DEF Displace
<1> HIDE DEF e, u
<1>a. /\ u \in TableOf(n)
      /\ u.sz = n /\ u.first = t.first /\ u.last = t.last
      /\ \A i \in SlotsOf(n) : u.slots[i] = IF i = s THEN e ELSE t.slots[i]
  BY <1>1, <1>2, <1>3 DEF TableOf
<1>5. \A i \in SlotsOf(n) :
        /\ u.slots[i].probes = IF i = s THEN p ELSE t.slots[i].probes
        /\ u.slots[i].key = IF i = s THEN h.key ELSE t.slots[i].key
        /\ u.slots[i].value = IF i = s THEN h.value ELSE t.slots[i].value
        /\ u.slots[i].prev = t.slots[i].prev
        /\ u.slots[i].next = t.slots[i].next
  BY <1>2, <1>a
<1>6. Live(u) = Live(t)
  BY <1>1, <1>a, <1>5 DEF Live
<1> QED
  BY <1>a, <1>5, <1>6 DEF u

\* A pair that displaces the one in a live slot on the path of its key.
LEMMA DisplaceInv ==
  ASSUME NEW n \in Nat \ {0}, NEW t \in TableOf(n), TableInv(t),
         NEW h, h.key \in Key, h.value \in Value, h.probes \in Nat,
         NEW s \in Live(t), s = Pos(Hash[h.key], h.probes, n),
         Used(t, h.key, h.probes)
  PROVE  /\ Displace(t, h, s) \in TableOf(n)
         /\ Live(Displace(t, h, s)) = Live(t)
         /\ TableInv(Displace(t, h, s))
         /\ NoRemoved(t) => NoRemoved(Displace(t, h, s))
<1> DEFINE u == Displace(t, h, s)
           p == h.probes + 1
<1>0. /\ n \in Nat
      /\ Nil \notin SlotsOf(n)
  BY NilNoSlot
<1>1. /\ t.sz = n
      /\ t.first \in SlotsOf(n) \union {Nil}
      /\ t.last \in SlotsOf(n) \union {Nil}
      /\ \A i \in SlotsOf(n) : t.slots[i] \in EntryOf(n)
      /\ Live(t) = {i \in SlotsOf(n) : t.slots[i].probes > 0}
      /\ s \in SlotsOf(n)
  BY <1>0, TableFields
<1> HIDE DEF u
<1>a. u \in TableOf(n) /\ u.sz = n /\ u.first = t.first /\ u.last = t.last
  BY DisplaceFields DEF u
<1>5. \A i \in SlotsOf(n) :
        /\ u.slots[i].probes = IF i = s THEN p ELSE t.slots[i].probes
        /\ u.slots[i].key = IF i = s THEN h.key ELSE t.slots[i].key
        /\ u.slots[i].value = IF i = s THEN h.value ELSE t.slots[i].value
        /\ u.slots[i].prev = t.slots[i].prev
        /\ u.slots[i].next = t.slots[i].next
  BY DisplaceFields DEF u
<1>6. Live(u) = Live(t)
  BY DisplaceFields DEF u
<1>7. PairsOK(u)
  BY <1>1, <1>5, <1>6 DEF TableInv, PairsOK
<1>8. LinksOK(u)
  <2>1. LinksOK(t) /\ Live(t) \subseteq SlotsOf(n)
    BY <1>1 DEF TableInv
  <2>2. \A i \in SlotsOf(n) : /\ u.slots[i].prev = t.slots[i].prev
                              /\ u.slots[i].next = t.slots[i].next
    BY <1>5
  <2> QED
    BY <1>0, <1>a, <1>6, <2>1, <2>2 DEF LinksOK
<1>9. TableReachable(u)
  <2>1. \A k \in Key, j \in Nat : Pos(Hash[k], j, n) \in SlotsOf(n)
    BY PosInSlots, HashMapAssumption
  <2>2. \A i \in SlotsOf(n) : t.slots[i].probes # Vacant => u.slots[i].probes # Vacant
    BY <1>5 DEF Vacant
  <2> SUFFICES ASSUME NEW i \in Live(t) PROVE EntryReachable(u, i)
    BY <1>6 DEF TableReachable
  <2>3. CASE i = s
    <3>1. /\ u.slots[i].key = h.key
          /\ u.slots[i].probes = p
      BY <2>3, <1>1, <1>5
    <3>2. \A j \in 0 .. (p - 2) :
            /\ j \in Nat
            /\ t.slots[Pos(Hash[h.key], j, n)].probes # Vacant
      BY <1>1 DEF Used
    <3>3. p - 1 = h.probes
      OBVIOUS
    <3> QED
      BY <3>1, <3>2, <3>3, <2>1, <2>2, <2>3, <1>a DEF EntryReachable
  <2>4. CASE i # s
    <3>1. i \in SlotsOf(n)
      BY <1>1
    <3>2. /\ u.slots[i].key = t.slots[i].key
          /\ u.slots[i].probes = t.slots[i].probes
          /\ t.slots[i].key \in Key
      BY <2>4, <3>1, <1>5 DEF TableInv, PairsOK
    <3>3. EntryReachable(t, i)
      BY DEF TableInv, TableReachable
    <3>4. \A j \in 0 .. (t.slots[i].probes - 2) : j \in Nat
      OBVIOUS
    <3> QED
      BY <3>2, <3>3, <3>4, <2>1, <2>2, <1>1, <1>a DEF EntryReachable
  <2> QED
    BY <2>3, <2>4
<1>10. NoRemoved(t) => NoRemoved(u)
  BY <1>1, <1>a, <1>5 DEF NoRemoved, Removed
<1>11. Connected(u)
  <2> SUFFICES ASSUME NEW S \in SUBSET Live(t), t.first \in S \union {Nil},
                      \A i \in S : u.slots[i].next \in S \union {Nil}
               PROVE  S = Live(t)
    BY <1>a, <1>6 DEF Connected
  <2>1. \A i \in S : t.slots[i].next \in S \union {Nil}
    BY <1>1, <1>5
  <2> QED
    BY <2>1 DEF TableInv, Connected
<1> QED
  BY <1>a, <1>6, <1>7, <1>8, <1>9, <1>10, <1>11 DEF u, TableInv

\* The fields of the slots after an entry is taken out of the list.
LEMMA UnlinkFields ==
  ASSUME NEW n \in Nat \ {0}, NEW t \in TableOf(n), NEW s \in Live(t)
  PROVE  LET u == Unlink(t, s)
             me == t.slots[s]
         IN
         /\ u \in TableOf(n)
         /\ u.sz = n
         /\ u.first = IF t.first = s THEN me.next ELSE t.first
         /\ u.last = IF t.last = s THEN me.prev ELSE t.last
         /\ \A i \in SlotsOf(n) :
              /\ u.slots[i].probes = IF i = s THEN Removed ELSE t.slots[i].probes
              /\ u.slots[i].key = t.slots[i].key
              /\ u.slots[i].value = t.slots[i].value
              /\ u.slots[i].prev = IF t.last # s /\ i = me.next THEN me.prev
                                                               ELSE t.slots[i].prev
              /\ u.slots[i].next = IF t.first # s /\ i = me.prev THEN me.next
                                                                ELSE t.slots[i].next
         /\ Live(u) = Live(t) \ {s}
<1> DEFINE u == Unlink(t, s)
           me == t.slots[s]
           link(i) == [t.slots[i] EXCEPT
                         !.prev = IF t.last # s /\ i = me.next THEN me.prev ELSE @,
                         !.next = IF t.first # s /\ i = me.prev THEN me.next ELSE @]
           S == [i \in SlotsOf(n) |-> link(i)]
           R == [S EXCEPT ![s] = [S[s] EXCEPT !.probes = Removed]]
<1>0. /\ n \in Nat
      /\ Nil \notin SlotsOf(n)
  BY NilNoSlot
<1>1. /\ t.sz = n
      /\ t.first \in SlotsOf(n) \union {Nil}
      /\ t.last \in SlotsOf(n) \union {Nil}
      /\ \A i \in SlotsOf(n) : t.slots[i] \in EntryOf(n)
      /\ Live(t) = {i \in SlotsOf(n) : t.slots[i].probes > 0}
      /\ s \in SlotsOf(n)
  BY <1>0, TableFields
<1>2. \A i \in SlotsOf(n) :
        /\ link(i) \in EntryOf(n)
        /\ link(i).probes = t.slots[i].probes
        /\ link(i).key = t.slots[i].key
        /\ link(i).value = t.slots[i].value
        /\ link(i).prev = IF t.last # s /\ i = me.next THEN me.prev
                                                       ELSE t.slots[i].prev
        /\ link(i).next = IF t.first # s /\ i = me.prev THEN me.next
                                                        ELSE t.slots[i].next
  <2>1. me \in EntryOf(n)
    BY <1>1
  <2>2. me.prev \in SlotsOf(n) \union {Nil} /\ me.next \in SlotsOf(n) \union {Nil}
    BY <2>1 DEF EntryOf
  <2> SUFFICES ASSUME NEW i \in SlotsOf(n) PROVE
        /\ link(i) \in EntryOf(n)
        /\ link(i).probes = t.slots[i].probes
        /\ link(i).key = t.slots[i].key
        /\ link(i).value = t.slots[i].value
        /\ link(i).prev = IF t.last # s /\ i = me.next THEN me.prev
                                                       ELSE t.slots[i].prev
        /\ link(i).next = IF t.first # s /\ i = me.prev THEN me.next
                                                        ELSE t.slots[i].next
    OBVIOUS
  <2> DEFINE a == t.slots[i]
             b == IF t.last # s /\ i = me.next THEN me.prev ELSE a.prev
             c == IF t.first # s /\ i = me.prev THEN me.next ELSE a.next
  <2>3. a \in EntryOf(n)
    BY <1>1
  <2>4. b \in SlotsOf(n) \union {Nil} /\ c \in SlotsOf(n) \union {Nil}
    BY <2>2, <2>3 DEF EntryOf
  <2>5. link(i) = [a EXCEPT !.prev = b, !.next = c]
    OBVIOUS
  <2> HIDE DEF a, b, c, link
  <2>6. /\ link(i) \in EntryOf(n)
        /\ link(i).probes = a.probes /\ link(i).key = a.key
        /\ link(i).value = a.value /\ link(i).prev = b /\ link(i).next = c
    BY <2>3, <2>4, <2>5 DEF EntryOf
  <2> QED
    BY <2>6 DEF a, b, c
<1>3. u = [t EXCEPT !.slots = R,
                    !.last = IF t.last = s THEN me.prev ELSE @,
                    !.first = IF t.first = s THEN me.next ELSE @]
  BY <1>1 DEF Unlink, Relink
<1> HIDE DEF link
<1>4. /\ R \in [SlotsOf(n) -> EntryOf(n)]
      /\ \A i \in SlotsOf(n) :
           /\ R[i].probes = IF i = s THEN Removed ELSE link(i).probes
           /\ R[i].key = link(i).key
           /\ R[i].value = link(i).value
           /\ R[i].prev = link(i).prev
           /\ R[i].next = link(i).next
  <2>1. [link(s) EXCEPT !.probes = Removed] \in EntryOf(n)
    BY <1>1, <1>2 DEF EntryOf
  <2>2. LET e == [link(s) EXCEPT !.probes = Removed]
        IN  /\ e.probes = Removed /\ e.key = link(s).key
            /\ e.value = link(s).value /\ e.prev = link(s).prev
            /\ e.next = link(s).next
    BY <1>1, <1>2 DEF EntryOf
  <2>3. R = [i \in SlotsOf(n) |-> IF i = s THEN [link(s) EXCEPT !.probes = Removed]
                                          ELSE link(i)]
    BY <1>1
  <2> HIDE DEF R, S
  <2> QED
    BY <1>2, <2>1, <2>2, <2>3
<1> HIDE DEF R, S, u
<1>a. /\ u \in TableOf(n)
      /\ u.sz = n
      /\ u.first = IF t.first = s THEN me.next ELSE t.first
      /\ u.last = IF t.last = s THEN me.prev ELSE t.last
      /\ u.slots = R
  <2>1. me.next \in SlotsOf(n) \union {Nil} /\ me.prev \in SlotsOf(n) \union {Nil}
    BY <1>1 DEF EntryOf
  <2> QED
    BY <1>1, <1>3, <1>4, <2>1 DEF TableOf
<1>5. \A i \in SlotsOf(n) :
        /\ u.slots[i].probes = IF i = s THEN Removed ELSE t.slots[i].probes
        /\ u.slots[i].key = t.slots[i].key
        /\ u.slots[i].value = t.slots[i].value
        /\ u.slots[i].prev = IF t.last # s /\ i = me.next THEN me.prev
                                                         ELSE t.slots[i].prev
        /\ u.slots[i].next = IF t.first # s /\ i = me.prev THEN me.next
                                                          ELSE t.slots[i].next
  BY <1>2, <1>4, <1>a
<1>6. Live(u) = Live(t) \ {s}
  BY <1>1, <1>a, <1>5 DEF Live, Removed
<1> QED
  BY <1>a, <1>5, <1>6 DEF u

\* A live slot taken out of the list.
LEMMA UnlinkInv ==
  ASSUME NEW n \in Nat \ {0}, NEW t \in TableOf(n), TableInv(t),
         NEW s \in Live(t)
  PROVE  /\ Unlink(t, s) \in TableOf(n)
         /\ Live(Unlink(t, s)) = Live(t) \ {s}
         /\ TableInv(Unlink(t, s))
<1> DEFINE u == Unlink(t, s)
           me == t.slots[s]
<1>0. /\ n \in Nat
      /\ Nil \notin SlotsOf(n)
  BY NilNoSlot
<1>1. /\ t.sz = n
      /\ t.first \in SlotsOf(n) \union {Nil}
      /\ t.last \in SlotsOf(n) \union {Nil}
      /\ \A i \in SlotsOf(n) : t.slots[i] \in EntryOf(n)
      /\ Live(t) = {i \in SlotsOf(n) : t.slots[i].probes > 0}
      /\ s \in SlotsOf(n)
  BY <1>0, TableFields
<1>a. /\ u \in TableOf(n)
      /\ u.sz = n
      /\ u.first = IF t.first = s THEN me.next ELSE t.first
      /\ u.last = IF t.last = s THEN me.prev ELSE t.last
  BY UnlinkFields
<1>5. \A i \in SlotsOf(n) :
        /\ u.slots[i].probes = IF i = s THEN Removed ELSE t.slots[i].probes
        /\ u.slots[i].key = t.slots[i].key
        /\ u.slots[i].value = t.slots[i].value
        /\ u.slots[i].prev = IF t.last # s /\ i = me.next THEN me.prev
                                                         ELSE t.slots[i].prev
        /\ u.slots[i].next = IF t.first # s /\ i = me.prev THEN me.next
                                                          ELSE t.slots[i].next
  BY UnlinkFields
<1>6. Live(u) = Live(t) \ {s}
  BY UnlinkFields
<1> HIDE DEF u
<1>7. PairsOK(u)
  BY <1>1, <1>5, <1>6 DEF TableInv, PairsOK
<1>8. LinksOK(u)
  <2>1. LinksOK(t)
    BY DEF TableInv
  <2>2. /\ u.first \in Live(u) \union {Nil}
        /\ u.last \in Live(u) \union {Nil}
        /\ u.first = Nil <=> u.last = Nil
    BY <2>1, <1>0, <1>1, <1>a, <1>6 DEF LinksOK
  <2> SUFFICES ASSUME NEW i \in Live(u) PROVE
        /\ u.slots[i].prev \in Live(u) \union {Nil}
        /\ u.slots[i].next \in Live(u) \union {Nil}
        /\ u.slots[i].prev = Nil <=> i = u.first
        /\ u.slots[i].next = Nil <=> i = u.last
        /\ u.slots[i].prev # Nil => u.slots[u.slots[i].prev].next = i
        /\ u.slots[i].next # Nil => u.slots[u.slots[i].next].prev = i
    BY <2>2 DEF LinksOK
  <2>3. i \in Live(t) /\ i \in SlotsOf(n) /\ i # s
    BY <1>6, <1>1
  <2>4. /\ u.slots[i].prev \in Live(u) \union {Nil}
        /\ u.slots[i].prev = Nil <=> i = u.first
        /\ u.slots[i].prev # Nil => u.slots[u.slots[i].prev].next = i
    BY <2>1, <2>3, <1>0, <1>1, <1>a, <1>5, <1>6 DEF LinksOK
  <2>5. /\ u.slots[i].next \in Live(u) \union {Nil}
        /\ u.slots[i].next = Nil <=> i = u.last
        /\ u.slots[i].next # Nil => u.slots[u.slots[i].next].prev = i
    BY <2>1, <2>3, <1>0, <1>1, <1>a, <1>5, <1>6 DEF LinksOK
  <2> QED
    BY <2>4, <2>5
<1>9. TableReachable(u)
  <2>1. \A k \in Key, j \in Nat : Pos(Hash[k], j, n) \in SlotsOf(n)
    BY PosInSlots, HashMapAssumption
  <2>2. \A i \in SlotsOf(n) : t.slots[i].probes # Vacant => u.slots[i].probes # Vacant
    BY <1>5 DEF Vacant, Removed
  <2> SUFFICES ASSUME NEW i \in Live(u) PROVE EntryReachable(u, i)
    BY DEF TableReachable
  <2>3. i \in Live(t) /\ i \in SlotsOf(n) /\ i # s
    BY <1>6, <1>1
  <2>4. /\ u.slots[i].key = t.slots[i].key
        /\ u.slots[i].probes = t.slots[i].probes
        /\ t.slots[i].key \in Key
    BY <2>3, <1>5 DEF TableInv, PairsOK
  <2>5. EntryReachable(t, i)
    BY <2>3 DEF TableInv, TableReachable
  <2>6. \A j \in 0 .. (t.slots[i].probes - 2) : j \in Nat
    OBVIOUS
  <2> QED
    BY <2>4, <2>5, <2>6, <2>1, <2>2, <1>1, <1>a DEF EntryReachable
<1>10. Connected(u)
  <2> SUFFICES ASSUME NEW S \in SUBSET Live(u), u.first \in S \union {Nil},
                      \A i \in S : u.slots[i].next \in S \union {Nil}
               PROVE  S = Live(u)
    BY DEF Connected
  <2>1. LinksOK(t) /\ Connected(t)
    BY DEF TableInv
  <2>2. \A i \in S : i \in Live(t) /\ i # s /\ i \in SlotsOf(n)
    BY <1>1, <1>6
  \* Slots that next does not leave come before s only if s is among them.
  <2>3. CASE t.first = s \/ me.prev \in S
    <3> DEFINE R == S \union {s}
    <3>1. R \in SUBSET Live(t)
      BY <2>2
    <3>2. t.first \in R \union {Nil}
      BY <1>a, <2>3
    <3>3. \A i \in S : t.slots[i].next \in R \union {Nil}
      BY <1>5, <2>1, <2>2, <2>3 DEF LinksOK
    <3>4. me.next \in R \union {Nil}
      <4>1. CASE t.first = s
        BY <1>a, <4>1
      <4>2. CASE t.first # s
        <5>1. me.prev \in S /\ u.slots[me.prev].next = me.next
          BY <1>5, <2>2, <2>3, <4>2
        <5> QED
          BY <5>1
      <4> QED
        BY <4>1, <4>2
    <3>5. R = Live(t)
      BY <2>1, <3>1, <3>2, <3>3, <3>4 DEF Connected
    <3> QED
      BY <1>6, <2>2, <3>5
  <2>4. CASE t.first # s /\ me.prev \notin S
    <3>1. \A i \in S : t.slots[i].next \in S \union {Nil}
      BY <1>5, <2>2, <2>4
    <3>2. S = Live(t)
      BY <1>a, <2>1, <2>2, <2>4, <3>1 DEF Connected
    <3> QED
      BY <2>2, <3>2
  <2> QED
    BY <2>3, <2>4
<1> QED
  BY <1>a, <1>6, <1>7, <1>8, <1>9, <1>10 DEF u, TableInv

-----------------------------------------------------------------------------
(* The steps. *)

\* The locals at the start of a probing loop, and between calls.
LEMMA FreshType ==
  ASSUME NEW k \in Key \union {NoKey}, NEW v \in Value \union {NoValue}, NEW n
  PROVE  /\ Fresh(k, v) \in HandType(n)
         /\ Fresh(k, v).key = k /\ Fresh(k, v).value = v
         /\ Fresh(k, v).probes = 0 /\ Fresh(k, v).empty = Nil
BY DEF Fresh, HandType

\* The initial state.
LEMMA InitInv == Init => IInv
<1> SUFFICES ASSUME Init PROVE IInv
  OBVIOUS
<1> USE DEF Init
<1>1. /\ InitSize \in Nat \ {0}
      /\ map = EmptyTable(InitSize)
  BY HashMapAssumption
<1>2. /\ map \in TableOf(InitSize)
      /\ map.sz = InitSize
      /\ TableInv(map)
  BY <1>1, EmptyTableInv
<1>3. hand \in HandType(Target.sz)
  BY FreshType
<1>4. call \in CallType
  BY DEF NoCall, CallType
<1>5. TypeOK
  <2>1. ret \in BOOLEAN \union Value \union {NoValue}
    OBVIOUS
  <2>2. retry \in BOOLEAN
    OBVIOUS
  <2>3. map.sz \in Nat \ {0} /\ map \in TableOf(map.sz)
    BY <1>1, <1>2
  <2>4. it \in SlotsOf(map.sz) \union {Nil} /\ num_entries \in Int
    OBVIOUS
  <2> QED
    BY <1>3, <1>4, <2>1, <2>2, <2>3, <2>4 DEF TypeOK, PCs
<1> QED
  BY <1>2, <1>5 DEF IInv, NeverHappens, HandInv, InHelper, ProbeInv, ResizeInv

\* The return to the client, whatever became of the table.
LEMMA ReturnInv ==
  ASSUME IInv, NEW r \in BOOLEAN \union Value \union {NoValue}, Return(r),
         map'.sz = map.sz, map' \in TableOf(map.sz), TableInv(map'),
         new' = NoTable, num_entries' \in Int
  PROVE  IInv'
<1>1. /\ pc' = "idle" /\ call' = NoCall /\ hand' = Fresh(NoKey, NoValue)
      /\ retry' = FALSE /\ ret' = r /\ it' = it
  BY DEF Return
<1>2. hand' \in HandType(Target'.sz)
  BY <1>1, FreshType
<1>3. call' \in CallType
  BY <1>1 DEF NoCall, CallType
<1>4. TypeOK'
  BY <1>1, <1>2, <1>3 DEF IInv, TypeOK, PCs
<1> QED
  BY <1>1, <1>4 DEF IInv, NeverHappens, HandInv, InHelper, ProbeInv, ResizeInv

\* What a probing loop looks at.
LEMMA LoopFacts ==
  ASSUME IInv, pc \in {"probe", "insert", "reinsert"}
  PROVE  /\ Target.sz \in Nat \ {0}
         /\ Target \in TableOf(Target.sz)
         /\ TableInv(Target)
         /\ hand \in HandType(Target.sz)
         /\ hand.key \in Key
         /\ hand.probes \in Nat
         /\ At = Pos(Hash[hand.key], hand.probes, Target.sz)
         /\ At \in SlotsOf(Target.sz)
         /\ Here = Target.slots[At]
         /\ Here \in EntryOf(Target.sz)
         /\ Here.probes > 0 => At \in Live(Target)
<1>1. /\ Target.sz \in Nat \ {0}
      /\ Target \in TableOf(Target.sz)
      /\ TableInv(Target)
  BY DEF IInv, TypeOK, Target, ResizeInv
<1>2. hand \in HandType(Target.sz) /\ hand.key \in Key
  BY DEF IInv, TypeOK
<1>3. hand.probes \in Nat
  BY <1>2 DEF HandType
<1>4. At = Pos(Hash[hand.key], hand.probes, Target.sz)
  BY DEF At
<1>5. At \in SlotsOf(Target.sz)
  <2>1. Hash[hand.key] \in Nat
    BY <1>2, HashMapAssumption
  <2> QED
    BY <2>1, <1>1, <1>3, <1>4, PosInSlots
<1>6. Here = Target.slots[At]
  BY DEF Here
<1>7. Here \in EntryOf(Target.sz)
  BY <1>1, <1>5, <1>6, TableFields
<1>8. Here.probes > 0 => At \in Live(Target)
  BY <1>5, <1>6 DEF Live
<1> QED
  BY <1>1, <1>2, <1>3, <1>4, <1>5, <1>6, <1>7, <1>8

\* _map_insert_helper returns, having left table t.
LEMMA HelperReturnsInv ==
  ASSUME IInv, InHelper, NEW b \in BOOLEAN, HelperReturns(b),
         NEW t \in TableOf(Target.sz), t.sz = Target.sz, TableInv(t),
         NoRemoved(Target) => NoRemoved(t), SetTarget(t)
  PROVE  IInv'
<1>1. CASE pc = "insert"
  <2>1. /\ map' = t /\ new' = new /\ Target = map
    BY <1>1 DEF SetTarget, Target
  <2>2. num_entries' \in Int /\ Return(b)
    BY <1>1 DEF HelperReturns, IInv, TypeOK
  <2>3. new' = NoTable
    BY <1>1, <2>1 DEF IInv, TypeOK
  <2> QED
    BY <2>1, <2>2, <2>3, ReturnInv
<1>2. CASE pc = "reinsert"
  <2>1. /\ new' = t /\ map' = map /\ Target = new
    BY <1>2 DEF SetTarget, Target
  <2>2. /\ it' = Inc(map, it) /\ pc' = "rehash"
        /\ UNCHANGED <<num_entries, call, hand, retry, ret>>
    BY <1>2 DEF HelperReturns
  <2>3. NoRemoved(new) /\ TableInv(new) /\ new.sz \in Nat \ {0} /\ new \in TableOf(new.sz)
    BY <1>2 DEF IInv, ResizeInv, TypeOK
  <2>4. it' \in Live(map) \union {Nil}
    <3>1. it \in Live(map) /\ LinksOK(map)
      BY <1>2 DEF IInv, ResizeInv, TypeOK, TableInv
    <3> QED
      BY <3>1, <2>2 DEF LinksOK, Inc
  <2>5. hand.empty = Nil
    <3>1. hand.empty \in SlotsOf(new.sz) \union {Nil}
      BY <2>1, <1>2 DEF IInv, TypeOK, HandType
    <3>2. hand.empty # Nil => new.slots[hand.empty].probes = Removed
      BY <2>1, <1>2 DEF IInv, HandInv, InHelper
    <3> QED
      BY <2>3, <3>1, <3>2 DEF NoRemoved
  <2>6. hand' \in HandType(Target'.sz)
    BY <1>2, <2>2, <2>5 DEF IInv, TypeOK, HandType
  <2>7. Live(map) \subseteq SlotsOf(map.sz)
    BY DEF Live
  <2>8. TypeOK'
    BY <1>2, <2>1, <2>2, <2>3, <2>4, <2>6, <2>7 DEF IInv, TypeOK, PCs
  <2>9. ResizeInv'
    BY <1>2, <2>1, <2>2, <2>3, <2>4 DEF IInv, ResizeInv
  <2> QED
    BY <2>1, <2>2, <2>8, <2>9 DEF IInv, NeverHappens, HandInv, InHelper, ProbeInv
<1> QED
  BY <1>1, <1>2 DEF InHelper

\* The table being probed changes to t, which has the same size and slots
\* used, and the loop goes on with hand'.
LEMMA HelperStays ==
  ASSUME IInv, InHelper,
         NEW t \in TableOf(Target.sz), t.sz = Target.sz, TableInv(t),
         NoRemoved(Target) => NoRemoved(t),
         Live(t) = Live(Target), SetTarget(t),
         hand' \in HandType(t.sz), hand'.key \in Key, hand'.value \in Value,
         Used(t, hand'.key, hand'.probes),
         hand'.empty # Nil =>
           /\ hand'.emptyProbes \in 1 .. hand'.probes
           /\ hand'.empty = Pos(Hash[hand'.key], hand'.emptyProbes - 1, t.sz)
           /\ t.slots[hand'.empty].probes = Removed,
         UNCHANGED <<num_entries, pc, call, it, retry, ret>>
  PROVE  IInv'
<1>1. Target' = t
  BY DEF SetTarget, Target, InHelper
<1>2. HandInv'
  BY <1>1 DEF HandInv
<1>3. CASE pc = "insert"
  <2>1. map' = t /\ new' = new /\ Target = map
    BY <1>3 DEF SetTarget, Target
  <2>2. TypeOK'
    BY <1>1, <1>3, <2>1 DEF IInv, TypeOK
  <2>3. ResizeInv'
    BY <1>3, <2>1 DEF IInv, ResizeInv
  <2> QED
    BY <1>2, <1>3, <2>1, <2>2, <2>3 DEF IInv, NeverHappens, ProbeInv
<1>4. CASE pc = "reinsert"
  <2>1. new' = t /\ map' = map /\ Target = new
    BY <1>4 DEF SetTarget, Target
  <2>2. TypeOK'
    BY <1>1, <1>4, <2>1 DEF IInv, TypeOK
  <2>3. ResizeInv'
    BY <1>4, <2>1 DEF IInv, ResizeInv
  <2> QED
    BY <1>2, <1>4, <2>1, <2>2, <2>3 DEF IInv, NeverHappens, ProbeInv
<1> QED
  BY <1>3, <1>4 DEF InHelper

\* One more probe keeps the path used.
LEMMA UsedStep ==
  ASSUME NEW t, NEW k, NEW n \in Nat, Used(t, k, n),
         t.slots[Pos(Hash[k], n, t.sz)].probes # Vacant
  PROVE  Used(t, k, n + 1)
<1> SUFFICES ASSUME NEW j \in 0 .. n
             PROVE  t.slots[Pos(Hash[k], j, t.sz)].probes # Vacant
  BY DEF Used
<1>1. CASE j = n
  BY <1>1
<1>2. CASE j # n
  <2>1. j \in 0 .. (n - 1)
    BY <1>2
  <2> QED
    BY <2>1 DEF Used
<1> QED
  BY <1>1, <1>2

\* The pair goes to a slot that its key probes, at the end of the list.
LEMMA InsertVacantInv == IInv /\ InsertVacant => IInv'
<1> SUFFICES ASSUME IInv, InsertVacant PROVE IInv'
  OBVIOUS
<1>0. InHelper /\ Here.probes = Vacant /\ HelperReturns(TRUE)
  BY DEF InsertVacant
<1> DEFINE n == Target.sz
<1>1. /\ n \in Nat \ {0} /\ Target \in TableOf(n) /\ TableInv(Target)
      /\ hand \in HandType(n) /\ hand.key \in Key /\ hand.probes \in Nat
      /\ At = Pos(Hash[hand.key], hand.probes, n) /\ At \in SlotsOf(n)
      /\ Here = Target.slots[At]
  BY <1>0, LoopFacts DEF InHelper
<1>2. hand.value \in Value /\ Used(Target, hand.key, hand.probes)
  BY <1>0 DEF IInv, HandInv
<1>3. CASE hand.empty # Nil
  <2> DEFINE p == hand.emptyProbes
  <2>1. /\ p \in 1 .. hand.probes
        /\ hand.empty = Pos(Hash[hand.key], p - 1, n)
        /\ Target.slots[hand.empty].probes = Removed
    BY <1>0, <1>3 DEF IInv, HandInv
  <2>2. hand.empty \in SlotsOf(n) /\ hand.empty \notin Live(Target)
    BY <1>1, <1>3, <2>1 DEF HandType, Live, Removed
  <2>3. p \in Nat \ {0} /\ Used(Target, hand.key, p - 1)
    BY <1>1, <1>2, <2>1 DEF Used
  <2> DEFINE t == Occupy(Target, hand, hand.empty, p)
  <2>4. /\ t \in TableOf(n) /\ TableInv(t)
        /\ NoRemoved(Target) => NoRemoved(t)
    BY <1>1, <1>2, <2>1, <2>2, <2>3, OccupyInv
  <2>5. SetTarget(t)
    BY <1>3 DEF InsertVacant
  <2>6. t.sz = n
    BY <2>4, <1>1, TableFields
  <2> HIDE DEF t
  <2> QED
    BY <1>0, <2>4, <2>5, <2>6, HelperReturnsInv
<1>4. CASE hand.empty = Nil
  <2> DEFINE p == hand.probes + 1
             t == Occupy(Target, hand, At, p)
  <2>1. At \notin Live(Target)
    BY <1>0, <1>1 DEF Live, Vacant
  <2>2. p \in Nat \ {0} /\ p - 1 = hand.probes
    BY <1>1
  <2>3. At = Pos(Hash[hand.key], p - 1, n) /\ Used(Target, hand.key, p - 1)
    BY <1>1, <1>2, <2>2
  <2> HIDE DEF p
  <2>4. /\ t \in TableOf(n) /\ TableInv(t)
        /\ NoRemoved(Target) => NoRemoved(t)
    BY <1>1, <1>2, <2>1, <2>2, <2>3, OccupyInv
  <2>5. SetTarget(t)
    BY <1>4 DEF InsertVacant, p
  <2>6. t.sz = n
    BY <2>4, <1>1, TableFields
  <2> HIDE DEF t
  <2> QED
    BY <1>0, <2>4, <2>5, <2>6, HelperReturnsInv
<1> QED
  BY <1>3, <1>4

\* The key is present: the tables do not change.
LEMMA InsertPresentInv == IInv /\ InsertPresent => IInv'
<1> SUFFICES ASSUME IInv, InsertPresent PROVE IInv'
  OBVIOUS
<1>1. InHelper /\ HelperReturns(FALSE) /\ UNCHANGED <<map, new>>
  BY DEF InsertPresent
<1>2. Target \in TableOf(Target.sz) /\ TableInv(Target)
  BY <1>1, LoopFacts DEF InHelper
<1>3. SetTarget(Target)
  BY <1>1 DEF SetTarget, Target, InHelper
<1> QED
  BY <1>1, <1>2, <1>3, HelperReturnsInv

\* The first removed slot that is met is remembered.
LEMMA InsertRemovedInv == IInv /\ InsertRemoved => IInv'
<1> SUFFICES ASSUME IInv, InsertRemoved PROVE IInv'
  OBVIOUS
<1> DEFINE n == Target.sz
<1>0. /\ InHelper /\ Here.probes = Removed
      /\ UNCHANGED <<map, new, num_entries, pc, call, it, retry, ret>>
  BY DEF InsertRemoved
<1>1. /\ n \in Nat \ {0} /\ Target \in TableOf(n) /\ TableInv(Target)
      /\ hand \in HandType(n) /\ hand.key \in Key /\ hand.probes \in Nat
      /\ At = Pos(Hash[hand.key], hand.probes, n) /\ At \in SlotsOf(n)
      /\ Here = Target.slots[At]
  BY <1>0, LoopFacts DEF InHelper
<1>2. /\ hand'.key = hand.key /\ hand'.value = hand.value
      /\ hand'.probes = hand.probes + 1 /\ hand'.used = hand.used + 1
      /\ hand'.empty = IF hand.empty = Nil THEN At ELSE hand.empty
      /\ hand'.emptyProbes = IF hand.empty = Nil THEN hand.probes + 1
                                                 ELSE hand.emptyProbes
      /\ hand' \in HandType(n)
  <2> DEFINE a == IF hand.empty = Nil THEN At ELSE hand.empty
             b == IF hand.empty = Nil THEN hand.probes + 1 ELSE hand.emptyProbes
  <2>1. hand.used + 1 \in Nat /\ hand.probes + 1 \in Nat
    BY <1>1 DEF HandType
  <2>2. a \in SlotsOf(n) \union {Nil} /\ b \in Nat \union {-1}
    BY <1>1, <2>1 DEF HandType
  <2>3. hand' = [hand EXCEPT !.probes = hand.probes + 1, !.used = hand.used + 1,
                             !.empty = a, !.emptyProbes = b]
    BY DEF InsertRemoved
  <2> HIDE DEF a, b
  <2>4. /\ hand'.key = hand.key /\ hand'.value = hand.value
        /\ hand'.probes = hand.probes + 1 /\ hand'.used = hand.used + 1
        /\ hand'.empty = a /\ hand'.emptyProbes = b
        /\ hand' \in HandType(n)
    BY <1>1, <2>1, <2>2, <2>3 DEF HandType
  <2> QED
    BY <2>4 DEF a, b
<1>3. hand.value \in Value /\ Used(Target, hand.key, hand.probes)
  BY <1>0 DEF IInv, HandInv
<1>4. Used(Target, hand'.key, hand'.probes)
  BY <1>0, <1>1, <1>2, <1>3, UsedStep DEF Removed, Vacant
<1>5. SetTarget(Target)
  BY <1>0 DEF SetTarget, Target, InHelper
<1>6. hand'.empty # Nil =>
        /\ hand'.emptyProbes \in 1 .. hand'.probes
        /\ hand'.empty = Pos(Hash[hand'.key], hand'.emptyProbes - 1, n)
        /\ Target.slots[hand'.empty].probes = Removed
  <2>1. CASE hand.empty = Nil
    <3>1. hand'.emptyProbes - 1 = hand.probes
      BY <1>1, <1>2, <2>1
    <3> QED
      BY <1>0, <1>1, <1>2, <2>1, <3>1
  <2>2. CASE hand.empty # Nil
    BY <1>0, <1>1, <1>2, <2>2 DEF IInv, HandInv
  <2> QED
    BY <2>1, <2>2
<1> QED
  BY <1>0, <1>1, <1>2, <1>3, <1>4, <1>5, <1>6, HelperStays

\* A live entry with more probes is passed.
LEMMA InsertPassInv == IInv /\ InsertPass => IInv'
<1> SUFFICES ASSUME IInv, InsertPass PROVE IInv'
  OBVIOUS
<1> DEFINE n == Target.sz
<1>0. /\ InHelper /\ Here.probes > 0
      /\ UNCHANGED <<map, new, num_entries, pc, call, it, retry, ret>>
  BY DEF InsertPass
<1>1. /\ n \in Nat \ {0} /\ Target \in TableOf(n) /\ TableInv(Target)
      /\ hand \in HandType(n) /\ hand.key \in Key /\ hand.probes \in Nat
      /\ At = Pos(Hash[hand.key], hand.probes, n) /\ Here = Target.slots[At]
  BY <1>0, LoopFacts DEF InHelper
<1>2. /\ hand'.key = hand.key /\ hand'.value = hand.value
      /\ hand'.probes = hand.probes + 1
      /\ hand'.empty = hand.empty /\ hand'.emptyProbes = hand.emptyProbes
      /\ hand' \in HandType(n)
  BY <1>1 DEF InsertPass, HandType
<1>3. /\ hand.value \in Value /\ Used(Target, hand.key, hand.probes)
      /\ hand.empty # Nil =>
           /\ hand.emptyProbes \in 1 .. hand.probes
           /\ hand.empty = Pos(Hash[hand.key], hand.emptyProbes - 1, n)
           /\ Target.slots[hand.empty].probes = Removed
  BY <1>0 DEF IInv, HandInv
<1>4. Used(Target, hand'.key, hand'.probes)
  BY <1>0, <1>1, <1>2, <1>3, UsedStep DEF Vacant
<1>5. SetTarget(Target)
  BY <1>0 DEF SetTarget, Target, InHelper
<1> QED
  BY <1>0, <1>1, <1>2, <1>3, <1>4, <1>5, HelperStays

\* A displaced pair may go where its key probes after the slot it lost.
LEMMA InsertRobInv == IInv /\ InsertRob => IInv'
<1> SUFFICES ASSUME IInv, InsertRob PROVE IInv'
  OBVIOUS
<1> DEFINE n == Target.sz
           t == Displace(Target, hand, At)
<1>0. /\ InHelper /\ Here.probes > 0
      /\ SetTarget(t) /\ hand' = PickUp(Here)
      /\ UNCHANGED <<num_entries, pc, call, it, retry, ret>>
  BY DEF InsertRob
<1>1. /\ n \in Nat \ {0} /\ Target \in TableOf(n) /\ TableInv(Target)
      /\ hand \in HandType(n) /\ hand.key \in Key /\ hand.probes \in Nat
      /\ At = Pos(Hash[hand.key], hand.probes, n) /\ At \in Live(Target)
      /\ Here = Target.slots[At] /\ Here \in EntryOf(n)
  BY <1>0, LoopFacts DEF InHelper
<1>2. hand.value \in Value /\ Used(Target, hand.key, hand.probes)
  BY <1>0 DEF IInv, HandInv
<1>3. /\ t \in TableOf(n) /\ Live(t) = Live(Target) /\ TableInv(t)
      /\ NoRemoved(Target) => NoRemoved(t)
  BY <1>1, <1>2, DisplaceInv
<1>4. t.sz = n
  BY <1>1, <1>3, TableFields
<1>5. /\ Here.key \in Key /\ Here.value \in Value /\ Here.probes \in Nat \ {0}
  BY <1>0, <1>1 DEF TableInv, PairsOK, EntryOf, Removed
<1>6. /\ hand'.key = Here.key /\ hand'.value = Here.value
      /\ hand'.probes = Here.probes /\ hand'.empty = Nil
      /\ hand' \in HandType(n)
  BY <1>0, <1>1, <1>5 DEF PickUp, HandType
<1>7. Used(t, Here.key, Here.probes)
  <2>1. \A i \in SlotsOf(n) : Target.slots[i].probes # Vacant => t.slots[i].probes # Vacant
    <3>1. \A i \in SlotsOf(n) :
            t.slots[i] = IF i = At
                           THEN [Target.slots[i] EXCEPT !.probes = hand.probes + 1,
                                   !.key = hand.key, !.value = hand.value]
                           ELSE Target.slots[i]
      BY <1>1 DEF Displace, TableOf
    <3>2. \A i \in SlotsOf(n) : i # At => t.slots[i] = Target.slots[i]
      BY <3>1
    <3>3. At \in Live(t) /\ t.slots[At].probes # Vacant
      BY <1>1, <1>3 DEF Live, Vacant
    <3> QED
      BY <3>2, <3>3
  <2>2. EntryReachable(Target, At)
    BY <1>1 DEF TableInv, TableReachable
  <2> DEFINE q == Here.probes
  <2>3. /\ q \in Nat /\ q - 1 \in Nat
        /\ At = Pos(Hash[Here.key], q - 1, n)
    <3>1. q \in Nat /\ q - 1 \in Nat
      BY <1>5
    <3>2. At = Pos(Hash[Here.key], q - 1, n)
      BY <1>1, <2>2 DEF EntryReachable
    <3> QED
      BY <3>1, <3>2
  <2>4. \A j \in 0 .. (q - 2) : Target.slots[Pos(Hash[Here.key], j, n)].probes # Vacant
    BY <1>1, <2>2 DEF EntryReachable
  <2>5. Target.slots[At].probes # Vacant
    BY <1>0, <1>1 DEF Vacant
  <2>6. \A j \in Nat : Pos(Hash[Here.key], j, n) \in SlotsOf(n)
    BY <1>1, <1>5, PosInSlots, HashMapAssumption
  <2> HIDE DEF q
  <2>7. \A j \in 0 .. (q - 1) : j \in Nat /\ (j = q - 1 \/ j \in 0 .. (q - 2))
    BY <2>3
  <2> HIDE DEF t
  <2> QED
    BY <1>4, <2>1, <2>3, <2>4, <2>5, <2>6, <2>7 DEF Used, q
<1> HIDE DEF t
<1> QED
  BY <1>0, <1>1, <1>3, <1>4, <1>5, <1>6, <1>7, HelperStays

\* _resize_table starts: the table it reads keeps its entries.
LEMMA BeginResizeInv ==
  ASSUME IInv, BeginResize, UNCHANGED <<map, num_entries, ret>>,
         retry' \in BOOLEAN,
         call'.op = "insert", call'.key \in Key, call'.value \in Value,
         call' \in CallType, hand' \in HandType(map.sz)
  PROVE  IInv'
<1> DEFINE m == NewSize(map.sz)
<1>1. /\ map.sz \in Nat \ {0} /\ map \in TableOf(map.sz) /\ TableInv(map)
      /\ num_entries \in Int /\ ret \in BOOLEAN \union Value \union {NoValue}
  BY DEF IInv, TypeOK
<1>2. m \in Nat \ {0}
  BY <1>1 DEF NewSize
<1> HIDE DEF m
<1>3. new' = EmptyTable(m) /\ it' = map.first /\ pc' = "rehash"
  BY DEF BeginResize, m
<1>4. /\ new'.sz = m /\ new' \in TableOf(m)
      /\ TableInv(new') /\ NoRemoved(new')
  BY <1>2, <1>3, EmptyTableInv
<1>5. it' \in Live(map) \union {Nil} /\ Live(map) \subseteq SlotsOf(map.sz)
  BY <1>1, <1>3 DEF TableInv, LinksOK, Live
<1>6. Target' = map
  BY <1>3 DEF Target
<1>7. TypeOK'
  BY <1>1, <1>2, <1>3, <1>4, <1>5, <1>6 DEF TypeOK, PCs
<1>8. ResizeInv'
  BY <1>3, <1>4, <1>5 DEF ResizeInv
<1> QED
  BY <1>1, <1>3, <1>7, <1>8 DEF IInv, NeverHappens, HandInv, InHelper, ProbeInv

\* Too many removed slots: never in a table just rehashed.
LEMMA InsertTooManyInv == IInv /\ InsertTooMany => IInv'
<1> SUFFICES ASSUME IInv, InsertTooMany PROVE IInv'
  OBVIOUS
<1>0. InHelper /\ Here.probes = Removed /\ UNCHANGED <<map, num_entries, call, ret>>
  BY DEF InsertTooMany
<1>1. ~(pc = "reinsert" \/ retry)
  <2>1. At \in SlotsOf(Target.sz) /\ Here = Target.slots[At]
    BY <1>0, LoopFacts DEF InHelper
  <2>2. pc = "reinsert" \/ retry => NoRemoved(Target)
    BY <1>0 DEF IInv, ResizeInv, InHelper, Target
  <2> QED
    BY <1>0, <2>1, <2>2 DEF NoRemoved
<1>2. BeginResize /\ retry' = TRUE /\ hand' = Fresh(call.key, call.value)
  BY <1>1 DEF InsertTooMany
<1>3. /\ call.op = "insert" /\ call.key \in Key /\ call.value \in Value
      /\ call \in CallType
  BY <1>0, <1>1 DEF IInv, ResizeInv, InHelper, TypeOK
<1>4. hand' \in HandType(map.sz)
  BY <1>2, <1>3, FreshType
<1> QED
  BY <1>0, <1>2, <1>3, <1>4, BeginResizeInv

\* The next live entry of the old table is taken up.
LEMMA ReinsertNextInv == IInv /\ ReinsertNext => IInv'
<1> SUFFICES ASSUME IInv, ReinsertNext PROVE IInv'
  OBVIOUS
<1>1. /\ pc = "rehash" /\ it # Nil /\ pc' = "reinsert"
      /\ hand' = Fresh(map.slots[it].key, map.slots[it].value)
      /\ UNCHANGED <<map, new, num_entries, call, it, retry, ret>>
  BY DEF ReinsertNext
<1>2. it \in Live(map)
  BY <1>1 DEF IInv, ResizeInv
<1>3. map.slots[it].key \in Key /\ map.slots[it].value \in Value
  BY <1>2 DEF IInv, TableInv, PairsOK
<1>4. /\ hand' \in HandType(new.sz) /\ hand'.key \in Key /\ hand'.value \in Value
      /\ hand'.probes = 0 /\ hand'.empty = Nil
  BY <1>1, <1>3, FreshType
<1>5. Target' = new
  BY <1>1 DEF Target
<1>6. TypeOK'
  BY <1>1, <1>4, <1>5 DEF IInv, TypeOK, PCs
<1>7. HandInv'
  BY <1>4, <1>5 DEF HandInv, Used
<1>8. ResizeInv'
  BY <1>1 DEF IInv, ResizeInv
<1> QED
  BY <1>1, <1>6, <1>7, <1>8 DEF IInv, NeverHappens, ProbeInv

\* The new table takes the place of the old one.
LEMMA EndResizeInv == IInv /\ EndResize => IInv'
<1> SUFFICES ASSUME IInv, EndResize PROVE IInv'
  OBVIOUS
<1>1. /\ pc = "rehash" /\ it = Nil /\ pc' = "insert"
      /\ map' = new /\ new' = NoTable
      /\ hand' = Fresh(call.key, call.value)
      /\ UNCHANGED <<num_entries, call, it, retry, ret>>
  BY DEF EndResize
<1>2. /\ call.op = "insert" /\ call.key \in Key /\ call.value \in Value
      /\ TableInv(new) /\ NoRemoved(new)
      /\ new.sz \in Nat \ {0} /\ new \in TableOf(new.sz)
  BY <1>1 DEF IInv, ResizeInv, TypeOK
<1>3. /\ hand' \in HandType(new.sz) /\ hand'.key \in Key /\ hand'.value \in Value
      /\ hand'.probes = 0 /\ hand'.empty = Nil
  BY <1>1, <1>2, FreshType
<1>4. Target' = new
  BY <1>1 DEF Target
<1>5. TypeOK'
  BY <1>1, <1>2, <1>3, <1>4 DEF IInv, TypeOK, PCs
<1>6. HandInv'
  BY <1>3, <1>4 DEF HandInv, Used
<1>7. ResizeInv'
  BY <1>1, <1>2 DEF ResizeInv
<1> QED
  BY <1>1, <1>2, <1>5, <1>6, <1>7 DEF IInv, NeverHappens, ProbeInv

\* map_insert begins, with or without a resize.
LEMMA InsertInv ==
  ASSUME IInv, NEW k \in Key, NEW v \in Value, Insert(k, v)
  PROVE  IInv'
<1>1. /\ pc = "idle"
      /\ call' = [op |-> "insert", key |-> k, value |-> v]
      /\ hand' = Fresh(k, v) /\ retry' = FALSE
      /\ UNCHANGED <<map, num_entries, ret>>
  BY DEF Insert
<1>2. /\ call' \in CallType /\ call'.op = "insert"
      /\ call'.key \in Key /\ call'.value \in Value
  BY <1>1 DEF CallType
<1>3. /\ hand' \in HandType(map.sz) /\ hand'.key \in Key /\ hand'.value \in Value
      /\ hand'.probes = 0 /\ hand'.empty = Nil
  BY <1>1, FreshType
<1>4. CASE Overloaded
  BY <1>1, <1>2, <1>3, <1>4, BeginResizeInv DEF Insert
<1>5. CASE ~Overloaded
  <2>1. pc' = "insert" /\ UNCHANGED <<new, it>>
    BY <1>5 DEF Insert
  <2>2. Target' = map
    BY <1>1, <2>1 DEF Target
  <2>3. TypeOK'
    BY <1>1, <1>2, <1>3, <2>1, <2>2 DEF IInv, TypeOK, PCs
  <2>4. HandInv'
    BY <1>3, <2>2 DEF HandInv, Used
  <2>5. ResizeInv'
    BY <1>1, <1>2, <2>1 DEF ResizeInv
  <2> QED
    BY <1>1, <2>1, <2>3, <2>4, <2>5 DEF IInv, NeverHappens, ProbeInv
<1> QED
  BY <1>4, <1>5

\* map_lookup and map_remove begin.
LEMMA FindInv ==
  ASSUME IInv, NEW k \in Key, NEW op \in {"lookup", "remove"}, Find(op, k)
  PROVE  IInv'
<1>1. /\ pc = "idle" /\ pc' = "probe"
      /\ call' = [op |-> op, key |-> k, value |-> NoValue]
      /\ hand' = Fresh(k, NoValue)
      /\ UNCHANGED <<map, new, num_entries, it, retry, ret>>
  BY DEF Find
<1>2. call' \in CallType /\ call'.key = k /\ call'.op \in {"lookup", "remove"}
  BY <1>1 DEF CallType
<1>3. hand' \in HandType(map.sz) /\ hand'.key = k /\ hand'.probes = 0
  BY <1>1, FreshType
<1>4. Target' = map
  BY <1>1 DEF Target
<1>5. TypeOK'
  BY <1>1, <1>2, <1>3, <1>4 DEF IInv, TypeOK, PCs
<1>6. ProbeInv'
  BY <1>2, <1>3 DEF ProbeInv
<1> QED
  BY <1>1, <1>5, <1>6 DEF IInv, NeverHappens, HandInv, InHelper, ResizeInv

\* A never used slot: the search returns NULL.
LEMMA ProbeVacantInv == IInv /\ ProbeVacant => IInv'
<1> SUFFICES ASSUME IInv, ProbeVacant PROVE IInv'
  OBVIOUS
<1>1. Return(NoValue) /\ pc = "probe" /\ UNCHANGED <<map, new, num_entries>>
  BY DEF ProbeVacant
<1>2. /\ map \in TableOf(map.sz) /\ TableInv(map) /\ new = NoTable /\ num_entries \in Int
  BY <1>1 DEF IInv, TypeOK
<1> QED
  BY <1>1, <1>2, ReturnInv

\* The key is found, and its entry unlinked by map_remove.
LEMMA ProbeFoundInv == IInv /\ ProbeFound => IInv'
<1> SUFFICES ASSUME IInv, ProbeFound PROVE IInv'
  OBVIOUS
<1>1. Return(Here.value) /\ pc = "probe" /\ Here.probes > 0 /\ new' = new
  BY DEF ProbeFound
<1>2. /\ map.sz \in Nat \ {0} /\ map \in TableOf(map.sz) /\ TableInv(map)
      /\ new = NoTable /\ num_entries \in Int
  BY <1>1 DEF IInv, TypeOK
<1>3. At \in Live(map) /\ Here.value \in Value \union {NoValue}
  <2>1. Target = map
    BY <1>1 DEF Target
  <2>2. Here \in EntryOf(map.sz) /\ At \in Live(map)
    BY <1>1, <2>1, LoopFacts
  <2> QED
    BY <2>2 DEF EntryOf
<1>4. CASE call.op = "remove"
  <2>1. map' = Unlink(map, At) /\ num_entries' = num_entries - 1
    BY <1>4 DEF ProbeFound
  <2>2. map' \in TableOf(map.sz) /\ TableInv(map')
    BY <1>2, <1>3, <2>1, UnlinkInv
  <2>3. map'.sz = map.sz /\ num_entries' \in Int
    BY <1>2, <2>1, <2>2, TableFields
  <2> QED
    BY <1>1, <1>2, <1>3, <2>2, <2>3, ReturnInv
<1>5. CASE call.op # "remove"
  <2>1. map' = map /\ num_entries' = num_entries
    BY <1>5 DEF ProbeFound
  <2> QED
    BY <1>1, <1>2, <1>3, <2>1, ReturnInv
<1> QED
  BY <1>4, <1>5

\* A search goes on past a slot that does not hold its key.
LEMMA ProbeNextInv == IInv /\ ProbeNext => IInv'
<1> SUFFICES ASSUME IInv, ProbeNext PROVE IInv'
  OBVIOUS
<1>1. /\ pc = "probe"
      /\ Here.probes = Removed \/ Here.key # hand.key
      /\ hand' = [hand EXCEPT !.probes = NextProbe]
      /\ UNCHANGED <<map, new, num_entries, pc, call, it, retry, ret>>
  BY DEF ProbeNext
<1>2. /\ Target = map /\ Target' = map
      /\ hand \in HandType(map.sz) /\ hand.probes \in Nat
      /\ At = Pos(Hash[hand.key], hand.probes, map.sz)
      /\ Here = map.slots[At]
  BY <1>1, LoopFacts DEF Target
<1>3. NextProbe \in Nat /\ NextProbe <= hand.probes + 1
  BY <1>2, HashMapAssumption DEF NextProbe
<1>4. /\ hand'.key = hand.key /\ hand'.probes = NextProbe
      /\ hand' \in HandType(map.sz)
  BY <1>1, <1>2, <1>3 DEF HandType
<1>5. TypeOK'
  BY <1>1, <1>2, <1>4 DEF IInv, TypeOK
<1>6. ProbeInv'
  <2> SUFFICES ASSUME NEW j \in 0 .. (NextProbe - 1) PROVE
        LET e == map.slots[Pos(Hash[hand.key], j, map.sz)]
        IN  ~(e.probes > 0 /\ e.key = hand.key)
    BY <1>1, <1>4 DEF IInv, ProbeInv
  <2>1. CASE j = hand.probes
    BY <1>1, <1>2, <2>1 DEF Removed
  <2>2. CASE j # hand.probes
    <3>1. j \in 0 .. (hand.probes - 1)
      BY <1>2, <1>3, <2>2
    <3> QED
      BY <1>1, <3>1 DEF IInv, ProbeInv
  <2> QED
    BY <2>1, <2>2
<1> QED
  BY <1>1, <1>5, <1>6 DEF IInv, NeverHappens, HandInv, InHelper, ResizeInv

\* The invariant is about the variables only.
LEMMA StutterInv == IInv /\ UNCHANGED vars => IInv'
<1> SUFFICES ASSUME IInv, UNCHANGED vars PROVE IInv'
  OBVIOUS
<1>1. TypeOK'
  BY DEF vars, IInv, TypeOK, Target
<1>2. HandInv'
  BY DEF vars, IInv, HandInv, InHelper, Target
<1>3. ProbeInv' /\ ResizeInv' /\ NeverHappens' /\ TableInv(map)'
  BY DEF vars, IInv, ProbeInv, ResizeInv, NeverHappens
<1> QED
  BY <1>1, <1>2, <1>3 DEF IInv

LEMMA FinalizeInv == IInv /\ Finalize => IInv'
<1> SUFFICES ASSUME IInv, Finalize PROVE IInv'
  OBVIOUS
<1>1. /\ pc = "idle" /\ pc' = "finalized"
      /\ UNCHANGED <<map, new, num_entries, call, hand, it, retry, ret>>
  BY DEF Finalize
<1>2. TypeOK'
  BY <1>1 DEF IInv, TypeOK, Target, PCs
<1>3. HandInv' /\ ProbeInv' /\ ResizeInv' /\ NeverHappens' /\ TableInv(map)'
  BY <1>1 DEF IInv, HandInv, InHelper, ProbeInv, ResizeInv, NeverHappens
<1> QED
  BY <1>2, <1>3 DEF IInv

\* Every step keeps the invariant.
LEMMA NextInv == IInv /\ [Next]_vars => IInv'
<1> SUFFICES ASSUME IInv, [Next]_vars PROVE IInv'
  OBVIOUS
<1>1. CASE InsertCall
  BY <1>1, InsertInv DEF InsertCall
<1>2. CASE LookupCall
  BY <1>2, FindInv DEF LookupCall, Lookup
<1>3. CASE RemoveCall
  BY <1>3, FindInv DEF RemoveCall, Remove
<1>4. CASE ProbeVacant
  BY <1>4, ProbeVacantInv
<1>5. CASE ProbeNext
  BY <1>5, ProbeNextInv
<1>6. CASE ProbeFound
  BY <1>6, ProbeFoundInv
<1>7. CASE InsertVacant
  BY <1>7, InsertVacantInv
<1>8. CASE InsertRemoved
  BY <1>8, InsertRemovedInv
<1>9. CASE InsertTooMany
  BY <1>9, InsertTooManyInv
<1>10. CASE InsertPresent
  BY <1>10, InsertPresentInv
<1>11. CASE InsertRob
  BY <1>11, InsertRobInv
<1>12. CASE InsertPass
  BY <1>12, InsertPassInv
<1>13. CASE ReinsertNext
  BY <1>13, ReinsertNextInv
<1>14. CASE EndResize
  BY <1>14, EndResizeInv
<1>15. CASE UNCHANGED vars
  BY <1>15, StutterInv
<1>16. CASE Finalize
  BY <1>16, FinalizeInv
<1> QED
  BY <1>1, <1>2, <1>3, <1>4, <1>5, <1>6, <1>7, <1>8, <1>9, <1>10, <1>11,
     <1>12, <1>13, <1>14, <1>15, <1>16 DEF Next, Internal, InsertStep

-----------------------------------------------------------------------------
(* The theorems. *)

\* The inductive invariant holds in every reachable state.
THEOREM InductiveInvariant == Spec => []IInv
BY InitInv, NextInv, PTL DEF Spec

\* Type correctness: no call indexes a table outside its slots, and all
\* links stay inside their table.
THEOREM TypeCorrect == Spec => []TypeOK
<1>1. IInv => TypeOK
  BY DEF IInv
<1> QED
  BY <1>1, InductiveInvariant, PTL

\* No insertion, displacement, removal or resize hides a live entry from
\* _map_lookup_entry.
THEOREM EntriesStayReachable == Spec => []EntriesReachable
<1>1. IInv => EntriesReachable
  BY DEF IInv, TableInv, ResizeInv, EntriesReachable
<1> QED
  BY <1>1, InductiveInvariant, PTL

\* The two ERROR("THIS SHOULD NEVER HAPPEN.") of map.c never happen.
THEOREM ErrorNeverHappens == Spec => []NeverHappens
<1>1. IInv => NeverHappens
  BY DEF IInv
<1> QED
  BY <1>1, InductiveInvariant, PTL

\* A search that meets a never used slot would have met the key before.
LEMMA VacantMeansAbsent ==
  ASSUME IInv, ProbeVacant
  PROVE  call.key \notin KeysOf(map)
<1> SUFFICES ASSUME NEW s \in Live(map), map.slots[s].key = call.key
             PROVE  FALSE
  BY DEF KeysOf
<1> DEFINE p == map.slots[s].probes
           k == hand.key
<1>1. pc = "probe" /\ Here.probes = Vacant
  BY DEF ProbeVacant, SearchEnds
<1>2. /\ Target = map /\ map.sz \in Nat \ {0} /\ map \in TableOf(map.sz)
      /\ TableInv(map) /\ hand.probes \in Nat
      /\ At = Pos(Hash[hand.key], hand.probes, map.sz) /\ Here = map.slots[At]
  BY <1>1, LoopFacts DEF Target
<1>3. /\ map.slots[s].key = k
      /\ \A j \in 0 .. (hand.probes - 1) :
           LET e == map.slots[Pos(Hash[k], j, map.sz)]
           IN  ~(e.probes > 0 /\ e.key = k)
  BY <1>1 DEF IInv, ProbeInv
<1>4. s \in SlotsOf(map.sz) /\ p \in Nat \ {0} /\ p > 0
  BY <1>2, TableFields DEF Live, Removed
<1>5. /\ s = Pos(Hash[k], p - 1, map.sz)
      /\ \A j \in 0 .. (p - 2) : map.slots[Pos(Hash[k], j, map.sz)].probes # Vacant
  BY <1>2, <1>3 DEF TableInv, TableReachable, EntryReachable
<1>6. CASE hand.probes < p - 1
  <2>1. hand.probes \in 0 .. (p - 2)
    BY <1>2, <1>4, <1>6
  <2> QED
    BY <1>1, <1>2, <1>5, <2>1
<1>7. CASE hand.probes = p - 1
  BY <1>1, <1>2, <1>4, <1>5, <1>7 DEF Vacant
<1>8. CASE hand.probes > p - 1
  <2>1. p - 1 \in 0 .. (hand.probes - 1)
    BY <1>2, <1>4, <1>8
  <2> QED
    BY <1>3, <1>4, <1>5, <2>1
<1> QED
  BY <1>2, <1>4, <1>6, <1>7, <1>8

\* map_lookup and map_remove report a key absent only when no live entry
\* holds it.
THEOREM AbsentIsAbsent == Spec => AbsentMeansAbsent
<1> DEFINE A == pc = "probe" /\ ret' = NoValue /\ pc' = "idle"
                  => call.key \notin KeysOf(map)
<1>1. IInv /\ [Next]_vars => [A]_vars
  <2> SUFFICES ASSUME IInv, Next, pc = "probe", ret' = NoValue, pc' = "idle"
               PROVE  call.key \notin KeysOf(map)
    OBVIOUS
  <2>1. ProbeVacant \/ ProbeFound
    BY DEF Next, InsertCall, LookupCall, RemoveCall, Insert, Lookup, Remove, Find,
           Internal, InsertStep, InsertVacant, InsertRemoved, InsertTooMany,
           InsertPresent, InsertRob, InsertPass, InHelper, ReinsertNext, EndResize,
           ProbeNext, Finalize
  <2>2. CASE ProbeFound
    <3>1. ret' = Here.value /\ Here.probes > 0
      BY <2>2 DEF ProbeFound, Return
    <3>2. Here.value \in Value
      BY <3>1, LoopFacts DEF Target, TableInv, PairsOK
    <3> QED
      BY <3>1, <3>2, HashMapAssumption
  <2> QED
    BY <2>1, <2>2, VacantMeansAbsent
<1>2. [][A]_vars => AbsentMeansAbsent
  BY DEF AbsentMeansAbsent
<1> QED
  BY <1>1, <1>2, InductiveInvariant, PTL DEF Spec
-----------------------------------------------------------------------------
(* The list of live slots, followed from first.                            *)

\* The i-th slot of the list, as Walk follows it.
Nth(t) ==
  LET nth[i \in 0 .. t.sz] ==
        IF i = 0 THEN t.first
        ELSE IF nth[i-1] = Nil THEN Nil ELSE t.slots[nth[i-1]].next
  IN  nth

Step(t, s) == IF s = Nil THEN Nil ELSE t.slots[s].next

\* There is such a function: the recursion of Walk is well defined.
LEMMA NthFacts ==
  ASSUME NEW n \in Nat, NEW t \in TableOf(n), TableInv(t)
  PROVE  /\ Nth(t) \in [0 .. n -> Live(t) \union {Nil}]
         /\ Nth(t)[0] = t.first
         /\ \A i \in 1 .. n : Nth(t)[i] = Step(t, Nth(t)[i-1])
<1> DEFINE V == Live(t) \union {Nil}
           next == [s \in V |-> Step(t, s)]
<1>1. t.first \in V /\ next \in [V -> V]
  BY DEF TableInv, LinksOK, Step
<1>2. PICK g \in [0 .. n -> V] : Iterates(g, t.first, next, n)
  BY <1>1, IterationExists
<1>3. g[0] = t.first /\ \A i \in 1 .. n : g[i] = Step(t, g[i-1])
  <2>1. \A i \in 1 .. n : i - 1 \in 0 .. n
    OBVIOUS
  <2> QED
    BY <1>2, <2>1 DEF Iterates
<1> DEFINE body(f) == [i \in 0 .. t.sz |->
                         IF i = 0 THEN t.first
                         ELSE IF f[i-1] = Nil THEN Nil ELSE t.slots[f[i-1]].next]
<1>4. t.sz = n
  BY TableFields
<1>5. \A i \in 0 .. n : i # 0 => i \in 1 .. n
  OBVIOUS
<1>6. g = body(g)
  <2>1. \A i \in 0 .. n : g[i] = IF i = 0 THEN t.first
                         ELSE IF g[i-1] = Nil THEN Nil ELSE t.slots[g[i-1]].next
    BY <1>3, <1>5 DEF Step
  <2> QED
    BY <1>2, <1>4, <2>1
<1>7. Nth(t) = CHOOSE f : f = body(f)
  BY DEF Nth
<1> DEFINE f == Nth(t)
<1>8. f = body(f)
  <2> HIDE DEF body
  <2> QED
    BY <1>6, <1>7
<1>9. /\ DOMAIN f = 0 .. n /\ f[0] = t.first
      /\ \A i \in 1 .. n : f[i] = Step(t, f[i-1])
  <2> HIDE DEF f
  <2>1. f = [i \in 0 .. n |-> IF i = 0 THEN t.first
                              ELSE IF f[i-1] = Nil THEN Nil ELSE t.slots[f[i-1]].next]
    BY <1>4, <1>8
  <2> DEFINE e(i) == IF i = 0 THEN t.first
                     ELSE IF f[i-1] = Nil THEN Nil ELSE t.slots[f[i-1]].next
  <2>2. DOMAIN f = 0 .. n /\ \A i \in 0 .. n : f[i] = e(i)
    <3> HIDE DEF e
    <3>1. f = [i \in 0 .. n |-> e(i)]
      BY <2>1 DEF e
    <3> QED
      BY <3>1
  <2> QED
    BY <2>2, <1>5 DEF Step
<1> HIDE DEF f
<1>10. \A i \in 0 .. n : f[i] \in V
  <2> HIDE DEF V
  <2>1. \A i \in 1 .. n : f[i-1] \in V => f[i] \in V
    BY <1>1, <1>9
  <2> QED
    BY <1>1, <1>9, <2>1, StaysIn
<1>11. f \in [0 .. n -> V]
  <2>1. f = [i \in 0 .. n |-> f[i]]
    BY <1>4, <1>8, <1>9
  <2> QED
    BY <1>10, <2>1
<1> QED
  BY <1>9, <1>11 DEF f

\* The first n + 1 steps along next meet each live slot once, and then Nil.
LEMMA NthEnds ==
  ASSUME NEW n \in Nat \ {0}, NEW t \in TableOf(n), TableInv(t)
  PROVE  \E m \in 0 .. n :
           /\ \A i \in 0 .. n : Nth(t)[i] = Nil <=> m <= i
           /\ \A i, j \in 0 .. (m - 1) : Nth(t)[i] = Nth(t)[j] => i = j
           /\ {Nth(t)[i] : i \in 0 .. (m - 1)} = Live(t)
<1> DEFINE f == Nth(t)
<1>1. /\ f \in [0 .. n -> Live(t) \union {Nil}]
      /\ f[0] = t.first
      /\ \A i \in 1 .. n : f[i] = Step(t, f[i-1])
  BY NthFacts
<1>2. LinksOK(t) /\ Connected(t) /\ Nil \notin Live(t) /\ Live(t) \subseteq 0 .. (n - 1)
  BY NilNoSlot, TableFields DEF TableInv, SlotsOf, Nil
<1> HIDE DEF f
<1>3. \A i \in 1 .. n : /\ i - 1 \in 0 .. n /\ i \in 0 .. n
                        /\ f[i] # Nil => f[i-1] \in Live(t) /\ t.slots[f[i-1]].next = f[i]
                                         /\ t.slots[f[i]].prev = f[i-1]
  <2> SUFFICES ASSUME NEW i \in 1 .. n
               PROVE  /\ i - 1 \in 0 .. n /\ i \in 0 .. n
                      /\ f[i] # Nil => f[i-1] \in Live(t) /\ t.slots[f[i-1]].next = f[i]
                                         /\ t.slots[f[i]].prev = f[i-1]
    OBVIOUS
  <2>1. i - 1 \in 0 .. n /\ i \in 0 .. n
    OBVIOUS
  <2>2. f[i] = Step(t, f[i-1])
    BY <1>1
  <2> QED
    BY <1>1, <1>2, <2>1, <2>2 DEF Step, LinksOK
\* No slot is met twice: going back along prev, first would be met twice.
<1>4. \A i, j \in 0 .. n : i < j /\ f[j] # Nil => f[i] # f[j]
  <2> DEFINE T == {i \in 0 .. n : \E j \in 0 .. n : i < j /\ f[j] # Nil /\ f[i] = f[j]}
  <2> SUFFICES ASSUME T # {} PROVE FALSE
    OBVIOUS
  <2>1. PICK i \in T : \A k \in T : i <= k
    <3>1. T \subseteq Nat
      OBVIOUS
    <3> HIDE DEF T
    <3> QED
      BY <3>1, LeastNat
  <2>2. PICK j \in 0 .. n : i < j /\ f[j] # Nil /\ f[i] = f[j]
    BY <2>1
  <2>3. j \in 1 .. n /\ i \in 0 .. n
    BY <2>1, <2>2
  <2>4. f[j-1] \in Live(t) /\ t.slots[f[j]].prev = f[j-1] /\ j - 1 \in 0 .. n
    BY <1>3, <2>2, <2>3
  <2>5. CASE i = 0
    <3>1. t.slots[t.first].prev = Nil
      BY <1>1, <1>2, <2>2, <2>5 DEF LinksOK
    <3> QED
      BY <1>1, <1>2, <2>2, <2>4, <2>5, <3>1
  <2>6. CASE i # 0
    <3>1. i \in 1 .. n
      BY <2>3, <2>6
    <3>2. t.slots[f[i]].prev = f[i-1] /\ i - 1 \in 0 .. n
      BY <1>3, <2>2, <3>1
    <3>3. f[i-1] = f[j-1] /\ f[j-1] # Nil /\ i - 1 < j - 1
      BY <1>2, <2>2, <2>3, <2>4, <3>2
    <3>4. i - 1 \in T
      BY <2>4, <3>2, <3>3
    <3> QED
      BY <2>1, <2>3, <3>4
  <2> QED
    BY <2>5, <2>6
<1>5. \E i \in 0 .. n : f[i] = Nil
  <2> SUFFICES ASSUME \A i \in 0 .. n : f[i] # Nil PROVE FALSE
    OBVIOUS
  <2>1. f \in [0 .. n -> Live(t)]
    BY <1>1
  <2>2. IsFiniteSet(0 .. n) /\ Cardinality(0 .. n) = n + 1
    BY FS_Interval
  <2>3. IsFiniteSet(0 .. (n - 1)) /\ Cardinality(0 .. (n - 1)) = n
    BY FS_Interval
  <2>4. /\ IsFiniteSet(Live(t)) /\ Cardinality(Live(t)) <= n
        /\ Cardinality(Live(t)) \in Nat
    BY <1>2, <2>3, FS_Subset, FS_CardinalityType
  <2>5. Cardinality(Live(t)) < Cardinality(0 .. n)
    BY <2>2, <2>4
  <2>6. PICK i, j \in 0 .. n : i # j /\ f[i] = f[j]
    BY <2>1, <2>2, <2>4, <2>5, FS_PigeonHole
  <2> QED
    BY <1>4, <2>6
<1>6. PICK m \in 0 .. n : f[m] = Nil /\ \A i \in 0 .. n : f[i] = Nil => m <= i
  <2> DEFINE T == {i \in 0 .. n : f[i] = Nil}
  <2>1. T \subseteq Nat /\ T # {}
    BY <1>5
  <2> HIDE DEF T
  <2>2. PICK i \in T : \A k \in T : i <= k
    BY <2>1, LeastNat
  <2> QED
    BY <2>2 DEF T
<1>7. \A i \in 0 .. n : m <= i => f[i] = Nil
  <2> DEFINE T == {i \in m .. n : f[i] # Nil}
  <2> SUFFICES ASSUME T # {} PROVE FALSE
    OBVIOUS
  <2>1. PICK i \in T : \A k \in T : i <= k
    <3>1. T \subseteq Nat
      OBVIOUS
    <3> HIDE DEF T
    <3> QED
      BY <3>1, LeastNat
  <2>2. i \in 1 .. n /\ i - 1 \in m .. n /\ f[i] # Nil
    BY <1>6, <2>1
  <2>3. f[i-1] # Nil
    BY <1>2, <1>3, <2>2
  <2>4. i - 1 \in T
    BY <2>2, <2>3
  <2> QED
    BY <2>1, <2>2, <2>4
<1>8. \A i, j \in 0 .. (m - 1) : f[i] = f[j] => i = j
  <2> SUFFICES ASSUME NEW i \in 0 .. (m - 1), NEW j \in 0 .. (m - 1), f[i] = f[j], i # j
               PROVE  FALSE
    OBVIOUS
  <2>1. i \in 0 .. n /\ j \in 0 .. n /\ f[i] # Nil /\ f[j] # Nil
    BY <1>6
  <2> QED
    BY <1>4, <2>1
<1>9. {f[i] : i \in 0 .. (m - 1)} = Live(t)
  <2> DEFINE S == {f[i] : i \in 0 .. (m - 1)}
  <2>1. S \in SUBSET Live(t)
    BY <1>1, <1>6
  <2>2. t.first \in S \union {Nil}
    <3>1. CASE m = 0
      BY <1>1, <1>6, <3>1
    <3>2. CASE m # 0
      <4>1. 0 \in 0 .. (m - 1)
        BY <3>2
      <4> QED
        BY <1>1, <4>1
    <3> QED
      BY <3>1, <3>2
  <2>3. ASSUME NEW i \in 0 .. (m - 1)
        PROVE  t.slots[f[i]].next \in S \union {Nil}
    <3>1. i + 1 \in 1 .. n /\ (i + 1) - 1 = i /\ i \in 0 .. n /\ f[i] # Nil
      BY <1>6
    <3>2. f[i + 1] = t.slots[f[i]].next
      BY <1>1, <3>1 DEF Step
    <3>3. CASE i + 1 = m
      BY <1>6, <3>2, <3>3
    <3>4. CASE i + 1 # m
      <4>1. i + 1 \in 0 .. (m - 1)
        BY <3>4
      <4> QED
        BY <3>2, <4>1
    <3> QED
      BY <3>3, <3>4
  <2>4. \A s \in S : t.slots[s].next \in S \union {Nil}
    BY <2>3
  <2> HIDE DEF S
  <2>5. S = Live(t)
    BY <1>2, <2>1, <2>2, <2>4 DEF Connected
  <2> QED
    BY <2>5 DEF S
<1>10. \A i \in 0 .. n : f[i] = Nil <=> m <= i
  BY <1>6, <1>7
<1> QED
  BY <1>8, <1>9, <1>10 DEF f
\* Walk is the list without repetition, and prev and last agree with it.
LEMMA ListIsOK ==
  ASSUME NEW n \in Nat \ {0}, NEW t \in TableOf(n), TableInv(t)
  PROVE  ListOK(t) /\ Walk(t) \in Seq(Live(t))
<1> DEFINE f == Nth(t)
           w == Walk(t)
<1>1. PICK m \in 0 .. n :
        /\ \A i \in 0 .. n : f[i] = Nil <=> m <= i
        /\ \A i, j \in 0 .. (m - 1) : f[i] = f[j] => i = j
        /\ {f[i] : i \in 0 .. (m - 1)} = Live(t)
  BY NthEnds
<1>2. /\ f[0] = t.first
      /\ \A i \in 1 .. n : f[i] = Step(t, f[i-1])
  BY NthFacts
<1>3. LinksOK(t) /\ t.sz = n
  BY TableFields DEF TableInv
<1>4. w = [i \in 1 .. m |-> f[i-1]]
  <2>1. w = [i \in 1 .. Cardinality({i \in 0 .. t.sz : f[i] # Nil}) |-> f[i-1]]
    BY DEF Walk, Nth
  <2> HIDE DEF f, w
  <2>2. {i \in 0 .. t.sz : f[i] # Nil} = 0 .. (m - 1)
    BY <1>1, <1>3
  <2>3. Cardinality(0 .. (m - 1)) = m
    BY FS_Interval
  <2> QED
    BY <2>1, <2>2, <2>3
<1> HIDE DEF f, w
<1>5. DOMAIN w = 1 .. m /\ Len(w) = m /\ \A i \in 1 .. m : w[i] = f[i-1]
  BY <1>4
<1>6. \A i \in 1 .. m : i - 1 \in 0 .. (m - 1) /\ i - 1 \in 0 .. n
  BY <1>1
<1>7. \A i \in 1 .. m : w[i] \in Live(t)
  BY <1>1, <1>5, <1>6
<1>8. {w[i] : i \in DOMAIN w} = Live(t)
  <2>1. ASSUME NEW s \in Live(t) PROVE \E i \in 1 .. m : w[i] = s
    <3>1. PICK i \in 0 .. (m - 1) : f[i] = s
      BY <1>1
    <3>2. i + 1 \in 1 .. m /\ (i + 1) - 1 = i
      BY <3>1
    <3> QED
      BY <1>5, <3>1, <3>2
  <2>2. {w[i] : i \in 1 .. m} = Live(t)
    BY <1>7, <2>1
  <2> QED
    BY <1>5, <2>2
<1>9. Cardinality(Live(t)) = m
  <2>1. w \in Bijection(1 .. m, Live(t))
    <3>1. w \in [1 .. m -> Live(t)]
      BY <1>4, <1>5, <1>7
    <3>2. \A i, j \in 1 .. m : w[i] = w[j] => i = j
      BY <1>1, <1>5, <1>6
    <3>3. \A s \in Live(t) : \E i \in 1 .. m : w[i] = s
      BY <1>5, <1>8
    <3> QED
      BY <3>1, <3>2, <3>3 DEF Bijection, Injection, Surjection, IsInjective
  <2> QED
    BY <2>1, FS_CountingElements DEF ExistsBijection
<1>10. ASSUME NEW i \in DOMAIN w
       PROVE  t.slots[w[i]].prev = IF i = 1 THEN Nil ELSE w[i-1]
  <2>0. i \in 1 .. m
    BY <1>5
  <2>1. i \in 1 .. m /\ w[i] = f[i-1] /\ w[i] \in Live(t)
    BY <1>5, <1>7, <2>0
  <2>2. CASE i = 1
    BY <1>2, <1>3, <2>1, <2>2 DEF LinksOK
  <2>3. CASE i # 1
    <3>1. i - 1 \in 1 .. m /\ w[i-1] \in Live(t) /\ w[i-1] = f[(i-1)-1]
      BY <1>5, <1>7, <2>1, <2>3
    <3>2. f[i-1] = t.slots[w[i-1]].next
      <4>1. i - 1 \in 1 .. n /\ w[i-1] # Nil
        BY <1>1, <1>5, <1>6, <2>1, <3>1
      <4> QED
        BY <1>2, <3>1, <4>1 DEF Step
    <3>3. f[i-1] # Nil
      BY <1>1, <1>6, <2>1
    <3> QED
      BY <1>3, <2>1, <2>3, <3>1, <3>2, <3>3 DEF LinksOK
  <2> QED
    BY <2>2, <2>3
<1>11. t.last = IF w = << >> THEN Nil ELSE w[Len(w)]
  <2>1. CASE m = 0
    <3>1. Live(t) = {} /\ w = << >>
      BY <1>1, <1>4, <2>1
    <3> QED
      BY <1>3, <3>1 DEF LinksOK
  <2>2. CASE m # 0
    <3>1. m \in 1 .. m /\ m \in 0 .. n /\ m \in 1 .. n
      BY <2>2
    <3>2. w[m] \in Live(t) /\ w[m] = f[m-1] /\ w # << >>
      BY <1>5, <1>7, <3>1
    <3>3. f[m] = Nil /\ f[m-1] # Nil
      BY <1>1, <1>6, <3>1
    <3>4. t.slots[w[m]].next = Nil
      BY <1>2, <3>1, <3>2, <3>3 DEF Step
    <3> QED
      BY <1>3, <1>5, <3>2, <3>4 DEF LinksOK
  <2> QED
    BY <2>1, <2>2
<1>12. w \in Seq(Live(t))
  BY <1>4, <1>5, <1>7
<1> QED
  BY <1>5, <1>8, <1>9, <1>10, <1>11, <1>12 DEF ListOK, w

\* An M_iter started at first meets each live entry exactly once, in an order
\* that prev and last agree with, whatever calls were made before.
THEOREM ListsMatchTables == Spec => []ListMatchesTable
<1>1. IInv => ListMatchesTable
  <2> SUFFICES ASSUME IInv PROVE ListMatchesTable
    OBVIOUS
  <2>1. /\ map.sz \in Nat \ {0} /\ map \in TableOf(map.sz) /\ TableInv(map)
        /\ pc \in {"rehash", "reinsert"} =>
             new.sz \in Nat \ {0} /\ new \in TableOf(new.sz) /\ TableInv(new)
    BY DEF IInv, TypeOK, ResizeInv
  <2> QED
    BY <2>1, ListIsOK DEF ListMatchesTable
<1> QED
  BY <1>1, InductiveInvariant, PTL
\* No entry is linked to itself.
LEMMA NoSelfLink ==
  ASSUME NEW t, LinksOK(t), Connected(t), NEW s \in Live(t)
  PROVE  t.slots[s].next # s /\ t.slots[s].prev # s
<1>1. t.slots[s].prev = s => t.slots[s].next = s
  BY DEF LinksOK
<1>0. s # Nil
  BY DEF Live, SlotsOf, Nil
<1> SUFFICES ASSUME t.slots[s].next = s PROVE FALSE
  BY <1>1
<1>2. t.slots[s].prev = s /\ s # t.first
  BY <1>0 DEF LinksOK
<1> DEFINE S == Live(t) \ {s}
<1>3. \A r \in S : t.slots[r].next # s
  BY <1>2 DEF LinksOK
<1>4. /\ S \in SUBSET Live(t) /\ t.first \in S \union {Nil}
      /\ \A r \in S : t.slots[r].next \in S \union {Nil}
  BY <1>2, <1>3 DEF LinksOK
<1>5. S # Live(t)
  OBVIOUS
<1> HIDE DEF S
<1> QED
  BY <1>4, <1>5 DEF Connected
\* The position of a probe depends on num_probes modulo UintMod only.
LEMMA PosPeriodic ==
  ASSUME NEW h \in Nat, NEW p \in Nat, NEW n
  PROVE  Pos(h, p % UintMod, n) = Pos(h, p, n)
<1> DEFINE M == UintMod
           q == p \div M
           r == p % M
<1>0. M \in Nat \ {0}
  BY HashMapAssumption
<1> HIDE DEF M
<1>1. q \in Nat /\ r \in Nat /\ p = M * q + r
  BY <1>0
<1> HIDE DEF q, r
<1> DEFINE y == M * (q * q) + 2 * (q * r)
<1>2. y \in Nat
  <2>1. q * q \in Nat /\ q * r \in Nat
    BY <1>1
  <2>2. M * (q * q) \in Nat
    BY <1>0, <2>1
  <2> QED
    BY <2>1, <2>2
<1>3. p * p = r * r + M * y
  <2>1. p * p = (M * q) * (M * q) + 2 * ((M * q) * r) + r * r
    <3> DEFINE a == M * q
    <3>1. a \in Nat /\ p = a + r
      BY <1>0, <1>1
    <3> HIDE DEF a
    <3>2. (a + r) * (a + r) = a * a + 2 * (a * r) + r * r
      BY <1>1, <3>1
    <3> QED
      BY <3>1, <3>2 DEF a
  <2>2. (M * q) * (M * q) = M * (M * (q * q)) /\ (M * q) * r = M * (q * r)
    BY <1>0, <1>1
  <2>3. M * y = M * (M * (q * q)) + 2 * (M * (q * r))
    BY <1>0, <1>1
  <2> QED
    BY <2>1, <2>2, <2>3, <1>0, <1>1
<1> HIDE DEF y
<1>4. r * r \in Nat /\ M * y \in Nat
  BY <1>0, <1>1, <1>2
<1>5. h + p * p = (h + r * r) + M * y
  BY <1>3, <1>4
<1>6. (h + p * p) % M = (h + r * r) % M
  <2> DEFINE x == h + r * r
  <2>1. x \in Nat
    BY <1>4
  <2> HIDE DEF x
  <2>2. (x + M * y) % M = x % M
    BY <1>0, <1>2, <2>1, ModMultiple
  <2> QED
    BY <1>5, <2>2 DEF x
<1> QED
  BY <1>6 DEF Pos, M, r

LEMMA KeyAhead == IInv => SearchAhead
<1>1. ASSUME IInv PROVE SearchAhead
  <2> SUFFICES ASSUME pc = "probe", NEW s \in Live(map), map.slots[s].key = call.key
               PROVE  \E j \in hand.probes .. (UintMod - 1) : HoldsAt(map, call.key, j)
    BY DEF SearchAhead, KeysOf
  <2> DEFINE k == call.key
             p == map.slots[s].probes - 1
             j == p % UintMod
  <2>1. /\ hand.key = k /\ k \in Key /\ hand.probes \in Nat /\ TableInv(map)
        /\ \A i \in 0 .. (hand.probes - 1) : ~HoldsAt(map, k, i)
    BY <1>1, LoopFacts DEF IInv, ProbeInv, HoldsAt
  <2>2. map.slots[s].probes \in Nat \ {0}
    BY <1>1, TableFields DEF IInv, TypeOK, Live, Removed
  <2>3. s = Pos(Hash[k], p, map.sz) /\ p \in Nat
    BY <2>1, <2>2 DEF TableInv, TableReachable, EntryReachable
  <2>4. UintMod \in Nat \ {0} /\ Hash[k] \in Nat
    BY <2>1, HashMapAssumption
  <2>5. j \in 0 .. (UintMod - 1)
    BY <2>3, <2>4
  <2>6. HoldsAt(map, k, j)
    BY <2>2, <2>3, <2>4, PosPeriodic DEF HoldsAt
  <2> HIDE DEF j
  <2>7. j \in hand.probes .. (UintMod - 1)
    BY <2>1, <2>4, <2>5, <2>6
  <2> QED
    BY <2>6, <2>7
<1> QED
  BY <1>1

\* A search for a key that is in the table cannot pass it.
THEOREM SearchHasKeyAhead == Spec => []SearchAhead
BY KeyAhead, InductiveInvariant, PTL

\* It moves towards the key with every probe: num_probes does not wrap before.
THEOREM SearchGoesOn == Spec => SearchAdvances
<1> DEFINE A == pc = "probe" /\ pc' = "probe" /\ call.key \in KeysOf(map)
                  => hand'.probes = hand.probes + 1
<1>1. ASSUME IInv, [Next]_vars PROVE A \/ UNCHANGED vars
  <2> SUFFICES ASSUME pc = "probe", pc' = "probe", call.key \in KeysOf(map), Next
               PROVE  hand'.probes = hand.probes + 1
    BY <1>1
  <2>1. ProbeNext
    BY DEF Next, InsertCall, LookupCall, RemoveCall, Insert, Lookup, Remove, Find,
           Internal, InsertStep, InsertVacant, InsertRemoved, InsertTooMany,
           InsertPresent, InsertRob, InsertPass, InHelper, ReinsertNext, EndResize,
           ProbeVacant, ProbeFound, Return, Finalize
  <2>2. PICK j \in hand.probes .. (UintMod - 1) : HoldsAt(map, call.key, j)
    BY <1>1, KeyAhead DEF SearchAhead
  <2>3. /\ hand.key = call.key /\ hand.probes \in Nat /\ Target = map
        /\ Here = map.slots[Pos(Hash[hand.key], hand.probes, map.sz)]
        /\ hand \in HandType(map.sz)
    BY <1>1, LoopFacts DEF IInv, ProbeInv, Target
  <2>4. j # hand.probes
    BY <2>1, <2>2, <2>3 DEF HoldsAt, ProbeNext, Removed
  <2>5. hand.probes + 1 \in 0 .. (UintMod - 1)
    BY <2>2, <2>3, <2>4, HashMapAssumption
  <2>6. NextProbe = hand.probes + 1
    BY <2>5, HashMapAssumption DEF NextProbe
  <2> QED
    BY <2>1, <2>3, <2>6 DEF ProbeNext, HandType
<1>2. [][A]_vars => SearchAdvances
  BY DEF SearchAdvances
<1> QED
  BY <1>1, <1>2, InductiveInvariant, PTL DEF Spec
=============================================================================
