----------------------------- MODULE HashMapInv -----------------------------
(***************************************************************************)
(* The inductive invariant of the hash map, for every value of the         *)
(* constants (the theorems are in HashMapProofs).                          *)
(***************************************************************************)
EXTENDS HashMapProps

\* A live slot holds a pair.
PairsOK(t) ==
  \A s \in Live(t) : t.slots[s].key \in Key /\ t.slots[s].value \in Value

\* The list of the live slots, seen from each of them: what ListOK says of
\* the whole list, without following it.
LinksOK(t) ==
  /\ t.first \in Live(t) \union {Nil}
  /\ t.last \in Live(t) \union {Nil}
  /\ t.first = Nil <=> t.last = Nil
  /\ \A s \in Live(t) :
       /\ t.slots[s].prev \in Live(t) \union {Nil}
       /\ t.slots[s].next \in Live(t) \union {Nil}
       /\ t.slots[s].prev = Nil <=> s = t.first
       /\ t.slots[s].next = Nil <=> s = t.last
       /\ t.slots[s].prev # Nil => t.slots[t.slots[s].prev].next = s
       /\ t.slots[s].next # Nil => t.slots[t.slots[s].next].prev = s

\* The list leads from first to every live slot: a set of slots that next
\* does not leave, and that first is in, holds them all.
Connected(t) ==
  \A S \in SUBSET Live(t) :
    /\ t.first \in S \union {Nil}
    /\ \A s \in S : t.slots[s].next \in S \union {Nil}
    => S = Live(t)

TableInv(t) == PairsOK(t) /\ LinksOK(t) /\ Connected(t) /\ TableReachable(t)

NoRemoved(t) == \A s \in SlotsOf(t.sz) : t.slots[s].probes # Removed

\* The first n slots that key k probes in t were used.
Used(t, k, n) ==
  \A j \in 0 .. (n - 1) : t.slots[Pos(Hash[k], j, t.sz)].probes # Vacant

\* The pair in hand may be placed where the loop is, or in the removed slot
\* it remembers.
HandInv ==
  InHelper =>
    /\ hand.value \in Value
    /\ Used(Target, hand.key, hand.probes)
    /\ hand.empty # Nil =>
         /\ hand.emptyProbes \in 1 .. hand.probes
         /\ hand.empty = Pos(Hash[hand.key], hand.emptyProbes - 1, Target.sz)
         /\ Target.slots[hand.empty].probes = Removed

\* A search has not passed the key.
ProbeInv ==
  pc = "probe" =>
    /\ call.key = hand.key
    /\ \A j \in 0 .. (hand.probes - 1) :
         LET e == map.slots[Pos(Hash[hand.key], j, map.sz)]
         IN  ~(e.probes > 0 /\ e.key = hand.key)

ResizeInv ==
  /\ pc \in {"insert", "rehash", "reinsert"} =>
       call.op = "insert" /\ call.key \in Key /\ call.value \in Value
  /\ pc \in {"rehash", "reinsert"} =>
       /\ TableInv(new)
       /\ NoRemoved(new)
       /\ it \in Live(map) \union {Nil}
  /\ pc = "insert" /\ retry => NoRemoved(map)

IInv == TypeOK /\ NeverHappens /\ TableInv(map) /\ HandInv /\ ProbeInv /\ ResizeInv

-----------------------------------------------------------------------------
\* Slot j of those that key k probes in t holds k.
HoldsAt(t, k, j) ==
  LET e == t.slots[Pos(Hash[k], j, t.sz)] IN e.probes > 0 /\ e.key = k

\* A search for a key that is in the table has it ahead, less than UintMod
\* probes away: with SearchAdvances, what PresentLookupReturns rests on.
SearchAhead ==
  pc = "probe" /\ call.key \in KeysOf(map) =>
    \E j \in hand.probes .. (UintMod - 1) : HoldsAt(map, call.key, j)

\* Each step of such a search that does not find the key is one probe closer.
SearchAdvances ==
  [][pc = "probe" /\ pc' = "probe" /\ call.key \in KeysOf(map)
       => hand'.probes = hand.probes + 1]_vars
=============================================================================
