---------------------------- MODULE HashMapProps ----------------------------
(***************************************************************************)
(* What struct/map.h promises of the hash map, and the invariants that     *)
(* make its probing loops correct.                                         *)
(***************************************************************************)
EXTENDS HashMap, Sequences

PCs == {"idle", "probe", "insert", "rehash", "reinsert", "error", "finalized"}

CallType == [op : {"none", "insert", "lookup", "remove"},
             key : Key \union {NoKey}, value : Value \union {NoValue}]

HandType(n) ==
  [key : Key \union {NoKey}, value : Value \union {NoValue}, probes : Nat,
   used : Nat, empty : SlotsOf(n) \union {Nil}, emptyProbes : Nat \union {-1}]

\* The type invariant: every table has as many slots as it says, links stay
\* inside their table, and the loop's locals fit the table it probes.
TypeOK ==
  /\ map.sz \in Nat \ {0}
  /\ map \in TableOf(map.sz)
  /\ pc \in PCs
  /\ pc \in {"rehash", "reinsert"} =>
       new.sz \in Nat \ {0} /\ new \in TableOf(new.sz)
  /\ pc \notin {"rehash", "reinsert", "error"} => new = NoTable
  /\ num_entries \in Int
  /\ call \in CallType
  /\ hand \in HandType(Target.sz)
  /\ it \in SlotsOf(map.sz) \union {Nil}
  /\ retry \in BOOLEAN
  /\ ret \in BOOLEAN \union Value \union {NoValue}
  /\ pc \in {"probe", "insert", "reinsert"} => hand.key \in Key
  /\ pc = "probe" => call.op \in {"lookup", "remove"}
  /\ pc = "reinsert" => it # Nil

-----------------------------------------------------------------------------
(* The list threaded through the slots.                                    *)

\* The slots met from t.first along next, at most t.sz + 1 of them.
Walk(t) ==
  LET nth[i \in 0 .. t.sz] ==
        IF i = 0 THEN t.first
        ELSE IF nth[i-1] = Nil THEN Nil ELSE t.slots[nth[i-1]].next
      met == {i \in 0 .. t.sz : nth[i] # Nil}
  IN  [i \in 1 .. Cardinality(met) |-> nth[i-1]]

ListOK(t) ==
  LET w == Walk(t) IN
  /\ {w[i] : i \in DOMAIN w} = Live(t)
  /\ Len(w) = Cardinality(Live(t))
  /\ \A i \in DOMAIN w :
       t.slots[w[i]].prev = IF i = 1 THEN Nil ELSE w[i-1]
  /\ t.last = IF w = << >> THEN Nil ELSE w[Len(w)]

\* The keys in the order an M_iter meets them.
IterKeys(t) == LET w == Walk(t) IN [i \in DOMAIN w |-> t.slots[w[i]].key]

\* Whatever is displaced, removed, reused or rehashed, an M_iter started at
\* first meets each live entry exactly once, and prev and last agree with
\* next and first (map_remove relies on both directions).
ListMatchesTable ==
  /\ ListOK(map)
  /\ pc \in {"rehash", "reinsert"} => ListOK(new)

-----------------------------------------------------------------------------
(* Reachability of entries.                                                *)

\* A live entry lies where its num_probes says, and no slot that its key
\* probes before that one was never used.
EntryReachable(t, s) ==
  LET e == t.slots[s] IN
  /\ s = Pos(Hash[e.key], e.probes - 1, t.sz)
  /\ \A j \in 0 .. (e.probes - 2) :
       t.slots[Pos(Hash[e.key], j, t.sz)].probes # Vacant

TableReachable(t) == \A s \in Live(t) : EntryReachable(t, s)

\* No sequence of insertions, displacements, removals and resizes hides an
\* entry from _map_lookup_entry, which stops at the first never used slot.
EntriesReachable ==
  /\ TableReachable(map)
  /\ pc \in {"rehash", "reinsert"} => TableReachable(new)

\* A search that reports that the key is absent is right: no live entry of
\* the table holds the key.
AbsentMeansAbsent ==
  [][pc = "probe" /\ ret' = NoValue /\ pc' = "idle"
       => call.key \notin KeysOf(map)]_vars

\* "THIS SHOULD NEVER HAPPEN." in map_insert and in _resize_table never
\* happens: a table just rehashed has no removed slots.
NeverHappens == pc # "error"

-----------------------------------------------------------------------------
(* Contents.                                                               *)

\* The keys held: those in the table, with the one in hand when it was
\* displaced by the key being inserted.
Held == IF pc = "insert" /\ hand.key # call.key
          THEN KeysOf(map) \union {hand.key}
          ELSE KeysOf(map)

\* A key is in at most one live slot.
OneEntryPerKey ==
  \A s, r \in Live(map) : map.slots[s].key = map.slots[r].key => s = r

-----------------------------------------------------------------------------
(* Termination of the probing loops.                                       *)

\* A search for a key that is in the table returns.
PresentLookupReturns ==
  (pc = "probe" /\ call.key \in KeysOf(map)) ~> (pc = "idle")

\* A search returns, whether or not the key is in the table.
LookupReturns == (pc = "probe") ~> (pc = "idle")

\* An insertion returns, with every resize it needs.
InsertReturns == (pc \in {"insert", "rehash", "reinsert"}) ~> (pc = "idle")

-----------------------------------------------------------------------------
(* The contract of map.h, as the abstract map.                             *)

ValueAt(k) == map.slots[CHOOSE s \in Live(map) : map.slots[s].key = k].value

\* What the map holds: the pair being inserted counts once the call returns,
\* a displaced pair in hand still counts.
Contents ==
  IF pc = "insert" /\ hand.key # call.key
    THEN [k \in (KeysOf(map) \union {hand.key}) \ {call.key} |->
            IF k = hand.key THEN hand.value ELSE ValueAt(k)]
    ELSE [k \in KeysOf(map) |-> ValueAt(k)]

Abstract == INSTANCE AbstractMap WITH contents <- Contents, pending <- call,
                                      result <- ret

\* Every step of a grow-only map is a step of the map the header describes.
ImplementsMap == Abstract!Spec
=============================================================================
