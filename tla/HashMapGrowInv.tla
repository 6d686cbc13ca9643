--------------------------- MODULE HashMapGrowInv ---------------------------
(***************************************************************************)
(* What a table without removed slots keeps besides TableInv, and the      *)
(* inductive invariants of the clients that have such tables: all of them  *)
(* while a table is rehashed, and GrowSpec always.  (The theorems are in   *)
(* HashMapGrowProofs.)                                                     *)
(***************************************************************************)
EXTENDS HashMapInv

\* The pairs of the live slots.
PairsOf(t) == {<<t.slots[s].key, t.slots[s].value>> : s \in Live(t)}

DistinctKeys(t) ==
  \A s, r \in Live(t) : t.slots[s].key = t.slots[r].key => s = r

\* An entry was placed beyond j slots that it probed only because those hold
\* entries that probed at least as far: this is what makes "already present"
\* visible before any displacement.
RobinHood(t) ==
  \A s \in Live(t) : \A j \in 0 .. (t.slots[s].probes - 2) :
    t.slots[Pos(Hash[t.slots[s].key], j, t.sz)].probes >= j + 1

GoodTable(t) == NoRemoved(t) /\ RobinHood(t) /\ DistinctKeys(t)

\* The slots that h has probed hold other keys, which probed at least as far.
Placed(t, h) ==
  \A j \in 0 .. (h.probes - 1) :
    LET e == t.slots[Pos(Hash[h.key], j, t.sz)]
    IN  e.probes >= j + 1 /\ e.key # h.key

\* Whatever the client does, the table that a resize fills is good, and so is
\* the one that the insertion meets after its second resize.
CleanInv ==
  /\ pc \in {"rehash", "reinsert"} => GoodTable(new)
  /\ InHelper /\ (pc = "reinsert" \/ retry) => GoodTable(Target) /\ Placed(Target, hand)

-----------------------------------------------------------------------------
(* A client that never removes (GrowSpec).                                 *)

HandPair == <<hand.key, hand.value>>
CallPair == <<call.key, call.value>>

\* The pair in hand is the one to insert, or one that it displaced.
PendingInv ==
  pc = "insert" =>
    /\ GoodTable(map) /\ Placed(map, hand)
    /\ IF hand.key = call.key THEN hand.value = call.value
         ELSE hand.key \notin KeysOf(map) /\ CallPair \in PairsOf(map)

\* The slots of map whose key the resize has taken over.
Met ==
  {s \in Live(map) : map.slots[s].key \in
     KeysOf(new) \union (IF pc = "reinsert" THEN {hand.key} ELSE {})}

\* A resize has taken over the pairs of the list up to the iterator.
RehashInv ==
  pc \in {"rehash", "reinsert"} =>
    /\ PairsOf(new) \subseteq PairsOf(map)
    /\ pc = "reinsert" => HandPair \in PairsOf(map) /\ it \in Met
    /\ map.first \in Met \union {it}
    /\ \A s \in Met : (pc = "reinsert" => s # it)
                        => map.slots[s].next \in Met \union {it, Nil}

GrowInv ==
  /\ GoodTable(map)
  /\ ~retry
  /\ call.op # "remove"
  /\ pc \in {"idle", "finalized"} => call = NoCall
  /\ CleanInv
  /\ PendingInv
  /\ RehashInv
=============================================================================
