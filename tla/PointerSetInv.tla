--------------------------- MODULE PointerSetInv ---------------------------
(***************************************************************************)
(* The inductive invariants of the set and of the loop over it, for every  *)
(* value of the constants (the theorems are in PointerSetProofs).          *)
(***************************************************************************)
EXTENDS PointerSet, HashMapGrowInv

\* A live slot of a set maps a pointer to itself.
SelfTable(t) == \A s \in Live(t) : t.slots[s].value = t.slots[s].key

SelfInv ==
  /\ SelfTable(map)
  /\ pc \in {"rehash", "reinsert"} => SelfTable(new)
  /\ pc \in {"insert", "rehash", "reinsert"} => call.value = call.key
  /\ InHelper => hand.value = hand.key

\* No pointer is in the table twice, and the one in hand is not in it, or
\* would be seen there.
UniqueInv ==
  /\ DistinctKeys(map)
  /\ pc = "insert" => \/ hand.key \notin KeysOf(map)
                      \/ GoodTable(map) /\ Placed(map, hand)

TidyInv == tidy => UniqueInv

\* What an insertion has in hand is its own pointer, or one that it displaced.
\* Its own is in the table already only if it has started over.
OwnInv ==
  /\ pc = "insert" =>
       /\ hand.key # call.key => call.key \in KeysOf(map)
       /\ hand.key \in KeysOf(map) => retry /\ hand.key = call.key
  /\ pc \in {"rehash", "reinsert"} /\ ~retry => call.key \notin KeysOf(map)

\* What the thread is in the middle of.
CallInv ==
  /\ pc \in {"idle", "finalized"} => call = NoCall
  /\ pc \notin {"insert", "rehash", "reinsert"} => ~retry
  /\ pc = "probe" => call.op \in {"lookup", "remove"}

\* The insertion of a tidy client keeps its own pointer, and a resize what it
\* has met of the table it was given.
KeepInv == tidy => OwnInv /\ RehashInv

-----------------------------------------------------------------------------
(* The loop.                                                               *)

\* s is the slot of the i-th pointer of d, or the end of the list of table t.
DueAt(t, d, i, s) ==
  IF i > Len(d) THEN s = Nil ELSE s \in Live(t) /\ t.slots[s].key = d[i]

\* The live entries hold pointers of d, and after the n-th they are linked in
\* the order of d.
Ordered(t, d, n) ==
  /\ \A s \in Live(t) : \E i \in 1 .. Len(d) : t.slots[s].key = d[i]
  /\ \A i \in (n + 1) .. Len(d) : \A s \in Live(t) :
       t.slots[s].key = d[i] => DueAt(t, d, i + 1, t.slots[s].next)

\* s holds or held the n-th pointer of d, which no other entry holds, and
\* leads to the next.
LeadsOn(t, d, n, s) ==
  /\ t.slots[s].key = d[n]
  /\ \A r \in Live(t) : t.slots[r].key = d[n] => r = s
  /\ DueAt(t, d, n + 1, t.slots[s].next)

\* The body calls set_remove at most, for the pointer that it was given.  The
\* iterator stands on a live entry, or on one that the body removed last: no
\* later call unlinks the entry that it leads to.
LoopCalls ==
  loop # "none" =>
    /\ due \in Seq(Key) /\ met \in Seq(Key)
    /\ pc \in {"idle", "probe"}
    /\ pc = "probe" => loop = "body" /\ call.key = met[Len(met)]
    /\ loop = "test" => iter \in Live(map) \union {Nil}
    /\ loop = "body" =>
         /\ Len(met) > 0
         /\ \/ iter \in Live(map)
            \/ /\ iter \in SlotsOf(map.sz) /\ map.slots[iter].probes = Removed
               /\ map.slots[iter].next \in Live(map) \union {Nil}
               /\ pc = "idle"

\* What was met is due, in this order, and the iterator leads to the rest: it
\* stands on the next entry, or, in the body, on the one just met, which may
\* be unlinked.
LoopOrder ==
  loop # "none" /\ Distinct(due) =>
    /\ DistinctKeys(map)
    /\ Len(met) <= Len(due)
    /\ \A i \in 1 .. Len(met) : met[i] = due[i]
    /\ Ordered(map, due, Len(met))
    /\ loop = "test" => DueAt(map, due, Len(met) + 1, iter)
    /\ loop = "body" => LeadsOn(map, due, Len(met), iter)

LoopInv == LoopCalls /\ LoopOrder
=============================================================================
