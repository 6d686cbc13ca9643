----------------------------- MODULE PointerSet -----------------------------
(***************************************************************************)
(* The set of struct/set.c, a HashMap from each pointer to itself, and the *)
(* M_iter of struct/map.c, used by a loop that may remove the pointer it   *)
(* stands on, as the sweep of mgraph_collect_garbage does with mg->nodes.  *)
(*                                                                         *)
(* No client in the repository inserts while it iterates.                  *)
(***************************************************************************)
EXTENDS HashMapProps

ASSUME SetAssumption == Value = Key

VARIABLES
  loop,  \* where the loop over the set is: "none", "test" or "body"
  iter,  \* the slot the M_iter points to
  met,   \* the pointers the loop was given so far
  due,   \* the pointers in the set when the loop began, in list order
  tidy   \* history: every pointer inserted was not in the set at the time

loopVars == <<loop, iter, met, due>>
setVars  == <<vars, loopVars, tidy>>

SetInit ==
  /\ Init
  /\ loop = "none"
  /\ iter = Nil
  /\ met = << >>
  /\ due = << >>
  /\ tidy = TRUE

-----------------------------------------------------------------------------
(* Calls outside of a loop.                                                *)

SetInsert(p) == Insert(p, p)
SetLookup(p) == Lookup(p)
SetRemove(p) == Remove(p)

Call ==
  /\ loop = "none"
  /\ \/ /\ \E p \in Key : SetLookup(p) \/ SetRemove(p)
        /\ UNCHANGED tidy
     \/ \E p \in Key :
          /\ SetInsert(p)
          /\ tidy' = (tidy /\ p \notin KeysOf(map))
     \/ Finalize /\ UNCHANGED tidy
  /\ UNCHANGED loopVars

-----------------------------------------------------------------------------
(* for (iter = set_iter(set); has(&iter); inc(&iter)) { ... }              *)

\* Bound: loops are not begun on tables larger than calls are.
SetIter ==
  /\ pc = "idle"
  /\ loop = "none"
  /\ map.sz <= MaxSize
  /\ loop' = "test"
  /\ iter' = map.first
  /\ met' = << >>
  /\ due' = IterKeys(map)
  /\ UNCHANGED <<vars, tidy>>

Has == iter # Nil

\* The body is given value(&iter).  Bound: a loop is followed for one round
\* more than the table has slots.
Visit ==
  /\ loop = "test"
  /\ Has
  /\ Len(met) <= map.sz
  /\ loop' = "body"
  /\ met' = Append(met, map.slots[iter].value)
  /\ UNCHANGED <<vars, iter, due, tidy>>

\* The body removes the pointer it was given.
RemoveMet ==
  /\ loop = "body"
  /\ map.slots[iter].probes # Removed
  /\ SetRemove(met[Len(met)])
  /\ UNCHANGED <<loopVars, tidy>>

\* Also when the entry under the iterator was removed.
Advance ==
  /\ loop = "body"
  /\ pc = "idle"
  /\ loop' = "test"
  /\ iter' = Inc(map, iter)
  /\ UNCHANGED <<vars, met, due, tidy>>

EndLoop ==
  /\ loop = "test"
  /\ ~Has
  /\ loop' = "none"
  /\ met' = << >>
  /\ due' = << >>
  /\ UNCHANGED <<vars, iter, tidy>>

-----------------------------------------------------------------------------
Inside == Internal /\ UNCHANGED <<loopVars, tidy>>
Loop   == Visit \/ Advance \/ EndLoop

SetNext == Call \/ SetIter \/ RemoveMet \/ Loop \/ Inside

\* A call runs to its end.
SetSpec == SetInit /\ [][SetNext]_setVars
FairSetSpec == SetSpec /\ WF_setVars(Inside)

-----------------------------------------------------------------------------
(* Properties.                                                             *)

Distinct(s) == \A i, j \in DOMAIN s : s[i] = s[j] => i = j

\* A loop is given each pointer that was in the set when it began exactly
\* once and in the order of the list, although the body unlinks the entry
\* the iterator stands on before inc follows its next link.  (A set in which
\* an insertion has duplicated a pointer gives it twice.)
LoopMeetsAll ==
  loop # "none" /\ Distinct(due) =>
    /\ Len(met) <= Len(due) /\ met = SubSeq(due, 1, Len(met))
    /\ loop = "test" /\ ~Has => met = due

\* A client that inserts only pointers that are not in the set - the tracker
\* with new blocks, the graph with new nodes - never has one in it twice,
\* whatever it removes: so one set_remove removes it.
TidyNoDuplicate == tidy => OneEntryPerKey

\* For that client an insertion loses no other pointer.
TidyKeepsEntries ==
  [][tidy /\ call.op = "insert" => Held \ {call.key} \subseteq Held']_setVars
-----------------------------------------------------------------------------
(* The mapping to what a tidy client gets (module LossySet).               *)

\* The entries, with the displaced one in hand, and without the one being
\* inserted: the insertion starts over without the one in hand.
Members ==
  IF call.op = "insert"
    THEN (KeysOf(map) \union (IF pc = "insert" THEN {hand.key} ELSE {}))
           \ {call.key}
    ELSE KeysOf(map)

Worn == \E s \in SlotsOf(map.sz) : map.slots[s].probes = Removed

\* The insertion has started over and will find its own pointer, which took
\* the place of the one it has lost.
HasLost == /\ retry
           /\ call.key \in KeysOf(map)
           /\ pc = "insert" => hand.key = call.key

Lossy == INSTANCE LossySet WITH
  members <- Members, worn <- Worn, lost <- HasLost, result <- ret,
  pending <- [op |-> call.op, key |-> call.key]

\* As long as the client inserts only pointers that are not in the set, an
\* insertion keeps its own pointer and drops at most one other, only after
\* removals, and then returns false; a removal or a lookup is never wrong.
ImplementsLossySet ==
  Lossy!Init /\ [][tidy' => [Lossy!Next]_(Lossy!vars)]_setVars
=============================================================================
