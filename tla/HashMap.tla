------------------------------ MODULE HashMap ------------------------------
(***************************************************************************)
(* The open-addressing hash map of struct/map.c: quadratic probing, robin  *)
(* hood displacement, removed slots that stay in the table as tombstones,  *)
(* a doubly linked list threaded through the live slots, and growth to     *)
(* 2n+1 slots.                                                             *)
(*                                                                         *)
(* Every iteration of a probing loop is a step, so a call that loops for   *)
(* ever is a behaviour that never returns to pc = "idle".  The map is used *)
(* by one thread: a client issues one call at a time.                      *)
(***************************************************************************)
EXTENDS Integers, FiniteSets

CONSTANTS
  Key,       \* keys that the comparator tells apart
  Value,     \* values stored under them
  Hash,      \* the Hasher: each key's hash_value
  InitSize,  \* the size given to map_init
  MaxSize,   \* bound: no call is issued on a table larger than this
  UintMod,   \* the position is computed in uint32_t: 2^32 in the code
  NoKey,     \* the NULL key of a slot that was never used
  NoValue    \* the NULL value

ASSUME HashMapAssumption ==
  /\ UintMod \in Nat \ {0}
  /\ Hash \in [Key -> 0 .. (UintMod - 1)]
  /\ InitSize \in Nat \ {0}
  /\ MaxSize \in Nat
  /\ NoKey \notin Key
  /\ NoValue \notin Value
  /\ BOOLEAN \intersect (Value \union {NoValue}) = {}

VARIABLES
  map,          \* the table in use, with its list ends
  new,          \* the table being filled by _resize_table
  num_entries,  \* map->num_entries
  pc,           \* where the single thread is
  call,         \* the call in progress, or the last one
  hand,         \* the locals of the probing loop
  it,           \* the slot of the iterator of _resize_table
  retry,        \* TRUE once the call has been through the second resize
  ret           \* what the last call returned

vars == <<map, new, num_entries, pc, call, hand, it, retry, ret>>

-----------------------------------------------------------------------------
(* Tables.  A pointer to an entry is the number of its slot, NULL is Nil.  *)

Nil     == -1
Vacant  == 0    \* num_probes of a slot that was never used
Removed == -1   \* num_probes of a slot whose entry was removed

SlotsOf(n) == 0 .. (n - 1)

EntryOf(n) ==
  [probes : Nat \union {Removed}, key : Key \union {NoKey},
   value : Value \union {NoValue},
   prev : SlotsOf(n) \union {Nil}, next : SlotsOf(n) \union {Nil}]

TableOf(n) ==
  [sz : {n}, slots : [SlotsOf(n) -> EntryOf(n)],
   first : SlotsOf(n) \union {Nil}, last : SlotsOf(n) \union {Nil}]

EmptyEntry == [probes |-> Vacant, key |-> NoKey, value |-> NoValue,
               prev |-> Nil, next |-> Nil]

\* Mutant: one slot is missing.
EmptyTableShort(n) == [sz |-> n, slots |-> [s \in SlotsOf(n - 1) |-> EmptyEntry],
                       first |-> Nil, last |-> Nil]

EmptyTable(n) == [sz |-> n, slots |-> [s \in SlotsOf(n) |-> EmptyEntry],
                  first |-> Nil, last |-> Nil]

NoTable == [sz |-> 0, slots |-> << >>, first |-> Nil, last |-> Nil]

Live(t)   == {s \in SlotsOf(t.sz) : t.slots[s].probes > 0}
KeysOf(t) == {t.slots[s].key : s \in Live(t)}

\* The sum is unsigned and wraps.  So does the square here; in C it is an int,
\* and its overflow, beyond 46340 probes, is undefined: no build file asks for
\* -fwrapv.  The model takes the outcome of two's complement arithmetic.
Pos(hval, num_probes, sz) ==
  ((hval + num_probes * num_probes) % UintMod) % sz

NewSize(sz) == 2 * sz + 1
Thresh(sz)  == sz \div 2

-----------------------------------------------------------------------------
(* The probing loops.  hand.probes is num_probes at the top of the loop,   *)
(* so the slot looked at is Pos(hash, hand.probes) and the entry placed    *)
(* there would have made hand.probes + 1 probes.                           *)

Fresh(k, v) == [key |-> k, value |-> v, probes |-> 0, used |-> 0,
                empty |-> Nil, emptyProbes |-> -1]

NoCall == [op |-> "none", key |-> NoKey, value |-> NoValue]

\* The call returns r; its locals are gone.
Return(r) ==
  /\ ret' = r
  /\ pc' = "idle"
  /\ call' = NoCall
  /\ hand' = Fresh(NoKey, NoValue)
  /\ retry' = FALSE
  /\ UNCHANGED it

InHelper == pc \in {"insert", "reinsert"}

\* The table _map_insert_helper was given.
Target == IF pc = "reinsert" THEN new ELSE map

At   == Pos(Hash[hand.key], hand.probes, Target.sz)
Here == Target.slots[At]

SetTarget(t) ==
  IF pc = "reinsert" THEN new' = t /\ UNCHANGED map
                     ELSE map' = t /\ UNCHANGED new

\* Table t after h is written to slot s, with num_probes p, and appended to
\* the list.
Occupy(t, h, s, p) ==
  [t EXCEPT
     !.slots = [i \in SlotsOf(t.sz) |->
       IF i = s THEN [probes |-> p, key |-> h.key, value |-> h.value,
                      prev |-> t.last, next |-> Nil]
       ELSE IF i = t.last THEN [t.slots[i] EXCEPT !.next = s]
       ELSE t.slots[i]],
     !.first = IF t.first = Nil THEN s ELSE t.first,
     !.last  = s]

\* Mutant: the displaced slot keeps its old value.
DisplaceKeyOnly(t, h, s) ==
  [t EXCEPT !.slots[s] = [@ EXCEPT !.probes = h.probes + 1, !.key = h.key]]

\* Mutant: it keeps its old key.
DisplaceValueOnly(t, h, s) ==
  [t EXCEPT !.slots[s] = [@ EXCEPT !.probes = h.probes + 1, !.value = h.value]]

\* Table t after h displaces the pair in slot s.  The slot keeps its place
\* in the list.
Displace(t, h, s) ==
  [t EXCEPT !.slots[s] = [@ EXCEPT !.probes = h.probes + 1,
                                   !.key = h.key, !.value = h.value]]

\* Table t after the entry in slot s is taken out of the list.
Relink(t, s) ==
  LET me == t.slots[s] IN
  [t EXCEPT
     !.slots = [i \in SlotsOf(t.sz) |->
       [t.slots[i] EXCEPT
          !.prev = IF t.last # s /\ i = me.next THEN me.prev ELSE @,
          !.next = IF t.first # s /\ i = me.prev THEN me.next ELSE @]],
     !.last  = IF t.last = s THEN me.prev ELSE @,
     !.first = IF t.first = s THEN me.next ELSE @]

\* Mutants: last is not updated; the slot becomes a never used one.
UnlinkKeepLast(t, s) ==
  [Relink(t, s) EXCEPT !.slots[s].probes = Removed, !.last = t.last]
UnlinkVacant(t, s) == [Relink(t, s) EXCEPT !.slots[s].probes = Vacant]

\* Mutant: a removed slot loses its links.
UnlinkClear(t, s) ==
  [Relink(t, s) EXCEPT !.slots[s].probes = Removed, !.slots[s].next = Nil]

\* Table t after the entry in slot s is removed.  The slot keeps its pair and
\* its links.
Unlink(t, s) == [Relink(t, s) EXCEPT !.slots[s].probes = Removed]

-----------------------------------------------------------------------------
(* map_init *)

Init ==
  /\ map = EmptyTable(InitSize)
  /\ new = NoTable
  /\ num_entries = 0
  /\ pc = "idle"
  /\ call = NoCall
  /\ hand = Fresh(NoKey, NoValue)
  /\ it = Nil
  /\ retry = FALSE
  /\ ret = NoValue

-----------------------------------------------------------------------------
(* Calls. *)

\* Mutant: a table that is not full is not rehashed.
BeginResizeIfFull ==
  IF num_entries > Thresh(map.sz)
    THEN new' = EmptyTable(NewSize(map.sz)) /\ it' = map.first /\ pc' = "rehash"
    ELSE pc' = "insert" /\ UNCHANGED <<new, it>>

\* The entry of _resize_table.
BeginResize ==
  /\ new' = EmptyTable(NewSize(map.sz))
  /\ it' = map.first
  /\ pc' = "rehash"

\* Mutant: the table may hold one entry more before it grows.
OverloadedLate == num_entries > Thresh(map.sz) + 1

Overloaded == num_entries > Thresh(map.sz)

Insert(k, v) ==
  /\ pc = "idle"
  /\ map.sz <= MaxSize
  /\ call' = [op |-> "insert", key |-> k, value |-> v]
  /\ hand' = Fresh(k, v)
  /\ retry' = FALSE
  /\ IF Overloaded
       THEN BeginResize
       ELSE pc' = "insert" /\ UNCHANGED <<new, it>>
  /\ UNCHANGED <<map, num_entries, ret>>

Find(op, k) ==
  /\ pc = "idle"
  /\ map.sz <= MaxSize
  /\ call' = [op |-> op, key |-> k, value |-> NoValue]
  /\ hand' = Fresh(k, NoValue)
  /\ pc' = "probe"
  /\ UNCHANGED <<map, new, num_entries, it, retry, ret>>

Lookup(k) == Find("lookup", k)
Remove(k) == Find("remove", k)

-----------------------------------------------------------------------------
(* _map_lookup_entry, and what map_lookup and map_remove do with its       *)
(* result.  The loop only uses num_probes to compute the position, so it   *)
(* is kept modulo UintMod.                                                 *)

\* Mutants: a removed slot ends the search; a removed slot is not a probe.
SearchEndsRemoved == Here.probes \in {Vacant, Removed}
NextProbeStuck == IF Here.probes = Removed THEN hand.probes
                                           ELSE (hand.probes + 1) % UintMod

SearchEnds == Here.probes = Vacant
NextProbe  == (hand.probes + 1) % UintMod

ProbeVacant ==
  /\ pc = "probe"
  /\ SearchEnds
  /\ Return(NoValue)
  /\ UNCHANGED <<map, new, num_entries>>

ProbeNext ==
  /\ pc = "probe"
  /\ ~SearchEnds
  /\ Here.probes = Removed \/ Here.key # hand.key
  /\ hand' = [hand EXCEPT !.probes = NextProbe]
  /\ UNCHANGED <<map, new, num_entries, pc, call, it, retry, ret>>

ProbeFound ==
  /\ pc = "probe"
  /\ Here.probes > 0
  /\ Here.key = hand.key
  /\ Return(Here.value)
  /\ IF call.op = "remove"
       THEN map' = Unlink(map, At) /\ num_entries' = num_entries - 1
       ELSE UNCHANGED <<map, num_entries>>
  /\ UNCHANGED new

-----------------------------------------------------------------------------
(* The returns of _map_insert_helper, into map_insert (pc = "insert") and  *)
(* into _resize_table (pc = "reinsert"), which ignores the result.         *)

\* Mutant: the iterator does not advance.
IncStuck(t, s) == s

\* The M_iter operation inc.
Inc(t, s) == t.slots[s].next

HelperReturns(inserted) ==
  IF pc = "reinsert"
    THEN /\ it' = Inc(map, it)
         /\ pc' = "rehash"
         /\ UNCHANGED <<num_entries, call, hand, retry, ret>>
    ELSE /\ num_entries' = IF inserted THEN num_entries + 1 ELSE num_entries
         /\ Return(inserted)

\* A never used slot ends the search: the pair goes to the first removed
\* slot met on the way, if any, else here.
InsertVacant ==
  /\ InHelper
  /\ Here.probes = Vacant
  /\ IF hand.empty # Nil
       THEN SetTarget(Occupy(Target, hand, hand.empty, hand.emptyProbes))
       ELSE SetTarget(Occupy(Target, hand, At, hand.probes + 1))
  /\ HelperReturns(TRUE)

InsertRemoved ==
  /\ InHelper
  /\ Here.probes = Removed
  /\ hand.used + 1 <= Target.sz \div 2
  /\ hand' = [hand EXCEPT
       !.probes = @ + 1,
       !.used = @ + 1,
       !.empty = IF @ = Nil THEN At ELSE @,
       !.emptyProbes = IF hand.empty = Nil THEN hand.probes + 1 ELSE @]
  /\ UNCHANGED <<map, new, num_entries, pc, call, it, retry, ret>>

\* Too many removed slots: map_insert resizes and starts over, once.
InsertTooMany ==
  /\ InHelper
  /\ Here.probes = Removed
  /\ hand.used + 1 > Target.sz \div 2
  /\ IF pc = "reinsert" \/ retry
       THEN pc' = "error" /\ UNCHANGED <<new, it, retry, hand>>
       ELSE /\ BeginResize
            /\ retry' = TRUE
            /\ hand' = Fresh(call.key, call.value)
  /\ UNCHANGED <<map, num_entries, call, ret>>

InsertPresent ==
  /\ InHelper
  /\ Here.probes > 0
  /\ Here.key = hand.key
  /\ HelperReturns(FALSE)
  /\ UNCHANGED <<map, new>>

\* Mutant: an entry that made as many probes is displaced too.
RobsEqual == Here.probes <= hand.probes + 1

\* An entry that made fewer probes is displaced; the search goes on for it.
Robs == Here.probes < hand.probes + 1

PickUp(e) == [key |-> e.key, value |-> e.value, probes |-> e.probes,
              used |-> hand.used, empty |-> Nil, emptyProbes |-> -1]

InsertRob ==
  /\ InHelper
  /\ Here.probes > 0
  /\ Here.key # hand.key
  /\ Robs
  /\ SetTarget(Displace(Target, hand, At))
  /\ hand' = PickUp(Here)
  /\ UNCHANGED <<num_entries, pc, call, it, retry, ret>>

InsertPass ==
  /\ InHelper
  /\ Here.probes > 0
  /\ Here.key # hand.key
  /\ ~Robs
  /\ hand' = [hand EXCEPT !.probes = @ + 1]
  /\ UNCHANGED <<map, new, num_entries, pc, call, it, retry, ret>>

-----------------------------------------------------------------------------
(* _resize_table: reinsert the entries in list order, then switch tables   *)
(* and go on with the insertion that asked for it.                         *)

ReinsertNext ==
  /\ pc = "rehash"
  /\ it # Nil
  /\ hand' = Fresh(map.slots[it].key, map.slots[it].value)
  /\ pc' = "reinsert"
  /\ UNCHANGED <<map, new, num_entries, call, it, retry, ret>>

EndResize ==
  /\ pc = "rehash"
  /\ it = Nil
  /\ map' = new
  /\ new' = NoTable
  /\ hand' = Fresh(call.key, call.value)
  /\ pc' = "insert"
  /\ UNCHANGED <<num_entries, call, it, retry, ret>>

-----------------------------------------------------------------------------
\* map_finalize and map_delete: the table is given back, and no call follows.
Finalize ==
  /\ pc = "idle"
  /\ pc' = "finalized"
  /\ UNCHANGED <<map, new, num_entries, call, hand, it, retry, ret>>

-----------------------------------------------------------------------------
InsertStep == \/ InsertVacant \/ InsertRemoved \/ InsertTooMany
              \/ InsertPresent \/ InsertRob \/ InsertPass
Internal   == \/ ProbeVacant \/ ProbeNext \/ ProbeFound
              \/ InsertStep
              \/ ReinsertNext \/ EndResize

InsertCall == \E k \in Key, v \in Value : Insert(k, v)
LookupCall == \E k \in Key : Lookup(k)
RemoveCall == \E k \in Key : Remove(k)

Next == InsertCall \/ LookupCall \/ RemoveCall \/ Finalize \/ Internal

\* A client that never removes: the children, parents, roots and marked
\* tables of memory_graph.c and the string table of intern.c.
GrowNext == Next /\ call'.op # "remove"

Spec     == Init /\ [][Next]_vars
GrowSpec == Init /\ [][GrowNext]_vars

\* A thread that is inside a call keeps running; the client need not call.
FairSpec     == Spec /\ WF_vars(Internal)
FairGrowSpec == GrowSpec /\ WF_vars(Internal)
=============================================================================
