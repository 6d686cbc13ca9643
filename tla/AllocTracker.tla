---------------------------- MODULE AllocTracker ----------------------------
(***************************************************************************)
(* The allocation tracker of alloc/alloc.c, as in a DEBUG_MEMORY build:    *)
(* every block carries a descriptor in front of it and is registered in    *)
(* the set _in_mem while it is allocated.                                  *)
(*                                                                         *)
(* The client allocates between alloc_init and alloc_finalize, and gives   *)
(* back or resizes only blocks it holds.  _in_mem is a set with removals:  *)
(* an insertion may drop another pointer, and then returns false (module   *)
(* LossySet).                                                              *)
(***************************************************************************)
EXTENDS Integers, FiniteSets

CONSTANTS
  Addr,      \* the addresses malloc can give a block
  MaxCount,  \* bound: a block is asked for with this many elements at most
  Debug,     \* TRUE in a DEBUG build, where ASSERT is compiled
  NoBlock

\* The descriptor: _AllocInfo.count, and how many elements of the block, from
\* the first, are not what malloc left there.
Info == [count : 1 .. MaxCount, clean : 0 .. MaxCount]

ASSUME TrackerAssumption ==
  /\ MaxCount \in Nat \ {0}
  /\ Debug \in BOOLEAN
  /\ NoBlock \notin Info

VARIABLES
  in_mem,      \* what _in_mem points to: nothing, a set, or a deleted set
  registered,  \* the pointers in that set
  worn,        \* pointers have been removed from it
  is_inited,   \* _is_inited
  busy,        \* _alloc_busy
  block,       \* the descriptor of every allocated block
  infos,       \* how many _AllocInfo have their strings allocated
  pc,          \* where the single thread is
  todo         \* what the loop of alloc_finalize has still to visit

vars == <<in_mem, registered, worn, is_inited, busy, block, infos, pc, todo>>

Allocated == {p \in Addr : block[p] # NoBlock}

Init ==
  /\ in_mem = "none"
  /\ registered = {}
  /\ worn = FALSE
  /\ is_inited = FALSE
  /\ busy = FALSE
  /\ block = [p \in Addr |-> NoBlock]
  /\ infos = 0
  /\ pc = "idle"
  /\ todo = {}

-----------------------------------------------------------------------------
\* __error ends the process.
Exit ==
  /\ pc' = "exit"
  /\ UNCHANGED <<in_mem, registered, worn, is_inited, busy, block, infos, todo>>

\* alloc_init.  The pointer to a deleted set is overwritten, or trips the
\* assertion that there is none.
AllocInit ==
  /\ pc = "idle"
  /\ in_mem # "set"
  /\ IF Debug /\ in_mem # "none"
       THEN Exit
       ELSE /\ in_mem' = "set"
            /\ registered' = {}
            /\ worn' = FALSE
            /\ is_inited' = TRUE
            /\ UNCHANGED <<busy, block, infos, pc, todo>>

Usable == pc = "idle" /\ in_mem = "set"

-----------------------------------------------------------------------------
(* The registry.                                                           *)

\* What set_insert may drop from the set s besides inserting: nothing, or, if
\* the table is worn, one pointer.
Drops(s, isWorn) == {{}} \union {{m} : m \in {x \in s : isWorn}}

\* Mutant: the answer of set_insert is ignored, as mgraph_insert does.
IgnoresAnswer(p, s, dropped) == FALSE

\* set_insert returns false: the pointer is there, or another was dropped.
FailsInsert(p, s, dropped) == p \in s \/ dropped # {}

\* _alloc_register, where the registry is s: __error takes a dropped pointer
\* for "it is already allocated".  While the tracker is busy it does nothing.
Register(p, s, isWorn) ==
  /\ worn' = isWorn
  /\ IF busy
       THEN registered' = s /\ UNCHANGED pc
       ELSE \E dropped \in Drops(s, isWorn) :
              /\ registered' = (s \ dropped) \union {p}
              /\ pc' = IF FailsInsert(p, s, dropped) THEN "exit" ELSE pc

\* set_remove returns false: the pointer is not there.
FailsUnregister(p) == ~busy /\ p \notin registered

Unregistered(p) == IF busy THEN registered ELSE registered \ {p}

\* _alloc_unregister
Unregister(p) ==
  IF FailsUnregister(p)
    THEN pc' = "exit" /\ UNCHANGED <<registered, worn>>
    ELSE /\ registered' = Unregistered(p)
         /\ worn' = (worn \/ ~busy)
         /\ UNCHANGED pc

\* Mutant: the new pointer is registered while the old one still is.
ReregisterFirst(p, q) == Register(q, registered, worn)

\* How __realloc registers q in the place of p.
Reregister(p, q) ==
  IF FailsUnregister(p)
    THEN pc' = "exit" /\ UNCHANGED <<registered, worn>>
    ELSE Register(q, Unregistered(p), worn \/ ~busy)

-----------------------------------------------------------------------------
(* Blocks.                                                                 *)

\* Mutant: the strings of a descriptor are not freed.
InfoKeep(n) == n

\* _alloc_info_delete
InfoDelete(n) == n - 1

\* __alloc: calloc gives an unused block, all of it cleared.
Alloc(p, n) ==
  /\ Usable
  /\ p \notin Allocated
  /\ IF n = 0
       THEN Exit
       ELSE /\ block' = [block EXCEPT ![p] = [count |-> n, clean |-> n]]
            /\ infos' = infos + 1
            /\ Register(p, registered, worn)
            /\ UNCHANGED <<in_mem, is_inited, busy, todo>>

\* __strndup: room for len characters and the terminator, all of it written by
\* strncpy, which pads a shorter string.
Strndup(p, len) == len < MaxCount /\ Alloc(p, len + 1)

\* realloc keeps what fits.
Kept(clean, n) == IF clean < n THEN clean ELSE n

\* Mutants: a block that grows by one element is not cleared; as much is
\* cleared as was asked for.
ClearedFewer(old, n) == IF n > old + 1 THEN n - old ELSE 0
ClearedMore(old, n)  == IF n > old THEN n ELSE 0

\* The elements that memset clears, from the old end of the block on.
Cleared(old, n) == IF n > old THEN n - old ELSE 0

\* __realloc: the block stays at p or moves to q.
Realloc(p, q, n) ==
  /\ Usable
  /\ p \in Allocated
  /\ q = p \/ q \notin Allocated
  /\ IF n = 0
       THEN Exit
       ELSE /\ block' = [block EXCEPT
                 ![p] = NoBlock,
                 ![q] = [count |-> n,
                         clean |-> Kept(block[p].clean, n) + Cleared(block[p].count, n)]]
            /\ infos' = InfoDelete(infos + 1)
            /\ Reregister(p, q)
            /\ UNCHANGED <<in_mem, is_inited, busy, todo>>

\* What __dealloc does: it frees the block before it asks the registry.
Release(p) ==
  /\ infos' = InfoDelete(infos)
  /\ block' = [block EXCEPT ![p] = NoBlock]
  /\ Unregister(p)

\* __dealloc
Dealloc(p) ==
  /\ Usable
  /\ p \in Allocated
  /\ Release(p)
  /\ UNCHANGED <<in_mem, is_inited, busy, todo>>

-----------------------------------------------------------------------------
(* alloc_finalize: what is still registered is reported and freed, without *)
(* being unregistered, and the set is deleted.  The loop is given every    *)
(* pointer that is registered when it begins, whether or not the busy flag *)
(* keeps __dealloc from removing the one it stands on (LoopMeetsAll in     *)
(* module PointerSet): so todo is what is registered at its beginning.     *)

Finalize ==
  /\ Usable
  /\ pc' = "finalize"
  /\ busy' = TRUE
  /\ todo' = registered
  /\ UNCHANGED <<in_mem, registered, worn, is_inited, block, infos>>

FreeLeaked(p) ==
  /\ pc = "finalize"
  /\ p \in todo
  /\ Release(p)
  /\ todo' = todo \ {p}
  /\ is_inited' = FALSE
  /\ UNCHANGED <<in_mem, busy>>

\* The M_iter operation has.
Has == todo # {}

EndFinalize ==
  /\ pc = "finalize"
  /\ ~Has
  /\ in_mem' = "deleted"
  /\ registered' = {}
  /\ busy' = FALSE
  /\ pc' = "idle"
  /\ UNCHANGED <<worn, is_inited, block, infos, todo>>

-----------------------------------------------------------------------------
Next ==
  \/ AllocInit
  \/ \E p \in Addr, n \in 0 .. MaxCount : Alloc(p, n) \/ Strndup(p, n)
  \/ \E p, q \in Addr, n \in 0 .. MaxCount : Realloc(p, q, n)
  \/ \E p \in Addr : Dealloc(p) \/ FreeLeaked(p)
  \/ Finalize
  \/ EndFinalize

Spec == Init /\ [][Next]_vars
=============================================================================
