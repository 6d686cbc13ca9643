------------------------------- MODULE Region -------------------------------
(***************************************************************************)
(* What a user of alloc/arena/arena.h relies on: an arena hands out cells  *)
(* that nobody holds, takes them back, and gives up all of them at once.   *)
(***************************************************************************)
EXTENDS Naturals

CONSTANT Cell

VARIABLES
  inited,  \* between ARENA_INIT and ARENA_FINALIZE
  held     \* how often each cell is held by the client

vars == <<inited, held>>

Nothing == [c \in Cell |-> 0]

Init == inited = FALSE /\ held = Nothing

Open == ~inited /\ inited' = TRUE /\ UNCHANGED held

Alloc(c) ==
  /\ inited
  /\ held[c] = 0
  /\ held' = [held EXCEPT ![c] = 1]
  /\ UNCHANGED inited

Dealloc(c) ==
  /\ inited
  /\ held[c] = 1
  /\ held' = [held EXCEPT ![c] = 0]
  /\ UNCHANGED inited

Close == inited /\ inited' = FALSE /\ held' = Nothing

Next == Open \/ Close \/ \E c \in Cell : Alloc(c) \/ Dealloc(c)

Spec == Init /\ [][Next]_vars
=============================================================================
