------------------------------- MODULE Arena -------------------------------
(***************************************************************************)
(* The region allocator of alloc/arena/arena.c: cells are carved from      *)
(* blocks ("subarenas") of Chunk cells, a cell that is deallocated is      *)
(* linked through its own descriptor into a free list, and all blocks are  *)
(* released together.                                                      *)
(*                                                                         *)
(* A cell is a block and an index in it.  The contents of a cell beyond    *)
(* its descriptor belong to the client and are left out.                   *)
(***************************************************************************)
EXTENDS Naturals, Sequences, FiniteSets

CONSTANTS
  Block,  \* the addresses malloc can give a block
  Chunk,  \* DEFAULT_ELTS_IN_CHUNK
  NULL,
  Junk    \* what memory fresh from malloc holds

ASSUME ArenaAssumption ==
  /\ IsFiniteSet(Block)
  /\ Chunk \in Nat \ {0}
  /\ NULL \notin Block
  /\ Junk # NULL

Cell == Block \X (0 .. (Chunk - 1))

ASSUME JunkAssumption == {NULL, Junk} \intersect Cell = {}

VARIABLES
  inited,      \* between __arena_init and __arena_finalize
  blocks,      \* blocks malloc gave and that are not freed
  prev,        \* sa->prev of every block
  last,        \* arena->last
  next,        \* arena->next, as an index in last; arena->end is Chunk
  last_freed,  \* arena->last_freed
  prev_freed,  \* the descriptor of every cell
  frames,      \* the recursion of _subarena_delete, innermost frame last
  held         \* how often the client holds each cell

vars == <<inited, blocks, prev, last, next, last_freed, prev_freed, frames, held>>

Init ==
  /\ inited = FALSE
  /\ blocks = {}
  /\ prev = [b \in Block |-> NULL]
  /\ last = NULL
  /\ next = 0
  /\ last_freed = NULL
  /\ prev_freed = [c \in Cell |-> Junk]
  /\ frames = << >>
  /\ held = [c \in Cell |-> 0]

Live == {c \in Cell : held[c] > 0}

-----------------------------------------------------------------------------
\* The memory of a block outside the time between malloc and free.
Scrub(b) == [c \in Cell |-> IF c[1] = b THEN Junk ELSE prev_freed[c]]

\* _subarena_create: malloc gives an unused block of uninitialized cells.
SubarenaCreate(b, before) ==
  /\ b \notin blocks
  /\ blocks' = blocks \union {b}
  /\ prev' = [prev EXCEPT ![b] = before]
  /\ prev_freed' = Scrub(b)
  /\ last' = b

Running == inited /\ frames = << >>

\* __arena_init
ArenaInit(b) ==
  /\ ~inited
  /\ frames = << >>
  /\ SubarenaCreate(b, NULL)
  /\ inited' = TRUE
  /\ next' = 0
  /\ last_freed' = NULL
  /\ UNCHANGED <<frames, held>>

\* Mutant: new_sa->prev is set after arena->last.
PreviousItself(b) == b

\* The subarena that the new one, b, is linked to.
Previous(b) == last

HandOut(c) == held' = [held EXCEPT ![c] = @ + 1]

\* Mutant: the free list does not move on.
NextFreeSame(c) == c

NextFree(c) == prev_freed[c]

\* __arena_alloc: freed space is used up first.
AllocFreed ==
  /\ Running
  /\ last_freed # NULL
  /\ last_freed' = NextFree(last_freed)
  /\ HandOut(last_freed)
  /\ UNCHANGED <<inited, blocks, prev, last, next, prev_freed, frames>>

\* Mutant: one cell too many is used.
FullLate == next = Chunk + 1

Full == next = Chunk

AllocCarve ==
  /\ Running
  /\ last_freed = NULL
  /\ ~Full
  /\ next' = next + 1
  /\ HandOut(<<last, next>>)
  /\ UNCHANGED <<inited, blocks, prev, last, last_freed, prev_freed, frames>>

\* A full subarena: the cell comes from a new one.
AllocGrow(b) ==
  /\ Running
  /\ last_freed = NULL
  /\ Full
  /\ SubarenaCreate(b, Previous(b))
  /\ next' = 1
  /\ HandOut(<<b, 0>>)
  /\ UNCHANGED <<inited, last_freed, frames>>

\* Mutant: the cell is not linked to the ones freed before it.
LinkNothing == NULL

Link == last_freed

\* __arena_dealloc.  The client returns a cell it holds.
Dealloc(c) ==
  /\ Running
  /\ held[c] > 0
  /\ prev_freed' = [prev_freed EXCEPT ![c] = Link]
  /\ last_freed' = c
  /\ held' = [held EXCEPT ![c] = @ - 1]
  /\ UNCHANGED <<inited, blocks, prev, last, next, frames>>

-----------------------------------------------------------------------------
(* __arena_finalize: _subarena_delete calls itself on sa->prev before it   *)
(* frees sa.  From here on the client's pointers are dead.                 *)

Top == frames[Len(frames)]

Finalize ==
  /\ Running
  /\ frames' = <<[sa |-> last, called |-> FALSE]>>
  /\ inited' = FALSE
  /\ held' = [c \in Cell |-> 0]
  /\ UNCHANGED <<blocks, prev, last, next, last_freed, prev_freed>>

\* Mutant: the recursion stops one subarena early.
HasPrevious == prev[Top.sa] # NULL
HasTwoPrevious == HasPrevious /\ prev[prev[Top.sa]] # NULL

Recurses == HasPrevious

DeletePrevious ==
  /\ frames # << >>
  /\ ~Top.called
  /\ Recurses
  /\ frames' = Append([frames EXCEPT ![Len(frames)].called = TRUE],
                      [sa |-> prev[Top.sa], called |-> FALSE])
  /\ UNCHANGED <<inited, blocks, prev, last, next, last_freed, prev_freed, held>>

FreeSubarena ==
  /\ frames # << >>
  /\ Top.called \/ ~Recurses
  /\ blocks' = blocks \ {Top.sa}
  /\ prev_freed' = Scrub(Top.sa)
  /\ frames' = SubSeq(frames, 1, Len(frames) - 1)
  /\ UNCHANGED <<inited, prev, last, next, last_freed, held>>

-----------------------------------------------------------------------------
Client   == \/ \E b \in Block : ArenaInit(b)
            \/ AllocFreed
            \/ AllocCarve
            \/ \E b \in Block : AllocGrow(b)
            \/ \E c \in Cell : Dealloc(c)
            \/ Finalize
Deleting == DeletePrevious \/ FreeSubarena

Next == Client \/ Deleting

Spec == Init /\ [][Next]_vars
=============================================================================
