------------------------------ MODULE ArenaInv ------------------------------
(***************************************************************************)
(* The inductive invariant of the arena, for any set of blocks and any     *)
(* number of cells in a block (the theorems are in ArenaProofs).           *)
(***************************************************************************)
EXTENDS ArenaProps

\* A cell that is held was handed out; nothing is held in a closed arena.
HeldCarved ==
  /\ Live \subseteq Carved
  /\ ~inited => Live = {}

Descending == frames # << >> /\ ~Top.called

\* The subarenas are linked from last through prev, every one of them, to
\* one without a previous subarena.
ChainOK ==
  inited \/ Descending =>
    /\ last \in blocks
    /\ \A b \in blocks : prev[b] \in blocks \union {NULL}
    /\ \E b \in blocks : prev[b] = NULL
    /\ \A S \in SUBSET blocks :
         last \in S /\ (\A b \in S : prev[b] \in S \union {NULL}) => S = blocks

\* The recursion of _subarena_delete: on the way down its frames follow
\* prev, on the way back they are the blocks still to free.
FramesOK ==
  /\ inited => frames = << >>
  /\ \A i \in 1 .. Len(frames) :
       /\ frames[i].sa \in blocks
       /\ i < Len(frames) => frames[i].called
  /\ \A i, j \in 1 .. Len(frames) : frames[i].sa = frames[j].sa => i = j
  /\ Descending =>
       /\ frames[1].sa = last
       /\ \A i \in 1 .. (Len(frames) - 1) : prev[frames[i].sa] = frames[i+1].sa
  /\ ~inited /\ ~Descending => blocks = {frames[i].sa : i \in 1 .. Len(frames)}

\* The free list leads from last_freed to every freed cell: a set of freed
\* cells that the links do not leave, and that the head is in, holds them all.
FreeConnected ==
  inited =>
    \A S \in SUBSET Freed :
      /\ last_freed \in S \union {NULL}
      /\ \A c \in S : prev_freed[c] \in S \union {NULL}
      => S = Freed

IInv ==
  /\ TypeOK
  /\ NoSharedCell /\ HeldCarved
  /\ FreeLinksOK /\ FreeConnected
  /\ ChainOK /\ FramesOK
=============================================================================
