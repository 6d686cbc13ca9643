----------------------------- MODULE ArenaProps -----------------------------
(***************************************************************************)
(* What alloc/arena/arena.h promises, and the invariants of the free list. *)
(***************************************************************************)
EXTENDS Arena

FrameType == [sa : Block, called : BOOLEAN]

\* The type invariant.  A free list head or link of a freed cell is never
\* uninitialized memory (see FreeLinksOK).
TypeOK ==
  /\ inited \in BOOLEAN
  /\ blocks \subseteq Block
  /\ prev \in [Block -> Block \union {NULL}]
  /\ last \in Block \union {NULL}
  /\ inited => last \in blocks
  /\ next \in 0 .. Chunk
  /\ last_freed \in Cell \union {NULL}
  /\ prev_freed \in [Cell -> Cell \union {NULL, Junk}]
  /\ frames \in Seq(FrameType)
  /\ held \in [Cell -> Nat]

\* Cells that have been handed out at least once.
Carved == {c \in Cell : c[1] \in blocks /\ (c[1] = last => c[2] < next)}

Freed == Carved \ Live

\* No two clients hold the same cell.
NoSharedCell == \A c \in Cell : held[c] <= 1

\* The free list, link by link: it runs through freed cells only, no two
\* links lead to the same cell and none leads back to the head.  So the cell
\* after the head is still free when the head is handed out.
FreeLinksOK ==
  inited =>
    /\ last_freed \in Freed \union {NULL}
    /\ \A c \in Freed : prev_freed[c] \in Freed \union {NULL}
    /\ \A c \in Freed : prev_freed[c] = last_freed => last_freed = NULL
    /\ \A c, d \in Freed : prev_freed[c] = prev_freed[d] /\ c # d
                             => prev_freed[c] = NULL

\* The cells met from last_freed along the descriptors.
FreeList ==
  LET nth[i \in 0 .. Cardinality(Cell)] ==
        IF i = 0 THEN last_freed
        ELSE IF nth[i-1] \in Cell THEN prev_freed[nth[i-1]] ELSE NULL
  IN  {nth[i] : i \in 0 .. Cardinality(Cell)} \ {NULL}

\* No cell is lost: every cell once handed out is held or can be reached
\* from last_freed.
NoCellLost == inited => FreeList = Freed

\* The recursion of _subarena_delete meets every block once: each frame's
\* block is still allocated, and no two frames have the same block (so it
\* also ends).
NoDoubleFree ==
  /\ \A i \in 1 .. Len(frames) : frames[i].sa \in blocks
  /\ \A i, j \in 1 .. Len(frames) : frames[i].sa = frames[j].sa => i = j

\* "All freed at once": once the recursion is over no block is left.
FinalizeFreesAll == ~inited /\ frames = << >> => blocks = {}

\* Every step of the arena is a step of a region allocator.
RegionAbs == INSTANCE Region
ImplementsRegion == RegionAbs!Spec
=============================================================================
