---------------------------- MODULE ArenaProofs ----------------------------
(***************************************************************************)
(* Theorems about the arena: IInv of ArenaInv is inductive, and with it    *)
(* every step of the arena is a step of module Region.                     *)
(***************************************************************************)
EXTENDS ArenaInv, SequenceTheorems, FiniteSetTheorems, Iteration

\* A cell is a block and an index, and neither NULL nor uninitialized memory.
LEMMA CellFacts ==
  /\ NULL \notin Cell /\ Junk \notin Cell /\ NULL # Junk /\ NULL \notin Block
  /\ Chunk \in Nat \ {0}
  /\ \A c \in Cell : c[1] \in Block /\ c[2] \in 0 .. (Chunk - 1) /\ c = <<c[1], c[2]>>
  /\ \A b \in Block, i \in 0 .. (Chunk - 1) :
       <<b, i>> \in Cell /\ <<b, i>>[1] = b /\ <<b, i>>[2] = i
BY ArenaAssumption, JunkAssumption DEF Cell

\* Before __arena_init there are no blocks and nothing is held.
LEMMA InitInv == Init => IInv
<1> SUFFICES ASSUME Init PROVE IInv
  OBVIOUS
<1> USE DEF Init
<1>1. TypeOK
  <2>1. << >> \in Seq(FrameType) /\ 0 \in 0 .. Chunk
    BY ArenaAssumption
  <2>2. held \in [Cell -> Nat] /\ prev \in [Block -> Block \union {NULL}]
    OBVIOUS
  <2>3. prev_freed \in [Cell -> Cell \union {NULL, Junk}]
    OBVIOUS
  <2> QED
    BY <2>1, <2>2, <2>3 DEF TypeOK
<1>2. Live = {}
  BY DEF Live
<1>3. NoSharedCell /\ HeldCarved /\ FreeLinksOK /\ FreeConnected
  BY <1>2 DEF NoSharedCell, HeldCarved, FreeLinksOK, FreeConnected
<1>4. ~Descending
  BY DEF Descending
<1>5. ChainOK /\ FramesOK
  BY <1>4 DEF ChainOK, FramesOK
<1> QED
  BY <1>1, <1>3, <1>5 DEF IInv

-----------------------------------------------------------------------------
(* The chain of subarenas. *)

\* A new subarena b is linked to the last one.
LEMMA ChainGrows ==
  ASSUME IInv, inited, NEW b \in Block, b \notin blocks,
         blocks' = blocks \union {b}, prev' = [prev EXCEPT ![b] = last],
         last' = b, inited' = inited
  PROVE  ChainOK'
<1>1. /\ last \in blocks
      /\ \A x \in blocks : prev[x] \in blocks \union {NULL}
      /\ \E x \in blocks : prev[x] = NULL
      /\ \A S \in SUBSET blocks :
           last \in S /\ (\A x \in S : prev[x] \in S \union {NULL}) => S = blocks
  BY DEF IInv, ChainOK
<1>2. /\ blocks \subseteq Block /\ prev'[b] = last
      /\ \A x \in blocks : prev'[x] = prev[x]
  BY DEF IInv, TypeOK
<1>3. b # NULL
  BY CellFacts
<1>4. ASSUME NEW S \in SUBSET (blocks \union {b}), b \in S,
             \A x \in S : prev'[x] \in S \union {NULL}
      PROVE  S = blocks \union {b}
  <2> DEFINE R == S \ {b}
  <2>1. R \in SUBSET blocks
    OBVIOUS
  <2>2. last \in R
    BY <1>1, <1>2, <1>4, CellFacts
  <2>3. \A x \in R : prev[x] \in R \union {NULL}
    BY <1>1, <1>2, <1>3, <1>4
  <2>4. R = blocks
    BY <1>1, <2>1, <2>2, <2>3
  <2> QED
    BY <1>4, <2>4
<1> QED
  BY <1>1, <1>2, <1>4 DEF ChainOK

\* The first subarena.
LEMMA ChainStarts ==
  ASSUME NEW b \in Block, blocks' = {b}, prev'[b] = NULL, last' = b
  PROVE  ChainOK'
BY DEF ChainOK

\* At the end of the way down, the frames hold every block.
LEMMA FramesCover ==
  ASSUME IInv, Descending, prev[Top.sa] = NULL
  PROVE  blocks = {frames[i].sa : i \in 1 .. Len(frames)}
<1> DEFINE F == {frames[i].sa : i \in 1 .. Len(frames)}
<1>1. /\ frames \in Seq(FrameType) /\ Len(frames) \in Nat /\ Len(frames) > 0
      /\ Top = frames[Len(frames)]
  BY EmptySeq DEF IInv, TypeOK, Descending, Top
<1>2. F \in SUBSET blocks
  BY DEF IInv, FramesOK
<1>3. last \in F
  <2>1. 1 \in 1 .. Len(frames)
    BY <1>1
  <2> QED
    BY <2>1 DEF IInv, FramesOK
<1>4. ASSUME NEW i \in 1 .. Len(frames)
      PROVE  prev[frames[i].sa] \in F \union {NULL}
  <2>1. CASE i = Len(frames)
    BY <1>1, <2>1
  <2>2. CASE i # Len(frames)
    <3>1. i \in 1 .. (Len(frames) - 1) /\ i + 1 \in 1 .. Len(frames)
      BY <1>1, <2>2
    <3> QED
      BY <3>1 DEF IInv, FramesOK
  <2> QED
    BY <2>1, <2>2
<1>5. \A x \in F : prev[x] \in F \union {NULL}
  BY <1>4
<1>6. \A S \in SUBSET blocks :
        last \in S /\ (\A x \in S : prev[x] \in S \union {NULL}) => S = blocks
  BY DEF IInv, ChainOK
<1> HIDE DEF F
<1>7. F = blocks
  BY <1>2, <1>3, <1>5, <1>6
<1> QED
  BY <1>7 DEF F

-----------------------------------------------------------------------------
(* The steps of the client. *)

\* The free list holds no cell that malloc gives with the new block b.
LEMMA ScrubFacts ==
  ASSUME TypeOK, NEW b \in Block
  PROVE  /\ Scrub(b) \in [Cell -> Cell \union {NULL, Junk}]
         /\ \A c \in Cell : c[1] # b => Scrub(b)[c] = prev_freed[c]
BY DEF TypeOK, Scrub

\* __arena_init: the first subarena, none of it carved.
LEMMA InitStepInv == ASSUME IInv, NEW b \in Block, ArenaInit(b) PROVE IInv'
<1>1. /\ ~inited /\ frames = << >> /\ inited' = TRUE /\ next' = 0
      /\ last_freed' = NULL /\ last' = b /\ b \notin blocks
      /\ blocks' = blocks \union {b} /\ prev' = [prev EXCEPT ![b] = NULL]
      /\ prev_freed' = Scrub(b) /\ frames' = frames /\ held' = held
  BY DEF ArenaInit, SubarenaCreate
<1>2. TypeOK /\ prev \in [Block -> Block \union {NULL}]
  BY DEF IInv, TypeOK
<1>3. blocks = {}
  BY <1>1 DEF IInv, FramesOK, Descending
<1>4. TypeOK'
  BY <1>1, <1>2, ScrubFacts, CellFacts DEF TypeOK
<1>5. Live' = {}
  BY <1>1 DEF IInv, HeldCarved, Live
<1>6. Carved' = {}
  BY <1>1, <1>3, CellFacts DEF Carved
<1>7. NoSharedCell' /\ HeldCarved' /\ FreeLinksOK' /\ FreeConnected'
  BY <1>1, <1>5, <1>6 DEF IInv, NoSharedCell, HeldCarved, FreeLinksOK, FreeConnected, Freed
<1>8. ChainOK'
  BY <1>1, <1>2, <1>3, ChainStarts
<1>9. FramesOK'
  BY <1>1 DEF FramesOK, Descending
<1> QED
  BY <1>4, <1>7, <1>8, <1>9 DEF IInv

\* Subarenas and frames are untouched.
LEMMA BlocksUnchanged ==
  ASSUME IInv, UNCHANGED <<inited, blocks, prev, last, frames>>
  PROVE  ChainOK' /\ FramesOK'
<1>1. Descending' <=> Descending
  BY DEF Descending, Top
<1> QED
  BY <1>1 DEF IInv, ChainOK, FramesOK

\* The cell at the head of the free list is free, and so is the next one.
LEMMA AllocFreedInv == IInv /\ AllocFreed => IInv' /\ RegionAbs!Alloc(last_freed)
<1> SUFFICES ASSUME IInv, AllocFreed PROVE IInv' /\ RegionAbs!Alloc(last_freed)
  OBVIOUS
<1> DEFINE h == last_freed
<1>1. /\ inited /\ frames = << >> /\ h # NULL
      /\ last_freed' = prev_freed[h] /\ held' = [held EXCEPT ![h] = @ + 1]
      /\ UNCHANGED <<inited, blocks, prev, last, next, prev_freed, frames>>
  BY DEF AllocFreed, Running, NextFree, HandOut
<1>2. /\ h \in Freed /\ prev_freed[h] \in Freed \union {NULL} /\ prev_freed[h] # h
      /\ \A c \in Freed : prev_freed[c] \in Freed \union {NULL} /\ prev_freed[c] # h
      /\ \A c, d \in Freed : prev_freed[c] = prev_freed[d] /\ c # d
                               => prev_freed[c] = NULL
  BY <1>1 DEF IInv, FreeLinksOK
<1>3. held \in [Cell -> Nat] /\ h \in Cell /\ held[h] = 0 /\ Freed \subseteq Cell
  BY <1>2 DEF IInv, TypeOK, Freed, Carved, Live
<1>4. held' = [held EXCEPT ![h] = 1]
  BY <1>1, <1>3
<1>5. Carved' = Carved
  BY <1>1 DEF Carved
<1>6. Live' = Live \union {h}
  BY <1>3, <1>4 DEF Live
<1>7. Freed' = Freed \ {h}
  BY <1>5, <1>6 DEF Freed
<1>8. TypeOK'
  BY <1>1, <1>2, <1>3, <1>4 DEF IInv, TypeOK
<1>9. NoSharedCell' /\ HeldCarved'
  BY <1>1, <1>2, <1>3, <1>4, <1>5, <1>6 DEF IInv, NoSharedCell, HeldCarved, Freed
<1>10. FreeLinksOK'
  BY <1>1, <1>2, <1>7 DEF FreeLinksOK
<1>11. ChainOK' /\ FramesOK'
  BY <1>1, BlocksUnchanged
<1>12. FreeConnected'
  <2> SUFFICES ASSUME NEW S \in SUBSET (Freed \ {h}), prev_freed[h] \in S \union {NULL},
                      \A c \in S : prev_freed[c] \in S \union {NULL}
               PROVE  S = Freed \ {h}
    BY <1>1, <1>7 DEF FreeConnected
  <2>1. S \union {h} = Freed
    <3> DEFINE R == S \union {h}
    <3>1. R \in SUBSET Freed /\ h \in R /\ \A c \in R : prev_freed[c] \in R \union {NULL}
      BY <1>2
    <3> HIDE DEF R
    <3>2. R = Freed
      BY <1>1, <3>1 DEF IInv, FreeConnected
    <3> QED
      BY <3>2 DEF R
  <2> QED
    BY <2>1
<1>13. RegionAbs!Alloc(h)
  BY <1>1, <1>3, <1>4 DEF RegionAbs!Alloc
<1> QED
  BY <1>8, <1>9, <1>10, <1>11, <1>12, <1>13 DEF IInv

\* The cell carved from the last subarena was never handed out before.
LEMMA AllocCarveInv == IInv /\ AllocCarve => IInv' /\ RegionAbs!Alloc(<<last, next>>)
<1> SUFFICES ASSUME IInv, AllocCarve PROVE IInv' /\ RegionAbs!Alloc(<<last, next>>)
  OBVIOUS
<1> DEFINE h == <<last, next>>
<1>1. /\ inited /\ frames = << >> /\ last_freed = NULL /\ next # Chunk
      /\ next' = next + 1 /\ held' = [held EXCEPT ![h] = @ + 1]
      /\ UNCHANGED <<inited, blocks, prev, last, last_freed, prev_freed, frames>>
  BY DEF AllocCarve, Running, HandOut, Full
<1>2. /\ last \in blocks /\ last \in Block /\ next \in 0 .. (Chunk - 1)
      /\ held \in [Cell -> Nat]
  BY <1>1, CellFacts DEF IInv, TypeOK
<1>3. h \in Cell /\ h[1] = last /\ h[2] = next
  BY <1>2, CellFacts
<1>4. h \notin Carved
  BY <1>2, <1>3 DEF Carved
<1>5. held[h] = 0 /\ h \notin Live
  BY <1>2, <1>3, <1>4 DEF IInv, HeldCarved, Live
<1>6. held' = [held EXCEPT ![h] = 1]
  BY <1>1, <1>2, <1>3, <1>5
<1>7. Carved' = Carved \union {h}
  <2>1. \A c \in Cell : c[1] = last => (c[2] < next + 1 <=> c[2] < next \/ c = h)
    BY <1>2, CellFacts
  <2> QED
    BY <1>1, <1>2, <1>3, <2>1 DEF Carved
<1>8. Live' = Live \union {h}
  BY <1>2, <1>3, <1>6 DEF Live
<1>9. Freed' = Freed
  BY <1>4, <1>7, <1>8 DEF Freed
<1> HIDE DEF h
<1>10. TypeOK'
  <2>1. held' \in [Cell -> Nat]
    BY <1>2, <1>6
  <2>2. next' \in 0 .. Chunk
    BY <1>1, <1>2, CellFacts
  <2> QED
    BY <1>1, <2>1, <2>2 DEF IInv, TypeOK
<1>11. NoSharedCell' /\ HeldCarved'
  BY <1>1, <1>2, <1>3, <1>6, <1>7, <1>8 DEF IInv, NoSharedCell, HeldCarved
<1>12. FreeLinksOK'
  BY <1>1, <1>9 DEF IInv, FreeLinksOK
<1>13. ChainOK' /\ FramesOK'
  BY <1>1, BlocksUnchanged
<1>14. FreeConnected'
  BY <1>1, <1>9 DEF IInv, FreeConnected
<1>15. RegionAbs!Alloc(h)
  BY <1>1, <1>5, <1>6 DEF RegionAbs!Alloc
<1> QED
  BY <1>10, <1>11, <1>12, <1>13, <1>14, <1>15 DEF IInv, h

\* The first cell of a new subarena; the full one stays full.
LEMMA AllocGrowInv ==
  ASSUME IInv, NEW b \in Block, AllocGrow(b)
  PROVE  IInv' /\ RegionAbs!Alloc(<<b, 0>>)
<1> DEFINE h == <<b, 0>>
<1>1. /\ inited /\ frames = << >> /\ last_freed = NULL /\ next = Chunk
      /\ b \notin blocks /\ blocks' = blocks \union {b}
      /\ prev' = [prev EXCEPT ![b] = last] /\ prev_freed' = Scrub(b)
      /\ last' = b /\ next' = 1 /\ held' = [held EXCEPT ![h] = @ + 1]
      /\ UNCHANGED <<inited, last_freed, frames>>
  BY DEF AllocGrow, SubarenaCreate, Running, HandOut, Full, Previous
<1>2. /\ last \in blocks /\ last \in Block /\ held \in [Cell -> Nat] /\ TypeOK
      /\ blocks \subseteq Block
  BY <1>1 DEF IInv, TypeOK
<1>3. h \in Cell /\ h[1] = b /\ h[2] = 0
  BY CellFacts
<1>4. h \notin Carved
  BY <1>1, <1>3 DEF Carved
<1>5. held[h] = 0 /\ h \notin Live
  BY <1>2, <1>3, <1>4 DEF IInv, HeldCarved, Live
<1>6. held' = [held EXCEPT ![h] = 1]
  BY <1>1, <1>2, <1>3, <1>5
<1>7. Carved' = Carved \union {h}
  <2>1. \A c \in Cell : c[2] < Chunk /\ (c[1] = b => (c[2] < 1 <=> c = h))
    BY CellFacts
  <2> QED
    BY <1>1, <1>2, <1>3, <2>1 DEF Carved
<1>8. Live' = Live \union {h}
  BY <1>2, <1>3, <1>6 DEF Live
<1>9. Freed' = Freed /\ \A c \in Freed : prev_freed'[c] = prev_freed[c]
  BY <1>1, <1>2, <1>4, <1>7, <1>8, ScrubFacts DEF Freed, Carved
<1> HIDE DEF h
<1>10. TypeOK'
  <2>1. held' \in [Cell -> Nat]
    BY <1>2, <1>6
  <2>2. next' \in 0 .. Chunk
    BY <1>1, CellFacts
  <2>3. prev' \in [Block -> Block \union {NULL}]
    BY <1>1, <1>2 DEF TypeOK
  <2>4. prev_freed' \in [Cell -> Cell \union {NULL, Junk}]
    BY <1>1, <1>2, ScrubFacts
  <2> QED
    BY <1>1, <1>2, <2>1, <2>2, <2>3, <2>4 DEF TypeOK
<1>11. NoSharedCell' /\ HeldCarved'
  BY <1>1, <1>2, <1>3, <1>6, <1>7, <1>8 DEF IInv, NoSharedCell, HeldCarved
<1>12. FreeLinksOK'
  BY <1>1, <1>9 DEF IInv, FreeLinksOK
<1>13. ChainOK'
  BY <1>1, ChainGrows
<1>14. FramesOK'
  BY <1>1 DEF FramesOK, Descending
<1>15. FreeConnected'
  BY <1>1, <1>9 DEF IInv, FreeConnected
<1>16. RegionAbs!Alloc(h)
  BY <1>1, <1>5, <1>6 DEF RegionAbs!Alloc
<1> QED
  BY <1>10, <1>11, <1>12, <1>13, <1>14, <1>15, <1>16 DEF IInv, h

\* The cell given back becomes the head of the free list.
LEMMA DeallocInv ==
  ASSUME IInv, NEW c \in Cell, Dealloc(c)
  PROVE  IInv' /\ RegionAbs!Dealloc(c)
<1>1. /\ inited /\ frames = << >> /\ held[c] > 0
      /\ prev_freed' = [prev_freed EXCEPT ![c] = last_freed] /\ last_freed' = c
      /\ held' = [held EXCEPT ![c] = @ - 1]
      /\ UNCHANGED <<inited, blocks, prev, last, next, frames>>
  BY DEF Dealloc, Running, Link
<1>2. held \in [Cell -> Nat] /\ prev_freed \in [Cell -> Cell \union {NULL, Junk}]
  BY DEF IInv, TypeOK
<1>3. held[c] = 1
  BY <1>1, <1>2 DEF IInv, NoSharedCell
<1>4. held' = [held EXCEPT ![c] = 0]
  BY <1>1, <1>2, <1>3
<1>5. Carved' = Carved /\ c \in Carved /\ c \in Live
  BY <1>1 DEF Carved, IInv, HeldCarved, Live
<1>6. Live' = Live \ {c}
  BY <1>2, <1>4 DEF Live
<1>7. Freed' = Freed \union {c} /\ c \notin Freed
  BY <1>5, <1>6 DEF Freed
<1>8. /\ last_freed \in Freed \union {NULL}
      /\ \A d \in Freed : prev_freed[d] \in Freed \union {NULL}
      /\ \A d \in Freed : prev_freed[d] = last_freed => last_freed = NULL
      /\ \A d, e \in Freed : prev_freed[d] = prev_freed[e] /\ d # e
                               => prev_freed[d] = NULL
  BY <1>1 DEF IInv, FreeLinksOK
<1>9. /\ prev_freed'[c] = last_freed
      /\ \A d \in Freed : prev_freed'[d] = prev_freed[d]
  BY <1>1, <1>2, <1>7 DEF Freed, Carved
<1>10. TypeOK'
  BY <1>1, <1>2, <1>4, <1>8 DEF IInv, TypeOK, Freed, Carved
<1>11. NoSharedCell' /\ HeldCarved'
  BY <1>1, <1>2, <1>4, <1>5, <1>6 DEF IInv, NoSharedCell, HeldCarved
<1>12. FreeLinksOK'
  BY <1>1, <1>7, <1>8, <1>9, CellFacts DEF FreeLinksOK
<1>13. ChainOK' /\ FramesOK'
  BY <1>1, BlocksUnchanged
<1>14. FreeConnected'
  <2> SUFFICES ASSUME NEW S \in SUBSET (Freed \union {c}), c \in S \union {NULL},
                      \A d \in S : prev_freed'[d] \in S \union {NULL}
               PROVE  S = Freed \union {c}
    BY <1>1, <1>7 DEF FreeConnected
  <2>1. c \in S
    BY CellFacts
  <2>2. S \ {c} = Freed
    <3> DEFINE R == S \ {c}
    <3>1. R \in SUBSET Freed /\ last_freed \in R \union {NULL}
      BY <1>7, <1>8, <1>9, <2>1
    <3>2. \A d \in R : prev_freed[d] \in R \union {NULL}
      BY <1>7, <1>8, <1>9, <3>1
    <3> HIDE DEF R
    <3>3. R = Freed
      BY <1>1, <3>1, <3>2 DEF IInv, FreeConnected
    <3> QED
      BY <3>3 DEF R
  <2> QED
    BY <2>1, <2>2
<1>15. RegionAbs!Dealloc(c)
  BY <1>1, <1>3, <1>4 DEF RegionAbs!Dealloc
<1> QED
  BY <1>10, <1>11, <1>12, <1>13, <1>14, <1>15 DEF IInv

-----------------------------------------------------------------------------
(* The steps of __arena_finalize. *)

\* A closed arena: nothing is held, the free list is given up.
LEMMA FinalizeInv ==
  IInv /\ Finalize => IInv' /\ RegionAbs!Close
<1> SUFFICES ASSUME IInv, Finalize PROVE IInv' /\ RegionAbs!Close
  OBVIOUS
<1>1. /\ inited /\ inited' = FALSE /\ held' = [c \in Cell |-> 0]
      /\ frames' = <<[sa |-> last, called |-> FALSE]>>
      /\ UNCHANGED <<blocks, prev, last, next, last_freed, prev_freed>>
  BY DEF Finalize, Running
<1>2. last \in blocks /\ last \in Block
  BY <1>1 DEF IInv, TypeOK
<1>3. /\ frames' \in Seq(FrameType) /\ Len(frames') = 1
      /\ frames'[1] = [sa |-> last, called |-> FALSE] /\ frames' # << >>
  <2>1. [sa |-> last, called |-> FALSE] \in FrameType
    BY <1>2 DEF FrameType
  <2> QED
    BY <1>1, <2>1
<1>4. TypeOK'
  <2>1. held' \in [Cell -> Nat]
    BY <1>1
  <2> QED
    BY <1>1, <1>3, <2>1 DEF IInv, TypeOK
<1>5. NoSharedCell' /\ HeldCarved' /\ FreeLinksOK' /\ FreeConnected'
  BY <1>1 DEF NoSharedCell, HeldCarved, FreeLinksOK, FreeConnected, Live
<1>6. ChainOK'
  BY <1>1 DEF IInv, ChainOK
<1>7. Descending'
  BY <1>1, <1>3 DEF Descending, Top
<1>8. FramesOK'
  BY <1>1, <1>2, <1>3, <1>7 DEF FramesOK
<1>9. RegionAbs!Close
  BY <1>1 DEF RegionAbs!Close, RegionAbs!Nothing
<1> QED
  BY <1>4, <1>5, <1>6, <1>8, <1>9 DEF IInv

\* The previous subarena is not among those already met: the frames would
\* be closed under prev without one that has no previous subarena.
LEMMA PreviousIsNew ==
  ASSUME IInv, Descending, prev[Top.sa] # NULL
  PROVE  prev[Top.sa] \in blocks \ {frames[i].sa : i \in 1 .. Len(frames)}
<1> DEFINE F == {frames[i].sa : i \in 1 .. Len(frames)}
<1>1. /\ frames \in Seq(FrameType) /\ Len(frames) \in Nat /\ Len(frames) > 0
      /\ Top = frames[Len(frames)]
  BY EmptySeq DEF IInv, TypeOK, Descending, Top
<1>2. F \in SUBSET blocks
  BY DEF IInv, FramesOK
<1>3. 1 \in 1 .. Len(frames) /\ Len(frames) \in 1 .. Len(frames)
  BY <1>1
<1>4. last \in F
  BY <1>3 DEF IInv, FramesOK
<1>5. prev[Top.sa] \in blocks
  BY <1>1, <1>2, <1>3 DEF IInv, ChainOK
<1>6. SUFFICES ASSUME prev[Top.sa] \in F PROVE FALSE
  BY <1>5
<1>7. ASSUME NEW i \in 1 .. Len(frames)
      PROVE  prev[frames[i].sa] \in F
  <2>1. CASE i = Len(frames)
    BY <1>1, <1>6, <2>1
  <2>2. CASE i # Len(frames)
    <3>1. i \in 1 .. (Len(frames) - 1) /\ i + 1 \in 1 .. Len(frames)
      BY <1>1, <2>2
    <3> QED
      BY <3>1 DEF IInv, FramesOK
  <2> QED
    BY <2>1, <2>2
<1>8. \A x \in F : prev[x] \in F
  BY <1>7
<1>9. /\ \E x \in blocks : prev[x] = NULL
      /\ \A S \in SUBSET blocks :
           last \in S /\ (\A x \in S : prev[x] \in S \union {NULL}) => S = blocks
      /\ NULL \notin blocks
  BY CellFacts DEF IInv, ChainOK, TypeOK
<1> HIDE DEF F
<1>10. F = blocks
  BY <1>2, <1>4, <1>8, <1>9
<1> QED
  BY <1>8, <1>9, <1>10

\* The recursion goes down: one more frame, with a block not met before.
LEMMA DeletePreviousInv ==
  IInv /\ DeletePrevious => IInv' /\ UNCHANGED <<inited, held>>
<1> SUFFICES ASSUME IInv, DeletePrevious PROVE IInv' /\ UNCHANGED <<inited, held>>
  OBVIOUS
<1> DEFINE n == Len(frames)
           x == prev[Top.sa]
<1>1. /\ frames # << >> /\ ~Top.called /\ x # NULL /\ Descending
      /\ frames' = Append([frames EXCEPT ![n].called = TRUE],
                          [sa |-> x, called |-> FALSE])
      /\ UNCHANGED <<inited, blocks, prev, last, next, last_freed, prev_freed, held>>
  BY DEF DeletePrevious, Recurses, HasPrevious, Descending
<1>2. /\ frames \in Seq(FrameType) /\ n \in Nat /\ n > 0 /\ Top = frames[n]
      /\ \A i \in 1 .. n : frames[i] \in FrameType
  BY <1>1, EmptySeq DEF IInv, TypeOK, Top
<1>3. ~inited
  BY <1>1 DEF IInv, FramesOK
<1>4. x \in blocks /\ x \in Block /\ \A i \in 1 .. n : frames[i].sa # x
  BY <1>1, PreviousIsNew DEF IInv, TypeOK
<1>5. /\ frames' \in Seq(FrameType) /\ Len(frames') = n + 1 /\ frames' # << >>
      /\ frames'[n + 1] = [sa |-> x, called |-> FALSE]
      /\ \A i \in 1 .. n : frames'[i].sa = frames[i].sa
      /\ \A i \in 1 .. (n - 1) : frames'[i] = frames[i]
      /\ frames'[n].called = TRUE
  <2> DEFINE g == [frames EXCEPT ![n].called = TRUE]
             e == [sa |-> x, called |-> FALSE]
  <2>1. e \in FrameType
    BY <1>4 DEF FrameType
  <2>2. /\ g \in Seq(FrameType) /\ Len(g) = n
        /\ \A i \in 1 .. n : g[i].sa = frames[i].sa
        /\ \A i \in 1 .. (n - 1) : g[i] = frames[i]
        /\ g[n].called = TRUE
    <3> DEFINE r == [frames[n] EXCEPT !.called = TRUE]
    <3>1. r \in FrameType /\ r.sa = frames[n].sa /\ r.called = TRUE
      <4>1. frames[n] \in [sa : Block, called : BOOLEAN]
        BY <1>2 DEF FrameType
      <4> QED
        BY <4>1 DEF FrameType
    <3>2. g = [frames EXCEPT ![n] = r]
      OBVIOUS
    <3>3. n \in 1 .. n /\ \A i \in 1 .. (n - 1) : i \in 1 .. n /\ i # n
      BY <1>2
    <3> HIDE DEF r, g
    <3>4. /\ g \in Seq(FrameType) /\ Len(g) = n
          /\ \A i \in 1 .. n : g[i] = IF i = n THEN r ELSE frames[i]
      BY <1>2, <3>1, <3>2, <3>3
    <3> QED
      BY <3>1, <3>3, <3>4
  <2> HIDE DEF g, e
  <2>3. /\ frames' = Append(g, e) /\ frames' \in Seq(FrameType)
        /\ Len(frames') = n + 1 /\ frames'[n + 1] = e
        /\ \A i \in 1 .. n : frames'[i] = g[i]
    <3>1. frames' = Append(g, e)
      BY <1>1 DEF g, e
    <3> QED
      BY <1>2, <2>1, <2>2, <3>1
  <2>4. n \in 1 .. n /\ \A i \in 1 .. (n - 1) : i \in 1 .. n
    BY <1>2
  <2>5. frames' # << >>
    BY <1>2, <2>3
  <2> QED
    BY <2>2, <2>3, <2>4, <2>5 DEF e
<1>6. TypeOK'
  BY <1>1, <1>5 DEF IInv, TypeOK
<1>7. NoSharedCell' /\ HeldCarved' /\ FreeLinksOK' /\ FreeConnected'
  BY <1>1, <1>3 DEF IInv, NoSharedCell, HeldCarved, FreeLinksOK, FreeConnected, Live, Carved
<1>8. ChainOK' /\ Descending'
  <2>1. Descending'
    BY <1>2, <1>5 DEF Descending, Top
  <2>2. ChainOK'
    BY <1>1, <1>3 DEF IInv, ChainOK
  <2> QED
    BY <2>1, <2>2
<1>9. FramesOK'
  <2>1. \A i \in 1 .. (n + 1) : i \in 1 .. n \/ i = n + 1
    BY <1>2
  <2>2. /\ \A i \in 1 .. n : frames[i].sa \in blocks
        /\ \A i \in 1 .. n : i < n => frames[i].called
        /\ \A i, j \in 1 .. n : frames[i].sa = frames[j].sa => i = j
        /\ frames[1].sa = last
        /\ \A i \in 1 .. (n - 1) : prev[frames[i].sa] = frames[i+1].sa
    BY <1>1 DEF IInv, FramesOK
  <2>3. \A i \in 1 .. (n + 1) : frames'[i].sa \in blocks
    BY <1>4, <1>5, <2>1, <2>2
  <2>4. \A i \in 1 .. (n + 1) : i < n + 1 => frames'[i].called
    <3>1. \A i \in 1 .. n : i \in 1 .. (n - 1) \/ i = n
      BY <1>2
    <3>2. \A i \in 1 .. (n - 1) : i \in 1 .. n /\ i < n
      BY <1>2
    <3>3. \A i \in 1 .. (n - 1) : frames'[i].called
      BY <1>5, <2>2, <3>2
    <3>4. ~(n + 1 < n + 1)
      BY <1>2
    <3> QED
      BY <1>5, <2>1, <3>1, <3>3, <3>4
  <2>5. \A i, j \in 1 .. (n + 1) : frames'[i].sa = frames'[j].sa => i = j
    BY <1>4, <1>5, <2>1, <2>2
  <2>6. frames'[1].sa = last
    BY <1>2, <1>5, <2>2
  <2>7. \A i \in 1 .. n : prev[frames'[i].sa] = frames'[i+1].sa
    <3> TAKE i \in 1 .. n
    <3>1. CASE i = n
      BY <1>2, <1>5, <3>1
    <3>2. CASE i # n
      <4>1. i \in 1 .. (n - 1) /\ i + 1 \in 1 .. n
        BY <1>2, <3>2
      <4> QED
        BY <1>5, <2>2, <4>1
    <3> QED
      BY <3>1, <3>2
  <2> HIDE DEF n, x
  <2>8. (n + 1) - 1 = n
    BY <1>2
  <2> QED
    BY <1>1, <1>3, <1>5, <1>8, <2>3, <2>4, <2>5, <2>6, <2>7, <2>8 DEF FramesOK
<1> QED
  BY <1>1, <1>6, <1>7, <1>8, <1>9 DEF IInv

\* The innermost block goes: on the way back the frames are what is left.
LEMMA FreeSubarenaInv ==
  IInv /\ FreeSubarena => IInv' /\ UNCHANGED <<inited, held>>
<1> SUFFICES ASSUME IInv, FreeSubarena PROVE IInv' /\ UNCHANGED <<inited, held>>
  OBVIOUS
<1> DEFINE n == Len(frames)
<1>1. /\ frames # << >> /\ (Top.called \/ prev[Top.sa] = NULL)
      /\ blocks' = blocks \ {Top.sa} /\ prev_freed' = Scrub(Top.sa)
      /\ frames' = SubSeq(frames, 1, n - 1)
      /\ UNCHANGED <<inited, prev, last, next, last_freed, held>>
  BY DEF FreeSubarena, Recurses, HasPrevious
<1>2. /\ frames \in Seq(FrameType) /\ n \in Nat /\ n > 0 /\ Top = frames[n]
      /\ \A i \in 1 .. n : frames[i] \in FrameType
  BY <1>1, EmptySeq DEF IInv, TypeOK, Top
<1>3. ~inited
  BY <1>1 DEF IInv, FramesOK
<1>4. blocks = {frames[i].sa : i \in 1 .. n}
  <2>1. CASE Descending
    BY <1>1, <2>1, FramesCover DEF Descending
  <2>2. CASE ~Descending
    BY <1>3, <2>2 DEF IInv, FramesOK
  <2> QED
    BY <2>1, <2>2
<1>5. /\ \A i \in 1 .. n : frames[i].sa \in blocks /\ (i < n => frames[i].called)
      /\ \A i, j \in 1 .. n : frames[i].sa = frames[j].sa => i = j
  BY DEF IInv, FramesOK
<1>6. /\ frames' \in Seq(FrameType) /\ Len(frames') = n - 1
      /\ \A i \in 1 .. (n - 1) : frames'[i] = frames[i]
  <2> DEFINE m == n - 1
  <2>1. m \in Nat /\ m <= Len(frames) /\ 1 \in 1 .. (Len(frames) + 1) /\ m \in 0 .. Len(frames)
    BY <1>2
  <2>2. frames' = SubSeq(frames, 1, m)
    BY <1>1
  <2> HIDE DEF m
  <2>3. /\ SubSeq(frames, 1, m) \in Seq(FrameType)
        /\ Len(SubSeq(frames, 1, m)) = m
        /\ \A i \in 1 .. m : SubSeq(frames, 1, m)[i] = frames[i]
    BY <1>2, <2>1
  <2> QED
    BY <2>2, <2>3 DEF m
<1>7. /\ n \in 1 .. n /\ n - 1 \in Nat
      /\ \A i \in 1 .. (n - 1) : i \in 1 .. n /\ i < n /\ i # n
      /\ \A i \in 1 .. n : i \in 1 .. (n - 1) \/ i = n
  BY <1>2
<1> HIDE DEF n
<1>8. Top.sa \in Block
  BY <1>2, <1>7 DEF FrameType
<1>9. TypeOK'
  BY <1>1, <1>3, <1>6, <1>8, ScrubFacts DEF IInv, TypeOK
<1>10. NoSharedCell' /\ HeldCarved' /\ FreeLinksOK' /\ FreeConnected'
  BY <1>1, <1>3 DEF IInv, NoSharedCell, HeldCarved, FreeLinksOK, FreeConnected, Live, Carved
<1>11. ~Descending'
  <2>1. ASSUME frames' # << >> PROVE Top'.called
    <3>1. n - 1 \in 1 .. (n - 1)
      BY <1>6, <1>7, <2>1, EmptySeq
    <3>2. Top' = frames[n - 1]
      BY <1>6, <3>1 DEF Top
    <3> QED
      BY <1>5, <1>7, <3>1, <3>2
  <2> QED
    BY <2>1 DEF Descending
<1>12. ChainOK'
  BY <1>1, <1>3, <1>11 DEF ChainOK
<1>13. blocks' = {frames'[i].sa : i \in 1 .. (n - 1)}
  BY <1>1, <1>2, <1>4, <1>5, <1>6, <1>7
<1>14. FramesOK'
  BY <1>1, <1>3, <1>5, <1>6, <1>7, <1>11, <1>13 DEF FramesOK
<1> QED
  BY <1>1, <1>9, <1>10, <1>12, <1>14 DEF IInv

-----------------------------------------------------------------------------
\* The invariant is about the variables only.
LEMMA StutterInv == IInv /\ UNCHANGED vars => IInv'
<1> SUFFICES ASSUME IInv, UNCHANGED vars PROVE IInv'
  OBVIOUS
<1>1. ChainOK' /\ FramesOK'
  BY BlocksUnchanged DEF vars
<1>2. TypeOK' /\ NoSharedCell'
  BY DEF IInv, TypeOK, NoSharedCell, vars
<1>3. Live' = Live /\ Carved' = Carved /\ Freed' = Freed
  BY DEF Live, Carved, Freed, vars
<1>4. HeldCarved' /\ FreeLinksOK' /\ FreeConnected'
  BY <1>3 DEF IInv, HeldCarved, FreeLinksOK, FreeConnected, vars
<1> QED
  BY <1>1, <1>2, <1>4 DEF IInv

\* Every step keeps the invariant, and is a step of Region or changes
\* nothing that Region has.
LEMMA NextInv ==
  IInv /\ [Next]_vars => IInv' /\ [RegionAbs!Next]_(RegionAbs!vars)
<1> SUFFICES ASSUME IInv, [Next]_vars
             PROVE  IInv' /\ [RegionAbs!Next]_(RegionAbs!vars)
  OBVIOUS
<1> USE DEF RegionAbs!vars, RegionAbs!Next
<1>1. ASSUME NEW b \in Block, ArenaInit(b) PROVE IInv' /\ RegionAbs!Open
  BY <1>1, InitStepInv DEF ArenaInit, RegionAbs!Open
<1>2. CASE AllocFreed
  <2>1. last_freed \in Cell
    BY <1>2 DEF IInv, TypeOK, AllocFreed
  <2> QED
    BY <1>2, <2>1, AllocFreedInv
<1>3. CASE AllocCarve
  <2>1. <<last, next>> \in Cell
    <3>1. last \in blocks /\ last \in Block /\ next \in 0 .. (Chunk - 1)
      BY <1>3, CellFacts DEF IInv, TypeOK, AllocCarve, Running, Full
    <3> QED
      BY <3>1, CellFacts
  <2> QED
    BY <1>3, <2>1, AllocCarveInv
<1>4. ASSUME NEW b \in Block, AllocGrow(b) PROVE IInv' /\ RegionAbs!Next
  <2>1. <<b, 0>> \in Cell
    BY CellFacts
  <2> QED
    BY <1>4, <2>1, AllocGrowInv
<1>5. ASSUME NEW c \in Cell, Dealloc(c) PROVE IInv' /\ RegionAbs!Dealloc(c)
  BY <1>5, DeallocInv
<1>6. CASE Finalize
  BY <1>6, FinalizeInv
<1>7. CASE DeletePrevious
  BY <1>7, DeletePreviousInv
<1>8. CASE FreeSubarena
  BY <1>8, FreeSubarenaInv
<1>9. CASE UNCHANGED vars
  BY <1>9, StutterInv DEF vars
<1> QED
  BY <1>1, <1>2, <1>3, <1>4, <1>5, <1>6, <1>7, <1>8, <1>9
  DEF Next, Client, Deleting

\* The inductive invariant holds of every behaviour.
THEOREM InductiveInvariant == Spec => []IInv
BY InitInv, NextInv, PTL DEF Spec

\* Types, for every set of blocks and every chunk size.
THEOREM TypeCorrect == Spec => []TypeOK
<1>1. IInv => TypeOK
  BY DEF IInv
<1> QED
  BY <1>1, InductiveInvariant, PTL

\* __arena_alloc never hands out a cell that somebody holds.
THEOREM CellsNotShared == Spec => []NoSharedCell
<1>1. IInv => NoSharedCell
  BY DEF IInv
<1> QED
  BY <1>1, InductiveInvariant, PTL

\* The free list that __arena_dealloc threads through the descriptors never
\* leads to a held or an uninitialized cell, nor twice to the same one.
THEOREM FreeListSound == Spec => []FreeLinksOK
<1>1. IInv => FreeLinksOK
  BY DEF IInv
<1> QED
  BY <1>1, InductiveInvariant, PTL

\* _subarena_delete frees no block twice, however many there are.
THEOREM BlocksFreedOnce == Spec => []NoDoubleFree
<1>1. IInv => NoDoubleFree
  BY DEF IInv, FramesOK, NoDoubleFree
<1> QED
  BY <1>1, InductiveInvariant, PTL

\* __arena_finalize leaves no block behind.
THEOREM FinalizeLeavesNothing == Spec => []FinalizeFreesAll
<1>1. IInv => FinalizeFreesAll
  BY DEF IInv, FramesOK, FinalizeFreesAll, Descending
<1> QED
  BY <1>1, InductiveInvariant, PTL

\* The arena implements the region allocator: the free list, the carving of
\* blocks and the recursion are invisible to its clients.
THEOREM ArenaIsRegion == Spec => ImplementsRegion
<1>1. Init => RegionAbs!Init
  BY DEF Init, RegionAbs!Init, RegionAbs!Nothing
<1> QED
  BY <1>1, InductiveInvariant, NextInv, PTL
  DEF Spec, ImplementsRegion, RegionAbs!Spec
-----------------------------------------------------------------------------
(* The free list, followed from last_freed.                                *)

\* The i-th cell of the list, as FreeList follows it.
NthFreed ==
  LET nth[i \in 0 .. Cardinality(Cell)] ==
        IF i = 0 THEN last_freed
        ELSE IF nth[i-1] \in Cell THEN prev_freed[nth[i-1]] ELSE NULL
  IN  nth

\* The recursion of FreeList is well defined, and stays on freed cells.
LEMMA NthFreedFacts ==
  ASSUME IInv, inited
  PROVE  LET n == Cardinality(Cell) IN
         /\ IsFiniteSet(Cell) /\ n \in Nat
         /\ NthFreed \in [0 .. n -> Freed \union {NULL}]
         /\ NthFreed[0] = last_freed
         /\ \A i \in 1 .. n : NthFreed[i - 1] # NULL
                                => NthFreed[i] = prev_freed[NthFreed[i - 1]]
<1> DEFINE n == Cardinality(Cell)
           V == Freed \union {NULL}
           link(c) == IF c \in Cell THEN prev_freed[c] ELSE NULL
           s == [c \in V |-> link(c)]
<1>1. IsFiniteSet(Cell) /\ n \in Nat
  <2>1. IsFiniteSet(0 .. (Chunk - 1)) /\ IsFiniteSet(Block)
    BY ArenaAssumption, FS_Interval
  <2>2. IsFiniteSet(Cell)
    BY <2>1, FS_Product DEF Cell
  <2> QED
    BY <2>2, FS_CardinalityType
<1> HIDE DEF n
<1>2. last_freed \in V /\ (\A c \in V : link(c) \in V) /\ NULL \notin Cell /\ Freed \subseteq Cell
  BY CellFacts DEF IInv, FreeLinksOK, Freed, Carved
<1>3. s \in [V -> V]
  BY <1>2
<1>4. PICK g \in [0 .. n -> V] : Iterates(g, last_freed, s, n)
  BY <1>1, <1>2, <1>3, IterationExists
<1>5. \A i \in 0 .. n : i # 0 => i \in 1 .. n /\ i - 1 \in 0 .. n
  BY <1>1
<1> DEFINE body(f) == [i \in 0 .. n |-> IF i = 0 THEN last_freed
                         ELSE IF f[i-1] \in Cell THEN prev_freed[f[i-1]] ELSE NULL]
<1>6. g = body(g)
  <2>1. \A i \in 0 .. n : g[i] = IF i = 0 THEN last_freed
                         ELSE IF g[i-1] \in Cell THEN prev_freed[g[i-1]] ELSE NULL
    BY <1>4, <1>5 DEF Iterates
  <2> QED
    BY <1>4, <2>1
<1>7. NthFreed = CHOOSE f : f = body(f)
  BY DEF NthFreed, n
<1> DEFINE f == NthFreed
<1>8. f = body(f)
  <2> HIDE DEF body
  <2> QED
    BY <1>6, <1>7
<1> HIDE DEF f
<1>9. DOMAIN f = 0 .. n /\ f[0] = last_freed /\ \A i \in 1 .. n : f[i] = link(f[i-1])
  <2> DEFINE e(i) == IF i = 0 THEN last_freed
                     ELSE IF f[i-1] \in Cell THEN prev_freed[f[i-1]] ELSE NULL
  <2>1. f = [i \in 0 .. n |-> e(i)]
    BY <1>8
  <2>2. DOMAIN f = 0 .. n /\ \A i \in 0 .. n : f[i] = e(i)
    <3> HIDE DEF e
    <3> QED
      BY <2>1
  <2>3. 0 \in 0 .. n /\ \A i \in 1 .. n : i \in 0 .. n /\ i # 0
    BY <1>1
  <2> QED
    BY <2>2, <2>3
<1> HIDE DEF body
<1>10. \A i \in 0 .. n : f[i] \in V
  <2> HIDE DEF V, link
  <2>1. \A i \in 1 .. n : f[i-1] \in V => f[i] \in V
    BY <1>2, <1>9
  <2> QED
    BY <1>1, <1>2, <1>9, <2>1, StaysIn
<1>11. f \in [0 .. n -> V]
  <2>1. f = [i \in 0 .. n |-> f[i]]
    BY <1>8, <1>9 DEF body
  <2> QED
    BY <1>10, <2>1
<1>12. \A i \in 1 .. n : f[i-1] # NULL => f[i] = prev_freed[f[i-1]]
  <2>1. \A i \in 1 .. n : i - 1 \in 0 .. n
    BY <1>1
  <2> QED
    BY <1>2, <1>9, <1>10, <2>1
<1> QED
  BY <1>1, <1>9, <1>11, <1>12 DEF f, n

\* A part of the list that the links do not leave is all of it.
LEMMA FreeListIsFreed ==
  ASSUME IInv, inited
  PROVE  FreeList = Freed
<1> DEFINE n == Cardinality(Cell)
           f == NthFreed
<1>1. /\ IsFiniteSet(Cell) /\ n \in Nat
      /\ f \in [0 .. n -> Freed \union {NULL}] /\ f[0] = last_freed
      /\ \A i \in 1 .. n : f[i - 1] # NULL => f[i] = prev_freed[f[i - 1]]
  BY NthFreedFacts
<1>2. FreeList = {f[i] : i \in 0 .. n} \ {NULL}
  BY DEF FreeList, NthFreed
<1>3. NULL \notin Freed /\ Freed \subseteq Cell
  BY CellFacts DEF Freed, Carved
<1> HIDE DEF f, n
\* The first m cells, when the link of the last one leads back to them.
<1>4. ASSUME NEW m \in 0 .. n, f[m] \in {f[i] : i \in 0 .. (m - 1)} \union {NULL}
      PROVE  Freed \subseteq {f[i] : i \in 0 .. (m - 1)}
  <2> DEFINE R == {f[i] : i \in 0 .. (m - 1)} \ {NULL}
  <2>1. R \in SUBSET Freed
    BY <1>1
  <2>2. last_freed \in R \union {NULL}
    <3>1. CASE m = 0
      BY <1>1, <1>4, <3>1
    <3>2. CASE m # 0
      <4>1. 0 \in 0 .. (m - 1)
        BY <1>1, <3>2
      <4> QED
        BY <1>1, <4>1
    <3> QED
      BY <3>1, <3>2
  <2>3. ASSUME NEW i \in 0 .. (m - 1), f[i] # NULL
        PROVE  prev_freed[f[i]] \in R \union {NULL}
    <3>1. i + 1 \in 1 .. n /\ (i + 1) - 1 = i
      BY <1>1
    <3>2. f[i + 1] = prev_freed[f[i]]
      BY <1>1, <2>3, <3>1
    <3>3. i + 1 = m \/ i + 1 \in 0 .. (m - 1)
      BY <1>1
    <3> QED
      BY <1>4, <3>2, <3>3
  <2>4. \A c \in R : prev_freed[c] \in R \union {NULL}
    BY <2>3
  <2> HIDE DEF R
  <2>5. R = Freed
    BY <2>1, <2>2, <2>4 DEF IInv, FreeConnected
  <2> QED
    BY <2>5 DEF R
\* There are more numbers than cells: the list ends or meets a cell again.
<1>5. \E m \in 0 .. n : f[m] \in {f[i] : i \in 0 .. (m - 1)} \union {NULL}
  <2> SUFFICES ASSUME \A m \in 0 .. n : f[m] \notin {f[i] : i \in 0 .. (m - 1)} \union {NULL}
               PROVE  FALSE
    OBVIOUS
  <2>1. f \in [0 .. n -> Cell]
    BY <1>1, <1>3
  <2>2. IsFiniteSet(0 .. n) /\ Cardinality(0 .. n) = n + 1
    BY <1>1, FS_Interval
  <2>3. PICK i, j \in 0 .. n : i # j /\ f[i] = f[j]
    <3>1. Cardinality(Cell) < Cardinality(0 .. n)
      BY <1>1, <2>2 DEF n
    <3> QED
      BY <1>1, <2>1, <2>2, <3>1, FS_PigeonHole
  <2>4. i \in 0 .. (j - 1) \/ j \in 0 .. (i - 1)
    BY <1>1, <2>3
  <2> QED
    BY <2>3, <2>4
<1>6. PICK m \in 0 .. n : f[m] \in {f[i] : i \in 0 .. (m - 1)} \union {NULL}
  BY <1>5
<1>7. \A i \in 0 .. (m - 1) : i \in 0 .. n
  BY <1>1
<1>8. Freed \subseteq {f[i] : i \in 0 .. n}
  BY <1>4, <1>6, <1>7
<1>9. {f[i] : i \in 0 .. n} \ {NULL} \subseteq Freed
  BY <1>1
<1> QED
  BY <1>2, <1>3, <1>8, <1>9

\* No cell that was handed out is lost: it is held, or the free list leads to
\* it, so it is handed out again.
THEOREM CellsNotLost == Spec => []NoCellLost
<1>1. IInv => NoCellLost
  BY FreeListIsFreed DEF NoCellLost
<1> QED
  BY <1>1, InductiveInvariant, PTL
=============================================================================
