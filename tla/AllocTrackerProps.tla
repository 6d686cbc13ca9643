-------------------------- MODULE AllocTrackerProps --------------------------
(***************************************************************************)
(* What alloc/alloc.h promises, and what makes the tracker's reports true. *)
(***************************************************************************)
EXTENDS AllocTracker

\* The type invariant: also, memset clears nothing beyond a block.
TypeOK ==
  /\ in_mem \in {"none", "set", "deleted"}
  /\ registered \subseteq Addr
  /\ worn \in BOOLEAN
  /\ is_inited \in BOOLEAN
  /\ busy \in BOOLEAN
  /\ block \in [Addr -> Info \union {NoBlock}]
  /\ infos \in Int
  /\ pc \in {"idle", "finalize", "exit"}
  /\ todo \subseteq Addr

\* Between calls exactly the allocated blocks are registered, whatever
\* addresses malloc and realloc reuse and although set_insert may drop a
\* pointer, since the process ends when it does: so what alloc_finalize
\* reports as leaked is leaked, and nothing else is.
RegistryExact ==
  /\ Usable => registered = Allocated /\ ~busy
  /\ pc = "finalize" => todo = Allocated

\* A client that asks for at least one element, and gives back or resizes
\* only what it holds, is stopped only when set_insert has dropped a block of
\* its own, which is no fault of the client ("it is already allocated"): never
\* by reuse of an address, by realloc in place or by "it is not allocated".
AlarmOnlyWhenLost ==
  [][\A p, q \in Addr, n \in 1 .. MaxCount :
       /\ (Alloc(p, n) \/ Realloc(p, q, n)) /\ pc' = "exit"
            => Allocated' \ registered' # {}
       /\ Dealloc(p) => pc' # "exit"]_vars

\* The tracker does not leak: the strings of a descriptor live as long as
\* its block, also when the block is resized.
InfosMatchBlocks == infos = Cardinality(Allocated)

\* "frees any unfreed memory": nothing is left after alloc_finalize, although
\* it frees only what is registered and the set may drop pointers.
FinalizeFreesUnfreed == pc = "idle" /\ in_mem # "set" => Allocated = {}

\* "This function always clears memory": no client sees what malloc or
\* realloc left in a block, whatever sizes it went through.
MemoryCleared == \A p \in Allocated : block[p].clean = block[p].count

\* alloc_ready: "If alloc was inited. If false, it can be initted by
\* alloc_init()."  It tells whether there is a set to register in.
ReadyTellsTruth == pc = "idle" => (is_inited <=> in_mem = "set")
=============================================================================
