--------------------------- MODULE MemoryGraphInv ---------------------------
(***************************************************************************)
(* The inductive invariant of the memory graph, for any cells, any numbers *)
(* of nodes and references and every configuration (the theorems are in    *)
(* MemoryGraphProofs).                                                     *)
(***************************************************************************)
EXTENDS MemoryGraphProps

Counted(edge) == edge # NULL /\ edge.ref_count > 0

-----------------------------------------------------------------------------
(* The graph.                                                              *)

\* The nodes whose tables are there.  Their Deleter was not called yet.
Open == {n \in Cell : node[n].open}

\* Ids tell the nodes apart, and are not given out again.
IdsOK ==
  /\ \A n \in Owners : node[n].id < node_count
  /\ \A n, m \in Owners : node[n].id = node[m].id => n = m

\* No edge is stored under an id that was not given out, and one stored under
\* the id of a node of the graph leads to it, counted or not.
EdgesNamed ==
  /\ \A p \in Live : \A i \in Id : i >= node_count =>
       node[p].children[i] = NULL /\ node[p].parents[i] = NULL
  /\ \A p, c \in Live : Child(p, c) # NULL => Child(p, c).node = c

\* The nodes that the collection in progress keeps.
Kept == {n \in Live : pc = "sweep" => node[n].id \in marked}

\* What a node that is kept refers to is in the graph.
ReferencesOK ==
  \A p \in Kept : \A i \in Id :
    Counted(node[p].children[i]) =>
      node[p].children[i].node \in Live /\ node[node[p].children[i].node].id = i

\* The nodes of mg->nodes whose Deleter is still to be called, before and in
\* the call of mgraph_delete.
Uncalled == IF pc = "delete" THEN todo ELSE nodes

\* The nodes that the contract has as entities.
Alive == Live \intersect Open

\* A node that was leaked is open and not live.
OpenOK ==
  /\ pc # "deleted" => Open \subseteq in_use
  /\ pc = "deleted" => Live = {}
  /\ lost \subseteq Open
  /\ nodes \intersect Open = Uncalled

DeletersOK ==
  \A i \in Id :
    deleters[i] = IF i < node_count /\ \A n \in Open : node[n].id # i
                    THEN 1 ELSE 0

GraphInv == /\ IdsOK
            /\ EdgesNamed
            /\ ReferencesOK
            /\ OpenOK
            /\ DeletersOK
            /\ EdgesMirrored
            /\ EdgesAccounted

-----------------------------------------------------------------------------
(* The collection in progress.                                             *)

\* The frames of _process_node stand on nodes that are marked, and loop over
\* edges that there are.
FramesOK ==
  /\ pc # "mark" => stack = << >>
  /\ \A k \in DOMAIN stack :
       /\ stack[k].node \in Live
       /\ node[stack[k].node].id \in marked
       /\ \A i \in stack[k].left : node[stack[k].node].children[i] # NULL

\* Every root passed is marked.
RootsMarked ==
  pc \in {"mark", "sweep"} =>
    \A r \in roots : node[r].id \in marked \/ (pc = "mark" /\ r \in todo)

\* What marking has missed is still to come: a marked node whose call has
\* returned refers to marked nodes only, one whose call has not may refer to
\* others that its loop has not reached yet.  So at the sweep the marked
\* nodes are closed.
MarkedClosed ==
  pc \in {"mark", "sweep"} =>
    \A n \in Live : \A i \in Id :
      node[n].id \in marked /\ Counted(node[n].children[i]) =>
        \/ i \in marked
        \/ \E k \in DOMAIN stack : stack[k].node = n /\ i \in stack[k].left

\* Nothing else is marked.
MarkedReachable ==
  pc \in {"mark", "sweep"} =>
    \A n \in Live : node[n].id \in marked => n \in Reachable

\* The sweep has left marked nodes behind.
SweptMarked ==
  pc = "sweep" => \A n \in nodes \ todo : node[n].id \in marked

\* The loops over mg->nodes visit nothing else.
TodoOK ==
  /\ pc = "mark" => todo \subseteq roots
  /\ pc \in {"sweep", "delete"} => todo \subseteq nodes

MarkInv == /\ TodoOK
           /\ FramesOK
           /\ RecursionBounded
           /\ RootsMarked
           /\ MarkedClosed
           /\ MarkedReachable
           /\ SweptMarked

-----------------------------------------------------------------------------
\* A client that gives back only what it took is never stopped.
NeverStopped == pc # "exit"

IInv == TypeOK /\ NeverStopped /\ GraphInv /\ MarkInv
=============================================================================
