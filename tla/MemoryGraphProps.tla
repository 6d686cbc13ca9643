-------------------------- MODULE MemoryGraphProps --------------------------
(***************************************************************************)
(* What alloc/memory_graph/memory_graph.h promises of the collector.       *)
(***************************************************************************)
EXTENDS MemoryGraph

EdgeType == [node : Cell, ref_count : 0 .. (CountMod - 1)]

NodeType == [id : Id, children : [Id -> EdgeType \union {NULL}],
             parents : [Id -> EdgeType \union {NULL}], open : BOOLEAN]

\* The type invariant.
TypeOK ==
  /\ Live \subseteq in_use
  /\ nodes \intersect lost = {}
  /\ roots \subseteq Live
  /\ in_use \subseteq Cell
  /\ node_count \in 0 .. MaxNodes
  /\ node \in [Cell -> NodeType]
  /\ edges \subseteq EdgeName
  /\ deleters \in [Id -> 0 .. 2]
  /\ pc \in {"idle", "mark", "sweep", "delete", "deleted", "exit"}
  /\ marked \subseteq Id
  /\ stack \in Seq([node : Cell, left : SUBSET Id])
  /\ todo \subseteq Live

\* S contains whatever a node of S refers to.
Closed(S) ==
  \A p \in S : \A i \in Id :
    LET edge == node[p].children[i] IN
    edge # NULL /\ edge.ref_count > 0 => edge.node \in S

\* The nodes retained by a root: those in every closed set with the roots.
Reachable ==
  {n \in Live : \A S \in SUBSET Live : roots \subseteq S /\ Closed(S) => n \in S}

\* "All node retained by this node will be retained": no collection deletes
\* a node that a chain of references connects to a root, also one that
\* mg->nodes has lost.
RetainedNotDeleted ==
  [][pc = "sweep" => \A n \in Reachable : node'[n].open]_vars

\* "Deletes any nodes which no longer have a target reference", as far as the
\* set has kept them: when a collection returns, every node left in mg->nodes
\* is retained by a root, cycles of garbage included.  A node that the set has
\* lost is not collected.
CollectsAllGarbage ==
  [][pc = "sweep" /\ pc' = "idle" => nodes \subseteq Reachable]_vars

\* The recursion of _process_node never has two calls for one node: it is no
\* deeper than the graph has nodes, whatever cycles the references form.
RecursionBounded ==
  /\ \A i, j \in DOMAIN stack : stack[i].node = stack[j].node => i = j
  /\ \A i \in DOMAIN stack : stack[i].node \in Live

\* The graph calls the Deleter of a node once at most, when it frees the
\* node's tables, and not while the client may use the node.
DeletedOnce ==
  /\ \A i \in Id : deleters[i] <= 1
  /\ \A i \in Id : deleters[i] = 1 <=>
       i < node_count /\ \A n \in Cell : node[n].open => node[n].id # i
  /\ pc \in {"idle", "mark", "sweep"} => \A n \in Live : node[n].open

\* mgraph_delete has called the Deleter of every node that mg->nodes has kept,
\* and of no other one.
DeleteCallsAllLeft ==
  [][pc = "delete" /\ pc' = "deleted" =>
       /\ \A n \in nodes : ~node[n].open
       /\ \A n \in lost : node[n].open]_vars

\* Parents and children agree: of two nodes in use, one counts as many
\* references to its child as the child counts from its parent.
EdgesMirrored ==
  \A p, c \in Live :
    /\ (Child(p, c) = NULL) = (Parent(c, p) = NULL)
    /\ Child(p, c) # NULL => Child(p, c).ref_count = Parent(c, p).ref_count

\* The keys _process_node dereferences are nodes in use: between collections,
\* a counted reference of such a node never leads to a deleted node or to a
\* new node that reuses its cell.
NoDanglingReference ==
  pc \in {"idle", "mark"} =>
    \A p \in Live : \A i \in Id :
      LET edge == node[p].children[i] IN
      edge # NULL /\ edge.ref_count > 0 =>
        edge.node \in Live /\ node[edge.node].id = i /\ node[edge.node].open

\* The nodes whose tables are there, and those that mgraph_delete is deleting.
Owners == {n \in in_use : n \in nodes \/ node[n].open}

\* The edge arena: an edge handed out is in a table of a node that was not
\* deleted (or, without eager_delete_edges, waits for mgraph_delete), and an
\* edge in such a table was never returned to the arena.
EdgesAccounted ==
  LET owned == UNION {OwnEdges(n) : n \in Owners} IN
  owned \subseteq edges /\ (EagerEdges => edges \subseteq owned)

\* mgraph_dec: "Removing reference from parent %p to %p which did not exist."
\* is fatal: a reference that was not added, or was already given back, is
\* not removed.
MissingReferenceIsFatal ==
  [][\A p, c \in Live : Dec(p, c) /\ RefCount(p, c) = 0 => pc' = "exit"]_vars

\* A collection returns, whatever cycles the references form.
CollectReturns == (pc \in {"mark", "sweep"}) ~> (pc = "idle")

-----------------------------------------------------------------------------
(* The mapping to the contract (module EntityGraph): an entity is the id of *)
(* its node.                                                               *)

Phase == CASE pc \in {"mark", "sweep"} -> "collect"
           [] pc = "delete"             -> "close"
           [] pc = "deleted"            -> "closed"
           [] pc = "exit"               -> "exit"
           [] OTHER                     -> "open"

Among(S, i) == \E n \in S : node[n].open /\ node[n].id = i

Fate(i) == CASE deleters[i] = 1 -> "deleted"
             [] deleters[i] > 1 -> "deleted again"
             [] deleters[i] = 0 /\ i >= node_count -> "new"
             [] deleters[i] = 0 /\ i < node_count ->
                  IF Among(nodes, i) THEN "held"
                  ELSE IF Among(lost, i) THEN "lost" ELSE "leaked"

Status == [i \in Id |-> Fate(i)]

\* The node of an entity that the client may use.
NodesOf(i) == {n \in Live : node[n].open /\ node[n].id = i}
NodeOf(i)  == CHOOSE n \in NodesOf(i) : TRUE

Rooted == {i \in Id : NodesOf(i) \intersect roots # {}}

Between(i, j) == IF {} \in {NodesOf(i), NodesOf(j)} THEN 0
                 ELSE RefCount(NodeOf(i), NodeOf(j))

Refs == [i \in Id |-> [j \in Id |-> Between(i, j)]]

Entities == INSTANCE EntityGraph WITH
  Entity <- Id, phase <- Phase, status <- Status, rooted <- Rooted, refs <- Refs

\* Every step of the graph is a step of its contract: in particular a
\* collection calls the Deleter of no entity that a root retains, returns when
\* every other one that the graph still holds is deleted, no Deleter is called
\* twice, and an insertion makes the graph lose at most one entity.
ImplementsEntityGraph == Entities!Spec
=============================================================================
