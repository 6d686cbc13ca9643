---------------------------- MODULE MemoryGraph ----------------------------
(***************************************************************************)
(* The garbage-collected graph of alloc/memory_graph/memory_graph.c.       *)
(*                                                                         *)
(* A Node is a cell of the node arena, which hands out any cell not in use *)
(* (module Region).  The tables children and parents are functions on node *)
(* ids (the hash of their keys), with NULL where there is no entry, and    *)
(* roots and marked are sets: nothing is removed from these, so they keep  *)
(* the contract of struct/map.h (module AbstractMap).  mg->nodes is a set  *)
(* with removals: an insertion may drop another node (module LossySet).    *)
(* An _Edge is named by the ids of the two nodes and the table that points *)
(* to it.                                                                  *)
(***************************************************************************)
EXTENDS Naturals, Sequences, FiniteSets

CONSTANTS
  Cell,         \* cells of the node arena
  MaxNodes,     \* bound: mgraph_insert is called this often at most
  MaxRefs,      \* bound: mgraph_inc does not raise a ref_count above this
  MaxEdges,     \* bound: mgraph_inc adds no edge to this many pairs of _Edges
  CountMod,     \* ref_count is a uint32_t: 2^32 in the code
  EagerEdges,   \* config.eager_delete_edges
  EagerNodes,   \* config.eager_delete_nodes
  NULL

Id == 0 .. (MaxNodes - 1)

ASSUME GraphAssumption ==
  /\ MaxNodes \in Nat \ {0}
  /\ CountMod \in Nat /\ CountMod > 1
  /\ MaxRefs \in Nat /\ MaxRefs < CountMod
  /\ MaxEdges \in Nat
  /\ EagerEdges \in BOOLEAN
  /\ EagerNodes \in BOOLEAN
  /\ NULL \notin [node : Cell, ref_count : 0 .. (CountMod - 1)]

VARIABLES
  nodes,       \* mg->nodes
  lost,        \* history: nodes mg->nodes has dropped, still the client's to use
  roots,       \* mg->roots
  node_count,  \* mg->node_count
  in_use,      \* cells handed out by the node arena
  node,        \* the Node in each cell; open while its tables are allocated
  edges,       \* _Edges handed out by the edge arena
  deleters,    \* how often the Deleter of each node was called: 0, 1, or 2 for more
  pc,          \* where the single thread is
  marked,      \* ids in the set marked
  stack,       \* the recursion of _process_node, innermost frame last
  todo         \* what the loop over roots or nodes has still to visit

vars == <<nodes, lost, roots, node_count, in_use, node, edges, deleters,
          pc, marked, stack, todo>>

\* The nodes the client may use, until a collection does not retain them.
Live == nodes \union lost

NoEdges == [i \in Id |-> NULL]

EdgeName == Id \X Id \X {"child", "parent"}

\* mgraph_create
Init ==
  /\ nodes = {}
  /\ lost = {}
  /\ roots = {}
  /\ node_count = 0
  /\ in_use = {}
  /\ node = [n \in Cell |-> [id |-> 0, children |-> NoEdges,
                             parents |-> NoEdges, open |-> FALSE]]
  /\ edges = {}
  /\ deleters = [i \in Id |-> 0]
  /\ pc = "idle"
  /\ marked = {}
  /\ stack = << >>
  /\ todo = {}

-----------------------------------------------------------------------------
(* Building the graph.                                                     *)

\* Removals have left their marks in the table of mg->nodes.
Worn == \E i \in Id : deleters[i] > 0

\* What set_insert may drop from mg->nodes besides inserting: nothing, or one
\* node of a worn table.  mgraph_insert ignores that it then returns false.
Drops == {{}} \union {{m} : m \in {n \in nodes : Worn}}

\* mgraph_insert, with _node_create.
Insert(n) ==
  /\ pc = "idle"
  /\ node_count < MaxNodes
  /\ n \notin in_use
  /\ in_use' = in_use \union {n}
  /\ node' = [node EXCEPT ![n] = [id |-> node_count, children |-> NoEdges,
                                  parents |-> NoEdges, open |-> TRUE]]
  /\ node_count' = node_count + 1
  /\ \E dropped \in Drops :
       /\ nodes' = (nodes \ dropped) \union {n}
       /\ lost' = lost \union dropped
  /\ UNCHANGED <<roots, edges, deleters, pc, marked, stack, todo>>

\* mgraph_root
Root(n) ==
  /\ pc = "idle"
  /\ n \in Live
  /\ roots' = roots \union {n}
  /\ UNCHANGED <<nodes, lost, node_count, in_use, node, edges, deleters,
                 pc, marked, stack, todo>>

\* The edge to n after one more reference: _edge_create if there was none.
Increased(edge, n) ==
  IF edge = NULL THEN [node |-> n, ref_count |-> 1]
  ELSE [edge EXCEPT !.ref_count = (@ + 1) % CountMod]

Decreased(edge) == [edge EXCEPT !.ref_count = (@ + CountMod - 1) % CountMod]

Child(p, c)  == node[p].children[node[c].id]
Parent(c, p) == node[c].parents[node[p].id]

\* The number of references a client can give back.
RefCount(p, c) == IF Child(p, c) = NULL THEN 0 ELSE Child(p, c).ref_count

\* Mutant: the child does not learn of its new parent.
IncOneWay(p, c) ==
  node' = [node EXCEPT ![p].children[node[c].id] = Increased(@, c)]

IncBothWays(p, c) ==
  node' = [node EXCEPT ![p].children[node[c].id] = Increased(@, c),
                       ![c].parents[node[p].id]  = Increased(@, p)]

\* mgraph_inc
Inc(p, c) ==
  /\ pc = "idle"
  /\ {p, c} \subseteq Live
  /\ RefCount(p, c) < MaxRefs
  /\ Child(p, c) # NULL \/ Cardinality(edges) < 2 * MaxEdges
  /\ IncBothWays(p, c)
  /\ edges' = edges \union {<<node[p].id, node[c].id, "child">>,
                            <<node[c].id, node[p].id, "parent">>}
  /\ UNCHANGED <<nodes, lost, roots, node_count, in_use, deleters,
                 pc, marked, stack, todo>>

\* mgraph_dec.  ERROR ends the process.
Dec(p, c) ==
  /\ pc = "idle"
  /\ {p, c} \subseteq Live
  /\ IF NULL \in {Child(p, c), Parent(c, p)}
       THEN pc' = "exit" /\ UNCHANGED node
       ELSE /\ node' = [node EXCEPT
                 ![p].children[node[c].id] = Decreased(@),
                 ![c].parents[node[p].id]  = Decreased(@)]
            /\ UNCHANGED pc
  /\ UNCHANGED <<nodes, lost, roots, node_count, in_use, edges, deleters,
                 marked, stack, todo>>

-----------------------------------------------------------------------------
(* mgraph_collect_garbage: mark.                                           *)

\* Mutant: the iterator of a loop does not advance.
RestStuck(S, x) == S

\* What the M_iter of a loop over S has still to visit after x.
Rest(S, x) == S \ {x}

CollectGarbage ==
  /\ pc = "idle"
  /\ pc' = "mark"
  /\ marked' = {}
  /\ stack' = << >>
  /\ todo' = roots
  /\ UNCHANGED <<nodes, lost, roots, node_count, in_use, node, edges,
                 deleters>>

\* Mutant: a node that is marked already is processed again.
ProcessAlways(n, st) ==
  /\ marked' = marked \union {node[n].id}
  /\ stack' = Append(st, [node |-> n,
       left |-> {i \in Id : node[n].children[i] # NULL}])

\* The entry of _process_node(n), called with the stack at st.
ProcessNode(n, st) ==
  IF node[n].id \in marked
    THEN stack' = st /\ UNCHANGED marked
    ELSE /\ marked' = marked \union {node[n].id}
         /\ stack' = Append(st, [node |-> n,
              left |-> {i \in Id : node[n].children[i] # NULL}])

MarkRoot(n) ==
  /\ pc = "mark"
  /\ stack = << >>
  /\ n \in todo
  /\ todo' = Rest(todo, n)
  /\ ProcessNode(n, stack)
  /\ UNCHANGED <<nodes, lost, roots, node_count, in_use, node, edges,
                 deleters, pc>>

Top == stack[Len(stack)]

\* Mutants: every edge is followed; only edges with two references are.
FollowsAll(edge)  == TRUE
FollowsMany(edge) == edge.ref_count > 1

Follows(edge) == edge.ref_count > 0

MarkChild(i) ==
  /\ pc = "mark"
  /\ stack # << >>
  /\ i \in Top.left
  /\ LET st   == [stack EXCEPT ![Len(stack)].left = Rest(@, i)]
         edge == node[Top.node].children[i]
     IN  IF Follows(edge) THEN ProcessNode(edge.node, st)
                          ELSE stack' = st /\ UNCHANGED marked
  /\ UNCHANGED <<nodes, lost, roots, node_count, in_use, node, edges, deleters,
                 pc, todo>>

MarkReturn ==
  /\ pc = "mark"
  /\ stack # << >>
  /\ Top.left = {}
  /\ stack' = SubSeq(stack, 1, Len(stack) - 1)
  /\ UNCHANGED <<nodes, lost, roots, node_count, in_use, node, edges, deleters,
                 pc, marked, todo>>

EndMark ==
  /\ pc = "mark"
  /\ stack = << >>
  /\ todo = {}
  /\ pc' = "sweep"
  /\ todo' = nodes
  /\ UNCHANGED <<nodes, lost, roots, node_count, in_use, node, edges, deleters,
                 marked, stack>>

-----------------------------------------------------------------------------
(* mgraph_collect_garbage: sweep.                                          *)

\* The edges in the tables of n.
OwnEdges(n) ==
  {<<node[n].id, i, "child">>  : i \in {j \in Id : node[n].children[j] # NULL}}
    \union
  {<<node[n].id, i, "parent">> : i \in {j \in Id : node[n].parents[j] # NULL}}

CallDeleter(i) == deleters' = [deleters EXCEPT ![i] = IF @ = 0 THEN 1 ELSE 2]

\* Mutant: the edges to the parents are not returned to the arena.
NodeDeleteChildEdges(n, delete_edges, delete_node) ==
  /\ CallDeleter(node[n].id)
  /\ edges' = IF delete_edges
                THEN edges \ {e \in OwnEdges(n) : e[3] = "child"} ELSE edges
  /\ node' = [node EXCEPT ![n].open = FALSE]
  /\ in_use' = IF delete_node THEN in_use \ {n} ELSE in_use

\* _node_delete
NodeDelete(n, delete_edges, delete_node) ==
  /\ CallDeleter(node[n].id)
  /\ edges' = IF delete_edges THEN edges \ OwnEdges(n) ELSE edges
  /\ node' = [node EXCEPT ![n].open = FALSE]
  /\ in_use' = IF delete_node THEN in_use \ {n} ELSE in_use

SweepKeep(n) ==
  /\ pc = "sweep"
  /\ n \in todo
  /\ node[n].id \in marked
  /\ todo' = Rest(todo, n)
  /\ UNCHANGED <<nodes, lost, roots, node_count, in_use, node, edges, deleters,
                 pc, marked, stack>>

\* Mutant: a deleted node stays in mg->nodes.
WithoutNothing(n) == nodes

Without(n) == nodes \ {n}

SweepDelete(n) ==
  /\ pc = "sweep"
  /\ n \in todo
  /\ node[n].id \notin marked
  /\ NodeDelete(n, EagerEdges, EagerNodes)
  /\ nodes' = Without(n)
  /\ todo' = Rest(todo, n)
  /\ UNCHANGED <<lost, roots, node_count, pc, marked, stack>>

\* A node the loop did not meet, because the set has lost it, stays in memory
\* with its edges and entity; if it is not marked the client has given it up.
EndSweep ==
  /\ pc = "sweep"
  /\ todo = {}
  /\ pc' = "idle"
  /\ marked' = {}
  /\ lost' = {n \in lost : node[n].id \in marked}
  /\ UNCHANGED <<nodes, roots, node_count, in_use, node, edges, deleters,
                 stack, todo>>

-----------------------------------------------------------------------------
(* mgraph_delete: every node left in mg->nodes, then both arenas at once.  *)

Delete ==
  /\ pc = "idle"
  /\ pc' = "delete"
  /\ todo' = nodes
  /\ UNCHANGED <<nodes, lost, roots, node_count, in_use, node, edges, deleters,
                 marked, stack>>

DeleteNode(n) ==
  /\ pc = "delete"
  /\ n \in todo
  /\ NodeDelete(n, FALSE, FALSE)
  /\ todo' = Rest(todo, n)
  /\ UNCHANGED <<nodes, lost, roots, node_count, pc, marked, stack>>

EndDelete ==
  /\ pc = "delete"
  /\ todo = {}
  /\ in_use' = {}
  /\ edges' = {}
  /\ nodes' = {}
  /\ lost' = {}
  /\ roots' = {}
  /\ pc' = "deleted"
  /\ UNCHANGED <<node_count, node, deleters, marked, stack, todo>>

-----------------------------------------------------------------------------
Marking  == \/ \E n \in Cell : MarkRoot(n)
            \/ \E i \in Id : MarkChild(i)
            \/ MarkReturn
            \/ EndMark
Sweeping == \/ \E n \in Cell : SweepKeep(n) \/ SweepDelete(n)
            \/ EndSweep
Deleting == (\E n \in Cell : DeleteNode(n)) \/ EndDelete
Internal == Marking \/ Sweeping \/ Deleting

Build == \/ \E n \in Cell : Insert(n) \/ Root(n)
         \/ \E p, c \in Cell : Inc(p, c)
         \/ CollectGarbage
         \/ Delete

\* A client that gives back only references it has added.
GiveBack == \E p, c \in Cell : RefCount(p, c) > 0 /\ Dec(p, c)

\* A client that may give back any reference: mgraph_dec reports the error.
GiveBackAny == \E p, c \in Cell : Dec(p, c)

Next    == Build \/ GiveBack \/ Internal
AnyNext == Build \/ GiveBackAny \/ Internal

Spec    == Init /\ [][Next]_vars
AnySpec == Init /\ [][AnyNext]_vars

\* A collection or a deletion that has begun runs to its end.
FairSpec == Spec /\ WF_vars(Internal)
=============================================================================
