------------------------- MODULE MemoryGraphProofs -------------------------
(***************************************************************************)
(* Theorems about the memory graph: IInv of MemoryGraphInv is inductive,   *)
(* and with it the collector deletes, of the nodes that mg->nodes has      *)
(* kept, exactly those that no root retains.                               *)
(***************************************************************************)
EXTENDS MemoryGraphInv, SequenceTheorems, TLAPS

\* The fields of a node, and of an edge.
LEMMA NodeFacts ==
  ASSUME TypeOK, NEW n \in Cell
  PROVE  /\ node[n].id \in Id
         /\ node[n].open \in BOOLEAN
         /\ node[n].children \in [Id -> EdgeType \union {NULL}]
         /\ node[n].parents \in [Id -> EdgeType \union {NULL}]
         /\ node[n] = [id |-> node[n].id, children |-> node[n].children,
                       parents |-> node[n].parents, open |-> node[n].open]
BY DEF TypeOK, NodeType

LEMMA IdFacts ==
  /\ MaxNodes \in Nat \ {0} /\ CountMod \in Nat /\ CountMod > 1
  /\ NULL \notin EdgeType
  /\ \A i \in Id : i \in Nat /\ i < MaxNodes
  /\ \A i \in Nat : i < MaxNodes => i \in Id
BY GraphAssumption DEF Id, EdgeType

\* A node that the client may use has its tables.
LEMMA OwnersFacts ==
  ASSUME TypeOK, GraphInv
  PROVE  /\ Live \subseteq Owners /\ Owners \subseteq in_use /\ Live \subseteq Cell
         /\ pc # "deleted" => Owners = nodes \union Open
BY DEF TypeOK, GraphInv, OpenOK, Owners, Open, Live

\* An empty graph.
LEMMA InitInv == Init => IInv
<1> SUFFICES ASSUME Init PROVE IInv
  OBVIOUS
<1> USE DEF Init
<1>1. 0 \in Id /\ 0 \in 0 .. MaxNodes
  BY IdFacts
<1>2. NoEdges \in [Id -> EdgeType \union {NULL}]
  BY DEF NoEdges
<1>3. TypeOK
  <2>1. node \in [Cell -> NodeType]
    BY <1>1, <1>2 DEF NodeType
  <2>2. deleters \in [Id -> 0 .. 2] /\ stack \in Seq([node : Cell, left : SUBSET Id])
    OBVIOUS
  <2> QED
    BY <1>1, <2>1, <2>2 DEF TypeOK, Live
<1>4. Live = {} /\ Owners = {} /\ Open = {}
  BY DEF Live, Owners, Open
<1>5. IdsOK /\ EdgesNamed /\ ReferencesOK /\ EdgesMirrored
  BY <1>4 DEF IdsOK, EdgesNamed, ReferencesOK, Kept, EdgesMirrored
<1>6. OpenOK /\ DeletersOK
  BY <1>4, IdFacts DEF OpenOK, Uncalled, DeletersOK
<1>7. EdgesAccounted
  BY <1>4 DEF EdgesAccounted
<1>8. MarkInv
  BY DEF MarkInv, TodoOK, FramesOK, RecursionBounded, RootsMarked, MarkedClosed,
         MarkedReachable, SweptMarked, TodoOK
<1> QED
  BY <1>3, <1>5, <1>6, <1>7, <1>8 DEF IInv, NeverStopped, GraphInv

-----------------------------------------------------------------------------
(* Steps that leave the graph alone.                                       *)

LEMMA SameGraph ==
  ASSUME GraphInv,
         UNCHANGED <<nodes, lost, in_use, node_count, node, edges, deleters>>,
         Kept' \subseteq Kept, Uncalled' = Uncalled, pc' = "deleted" <=> pc = "deleted"
  PROVE  GraphInv'
<1>1. Live' = Live /\ Open' = Open /\ Owners' = Owners
  BY DEF Live, Open, Owners
<1>2. IdsOK' /\ EdgesNamed' /\ EdgesMirrored'
  BY <1>1 DEF GraphInv, IdsOK, EdgesNamed, Child, Parent, EdgesMirrored
<1>3. ReferencesOK'
  BY <1>1 DEF GraphInv, ReferencesOK
<1>4. OpenOK' /\ DeletersOK'
  BY <1>1 DEF GraphInv, OpenOK, DeletersOK
<1>5. EdgesAccounted'
  <2>1. \A n : OwnEdges(n)' = OwnEdges(n)
    BY DEF OwnEdges
  <2> QED
    BY <1>1, <2>1 DEF GraphInv, EdgesAccounted
<1> QED
  BY <1>2, <1>3, <1>4, <1>5 DEF GraphInv

\* What is reachable depends on the nodes, the roots and the references.
LEMMA SameReachable ==
  ASSUME UNCHANGED <<nodes, lost, roots, node>>
  PROVE  Reachable' = Reachable
BY DEF Reachable, Closed, Live

\* Steps of the loops and calls leave what the client sees alone.
LEMMA SameSets ==
  ASSUME UNCHANGED <<nodes, lost>>
  PROVE  Live' = Live
BY DEF Live

LEMMA CollectInv == IInv /\ CollectGarbage => IInv'
<1> SUFFICES ASSUME IInv, CollectGarbage PROVE IInv'
  OBVIOUS
<1> USE DEF CollectGarbage
<1>1. TypeOK'
  <2>1. << >> \in Seq([node : Cell, left : SUBSET Id])
    OBVIOUS
  <2> QED
    BY <2>1 DEF IInv, TypeOK, Live
<1>2. Kept' \subseteq Kept /\ Uncalled' = Uncalled
  BY DEF Kept, Uncalled, Live
<1>3. GraphInv'
  BY <1>2, SameGraph DEF IInv
<1>4. MarkInv'
  BY DEF MarkInv, FramesOK, RecursionBounded, RootsMarked, MarkedClosed,
         MarkedReachable, SweptMarked, TodoOK
<1> QED
  BY <1>1, <1>3, <1>4 DEF IInv, NeverStopped
-----------------------------------------------------------------------------
(* Building the graph.                                                     *)

\* Between collections no call of _process_node is open, and nothing is
\* promised of the marks.
LEMMA IdleMark ==
  ASSUME pc = "idle", stack = << >>
  PROVE  MarkInv
BY DEF MarkInv, FramesOK, RecursionBounded, RootsMarked, MarkedClosed,
       MarkedReachable, SweptMarked, TodoOK

LEMMA IdleKeeps ==
  ASSUME pc = "idle"
  PROVE  Kept = Live /\ Uncalled = nodes
BY DEF Kept, Uncalled

\* mgraph_insert gives the new node an id under which no table has an entry.
LEMMA InsertInv ==
  ASSUME IInv, NEW n \in Cell, Insert(n)
  PROVE  IInv'
<1> DEFINE fresh == [id |-> node_count, children |-> NoEdges,
                     parents |-> NoEdges, open |-> TRUE]
<1> USE DEF Insert
<1>1. TypeOK /\ GraphInv /\ stack = << >>
  BY DEF IInv, MarkInv, FramesOK
<1>2. /\ node_count \in Id /\ node_count \in Nat
      /\ n \notin Live /\ Live \subseteq Cell
      /\ n \notin Open /\ n \notin Owners /\ Open \subseteq Owners
      /\ Live \subseteq Owners /\ Owners \subseteq Cell
  <2>1. Open \subseteq in_use /\ lost \subseteq Open
    BY <1>1 DEF GraphInv, OpenOK
  <2> QED
    BY <1>1, <2>1, IdFacts DEF TypeOK, Open, Owners, Live
<1> PICK dropped \in Drops : /\ nodes' = (nodes \ dropped) \union {n}
                             /\ lost' = lost \union dropped
  OBVIOUS
<1> dropped \subseteq nodes
  BY DEF Drops
<1>3. node'[n] = fresh /\ \A m \in Cell : m # n => node'[m] = node[m]
  BY <1>1 DEF TypeOK
<1>4. \A i \in Id : fresh.children[i] = NULL /\ fresh.parents[i] = NULL
  BY DEF NoEdges
<1>5. /\ Live' = Live \union {n} /\ Open' = Open \union {n}
      /\ Owners' = Owners \union {n}
  <2>1. Live' = Live \union {n}
    BY DEF Live
  <2>2. Open' = Open \union {n}
    BY <1>3 DEF Open
  <2>3. in_use' = in_use \union {n} /\ Open \subseteq in_use /\ lost \subseteq Open
    BY <1>1 DEF GraphInv, OpenOK
  <2>4. Owners = {m \in in_use : m \in nodes \/ m \in Open}
    BY <1>1 DEF Owners, Open, TypeOK
  <2>5. Owners' = {m \in in_use' : m \in nodes' \/ m \in Open'}
    BY <1>1, <2>3 DEF Owners, Open, TypeOK
  <2> QED
    <3>1. n \in Open' /\ n \in in_use' /\ \A m \in in_use : m # n
      BY <2>2, <2>3
    <3>2. \A m \in in_use : (m \in nodes' \/ m \in Open') <=> (m \in nodes \/ m \in Open)
      <4>1. dropped \subseteq Open
        BY <1>1, IdleKeeps DEF GraphInv, OpenOK
      <4> QED
        BY <2>2, <3>1, <4>1
    <3> QED
      BY <2>1, <2>2, <2>3, <2>4, <2>5, <3>1, <3>2
<1>16. TypeOK'
  <2>1. fresh \in NodeType
    BY <1>2 DEF NodeType, NoEdges
  <2>2. node' \in [Cell -> NodeType]
    BY <1>1, <2>1 DEF TypeOK
  <2>3. node_count' \in 0 .. MaxNodes
    BY <1>1, <1>2, IdFacts DEF TypeOK
  <2>4. nodes' \intersect lost' = {} /\ in_use' \subseteq Cell /\ n \notin lost
    BY <1>1, <1>2 DEF TypeOK, Live
  <2> QED
    BY <1>1, <1>5, <2>2, <2>3, <2>4 DEF TypeOK
<1>6. Kept = Live /\ Uncalled = nodes /\ Kept' = Live' /\ Uncalled' = nodes'
  BY IdleKeeps DEF Kept, Uncalled
<1>7. \A m \in Owners : /\ node'[m] = node[m] /\ m # n
                         /\ node[m].id \in Id /\ node[m].id < node_count
  BY <1>1, <1>2, <1>3, NodeFacts DEF GraphInv, IdsOK
<1>8. \A m \in Live : node[m].children[node_count] = NULL
                       /\ node[m].parents[node_count] = NULL
  BY <1>1, <1>2 DEF GraphInv, EdgesNamed
<1> \A m \in Owners' : node'[m].id \in Id
  BY <1>2, <1>3, <1>5, <1>7
<1> \A m \in Live' : node'[m].id \in Id
  BY <1>2, <1>5
<1>9. IdsOK'
  <2>1. ASSUME NEW m \in Owners'
        PROVE  node'[m].id < node_count'
    <3>1. node'[m].id \in Nat
      BY IdFacts, <2>1
    <3>2. node'[m].id <= node_count
      BY <1>2, <1>3, <1>5, <1>7, <2>1, <3>1
    <3> QED
      BY <1>2, <3>1, <3>2
  <2>2. ASSUME NEW m \in Owners', NEW k \in Owners', node'[m].id = node'[k].id
        PROVE  m = k
    <3>1. \A j \in Owners : node'[j].id # node_count
      BY <1>2, <1>7, IdFacts
    <3>2. CASE m \in Owners /\ k \in Owners
      BY <1>1, <1>7, <2>2, <3>2 DEF GraphInv, IdsOK
    <3>3. CASE m = n \/ k = n
      BY <1>3, <1>5, <2>2, <3>1, <3>3
    <3> QED
      BY <1>5, <3>2, <3>3
  <2> QED
    BY <2>1, <2>2 DEF IdsOK
<1>10. EdgesNamed'
  <2>1. ASSUME NEW p \in Live', NEW i \in Id, i >= node_count'
        PROVE  node'[p].children[i] = NULL /\ node'[p].parents[i] = NULL
    <3>1. i >= node_count
      BY <1>2, <2>1, IdFacts
    <3> QED
      BY <3>1, <1>1, <1>2, <1>3, <1>4, <1>5, <1>7 DEF GraphInv, EdgesNamed
  <2>2. ASSUME NEW p \in Live', NEW c \in Live', Child(p, c)' # NULL
        PROVE  Child(p, c)'.node = c
    <3>1. p # n /\ p \in Live
      BY <1>3, <1>4, <1>5, <2>2 DEF Child
    <3>2. c # n /\ c \in Live
      BY <1>2, <1>3, <1>5, <1>7, <1>8, <2>2, <3>1 DEF Child
    <3> QED
      BY <1>1, <1>2, <1>7, <2>2, <3>1, <3>2 DEF GraphInv, EdgesNamed, Child
  <2> QED
    BY <2>1, <2>2 DEF EdgesNamed
<1>11. ReferencesOK'
  <2> SUFFICES ASSUME NEW p \in Live', NEW i \in Id, Counted(node'[p].children[i])
               PROVE  /\ node'[p].children[i].node \in Live'
                      /\ node'[node'[p].children[i].node].id = i
    BY <1>6 DEF ReferencesOK, Counted
  <2>1. p # n /\ p \in Live
    BY <1>3, <1>4, <1>5 DEF Counted
  <2>2. node[p].children[i].node \in Live /\ node[node[p].children[i].node].id = i
    BY <1>1, <1>2, <1>6, <1>7, <2>1 DEF GraphInv, ReferencesOK
  <2> QED
    BY <1>2, <1>5, <1>7, <2>1, <2>2
<1>12. OpenOK' /\ DeletersOK'
  <2>1. OpenOK'
    BY <1>1, <1>2, <1>5, <1>6 DEF GraphInv, OpenOK, TypeOK
  <2>2. ASSUME NEW i \in Id
        PROVE  (i < node_count' /\ \A m \in Open' : node'[m].id # i)
                 <=> (i < node_count /\ \A m \in Open : node[m].id # i)
    BY <1>2, <1>3, <1>5, <1>7, IdFacts
  <2> QED
    BY <1>1, <2>1, <2>2 DEF GraphInv, DeletersOK
<1>13. EdgesMirrored'
  <2> SUFFICES ASSUME NEW p \in Live', NEW c \in Live'
               PROVE  /\ (Child(p, c)' = NULL) = (Parent(c, p)' = NULL)
                      /\ Child(p, c)' # NULL => Child(p, c)'.ref_count = Parent(c, p)'.ref_count
    BY DEF EdgesMirrored
  <2>1. CASE p # n /\ c # n
    BY <2>1, <1>1, <1>2, <1>5, <1>7 DEF GraphInv, EdgesMirrored, Child, Parent
  <2>2. CASE p = n \/ c = n
    <3>1. ASSUME NEW m \in Live', NEW i \in Id, m = n \/ i = node_count
          PROVE  node'[m].children[i] = NULL /\ node'[m].parents[i] = NULL
      BY <1>2, <1>3, <1>4, <1>5, <1>7, <1>8, <3>1
    <3>2. node'[n].id = node_count
      BY <1>3
    <3> QED
      BY <2>2, <3>1, <3>2 DEF Child, Parent
  <2> QED
    BY <2>1, <2>2
<1>14. EdgesAccounted'
  <2>1. \A m \in Owners : OwnEdges(m)' = OwnEdges(m)
    BY <1>7 DEF OwnEdges
  <2>2. OwnEdges(n)' = {}
    BY <1>3, <1>4 DEF OwnEdges
  <2>3. UNION {OwnEdges(m) : m \in Owners}' = UNION {OwnEdges(m) : m \in Owners}
    BY <1>5, <2>1, <2>2
  <2> QED
    BY <1>1, <2>3 DEF GraphInv, EdgesAccounted
<1>15. MarkInv'
  BY <1>1, IdleMark DEF MarkInv, FramesOK, RecursionBounded, RootsMarked, MarkedClosed,
         MarkedReachable, SweptMarked, TodoOK
<1> QED
  BY <1>16, <1>9, <1>10, <1>11, <1>12, <1>13, <1>14, <1>15 DEF IInv, NeverStopped, GraphInv

LEMMA RootInv ==
  ASSUME IInv, NEW n \in Cell, Root(n)
  PROVE  IInv'
<1> USE DEF Root
<1>1. TypeOK' /\ Live' = Live
  BY DEF IInv, TypeOK, Live
<1>2. GraphInv'
  BY <1>1, SameGraph DEF IInv, Kept, Uncalled
<1>3. MarkInv'
  BY DEF IInv, MarkInv, FramesOK, RecursionBounded, RootsMarked, MarkedClosed,
         MarkedReachable, SweptMarked, TodoOK
<1> QED
  BY <1>1, <1>2, <1>3 DEF IInv, NeverStopped

\* g differs from f in an entry of a table of children and one of a table of
\* parents.
Stored(g, f, p, c, i, j, x, y) ==
  /\ g \in [Cell -> NodeType]
  /\ \A m \in Cell :
       /\ g[m].id = f[m].id
       /\ g[m].open = f[m].open
       /\ \A k \in Id :
            /\ g[m].children[k] = IF m = p /\ k = i THEN x ELSE f[m].children[k]
            /\ g[m].parents[k]  = IF m = c /\ k = j THEN y ELSE f[m].parents[k]

\* The nodes f with an edge stored in a table of children and one in a table
\* of parents.
Store(f, p, c, i, j, x, y) == [f EXCEPT ![p].children[i] = x, ![c].parents[j] = y]

LEMMA TwoEntries ==
  ASSUME NEW f \in [Cell -> NodeType], NEW p \in Cell, NEW c \in Cell,
         NEW i \in Id, NEW j \in Id, NEW x \in EdgeType, NEW y \in EdgeType
  PROVE  Stored(Store(f, p, c, i, j, x, y), f, p, c, i, j, x, y)
<1> DEFINE Maybe == EdgeType \union {NULL}
           h == [f EXCEPT ![p].children[i] = x]
           g == Store(f, p, c, i, j, x, y)
<1>1. \A r \in NodeType :
        /\ r.children \in [Id -> Maybe] /\ r.parents \in [Id -> Maybe]
        /\ [r EXCEPT !.children[i] = x]
             = [r EXCEPT !.children = [r.children EXCEPT ![i] = x]]
        /\ [r EXCEPT !.parents[j] = y]
             = [r EXCEPT !.parents = [r.parents EXCEPT ![j] = y]]
  BY DEF NodeType
<1>2. \A t \in [Id -> Maybe] :
        /\ [t EXCEPT ![i] = x] \in [Id -> Maybe]
        /\ [t EXCEPT ![j] = y] \in [Id -> Maybe]
        /\ \A k \in Id : /\ [t EXCEPT ![i] = x][k] = IF k = i THEN x ELSE t[k]
                         /\ [t EXCEPT ![j] = y][k] = IF k = j THEN y ELSE t[k]
  OBVIOUS
<1> HIDE DEF Maybe
<1> DEFINE C(r) == [r EXCEPT !.children[i] = x]
           P(r) == [r EXCEPT !.parents[j] = y]
<1>3. \A r \in NodeType :
        /\ C(r) \in NodeType
        /\ C(r).id = r.id /\ C(r).open = r.open /\ C(r).parents = r.parents
        /\ \A k \in Id : C(r).children[k] = IF k = i THEN x ELSE r.children[k]
  BY <1>1, <1>2 DEF NodeType, Maybe
<1>4. \A r \in NodeType :
        /\ P(r) \in NodeType
        /\ P(r).id = r.id /\ P(r).open = r.open /\ P(r).children = r.children
        /\ \A k \in Id : P(r).parents[k] = IF k = j THEN y ELSE r.parents[k]
  BY <1>1, <1>2 DEF NodeType, Maybe
<1>5. h = [f EXCEPT ![p] = C(f[p])] /\ g = [h EXCEPT ![c] = P(h[c])]
  BY DEF Store
<1> HIDE DEF h, g, C, P
<1>6. /\ h \in [Cell -> NodeType]
      /\ \A m \in Cell : h[m] = IF m = p THEN C(f[m]) ELSE f[m]
  BY <1>3, <1>5
<1>7. /\ g \in [Cell -> NodeType]
      /\ \A m \in Cell : g[m] = IF m = c THEN P(h[m]) ELSE h[m]
  BY <1>4, <1>5, <1>6
<1>8. ASSUME NEW m \in Cell
      PROVE  /\ h[m] \in NodeType /\ h[m].id = f[m].id /\ h[m].open = f[m].open
             /\ \A k \in Id :
                  /\ h[m].children[k] = IF m = p /\ k = i THEN x ELSE f[m].children[k]
                  /\ h[m].parents[k] = f[m].parents[k]
  <2>1. CASE m = p
    BY <1>3, <1>6, <2>1
  <2>2. CASE m # p
    BY <1>6, <2>2
  <2> QED
    BY <2>1, <2>2
<1>9. ASSUME NEW m \in Cell
      PROVE  /\ g[m].id = h[m].id /\ g[m].open = h[m].open
             /\ \A k \in Id :
                  /\ g[m].children[k] = h[m].children[k]
                  /\ g[m].parents[k] = IF m = c /\ k = j THEN y ELSE h[m].parents[k]
  <2>1. CASE m = c
    <3>1. h[m] \in NodeType /\ g[m] = P(h[m])
      BY <1>6, <1>7, <2>1
    <3> QED
      BY <1>4, <2>1, <3>1
  <2>2. CASE m # c
    BY <1>7, <2>2
  <2> QED
    BY <2>1, <2>2
<1>10. ASSUME NEW m \in Cell, NEW k \in Id
       PROVE  /\ g[m].children[k] = IF m = p /\ k = i THEN x ELSE f[m].children[k]
              /\ g[m].parents[k]  = IF m = c /\ k = j THEN y ELSE f[m].parents[k]
  BY <1>8, <1>9
<1>11. Stored(g, f, p, c, i, j, x, y)
  BY <1>7, <1>8, <1>9, <1>10 DEF Stored
<1> QED
  BY <1>11, Zenon DEF g

\* mgraph_inc and mgraph_dec store one count in both edges.
LEMMA SetEdges ==
  ASSUME IInv, NEW p \in Live, NEW c \in Live, NEW x \in EdgeType, NEW y \in EdgeType,
         NEW ip \in Id, NEW ic \in Id, ip = node[p].id, ic = node[c].id,
         pc = "idle", x.node = c, x.ref_count = y.ref_count,
         Stored(node', node, p, c, ic, ip, x, y),
         edges' = edges \union {<<ip, ic, "child">>, <<ic, ip, "parent">>},
         nodes' = nodes, lost' = lost, node_count' = node_count,
         deleters' = deleters, pc' = pc, UNCHANGED <<roots, in_use, marked, stack, todo>>
  PROVE  IInv'
<1>1. TypeOK /\ GraphInv /\ stack = << >>
  BY DEF IInv, MarkInv, FramesOK
<1>2. p \in Cell /\ c \in Cell /\ Live \subseteq Cell /\ Owners \subseteq Cell
      /\ Live \subseteq Owners
  BY <1>1, NodeFacts DEF TypeOK, Owners, GraphInv, OpenOK, Open, Live
<1>3. x # NULL /\ y # NULL
  BY IdFacts
<1>4. Live' = Live /\ Open' = Open /\ Owners' = Owners
  BY <1>1 DEF Live, Open, Owners, Stored, TypeOK
<1>5. \A m \in Owners, i \in Id :
        /\ node'[m].children[i] = IF m = p /\ i = ic THEN x ELSE node[m].children[i]
        /\ node'[m].parents[i] = IF m = c /\ i = ip THEN y ELSE node[m].parents[i]
  BY <1>2 DEF Stored
<1>6. \A m \in Owners : node[m].id \in Id /\ node'[m].id = node[m].id
  BY <1>1, <1>2, NodeFacts DEF Stored
<1>7. \A m, k \in Owners : node[m].id = node[k].id => m = k
  BY <1>1 DEF GraphInv, IdsOK
<1>8. \A m, k \in Live :
        /\ Child(m, k)' = IF m = p /\ k = c THEN x ELSE Child(m, k)
        /\ Parent(k, m)' = IF m = p /\ k = c THEN y ELSE Parent(k, m)
  BY <1>2, <1>5, <1>6, <1>7 DEF Child, Parent
<1>9. TypeOK'
  <2>1. edges' \subseteq EdgeName
    BY <1>1 DEF TypeOK, EdgeName
  <2> QED
    BY <1>1, <1>4, <2>1 DEF TypeOK, Stored
<1>10. Kept = Live /\ Kept' = Live /\ Uncalled' = Uncalled
  BY <1>4 DEF Kept, Uncalled
<1>11. IdsOK'
  BY <1>1, <1>4, <1>6 DEF GraphInv, IdsOK
<1>12. EdgesNamed'
  <2>1. ASSUME NEW m \in Live, NEW i \in Id, i >= node_count
        PROVE  node'[m].children[i] = NULL /\ node'[m].parents[i] = NULL
    <3>1. ip < node_count /\ ic < node_count /\ node_count \in Nat
      BY <1>1, <1>2 DEF GraphInv, IdsOK, TypeOK
    <3>2. i # ip /\ i # ic
      BY <1>2, <2>1, <3>1, IdFacts
    <3> QED
      BY <1>1, <1>2, <1>5, <2>1, <3>2 DEF GraphInv, EdgesNamed
  <2>2. \A m, k \in Live : Child(m, k)' # NULL => Child(m, k)'.node = k
    BY <1>1, <1>8 DEF GraphInv, EdgesNamed
  <2> QED
    BY <1>4, <2>1, <2>2 DEF EdgesNamed
<1>13. ReferencesOK'
  <2>1. ASSUME NEW m \in Live, NEW i \in Id, Counted(node'[m].children[i])
        PROVE  /\ node'[m].children[i].node \in Live
               /\ node[node'[m].children[i].node].id = i
    BY <1>1, <1>2, <1>5, <1>10, <2>1 DEF GraphInv, ReferencesOK
  <2> QED
    BY <1>2, <1>4, <1>6, <1>10, <2>1 DEF ReferencesOK, Counted
<1>14. OpenOK' /\ DeletersOK'
  <2>1. \A m \in Open : node'[m].id = node[m].id
    BY DEF Stored, Open
  <2> QED
    BY <1>1, <1>4, <1>10, <2>1 DEF GraphInv, OpenOK, DeletersOK
<1>15. EdgesMirrored'
  BY <1>1, <1>3, <1>4, <1>8 DEF GraphInv, EdgesMirrored
<1>16. EdgesAccounted'
  <2> DEFINE new == {<<ip, ic, "child">>, <<ic, ip, "parent">>}
  <2>1. \A m \in Owners : OwnEdges(m) \subseteq OwnEdges(m)'
    BY <1>2, <1>3, <1>5, <1>6 DEF OwnEdges
  <2>2. \A m \in Owners : OwnEdges(m)' \subseteq OwnEdges(m) \union new
    BY <1>2, <1>5, <1>6 DEF OwnEdges
  <2>3. <<ip, ic, "child">> \in OwnEdges(p)' /\ <<ic, ip, "parent">> \in OwnEdges(c)'
    BY <1>2, <1>3, <1>5, <1>6 DEF OwnEdges
  <2>4. edges' = edges \union new /\ Owners' = Owners
    BY <1>4
  <2> DEFINE owned == UNION {OwnEdges(m) : m \in Owners}
  <2>5. new \subseteq owned'
    BY <1>2, <2>3, <2>4
  <2> HIDE DEF new
  <2>6. owned \subseteq owned'
    BY <2>1, <2>4
  <2>7. owned' \subseteq owned \union new
    BY <2>2, <2>4
  <2>8. owned \subseteq edges /\ (EagerEdges => edges \subseteq owned)
    BY <1>1 DEF GraphInv, EdgesAccounted
  <2>9. owned' \subseteq edges' /\ (EagerEdges => edges' \subseteq owned')
    <3> HIDE DEF owned
    <3> QED
      BY <2>4, <2>5, <2>6, <2>7, <2>8
  <2> QED
    BY <2>9 DEF EdgesAccounted
<1>17. MarkInv'
  BY <1>1, IdleMark DEF MarkInv, FramesOK, RecursionBounded, RootsMarked, MarkedClosed,
         MarkedReachable, SweptMarked, TodoOK
<1> QED
  BY <1>9, <1>11, <1>12, <1>13, <1>14, <1>15, <1>16, <1>17 DEF IInv, NeverStopped, GraphInv
LEMMA CountFacts ==
  ASSUME TypeOK, NEW p \in Live, NEW c \in Live
  PROVE  /\ node[p].id \in Id /\ node[c].id \in Id
         /\ Child(p, c) \in EdgeType \union {NULL}
         /\ Parent(c, p) \in EdgeType \union {NULL}
         /\ p \in Cell /\ c \in Cell
BY NodeFacts DEF TypeOK, Child, Parent

\* mgraph_inc adds one to both counts of the reference.
LEMMA IncStored ==
  ASSUME IInv, NEW p \in Cell, NEW c \in Cell, Inc(p, c),
         NEW x, NEW y, NEW ip, NEW ic,
         x = Increased(Child(p, c), c), y = Increased(Parent(c, p), p),
         ip = node[p].id, ic = node[c].id
  PROVE  /\ x \in EdgeType /\ y \in EdgeType /\ x.node = c /\ x.ref_count = y.ref_count
         /\ x.ref_count = RefCount(p, c) + 1
         /\ Stored(node', node, p, c, ic, ip, x, y)
<1>1. TypeOK /\ p \in Live /\ c \in Live /\ pc = "idle"
  BY DEF IInv, Inc
<1>2. ip \in Id /\ ic \in Id
  BY <1>1, CountFacts
<1>3. /\ (Child(p, c) = NULL) = (Parent(c, p) = NULL)
      /\ Child(p, c) # NULL =>
           Child(p, c).node = c /\ Child(p, c).ref_count = Parent(c, p).ref_count
  BY <1>1 DEF IInv, GraphInv, EdgesMirrored, EdgesNamed
<1>4. /\ \A n \in Cell : [node |-> n, ref_count |-> 1] \in EdgeType
      /\ \A e \in EdgeType :
           /\ [e EXCEPT !.ref_count = (@ + 1) % CountMod] \in EdgeType
           /\ [e EXCEPT !.ref_count = (@ + 1) % CountMod].node = e.node
           /\ [e EXCEPT !.ref_count = (@ + 1) % CountMod].ref_count
                = (e.ref_count + 1) % CountMod
  <2>1. 1 \in 0 .. (CountMod - 1) /\ CountMod \in Nat \ {0}
    BY IdFacts
  <2>2. \A k \in 0 .. (CountMod - 1) : (k + 1) % CountMod \in 0 .. (CountMod - 1)
    BY <2>1
  <2> QED
    BY <2>1, <2>2 DEF EdgeType
<1>5. x \in EdgeType /\ y \in EdgeType /\ x.node = c /\ x.ref_count = y.ref_count
  <2>1. CASE Child(p, c) = NULL
    BY <1>1, <1>3, <1>4, <2>1 DEF Increased
  <2>2. CASE Child(p, c) # NULL
    BY <1>1, <1>3, <1>4, <2>2, CountFacts DEF Increased
  <2> QED
    BY <2>1, <2>2
<1>6. x.ref_count = RefCount(p, c) + 1
  <2>1. CASE Child(p, c) = NULL
    BY <2>1 DEF Increased, RefCount
  <2>2. CASE Child(p, c) # NULL
    <3>1. Child(p, c) \in EdgeType /\ RefCount(p, c) = Child(p, c).ref_count
      BY <1>1, <2>2, CountFacts DEF RefCount
    <3>2. RefCount(p, c) \in Nat /\ RefCount(p, c) + 1 < CountMod
      BY <3>1, GraphAssumption DEF EdgeType, Inc
    <3>3. (RefCount(p, c) + 1) % CountMod = RefCount(p, c) + 1
      BY <3>2, GraphAssumption
    <3> QED
      BY <1>4, <2>2, <3>1, <3>3 DEF Increased
  <2> QED
    BY <2>1, <2>2
<1>7. node' = [node EXCEPT ![p].children[ic] = x, ![c].parents[ip] = y]
  BY <1>1 DEF Inc, IncBothWays, Child, Parent, TypeOK, NodeType
<1>8. Stored(node', node, p, c, ic, ip, x, y)
  <2>1. node \in [Cell -> NodeType] /\ node' = Store(node, p, c, ic, ip, x, y)
    BY <1>1, <1>7 DEF TypeOK, Store
  <2> QED
    BY <1>2, <1>5, <2>1, TwoEntries
<1> QED
  BY <1>5, <1>6, <1>8

LEMMA IncInv ==
  ASSUME IInv, NEW p \in Cell, NEW c \in Cell, Inc(p, c)
  PROVE  IInv'
<1> DEFINE x == Increased(Child(p, c), c)
           y == Increased(Parent(c, p), p)
           ip == node[p].id
           ic == node[c].id
<1>1. TypeOK /\ p \in Live /\ c \in Live /\ pc = "idle"
  BY DEF IInv, Inc
<1>2. ip \in Id /\ ic \in Id
  BY <1>1, CountFacts
<1>3. /\ x \in EdgeType /\ y \in EdgeType /\ x.node = c /\ x.ref_count = y.ref_count
      /\ Stored(node', node, p, c, ic, ip, x, y)
  BY IncStored
<1> HIDE DEF x, y
<1>4. edges' = edges \union {<<ip, ic, "child">>, <<ic, ip, "parent">>}
  BY DEF Inc
<1>5. UNCHANGED <<nodes, lost, roots, node_count, in_use, deleters, pc, marked, stack, todo>>
  BY DEF Inc
<1> HIDE DEF ip, ic
<1> QED
  BY <1>1, <1>2, <1>3, <1>4, <1>5, SetEdges DEF ip, ic

\* mgraph_dec takes one from both counts of a counted reference.
LEMMA DecStored ==
  ASSUME IInv, NEW p \in Cell, NEW c \in Cell, RefCount(p, c) > 0, Dec(p, c),
         NEW x, NEW y, NEW ip, NEW ic,
         x = Decreased(Child(p, c)), y = Decreased(Parent(c, p)),
         ip = node[p].id, ic = node[c].id
  PROVE  /\ Child(p, c) # NULL /\ Parent(c, p) # NULL /\ pc' = pc
         /\ x \in EdgeType /\ y \in EdgeType /\ x.node = c /\ x.ref_count = y.ref_count
         /\ x.ref_count = RefCount(p, c) - 1
         /\ Stored(node', node, p, c, ic, ip, x, y)
<1>1. TypeOK /\ p \in Live /\ c \in Live /\ pc = "idle"
  BY DEF IInv, Dec
<1>2. ip \in Id /\ ic \in Id
  BY <1>1, CountFacts
<1>3. Child(p, c) # NULL
  BY DEF RefCount
<1>4. /\ Parent(c, p) # NULL
      /\ Child(p, c).node = c /\ Child(p, c).ref_count = Parent(c, p).ref_count
  BY <1>1, <1>3 DEF IInv, GraphInv, EdgesMirrored, EdgesNamed
<1>5. \A e \in EdgeType :
        /\ Decreased(e) \in EdgeType
        /\ Decreased(e).node = e.node
        /\ Decreased(e).ref_count = (e.ref_count + CountMod - 1) % CountMod
  <2>1. CountMod \in Nat \ {0}
    BY IdFacts
  <2>2. \A k \in 0 .. (CountMod - 1) :
          (k + CountMod - 1) % CountMod \in 0 .. (CountMod - 1)
    BY <2>1
  <2> QED
    BY <2>2 DEF EdgeType, Decreased
<1>6. x \in EdgeType /\ y \in EdgeType /\ x.node = c /\ x.ref_count = y.ref_count
  <2>1. Child(p, c) \in EdgeType /\ Parent(c, p) \in EdgeType
    BY <1>1, <1>3, <1>4, CountFacts
  <2> QED
    BY <1>4, <1>5, <2>1
<1>7. x.ref_count = RefCount(p, c) - 1
  <2> DEFINE k == RefCount(p, c)
  <2>1. Child(p, c) \in EdgeType /\ k = Child(p, c).ref_count
    BY <1>1, <1>3, CountFacts DEF RefCount
  <2>2. k \in Nat /\ k > 0 /\ k <= CountMod - 1 /\ CountMod \in Nat
    BY <2>1, GraphAssumption DEF EdgeType
  <2>3. (k + CountMod - 1) % CountMod = k - 1
    <3> HIDE DEF k
    <3>1. PICK m \in Nat : m = k - 1
      BY <2>2
    <3>2. k + CountMod - 1 = m + CountMod /\ m < CountMod
      BY <2>2, <3>1
    <3>3. (m + CountMod) % CountMod = m
      BY <2>2, <3>2
    <3> QED
      BY <3>1, <3>2, <3>3
  <2> QED
    BY <1>5, <2>1, <2>3
<1>8. /\ node' = [node EXCEPT ![p].children[ic] = x, ![c].parents[ip] = y]
      /\ pc' = pc
  BY <1>1, <1>3, <1>4 DEF Dec, Decreased, Child, Parent, TypeOK, NodeType
<1>9. Stored(node', node, p, c, ic, ip, x, y)
  <2>1. node \in [Cell -> NodeType] /\ node' = Store(node, p, c, ic, ip, x, y)
    BY <1>1, <1>8 DEF TypeOK, Store
  <2> QED
    BY <1>2, <1>6, <2>1, TwoEntries
<1> QED
  BY <1>3, <1>4, <1>6, <1>7, <1>8, <1>9

\* A reference that is counted can be given back: the process is not stopped.
LEMMA DecInv ==
  ASSUME IInv, NEW p \in Cell, NEW c \in Cell, RefCount(p, c) > 0, Dec(p, c)
  PROVE  IInv'
<1> DEFINE x == Decreased(Child(p, c))
           y == Decreased(Parent(c, p))
           ip == node[p].id
           ic == node[c].id
<1>1. TypeOK /\ p \in Live /\ c \in Live /\ pc = "idle"
  BY DEF IInv, Dec
<1>2. ip \in Id /\ ic \in Id
  BY <1>1, CountFacts
<1>3. /\ Child(p, c) # NULL /\ Parent(c, p) # NULL /\ pc' = pc
      /\ x \in EdgeType /\ y \in EdgeType /\ x.node = c /\ x.ref_count = y.ref_count
      /\ Stored(node', node, p, c, ic, ip, x, y)
  BY DecStored
<1> HIDE DEF x, y
<1>4. edges' = edges \union {<<ip, ic, "child">>, <<ic, ip, "parent">>}
  <2>1. <<ip, ic, "child">> \in OwnEdges(p) /\ <<ic, ip, "parent">> \in OwnEdges(c)
    BY <1>2, <1>3 DEF OwnEdges, Child, Parent
  <2>2. OwnEdges(p) \subseteq edges /\ OwnEdges(c) \subseteq edges
    BY <1>1, OwnersFacts DEF IInv, GraphInv, EdgesAccounted
  <2>3. edges' = edges
    BY DEF Dec
  <2> QED
    BY <2>1, <2>2, <2>3
<1>5. UNCHANGED <<nodes, lost, roots, node_count, in_use, deleters, marked, stack, todo>>
  BY DEF Dec
<1> HIDE DEF ip, ic
<1> QED
  BY <1>1, <1>2, <1>3, <1>4, <1>5, SetEdges DEF ip, ic

-----------------------------------------------------------------------------
(* mark.                                                                   *)

Frame == [node : Cell, left : SUBSET Id]

\* What MarkInv says of the frames alone.
Frames(st) ==
  /\ \A k \in DOMAIN st :
       /\ st[k].node \in Live
       /\ node[st[k].node].id \in marked
       /\ \A i \in st[k].left : node[st[k].node].children[i] # NULL
  /\ \A j, k \in DOMAIN st : st[j].node = st[k].node => j = k

\* _process_node(n), called where the marks lack nothing but n.
LEMMA ProcessInv ==
  ASSUME TypeOK, GraphInv, pc = "mark", NEW n \in Live, NEW st \in Seq(Frame),
         Frames(st), todo' \subseteq roots,
         \A r \in roots : node[r].id \in marked \/ r \in todo' \/ r = n,
         \A q \in Live, i \in Id :
           node[q].id \in marked /\ Counted(node[q].children[i]) =>
             \/ i \in marked
             \/ i = node[n].id
             \/ \E k \in DOMAIN st : st[k].node = q /\ i \in st[k].left,
         MarkedReachable, n \in Reachable,
         ProcessNode(n, st),
         UNCHANGED <<nodes, lost, roots, node, pc>>
  PROVE  MarkInv' /\ stack' \in Seq(Frame) /\ marked' \subseteq Id
<1>1. /\ n \in Cell /\ node[n].id \in Id /\ marked \subseteq Id
      /\ \A q \in Live : node[q].id = node[n].id => q = n
  BY NodeFacts, OwnersFacts DEF TypeOK, GraphInv, IdsOK
<1>2. Reachable' = Reachable /\ Live' = Live
  BY SameReachable, SameSets
<1>3. CASE node[n].id \in marked
  <2>1. stack' = st /\ marked' = marked
    BY <1>3 DEF ProcessNode
  <2>2. FramesOK' /\ RecursionBounded'
    BY <1>2, <2>1 DEF FramesOK, RecursionBounded, Frames
  <2>3. RootsMarked' /\ SweptMarked' /\ TodoOK'
    BY <1>3, <2>1 DEF RootsMarked, SweptMarked, TodoOK
  <2>4. MarkedClosed'
    BY <1>2, <1>3, <2>1 DEF MarkedClosed, Counted
  <2>5. MarkedReachable'
    BY <1>2, <2>1 DEF MarkedReachable
  <2> QED
    BY <1>1, <2>1, <2>2, <2>3, <2>4, <2>5 DEF MarkInv
<1>4. CASE node[n].id \notin marked
  <2> DEFINE new == [node |-> n, left |-> {i \in Id : node[n].children[i] # NULL}]
  <2>1. stack' = Append(st, new) /\ marked' = marked \union {node[n].id}
    BY <1>4 DEF ProcessNode
  <2>2. new \in Frame /\ new.node = n /\ new.left = {i \in Id : node[n].children[i] # NULL}
    BY <1>1 DEF Frame
  <2> HIDE DEF new
  <2>3. /\ stack' \in Seq(Frame) /\ Len(st) \in Nat
        /\ DOMAIN stack' = 1 .. (Len(st) + 1) /\ DOMAIN st = 1 .. Len(st)
        /\ stack'[Len(st) + 1] = new
        /\ \A k \in 1 .. Len(st) : stack'[k] = st[k]
    BY <2>1, <2>2
  <2>4. \A k \in DOMAIN stack' : k \in DOMAIN st \/ k = Len(st) + 1
    BY <2>3
  <2>5. \A k \in DOMAIN st : /\ k \in DOMAIN stack' /\ k # Len(st) + 1
                             /\ stack'[k] = st[k] /\ st[k].node # n
    BY <1>4, <2>3 DEF Frames
  <2>6. FramesOK'
    BY <1>2, <2>1, <2>2, <2>3, <2>4, <2>5 DEF FramesOK, Frames
  <2>7. RecursionBounded'
    BY <1>2, <2>2, <2>3, <2>4, <2>5 DEF RecursionBounded, Frames
  <2>8. RootsMarked' /\ SweptMarked' /\ TodoOK'
    BY <2>1 DEF RootsMarked, SweptMarked, TodoOK
  <2>9. MarkedClosed'
    <3> SUFFICES ASSUME NEW q \in Live, NEW i \in Id, node[q].id \in marked',
                        Counted(node[q].children[i]), i \notin marked'
                 PROVE  \E k \in DOMAIN stack' : stack'[k].node = q /\ i \in stack'[k].left
      BY <1>2 DEF MarkedClosed, Counted
    <3>1. CASE q = n
      <4>1. i \in new.left
        BY <2>2, <3>1 DEF Counted
      <4>2. Len(st) + 1 \in DOMAIN stack'
        BY <2>3
      <4> QED
        BY <2>2, <2>3, <3>1, <4>1, <4>2
    <3>2. CASE q # n
      <4>1. node[q].id \in marked
        BY <1>1, <2>1, <3>2
      <4>2. PICK k \in DOMAIN st : st[k].node = q /\ i \in st[k].left
        BY <2>1, <4>1
      <4> QED
        BY <2>5, <4>2
    <3> QED
      BY <3>1, <3>2
  <2>10. MarkedReachable'
    BY <1>1, <1>2, <2>1 DEF MarkedReachable
  <2> QED
    BY <1>1, <2>1, <2>3, <2>6, <2>7, <2>8, <2>9, <2>10 DEF MarkInv
<1> QED
  BY <1>3, <1>4

LEMMA MarkRootInv ==
  ASSUME IInv, NEW n \in Cell, MarkRoot(n)
  PROVE  IInv'
<1> USE DEF MarkRoot
<1>1. TypeOK /\ GraphInv /\ MarkInv
  BY DEF IInv
<1>2. n \in Live /\ n \in roots /\ todo' \subseteq roots
  BY <1>1 DEF TypeOK, MarkInv, TodoOK, Rest
<1>3. stack \in Seq(Frame) /\ Frames(stack)
  BY <1>1 DEF TypeOK, Frame, Frames
<1>4. \A r \in roots : node[r].id \in marked \/ r \in todo' \/ r = n
  BY <1>1 DEF MarkInv, RootsMarked, Rest
<1>5. MarkedReachable /\ n \in Reachable
  BY <1>1, <1>2 DEF MarkInv, Reachable
<1>6. \A q \in Live, i \in Id :
        node[q].id \in marked /\ Counted(node[q].children[i]) => i \in marked
  BY <1>1 DEF MarkInv, MarkedClosed
<1>7. MarkInv' /\ stack' \in Seq(Frame) /\ marked' \subseteq Id
  BY <1>1, <1>2, <1>3, <1>4, <1>5, <1>6, ProcessInv
<1>8. TypeOK'
  BY <1>1, <1>7, SameSets DEF TypeOK, Frame, Rest
<1>9. GraphInv'
  BY <1>1, SameGraph DEF Kept, Uncalled, Live
<1> QED
  BY <1>7, <1>8, <1>9 DEF IInv, NeverStopped
LEMMA MarkChildInv ==
  ASSUME IInv, NEW i \in Id, MarkChild(i)
  PROVE  IInv'
<1> DEFINE st   == [stack EXCEPT ![Len(stack)].left = Rest(@, i)]
           edge == node[Top.node].children[i]
           q0   == Top.node
<1>1. TypeOK /\ GraphInv /\ MarkInv /\ pc = "mark" /\ pc' = "mark"
      /\ UNCHANGED <<nodes, lost, roots, node_count, in_use, node, edges, deleters, todo>>
  BY DEF IInv, MarkChild
<1>2. /\ IF Follows(edge) THEN ProcessNode(edge.node, st)
                          ELSE stack' = st /\ UNCHANGED marked
      /\ i \in Top.left /\ stack # << >>
  BY DEF MarkChild
<1>3. /\ stack \in Seq(Frame) /\ Len(stack) \in Nat \ {0}
      /\ DOMAIN stack = 1 .. Len(stack) /\ Len(stack) \in DOMAIN stack
      /\ \A k \in DOMAIN stack : stack[k] \in Frame
  <2>1. stack \in Seq(Frame)
    BY <1>1 DEF TypeOK, Frame
  <2> QED
    BY <1>2, <2>1
<1>4. /\ st \in Seq(Frame) /\ DOMAIN st = DOMAIN stack
      /\ \A k \in DOMAIN st : /\ st[k].node = stack[k].node
                              /\ st[k].left \subseteq stack[k].left
                              /\ \A j \in stack[k].left :
                                   j \in st[k].left \/ (k = Len(stack) /\ j = i)
  <2> DEFINE top == [Top EXCEPT !.left = Rest(@, i)]
  <2>1. Top \in Frame
    BY <1>3 DEF Top
  <2>2. top \in Frame /\ top.node = Top.node /\ top.left = Top.left \ {i}
    BY <2>1 DEF Rest, Frame
  <2>3. st = [stack EXCEPT ![Len(stack)] = top]
    BY DEF Top
  <2> HIDE DEF top, st
  <2>4. st \in Seq(Frame) /\ Len(st) = Len(stack) /\ DOMAIN st = DOMAIN stack
        /\ \A k \in DOMAIN stack : st[k] = IF k = Len(stack) THEN top ELSE stack[k]
    BY <1>3, <2>2, <2>3
  <2> QED
    BY <2>2, <2>4 DEF Top
<1> HIDE DEF st
<1>5. Frames(stack)
  BY <1>1 DEF MarkInv, FramesOK, RecursionBounded, Frames
<1>6. Frames(st)
  BY <1>4, <1>5 DEF Frames
<1>7. q0 \in Live /\ node[q0].id \in marked /\ edge # NULL
  BY <1>2, <1>3, <1>5 DEF Frames, Top
<1>8. \A r \in roots : node[r].id \in marked \/ r \in todo'
  BY <1>1 DEF MarkInv, RootsMarked
<1>9. \A q \in Live, j \in Id :
        node[q].id \in marked /\ Counted(node[q].children[j]) =>
          \/ j \in marked
          \/ q = q0 /\ j = i
          \/ \E k \in DOMAIN st : st[k].node = q /\ j \in st[k].left
  <2> SUFFICES ASSUME NEW q \in Live, NEW j \in Id, node[q].id \in marked,
                      Counted(node[q].children[j]), j \notin marked, ~(q = q0 /\ j = i)
               PROVE  \E k \in DOMAIN st : st[k].node = q /\ j \in st[k].left
    OBVIOUS
  <2>1. PICK k \in DOMAIN stack : stack[k].node = q /\ j \in stack[k].left
    BY <1>1 DEF MarkInv, MarkedClosed
  <2> QED
    BY <1>4, <2>1 DEF Top
<1>10. MarkedReachable
  BY <1>1 DEF MarkInv
<1>11. GraphInv'
  BY <1>1, SameGraph DEF Kept, Uncalled, Live
<1>12. MarkInv' /\ stack' \in Seq(Frame) /\ marked' \subseteq Id
  <2>1. CASE ~Follows(edge)
    <3>1. stack' = st /\ marked' = marked
      BY <1>2, <2>1
    <3>2. ~Counted(edge)
      BY <2>1 DEF Follows, Counted
    <3>3. FramesOK' /\ RecursionBounded'
      BY <1>1, <1>6, <3>1, SameSets DEF FramesOK, RecursionBounded, Frames
    <3>4. RootsMarked' /\ SweptMarked' /\ TodoOK'
      BY <1>1, <1>8, <3>1 DEF RootsMarked, SweptMarked, TodoOK, MarkInv
    <3>5. MarkedClosed'
      BY <1>1, <1>9, <3>1, <3>2, SameSets DEF MarkedClosed, Counted
    <3>6. MarkedReachable'
      BY <1>1, <1>10, <3>1, SameReachable, SameSets DEF MarkedReachable
    <3> QED
      BY <1>1, <1>4, <3>1, <3>3, <3>4, <3>5, <3>6 DEF MarkInv, TypeOK
  <2>2. CASE Follows(edge)
    <3>1. Counted(edge)
      BY <1>7, <2>2 DEF Follows, Counted
    <3>2. edge.node \in Live /\ node[edge.node].id = i
      BY <1>1, <1>7, <3>1 DEF GraphInv, ReferencesOK, Kept
    <3>3. edge.node \in Reachable
      <4>1. q0 \in Reachable
        BY <1>1, <1>7 DEF MarkInv, MarkedReachable
      <4> QED
        BY <3>1, <3>2, <4>1 DEF Reachable, Closed, Counted
    <3> HIDE DEF edge, q0
    <3>4. ProcessNode(edge.node, st)
      BY <1>2, <2>2
    <3>5. todo' \subseteq roots
      BY <1>1 DEF MarkInv, TodoOK
    <3>6. \A r \in roots : node[r].id \in marked \/ r \in todo' \/ r = edge.node
      BY <1>8
    <3>7. \A q \in Live, j \in Id :
            node[q].id \in marked /\ Counted(node[q].children[j]) =>
              \/ j \in marked
              \/ j = node[edge.node].id
              \/ \E k \in DOMAIN st : st[k].node = q /\ j \in st[k].left
      BY <1>9, <3>2
    <3> QED
      BY <1>1, <1>4, <1>6, <1>10, <3>2, <3>3, <3>4, <3>5, <3>6, <3>7, ProcessInv
  <2> QED
    BY <2>1, <2>2
<1>13. TypeOK'
  BY <1>1, <1>12, SameSets DEF TypeOK, Frame
<1> QED
  BY <1>1, <1>11, <1>12, <1>13 DEF IInv, NeverStopped

LEMMA MarkReturnInv ==
  ASSUME IInv, MarkReturn
  PROVE  IInv'
<1> USE DEF MarkReturn
<1>1. TypeOK /\ GraphInv /\ MarkInv
  BY DEF IInv
<1>2. stack \in Seq(Frame)
  BY <1>1 DEF TypeOK, Frame
<1>3. /\ stack' \in Seq(Frame) /\ Len(stack) \in Nat
      /\ DOMAIN stack = 1 .. Len(stack)
      /\ DOMAIN stack' = 1 .. (Len(stack) - 1)
      /\ \A k \in DOMAIN stack' : k \in DOMAIN stack /\ stack'[k] = stack[k]
  BY <1>2
<1>4. \A k \in DOMAIN stack : k \in DOMAIN stack' \/ stack[k].left = {}
  BY <1>3 DEF Top
<1>5. TypeOK'
  BY <1>1, <1>3, SameSets DEF TypeOK, Frame
<1>6. GraphInv'
  BY <1>1, SameGraph DEF Kept, Uncalled, Live
<1>7. FramesOK' /\ RecursionBounded'
  BY <1>1, <1>3, SameSets DEF MarkInv, FramesOK, RecursionBounded
<1>8. RootsMarked' /\ SweptMarked' /\ TodoOK'
  BY <1>1 DEF MarkInv, RootsMarked, SweptMarked, TodoOK
<1>9. MarkedClosed'
  <2> SUFFICES ASSUME NEW q \in Live, NEW i \in Id, node[q].id \in marked,
                      Counted(node[q].children[i]), i \notin marked
               PROVE  \E k \in DOMAIN stack' : stack'[k].node = q /\ i \in stack'[k].left
    BY SameSets DEF MarkedClosed, Counted
  <2>1. PICK k \in DOMAIN stack : stack[k].node = q /\ i \in stack[k].left
    BY <1>1 DEF MarkInv, MarkedClosed
  <2> QED
    BY <1>3, <1>4, <2>1
<1>10. MarkedReachable'
  BY <1>1, SameReachable, SameSets DEF MarkInv, MarkedReachable
<1> QED
  BY <1>1, <1>5, <1>6, <1>7, <1>8, <1>9, <1>10 DEF IInv, NeverStopped, MarkInv

\* With no call left open, the marked nodes are closed.
LEMMA EndMarkInv ==
  ASSUME IInv, EndMark
  PROVE  IInv'
<1> USE DEF EndMark
<1>1. TypeOK /\ GraphInv /\ MarkInv
  BY DEF IInv
<1>2. TypeOK'
  BY <1>1, SameSets DEF TypeOK, Live
<1>3. GraphInv'
  BY <1>1, SameGraph DEF Kept, Uncalled, Live
<1>4. /\ FramesOK' /\ RecursionBounded' /\ RootsMarked' /\ SweptMarked' /\ TodoOK'
      /\ MarkedClosed'
  BY <1>1, SameSets DEF MarkInv, FramesOK, RecursionBounded, RootsMarked,
              SweptMarked, TodoOK, MarkedClosed, Counted
<1>5. MarkedReachable'
  BY <1>1, SameReachable, SameSets DEF MarkInv, MarkedReachable
<1> QED
  BY <1>1, <1>2, <1>3, <1>4, <1>5 DEF IInv, NeverStopped, MarkInv
-----------------------------------------------------------------------------
(* sweep, and the deletion of the graph.                                   *)

LEMMA SweepKeepInv ==
  ASSUME IInv, NEW n \in Cell, SweepKeep(n)
  PROVE  IInv'
<1> USE DEF SweepKeep
<1>1. TypeOK /\ GraphInv /\ MarkInv
  BY DEF IInv
<1>2. TypeOK'
  BY <1>1, SameSets DEF TypeOK, Rest
<1>3. GraphInv'
  BY <1>1, SameGraph DEF Kept, Uncalled, Live
<1>4. FramesOK' /\ RecursionBounded' /\ RootsMarked' /\ SweptMarked' /\ TodoOK'
      /\ MarkedClosed'
  BY <1>1, SameSets DEF MarkInv, FramesOK, RecursionBounded, RootsMarked,
              SweptMarked, TodoOK, MarkedClosed, Counted, Rest
<1>5. MarkedReachable'
  BY <1>1, SameReachable, SameSets DEF MarkInv, MarkedReachable
<1> QED
  BY <1>1, <1>2, <1>3, <1>4, <1>5 DEF IInv, NeverStopped, MarkInv

\* _node_delete changes nothing that tells the edges of a node.
LEMMA DeleteFacts ==
  ASSUME TypeOK, DeletersOK, NEW n \in Open,
         node' = [node EXCEPT ![n].open = FALSE], CallDeleter(node[n].id)
  PROVE  /\ node' \in [Cell -> NodeType]
         /\ \A m \in Cell :
              /\ node'[m].id = node[m].id
              /\ node'[m].children = node[m].children
              /\ node'[m].parents = node[m].parents
              /\ node'[m].open = IF m = n THEN FALSE ELSE node[m].open
         /\ Open' = Open \ {n}
         /\ \A m \in Cell : OwnEdges(m)' = OwnEdges(m)
         /\ deleters' \in [Id -> 0 .. 2]
         /\ \A i \in Id : deleters'[i] = IF i = node[n].id THEN 1 ELSE deleters[i]
<1>1. n \in Cell /\ node \in [Cell -> NodeType] /\ node[n].id \in Id
  BY NodeFacts DEF TypeOK, Open
<1>3. \A r \in NodeType :
        /\ [r EXCEPT !.open = FALSE] \in NodeType
        /\ [r EXCEPT !.open = FALSE].id = r.id
        /\ [r EXCEPT !.open = FALSE].children = r.children
        /\ [r EXCEPT !.open = FALSE].parents = r.parents
        /\ [r EXCEPT !.open = FALSE].open = FALSE
  BY DEF NodeType
<1>4. node' \in [Cell -> NodeType]
  BY <1>1, <1>3
<1>5. \A m \in Cell :
        /\ node'[m].id = node[m].id
        /\ node'[m].children = node[m].children
        /\ node'[m].parents = node[m].parents
        /\ node'[m].open = IF m = n THEN FALSE ELSE node[m].open
  BY <1>1, <1>3
<1>6. \A m \in Cell : OwnEdges(m)' = OwnEdges(m)
  BY <1>5 DEF OwnEdges
<1>9. Open' = Open \ {n}
  BY <1>5 DEF Open
<1>7. deleters[node[n].id] = 0
  BY <1>1 DEF DeletersOK
<1>8. deleters' \in [Id -> 0 .. 2]
      /\ \A i \in Id : deleters'[i] = IF i = node[n].id THEN 1 ELSE deleters[i]
  BY <1>1, <1>7 DEF CallDeleter, TypeOK
<1> QED
  BY <1>4, <1>5, <1>6, <1>8, <1>9

\* A node swept away is no root's, and no marked node refers to it.
LEMMA SweepDeleteInv ==
  ASSUME IInv, NEW n \in Cell, SweepDelete(n)
  PROVE  IInv'
<1>1. TypeOK /\ GraphInv /\ MarkInv /\ pc = "sweep" /\ pc' = "sweep"
      /\ n \in nodes /\ n \in Live /\ node[n].id \notin marked
      /\ nodes' = nodes \ {n} /\ todo' = todo \ {n} /\ stack = << >>
      /\ UNCHANGED <<lost, roots, node_count, marked, stack>>
  BY DEF IInv, SweepDelete, TypeOK, MarkInv, TodoOK, FramesOK, Without, Rest, Live
<1>2. Uncalled = nodes /\ Uncalled' = nodes' /\ n \in Open /\ Live' = Live \ {n}
  BY <1>1 DEF Uncalled, GraphInv, OpenOK, TypeOK, Live
<1>3. EagerEdges \in BOOLEAN /\ EagerNodes \in BOOLEAN
  BY GraphAssumption
<1>4. /\ node' \in [Cell -> NodeType]
      /\ \A m \in Cell :
           /\ node'[m].id = node[m].id
           /\ node'[m].children = node[m].children
           /\ node'[m].parents = node[m].parents
           /\ node'[m].open = IF m = n THEN FALSE ELSE node[m].open
      /\ Open' = Open \ {n}
      /\ \A m \in Cell : OwnEdges(m)' = OwnEdges(m)
      /\ deleters' \in [Id -> 0 .. 2]
      /\ \A i \in Id : deleters'[i] = IF i = node[n].id THEN 1 ELSE deleters[i]
      /\ edges' = IF EagerEdges THEN edges \ OwnEdges(n) ELSE edges
      /\ in_use' = IF EagerNodes THEN in_use \ {n} ELSE in_use
  <2>1. /\ node' = [node EXCEPT ![n].open = FALSE] /\ CallDeleter(node[n].id)
        /\ edges' = IF EagerEdges THEN edges \ OwnEdges(n) ELSE edges
        /\ in_use' = IF EagerNodes THEN in_use \ {n} ELSE in_use
    BY DEF SweepDelete, NodeDelete
  <2>2. n \in Open /\ DeletersOK
    BY <1>1, <1>2 DEF GraphInv
  <2> QED
    BY <1>1, <2>1, <2>2, DeleteFacts
<1>5. /\ Live' \subseteq Live /\ Live \subseteq Owners /\ Owners \subseteq Cell
      /\ Owners' = Owners \ {n} /\ Open \subseteq Owners
      /\ \A m \in Owners : node[m].id = node[n].id => m = n
  <2>1. Live \subseteq Owners /\ Owners = nodes \union Open /\ Owners \subseteq Cell
    BY <1>1, OwnersFacts DEF TypeOK
  <2>2. Owners' = {m \in in_use' : m \in nodes' \/ m \in Open'}
    BY <1>1, <1>3, <1>4 DEF Owners, Open, TypeOK
  <2>3. Owners = {m \in in_use : m \in nodes \/ m \in Open}
    BY <1>1 DEF Owners, Open, TypeOK
  <2>4. Owners' = Owners \ {n}
    BY <1>1, <1>3, <1>4, <2>2, <2>3
  <2> QED
    BY <1>1, <1>2, <2>1, <2>4 DEF GraphInv, IdsOK
<1> /\ node_count' = node_count
    /\ \A m \in Owners' :
         /\ m \in Owners /\ m \in Cell /\ m # n
         /\ node'[m].id = node[m].id
         /\ node'[m].children = node[m].children
         /\ node'[m].parents = node[m].parents
  BY <1>1, <1>4, <1>5
<1> Live' \subseteq Owners'
  BY <1>2, <1>5
<1>6. roots \subseteq Live'
  BY <1>1, <1>2 DEF TypeOK, MarkInv, RootsMarked
<1>7. TypeOK'
  <2>1. Live' \subseteq in_use' /\ in_use' \subseteq Cell
    BY <1>1, <1>2, <1>3, <1>4 DEF TypeOK
  <2>2. edges' \subseteq EdgeName
    BY <1>1, <1>3, <1>4 DEF TypeOK
  <2>3. todo' \subseteq Live' /\ nodes' \intersect lost' = {}
    BY <1>1, <1>2 DEF TypeOK
  <2> QED
    BY <1>1, <1>4, <1>6, <2>1, <2>2, <2>3 DEF TypeOK
<1>8. IdsOK' /\ EdgesNamed' /\ EdgesMirrored'
  <2>1. IdsOK'
    BY <1>1 DEF GraphInv, IdsOK
  <2>2. \A p, c \in Live' : Child(p, c)' = Child(p, c) /\ Parent(c, p)' = Parent(c, p)
    BY <1>4, <1>5 DEF Child, Parent
  <2>3. EdgesMirrored'
    BY <1>1, <1>5, <2>2 DEF GraphInv, EdgesMirrored
  <2>4. EdgesNamed'
    BY <1>1, <1>5, <2>2 DEF GraphInv, EdgesNamed
  <2> QED
    BY <2>1, <2>3, <2>4
<1>9. \A p \in Live : \A i \in Id :
        node[p].id \in marked /\ Counted(node[p].children[i]) => i \in marked
  BY <1>1 DEF MarkInv, MarkedClosed
<1>10. ReferencesOK'
  <2> SUFFICES ASSUME NEW p \in Live', node[p].id \in marked, NEW i \in Id,
                      Counted(node[p].children[i])
               PROVE  /\ node[p].children[i].node \in Live'
                      /\ node[node[p].children[i].node].id = i
    BY <1>1 DEF ReferencesOK, Kept, Counted
  <2>1. /\ node[p].children[i].node \in Live
        /\ node[node[p].children[i].node].id = i
    BY <1>1, <1>5 DEF GraphInv, ReferencesOK, Kept
  <2>2. i \in marked
    BY <1>5, <1>9
  <2> QED
    BY <1>1, <1>2, <1>5, <2>1, <2>2
<1>11. OpenOK' /\ DeletersOK'
  <2>1. OpenOK'
    BY <1>1, <1>2, <1>3, <1>4 DEF GraphInv, OpenOK, TypeOK
  <2>2. node[n].id < node_count
    BY <1>1, <1>5 DEF GraphInv, IdsOK
  <2>3. ASSUME NEW i \in Id
        PROVE  deleters'[i] = IF i < node_count /\ \A m \in Open' : node'[m].id # i
                                THEN 1 ELSE 0
    <3>1. CASE i = node[n].id
      BY <1>4, <1>5, <2>2, <3>1
    <3>2. CASE i # node[n].id
      <4>1. (\A m \in Open' : node'[m].id # i) <=> (\A m \in Open : node[m].id # i)
        BY <1>4, <1>5, <3>2
      <4> QED
        BY <1>1, <1>4, <3>2, <4>1 DEF GraphInv, DeletersOK
    <3> QED
      BY <3>1, <3>2
  <2> QED
    BY <1>1, <2>1, <2>3 DEF DeletersOK
<1>12. EdgesAccounted'
  <2> DEFINE owned == UNION {OwnEdges(m) : m \in Owners}
  <2>1. owned \subseteq edges /\ (EagerEdges => edges \subseteq owned)
    BY <1>1 DEF GraphInv, EdgesAccounted
  <2>2. \A m \in Owners' : \A e \in OwnEdges(m) : e \notin OwnEdges(n)
    <3>1. \A m \in Cell : \A e \in OwnEdges(m) : e[1] = node[m].id
      BY DEF OwnEdges
    <3> QED
      BY <1>1, <1>5, <3>1
  <2>3. owned' = UNION {OwnEdges(m) : m \in Owners'}
    BY <1>4, <1>5
  <2>4. owned = owned' \union OwnEdges(n)
    BY <1>1, <1>5, <2>3
  <2>5. \A e \in owned' : e \notin OwnEdges(n)
    BY <2>2, <2>3
  <2>6. owned' \subseteq edges' /\ (EagerEdges => edges' \subseteq owned')
    <3> HIDE DEF owned
    <3> QED
      BY <1>3, <1>4, <2>1, <2>4, <2>5
  <2> QED
    BY <2>6 DEF EdgesAccounted
<1>13. TodoOK' /\ FramesOK' /\ RecursionBounded' /\ RootsMarked' /\ SweptMarked' /\ MarkedClosed'
  <2>1. FramesOK' /\ RecursionBounded'
    BY <1>1 DEF FramesOK, RecursionBounded
  <2>2. RootsMarked'
    BY <1>1, <1>4, <1>5, <1>6 DEF MarkInv, RootsMarked, TypeOK
  <2>3. SweptMarked'
    BY <1>1, <1>4, <1>5 DEF MarkInv, SweptMarked, Live
  <2>4. MarkedClosed'
    BY <1>1, <1>4, <1>5, <1>9 DEF MarkedClosed, Counted
  <2>5. TodoOK'
    BY <1>1 DEF MarkInv, TodoOK
  <2> QED
    BY <2>1, <2>2, <2>3, <2>4, <2>5
<1>14. MarkedReachable'
  <2> SUFFICES ASSUME NEW m \in Live', node[m].id \in marked,
                      NEW S \in SUBSET Live', roots \subseteq S, Closed(S)'
               PROVE  m \in S
    BY <1>1, <1>4, <1>5 DEF MarkedReachable, Reachable
  <2>1. Closed(S)
    BY <1>4, <1>5 DEF Closed
  <2>2. m \in Reachable
    BY <1>1, <1>5 DEF MarkInv, MarkedReachable
  <2> QED
    BY <1>5, <2>1, <2>2 DEF Reachable
<1> QED
  BY <1>1, <1>7, <1>8, <1>10, <1>11, <1>12, <1>13, <1>14
     DEF IInv, NeverStopped, GraphInv, MarkInv
\* When the sweep is over, nothing unmarked is left in mg->nodes, and the
\* client gives up the unmarked nodes that the set has lost.
LEMMA EndSweepInv ==
  ASSUME IInv, EndSweep
  PROVE  IInv'
<1> USE DEF EndSweep
<1>1. TypeOK /\ GraphInv /\ MarkInv /\ pc = "sweep" /\ pc' = "idle" /\ todo = {}
  BY DEF IInv
<1>2. /\ \A n \in nodes : node[n].id \in marked
      /\ Live' = {n \in Live : node[n].id \in marked}
      /\ Open' = Open /\ Owners' = Owners
  <2>1. \A n \in nodes : node[n].id \in marked
    BY <1>1 DEF MarkInv, SweptMarked
  <2> QED
    BY <2>1 DEF Live, Open, Owners
<1>3. Kept = Live' /\ Kept' = Live' /\ Uncalled' = Uncalled
  BY <1>1, <1>2 DEF Kept, Uncalled
<1>4. TypeOK'
  <2>1. roots \subseteq Live'
    BY <1>1, <1>2 DEF TypeOK, MarkInv, RootsMarked
  <2> QED
    BY <1>1, <1>2, <2>1 DEF TypeOK
<1>5. IdsOK' /\ EdgesNamed' /\ EdgesMirrored'
  BY <1>1, <1>2 DEF GraphInv, IdsOK, EdgesNamed, EdgesMirrored, Child, Parent
<1>6. ReferencesOK'
  <2> SUFFICES ASSUME NEW p \in Live', NEW i \in Id, Counted(node[p].children[i])
               PROVE  /\ node[p].children[i].node \in Live'
                      /\ node[node[p].children[i].node].id = i
    BY <1>3 DEF ReferencesOK, Counted
  <2>1. /\ node[p].children[i].node \in Live
        /\ node[node[p].children[i].node].id = i
    BY <1>1, <1>3 DEF GraphInv, ReferencesOK
  <2>2. i \in marked
    BY <1>1, <1>2 DEF MarkInv, MarkedClosed, FramesOK
  <2> QED
    BY <1>2, <2>1, <2>2
<1>7. OpenOK' /\ DeletersOK'
  BY <1>1, <1>2, <1>3 DEF GraphInv, OpenOK, DeletersOK
<1>8. EdgesAccounted'
  <2>1. \A n : OwnEdges(n)' = OwnEdges(n)
    BY DEF OwnEdges
  <2> QED
    BY <1>1, <1>2, <2>1 DEF GraphInv, EdgesAccounted
<1>9. MarkInv'
  BY <1>1, IdleMark DEF MarkInv, FramesOK, RecursionBounded, RootsMarked, MarkedClosed,
              MarkedReachable, SweptMarked, TodoOK
<1> QED
  BY <1>1, <1>4, <1>5, <1>6, <1>7, <1>8, <1>9 DEF IInv, NeverStopped, GraphInv

LEMMA DeleteInv ==
  ASSUME IInv, Delete
  PROVE  IInv'
<1> USE DEF Delete
<1>1. TypeOK /\ GraphInv /\ MarkInv
  BY DEF IInv
<1>2. TypeOK'
  BY <1>1, SameSets DEF TypeOK, Live
<1>3. GraphInv'
  BY <1>1, SameGraph DEF Kept, Uncalled, Live
<1>4. MarkInv'
  BY <1>1 DEF MarkInv, FramesOK, RecursionBounded, RootsMarked, MarkedClosed,
              MarkedReachable, SweptMarked, TodoOK
<1> QED
  BY <1>1, <1>2, <1>3, <1>4 DEF IInv, NeverStopped

\* mgraph_delete keeps every node in the set it walks.
LEMMA DeleteNodeInv ==
  ASSUME IInv, NEW n \in Cell, DeleteNode(n)
  PROVE  IInv'
<1>1. TypeOK /\ GraphInv /\ MarkInv /\ pc = "delete" /\ pc' = "delete"
      /\ n \in nodes /\ n \in todo /\ todo' = todo \ {n}
      /\ nodes' = nodes /\ edges' = edges /\ in_use' = in_use
      /\ node_count' = node_count
      /\ UNCHANGED <<lost, roots, marked, stack>>
  BY DEF IInv, DeleteNode, NodeDelete, MarkInv, TodoOK, Rest
<1>2. /\ Uncalled = todo /\ Uncalled' = todo' /\ n \in Open /\ todo \subseteq nodes
      /\ Live' = Live /\ Kept = Live /\ Kept' = Live
  BY <1>1 DEF Uncalled, Kept, GraphInv, OpenOK, MarkInv, TodoOK, Live
<1>3. /\ node' \in [Cell -> NodeType]
      /\ \A m \in Cell :
           /\ node'[m].id = node[m].id
           /\ node'[m].children = node[m].children
           /\ node'[m].parents = node[m].parents
           /\ node'[m].open = IF m = n THEN FALSE ELSE node[m].open
      /\ Open' = Open \ {n}
      /\ \A m \in Cell : OwnEdges(m)' = OwnEdges(m)
      /\ deleters' \in [Id -> 0 .. 2]
      /\ \A i \in Id : deleters'[i] = IF i = node[n].id THEN 1 ELSE deleters[i]
  <2>1. node' = [node EXCEPT ![n].open = FALSE] /\ CallDeleter(node[n].id)
    BY DEF DeleteNode, NodeDelete
  <2>2. n \in Open /\ DeletersOK
    BY <1>1, <1>2 DEF GraphInv
  <2> QED
    BY <1>1, <2>1, <2>2, DeleteFacts
<1>4. /\ Owners' = Owners /\ Live \subseteq Owners /\ Owners \subseteq Cell
      /\ Open \subseteq Owners
  <2>1. Live \subseteq Owners /\ Owners = nodes \union Open /\ Owners \subseteq in_use
    BY <1>1, OwnersFacts
  <2>2. \A m \in in_use : node'[m].open = node[m].open \/ m \in nodes
    BY <1>1, <1>3 DEF TypeOK
  <2>3. Owners' = Owners
    BY <1>1, <1>3, <2>2 DEF Owners, TypeOK
  <2> QED
    BY <1>1, <2>1, <2>3 DEF TypeOK
<1> \A m \in Owners :
      /\ m \in Cell
      /\ node'[m].id = node[m].id
      /\ node'[m].children = node[m].children
      /\ node'[m].parents = node[m].parents
      /\ node[m].id = node[n].id => m = n
  BY <1>1, <1>2, <1>3, <1>4 DEF GraphInv, IdsOK
<1>5. TypeOK'
  BY <1>1, <1>2, <1>3 DEF TypeOK
<1>6. IdsOK'
  BY <1>1, <1>4 DEF GraphInv, IdsOK
<1>7. EdgesNamed' /\ EdgesMirrored'
  <2>1. \A p, c \in Live : Child(p, c)' = Child(p, c) /\ Parent(c, p)' = Parent(c, p)
    BY <1>4 DEF Child, Parent
  <2>2. EdgesNamed'
    BY <1>1, <1>2, <1>4, <2>1 DEF GraphInv, EdgesNamed
  <2>3. EdgesMirrored'
    BY <1>1, <1>2, <2>1 DEF GraphInv, EdgesMirrored
  <2> QED
    BY <2>2, <2>3
<1>8. ReferencesOK'
  BY <1>1, <1>2, <1>4 DEF GraphInv, ReferencesOK, Counted
<1>9. OpenOK' /\ DeletersOK'
  <2>1. OpenOK'
    BY <1>1, <1>2, <1>3 DEF GraphInv, OpenOK, TypeOK
  <2>2. node[n].id < node_count
    BY <1>2, <1>4, <1>1 DEF GraphInv, IdsOK
  <2>3. ASSUME NEW i \in Id
        PROVE  deleters'[i] = IF i < node_count /\ \A m \in Open' : node'[m].id # i
                                THEN 1 ELSE 0
    <3>1. CASE i = node[n].id
      BY <1>3, <1>4, <2>2, <3>1
    <3>2. CASE i # node[n].id
      <4>1. (\A m \in Open' : node'[m].id # i) <=> (\A m \in Open : node[m].id # i)
        BY <1>3, <1>4, <3>2
      <4> QED
        BY <1>1, <1>3, <3>2, <4>1 DEF GraphInv, DeletersOK
    <3> QED
      BY <3>1, <3>2
  <2> QED
    BY <1>1, <2>1, <2>3 DEF DeletersOK
<1>10. EdgesAccounted'
  <2> DEFINE owned == UNION {OwnEdges(m) : m \in Owners}
  <2>1. owned' = owned
    BY <1>3, <1>4
  <2> QED
    BY <1>1, <2>1 DEF GraphInv, EdgesAccounted
<1>11. MarkInv'
  BY <1>1 DEF MarkInv, FramesOK, RecursionBounded, RootsMarked, MarkedClosed,
              MarkedReachable, SweptMarked, TodoOK
<1> QED
  BY <1>1, <1>5, <1>6, <1>7, <1>8, <1>9, <1>10, <1>11
     DEF IInv, NeverStopped, GraphInv

LEMMA EndDeleteInv ==
  ASSUME IInv, EndDelete
  PROVE  IInv'
<1> USE DEF EndDelete
<1>1. TypeOK /\ GraphInv /\ MarkInv
  BY DEF IInv
<1>2. Live' = {} /\ Open' = Open /\ Owners' = {}
  BY DEF Live, Open, Owners
<1>3. TypeOK'
  BY <1>1, <1>2 DEF TypeOK
<1>4. IdsOK' /\ EdgesNamed' /\ ReferencesOK' /\ EdgesMirrored'
  BY <1>2 DEF IdsOK, EdgesNamed, ReferencesOK, Kept, EdgesMirrored
<1>5. OpenOK' /\ DeletersOK'
  BY <1>1, <1>2 DEF GraphInv, OpenOK, DeletersOK, Uncalled
<1>6. EdgesAccounted'
  BY <1>2 DEF EdgesAccounted
<1>7. MarkInv'
  BY <1>1 DEF MarkInv, FramesOK, RecursionBounded, RootsMarked, MarkedClosed,
              MarkedReachable, SweptMarked, TodoOK
<1> QED
  BY <1>3, <1>4, <1>5, <1>6, <1>7 DEF IInv, NeverStopped, GraphInv

LEMMA StutterInv ==
  ASSUME IInv, UNCHANGED vars
  PROVE  IInv'
<1> USE DEF vars
<1>1. TypeOK /\ GraphInv /\ MarkInv
  BY DEF IInv
<1>2. TypeOK'
  BY <1>1, SameSets DEF TypeOK
<1>3. GraphInv'
  BY <1>1, SameGraph DEF Kept, Uncalled, Live
<1>4. MarkedReachable'
  BY <1>1, SameReachable, SameSets DEF MarkInv, MarkedReachable
<1>5. /\ FramesOK' /\ RecursionBounded' /\ RootsMarked' /\ SweptMarked' /\ TodoOK'
      /\ MarkedClosed'
  BY <1>1, SameSets DEF MarkInv, FramesOK, RecursionBounded, RootsMarked,
              SweptMarked, TodoOK, MarkedClosed, Counted
<1> QED
  BY <1>1, <1>2, <1>3, <1>4, <1>5 DEF IInv, NeverStopped, MarkInv

-----------------------------------------------------------------------------
LEMMA NextInv == IInv /\ [Next]_vars => IInv'
<1> SUFFICES ASSUME IInv, [Next]_vars PROVE IInv'
  OBVIOUS
<1>1. CASE Build
  BY <1>1, InsertInv, RootInv, IncInv, CollectInv, DeleteInv DEF Build
<1>2. CASE GiveBack
  BY <1>2, DecInv DEF GiveBack
<1>3. CASE Marking
  BY <1>3, MarkRootInv, MarkChildInv, MarkReturnInv, EndMarkInv DEF Marking
<1>4. CASE Sweeping
  BY <1>4, SweepKeepInv, SweepDeleteInv, EndSweepInv DEF Sweeping
<1>5. CASE Deleting
  BY <1>5, DeleteNodeInv, EndDeleteInv DEF Deleting
<1>6. CASE UNCHANGED vars
  BY <1>6, StutterInv
<1> QED
  BY <1>1, <1>2, <1>3, <1>4, <1>5, <1>6 DEF Next, Internal

\* The inductive invariant of the graph.
THEOREM Inductive == Spec => []IInv
  BY InitInv, NextInv, PTL DEF Spec
\* Every variable has its type.
THEOREM TypeCorrect == Spec => []TypeOK
<1>1. IInv => TypeOK
  BY DEF IInv
<1> QED
  BY Inductive, <1>1, PTL

\* mgraph_dec does not stop a client that gives back what mgraph_inc counted.
THEOREM DecNeverFatal == Spec => []NeverStopped
<1>1. IInv => NeverStopped
  BY DEF IInv
<1> QED
  BY Inductive, <1>1, PTL

\* The two ends of a reference agree on its count, collection or not.
THEOREM ReferencesAgree == Spec => []EdgesMirrored
<1>1. IInv => EdgesMirrored
  BY DEF IInv, GraphInv
<1> QED
  BY Inductive, <1>1, PTL

\* The edges that the edge arena has handed out are those in the tables.
THEOREM EdgesInTables == Spec => []EdgesAccounted
<1>1. IInv => EdgesAccounted
  BY DEF IInv, GraphInv
<1> QED
  BY Inductive, <1>1, PTL

\* _process_node is never called for a node while a call for it is open.
THEOREM RecursionEnds == Spec => []RecursionBounded
<1>1. IInv => RecursionBounded
  BY DEF IInv, MarkInv
<1> QED
  BY Inductive, <1>1, PTL

\* The Deleter of a node is called once at most, when its tables are freed,
\* and not while the client may use the node.
THEOREM DeletersCalledOnce == Spec => []DeletedOnce
<1>1. IInv => DeletedOnce
  <2> SUFFICES ASSUME IInv PROVE DeletedOnce
    OBVIOUS
  <2>1. DeletersOK /\ OpenOK /\ TypeOK
    BY DEF IInv, GraphInv
  <2>2. \A i \in Id : deleters[i] <= 1
    BY <2>1 DEF DeletersOK
  <2>3. \A i \in Id : deleters[i] = 1 <=>
          i < node_count /\ \A n \in Cell : node[n].open => node[n].id # i
    BY <2>1 DEF DeletersOK, Open
  <2>4. pc \in {"idle", "mark", "sweep"} => \A n \in Live : node[n].open
    BY <2>1 DEF OpenOK, Uncalled, Open, Live
  <2> QED
    BY <2>2, <2>3, <2>4 DEF DeletedOnce
<1> QED
  BY Inductive, <1>1, PTL

\* A counted reference leads to the node it was made to.
THEOREM ReferencesValid == Spec => []NoDanglingReference
<1>1. IInv => NoDanglingReference
  <2> SUFFICES ASSUME IInv, pc \in {"idle", "mark"}, NEW p \in Live, NEW i \in Id,
                      Counted(node[p].children[i])
               PROVE  LET edge == node[p].children[i] IN
                      edge.node \in Live /\ node[edge.node].id = i
                        /\ node[edge.node].open
    BY DEF NoDanglingReference, Counted
  <2>1. ReferencesOK /\ Live \subseteq Open
    BY DEF IInv, GraphInv, OpenOK, Uncalled, Live
  <2>2. p \in Kept
    BY DEF Kept
  <2> QED
    BY <2>1, <2>2 DEF ReferencesOK, Open
<1> QED
  BY Inductive, <1>1, PTL

-----------------------------------------------------------------------------
(* What a collection does, seen from the references.                       *)

\* While the sweep runs, the marked nodes are the reachable ones.
LEMMA MarkedIsReachable ==
  ASSUME IInv, pc = "sweep"
  PROVE  Reachable = {n \in Live : node[n].id \in marked}
<1> DEFINE M == {n \in Live : node[n].id \in marked}
<1>1. TypeOK /\ GraphInv /\ MarkInv /\ stack = << >>
  BY DEF IInv, MarkInv, FramesOK
<1>2. M \subseteq Reachable
  BY <1>1 DEF MarkInv, MarkedReachable
<1>3. roots \subseteq M
  BY <1>1 DEF MarkInv, RootsMarked, TypeOK
<1>4. Closed(M)
  <2> SUFFICES ASSUME NEW p \in M, NEW i \in Id, Counted(node[p].children[i])
               PROVE  node[p].children[i].node \in M
    BY DEF Closed, Counted
  <2>1. i \in marked
    BY <1>1 DEF MarkInv, MarkedClosed
  <2>2. node[p].children[i].node \in Live /\ node[node[p].children[i].node].id = i
    BY <1>1 DEF GraphInv, ReferencesOK, Kept
  <2> QED
    BY <2>1, <2>2
<1>5. Reachable \subseteq M
  BY <1>3, <1>4 DEF Reachable
<1> QED
  BY <1>2, <1>5

\* What may follow a state of the sweep, and one of mgraph_delete.
LEMMA SweepSteps ==
  ASSUME [Next]_vars, pc = "sweep"
  PROVE  Sweeping \/ UNCHANGED vars
BY DEF Next, Build, GiveBack, Internal, Marking, Deleting, Insert, Root, Inc, Dec,
       CollectGarbage, Delete, MarkRoot, MarkChild, MarkReturn, EndMark, DeleteNode,
       EndDelete

LEMMA DeleteSteps ==
  ASSUME [Next]_vars, pc = "delete"
  PROVE  Deleting \/ UNCHANGED vars
BY DEF Next, Build, GiveBack, Internal, Marking, Sweeping, Insert, Root, Inc, Dec,
       CollectGarbage, Delete, MarkRoot, MarkChild, MarkReturn, EndMark, SweepKeep,
       SweepDelete, EndSweep

\* A collection deletes no node that a root retains.
THEOREM RetainedKept == Spec => RetainedNotDeleted
<1>1. ASSUME IInv, [Next]_vars, pc = "sweep", NEW n \in Reachable
      PROVE  node'[n].open
  <2>1. n \in Live /\ node[n].id \in marked
    BY <1>1, MarkedIsReachable
  <2>2. node[n].open /\ node \in [Cell -> NodeType]
    BY <1>1, <2>1 DEF IInv, TypeOK, GraphInv, OpenOK, Uncalled, Open, Live
  <2>3. node' = node \/ \E m \in Cell : m # n /\ node' = [node EXCEPT ![m].open = FALSE]
    <3>1. CASE Sweeping
      BY <2>1, <3>1 DEF Sweeping, SweepKeep, SweepDelete, NodeDelete, EndSweep
    <3>2. CASE UNCHANGED vars
      BY <3>2 DEF vars
    <3> QED
      BY <1>1, <3>1, <3>2, SweepSteps
  <2>4. n \in Cell
    BY <1>1, <2>1, OwnersFacts DEF IInv
  <2> QED
    BY <2>2, <2>3, <2>4
<1>2. IInv /\ [Next]_vars => [pc = "sweep" => \A n \in Reachable : node'[n].open]_vars
  BY <1>1
<1> QED
  BY Inductive, <1>2, PTL DEF Spec, RetainedNotDeleted

\* A collection leaves in mg->nodes no node that no root retains.
THEOREM GarbageCollected == Spec => CollectsAllGarbage
<1>1. ASSUME IInv, [Next]_vars, pc = "sweep", pc' = "idle"
      PROVE  nodes \subseteq Reachable
  <2>1. Reachable = {n \in Live : node[n].id \in marked}
    BY <1>1, MarkedIsReachable
  <2>2. todo = {}
    <3>1. CASE Sweeping
      BY <1>1, <3>1 DEF Sweeping, SweepKeep, SweepDelete, EndSweep
    <3>2. CASE UNCHANGED vars
      BY <1>1, <3>2 DEF vars
    <3> QED
      BY <1>1, <3>1, <3>2, SweepSteps
  <2> QED
    BY <1>1, <2>1, <2>2 DEF IInv, MarkInv, SweptMarked, Live
<1>2. IInv /\ [Next]_vars
        => [pc = "sweep" /\ pc' = "idle" => nodes \subseteq Reachable]_vars
  BY <1>1
<1> QED
  BY Inductive, <1>2, PTL DEF Spec, CollectsAllGarbage

\* mgraph_delete calls the Deleters of the nodes left in mg->nodes: all of
\* them, and not those of the nodes that the set has lost.
THEOREM DeleteMeetsAllLeft == Spec => DeleteCallsAllLeft
<1> DEFINE met == /\ \A n \in nodes : ~node[n].open
                  /\ \A n \in lost : node[n].open
<1>1. ASSUME IInv, [Next]_vars, pc = "delete", pc' = "deleted"
      PROVE  met
  <2>1. todo = {}
    <3>1. CASE Deleting
      BY <1>1, <3>1 DEF Deleting, DeleteNode, EndDelete
    <3>2. CASE UNCHANGED vars
      BY <1>1, <3>2 DEF vars
    <3> QED
      BY <1>1, <3>1, <3>2, DeleteSteps
  <2> QED
    BY <1>1, <2>1 DEF IInv, TypeOK, GraphInv, OpenOK, Uncalled, Open, Live
<1>2. IInv /\ [Next]_vars => [pc = "delete" /\ pc' = "deleted" => met]_vars
  BY <1>1
<1> QED
  BY Inductive, <1>2, PTL DEF Spec, DeleteCallsAllLeft
-----------------------------------------------------------------------------
(* The graph implements its contract.                                      *)

\* An entity that is held or lost is the id of a node that is open.
LEMMA AliveNodes ==
  ASSUME IInv
  PROVE  /\ Alive \subseteq Live /\ Live \subseteq Cell /\ Alive \subseteq Owners
         /\ Alive = Uncalled \union lost /\ Uncalled \intersect lost = {}
         /\ \A i \in Id : NodesOf(i) = {n \in Alive : node[n].id = i}
         /\ \A n \in Alive : /\ node[n].id \in Id
                             /\ NodesOf(node[n].id) = {n}
                             /\ NodeOf(node[n].id) = n
<1>1. TypeOK /\ GraphInv
  BY DEF IInv
<1>2. /\ Alive \subseteq Live /\ Live \subseteq Cell /\ Alive \subseteq Owners
      /\ Alive = Uncalled \union lost /\ Uncalled \intersect lost = {}
  BY <1>1, OwnersFacts DEF Alive, GraphInv, OpenOK, Live, TypeOK
<1>3. \A i : NodesOf(i) = {n \in Alive : node[n].id = i}
  BY <1>2 DEF NodesOf, Alive, Open
<1>4. ASSUME NEW n \in Alive
      PROVE  /\ node[n].id \in Id
             /\ NodesOf(node[n].id) = {n}
             /\ NodeOf(node[n].id) = n
  <2>1. node[n].id \in Id
    BY <1>1, <1>2, NodeFacts
  <2>2. NodesOf(node[n].id) = {n}
    BY <1>1, <1>2, <1>3 DEF GraphInv, IdsOK
  <2> QED
    BY <2>1, <2>2 DEF NodeOf
<1> QED
  BY <1>2, <1>3, <1>4

\* What has become of an entity, told from the nodes alone.
Stage(i) == IF i >= node_count THEN "new"
            ELSE IF \E n \in Uncalled : node[n].id = i THEN "held"
            ELSE IF \E n \in lost : node[n].id = i THEN "lost"
            ELSE IF \E n \in Open : node[n].id = i THEN "leaked"
            ELSE "deleted"

LEMMA StatusIs == IInv => Status = [i \in Id |-> Stage(i)]
<1> SUFFICES ASSUME IInv, NEW i \in Id PROVE Fate(i) = Stage(i)
  BY DEF Status
<1>1. TypeOK /\ GraphInv
  BY DEF IInv
<1>2. deleters[i] = IF i < node_count /\ \A n \in Open : node[n].id # i THEN 1 ELSE 0
  BY <1>1 DEF GraphInv, DeletersOK
<1>3. /\ Among(nodes, i) <=> \E n \in Uncalled : node[n].id = i
      /\ Among(lost, i) <=> \E n \in lost : node[n].id = i
  <2>1. /\ nodes \intersect Open = Uncalled /\ lost \subseteq Open
        /\ nodes \subseteq Cell /\ lost \subseteq Cell
    BY <1>1, OwnersFacts DEF GraphInv, OpenOK, Live
  <2> QED
    BY <2>1 DEF Among, Open
<1>4. Uncalled \subseteq Open /\ lost \subseteq Open
  BY <1>1 DEF GraphInv, OpenOK
<1>5. i \in Nat /\ node_count \in Nat
  BY <1>1, IdFacts DEF TypeOK
<1>6. i < node_count <=> ~(i >= node_count)
  BY <1>5
<1>7. CASE i < node_count /\ \A n \in Open : node[n].id # i
  BY <1>2, <1>4, <1>6, <1>7 DEF Fate, Stage
<1>8. CASE i >= node_count
  <2>1. deleters[i] = 0
    BY <1>2, <1>6, <1>8
  <2>2. Fate(i) = "new"
    BY <1>6, <1>8, <2>1 DEF Fate
  <2> QED
    BY <1>8, <2>2 DEF Stage
<1>9. CASE i < node_count /\ \E n \in Open : node[n].id = i
  <2>1. deleters[i] = 0
    BY <1>2, <1>9
  <2>2. Fate(i) = IF Among(nodes, i) THEN "held"
                  ELSE IF Among(lost, i) THEN "lost" ELSE "leaked"
    BY <1>6, <1>9, <2>1 DEF Fate
  <2> QED
    BY <1>3, <1>6, <1>9, <2>2 DEF Stage
<1> QED
  BY <1>6, <1>7, <1>8, <1>9

LEMMA NextStatusIs == IInv' => (Status = [i \in Id |-> Stage(i)])'
  BY StatusIs, PTL

LEMMA HeldIs ==
  ASSUME IInv
  PROVE  /\ Entities!Held = {node[n].id : n \in Uncalled}
         /\ Entities!Live = {node[n].id : n \in Alive}
<1>1. TypeOK /\ GraphInv
  BY DEF IInv
<1>2. \A n \in Alive : node[n].id \in Id /\ ~(node[n].id >= node_count)
  <2>1. \A n \in Alive : node[n].id < node_count /\ node[n].id \in Id
    BY <1>1, AliveNodes DEF GraphInv, IdsOK
  <2>2. node_count \in Nat
    BY <1>1 DEF TypeOK
  <2> QED
    BY <2>1, <2>2, IdFacts
<1>3. Alive = Uncalled \union lost
  BY AliveNodes
<1>4. \A i \in Id : /\ Stage(i) = "held" <=> \E n \in Uncalled : node[n].id = i
                    /\ Stage(i) \in {"held", "lost"} <=> \E n \in Alive : node[n].id = i
  BY <1>2, <1>3 DEF Stage
<1>5. \A i \in Id : Status[i] = Stage(i)
  BY StatusIs
<1> QED
  BY <1>2, <1>3, <1>4, <1>5 DEF Entities!Held, Entities!Live

LEMMA RefsIs ==
  ASSUME IInv
  PROVE  \A p, c \in Alive : Refs[node[p].id][node[c].id] = RefCount(p, c)
<1> SUFFICES ASSUME NEW p \in Alive, NEW c \in Alive
             PROVE  Refs[node[p].id][node[c].id] = RefCount(p, c)
  OBVIOUS
<1>1. /\ node[p].id \in Id /\ NodesOf(node[p].id) = {p} /\ NodeOf(node[p].id) = p
      /\ node[c].id \in Id /\ NodesOf(node[c].id) = {c} /\ NodeOf(node[c].id) = c
  BY AliveNodes
<1>2. Between(node[p].id, node[c].id) = RefCount(p, c)
  BY <1>1 DEF Between
<1> QED
  BY <1>1, <1>2 DEF Refs

\* A step that leaves the graph alone leaves the entities alone.
LEMMA SameEntities ==
  ASSUME UNCHANGED <<nodes, lost, roots, node_count, node, deleters>>
  PROVE  UNCHANGED <<Status, Rooted, Refs>>
<1>1. \A i \in Id : NodesOf(i)' = NodesOf(i)
  BY SameSets DEF NodesOf
<1>2. \A i \in Id : NodeOf(i)' = NodeOf(i)
  BY <1>1 DEF NodeOf
<1>3. \A p, c : RefCount(p, c)' = RefCount(p, c)
  BY DEF RefCount, Child
<1>4. \A i, j \in Id : Between(i, j)' = Between(i, j)
  BY <1>1, <1>2, <1>3 DEF Between
<1>5. Refs' = Refs
  BY <1>4 DEF Refs
<1>6. Rooted' = Rooted
  BY <1>1 DEF Rooted
<1>7. Status' = Status
  BY DEF Status, Fate, Among
<1> QED
  BY <1>5, <1>6, <1>7

LEMMA InsertEntity ==
  ASSUME IInv, NEW n \in Cell, Insert(n), NEW k, k = node_count
  PROVE  Entities!Insert(k)
<1>1. /\ TypeOK /\ GraphInv /\ pc = "idle" /\ pc' = "idle"
      /\ Uncalled = nodes /\ Uncalled' = nodes'
  BY DEF IInv, Insert, Uncalled
<1>2. /\ k \in Id /\ k \in Nat
      /\ n \notin Live /\ n \notin Open /\ n \notin roots
      /\ Live \subseteq Cell /\ nodes \subseteq Live /\ lost \subseteq Live
      /\ Open \subseteq Owners /\ Live \subseteq Owners /\ Owners \subseteq Cell
  <2>1. Owners = nodes \union Open /\ Live \subseteq Owners /\ Owners \subseteq in_use
    BY <1>1, OwnersFacts
  <2> QED
    BY <1>1, <2>1, IdFacts DEF TypeOK, Insert, Live
<1> PICK dropped \in Drops : /\ nodes' = (nodes \ dropped) \union {n}
                             /\ lost' = lost \union dropped
  BY DEF Insert
<1>3. /\ node'[n] = [id |-> k, children |-> NoEdges,
                     parents |-> NoEdges, open |-> TRUE]
      /\ \A m \in Cell : m # n => node'[m] = node[m]
      /\ dropped \subseteq nodes
      /\ Live' = Live \union {n} /\ Open' = Open \union {n}
      /\ UNCHANGED <<roots, deleters>>
      /\ node_count' = k + 1
  <2>1. /\ node'[n] = [id |-> k, children |-> NoEdges,
                       parents |-> NoEdges, open |-> TRUE]
        /\ \A m \in Cell : m # n => node'[m] = node[m]
    BY <1>1 DEF Insert, TypeOK
  <2>2. dropped \subseteq nodes
    BY DEF Drops
  <2> QED
    BY <1>1, <2>1, <2>2 DEF Insert, Live, Open
<1>14. \A m \in Owners : m # n /\ node'[m] = node[m] /\ node[m].id # k
                         /\ node[m].id \in Id
  <2>1. \A m \in Owners : node[m].id < node_count /\ m \in in_use
    BY <1>1 DEF GraphInv, IdsOK, Owners
  <2>2. n \notin in_use
    BY DEF Insert
  <2>3. \A m \in Owners : node[m].id \in Id
    BY <1>1, <1>2, NodeFacts
  <2> QED
    BY <1>2, <1>3, <2>1, <2>2, <2>3, IdFacts
<1>4. \A i \in Id : NodesOf(i)' = IF i = k THEN {n} ELSE NodesOf(i)
  BY <1>2, <1>3, <1>14 DEF NodesOf
<1>5. NodesOf(k) = {}
  BY <1>2, <1>14 DEF NodesOf
<1>6. \A i \in Id : i # k => NodeOf(i)' = NodeOf(i)
  BY <1>4 DEF NodeOf
<1>7. NodeOf(k)' = n
  BY <1>2, <1>4 DEF NodeOf
<1>8. Refs' = Refs
  <2>1. ASSUME NEW i \in Id, NEW j \in Id
        PROVE  Between(i, j)' = Between(i, j)
    <3>1. CASE {} \in {NodesOf(i), NodesOf(j)}'
      BY <1>4, <1>5, <3>1 DEF Between
    <3>2. CASE i # k /\ j # k /\ {} \notin {NodesOf(i), NodesOf(j)}'
      <4>1. NodesOf(i)' = NodesOf(i) /\ NodesOf(j)' = NodesOf(j)
        BY <1>4, <3>2
      <4>2. NodeOf(i) \in Live /\ NodeOf(j) \in Live
        BY <3>2, <4>1 DEF NodeOf, NodesOf
      <4>3. NodeOf(i)' = NodeOf(i) /\ NodeOf(j)' = NodeOf(j)
        BY <1>6, <3>2
      <4>4. NodeOf(i) # n /\ NodeOf(j) # n /\ NodeOf(i) \in Cell /\ NodeOf(j) \in Cell
        BY <1>2, <4>2, AliveNodes
      <4>5. RefCount(NodeOf(i), NodeOf(j))' = RefCount(NodeOf(i), NodeOf(j))
        BY <1>3, <4>3, <4>4 DEF RefCount, Child
      <4> QED
        BY <4>1, <4>5 DEF Between
    <3>3. CASE (i = k \/ j = k) /\ {} \notin {NodesOf(i), NodesOf(j)}'
      <4>1. Between(i, j) = 0
        BY <1>5, <3>3 DEF Between
      <4>2. node'[NodeOf(i)'].children[node'[NodeOf(j)'].id] = NULL
        <5>1. CASE i = k
          <6>1. NodeOf(j)' \in NodesOf(j)'
            BY <3>3 DEF NodeOf
          <6>2. node'[NodeOf(j)'].id \in Id
            BY <6>1 DEF NodesOf
          <6> QED
            BY <1>3, <1>7, <5>1, <6>2 DEF NoEdges
        <5>2. CASE i # k /\ j = k
          <6>1. NodesOf(i)' = NodesOf(i) /\ NodeOf(i)' = NodeOf(i)
            BY <1>4, <1>6, <5>2
          <6>2. NodeOf(i) \in Live
            BY <3>3, <6>1 DEF NodeOf, NodesOf
          <6>3. NodeOf(i) # n /\ NodeOf(i) \in Cell
            BY <1>2, <6>2, AliveNodes
          <6>4. node[NodeOf(i)].children[k] = NULL
            BY <1>1, <1>2, <6>2 DEF GraphInv, EdgesNamed
          <6>5. node'[NodeOf(j)'].id = k
            BY <1>3, <1>7, <5>2
          <6> QED
            BY <1>3, <6>1, <6>3, <6>4, <6>5
        <5> QED
          BY <3>3, <5>1, <5>2
      <4>3. RefCount(NodeOf(i), NodeOf(j))' = 0
        BY <4>2 DEF RefCount, Child
      <4> QED
        BY <3>3, <4>1, <4>3 DEF Between
    <3> QED
      BY <3>1, <3>2, <3>3
  <2> QED
    BY <2>1 DEF Refs
<1>9. Rooted' = Rooted
  BY <1>2, <1>3, <1>4, <1>5 DEF Rooted
<1> DEFINE D == {node[m].id : m \in dropped}
<1>10. D \in Entities!Drops
  <2>1. CASE dropped = {}
    BY <2>1 DEF Entities!Drops
  <2>2. CASE dropped # {}
    <3>1. PICK m \in nodes : dropped = {m} /\ Worn
      BY <2>2 DEF Drops
    <3>2. node[m].id \in Entities!Held /\ node[m].id \in Id
      BY <1>1, <1>2, <1>14, HeldIs
    <3>3. PICK d \in Id : Status[d] = "deleted"
      <4>1. PICK i \in Id : deleters[i] > 0
        BY <3>1 DEF Worn
      <4>2. deleters[i] = 1
        BY <1>1, <4>1 DEF GraphInv, DeletersOK
      <4> QED
        BY <4>2 DEF Status, Fate
    <3> QED
      BY <3>1, <3>2, <3>3 DEF Entities!Drops
  <2> QED
    BY <2>1, <2>2
<1>12. Status[k] = "new"
  BY <1>2, StatusIs DEF Stage
<1>13. Status' = [x \in Id |-> IF x = k THEN "held"
                              ELSE IF x \in D THEN "lost" ELSE Status[x]]
  <2>1. \A x \in Id : Status'[x] = Stage(x)'
    BY InsertInv, NextStatusIs
  <2>2. \A x \in Id : Status[x] = Stage(x)
    BY StatusIs
  <2>3. Stage(k)' = "held"
    BY <1>1, <1>2, <1>3 DEF Stage
  <2>4. ASSUME NEW x \in Id, x \in D PROVE Stage(x)' = "lost"
    <3>1. PICK m \in dropped : x = node[m].id
      BY <2>4
    <3>2. m \in nodes /\ m \in Owners /\ node'[m] = node[m] /\ x # k
      BY <1>2, <1>3, <1>14, <3>1
    <3>3. ~(x >= k + 1)
      <4>1. x < k /\ x \in Nat
        BY <1>1, <3>1, <3>2, IdFacts DEF GraphInv, IdsOK
      <4> QED
        BY <1>2, <4>1
    <3>4. \A q \in nodes' : node'[q].id # x
      <4>1. \A q \in Owners : node[q].id = x => q = m
        BY <1>1, <3>1, <3>2 DEF GraphInv, IdsOK
      <4> QED
        BY <1>2, <1>3, <1>14, <3>2, <4>1
    <3>5. \E q \in lost' : node'[q].id = x
      BY <3>1, <3>2
    <3> QED
      BY <1>1, <1>3, <3>3, <3>4, <3>5 DEF Stage
  <2>5. ASSUME NEW x \in Id, x # k, x \notin D PROVE Stage(x)' = Stage(x)
    <3>1. x >= k + 1 <=> x >= k
      BY <1>2, <2>5, IdFacts
    <3>2. (\E q \in nodes' : node'[q].id = x) <=> \E q \in nodes : node[q].id = x
      BY <1>2, <1>3, <1>14, <2>5
    <3>3. (\E q \in lost' : node'[q].id = x) <=> \E q \in lost : node[q].id = x
      BY <1>2, <1>3, <1>14, <2>5
    <3>4. (\E q \in Open' : node'[q].id = x) <=> \E q \in Open : node[q].id = x
      BY <1>2, <1>3, <1>14, <2>5
    <3> QED
      BY <1>1, <1>3, <3>1, <3>2, <3>3, <3>4 DEF Stage
  <2>6. Status' = [x \in Id |-> Status'[x]]
    BY DEF Status
  <2> HIDE DEF D
  <2> QED
    BY <2>1, <2>2, <2>3, <2>4, <2>5, <2>6
<1>11. Phase = "open" /\ Phase' = "open"
  BY <1>1 DEF Phase
<1> HIDE DEF D
<1> QED
  BY <1>2, <1>8, <1>9, <1>10, <1>11, <1>12, <1>13 DEF Entities!Insert

LEMMA RootEntity ==
  ASSUME IInv, NEW n \in Cell, Root(n)
  PROVE  Entities!Root(node[n].id)
<1>1. pc = "idle" /\ pc' = "idle" /\ n \in Alive /\ roots' = roots \union {n}
      /\ UNCHANGED <<nodes, lost, node_count, node, deleters>>
  BY DEF Root, IInv, GraphInv, OpenOK, Uncalled, Alive, Live
<1>2. node[n].id \in Id /\ NodesOf(node[n].id) = {n}
  BY <1>1, AliveNodes
<1>3. \A i \in Id : NodesOf(i)' = NodesOf(i)
  BY <1>1, SameSets DEF NodesOf
<1>4. \A i \in Id : n \in NodesOf(i) <=> i = node[n].id
  BY <1>2 DEF NodesOf
<1>5. Rooted' = Rooted \union {node[n].id}
  BY <1>1, <1>2, <1>3, <1>4 DEF Rooted
<1>6. Refs' = Refs
  <2>1. \A i \in Id : NodeOf(i)' = NodeOf(i)
    BY <1>3 DEF NodeOf
  <2>2. \A p, c : RefCount(p, c)' = RefCount(p, c)
    BY <1>1 DEF RefCount, Child
  <2>3. \A i, j \in Id : Between(i, j)' = Between(i, j)
    BY <1>3, <2>1, <2>2 DEF Between
  <2> QED
    BY <2>3 DEF Refs
<1>7. Status' = Status
  BY <1>1 DEF Status, Fate, Among
<1>8. Phase = "open" /\ Phase' = "open"
  BY <1>1 DEF Phase
<1>9. node[n].id \in Entities!Live
  BY <1>1, HeldIs
<1> QED
  BY <1>5, <1>6, <1>7, <1>8, <1>9 DEF Entities!Root
\* One count changes.
LEMMA CountChanged ==
  ASSUME IInv, NEW p \in Cell, NEW c \in Cell, pc = "idle", pc' = "idle",
         {p, c} \subseteq Live, NEW d,
         NEW x \in EdgeType, NEW y, x.ref_count = d,
         Stored(node', node, p, c, node[c].id, node[p].id, x, y),
         UNCHANGED <<nodes, lost, roots, node_count, deleters>>
  PROVE  /\ {node[p].id, node[c].id} \subseteq Entities!Live
         /\ Refs[node[p].id][node[c].id] = RefCount(p, c)
         /\ Refs' = [Refs EXCEPT ![node[p].id][node[c].id] = d]
         /\ UNCHANGED <<Phase, Status, Rooted>>
<1>1. Alive = Live /\ Live \subseteq Cell /\ Live' = Live /\ Live \subseteq Owners
  BY AliveNodes, SameSets DEF IInv, GraphInv, OpenOK, Uncalled, Alive, Live
<1>2. PICK i \in Id, j \in Id : i = node[p].id /\ j = node[c].id
  BY <1>1, AliveNodes
<1>3. NodesOf(i) = {p} /\ NodesOf(j) = {c} /\ NodeOf(i) = p /\ NodeOf(j) = c
  BY <1>1, <1>2, AliveNodes
<1>4. \A m \in Cell : node'[m].id = node[m].id /\ node'[m].open = node[m].open
  BY DEF Stored
<1>5. \A k \in Id : NodesOf(k)' = NodesOf(k)
  BY <1>1, <1>4 DEF NodesOf
<1>6. \A k \in Id : NodeOf(k)' = NodeOf(k)
  BY <1>5 DEF NodeOf
<1>7. \A a, b \in Live :
        Child(a, b)' = IF a = p /\ b = c THEN x ELSE Child(a, b)
  <2> SUFFICES ASSUME NEW a \in Live, NEW b \in Live
               PROVE  Child(a, b)' = IF a = p /\ b = c THEN x ELSE Child(a, b)
    OBVIOUS
  <2>1. node[b].id \in Id /\ a \in Cell /\ b \in Cell
    BY <1>1, AliveNodes
  <2>2. node[b].id = node[c].id => b = c
    BY <1>1 DEF IInv, GraphInv, IdsOK
  <2>3. node'[a].children[node'[b].id]
          = IF a = p /\ node[b].id = node[c].id THEN x ELSE node[a].children[node[b].id]
    BY <1>4, <2>1 DEF Stored
  <2> QED
    BY <2>2, <2>3 DEF Child
<1>8. \A a, b \in Live :
        RefCount(a, b)' = IF a = p /\ b = c THEN d ELSE RefCount(a, b)
  <2>1. x # NULL
    BY IdFacts
  <2> QED
    BY <1>7, <2>1 DEF RefCount
<1>9. \A k, l \in Id :
        Between(k, l)' = IF k = i /\ l = j THEN d ELSE Between(k, l)
  <2> SUFFICES ASSUME NEW k \in Id, NEW l \in Id
               PROVE  Between(k, l)' = IF k = i /\ l = j THEN d ELSE Between(k, l)
    OBVIOUS
  <2>1. CASE {} \in {NodesOf(k), NodesOf(l)}
    BY <1>3, <1>5, <2>1 DEF Between
  <2>2. CASE {} \notin {NodesOf(k), NodesOf(l)}
    <3>1. /\ NodeOf(k) \in Live /\ node[NodeOf(k)].id = k
          /\ NodeOf(l) \in Live /\ node[NodeOf(l)].id = l
      BY <2>2 DEF NodeOf, NodesOf
    <3>2. (NodeOf(k) = p <=> k = i) /\ (NodeOf(l) = c <=> l = j)
      BY <1>2, <1>3, <3>1
    <3>3. Between(k, l)' = RefCount(NodeOf(k), NodeOf(l))'
          /\ Between(k, l) = RefCount(NodeOf(k), NodeOf(l))
      BY <1>5, <2>2 DEF Between
    <3> QED
      BY <1>6, <1>8, <3>1, <3>2, <3>3
  <2> QED
    BY <2>1, <2>2
<1>10. Refs' = [Refs EXCEPT ![i][j] = d]
  <2> DEFINE F == [k \in Id |-> [l \in Id |->
                     IF k = i /\ l = j THEN d ELSE Between(k, l)]]
  <2>1. Refs' = F
    BY <1>9, Zenon DEF Refs
  <2>2. [Refs EXCEPT ![i][j] = d] = F
    BY DEF Refs
  <2> QED
    BY <2>1, <2>2
<1>11. UNCHANGED <<Phase, Status, Rooted>>
  <2>1. \A k : Among(nodes, k)' = Among(nodes, k) /\ Among(lost, k)' = Among(lost, k)
    BY <1>1, <1>4 DEF Among, Live
  <2> QED
    BY <1>5, <2>1 DEF Phase, Status, Fate, Rooted
<1>12. i \in Entities!Live /\ j \in Entities!Live
  BY <1>1, <1>2, HeldIs
<1>13. Refs[i][j] = RefCount(p, c)
  BY <1>3 DEF Refs, Between
<1> QED
  BY <1>2, <1>10, <1>11, <1>12, <1>13

LEMMA IncEntity ==
  ASSUME IInv, NEW p \in Cell, NEW c \in Cell, Inc(p, c)
  PROVE  Entities!Inc(node[p].id, node[c].id)
<1> DEFINE x == Increased(Child(p, c), c)
           y == Increased(Parent(c, p), p)
<1>1. /\ x \in EdgeType /\ x.ref_count = RefCount(p, c) + 1
      /\ Stored(node', node, p, c, node[c].id, node[p].id, x, y)
  BY IncStored
<1>2. /\ pc = "idle" /\ pc' = "idle" /\ {p, c} \subseteq Live
      /\ UNCHANGED <<nodes, lost, roots, node_count, deleters>>
  BY DEF Inc
<1> HIDE DEF x, y
<1>3. /\ {node[p].id, node[c].id} \subseteq Entities!Live
      /\ Refs[node[p].id][node[c].id] = RefCount(p, c)
      /\ Refs' = [Refs EXCEPT ![node[p].id][node[c].id] = RefCount(p, c) + 1]
      /\ UNCHANGED <<Phase, Status, Rooted>>
  BY <1>1, <1>2, CountChanged
<1>4. Refs' = [Refs EXCEPT ![node[p].id][node[c].id] = @ + 1]
  BY <1>3, Zenon
<1>5. Phase = "open"
  BY <1>2 DEF Phase
<1> QED
  BY <1>3, <1>4, <1>5 DEF Entities!Inc

LEMMA DecEntity ==
  ASSUME IInv, NEW p \in Cell, NEW c \in Cell, RefCount(p, c) > 0, Dec(p, c)
  PROVE  Entities!Dec(node[p].id, node[c].id)
<1> DEFINE x == Decreased(Child(p, c))
           y == Decreased(Parent(c, p))
<1>1. /\ x \in EdgeType /\ x.ref_count = RefCount(p, c) - 1 /\ pc' = pc
      /\ Stored(node', node, p, c, node[c].id, node[p].id, x, y)
  BY DecStored
<1>2. /\ pc = "idle" /\ pc' = "idle" /\ {p, c} \subseteq Live
      /\ UNCHANGED <<nodes, lost, roots, node_count, deleters>>
  BY <1>1 DEF Dec
<1> HIDE DEF x, y
<1>3. /\ {node[p].id, node[c].id} \subseteq Entities!Live
      /\ Refs[node[p].id][node[c].id] = RefCount(p, c)
      /\ Refs' = [Refs EXCEPT ![node[p].id][node[c].id] = RefCount(p, c) - 1]
      /\ UNCHANGED <<Phase, Status, Rooted>>
  BY <1>1, <1>2, CountChanged
<1>4. Refs' = [Refs EXCEPT ![node[p].id][node[c].id] = @ - 1]
  BY <1>3, Zenon
<1>5. Phase = "open"
  BY <1>2 DEF Phase
<1> QED
  BY <1>3, <1>4, <1>5 DEF Entities!Dec
\* Entities come to an end with their nodes.
LEMMA EntitiesEnd ==
  ASSUME IInv, NEW S \in SUBSET Id,
         \A i \in Id : NodesOf(i)' = IF i \in S THEN {} ELSE NodesOf(i),
         \A i \in Id \ S : NodesOf(i) \intersect roots' = NodesOf(i) \intersect roots,
         \A m \in Cell : /\ node'[m].id = node[m].id
                         /\ node'[m].children = node[m].children
  PROVE  /\ Rooted' = Rooted \ S
         /\ Refs' = [p \in Id |-> [c \in Id |->
                       IF p \in S \/ c \in S THEN 0 ELSE Refs[p][c]]]
<1>1. Rooted' = Rooted \ S
  BY DEF Rooted
<1>2. ASSUME NEW p \in Id, NEW c \in Id
      PROVE  Between(p, c)' = IF p \in S \/ c \in S THEN 0 ELSE Between(p, c)
  <2>1. CASE p \in S \/ c \in S
    BY <2>1 DEF Between
  <2>2. CASE ~(p \in S \/ c \in S)
    <3>1. NodesOf(p)' = NodesOf(p) /\ NodesOf(c)' = NodesOf(c)
      BY <2>2
    <3>2. NodeOf(p)' = NodeOf(p) /\ NodeOf(c)' = NodeOf(c)
      BY <3>1 DEF NodeOf
    <3>3. CASE {} \in {NodesOf(p), NodesOf(c)}
      BY <2>2, <3>1, <3>3 DEF Between
    <3>4. CASE {} \notin {NodesOf(p), NodesOf(c)}
      <4>1. NodeOf(p) \in Cell /\ NodeOf(c) \in Cell
        BY <3>4, AliveNodes DEF NodeOf, NodesOf
      <4>2. RefCount(NodeOf(p), NodeOf(c))' = RefCount(NodeOf(p), NodeOf(c))
        BY <3>2, <4>1 DEF RefCount, Child
      <4> QED
        BY <2>2, <3>1, <4>2 DEF Between
    <3> QED
      BY <3>3, <3>4
  <2> QED
    BY <2>1, <2>2
<1>3. Refs' = [p \in Id |-> [c \in Id |->
                IF p \in S \/ c \in S THEN 0 ELSE Refs[p][c]]]
  BY <1>2 DEF Refs
<1> QED
  BY <1>1, <1>3

\* The Deleter of a node is called: its entity is deleted, with its references.
LEMMA DeletedEntity ==
  ASSUME IInv, NEW n \in Uncalled,
         node' = [node EXCEPT ![n].open = FALSE], CallDeleter(node[n].id),
         nodes' = nodes \/ nodes' = nodes \ {n},
         UNCHANGED <<lost, roots, node_count>>,
         NEW e \in Id, e = node[n].id
  PROVE  e \in Entities!Held /\ Entities!Ends({e}, "deleted")
<1>1. /\ TypeOK /\ DeletersOK /\ e \in Id
      /\ n \in nodes /\ n \in Open /\ n \in Alive /\ n \notin lost
      /\ nodes \subseteq Cell /\ lost \subseteq Cell
  BY AliveNodes DEF IInv, GraphInv, OpenOK, TypeOK, Live
<1>2. /\ \A m \in Cell :
           /\ node'[m].id = node[m].id
           /\ node'[m].children = node[m].children
           /\ node'[m].open = IF m = n THEN FALSE ELSE node[m].open
      /\ \A i \in Id : deleters'[i] = IF i = e THEN 1 ELSE deleters[i]
  <2>1. /\ \A m \in Cell :
             /\ node'[m].id = node[m].id
             /\ node'[m].children = node[m].children
             /\ node'[m].open = IF m = n THEN FALSE ELSE node[m].open
        /\ \A i \in Id : deleters'[i] = IF i = node[n].id THEN 1 ELSE deleters[i]
    BY <1>1, DeleteFacts
  <2> QED
    BY <2>1
<1>3. NodesOf(e) = {n} /\ \A i \in Id : n \in NodesOf(i) <=> i = e
  BY <1>1, AliveNodes DEF NodesOf
<1>4. \A i \in Id : NodesOf(i)' = IF i \in {e} THEN {} ELSE NodesOf(i)
  <2>1. \A i \in Id : NodesOf(i)' = NodesOf(i) \ {n}
    <3>1. \A m \in Cell : m # n => (m \in Live' <=> m \in Live)
      BY DEF Live
    <3>2. Live' \subseteq Cell /\ Live \subseteq Cell
      BY <1>1 DEF Live
    <3>3. ~node'[n].open
      BY <1>1, <1>2
    <3>4. \A m \in Cell : m # n => node'[m].open = node[m].open
      BY <1>2
    <3> QED
      BY <1>1, <1>2, <3>1, <3>2, <3>3, <3>4 DEF NodesOf
  <2>2. NodesOf(e)' = {}
    BY <1>3, <2>1
  <2>3. ASSUME NEW i \in Id, i # e PROVE NodesOf(i)' = NodesOf(i)
    <3>1. n \notin NodesOf(i)
      BY <1>3, <2>3
    <3> QED
      BY <2>1, <3>1
  <2> QED
    BY <2>2, <2>3
<1>5. e \in Entities!Held
  BY HeldIs
<1>6. Status' = [i \in Id |-> IF i \in {e} THEN "deleted" ELSE Status[i]]
  <2>1. Fate(e)' = "deleted"
    <3>1. deleters'[e] = 1
      BY <1>1, <1>2
    <3> QED
      BY <3>1 DEF Fate
  <2>2. ASSUME NEW i \in Id, i # e PROVE Fate(i)' = Fate(i)
    <3>1. deleters'[i] = deleters[i] /\ node_count' = node_count
      BY <1>2, <2>2
    <3>2. Among(nodes, i)' = Among(nodes, i) /\ Among(lost, i)' = Among(lost, i)
      BY <1>1, <1>2, <2>2 DEF Among
    <3> QED
      BY <3>1, <3>2 DEF Fate
  <2> QED
    BY <1>1, <2>1, <2>2 DEF Status
<1>7. \A m \in Cell : node'[m].id = node[m].id /\ node'[m].children = node[m].children
  BY <1>2
<1>8. /\ Rooted' = Rooted \ {e}
      /\ Refs' = [p \in Id |-> [c \in Id |->
                    IF p \in {e} \/ c \in {e} THEN 0 ELSE Refs[p][c]]]
  <2>1. {e} \in SUBSET Id
    OBVIOUS
  <2> QED
    BY <1>4, <1>7, <2>1, EntitiesEnd
<1> QED
  BY <1>5, <1>6, <1>8 DEF Entities!Ends

\* While the sweep runs, no entity is retained whose node is not marked.
LEMMA RetainedMarked ==
  ASSUME IInv, pc = "sweep"
  PROVE  Entities!Retained \subseteq {i \in Id : i \in marked}
<1> DEFINE M == {n \in Live : node[n].id \in marked}
           S == {node[n].id : n \in M}
<1>1. TypeOK /\ GraphInv /\ MarkInv /\ stack = << >> /\ Alive = Live
  BY DEF IInv, GraphInv, MarkInv, FramesOK, OpenOK, Uncalled, Alive, Live
<1>2. S \in SUBSET Entities!Live
  BY <1>1, HeldIs
<1>3. Rooted \subseteq S
  <2>1. \A r \in roots : r \in M
    BY <1>1 DEF MarkInv, RootsMarked, TypeOK
  <2>2. \A i \in Rooted : \E r \in roots : node[r].id = i
    BY DEF Rooted, NodesOf
  <2> QED
    BY <2>1, <2>2
<1>4. Entities!Closed(S)
  <2> SUFFICES ASSUME NEW p \in M, NEW c \in Id, Refs[node[p].id][c] > 0
               PROVE  c \in S
    BY DEF Entities!Closed
  <2>1. node[p].id \in Id /\ NodeOf(node[p].id) = p
    BY <1>1, AliveNodes
  <2>2. Refs[node[p].id][c] = Between(node[p].id, c)
    BY <2>1 DEF Refs
  <2>3. NodesOf(c) # {}
    <3>1. ~(0 > 0)
      OBVIOUS
    <3> QED
      BY <2>2, <3>1 DEF Between
  <2>4. NodeOf(c) \in Live /\ node[NodeOf(c)].id = c
    BY <2>3 DEF NodeOf, NodesOf
  <2>5. Between(node[p].id, c) = RefCount(p, NodeOf(c)) \/ Between(node[p].id, c) = 0
    BY <2>1 DEF Between
  <2>6. RefCount(p, NodeOf(c)) > 0
    BY <2>2, <2>5
  <2>7. Counted(node[p].children[c])
    BY <2>4, <2>6 DEF Counted, RefCount, Child
  <2>8. c \in marked
    BY <1>1, <2>7 DEF MarkInv, MarkedClosed
  <2> QED
    BY <2>4, <2>8
<1>5. Entities!Retained \subseteq S
  BY <1>2, <1>3, <1>4 DEF Entities!Retained
<1>6. S \subseteq {i \in Id : i \in marked}
  BY <1>1, AliveNodes
<1> QED
  BY <1>5, <1>6

\* And every entity is whose node is marked.
LEMMA MarkedRetained ==
  ASSUME IInv, pc = "sweep", NEW n \in Live, node[n].id \in marked
  PROVE  node[n].id \in Entities!Retained
<1>1. TypeOK /\ GraphInv /\ MarkInv /\ stack = << >> /\ Alive = Live
  BY DEF IInv, GraphInv, MarkInv, FramesOK, OpenOK, Uncalled, Alive, Live
<1>2. node[n].id \in Entities!Live
  BY <1>1, HeldIs
<1>3. ASSUME NEW S \in SUBSET Entities!Live, Rooted \subseteq S, Entities!Closed(S)
      PROVE  node[n].id \in S
  <2> DEFINE T == {m \in Live : node[m].id \in S /\ node[m].id \in marked}
  <2>1. roots \subseteq T
    <3>1. \A r \in roots : node[r].id \in Id /\ r \in NodesOf(node[r].id) /\ r \in Live
      BY <1>1, AliveNodes DEF TypeOK
    <3>2. \A r \in roots : node[r].id \in Rooted
      BY <3>1 DEF Rooted
    <3>3. \A r \in roots : node[r].id \in marked
      BY <1>1 DEF MarkInv, RootsMarked
    <3> QED
      BY <1>3, <3>1, <3>2, <3>3
  <2>2. Closed(T)
    <3> SUFFICES ASSUME NEW p \in T, NEW i \in Id, Counted(node[p].children[i])
                 PROVE  node[p].children[i].node \in T
      BY DEF Closed, Counted
    <3> DEFINE c == node[p].children[i].node
    <3>1. i \in marked
      BY <1>1 DEF MarkInv, MarkedClosed
    <3>2. c \in Live /\ node[c].id = i
      BY <1>1 DEF GraphInv, ReferencesOK, Kept
    <3>3. Refs[node[p].id][node[c].id] = RefCount(p, c)
      BY <1>1, <3>2, RefsIs
    <3>4. RefCount(p, c) > 0
      BY <3>2 DEF RefCount, Child, Counted
    <3>5. i \in S
      BY <1>3, <3>2, <3>3, <3>4 DEF Entities!Closed
    <3> QED
      BY <3>1, <3>2, <3>5
  <2>3. n \in Reachable
    BY <1>1 DEF MarkInv, MarkedReachable
  <2>4. n \in T
    BY <2>1, <2>2, <2>3 DEF Reachable
  <2> QED
    BY <2>4
<1> QED
  BY <1>2, <1>3 DEF Entities!Retained
LEMMA DeleteEntity ==
  ASSUME IInv, NEW n \in Cell, SweepDelete(n) \/ DeleteNode(n)
  PROVE  Entities!Delete(node[n].id)
<1>1. /\ pc \in {"sweep", "delete"} /\ pc' = pc /\ n \in Uncalled
      /\ node' = [node EXCEPT ![n].open = FALSE] /\ CallDeleter(node[n].id)
      /\ nodes' = nodes \/ nodes' = nodes \ {n}
      /\ UNCHANGED <<lost, roots, node_count>>
      /\ pc = "sweep" => node[n].id \notin marked
  <2>1. CASE SweepDelete(n)
    BY <2>1 DEF SweepDelete, NodeDelete, Without, IInv, MarkInv, TodoOK, Uncalled
  <2>2. CASE DeleteNode(n)
    BY <2>2 DEF DeleteNode, NodeDelete, Uncalled
  <2> QED
    BY <2>1, <2>2
<1>2. PICK e \in Id : e = node[n].id
  BY <1>1, AliveNodes
<1>3. e \in Entities!Held /\ Entities!Ends({e}, "deleted")
  BY <1>1, <1>2, DeletedEntity, Zenon
<1>4. Phase \in {"collect", "close"} /\ Phase' = Phase
  BY <1>1 DEF Phase
<1>5. Phase = "collect" => e \notin Entities!Retained
  <2>1. Phase = "collect" => pc = "sweep"
    BY <1>1 DEF Phase
  <2> QED
    BY <1>1, <1>2, <2>1, RetainedMarked
<1> QED
  BY <1>2, <1>3, <1>4, <1>5 DEF Entities!Delete

\* The client gives up the nodes in G, which nobody deletes: their entities
\* leak.
LEMMA LeakedEntities ==
  ASSUME IInv, IInv', NEW G, G \subseteq lost, NEW S, S = {node[n].id : n \in G},
         UNCHANGED <<node_count, node>>, Uncalled' = Uncalled, lost' = lost \ G,
         Alive' = Alive \ G, Live' \subseteq Live,
         \A n \in Alive \ G : n \in roots' <=> n \in roots
  PROVE  Entities!Ends(S, "leaked")
<1>1. /\ Alive = Uncalled \union lost /\ Uncalled \intersect lost = {}
      /\ Alive \subseteq Live /\ Alive \subseteq Owners
      /\ \A n \in Alive : node[n].id \in Id
      /\ \A n, m \in Alive : node[n].id = node[m].id => n = m
      /\ Open' = Open /\ Uncalled \subseteq Open /\ lost \subseteq Open
  BY AliveNodes DEF IInv, GraphInv, IdsOK, OpenOK, Open
<1>2. S \in SUBSET Id
  BY <1>1
<1>3. \A i \in Id : NodesOf(i) = {n \in Alive : node[n].id = i}
  BY AliveNodes
<1>4. \A i \in Id : NodesOf(i)' = IF i \in S THEN {} ELSE NodesOf(i)
  <2>1. \A i : NodesOf(i)' = {n \in Alive' : node[n].id = i}
    <3>1. \A n \in Live' : n \in Cell
      BY <1>1, AliveNodes
    <3> QED
      BY <3>1 DEF NodesOf, Alive, Open
  <2>2. ASSUME NEW i \in Id, i \in S PROVE NodesOf(i)' = {}
    <3>1. PICK g \in G : node[g].id = i
      BY <2>2
    <3>2. \A n \in Alive : node[n].id = i => n = g
      BY <1>1, <3>1
    <3> QED
      BY <2>1, <3>2
  <2>3. ASSUME NEW i \in Id, i \notin S PROVE NodesOf(i)' = NodesOf(i)
    <3>1. \A n \in G : node[n].id # i
      BY <2>3
    <3>2. {n \in Alive' : node[n].id = i} = {n \in Alive : node[n].id = i}
      BY <3>1
    <3> QED
      BY <1>3, <2>1, <3>2
  <2> QED
    BY <2>2, <2>3
<1>5. \A i \in Id \ S : NodesOf(i) \intersect roots' = NodesOf(i) \intersect roots
  BY <1>3
<1>6. Status' = [i \in Id |-> IF i \in S THEN "leaked" ELSE Status[i]]
  <2>1. \A i \in Id : Status[i] = Stage(i)
    BY StatusIs
  <2>2. Status' = [i \in Id |-> Stage(i)']
    BY NextStatusIs
  <2>3. ASSUME NEW i \in Id, i \in S PROVE Stage(i)' = "leaked"
    <3>1. PICK n \in G : node[n].id = i
      BY <2>3
    <3>2. ~(i >= node_count)
      <4>1. node[n].id < node_count /\ node_count \in Nat
        BY <1>1, <3>1 DEF IInv, GraphInv, IdsOK, TypeOK
      <4> QED
        BY <3>1, <4>1, IdFacts
    <3>3. \A m \in Uncalled \union lost : node[m].id = i => m = n
      BY <1>1, <3>1
    <3>4. ~ \E m \in Uncalled : node[m].id = i
      BY <1>1, <3>1, <3>3
    <3>5. ~ \E m \in lost' : node[m].id = i
      BY <3>1, <3>3
    <3>6. \E m \in Open : node[m].id = i
      BY <1>1, <3>1
    <3> QED
      BY <1>1, <3>2, <3>4, <3>5, <3>6 DEF Stage
  <2>4. ASSUME NEW i \in Id, i \notin S PROVE Stage(i)' = Stage(i)
    <3>1. (\E n \in lost' : node[n].id = i) <=> \E n \in lost : node[n].id = i
      BY <2>4
    <3> QED
      BY <1>1, <3>1 DEF Stage
  <2> QED
    BY <2>1, <2>2, <2>3, <2>4
<1>7. \A m \in Cell : node'[m].id = node[m].id /\ node'[m].children = node[m].children
  OBVIOUS
<1>8. /\ Rooted' = Rooted \ S
      /\ Refs' = [p \in Id |-> [c \in Id |->
                    IF p \in S \/ c \in S THEN 0 ELSE Refs[p][c]]]
  BY <1>2, <1>4, <1>5, <1>7, EntitiesEnd
<1> QED
  BY <1>6, <1>8 DEF Entities!Ends

LEMMA EndSweepEntity == IInv /\ EndSweep => Entities!CollectReturns
<1> SUFFICES ASSUME IInv, EndSweep PROVE Entities!CollectReturns
  OBVIOUS
<1> DEFINE G == {n \in lost : node[n].id \notin marked}
           S == {node[n].id : n \in G}
<1>1. /\ pc = "sweep" /\ pc' = "idle" /\ todo = {}
      /\ Uncalled = nodes /\ Uncalled' = nodes /\ Alive = Live
  BY DEF EndSweep, Uncalled, IInv, GraphInv, OpenOK, Alive, Live
<1>2. Live' = Live \ G /\ lost' = lost \ G /\ Alive' = Alive \ G
  <2>1. Live' = Live \ G /\ lost' = lost \ G
    BY DEF EndSweep, Live, IInv, TypeOK
  <2>2. Open' = Open
    BY DEF EndSweep, Open
  <2> QED
    BY <1>1, <2>1, <2>2 DEF Alive
<1>3. \A n \in nodes : node[n].id \in Entities!Retained
  BY <1>1, MarkedRetained DEF IInv, MarkInv, SweptMarked, Live
<1>4. Entities!Held \subseteq Entities!Retained
  BY <1>1, <1>3, HeldIs
<1>5. (Entities!Live \ Entities!Held) \ Entities!Retained = S
  <2>1. Entities!Retained \subseteq {i \in Id : i \in marked}
    BY <1>1, RetainedMarked
  <2>2. \A n \in lost : node[n].id \in marked => node[n].id \in Entities!Retained
    BY <1>1, MarkedRetained DEF Live
  <2>3. Entities!Held = {node[n].id : n \in nodes}
        /\ Entities!Live = {node[n].id : n \in nodes \union lost}
    BY <1>1, HeldIs DEF Live
  <2>4. \A n \in lost : \A m \in nodes : node[n].id # node[m].id
    BY <1>1, AliveNodes DEF IInv, GraphInv, IdsOK, Live
  <2> QED
    BY <2>1, <2>2, <2>3, <2>4
<1>6. Entities!Ends(S, "leaked")
  <2>1. IInv'
    BY EndSweepInv
  <2>2. UNCHANGED <<node_count, node, roots>>
    BY DEF EndSweep
  <2>3. G \subseteq lost /\ S = {node[n].id : n \in G}
    OBVIOUS
  <2> HIDE DEF G, S
  <2> QED
    BY <1>1, <1>2, <2>1, <2>2, <2>3, LeakedEntities
<1>7. Phase = "collect" /\ Phase' = "open"
  BY <1>1 DEF Phase
<1> HIDE DEF S
<1> QED
  BY <1>4, <1>5, <1>6, <1>7 DEF Entities!CollectReturns

LEMMA EndDeleteEntity == IInv /\ EndDelete => Entities!CloseReturns
<1> SUFFICES ASSUME IInv, EndDelete PROVE Entities!CloseReturns
  OBVIOUS
<1>1. /\ pc = "delete" /\ pc' = "deleted" /\ todo = {}
      /\ Uncalled = {} /\ Uncalled' = {} /\ Live' = {} /\ lost' = {}
      /\ UNCHANGED <<node_count, node>>
  BY DEF EndDelete, Uncalled, Live
<1>2. Alive = lost
  BY <1>1, AliveNodes
<1>3. Entities!Held = {} /\ Entities!Live = {node[n].id : n \in lost}
  BY <1>1, <1>2, HeldIs
<1>4. Entities!Ends(Entities!Live, "leaked")
  <2>1. IInv'
    BY EndDeleteInv
  <2>2. Alive' = Alive \ lost /\ lost' = lost \ lost
    BY <1>1, <1>2 DEF Alive
  <2>3. \A n \in Alive \ lost : n \in roots' <=> n \in roots
    BY <1>2
  <2> QED
    BY <1>1, <1>3, <2>1, <2>2, <2>3, LeakedEntities
<1>5. Phase = "close" /\ Phase' = "closed"
  BY <1>1 DEF Phase
<1> QED
  BY <1>3, <1>4, <1>5 DEF Entities!CloseReturns

LEMMA InitEntities == Init => Entities!Init
<1> SUFFICES ASSUME Init PROVE Entities!Init
  OBVIOUS
<1>1. \A i \in Id : NodesOf(i) = {}
  BY DEF Init, NodesOf, Live
<1>2. \A i \in Id : Fate(i) = "new"
  BY IdFacts DEF Init, Fate
<1>3. Status = [i \in Id |-> "new"]
  BY <1>2 DEF Status
<1>4. Rooted = {}
  BY <1>1 DEF Rooted
<1>5. \A i, j \in Id : Between(i, j) = 0
  BY <1>1 DEF Between
<1>6. Refs = [p \in Id |-> [c \in Id |-> 0]]
  BY <1>5 DEF Refs
<1>7. Phase = "open"
  BY DEF Init, Phase
<1> QED
  BY <1>3, <1>4, <1>6, <1>7 DEF Entities!Init

LEMMA NextEntities ==
  ASSUME IInv, [Next]_vars
  PROVE  [Entities!Next]_(Entities!vars)
<1>1. \A n \in Live : node[n].id \in Id /\ n \in Cell
  BY NodeFacts, OwnersFacts DEF IInv
<1>2. ASSUME UNCHANGED <<nodes, lost, roots, node_count, node, deleters>>, Phase' = Phase
      PROVE  UNCHANGED Entities!vars
  BY <1>2, SameEntities DEF Entities!vars
<1>3. CASE Build
  <2>1. CASE \E n \in Cell : Insert(n)
    <3>1. node_count \in Id
      BY <2>1, IdFacts DEF Insert, IInv, TypeOK
    <3> QED
      BY <2>1, <3>1, InsertEntity DEF Entities!Next
  <2>2. CASE \E n \in Cell : Root(n)
    <3>1. PICK n \in Cell : Root(n)
      BY <2>2
    <3>2. node[n].id \in Id
      BY <1>1, <3>1 DEF Root
    <3> QED
      BY <3>1, <3>2, RootEntity DEF Entities!Next
  <2>3. CASE \E p, c \in Cell : Inc(p, c)
    <3>1. PICK p \in Cell, c \in Cell : Inc(p, c)
      BY <2>3
    <3>2. node[p].id \in Id /\ node[c].id \in Id
      BY <1>1, <3>1 DEF Inc
    <3> QED
      BY <3>1, <3>2, IncEntity DEF Entities!Next
  <2>4. CASE CollectGarbage
    <3>1. Phase = "open" /\ Phase' = "collect"
      BY <2>4 DEF CollectGarbage, Phase
    <3>2. UNCHANGED <<Status, Rooted, Refs>>
      BY <2>4, SameEntities DEF CollectGarbage
    <3> QED
      BY <3>1, <3>2 DEF Entities!Next, Entities!Begin
  <2>5. CASE Delete
    <3>1. Phase = "open" /\ Phase' = "close"
      BY <2>5 DEF Delete, Phase
    <3>2. UNCHANGED <<Status, Rooted, Refs>>
      BY <2>5, SameEntities DEF Delete
    <3> QED
      BY <3>1, <3>2 DEF Entities!Next, Entities!Begin
  <2> QED
    BY <1>3, <2>1, <2>2, <2>3, <2>4, <2>5 DEF Build
<1>4. CASE GiveBack
  <2>1. PICK p \in Cell, c \in Cell : RefCount(p, c) > 0 /\ Dec(p, c)
    BY <1>4 DEF GiveBack
  <2>2. node[p].id \in Id /\ node[c].id \in Id
    BY <1>1, <2>1 DEF Dec
  <2> QED
    BY <2>1, <2>2, DecEntity DEF Entities!Next
<1>5. CASE Marking
  <2>1. UNCHANGED <<nodes, lost, roots, node_count, node, deleters>>
    BY <1>5 DEF Marking, MarkRoot, MarkChild, MarkReturn, EndMark
  <2>2. pc = "mark" /\ pc' \in {"mark", "sweep"}
    BY <1>5 DEF Marking, MarkRoot, MarkChild, MarkReturn, EndMark
  <2>3. Phase' = Phase
    BY <2>2 DEF Phase
  <2> QED
    BY <1>2, <2>1, <2>3
<1>6. CASE \E n \in Cell : SweepKeep(n)
  <2>1. UNCHANGED <<nodes, lost, roots, node_count, node, deleters, pc>>
    BY <1>6 DEF SweepKeep
  <2> QED
    BY <1>2, <2>1 DEF Phase
<1>7. CASE \E n \in Cell : SweepDelete(n) \/ DeleteNode(n)
  <2>1. PICK n \in Cell : SweepDelete(n) \/ DeleteNode(n)
    BY <1>7
  <2>2. n \in Live
    BY <2>1 DEF SweepDelete, DeleteNode, IInv, TypeOK
  <2> QED
    BY <1>1, <2>1, <2>2, DeleteEntity DEF Entities!Next
<1>8. CASE EndSweep \/ EndDelete
  BY <1>8, EndSweepEntity, EndDeleteEntity DEF Entities!Next
<1>9. CASE UNCHANGED vars
  <2>1. UNCHANGED <<nodes, lost, roots, node_count, node, deleters, pc>>
    BY <1>9 DEF vars
  <2> QED
    BY <1>2, <2>1 DEF Phase
<1> QED
  BY <1>3, <1>4, <1>5, <1>6, <1>7, <1>8, <1>9 DEF Next, Internal, Sweeping, Deleting

\* The graph implements its contract: every step of a client that gives back
\* what it took, and of the calls it makes, is a step of EntityGraph or
\* changes nothing of it.
THEOREM GraphIsEntityGraph == Spec => ImplementsEntityGraph
<1>1. IInv /\ [Next]_vars => [Entities!Next]_(Entities!vars)
  BY NextEntities
<1> QED
  BY InitEntities, Inductive, <1>1, PTL DEF Spec, ImplementsEntityGraph, Entities!Spec
=============================================================================
