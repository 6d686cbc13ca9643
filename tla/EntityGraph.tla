---------------------------- MODULE EntityGraph ----------------------------
(***************************************************************************)
(* What a user of alloc/memory_graph/memory_graph.h can rely on: a graph   *)
(* that is given entities once, counts references between them, and in a   *)
(* collection deletes exactly those of the entities it holds that no root  *)
(* retains.  The header promises that of all entities; but once some were  *)
(* deleted, an insertion may make the graph lose one, which is used as     *)
(* before and never deleted.                                               *)
(***************************************************************************)
EXTENDS Naturals

CONSTANT Entity

VARIABLES
  phase,   \* "open", in a call of "collect" or "close", or "closed"
  status,  \* of each entity: "new", "held" by the graph, "deleted", "lost" by
           \* the graph, or "leaked" when it is not retained or the graph closed
  rooted,  \* the roots
  refs     \* references counted from each entity to each other one

vars == <<phase, status, rooted, refs>>

Held == {e \in Entity : status[e] = "held"}
Live == {e \in Entity : status[e] \in {"held", "lost"}}

Init ==
  /\ phase = "open"
  /\ status = [e \in Entity |-> "new"]
  /\ rooted = {}
  /\ refs = [p \in Entity |-> [c \in Entity |-> 0]]

\* The entities the graph may lose when it is given another one.
Drops == {{}} \union {{e} : e \in {x \in Held :
                               \E d \in Entity : status[d] = "deleted"}}

Insert(e) ==
  /\ phase = "open"
  /\ status[e] = "new"
  /\ \E dropped \in Drops :
       status' = [x \in Entity |-> IF x = e THEN "held"
                                 ELSE IF x \in dropped THEN "lost" ELSE status[x]]
  /\ UNCHANGED <<phase, rooted, refs>>

Root(e) ==
  /\ phase = "open"
  /\ e \in Live
  /\ rooted' = rooted \union {e}
  /\ UNCHANGED <<phase, status, refs>>

Inc(p, c) ==
  /\ phase = "open"
  /\ {p, c} \subseteq Live
  /\ refs' = [refs EXCEPT ![p][c] = @ + 1]
  /\ UNCHANGED <<phase, status, rooted>>

Dec(p, c) ==
  /\ phase = "open"
  /\ {p, c} \subseteq Live
  /\ refs[p][c] > 0
  /\ refs' = [refs EXCEPT ![p][c] = @ - 1]
  /\ UNCHANGED <<phase, status, rooted>>

Begin(call) ==
  /\ phase = "open"
  /\ phase' = call
  /\ UNCHANGED <<status, rooted, refs>>

\* S contains whatever an entity of S refers to.
Closed(S) == \A p \in S : \A c \in Entity : refs[p][c] > 0 => c \in S

\* The entities in every closed set with the roots.
Retained ==
  {e \in Live : \A S \in SUBSET Live : rooted \subseteq S /\ Closed(S) => e \in S}

\* The entities in S come to an end, with their references.
Ends(S, how) ==
  /\ status' = [e \in Entity |-> IF e \in S THEN how ELSE status[e]]
  /\ rooted' = rooted \ S
  /\ refs' = [p \in Entity |-> [c \in Entity |->
                IF p \in S \/ c \in S THEN 0 ELSE refs[p][c]]]

\* The Deleter of e is called.
Delete(e) ==
  /\ phase \in {"collect", "close"}
  /\ e \in Held
  /\ Ends({e}, "deleted")
  /\ UNCHANGED phase
  /\ phase = "collect" => e \notin Retained

CollectReturns ==
  /\ phase = "collect"
  /\ phase' = "open"
  /\ Ends((Live \ Held) \ Retained, "leaked")
  /\ Held \subseteq Retained

CloseReturns ==
  /\ phase = "close"
  /\ phase' = "closed"
  /\ Held = {}
  /\ Ends(Live, "leaked")

Next ==
  \/ \E e \in Entity : Insert(e) \/ Root(e) \/ Delete(e)
  \/ \E p, c \in Entity : Inc(p, c) \/ Dec(p, c)
  \/ \E call \in {"collect", "close"} : Begin(call)
  \/ CollectReturns \/ CloseReturns

Spec == Init /\ [][Next]_vars
=============================================================================
