------------------------------ MODULE LossySet ------------------------------
(***************************************************************************)
(* What struct/set.c keeps for a client that inserts only pointers that    *)
(* are not in the set, as the tracker does with new blocks and the graph   *)
(* with new nodes.  struct/set.h promises more: once pointers have been    *)
(* removed, an insertion that starts over (the second call of              *)
(* _map_insert_helper in map_insert) may drop another pointer.  It then    *)
(* returns false, although it has inserted its own.                        *)
(***************************************************************************)
CONSTANTS Key, NoKey, NoValue

VARIABLES
  members,  \* the pointers in the set; one being inserted counts at the return
  worn,     \* the table has slots whose entry was removed
  pending,  \* the call in progress
  lost,     \* it has dropped a pointer
  result    \* what the last call returned

vars == <<members, worn, pending, lost, result>>

NoCall == [op |-> "none", key |-> NoKey]

Init ==
  /\ members = {}
  /\ worn = FALSE
  /\ pending = NoCall
  /\ lost = FALSE
  /\ result = NoValue

Begin(op, p) ==
  /\ pending = NoCall
  /\ op = "insert" => p \notin members
  /\ pending' = [op |-> op, key |-> p]
  /\ UNCHANGED <<members, worn, lost, result>>

\* The insertion starts over without the pointer m that it has displaced.
StartOver(m) ==
  /\ pending.op = "insert"
  /\ worn
  /\ ~lost
  /\ m \in members
  /\ members' = members \ {m}
  /\ lost' = TRUE
  /\ UNCHANGED <<worn, pending, result>>

\* The table is rehashed.
Rehash ==
  /\ pending.op = "insert"
  /\ worn' = FALSE
  /\ UNCHANGED <<members, pending, lost, result>>

\* The new entry may take the place of a removed one.
Insert ==
  /\ pending.op = "insert"
  /\ members' = members \union {pending.key}
  /\ worn' \in {worn, FALSE}
  /\ result' = ~lost

Found == IF pending.key \in members THEN pending.key ELSE NoValue

Lookup ==
  /\ pending.op = "lookup"
  /\ result' = Found
  /\ UNCHANGED <<members, worn>>

Remove ==
  /\ pending.op = "remove"
  /\ result' = Found
  /\ members' = members \ {pending.key}
  /\ worn' = (worn \/ pending.key \in members)

Return == /\ pending' = NoCall
          /\ lost' = FALSE
          /\ Insert \/ Lookup \/ Remove

Next ==
  \/ \E p \in Key : \E op \in {"insert", "lookup", "remove"} : Begin(op, p)
  \/ \E m \in Key : StartOver(m)
  \/ Rehash
  \/ Return

Spec == Init /\ [][Next]_vars
=============================================================================
