---------------------------- MODULE AbstractMap ----------------------------
(***************************************************************************)
(* The contract of struct/map.h: a finite function from keys to values.    *)
(* A call begins, and at some later step takes effect and returns.         *)
(***************************************************************************)
CONSTANTS Key, Value, NoKey, NoValue

VARIABLES
  contents,  \* the pairs, as a function on the keys present
  pending,   \* the call in progress
  result     \* what the last call returned

vars == <<contents, pending, result>>

NoCall == [op |-> "none", key |-> NoKey, value |-> NoValue]

Calls == [op : {"insert"}, key : Key, value : Value]
           \union [op : {"lookup", "remove"}, key : Key, value : {NoValue}]

Init ==
  /\ contents = [k \in {} |-> NoValue]
  /\ pending = NoCall
  /\ result = NoValue

Begin(c) ==
  /\ pending = NoCall
  /\ pending' = c
  /\ UNCHANGED <<contents, result>>

Present == pending.key \in DOMAIN contents

\* map_insert: TRUE and a new pair, or FALSE and no change if the key is
\* present.
Insert ==
  /\ pending.op = "insert"
  /\ result' = ~Present
  /\ contents' = IF Present THEN contents
                 ELSE [k \in DOMAIN contents \union {pending.key} |->
                         IF k = pending.key THEN pending.value
                                            ELSE contents[k]]

\* map_lookup: the value, or NULL.
Lookup ==
  /\ pending.op = "lookup"
  /\ result' = IF Present THEN contents[pending.key] ELSE NoValue
  /\ UNCHANGED contents

\* map_remove: the value of the pair removed, or NULL.
Remove ==
  /\ pending.op = "remove"
  /\ result' = IF Present THEN contents[pending.key] ELSE NoValue
  /\ contents' = [k \in DOMAIN contents \ {pending.key} |-> contents[k]]

Return == pending' = NoCall /\ (Insert \/ Lookup \/ Remove)

Next == (\E c \in Calls : Begin(c)) \/ Return

Spec == Init /\ [][Next]_vars
=============================================================================
