------------------------------ MODULE Interner ------------------------------
(***************************************************************************)
(* What intern.h promises: an inputted string is exchanged for its         *)
(* globally unique version.                                                *)
(***************************************************************************)
CONSTANTS Str, Ptr, None

VARIABLES
  table,  \* the pairs of a string and its unique pointer
  asked,  \* the string of the last call
  ret     \* the pointer it returned

Init == table = {} /\ asked = None /\ ret = None

Known == \E e \in table : e = <<asked', ret'>>

New == \A e \in table : e[1] # asked' /\ e[2] # ret'

\* A string keeps its pointer, and no pointer stands for two strings.
Intern ==
  /\ asked' \in Str
  /\ ret' \in Ptr
  /\ \/ Known /\ UNCHANGED table
     \/ New /\ table' = table \cup {<<asked', ret'>>}

Finalize == table' = {} /\ asked' = None /\ ret' = None

Next == Intern \/ Finalize

Spec == Init /\ [][Next]_<<table, asked, ret>>
=============================================================================
