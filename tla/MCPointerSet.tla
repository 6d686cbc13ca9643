---------------------------- MODULE MCPointerSet ----------------------------
(* Small instances of the set for TLC.                                     *)
EXTENDS PointerSet, TLC

CONSTANTS k1, k2, k3, k4

\* Pointers 1 and 2 have the same hash, 3 starts on the second slot they probe.
Hash3 == (k1 :> 0) @@ (k2 :> 0) @@ (k3 :> 1)

\* The hash of 4 is the greatest: its second position is the first slot of 1.
Hash4 == Hash3 @@ (k4 :> (UintMod - 1))
=============================================================================
