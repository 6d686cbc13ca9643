----------------------------- MODULE MCHashMap -----------------------------
(* Small instances of the hash map for TLC.                                *)
EXTENDS HashMapProps, TLC

CONSTANTS k1, k2, k3, k4, v1, v2

\* Keys 1 and 2 have the same hash, 3 starts on the second slot they probe,
\* and the hash of 4 is the greatest there is: its second position wraps to
\* the first slot of 1.
Hash3 == (k1 :> 0) @@ (k2 :> 0) @@ (k3 :> 1)
Hash4 == Hash3 @@ (k4 :> (UintMod - 1))
=============================================================================
