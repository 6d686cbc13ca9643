--------------------------- MODULE MCAllocTracker ---------------------------
(* Small instances of the allocation tracker for TLC.                      *)
EXTENDS AllocTrackerProps, TLC

\* malloc may give any unused address.
AddrSymmetry == Permutations(Addr)
=============================================================================
