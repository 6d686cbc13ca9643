--------------------------- MODULE MCMemoryGraph ---------------------------
(* Small instances of the memory graph for TLC.                            *)
EXTENDS MemoryGraphProps, TLC

\* The node arena may hand out any unused cell.
CellSymmetry == Permutations(Cell)
=============================================================================
