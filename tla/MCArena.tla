------------------------------ MODULE MCArena ------------------------------
(* Small instances of the arena for TLC.                                   *)
EXTENDS ArenaProps, TLC

\* malloc may give any unused block, so blocks are interchangeable.
BlockSymmetry == Permutations(Block)
=============================================================================
