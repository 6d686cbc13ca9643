------------------------------ MODULE MCIntern ------------------------------
(* Small instances of the interned strings for TLC.                        *)
EXTENDS InternProps, TLC

\* The strings differ in length, in the last byte of a word and, by their
\* terminators, in the second word.
Texts   == {<<1, 1, 1, 2>>}
Sources == {<<1, 1, 1, 1>>}

\* malloc may return any chunk.
Sym == Permutations(Chunk)
=============================================================================
