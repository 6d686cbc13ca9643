----------------------------- MODULE InternProps -----------------------------
(* What makes the interned strings correct.                                *)
EXTENDS Intern

\* The strings that intern and intern_range can be given.
Str == {Content(v) : v \in Arguments \cup Temporaries}

StringAt(p) == Content(See(mem, p))
LenAt(p)    == StrLen(See(mem, p))

TypeOK ==
  /\ chunks \subseteq Chunk
  /\ next \in [Chunk -> Chunk \cup {None}]
  /\ first \in chunks \cup {None}
  /\ last \in chunks \cup {None}
  /\ tail \in 0 .. ChunkSize
  /\ mem \in [Chunk -> [Room -> Byte]]
  /\ strings \subseteq Pointer
  /\ ret \in Pointer \cup {None}

\* Every string lies with its terminator inside a chunk that is not freed,
\* and below tail in the last one: whatever intern writes next, the test for
\* a full chunk leaves room for it and it overwrites none of them.
StringsInside ==
  \A p \in strings :
    /\ p[1] \in chunks
    /\ \E n \in 0 .. ChunkSize - 1 :
         /\ EndsAt(See(mem, p), n)
         /\ p[2] + n < ChunkSize
         /\ p[1] = last => p[2] + n < tail

\* No two strings share a byte: the terminator of one is before the other.
StringsApart ==
  \A p, q \in strings :
    p[1] = q[1] /\ p[2] < q[2] => p[2] + LenAt(p) < q[2]

\* Each distinct string has only one copy.
OnePointer ==
  \A p, q \in strings : StringAt(p) = StringAt(q) => p = q

\* The comparison of words answers 0 exactly for equal strings, whatever is
\* behind their terminators - free room, the next string, the end of a chunk.
ComparatorExact ==
  \A p \in strings :
    \A v \in Arguments \cup Temporaries :
      StringComparator(v, See(mem, p)) = 0 <=> Content(v) = StringAt(p)

\* All chunks are on the list that _chunk_delete follows, and it ends in last.
ChunksLinked ==
  Inited =>
    /\ chunks = Linked
    /\ next[last] = None

\* intern_finalize frees every chunk that was ever created, once.
FinalizeFreesAll ==
  [][Inited /\ first' = None => chunks' = {}]_vars

Table == {<<StringAt(p), p>> : p \in strings}

Promised == INSTANCE Interner WITH
  table <- Table, Ptr <- Pointer

\* intern exchanges a string for its unique version: a string that was given
\* before gets the pointer it got then, a new one a pointer of its own, and
\* the string a pointer stands for never changes.
ImplementsInterner == Promised!Spec
=============================================================================
