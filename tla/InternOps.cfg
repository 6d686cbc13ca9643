SPECIFICATION Spec
CONSTANTS
  ByteMod = 3
  HashBits = 2
  FnvPrime = 3
  \* With this offset 111 and 1112 have the same hash, and so have 1111 and the
  \* empty string.
  FnvOffset = 0
  Chunk = {c1, c2, c3}
  ChunkSize = 6
  Text <- Texts
  Source <- Sources
  Junk = {0, 2}
  None = None
INVARIANTS TypeOK StringsInside StringsApart ComparatorExact ChunksLinked
PROPERTY ImplementsInterner
SYMMETRY Sym
CHECK_DEADLOCK FALSE
