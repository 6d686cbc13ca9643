------------------------------- MODULE Intern -------------------------------
(***************************************************************************)
(* The interned strings of alloc/arena/intern.c: a list of chunks of       *)
(* characters, the strings laid end to end in them, and the set of them.   *)
(* A pointer is a chunk and an offset.  The set is used through its        *)
(* contract; nothing is ever removed from it.                              *)
(***************************************************************************)
EXTENDS CString

CONSTANTS
  Chunk,      \* the chunks malloc may return
  ChunkSize,  \* DEFAULT_CHUNK_SIZE
  Text,       \* the strings the client interns
  Source,     \* the strings it interns ranges of
  Junk,       \* bound: the bytes found in memory that nothing was written to
  None        \* NULL

ASSUME InternAssumption ==
  /\ ChunkSize \in Nat
  /\ None \notin Chunk
  /\ Junk \subseteq Byte
  /\ \A t \in Text \cup Source : t \in Seq(Byte \ {0}) /\ Len(t) < ChunkSize

VARIABLES
  chunks,   \* the chunks in existence
  next,     \* _Chunk.next
  first,    \* strings.chunk
  last,     \* strings.last, the chunk that strings.end is the end of
  tail,     \* strings.tail, an offset in last
  mem,      \* the bytes of each chunk and the few behind it
  strings,  \* strings.strings
  asked,    \* the string the last call was given
  ret       \* the pointer it returned

vars == <<chunks, next, first, last, tail, mem, strings, asked, ret>>

\* Words read in a chunk may reach three bytes beyond it.
Room == 0 .. ChunkSize + WordSize - 2

Pointer == Chunk \X (0 .. ChunkSize - 1)

\* What pointer p sees in memory m.
See(m, p) == [i \in 0 .. ChunkSize + WordSize - 2 - p[2] |-> m[p[1]][p[2] + i]]

\* What a client's pointer sees: its string and three junk bytes.
Argument(t, junk) ==
  [i \in 0 .. Len(t) + WordSize - 1 |->
     IF i < Len(t) THEN t[i + 1] ELSE IF i = Len(t) THEN 0 ELSE junk]

Inited == first # None

Init ==
  /\ chunks = {}
  /\ next = [c \in Chunk |-> None]
  /\ first = None
  /\ last = None
  /\ tail = 0
  /\ mem = [c \in Chunk |-> [o \in Room |-> 0]]
  /\ strings = {}
  /\ asked = None
  /\ ret = None

-----------------------------------------------------------------------------
\* _chunk_create returns c, whose block holds junk.
ChunkCreate(c, junk) ==
  /\ c \in Chunk \ chunks
  /\ chunks' = chunks \cup {c}
  /\ last' = c

Fresh(c, junk) == [mem EXCEPT ![c] = [o \in Room |-> junk]]

InternInit ==
  /\ ~Inited
  /\ \E c \in Chunk, junk \in Junk :
       /\ ChunkCreate(c, junk)
       /\ mem' = Fresh(c, junk)
       /\ next' = [next EXCEPT ![c] = None]
       /\ first' = c
  /\ tail' = 0
  /\ strings' = {}
  /\ UNCHANGED <<asked, ret>>

-----------------------------------------------------------------------------
(* intern, called with a pointer that sees v                               *)

\* set_lookup(&strings.strings, str)
SetLookup(v) ==
  {p \in strings : /\ StringComparator(v, See(mem, p)) = 0
                   /\ StringHasher(v) = StringHasher(See(mem, p))}

\* memmove(p, str, len + 1)
CopyTo(m, p, v) ==
  [m EXCEPT ![p[1]] = [o \in Room |->
     IF p[2] <= o /\ o <= p[2] + StrLen(v) THEN v[o - p[2]] ELSE @[o]]]

\* Mutant: no room is left for the terminator.
FullLate(len) == tail + len > ChunkSize

\* There is no room for the string in the last chunk.
Full(len) == tail + len >= ChunkSize

\* Mutants: the terminator is not counted; tail stays behind the string before.
AfterCharacters(at, len) == at + len
AfterNothing(at, len) == at

\* Where tail is after a string of len characters was put at offset at.
After(at, len) == at + len + 1

\* The string is put at offset at of chunk c, which is now the last one.
Put(m, c, at, v) ==
  /\ mem' = CopyTo(m, <<c, at>>, v)
  /\ tail' = After(at, StrLen(v))
  /\ strings' = strings \cup {<<c, at>>}
  /\ ret' = <<c, at>>

Found(same) ==
  /\ ret' \in same
  /\ UNCHANGED <<chunks, next, first, last, tail, mem, strings>>

Store(v) ==
  /\ ~Full(StrLen(v))
  /\ Put(mem, last, tail, v)
  /\ UNCHANGED <<chunks, next, first, last>>

\* Mutant: strings.chunk->next = chunk.
LinkFirst(c) == [next EXCEPT ![c] = None, ![first] = c]

\* strings.last->next = chunk, whose own next is NULL.
LinkLast(c) == [next EXCEPT ![c] = None, ![last] = c]

StoreInNewChunk(v) ==
  /\ Full(StrLen(v))
  /\ \E c \in Chunk, junk \in Junk :
       /\ ChunkCreate(c, junk)
       /\ next' = LinkLast(c)
       /\ Put(Fresh(c, junk), c, 0, v)
  /\ UNCHANGED first

Interning(v) ==
  /\ Inited
  /\ \E same \in {SetLookup(v)} :
       \/ Found(same)
       \/ same = {} /\ (Store(v) \/ StoreInNewChunk(v))
  /\ asked' = Content(v)

Arguments == {Argument(t, junk) : t \in Text, junk \in Junk}

\* tmp: the characters from start to end, padded by strncpy when t is shorter.
Slice(t, start, end) ==
  [i \in 1 .. end - start |-> IF start + i <= Len(t) THEN t[start + i] ELSE 0]

\* Bound: ranges end no further than one character behind the string.
Slices(t) == UNION {{Slice(t, start, end) : end \in start .. Len(t) + 1} :
                      start \in 0 .. Len(t)}

Temporaries ==
  {Argument(s, junk) : s \in UNION {Slices(t) : t \in Source}, junk \in Junk}

InternString == \E v \in Arguments : Interning(v)
InternRange  == \E v \in Temporaries : Interning(v)

-----------------------------------------------------------------------------
\* Set S holds first and the chunks that follow its chunks.
Follows(S) == first \in S /\ \A c \in S : next[c] # None => next[c] \in S

\* The chunks that _chunk_delete meets on its way along next.
Linked == {c \in chunks : \A S \in SUBSET chunks : Follows(S) => c \in S}

\* strings.chunk is not reset: the client initialises again before it interns.
Finalize ==
  /\ Inited
  /\ chunks' = chunks \ Linked
  /\ first' = None
  /\ last' = None
  /\ tail' = 0
  /\ strings' = {}
  /\ asked' = None
  /\ ret' = None
  /\ next' = [c \in Chunk |-> None]
  /\ mem' = [c \in Chunk |-> [o \in Room |-> 0]]

-----------------------------------------------------------------------------
Next ==
  \/ InternInit
  \/ InternString
  \/ InternRange
  \/ Finalize

Spec == Init /\ [][Next]_vars
=============================================================================
