------------------------------ MODULE CString ------------------------------
(***************************************************************************)
(* The string hasher and comparator of util/util.c, which the set of       *)
(* interned strings uses.  A char pointer is what it sees: a function from *)
(* 0 on to bytes, a terminated string and then whatever follows in memory. *)
(* The comparator reads words of four bytes, beyond the terminator too.    *)
(***************************************************************************)
EXTENDS Integers, SequencesExt, FiniteSetsExt

CONSTANTS
  ByteMod,    \* 256 in the code
  HashBits,   \* 32 in the code
  FnvPrime,   \* FNV_32_PRIME, of that many bits
  FnvOffset   \* FNV_1A_32_OFFSET

ASSUME ByteAssumption == ByteMod \in Nat /\ ByteMod > 1

Byte == 0 .. ByteMod - 1

WordSize == 4
WordMod  == ByteMod * (ByteMod * (ByteMod * ByteMod))

\* The length of the string that v sees, and its characters.
EndsAt(v, n) == n \in DOMAIN v /\ v[n] = 0 /\ \A i \in 0 .. n - 1 : v[i] # 0
StrLen(v)    == Min({n \in DOMAIN v : v[n] = 0})
Content(v)   == [i \in 1 .. StrLen(v) |-> v[i - 1]]

-----------------------------------------------------------------------------
(* string_hasher                                                           *)

Xor(a, b) ==
  MapThenSumSet(LAMBDA i : 2^i * (((a \div 2^i) + (b \div 2^i)) % 2),
                0 .. HashBits - 1)

StringHasher(v) ==
  FoldLeft(LAMBDA hval, c : Xor((hval * FnvPrime) % 2^HashBits, c),
           FnvOffset, Content(v))

-----------------------------------------------------------------------------
(* string_comparator                                                       *)

\* Little-endian, at byte i.
Word(v, i) ==
  v[i] + ByteMod * (v[i + 1] + ByteMod * (v[i + 2] + ByteMod * v[i + 3]))

HasNull(v, i) == \E b \in 0 .. WordSize - 1 : v[i + b] = 0

\* uint32_t returned as int32_t
Signed(x) == IF x < WordMod \div 2 THEN x ELSE x - WordMod

\* The loop stops at the word at byte i.
Stops(l, r, i) == HasNull(l, i) \/ HasNull(r, i) \/ Word(l, i) # Word(r, i)

StopsFirst(l, r, i) ==
  /\ i % WordSize = 0
  /\ Stops(l, r, i)
  /\ \A j \in 0 .. i - 1 : j % WordSize = 0 => ~Stops(l, r, j)

\* Mutant: like memcmp, it does not stop at the terminator.
DiffersAnywhere(l, r, i, d) ==
  /\ l[i + d] # r[i + d]
  /\ \A b \in 0 .. d - 1 : l[i + b] = r[i + b]

\* strncmp(l + i, r + i, WordSize) meets its first difference at byte d.
Differs(l, r, i, d) ==
  /\ l[i + d] # r[i + d]
  /\ \A b \in 0 .. d - 1 : l[i + b] = r[i + b] /\ l[i + b] # 0

\* Mutant: it compares one character less.
StrnCmpShort(l, r, i) ==
  IF \E d \in 0 .. WordSize - 2 : Differs(l, r, i, d) THEN 1 ELSE 0

StrnCmp(l, r, i) ==
  IF \E d \in 0 .. WordSize - 1 : Differs(l, r, i, d)
  THEN LET d == CHOOSE d \in 0 .. WordSize - 1 : Differs(l, r, i, d)
       IN  l[i + d] - r[i + d]
  ELSE 0

CompareAt(l, r, i) ==
  IF HasNull(l, i) \/ HasNull(r, i)
  THEN StrnCmp(l, r, i)
  ELSE Signed((Word(l, i) - Word(r, i)) % WordMod)

\* Pointers to strings are never NULL here.
StringComparator(l, r) ==
  CompareAt(l, r, CHOOSE i \in DOMAIN l : StopsFirst(l, r, i))
=============================================================================
