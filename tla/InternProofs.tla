---------------------------- MODULE InternProofs ----------------------------
(***************************************************************************)
(* Proofs about interned strings, for chunks of any size and any strings   *)
(* that fit into one: first that the comparison of strings by words is     *)
(* exact (module CString), then the invariants of the chunks.              *)
(***************************************************************************)
EXTENDS InternProps, Iteration

-----------------------------------------------------------------------------
(* Numbers.                                                                *)

\* A digit and a rest below a bound make a number below the next bound.
LEMMA DigitBound ==
  ASSUME NEW B \in Nat, NEW X \in Nat, NEW a \in 0 .. B - 1, NEW x \in 0 .. X - 1
  PROVE  a + B * x \in 0 .. B * X - 1
<1>1. PICK k \in Nat : X = x + 1 + k
  <2>1. X - x - 1 \in Nat
    OBVIOUS
  <2> QED BY <2>1
<1>2. B * X = B * x + B + B * k
  BY <1>1
<1>3. B * k \in Nat /\ B * x \in Nat
  OBVIOUS
<1> QED
  BY <1>2, <1>3

\* Numbers below a modulus that differ also differ by it.
LEMMA DifferenceMod ==
  ASSUME NEW M \in Nat, M > 0, NEW x \in 0 .. M - 1, NEW y \in 0 .. M - 1, x # y
  PROVE  (x - y) % M \in 1 .. M - 1
<1>1. CASE x > y
  BY <1>1
<1>2. CASE x < y
  <2>1. (x - y) % M = x - y + M
    BY <1>2
  <2> QED BY <1>2, <2>1
<1> QED
  BY <1>1, <1>2

-----------------------------------------------------------------------------
(* Strings.                                                                *)

\* v sees a string of n characters and enough bytes behind it for a word that
\* holds the terminator to be read.
IsString(v, n) ==
  /\ n \in Nat
  /\ \E m \in Nat : v \in [0 .. m -> Byte] /\ n + WordSize - 1 <= m
  /\ EndsAt(v, n)

LEMMA StrLenIs ==
  ASSUME NEW v, NEW n, IsString(v, n)
  PROVE  StrLen(v) = n
<1> DEFINE Z == {i \in DOMAIN v : v[i] = 0}
<1>1. n \in Z /\ Z \subseteq Nat
  BY DEF IsString, EndsAt
<1>2. \A i \in Z : n <= i
  <2> SUFFICES ASSUME NEW i \in Z, i < n PROVE FALSE
    BY <1>1
  <2>1. i \in 0 .. n - 1
    BY <1>1
  <2> QED BY <2>1 DEF IsString, EndsAt
<1>3. \A i \in Z : (\A j \in Z : i <= j) => i = n
  BY <1>1, <1>2
<1> HIDE DEF Z
<1>4. Min(Z) = n
  BY <1>1, <1>2, <1>3 DEF Min
<1> QED
  BY <1>4 DEF Z, StrLen

\* Equal strings are those of equal length with equal characters.
LEMMA ContentEqual ==
  ASSUME NEW l, NEW n, IsString(l, n), NEW r, NEW m, IsString(r, m)
  PROVE  Content(l) = Content(r) <=> n = m /\ \A i \in 0 .. n - 1 : l[i] = r[i]
<1>1. StrLen(l) = n /\ StrLen(r) = m /\ n \in Nat /\ m \in Nat
  BY StrLenIs DEF IsString
<1>2. ASSUME Content(l) = Content(r)
      PROVE  n = m /\ \A i \in 0 .. n - 1 : l[i] = r[i]
  <2>1. DOMAIN Content(l) = 1 .. n /\ DOMAIN Content(r) = 1 .. m
    BY <1>1 DEF Content
  <2>2. n = m
    BY <1>1, <1>2, <2>1
  <2>3. ASSUME NEW i \in 0 .. n - 1
        PROVE  l[i] = r[i]
    <3>1. i + 1 \in 1 .. n /\ (i + 1) - 1 = i
      BY <1>1
    <3>2. Content(l)[i + 1] = l[i] /\ Content(r)[i + 1] = r[i]
      BY <1>1, <2>2, <3>1 DEF Content
    <3> QED BY <1>2, <3>2
  <2> QED BY <2>2, <2>3
<1>3. ASSUME n = m, \A i \in 0 .. n - 1 : l[i] = r[i]
      PROVE  Content(l) = Content(r)
  <2>1. \A i \in 1 .. n : l[i - 1] = r[i - 1]
    BY <1>1, <1>3
  <2> QED BY <1>1, <1>3, <2>1 DEF Content
<1> QED
  BY <1>2, <1>3

-----------------------------------------------------------------------------
(* Words.                                                                  *)

\* The bytes of a word.
BytesAt(v, i) == \A b \in 0 .. WordSize - 1 : v[i + b] \in Byte

LEMMA WordBytes ==
  ASSUME NEW v, NEW i \in Nat, BytesAt(v, i)
  PROVE  v[i] \in Byte /\ v[i + 1] \in Byte /\ v[i + 2] \in Byte /\ v[i + 3] \in Byte
<1>1. /\ 0 \in 0 .. WordSize - 1 /\ 1 \in 0 .. WordSize - 1
      /\ 2 \in 0 .. WordSize - 1 /\ 3 \in 0 .. WordSize - 1
  BY DEF WordSize
<1>2. i + 0 = i
  OBVIOUS
<1> QED
  BY <1>1, <1>2 DEF BytesAt

\* The value of a word is below WordMod.
LEMMA WordBound ==
  ASSUME NEW v, NEW i \in Nat, BytesAt(v, i)
  PROVE  Word(v, i) \in 0 .. WordMod - 1
<1>1. v[i] \in Byte /\ v[i + 1] \in Byte /\ v[i + 2] \in Byte /\ v[i + 3] \in Byte
  BY WordBytes
<1> DEFINE B == ByteMod
<1>2. B \in Nat /\ B * B \in Nat /\ B * (B * B) \in Nat
  BY ByteAssumption
<1>3. v[i + 2] + B * v[i + 3] \in 0 .. B * B - 1
  BY <1>1, <1>2, DigitBound DEF Byte
<1>4. v[i + 1] + B * (v[i + 2] + B * v[i + 3]) \in 0 .. B * (B * B) - 1
  <2> DEFINE x == v[i + 2] + B * v[i + 3]
  <2>1. x \in 0 .. B * B - 1
    BY <1>3
  <2> HIDE DEF x
  <2>2. v[i + 1] + B * x \in 0 .. B * (B * B) - 1
    BY <1>1, <1>2, <2>1, DigitBound DEF Byte
  <2> QED BY <2>2 DEF x
<1>5. v[i] + B * (v[i + 1] + B * (v[i + 2] + B * v[i + 3])) \in 0 .. B * (B * (B * B)) - 1
  <2> DEFINE x == v[i + 1] + B * (v[i + 2] + B * v[i + 3])
  <2>1. x \in 0 .. B * (B * B) - 1
    BY <1>4
  <2> HIDE DEF x
  <2>2. v[i] + B * x \in 0 .. B * (B * (B * B)) - 1
    BY <1>1, <1>2, <2>1, DigitBound DEF Byte
  <2> QED BY <2>2 DEF x
<1> QED
  BY <1>5 DEF Word, WordMod

\* Words of equal value are equal byte by byte.
LEMMA WordEqual ==
  ASSUME NEW l, NEW r, NEW i \in Nat, BytesAt(l, i), BytesAt(r, i),
         Word(l, i) = Word(r, i)
  PROVE  \A b \in 0 .. WordSize - 1 : l[i + b] = r[i + b]
<1> DEFINE B == ByteMod
           l2 == l[i + 2] + B * l[i + 3]
           r2 == r[i + 2] + B * r[i + 3]
           l1 == l[i + 1] + B * l2
           r1 == r[i + 1] + B * r2
<1>1. l[i] \in Byte /\ l[i + 1] \in Byte /\ l[i + 2] \in Byte /\ l[i + 3] \in Byte
  BY WordBytes
<1>2. r[i] \in Byte /\ r[i + 1] \in Byte /\ r[i + 2] \in Byte /\ r[i + 3] \in Byte
  BY WordBytes
<1>3. l2 \in Nat /\ r2 \in Nat
  BY <1>1, <1>2, ByteAssumption DEF Byte
<1>4. l1 \in Nat /\ r1 \in Nat
  <2> HIDE DEF l2, r2
  <2> QED BY <1>1, <1>2, <1>3, ByteAssumption DEF Byte
<1>5. l[i] = r[i] /\ l1 = r1
  <2>1. l[i] + B * l1 = r[i] + B * r1
    BY DEF Word
  <2> HIDE DEF l1, r1
  <2> QED BY <1>1, <1>2, <1>4, <2>1, ByteAssumption, DigitsUnique DEF Byte
<1>6. l[i + 1] = r[i + 1] /\ l2 = r2
  <2> HIDE DEF l2, r2
  <2> QED BY <1>1, <1>2, <1>3, <1>5, ByteAssumption, DigitsUnique DEF Byte
<1>7. l[i + 2] = r[i + 2] /\ l[i + 3] = r[i + 3]
  <2>1. l[i + 2] + B * l[i + 3] = r[i + 2] + B * r[i + 3]
    BY <1>6
  <2>2. /\ l[i + 2] \in 0 .. B - 1 /\ l[i + 3] \in Nat
        /\ r[i + 2] \in 0 .. B - 1 /\ r[i + 3] \in Nat
    BY <1>1, <1>2 DEF Byte
  <2>3. B \in Nat
    BY ByteAssumption
  <2>4. \A a, b \in 0 .. B - 1 : \A x, y \in Nat :
          a + B * x = b + B * y => a = b /\ x = y
    <3> HIDE DEF B
    <3> QED BY <2>3, DigitsUnique
  <2> QED BY <2>1, <2>2, <2>4
<1>8. l[i + 0] = r[i + 0]
  BY <1>5
<1>9. \A b \in 0 .. WordSize - 1 : b = 0 \/ b = 1 \/ b = 2 \/ b = 3
  BY DEF WordSize
<1> QED
  BY <1>6, <1>7, <1>8, <1>9

-----------------------------------------------------------------------------
(* The comparator.                                                         *)

\* The bytes that the strings share before byte i, none of them a terminator.
Shared(l, r, i) == \A b \in 0 .. i - 1 : l[b] = r[b] /\ l[b] # 0

\* While the loop has not stopped, the words it reads are inside both views.
LEMMA InsideViews ==
  ASSUME NEW v, NEW n, IsString(v, n), NEW i \in Nat, i <= n
  PROVE  BytesAt(v, i)
<1>1. PICK m \in Nat : v \in [0 .. m -> Byte] /\ n + WordSize - 1 <= m
  BY DEF IsString
<1>2. n \in Nat
  BY DEF IsString
<1>3. \A b \in 0 .. WordSize - 1 : i + b \in 0 .. m
  BY <1>1, <1>2 DEF WordSize
<1> QED
  BY <1>1, <1>3 DEF BytesAt

\* Strings that share their first i bytes are no shorter.
LEMMA SharedInside ==
  ASSUME NEW l, NEW r, NEW n, NEW m, IsString(l, n), IsString(r, m),
         NEW i \in Nat, Shared(l, r, i)
  PROVE  i <= n /\ i <= m
<1>1. n \in Nat /\ m \in Nat /\ l[n] = 0 /\ r[m] = 0
  BY DEF IsString, EndsAt
<1>2. ~(n < i)
  BY <1>1 DEF Shared
<1>3. ~(m < i)
  BY <1>1 DEF Shared
<1> QED
  BY <1>1, <1>2, <1>3

\* What strncmp answers about the word that holds a terminator.
LEMMA StrnCmpExact ==
  ASSUME NEW l, NEW r, NEW n, NEW m, IsString(l, n), IsString(r, m),
         NEW i \in Nat, Shared(l, r, i), HasNull(l, i) \/ HasNull(r, i)
  PROVE  StrnCmp(l, r, i) = 0 <=> Content(l) = Content(r)
<1>1. /\ n \in Nat /\ l[n] = 0 /\ \A j \in 0 .. n - 1 : l[j] # 0
      /\ m \in Nat /\ r[m] = 0 /\ \A j \in 0 .. m - 1 : r[j] # 0
  BY DEF IsString, EndsAt
<1>2. i <= n /\ i <= m
  BY SharedInside
<1>3. BytesAt(l, i) /\ BytesAt(r, i)
  BY <1>2, InsideViews
<1>4. CASE \E d \in 0 .. WordSize - 1 : Differs(l, r, i, d)
  <2> DEFINE d == CHOOSE d \in 0 .. WordSize - 1 : Differs(l, r, i, d)
  <2>1. d \in 0 .. WordSize - 1 /\ Differs(l, r, i, d)
    BY <1>4
  <2> HIDE DEF d
  <2>2. l[i + d] \in Byte /\ r[i + d] \in Byte /\ l[i + d] # r[i + d]
    BY <1>3, <2>1 DEF BytesAt, Differs
  <2>3. l[i + d] - r[i + d] # 0
    BY <2>2 DEF Byte
  <2>4. StrnCmp(l, r, i) # 0
    BY <1>4, <2>3 DEF StrnCmp, d
  <2>5. ASSUME Content(l) = Content(r)
        PROVE  FALSE
    <3>1. n = m /\ \A j \in 0 .. n - 1 : l[j] = r[j]
      BY <2>5, ContentEqual
    <3>2. i + d \in Nat
      BY <2>1 DEF WordSize
    <3>3. i + d > n
      <4>1. ~(i + d < n)
        BY <1>1, <2>2, <3>1, <3>2
      <4>2. i + d # n
        BY <1>1, <2>2, <3>1
      <4> QED BY <1>1, <3>2, <4>1, <4>2
    <3>4. n - i \in 0 .. d - 1 /\ i + (n - i) = n
      BY <1>1, <1>2, <2>1, <3>3 DEF WordSize
    <3> QED BY <1>1, <2>1, <3>4 DEF Differs
  <2> QED BY <2>4, <2>5
<1>5. CASE ~ \E d \in 0 .. WordSize - 1 : Differs(l, r, i, d)
  <2>1. StrnCmp(l, r, i) = 0
    BY <1>5 DEF StrnCmp
  <2>2. PICK z \in 0 .. WordSize - 1 : l[i + z] = 0 \/ r[i + z] = 0
    BY DEF HasNull
  \* The bytes of the word up to the first terminator are equal.
  <2> DEFINE T == {d \in 0 .. WordSize - 1 : l[i + d] # r[i + d] \/ l[i + d] = 0}
  <2>3. T # {} /\ T \subseteq Nat
    <3>1. z \in T
      BY <2>2
    <3>2. \A d \in T : d \in Nat
      BY DEF WordSize
    <3> HIDE DEF T
    <3> QED BY <3>1, <3>2
  <2>4. PICK d \in T : \A e \in T : d <= e
    <3> HIDE DEF T
    <3> QED BY <2>3, LeastNat
  <2>5. d \in 0 .. WordSize - 1 /\ (l[i + d] # r[i + d] \/ l[i + d] = 0)
    BY <2>4
  <2>6. \A b \in 0 .. d - 1 : l[i + b] = r[i + b] /\ l[i + b] # 0
    <3>1. \A b \in 0 .. d - 1 : b \in 0 .. WordSize - 1 /\ ~(d <= b)
      BY <2>5 DEF WordSize
    <3> QED BY <2>4, <3>1
  <2>7. l[i + d] = r[i + d] /\ l[i + d] = 0
    BY <1>5, <2>5, <2>6 DEF Differs
  <2>8. Shared(l, r, i + d)
    <3> SUFFICES ASSUME NEW b \in 0 .. (i + d) - 1
                 PROVE  l[b] = r[b] /\ l[b] # 0
      BY DEF Shared
    <3>1. CASE b < i
      BY <3>1 DEF Shared
    <3>2. CASE i <= b
      <4>1. b - i \in 0 .. d - 1 /\ i + (b - i) = b
        BY <2>5, <3>2 DEF WordSize
      <4> QED BY <2>6, <4>1
    <3> QED BY <3>1, <3>2
  <2>9. i + d = n /\ i + d = m
    <3>1. i + d \in Nat
      BY <2>5 DEF WordSize
    <3>2. i + d <= n /\ i + d <= m
      BY <2>8, <3>1, SharedInside
    <3>3. ~(i + d < n)
      BY <1>1, <2>7, <3>1
    <3>4. ~(i + d < m)
      <4>1. r[i + d] = 0
        BY <2>7
      <4>2. i + d < m => i + d \in 0 .. m - 1
        BY <1>1, <3>1
      <4> QED BY <1>1, <4>1, <4>2
    <3> QED BY <1>1, <3>1, <3>2, <3>3, <3>4
  <2>10. Content(l) = Content(r)
    BY <2>8, <2>9, ContentEqual DEF Shared
  <2> QED BY <2>1, <2>10
<1> QED
  BY <1>4, <1>5

\* What the difference of two words without a terminator answers.
LEMMA SignedExact ==
  ASSUME NEW x \in 0 .. WordMod - 1, NEW y \in 0 .. WordMod - 1, x # y
  PROVE  Signed((x - y) % WordMod) # 0
<1>1. WordMod \in Nat
  <2>1. ByteMod * ByteMod \in Nat
    BY ByteAssumption
  <2>2. ByteMod * (ByteMod * ByteMod) \in Nat
    BY <2>1, ByteAssumption
  <2> QED BY <2>2, ByteAssumption DEF WordMod
<1>2. (x - y) % WordMod \in 1 .. WordMod - 1
  BY <1>1, DifferenceMod
<1> DEFINE z == (x - y) % WordMod
<1>3. z \in 1 .. WordMod - 1
  BY <1>2
<1> HIDE DEF z
<1>4. Signed(z) # 0
  BY <1>1, <1>3 DEF Signed
<1> QED
  BY <1>4 DEF z

\* The loop stops, at the first word that holds a terminator or differs.
LEMMA LoopStops ==
  ASSUME NEW l, NEW r, NEW n, NEW m, IsString(l, n), IsString(r, m)
  PROVE  \E i \in DOMAIN l : StopsFirst(l, r, i)
<1>1. PICK k \in Nat : l \in [0 .. k -> Byte] /\ n + WordSize - 1 <= k
  BY DEF IsString
<1>2. n \in Nat /\ l[n] = 0
  BY DEF IsString, EndsAt
<1> DEFINE T == {i \in DOMAIN l : i % WordSize = 0 /\ Stops(l, r, i)}
<1>3. T \subseteq Nat /\ DOMAIN l = 0 .. k
  BY <1>1
<1>4. T # {}
  <2> DEFINE q == n % WordSize
  <2>1. q \in 0 .. WordSize - 1 /\ n - q \in 0 .. n /\ (n - q) % WordSize = 0
    BY <1>2 DEF WordSize
  <2>2. (n - q) + q = n
    BY <1>2, <2>1 DEF WordSize
  <2>3. HasNull(l, n - q)
    BY <1>2, <2>1, <2>2 DEF HasNull
  <2>4. n - q \in 0 .. k
    BY <1>1, <1>2, <2>1 DEF WordSize
  <2>5. Stops(l, r, n - q)
    BY <2>3 DEF Stops
  <2>6. n - q \in DOMAIN l /\ (n - q) % WordSize = 0
    BY <1>3, <2>1, <2>4
  <2>7. n - q \in T
    <3> HIDE DEF q
    <3> QED BY <2>5, <2>6
  <2> QED BY <2>7
<1>5. PICK i \in T : \A j \in T : i <= j
  <2> HIDE DEF T
  <2> QED BY <1>3, <1>4, LeastNat
<1>6. \A j \in 0 .. i - 1 : j \in DOMAIN l /\ ~(i <= j)
  BY <1>3, <1>5
<1> QED
  BY <1>5, <1>6 DEF StopsFirst

\* Up to the word the loop stops at, the strings share their bytes.
LEMMA SharedSoFar ==
  ASSUME NEW l, NEW r, NEW n, NEW m, IsString(l, n), IsString(r, m),
         NEW i \in Nat, StopsFirst(l, r, i)
  PROVE  Shared(l, r, i)
<1>1. n \in Nat /\ m \in Nat /\ l[n] = 0 /\ r[m] = 0
  BY DEF IsString, EndsAt
<1> DEFINE T == {b \in 0 .. i - 1 : ~(l[b] = r[b] /\ l[b] # 0)}
<1> SUFFICES ASSUME T # {}
             PROVE  FALSE
  BY DEF Shared
<1>2. PICK b \in T : \A c \in T : b <= c
  <2>1. T \subseteq Nat
    OBVIOUS
  <2> HIDE DEF T
  <2> QED BY <2>1, LeastNat
<1>3. b \in 0 .. i - 1 /\ b \in Nat
  BY <1>2
<1>4. Shared(l, r, b)
  BY <1>2, <1>3 DEF Shared
<1> DEFINE q == b % WordSize
           j == b - q
<1>5. q \in 0 .. WordSize - 1 /\ j \in 0 .. i - 1 /\ j % WordSize = 0
      /\ j + q = b /\ j \in Nat /\ j <= b
  BY <1>3 DEF WordSize
<1>6. ~HasNull(l, j) /\ ~HasNull(r, j) /\ Word(l, j) = Word(r, j)
  BY <1>5 DEF StopsFirst, Stops
<1>7. b <= n /\ b <= m
  BY <1>3, <1>4, SharedInside
<1>8. BytesAt(l, j) /\ BytesAt(r, j)
  <2>1. j <= n /\ j <= m
    BY <1>1, <1>3, <1>5, <1>7
  <2> HIDE DEF j
  <2> QED BY <1>5, <2>1, InsideViews
<1>9. \A c \in 0 .. WordSize - 1 : l[j + c] = r[j + c]
  <2> HIDE DEF j
  <2> QED BY <1>5, <1>6, <1>8, WordEqual
<1>10. l[b] = r[b] /\ l[b] # 0
  <2>1. l[j + q] = r[j + q] /\ l[j + q] # 0
    <3> HIDE DEF j, q
    <3> QED BY <1>5, <1>6, <1>9 DEF HasNull
  <2> QED BY <1>5, <2>1
<1> QED
  BY <1>2, <1>10

\* string_comparator answers 0 exactly for equal strings (the property
\* ComparatorExact of interned strings, for strings of any kind and length).
THEOREM ComparatorIsExact ==
  ASSUME NEW l, NEW r, NEW n, NEW m, IsString(l, n), IsString(r, m)
  PROVE  StringComparator(l, r) = 0 <=> Content(l) = Content(r)
<1> DEFINE i == CHOOSE i \in DOMAIN l : StopsFirst(l, r, i)
<1>1. i \in Nat /\ StopsFirst(l, r, i)
  <2>1. i \in DOMAIN l /\ StopsFirst(l, r, i)
    BY LoopStops
  <2>2. \A j \in DOMAIN l : j \in Nat
    BY DEF IsString
  <2> QED BY <2>1, <2>2
<1>2. StringComparator(l, r) = CompareAt(l, r, i)
  BY DEF StringComparator
<1> HIDE DEF i
<1>3. Shared(l, r, i)
  BY <1>1, SharedSoFar
<1>4. CASE HasNull(l, i) \/ HasNull(r, i)
  BY <1>1, <1>2, <1>3, <1>4, StrnCmpExact DEF CompareAt
<1>5. CASE ~(HasNull(l, i) \/ HasNull(r, i))
  <2>1. Word(l, i) # Word(r, i)
    BY <1>1, <1>5 DEF StopsFirst, Stops
  <2>2. i <= n /\ i <= m
    BY <1>1, <1>3, SharedInside
  <2>3. BytesAt(l, i) /\ BytesAt(r, i)
    BY <1>1, <2>2, InsideViews
  <2>4. StringComparator(l, r) # 0
    BY <1>1, <1>2, <1>5, <2>1, <2>3, WordBound, SignedExact DEF CompareAt
  <2>5. ASSUME Content(l) = Content(r)
        PROVE  FALSE
    <3>1. n = m /\ \A b \in 0 .. n - 1 : l[b] = r[b]
      BY <2>5, ContentEqual
    <3>2. n \in Nat /\ l[n] = 0 /\ r[m] = 0
      BY DEF IsString, EndsAt
    \* Equal words without a terminator are equal words.
    <3>3. i + WordSize - 1 < n
      <4>1. \A b \in 0 .. WordSize - 1 : i + b # n
        BY <1>5, <3>2 DEF HasNull
      <4>2. ~(n <= i + WordSize - 1)
        <5> SUFFICES ASSUME n <= i + WordSize - 1 PROVE FALSE
          OBVIOUS
        <5>1. n - i \in 0 .. WordSize - 1 /\ i + (n - i) = n
          BY <1>1, <2>2, <3>2 DEF WordSize
        <5> QED BY <4>1, <5>1
      <4> QED BY <1>1, <3>2, <4>2 DEF WordSize
    <3>4. l[i] = r[i] /\ l[i + 1] = r[i + 1] /\ l[i + 2] = r[i + 2] /\ l[i + 3] = r[i + 3]
      BY <1>1, <3>1, <3>2, <3>3 DEF WordSize
    <3> QED BY <2>1, <3>4 DEF Word
  <2> QED BY <2>4, <2>5
<1> QED
  BY <1>4, <1>5


-----------------------------------------------------------------------------
(* Interned strings.                                                       *)

\* The list of chunks: empty until intern_init, and last ends it.
ListOK ==
  /\ ~Inited => chunks = {} /\ strings = {} /\ last = None
  /\ Inited => /\ first \in chunks
               /\ last \in chunks
               /\ next[last] = None
               /\ \A c \in chunks : next[c] \in chunks \cup {None}

\* The inductive invariant.
IInv ==
  /\ TypeOK
  /\ ListOK
  /\ ChunksLinked
  /\ StringsInside
  /\ StringsApart
  /\ OnePointer

-----------------------------------------------------------------------------
(* Views of memory.                                                        *)

Memory == [Chunk -> [Room -> Byte]]

LEMMA ZeroIsByte == 0 \in Byte
  BY ByteAssumption DEF Byte

\* What a pointer into a chunk sees.
LEMMA SeeIs ==
  ASSUME NEW m \in Memory, NEW p \in Pointer
  PROVE  /\ See(m, p) \in [0 .. ChunkSize + WordSize - 2 - p[2] -> Byte]
         /\ \A i \in 0 .. ChunkSize + WordSize - 2 - p[2] :
              See(m, p)[i] = m[p[1]][p[2] + i]
<1>1. p[1] \in Chunk /\ p[2] \in 0 .. ChunkSize - 1 /\ ChunkSize \in Nat
  BY InternAssumption DEF Pointer
<1>2. \A i \in 0 .. ChunkSize + WordSize - 2 - p[2] : p[2] + i \in Room
  BY <1>1 DEF Room, WordSize
<1>3. \A i \in 0 .. ChunkSize + WordSize - 2 - p[2] : m[p[1]][p[2] + i] \in Byte
  BY <1>1, <1>2 DEF Memory
<1> QED
  BY <1>3 DEF See

\* A string that ends inside its chunk is a string to the comparator.
LEMMA SeeString ==
  ASSUME NEW m \in Memory, NEW p \in Pointer, NEW n \in Nat,
         p[2] + n < ChunkSize,
         m[p[1]][p[2] + n] = 0,
         \A i \in 0 .. n - 1 : m[p[1]][p[2] + i] # 0
  PROVE  IsString(See(m, p), n)
<1> DEFINE k == ChunkSize + WordSize - 2 - p[2]
<1>1. p[2] \in 0 .. ChunkSize - 1 /\ ChunkSize \in Nat
  BY InternAssumption DEF Pointer
<1>2. k \in Nat /\ n + WordSize - 1 <= k /\ n \in 0 .. k /\ \A i \in 0 .. n - 1 : i \in 0 .. k
  BY <1>1 DEF WordSize
<1>3. See(m, p) \in [0 .. k -> Byte] /\ \A i \in 0 .. k : See(m, p)[i] = m[p[1]][p[2] + i]
  BY SeeIs
<1> HIDE DEF k
<1>4. EndsAt(See(m, p), n)
  BY <1>2, <1>3 DEF EndsAt
<1> QED
  BY <1>2, <1>3, <1>4 DEF IsString

\* And conversely.
LEMMA StringSeen ==
  ASSUME NEW m \in Memory, NEW p \in Pointer, NEW n \in 0 .. ChunkSize - 1,
         p[2] + n < ChunkSize, EndsAt(See(m, p), n)
  PROVE  /\ m[p[1]][p[2] + n] = 0
         /\ \A i \in 0 .. n - 1 : m[p[1]][p[2] + i] # 0
<1> DEFINE k == ChunkSize + WordSize - 2 - p[2]
<1>1. p[2] \in 0 .. ChunkSize - 1 /\ ChunkSize \in Nat
  BY InternAssumption DEF Pointer
<1>2. n \in 0 .. k /\ \A i \in 0 .. n - 1 : i \in 0 .. k
  BY <1>1 DEF WordSize
<1>3. \A i \in 0 .. k : See(m, p)[i] = m[p[1]][p[2] + i]
  BY SeeIs
<1> HIDE DEF k
<1> QED
  BY <1>2, <1>3 DEF EndsAt

\* A string whose bytes are not written to stays the string it is.
LEMMA StringKept ==
  ASSUME NEW m \in Memory, NEW w \in Memory, NEW p \in Pointer,
         NEW n \in 0 .. ChunkSize - 1, p[2] + n < ChunkSize, EndsAt(See(m, p), n),
         \A i \in 0 .. n : w[p[1]][p[2] + i] = m[p[1]][p[2] + i]
  PROVE  /\ IsString(See(m, p), n)
         /\ IsString(See(w, p), n)
         /\ Content(See(w, p)) = Content(See(m, p))
<1> DEFINE k == ChunkSize + WordSize - 2 - p[2]
<1>1. p[2] \in 0 .. ChunkSize - 1 /\ ChunkSize \in Nat /\ n \in Nat
  BY InternAssumption DEF Pointer
<1>2. m[p[1]][p[2] + n] = 0 /\ \A i \in 0 .. n - 1 : m[p[1]][p[2] + i] # 0
  BY StringSeen
<1>3. n \in 0 .. n /\ \A i \in 0 .. n - 1 : i \in 0 .. n
  BY <1>1
<1>4. w[p[1]][p[2] + n] = 0 /\ \A i \in 0 .. n - 1 : w[p[1]][p[2] + i] # 0
  BY <1>2, <1>3
<1>5. IsString(See(m, p), n) /\ IsString(See(w, p), n)
  BY <1>1, <1>2, <1>4, SeeString
<1>6. \A i \in 0 .. n - 1 : i \in 0 .. k
  BY <1>1 DEF WordSize
<1>7. \A i \in 0 .. k : See(m, p)[i] = m[p[1]][p[2] + i] /\ See(w, p)[i] = w[p[1]][p[2] + i]
  BY SeeIs
<1>8. \A i \in 0 .. n - 1 : See(w, p)[i] = See(m, p)[i]
  <2> HIDE DEF k
  <2> QED BY <1>3, <1>6, <1>7
<1> QED
  BY <1>5, <1>8, ContentEqual

-----------------------------------------------------------------------------
(* Strings the client has.                                                 *)

\* Whatever intern is called with is a string that fits into a chunk.
LEMMA ArgumentString ==
  ASSUME NEW v \in Arguments \cup Temporaries
  PROVE  \E n \in 0 .. ChunkSize - 1 : IsString(v, n)
<1>1. ASSUME NEW s, s \in Seq(Byte), NEW junk \in Junk, NEW n \in 0 .. Len(s),
             n < ChunkSize, n = Len(s) \/ s[n + 1] = 0, \A i \in 1 .. n : s[i] # 0
      PROVE  IsString(Argument(s, junk), n)
  <2> DEFINE a == Argument(s, junk)
             k == Len(s) + WordSize - 1
  <2>1. Len(s) \in Nat /\ n \in Nat /\ k \in Nat /\ n + WordSize - 1 <= k
        /\ n \in 0 .. k /\ \A i \in 0 .. n - 1 : i \in 0 .. k /\ i < Len(s) /\ i + 1 \in 1 .. n
    BY <1>1 DEF WordSize
  <2>2. \A i \in 0 .. k : (IF i < Len(s) THEN s[i + 1] ELSE IF i = Len(s) THEN 0 ELSE junk) \in Byte
    <3>1. junk \in Byte
      BY InternAssumption
    <3>2. \A i \in 0 .. k : i < Len(s) => s[i + 1] \in Byte
      BY <1>1, <2>1
    <3> QED BY <3>1, <3>2, ZeroIsByte
  <2>3. a = [i \in 0 .. k |-> IF i < Len(s) THEN s[i + 1] ELSE IF i = Len(s) THEN 0 ELSE junk]
    BY DEF Argument
  <2>4. a \in [0 .. k -> Byte]
    BY <2>2, <2>3
  <2>5. a[n] = 0
    BY <1>1, <2>1, <2>3
  <2>6. \A i \in 0 .. n - 1 : a[i] # 0
    <3> SUFFICES ASSUME NEW i \in 0 .. n - 1 PROVE a[i] # 0
      OBVIOUS
    <3>1. a[i] = s[i + 1]
      BY <2>1, <2>3
    <3> QED BY <1>1, <2>1, <3>1
  <2> HIDE DEF a, k
  <2>7. EndsAt(a, n)
    BY <2>1, <2>4, <2>5, <2>6 DEF EndsAt
  <2>8. IsString(a, n)
    BY <2>1, <2>4, <2>7 DEF IsString
  <2> QED BY <2>8 DEF a
<1>2. ASSUME NEW t \in Text, NEW junk \in Junk, v = Argument(t, junk)
      PROVE  \E n \in 0 .. ChunkSize - 1 : IsString(v, n)
  <2>1. t \in Seq(Byte) /\ Len(t) \in Nat /\ Len(t) < ChunkSize /\ ChunkSize \in Nat
        /\ \A i \in 1 .. Len(t) : t[i] # 0
    BY InternAssumption
  <2>2. IsString(Argument(t, junk), Len(t))
    BY <1>1, <2>1
  <2>3. Len(t) \in 0 .. ChunkSize - 1
    BY <2>1
  <2> QED BY <1>2, <2>2, <2>3
<1>3. ASSUME NEW t \in Source, NEW start \in 0 .. Len(t), NEW end \in start .. Len(t) + 1,
             NEW junk \in Junk, v = Argument(Slice(t, start, end), junk)
      PROVE  \E n \in 0 .. ChunkSize - 1 : IsString(v, n)
  <2> DEFINE s == Slice(t, start, end)
             n == IF end <= Len(t) THEN end - start ELSE Len(t) - start
  <2>1. t \in Seq(Byte) /\ Len(t) \in Nat /\ Len(t) < ChunkSize /\ ChunkSize \in Nat
        /\ \A i \in 1 .. Len(t) : t[i] # 0
    BY InternAssumption
  <2>2. start \in Nat /\ end \in Nat /\ start <= end
    BY <2>1
  <2>3. \A i \in 1 .. end - start :
          (IF start + i <= Len(t) THEN t[start + i] ELSE 0) \in Byte
    <3>1. \A i \in 1 .. end - start : start + i <= Len(t) => t[start + i] \in Byte
      BY <2>1, <2>2
    <3> QED BY <3>1, ZeroIsByte
  <2>4. s = [i \in 1 .. end - start |-> IF start + i <= Len(t) THEN t[start + i] ELSE 0]
    BY DEF Slice
  <2>5. s \in Seq(Byte) /\ Len(s) = end - start
    <3>1. end - start \in Nat /\ s \in [1 .. end - start -> Byte]
      BY <2>2, <2>3, <2>4
    <3> QED BY <2>4, <3>1
  <2>6. n \in 0 .. Len(s) /\ n < ChunkSize
    BY <2>1, <2>2, <2>5
  <2>7. n = Len(s) \/ s[n + 1] = 0
    <3>1. CASE end <= Len(t)
      BY <2>5, <3>1
    <3>2. CASE ~(end <= Len(t))
      <4>1. n = Len(t) - start /\ end = Len(t) + 1
        BY <2>1, <2>2, <3>2
      <4>2. n + 1 \in 1 .. end - start /\ ~(start + (n + 1) <= Len(t))
        BY <2>1, <2>2, <4>1
      <4> HIDE DEF n, s
      <4> QED BY <2>4, <4>2
    <3> QED BY <3>1, <3>2
  <2>8. \A i \in 1 .. n : s[i] # 0
    <3> SUFFICES ASSUME NEW i \in 1 .. n PROVE s[i] # 0
      OBVIOUS
    <3>1. i \in 1 .. end - start /\ start + i \in 1 .. Len(t)
      BY <2>1, <2>2
    <3> HIDE DEF n, s
    <3> QED BY <2>1, <2>4, <3>1
  <2> HIDE DEF n, s
  <2>9. IsString(Argument(s, junk), n)
    BY <1>1, <2>5, <2>6, <2>7, <2>8
  <2>10. n \in 0 .. ChunkSize - 1
    BY <2>1, <2>5, <2>6
  <2> QED BY <1>3, <2>9, <2>10 DEF s
<1>4. \/ \E t \in Text, junk \in Junk : v = Argument(t, junk)
      \/ \E t \in Source : \E start \in 0 .. Len(t) : \E end \in start .. Len(t) + 1 :
           \E junk \in Junk : v = Argument(Slice(t, start, end), junk)
  BY DEF Arguments, Temporaries, Slices
<1> QED
  BY <1>2, <1>3, <1>4

-----------------------------------------------------------------------------
(* The strings in the set.                                                 *)

\* Each string in the set is one to the comparator, and inside its chunk.
LEMMA StoredString ==
  ASSUME IInv, NEW p \in strings
  PROVE  /\ mem \in Memory /\ p \in Pointer /\ p[1] \in chunks
         /\ LenAt(p) \in 0 .. ChunkSize - 1
         /\ EndsAt(See(mem, p), LenAt(p))
         /\ IsString(See(mem, p), LenAt(p))
         /\ p[2] + LenAt(p) < ChunkSize
         /\ p[1] = last => p[2] + LenAt(p) < tail
<1>1. mem \in Memory /\ p \in Pointer /\ p[1] \in chunks
  BY DEF IInv, TypeOK, Memory, StringsInside
<1>2. PICK n \in 0 .. ChunkSize - 1 :
         /\ EndsAt(See(mem, p), n)
         /\ p[2] + n < ChunkSize
         /\ p[1] = last => p[2] + n < tail
  BY DEF IInv, StringsInside
<1>3. IsString(See(mem, p), n)
  BY <1>1, <1>2, StringKept
<1>4. n = LenAt(p)
  BY <1>3, StrLenIs DEF LenAt
<1> QED
  BY <1>1, <1>2, <1>3, <1>4

\* set_lookup finds the strings that are equal to the argument, and them only.
LEMMA LookupExact ==
  ASSUME IInv, NEW v, NEW n, IsString(v, n)
  PROVE  SetLookup(v) = {p \in strings : StringAt(p) = Content(v)}
<1>1. ASSUME NEW p \in strings
      PROVE  StringComparator(v, See(mem, p)) = 0 <=> StringAt(p) = Content(v)
  <2>1. IsString(See(mem, p), LenAt(p))
    BY StoredString
  <2> QED BY <2>1, ComparatorIsExact DEF StringAt
<1>2. ASSUME NEW p \in strings, StringAt(p) = Content(v)
      PROVE  StringHasher(v) = StringHasher(See(mem, p))
  BY <1>2 DEF StringHasher, StringAt
<1> QED
  BY <1>1, <1>2 DEF SetLookup

\* memmove writes the string and its terminator and nothing else.
LEMMA CopyWrites ==
  ASSUME NEW m \in Memory, NEW p \in Pointer, NEW v,
         NEW n \in 0 .. ChunkSize - 1, IsString(v, n), p[2] + n < ChunkSize
  PROVE  /\ CopyTo(m, p, v) \in Memory
         /\ IsString(See(CopyTo(m, p, v), p), n)
         /\ Content(See(CopyTo(m, p, v), p)) = Content(v)
         /\ \A c \in Chunk, o \in Room :
              (c # p[1] \/ o < p[2] \/ o > p[2] + n) =>
                CopyTo(m, p, v)[c][o] = m[c][o]
<1> DEFINE w == CopyTo(m, p, v)
<1>1. p[1] \in Chunk /\ p[2] \in 0 .. ChunkSize - 1 /\ ChunkSize \in Nat /\ n \in Nat
  BY InternAssumption DEF Pointer
<1>2. StrLen(v) = n
  BY StrLenIs
<1>3. w = [m EXCEPT ![p[1]] = [o \in Room |->
             IF p[2] <= o /\ o <= p[2] + n THEN v[o - p[2]] ELSE m[p[1]][o]]]
  BY <1>2 DEF CopyTo, Memory
<1>4. \A i \in 0 .. n : v[i] \in Byte
  BY <1>1 DEF IsString, WordSize
<1>5. v[n] = 0 /\ \A i \in 0 .. n - 1 : v[i] # 0
  BY DEF IsString, EndsAt
<1>6. \A o \in Room : o \in Nat
  BY <1>1 DEF Room, WordSize
<1>7. \A o \in Room : (IF p[2] <= o /\ o <= p[2] + n THEN v[o - p[2]] ELSE m[p[1]][o]) \in Byte
  <2> SUFFICES ASSUME NEW o \in Room
               PROVE  (IF p[2] <= o /\ o <= p[2] + n THEN v[o - p[2]] ELSE m[p[1]][o]) \in Byte
    OBVIOUS
  <2>1. m[p[1]][o] \in Byte
    BY <1>1 DEF Memory
  <2>2. p[2] <= o /\ o <= p[2] + n => o - p[2] \in 0 .. n
    BY <1>1, <1>6
  <2> QED BY <1>4, <2>1, <2>2
<1>8. w \in Memory
  BY <1>1, <1>3, <1>7 DEF Memory
<1>9. \A o \in Room : w[p[1]][o] =
        IF p[2] <= o /\ o <= p[2] + n THEN v[o - p[2]] ELSE m[p[1]][o]
  BY <1>1, <1>3 DEF Memory
<1>10. \A c \in Chunk : c # p[1] => w[c] = m[c]
  BY <1>3 DEF Memory
<1>11. \A c \in Chunk, o \in Room :
         (c # p[1] \/ o < p[2] \/ o > p[2] + n) => w[c][o] = m[c][o]
  <2> HIDE DEF w
  <2>1. \A o \in Room : (o < p[2] \/ o > p[2] + n) => ~(p[2] <= o /\ o <= p[2] + n)
    BY <1>1, <1>6
  <2> QED BY <1>9, <1>10, <2>1
<1>12. \A i \in 0 .. n : w[p[1]][p[2] + i] = v[i]
  <2> HIDE DEF w
  <2> SUFFICES ASSUME NEW i \in 0 .. n PROVE w[p[1]][p[2] + i] = v[i]
    OBVIOUS
  <2>1. p[2] + i \in Room /\ p[2] <= p[2] + i /\ p[2] + i <= p[2] + n /\ (p[2] + i) - p[2] = i
    BY <1>1 DEF Room, WordSize
  <2> QED BY <1>9, <2>1
<1> HIDE DEF w
<1>13. w[p[1]][p[2] + n] = 0 /\ \A i \in 0 .. n - 1 : w[p[1]][p[2] + i] # 0
  <2>1. n \in 0 .. n /\ \A i \in 0 .. n - 1 : i \in 0 .. n
    BY <1>1
  <2> QED BY <1>5, <1>12, <2>1
<1>14. IsString(See(w, p), n)
  BY <1>1, <1>8, <1>13, SeeString
<1>15. \A i \in 0 .. n - 1 : See(w, p)[i] = v[i]
  <2> DEFINE k == ChunkSize + WordSize - 2 - p[2]
  <2>1. \A i \in 0 .. n - 1 : i \in 0 .. n /\ i \in 0 .. k
    BY <1>1 DEF WordSize
  <2>2. \A i \in 0 .. k : See(w, p)[i] = w[p[1]][p[2] + i]
    BY <1>8, SeeIs
  <2> HIDE DEF k
  <2> QED BY <1>12, <2>1, <2>2
<1>16. Content(See(w, p)) = Content(v)
  BY <1>14, <1>15, ContentEqual
<1> QED
  BY <1>8, <1>11, <1>14, <1>16 DEF w

-----------------------------------------------------------------------------
(* Putting a string behind the others.                                     *)

\* p is free for v: it lies behind all strings of its chunk, and the memory m
\* that is written to still holds the strings.
FreeFor(m, p, v, n) ==
  /\ m \in Memory
  /\ p \in Pointer
  /\ p[2] + n < ChunkSize
  /\ \A q \in strings : m[q[1]] = mem[q[1]]
  /\ \A q \in strings : q[1] = p[1] => q[2] + LenAt(q) < p[2]

LEMMA PutKeepsStrings ==
  ASSUME IInv, NEW m, NEW p, NEW v, NEW n \in 0 .. ChunkSize - 1, IsString(v, n),
         FreeFor(m, p, v, n), mem' = CopyTo(m, p, v), NEW q \in strings
  PROVE  /\ IsString(See(mem', q), LenAt(q))
         /\ EndsAt(See(mem', q), LenAt(q))
         /\ Content(See(mem', q)) = StringAt(q)
         /\ StrLen(See(mem', q)) = LenAt(q)
<1>1. m \in Memory /\ p \in Pointer /\ p[2] + n < ChunkSize
  BY DEF FreeFor
<1>2. mem' \in Memory
  BY <1>1, CopyWrites
<1>3. /\ mem \in Memory /\ q \in Pointer /\ LenAt(q) \in 0 .. ChunkSize - 1
      /\ EndsAt(See(mem, q), LenAt(q)) /\ q[2] + LenAt(q) < ChunkSize
  BY StoredString
<1>4. q[1] \in Chunk /\ q[2] \in 0 .. ChunkSize - 1 /\ p[2] \in 0 .. ChunkSize - 1 /\ ChunkSize \in Nat
  BY <1>1, <1>3, InternAssumption DEF Pointer
<1> DEFINE z == LenAt(q)
<1> HIDE DEF z
<1>5. \A i \in 0 .. z : mem'[q[1]][q[2] + i] = mem[q[1]][q[2] + i]
  <2> SUFFICES ASSUME NEW i \in 0 .. z
               PROVE  mem'[q[1]][q[2] + i] = mem[q[1]][q[2] + i]
    OBVIOUS
  <2>1. z \in 0 .. ChunkSize - 1 /\ q[2] + z < ChunkSize
    BY <1>3 DEF z
  <2>2. q[2] + i \in Room
    BY <1>4, <2>1 DEF Room, WordSize
  <2>3. q[1] # p[1] \/ q[2] + i < p[2]
    <3>1. q[1] = p[1] => q[2] + z < p[2]
      BY DEF FreeFor, z
    <3> QED BY <1>4, <2>1, <3>1
  <2>4. mem'[q[1]][q[2] + i] = m[q[1]][q[2] + i]
    BY <1>1, <1>4, <2>2, <2>3, CopyWrites
  <2>5. m[q[1]] = mem[q[1]]
    BY DEF FreeFor
  <2> QED BY <2>4, <2>5
<1>6. IsString(See(mem', q), z) /\ Content(See(mem', q)) = Content(See(mem, q))
  BY <1>2, <1>3, <1>5, StringKept DEF z
<1>7. StrLen(See(mem', q)) = z
  BY <1>6, StrLenIs
<1> QED
  BY <1>6, <1>7 DEF z, IsString, StringAt

LEMMA PutAdds ==
  ASSUME IInv, NEW m, NEW p, NEW v, NEW n \in 0 .. ChunkSize - 1, IsString(v, n),
         FreeFor(m, p, v, n), mem' = CopyTo(m, p, v)
  PROVE  /\ mem' \in Memory
         /\ IsString(See(mem', p), n)
         /\ EndsAt(See(mem', p), n)
         /\ Content(See(mem', p)) = Content(v)
         /\ StrLen(See(mem', p)) = n
<1>1. m \in Memory /\ p \in Pointer /\ p[2] + n < ChunkSize
  BY DEF FreeFor
<1>2. mem' \in Memory /\ IsString(See(mem', p), n) /\ Content(See(mem', p)) = Content(v)
  BY <1>1, CopyWrites
<1> QED
  BY <1>2, StrLenIs DEF IsString

LEMMA PutInv ==
  ASSUME IInv, NEW m, NEW p, NEW v, NEW n \in 0 .. ChunkSize - 1, IsString(v, n),
         FreeFor(m, p, v, n), SetLookup(v) = {},
         mem' = CopyTo(m, p, v), strings' = strings \cup {p},
         chunks \subseteq chunks', p[1] \in chunks', last' = p[1], tail' = p[2] + n + 1
  PROVE  StringsInside' /\ StringsApart' /\ OnePointer'
         /\ Table' = Table \cup {<<Content(v), p>>} /\ p \notin strings
<1>1. /\ mem' \in Memory /\ IsString(See(mem', p), n) /\ EndsAt(See(mem', p), n)
      /\ Content(See(mem', p)) = Content(v) /\ StrLen(See(mem', p)) = n
  BY PutAdds
<1>2. \A q \in strings :
        /\ EndsAt(See(mem', q), LenAt(q))
        /\ Content(See(mem', q)) = StringAt(q)
        /\ StrLen(See(mem', q)) = LenAt(q)
  BY PutKeepsStrings
<1>3. \A q \in strings :
        /\ q \in Pointer /\ q[1] \in chunks
        /\ LenAt(q) \in 0 .. ChunkSize - 1
        /\ q[2] + LenAt(q) < ChunkSize
        /\ q[1] = p[1] => q[2] + LenAt(q) < p[2]
  BY StoredString DEF FreeFor
<1>4. p \in Pointer /\ p[2] + n < ChunkSize
  BY DEF FreeFor
<1>5. \A q \in Pointer : q[2] \in Nat /\ ChunkSize \in Nat
  BY InternAssumption DEF Pointer
<1>6. p \notin strings
  BY <1>3, <1>5
<1>7. StringsInside'
  <2> SUFFICES ASSUME NEW q \in strings'
               PROVE  /\ q[1] \in chunks'
                      /\ \E k \in 0 .. ChunkSize - 1 :
                           /\ EndsAt(See(mem', q), k)
                           /\ q[2] + k < ChunkSize
                           /\ q[1] = last' => q[2] + k < tail'
    BY DEF StringsInside
  <2>1. CASE q = p
    <3>1. p[2] + n < tail'
      BY <1>4, <1>5
    <3> QED BY <1>1, <1>4, <2>1, <3>1
  <2>2. CASE q \in strings
    <3>1. q[1] = last' => q[2] + LenAt(q) < tail'
      BY <1>3, <1>4, <1>5, <2>2
    <3> QED BY <1>2, <1>3, <2>2, <3>1
  <2> QED BY <2>1, <2>2
<1>8. StringsApart'
  <2> SUFFICES ASSUME NEW q \in strings', NEW r \in strings', q[1] = r[1], q[2] < r[2]
               PROVE  q[2] + StrLen(See(mem', q)) < r[2]
    BY DEF StringsApart, LenAt
  <2>1. CASE q \in strings /\ r \in strings
    BY <1>2, <2>1 DEF IInv, StringsApart
  <2>2. CASE q \in strings /\ r = p
    BY <1>2, <1>3, <2>2
  <2>3. CASE q = p /\ r \in strings
    BY <1>3, <1>4, <1>5, <2>3
  <2>4. CASE q = p /\ r = p
    BY <1>4, <1>5, <2>4
  <2> QED BY <2>1, <2>2, <2>3, <2>4
<1>9. \A q \in strings : StringAt(q) # Content(v)
  BY LookupExact
<1>10. OnePointer'
  <2> SUFFICES ASSUME NEW q \in strings', NEW r \in strings',
                      Content(See(mem', q)) = Content(See(mem', r))
               PROVE  q = r
    BY DEF OnePointer, StringAt
  <2>1. CASE q \in strings /\ r \in strings
    BY <1>2, <2>1 DEF IInv, OnePointer
  <2>2. CASE q \in strings /\ r = p
    BY <1>1, <1>2, <1>9, <2>2
  <2>3. CASE q = p /\ r \in strings
    BY <1>1, <1>2, <1>9, <2>3
  <2> QED BY <2>1, <2>2, <2>3
<1>11. Table' = Table \cup {<<Content(v), p>>}
  <2>1. Table' = {<<Content(See(mem', q)), q>> : q \in strings \cup {p}}
    BY DEF Table, StringAt
  <2>2. \A q \in strings : <<Content(See(mem', q)), q>> = <<StringAt(q), q>>
    BY <1>2
  <2> QED BY <1>1, <2>1, <2>2 DEF Table
<1> QED
  BY <1>6, <1>7, <1>8, <1>10, <1>11

-----------------------------------------------------------------------------
(* The actions.                                                            *)

LEMMA FreshIs ==
  ASSUME mem \in Memory, NEW c \in Chunk, NEW junk \in Junk
  PROVE  Fresh(c, junk) \in Memory /\ \A d \in Chunk : d # c => Fresh(c, junk)[d] = mem[d]
BY InternAssumption DEF Fresh, Memory

LEMMA InitInv == Init => IInv
<1> SUFFICES ASSUME Init PROVE IInv
  OBVIOUS
<1>1. mem \in Memory
  BY ZeroIsByte DEF Init, Memory
<1>2. TypeOK
  BY <1>1, InternAssumption DEF Init, TypeOK, Memory
<1>3. ListOK /\ ChunksLinked
  BY DEF Init, ListOK, ChunksLinked, Inited
<1>4. StringsInside /\ StringsApart /\ OnePointer
  BY DEF Init, StringsInside, StringsApart, OnePointer
<1> QED
  BY <1>2, <1>3, <1>4 DEF IInv

LEMMA InternInitInv ==
  ASSUME IInv, InternInit
  PROVE  IInv' /\ UNCHANGED <<Table, asked, ret>>
<1>1. PICK c \in Chunk, junk \in Junk :
        /\ chunks' = {c} /\ last' = c /\ first' = c
        /\ mem' = Fresh(c, junk)
        /\ next' = [next EXCEPT ![c] = None]
  BY DEF InternInit, ChunkCreate, IInv, ListOK
<1>2. strings' = {} /\ strings = {} /\ tail' = 0 /\ UNCHANGED <<asked, ret>> /\ c # None
  BY InternAssumption DEF InternInit, IInv, ListOK
<1>3. mem \in Memory /\ next \in [Chunk -> Chunk \cup {None}] /\ ret \in Pointer \cup {None}
  BY DEF IInv, TypeOK, Memory
<1>4. mem' \in Memory
  BY <1>1, <1>3, FreshIs
<1>5. next' \in [Chunk -> Chunk \cup {None}] /\ next'[c] = None
  BY <1>1, <1>3
<1>6. TypeOK'
  BY <1>1, <1>2, <1>3, <1>4, <1>5, InternAssumption DEF TypeOK, Memory
<1>7. ListOK'
  BY <1>1, <1>2, <1>5 DEF ListOK, Inited
<1>8. ChunksLinked'
  BY <1>1, <1>5 DEF ChunksLinked, Linked, Follows
<1>9. StringsInside' /\ StringsApart' /\ OnePointer'
  BY <1>2 DEF StringsInside, StringsApart, OnePointer
<1>10. Table' = Table
  BY <1>2 DEF Table
<1> QED
  BY <1>2, <1>6, <1>7, <1>8, <1>9, <1>10 DEF IInv

\* The new chunk is on the list, behind the ones that were on it.
LEMMA NewChunkLinked ==
  ASSUME IInv, Inited, NEW c \in Chunk \ chunks,
         chunks' = chunks \cup {c}, next' = LinkLast(c), last' = c, UNCHANGED first
  PROVE  ListOK' /\ ChunksLinked' /\ next' \in [Chunk -> Chunk \cup {None}]
<1>1. /\ chunks \subseteq Chunk /\ next \in [Chunk -> Chunk \cup {None}]
      /\ first \in chunks /\ last \in chunks /\ next[last] = None
      /\ \A d \in chunks : next[d] \in chunks \cup {None}
      /\ chunks = Linked
  BY DEF IInv, TypeOK, ListOK, ChunksLinked
<1>2. /\ next' \in [Chunk -> Chunk \cup {None}]
      /\ next'[c] = None /\ next'[last] = c
      /\ \A d \in Chunk : d # c /\ d # last => next'[d] = next[d]
  BY <1>1 DEF LinkLast
<1>3. c # None /\ None \notin chunks
  BY <1>1, InternAssumption
<1>4. ListOK'
  BY <1>1, <1>2, <1>3 DEF ListOK, Inited
<1>5. ASSUME NEW S \in SUBSET (chunks'), Follows(S)'
      PROVE  chunks' \subseteq S
  <2>1. first \in S /\ \A d \in S : next'[d] # None => next'[d] \in S
    BY <1>5 DEF Follows
  <2> DEFINE R == S \ {c}
  <2>2. R \in SUBSET chunks
    OBVIOUS
  <2>3. Follows(R)
    <3> SUFFICES ASSUME NEW d \in R, next[d] # None
                 PROVE  next[d] \in R
      BY <1>1, <2>1 DEF Follows
    <3>1. d \in chunks /\ d # last /\ d # c
      BY <1>1, <2>2
    <3>2. next'[d] = next[d] /\ next[d] \in chunks
      BY <1>1, <1>2, <3>1
    <3> QED BY <2>1, <3>2
  <2> HIDE DEF R
  <2>4. chunks \subseteq R
    BY <1>1, <2>2, <2>3 DEF Linked
  <2>5. last \in S
    BY <1>1, <2>4 DEF R
  <2>6. c \in S
    BY <1>2, <1>3, <2>1, <2>5
  <2> QED BY <2>4, <2>6 DEF R
<1>6. chunks' = Linked'
  <2>1. Linked' = {d \in chunks' : \A S \in SUBSET (chunks') : Follows(S)' => d \in S}
    BY DEF Linked
  <2> QED BY <1>5, <2>1
<1>7. ChunksLinked'
  BY <1>2, <1>6 DEF ChunksLinked
<1> QED
  BY <1>2, <1>4, <1>7

\* What a call of intern does, in the terms of the Interner.
Exchanged ==
  /\ ret' \in Pointer
  /\ \/ <<asked', ret'>> \in Table /\ UNCHANGED Table
     \/ /\ \A q \in strings : StringAt(q) # asked' /\ q # ret'
        /\ Table' = Table \cup {<<asked', ret'>>}

LEMMA FoundInv ==
  ASSUME IInv, NEW v, NEW n \in 0 .. ChunkSize - 1, IsString(v, n),
         Found(SetLookup(v)), asked' = Content(v)
  PROVE  IInv' /\ Exchanged
<1>1. ret' \in strings /\ StringAt(ret') = Content(v)
  BY LookupExact DEF Found
<1>2. UNCHANGED <<chunks, next, first, last, tail, mem, strings>>
  BY DEF Found
<1>3. strings \subseteq Pointer
  BY DEF IInv, TypeOK
<1>4. TypeOK'
  BY <1>1, <1>2, <1>3 DEF IInv, TypeOK
<1>5. ListOK' /\ ChunksLinked'
  BY <1>2 DEF IInv, ListOK, ChunksLinked, Inited, Linked, Follows
<1>6. StringsInside' /\ StringsApart' /\ OnePointer'
  BY <1>2 DEF IInv, StringsInside, StringsApart, OnePointer, StringAt, LenAt
<1>7. UNCHANGED Table /\ <<asked', ret'>> \in Table
  BY <1>1, <1>2 DEF Table, StringAt
<1> QED
  BY <1>1, <1>3, <1>4, <1>5, <1>6, <1>7 DEF IInv, Exchanged

LEMMA StoreInv ==
  ASSUME IInv, Inited, NEW v, NEW n \in 0 .. ChunkSize - 1, IsString(v, n),
         SetLookup(v) = {}, Store(v), asked' = Content(v)
  PROVE  IInv' /\ Exchanged
<1> DEFINE p == <<last, tail>>
<1>1. StrLen(v) = n
  BY StrLenIs
<1>2. /\ mem' = CopyTo(mem, p, v) /\ tail' = tail + n + 1
      /\ strings' = strings \cup {p} /\ ret' = p
      /\ ~(tail + n >= ChunkSize)
      /\ UNCHANGED <<chunks, next, first, last>>
  BY <1>1 DEF Store, Put, After, Full
<1>3. /\ chunks \subseteq Chunk /\ tail \in 0 .. ChunkSize /\ last \in chunks /\ mem \in Memory
      /\ strings \subseteq Pointer /\ next \in [Chunk -> Chunk \cup {None}]
  BY DEF IInv, TypeOK, ListOK, Memory
<1>4. ChunkSize \in Nat /\ n \in Nat /\ tail \in Nat
  BY <1>3, InternAssumption
<1>5. p \in Pointer /\ p[1] = last /\ p[2] = tail /\ p[2] + n < ChunkSize
  BY <1>2, <1>3, <1>4 DEF Pointer
<1> HIDE DEF p
<1>6. FreeFor(mem, p, v, n)
  BY <1>3, <1>5, StoredString DEF FreeFor
<1>7. mem' \in Memory
  BY <1>2, <1>6, PutAdds
<1>8. /\ StringsInside' /\ StringsApart' /\ OnePointer'
      /\ Table' = Table \cup {<<Content(v), p>>} /\ p \notin strings
  BY <1>2, <1>3, <1>5, <1>6, PutInv
<1>9. tail' \in 0 .. ChunkSize
  BY <1>2, <1>4
<1>10. TypeOK'
  BY <1>2, <1>3, <1>5, <1>7, <1>9 DEF IInv, TypeOK, Memory
<1>11. ListOK' /\ ChunksLinked'
  <2>1. ListOK'
    BY <1>2 DEF IInv, ListOK, Inited
  <2>2. ChunksLinked'
    BY <1>2 DEF IInv, ChunksLinked, Inited, Linked, Follows
  <2> QED BY <2>1, <2>2
<1>12. \A q \in strings : StringAt(q) # Content(v)
  BY LookupExact
<1> QED
  BY <1>2, <1>5, <1>8, <1>10, <1>11, <1>12 DEF IInv, Exchanged

LEMMA StoreInNewChunkInv ==
  ASSUME IInv, Inited, NEW v, NEW n \in 0 .. ChunkSize - 1, IsString(v, n),
         SetLookup(v) = {}, StoreInNewChunk(v), asked' = Content(v)
  PROVE  IInv' /\ Exchanged
<1>1. StrLen(v) = n
  BY StrLenIs
<1>2. PICK c \in Chunk, junk \in Junk :
        /\ c \in Chunk \ chunks /\ chunks' = chunks \cup {c} /\ last' = c
        /\ next' = LinkLast(c)
        /\ mem' = CopyTo(Fresh(c, junk), <<c, 0>>, v)
        /\ tail' = 0 + n + 1
        /\ strings' = strings \cup {<<c, 0>>}
        /\ ret' = <<c, 0>>
  BY <1>1 DEF StoreInNewChunk, ChunkCreate, Put, After
<1> DEFINE p == <<c, 0>>
           m == Fresh(c, junk)
<1>3. UNCHANGED first
  BY DEF StoreInNewChunk
<1>4. /\ chunks \subseteq Chunk /\ mem \in Memory /\ strings \subseteq Pointer
      /\ \A q \in strings : q[1] \in chunks
      /\ first \in chunks
  BY DEF IInv, TypeOK, ListOK, Memory, StringsInside
<1>5. ChunkSize \in Nat /\ n \in Nat
  BY InternAssumption
<1>6. p \in Pointer /\ p[1] = c /\ p[2] = 0 /\ p[2] + n < ChunkSize
  BY <1>5 DEF Pointer
<1>7. m \in Memory /\ \A d \in Chunk : d # c => m[d] = mem[d]
  BY <1>4, FreshIs
<1>8. mem' = CopyTo(m, p, v) /\ strings' = strings \cup {p} /\ ret' = p /\ tail' = p[2] + n + 1
  BY <1>2, <1>6
<1> HIDE DEF p, m
<1>9. \A q \in strings : q[1] # c /\ q[1] \in Chunk
  BY <1>2, <1>4
<1>10. FreeFor(m, p, v, n)
  BY <1>6, <1>7, <1>9 DEF FreeFor
<1>11. mem' \in Memory
  BY <1>8, <1>10, PutAdds
<1>12. /\ StringsInside' /\ StringsApart' /\ OnePointer'
       /\ Table' = Table \cup {<<Content(v), p>>} /\ p \notin strings
  BY <1>2, <1>6, <1>8, <1>10, PutInv
<1>13. ListOK' /\ ChunksLinked' /\ next' \in [Chunk -> Chunk \cup {None}]
  BY <1>2, <1>3, NewChunkLinked
<1>14. TypeOK'
  <2>1. tail' \in 0 .. ChunkSize
    BY <1>5, <1>6, <1>8
  <2>2. chunks' \subseteq Chunk /\ first' \in chunks' \cup {None} /\ last' \in chunks' \cup {None}
    BY <1>2, <1>3, <1>4
  <2> QED BY <1>4, <1>6, <1>8, <1>11, <1>13, <2>1, <2>2 DEF TypeOK, Memory
<1>15. \A q \in strings : StringAt(q) # Content(v)
  BY LookupExact
<1> QED
  BY <1>6, <1>8, <1>12, <1>13, <1>14, <1>15 DEF IInv, Exchanged

LEMMA InterningInv ==
  ASSUME IInv, NEW v \in Arguments \cup Temporaries, Interning(v)
  PROVE  IInv' /\ Exchanged /\ asked' \in Str
<1>1. PICK n \in 0 .. ChunkSize - 1 : IsString(v, n)
  BY ArgumentString
<1>2. Inited /\ asked' = Content(v)
  BY DEF Interning
<1>3. \/ Found(SetLookup(v))
      \/ SetLookup(v) = {} /\ (Store(v) \/ StoreInNewChunk(v))
  BY DEF Interning
<1>4. asked' \in Str
  BY <1>2 DEF Str
<1> QED
  BY <1>1, <1>2, <1>3, <1>4, FoundInv, StoreInv, StoreInNewChunkInv

LEMMA FinalizeInv ==
  ASSUME IInv, Finalize
  PROVE  IInv' /\ Table' = {} /\ asked' = None /\ ret' = None /\ chunks' = {}
<1>1. chunks' = {}
  BY DEF Finalize, IInv, ChunksLinked
<1>2. /\ first' = None /\ last' = None /\ tail' = 0 /\ strings' = {}
      /\ asked' = None /\ ret' = None
      /\ next' = [c \in Chunk |-> None] /\ mem' = [c \in Chunk |-> [o \in Room |-> 0]]
  BY DEF Finalize
<1>3. mem' \in Memory
  BY <1>2, ZeroIsByte DEF Memory
<1>4. TypeOK'
  BY <1>1, <1>2, <1>3, InternAssumption DEF TypeOK, Memory
<1>5. ListOK' /\ ChunksLinked'
  BY <1>1, <1>2 DEF ListOK, ChunksLinked, Inited
<1>6. StringsInside' /\ StringsApart' /\ OnePointer' /\ Table' = {}
  BY <1>2 DEF StringsInside, StringsApart, OnePointer, Table
<1> QED
  BY <1>1, <1>2, <1>4, <1>5, <1>6 DEF IInv

LEMMA StutterInv ==
  ASSUME IInv, UNCHANGED vars
  PROVE  IInv' /\ UNCHANGED <<Table, asked, ret>>
<1>1. UNCHANGED <<chunks, next, first, last, tail, mem, strings, asked, ret>>
  BY DEF vars
<1>2. TypeOK'
  BY <1>1 DEF IInv, TypeOK
<1>3. ListOK' /\ ChunksLinked'
  BY <1>1 DEF IInv, ListOK, ChunksLinked, Inited, Linked, Follows
<1>4. StringsInside' /\ StringsApart' /\ OnePointer'
  BY <1>1 DEF IInv, StringsInside, StringsApart, OnePointer, StringAt, LenAt
<1>5. Table' = Table
  BY <1>1 DEF Table, StringAt
<1> QED
  BY <1>1, <1>2, <1>3, <1>4, <1>5 DEF IInv

-----------------------------------------------------------------------------
(* Theorems.                                                               *)

LEMMA NextInv ==
  ASSUME IInv, [Next]_vars
  PROVE  IInv' /\ [Promised!Next]_<<Table, asked, ret>>
<1>1. CASE InternInit
  BY <1>1, InternInitInv
<1>2. ASSUME NEW v \in Arguments \cup Temporaries, Interning(v)
      PROVE  IInv' /\ Promised!Next
  <2>1. IInv' /\ Exchanged /\ asked' \in Str
    BY <1>2, InterningInv
  <2>2. CASE <<asked', ret'>> \in Table /\ UNCHANGED Table
    BY <2>1, <2>2 DEF Exchanged, Promised!Next, Promised!Intern, Promised!Known
  <2>3. CASE /\ \A q \in strings : StringAt(q) # asked' /\ q # ret'
             /\ Table' = Table \cup {<<asked', ret'>>}
    <3>1. \A e \in Table : e[1] # asked' /\ e[2] # ret'
      BY <2>3 DEF Table
    <3> QED BY <2>1, <2>3, <3>1
            DEF Exchanged, Promised!Next, Promised!Intern, Promised!New
  <2> QED BY <2>1, <2>2, <2>3 DEF Exchanged
<1>3. CASE Finalize
  <2>1. IInv' /\ Table' = {} /\ asked' = None /\ ret' = None
    BY <1>3, FinalizeInv
  <2> QED BY <2>1 DEF Promised!Next, Promised!Finalize
<1>4. CASE UNCHANGED vars
  BY <1>4, StutterInv
<1> QED
  BY <1>1, <1>2, <1>3, <1>4 DEF Next, InternString, InternRange

\* The inductive invariant holds of every behaviour.
THEOREM InductiveInvariant == Spec => []IInv
BY InitInv, NextInv, PTL DEF Spec

\* Types, for chunks of any size.
THEOREM TypeCorrect == Spec => []TypeOK
<1>1. IInv => TypeOK
  BY DEF IInv
<1> QED
  BY <1>1, InductiveInvariant, PTL

\* intern leaves room for the terminator of every string in its chunk.
THEOREM StringsStayInside == Spec => []StringsInside
<1>1. IInv => StringsInside
  BY DEF IInv
<1> QED
  BY <1>1, InductiveInvariant, PTL

\* No string that intern writes overwrites another one.
THEOREM StringsStayApart == Spec => []StringsApart
<1>1. IInv => StringsApart
  BY DEF IInv
<1> QED
  BY <1>1, InductiveInvariant, PTL

\* Equal strings have one pointer.
THEOREM OneCopy == Spec => []OnePointer
<1>1. IInv => OnePointer
  BY DEF IInv
<1> QED
  BY <1>1, InductiveInvariant, PTL

\* The comparator tells the strings in the chunks from those of the client
\* exactly, whatever follows them in memory.
THEOREM ComparatorStaysExact == Spec => []ComparatorExact
<1>1. ASSUME IInv PROVE ComparatorExact
  <2> SUFFICES ASSUME NEW p \in strings, NEW v \in Arguments \cup Temporaries
               PROVE  StringComparator(v, See(mem, p)) = 0 <=> Content(v) = StringAt(p)
    BY DEF ComparatorExact
  <2>1. PICK n \in 0 .. ChunkSize - 1 : IsString(v, n)
    BY ArgumentString
  <2>2. IsString(See(mem, p), LenAt(p))
    BY <1>1, StoredString
  <2> QED BY <2>1, <2>2, ComparatorIsExact DEF StringAt
<1> QED
  BY <1>1, InductiveInvariant, PTL

\* Every chunk is on the list that intern_finalize follows.
THEOREM AllChunksLinked == Spec => []ChunksLinked
<1>1. IInv => ChunksLinked
  BY DEF IInv
<1> QED
  BY <1>1, InductiveInvariant, PTL

\* intern_finalize leaves no chunk behind.
THEOREM NoChunkLeft == Spec => FinalizeFreesAll
<1>1. ASSUME IInv, [Next]_vars
      PROVE  [Inited /\ first' = None => chunks' = {}]_vars
  <2>1. CASE InternInit
    BY <2>1, InternAssumption DEF InternInit
  <2>2. ASSUME NEW v \in Arguments \cup Temporaries, Interning(v)
        PROVE  UNCHANGED first
    BY <2>2 DEF Interning, Found, Store, StoreInNewChunk
  <2>3. CASE Finalize
    BY <1>1, <2>3, FinalizeInv
  <2>4. CASE UNCHANGED vars
    BY <2>4
  <2>5. Inited /\ UNCHANGED first => first' # None
    BY DEF Inited
  <2> QED BY <1>1, <2>1, <2>2, <2>3, <2>4, <2>5 DEF Next, InternString, InternRange
<1> QED
  BY <1>1, InductiveInvariant, PTL DEF Spec, FinalizeFreesAll

\* Interning implements its contract, the Interner: chunks, terminators, the
\* word-wise comparison and the hash are invisible to the client.
THEOREM InternIsInterner == Spec => ImplementsInterner
<1>1. Init => Promised!Init
  BY DEF Init, Promised!Init, Table
<1> QED
  BY <1>1, InductiveInvariant, NextInv, PTL
  DEF Spec, ImplementsInterner, Promised!Spec
=============================================================================
