----------------------------- MODULE Iteration -----------------------------
(***************************************************************************)
(* Lemmas about natural numbers and about following links: the functions   *)
(* that the list walks of the models define by recursion exist.            *)
(***************************************************************************)
EXTENDS Integers, WellFoundedInduction, TLAPS

\* Every non-empty set of natural numbers has a least element.
LEMMA LeastNat ==
  ASSUME NEW T, T \subseteq Nat, T # {}
  PROVE  \E x \in T : \A y \in T : x <= y
<1> DEFINE R == {ss \in Nat \X Nat : ss[1] < ss[2]}
<1>1. IsWellFoundedOn(R, Nat)
  BY NatLessThanWellFounded DEF OpToRel
<1>2. PICK x \in T : \A y \in T : ~(<<y, x>> \in R)
  <2> HIDE DEF R
  <2> QED
    BY <1>1, WFMin
<1>3. \A y \in T : ~(y < x)
  BY <1>2
<1> QED
  BY <1>3

\* A set that has 0, and with a number the next, has every number.
LEMMA AllNat ==
  ASSUME NEW T, 0 \in T, \A i \in T \intersect Nat : i + 1 \in T
  PROVE  Nat \subseteq T
<1> SUFFICES ASSUME Nat \ T # {} PROVE FALSE
  OBVIOUS
<1>1. PICK x \in Nat \ T : \A y \in Nat \ T : x <= y
  BY LeastNat
<1>2. x - 1 \in Nat
  BY <1>1
<1>3. x - 1 \in T
  BY <1>1, <1>2
<1> QED
  BY <1>1, <1>2, <1>3

\* A number has one last digit and one rest.
LEMMA DigitsUnique ==
  ASSUME NEW B \in Nat, NEW a \in 0 .. B - 1, NEW b \in 0 .. B - 1,
         NEW x \in Nat, NEW y \in Nat, a + B * x = b + B * y
  PROVE  a = b /\ x = y
<1>1. ASSUME NEW c \in 0 .. B - 1, NEW d \in 0 .. B - 1,
             NEW u \in Nat, NEW w \in Nat, u < w, c + B * u = d + B * w
      PROVE  FALSE
  <2>1. PICK k \in Nat : w = u + 1 + k
    <3>1. w - u - 1 \in Nat
      BY <1>1
    <3> QED BY <3>1
  <2>2. B * w = B * u + B + B * k
    BY <2>1
  <2>3. B * k \in Nat /\ B * u \in Nat
    OBVIOUS
  <2> QED BY <1>1, <2>2, <2>3
<1>2. x = y
  <2>1. ~(x < y)
    BY <1>1
  <2>2. ~(y < x)
    BY <1>1
  <2> QED BY <2>1, <2>2
<1> QED
  <2>1. B * x \in Nat
    OBVIOUS
  <2> QED BY <1>2, <2>1

\* Multiples of the modulus do not matter.
LEMMA ModMultiple ==
  ASSUME NEW M \in Nat \ {0}, NEW x \in Nat, NEW y \in Nat
  PROVE  (x + M * y) % M = x % M
<1>1. M * y \in Nat /\ x + M * y \in Nat
  OBVIOUS
<1> DEFINE z == x + M * y
           qx == x \div M
           qz == z \div M
<1>2. z \in Nat
  BY <1>1
<1>3. z = x + M * y
  OBVIOUS
<1> HIDE DEF z
<1>4. qx \in Nat /\ x % M \in 0 .. M - 1 /\ x = (x % M) + M * qx
  OBVIOUS
<1>5. qz \in Nat /\ z % M \in 0 .. M - 1 /\ z = (z % M) + M * qz
  BY <1>2
<1> HIDE DEF qx, qz
<1>6. M * (qx + y) = M * qx + M * y /\ M * qx \in Nat /\ M * qz \in Nat
  BY <1>4, <1>5
<1> DEFINE rx == x % M
           rz == z % M
<1>7. rz + M * qz = rx + M * (qx + y)
  <2> HIDE DEF rx, rz
  <2>1. x = rx + M * qx /\ z = rz + M * qz /\ rx \in Nat /\ rz \in Nat
    BY <1>4, <1>5 DEF rx, rz
  <2> QED
    BY <1>1, <1>3, <1>6, <2>1
<1>8. rz = rx
  <2> DEFINE w == qx + y
  <2>1. M \in Nat /\ w \in Nat /\ qz \in Nat /\ rx \in 0 .. M - 1 /\ rz \in 0 .. M - 1
    BY <1>4, <1>5
  <2>2. rz + M * qz = rx + M * w
    BY <1>7
  <2> HIDE DEF rx, rz, w
  <2> QED
    BY <2>1, <2>2, DigitsUnique
<1> QED
  BY <1>3, <1>8

-----------------------------------------------------------------------------
\* g iterates s from a, n times.
Iterates(g, a, s, n) == g[0] = a /\ \A i \in 1 .. n : g[i] = s[g[i-1]]

\* A function can be iterated as often as one likes.
LEMMA IterationExists ==
  ASSUME NEW n \in Nat, NEW V, NEW a \in V, NEW s \in [V -> V]
  PROVE  \E g \in [0 .. n -> V] : Iterates(g, a, s, n)
<1> DEFINE Good(m, g) == g \in [0 .. m -> V] /\ Iterates(g, a, s, m)
           T == {m \in Nat : \E g : Good(m, g)}
<1>1. 0 \in T
  <2>1. Good(0, [i \in 0 .. 0 |-> a])
    BY DEF Iterates
  <2> QED
    BY <2>1
<1>2. ASSUME NEW m \in T \intersect Nat
      PROVE  m + 1 \in T
  <2>1. PICK g : Good(m, g)
    OBVIOUS
  <2> DEFINE h == [i \in 0 .. (m + 1) |-> IF i = m + 1 THEN s[g[m]] ELSE g[i]]
  <2>2. h \in [0 .. (m + 1) -> V]
    <3>1. g[m] \in V
      BY <2>1
    <3>2. \A i \in 0 .. (m + 1) : i = m + 1 \/ i \in 0 .. m
      OBVIOUS
    <3> QED
      BY <2>1, <3>1, <3>2
  <2>3. h[0] = a
    BY <2>1 DEF Iterates
  <2>4. ASSUME NEW i \in 1 .. (m + 1)
        PROVE  h[i] = s[h[i-1]]
    <3>1. i - 1 \in 0 .. m /\ i - 1 \in 0 .. (m + 1) /\ i - 1 # m + 1
      OBVIOUS
    <3>2. h[i-1] = g[i-1]
      BY <3>1
    <3>3. CASE i = m + 1
      <4>1. i - 1 = m /\ i \in 0 .. (m + 1)
        BY <3>3
      <4> QED
        BY <3>2, <3>3, <4>1
    <3>4. CASE i # m + 1
      <4>1. i \in 1 .. m /\ i \in 0 .. (m + 1)
        BY <3>4
      <4> QED
        BY <2>1, <3>2, <3>4, <4>1 DEF Iterates
    <3> QED
      BY <3>3, <3>4
  <2>5. Good(m + 1, h)
    BY <2>2, <2>3, <2>4 DEF Iterates
  <2>6. m + 1 \in Nat
    OBVIOUS
  <2> HIDE DEF h, Good
  <2> QED
    BY <2>5, <2>6
<1>3. n \in T
  <2> HIDE DEF T
  <2> QED
    BY <1>1, <1>2, AllNat
<1> QED
  BY <1>3
\* What holds at the start and is kept by each step holds all along.
LEMMA StaysIn ==
  ASSUME NEW n \in Nat, NEW V, NEW f, f[0] \in V,
         \A i \in 1 .. n : f[i-1] \in V => f[i] \in V
  PROVE  \A i \in 0 .. n : f[i] \in V
<1> DEFINE T == {i \in 0 .. n : f[i] \notin V}
<1> SUFFICES ASSUME T # {} PROVE FALSE
  OBVIOUS
<1>1. T \subseteq Nat
  OBVIOUS
<1>2. PICK i \in T : \A j \in T : i <= j
  <2> HIDE DEF T
  <2> QED
    BY <1>1, LeastNat
<1>3. i \in 1 .. n /\ i - 1 \in 0 .. n /\ i - 1 \notin T
  BY <1>2
<1> QED
  BY <1>2, <1>3
=============================================================================
