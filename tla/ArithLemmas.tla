---------------------------- MODULE ArithLemmas ----------------------------
(* Facts about Min and Max of FiniteSetsExt, and about remainders, that       *)
(* several proofs need.                                                      *)
EXTENDS Integers, FiniteSetsExt, WellFoundedInduction, TLAPS

\* A non-empty set of naturals has its Min.
LEMMA NatMin ==
  ASSUME NEW S, S \subseteq Nat, S # {}
  PROVE  Min(S) \in S /\ \A y \in S : Min(S) <= y
<1>1. PICK x \in S : \A y \in S : ~ (<<y, x>> \in OpToRel(<, Nat))
  BY NatLessThanWellFounded, WFMin, Zenon
<1>2. \A y \in S : ~ (y < x)
  BY <1>1, Zenon DEF OpToRel
<1>3. \A y \in S : x <= y
  BY <1>2
<1> QED BY <1>3 DEF Min

\* A non-empty bounded set of integers has its Max.
LEMMA IntMax ==
  ASSUME NEW m \in Int, NEW n \in Int, NEW S, S \subseteq m .. n, S # {}
  PROVE  Max(S) \in S /\ \A y \in S : Max(S) >= y
<1> DEFINE T == {n - x : x \in S}
<1>1. T \subseteq Nat /\ T # {}
  <2>1. \A x \in S : n - x \in Nat
    OBVIOUS
  <2>2. PICK x \in S : TRUE
    OBVIOUS
  <2>3. n - x \in T
    BY <2>2
  <2> QED BY <2>1, <2>3
<1>2. Min(T) \in T /\ \A y \in T : Min(T) <= y
  BY <1>1, NatMin
<1>3. PICK x \in S : Min(T) = n - x
  BY <1>2
<1>4. \A y \in S : x >= y
  BY <1>2, <1>3
<1> QED BY <1>4 DEF Max

\* The Max of two integers.
LEMMA MaxOfTwo ==
  ASSUME NEW a \in Int, NEW b \in Int
  PROVE  Max({a, b}) \in {a, b} /\ Max({a, b}) >= a /\ Max({a, b}) >= b
<1>1. \E x \in {a, b} : \A y \in {a, b} : x >= y
  OBVIOUS
<1> QED BY <1>1 DEF Max

\* The Max of three integers.
LEMMA MaxOfThree ==
  ASSUME NEW a \in Int, NEW b \in Int, NEW c \in Int
  PROVE  /\ Max({a, b, c}) \in {a, b, c}
         /\ Max({a, b, c}) >= a /\ Max({a, b, c}) >= b /\ Max({a, b, c}) >= c
<1>1. \E x \in {a, b, c} : \A y \in {a, b, c} : x >= y
  OBVIOUS
<1> QED BY <1>1 DEF Max

\* The Min of two integers.
LEMMA MinOfTwo ==
  ASSUME NEW a \in Int, NEW b \in Int
  PROVE  Min({a, b}) \in {a, b} /\ Min({a, b}) <= a /\ Min({a, b}) <= b
<1>1. \E x \in {a, b} : \A y \in {a, b} : x <= y
  OBVIOUS
<1> QED BY <1>1 DEF Min

\* Nothing strictly between 0 and n is a multiple of n.
LEMMA NoMultipleBetween ==
  ASSUME NEW n \in Nat, NEW j \in Int, j * n > 0
  PROVE  j * n >= n
<1>1. CASE j >= 1
  <2>1. PICK i \in Nat : j = i + 1
    BY <1>1
  <2>2. j * n = i * n + n /\ i * n >= 0
    BY <2>1
  <2> QED BY <2>2
<1>2. CASE j <= 0
  <2>1. PICK i \in Nat : j = -i
    BY <1>2
  <2>2. j * n = -(i * n) /\ i * n >= 0
    BY <2>1
  <2> QED BY <2>2
<1> QED BY <1>1, <1>2

\* Two numbers with the same remainder are a multiple apart.
LEMMA SameSlot ==
  ASSUME NEW n \in Nat \ {0}, NEW a \in Int, NEW b \in Int, a % n = b % n
  PROVE  \E j \in Int : a - b = j * n
<1> DEFINE j == (a \div n) - (b \div n)
<1>1. a = n * (a \div n) + (a % n) /\ b = n * (b \div n) + (b % n) /\ a \div n \in Int /\ b \div n \in Int
  OBVIOUS
<1>2. a - b = n * (a \div n) - n * (b \div n)
  BY <1>1
<1>3. n * (a \div n) - n * (b \div n) = j * n
  BY <1>1
<1>4. j \in Int
  BY <1>1
<1> QED BY <1>2, <1>3, <1>4

\* Numbers a multiple of n apart have the same remainder.
LEMMA MultipleApart ==
  ASSUME NEW n \in Nat \ {0}, NEW a \in Int, NEW b \in Int, NEW j \in Int, a - b = j * n
  PROVE  a % n = b % n
<1> DEFINE d == j + (b \div n) - (a \div n)
<1>1. /\ a = n * (a \div n) + (a % n) /\ b = n * (b \div n) + (b % n)
      /\ a \div n \in Int /\ b \div n \in Int
      /\ a % n \in 0 .. n - 1 /\ b % n \in 0 .. n - 1
  OBVIOUS
<1>1a. j * n \in Int /\ n * (a \div n) \in Int /\ n * (b \div n) \in Int
  BY <1>1
<1>2. (a % n) - (b % n) = j * n + n * (b \div n) - n * (a \div n)
  BY <1>1, <1>1a
<1>3. j * n + n * (b \div n) - n * (a \div n) = d * n /\ d \in Int /\ d * n \in Int
  BY <1>1
<1>4. ~(d * n > 0)
  BY <1>1, <1>2, <1>3, NoMultipleBetween
<1>5. ~((-d) * n > 0)
  <2>1. (-d) * n = -(d * n) /\ -d \in Int
    BY <1>3
  <2>2. SUFFICES ASSUME (-d) * n > 0 PROVE FALSE
    OBVIOUS
  <2>3. (-d) * n >= n
    BY <2>1, <2>2, NoMultipleBetween
  <2> QED BY <1>1, <1>2, <1>3, <2>1, <2>3
<1>6. (-d) * n = -(d * n)
  BY <1>3
<1> QED BY <1>1, <1>2, <1>3, <1>4, <1>5, <1>6

\* A product decides on which side of a number a quotient lies.
LEMMA DivSides ==
  ASSUME NEW s \in Int, NEW u \in Nat \ {0}, NEW m \in Int
  PROVE  /\ s \div u \in Int
         /\ s >= m * u => s \div u >= m
         /\ s <= m * u => s \div u <= m
<1> DEFINE q == s \div u
           r == s % u
<1>1. q \in Int /\ r \in 0 .. u - 1 /\ s = u * q + r
  OBVIOUS
<1> HIDE DEF q, r
<1>2. ASSUME s >= m * u, q < m PROVE FALSE
  <2>1. m - q \in Int /\ m - q >= 1
    BY <1>1, <1>2
  <2>2. (m - q) * u >= u
    <3>1. PICK i \in Nat : m - q = i + 1
      BY <2>1
    <3>2. i * u \in Nat /\ (i + 1) * u = i * u + u
      BY <3>1
    <3> QED BY <3>1, <3>2
  <2>3. (m - q) * u = m * u - u * q /\ m * u \in Int /\ u * q \in Int
    BY <1>1
  <2> QED BY <1>1, <1>2, <2>2, <2>3
<1>3. ASSUME s <= m * u, q > m PROVE FALSE
  <2>1. PICK i \in Nat : q - m = i + 1
    BY <1>1, <1>3
  <2>2. i * u \in Nat /\ (i + 1) * u = i * u + u
    BY <2>1
  <2>3. (q - m) * u = u * q - m * u /\ m * u \in Int /\ u * q \in Int
    BY <1>1
  <2> QED BY <1>1, <1>3, <2>1, <2>2, <2>3
<1> QED BY <1>1, <1>2, <1>3 DEF q
=============================================================================
