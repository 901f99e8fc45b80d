----------------------------- MODULE Arithmetic -----------------------------
(* Facts about natural numbers, division and congruence that the proofs of    *)
(* several modules rest on.                                                   *)
EXTENDS Integers, WellFoundedInduction, TLAPS

(* Induction, in the form the provers can use: every set of numbers has a     *)
(* least one.                                                                 *)
LEMMA LeastNumber ==
    ASSUME NEW T, T \subseteq Nat, T # {}
    PROVE  \E x \in T : \A y \in T : x <= y
  <1>1. PICK x \in T : \A y \in T : ~(<<y, x>> \in OpToRel(<, Nat))
    BY NatLessThanWellFounded, WFMin
  <1>2. ASSUME NEW y \in T PROVE x <= y
    <2>1. ~(y < x)
      BY <1>1 DEF OpToRel
    <2> QED
      BY <2>1
  <1> QED
    BY <1>2

(* The same for a set that contains 0 and with every number the next.         *)
LEMMA EveryNumber ==
    ASSUME NEW T, 0 \in T, \A n \in Nat : n \in T => n + 1 \in T
    PROVE  Nat \subseteq T
  <1> DEFINE Bad == {n \in Nat : n \notin T}
  <1> SUFFICES ASSUME Bad # {} PROVE FALSE
    OBVIOUS
  <1>1. PICK n \in Bad : \A k \in Bad : n <= k
    BY LeastNumber
  <1>2. n - 1 \in Nat /\ n - 1 + 1 = n /\ ~(n <= n - 1)
    BY <1>1
  <1>3. n - 1 \in T
    BY <1>1, <1>2
  <1> QED
    BY <1>1, <1>2, <1>3

------------------------------------------------------------------------------
LEMMA Division ==
    ASSUME NEW a \in Int, NEW m \in Nat \ {0}
    PROVE  a = m * (a \div m) + (a % m) /\ a % m \in 0..(m - 1) /\ a \div m \in Int
  OBVIOUS

LEMMA DivisionUnique ==
    ASSUME NEW a \in Int, NEW q \in Int, NEW m \in Nat \ {0}, NEW r \in 0..(m - 1), a = m * q + r
    PROVE  a % m = r /\ a \div m = q
  OBVIOUS

LEMMA Quotient ==
    ASSUME NEW a \in Nat, NEW m \in Nat \ {0}
    PROVE  a \div m \in 0..a
  <1>1. PICK q, r : q = a \div m /\ r = a % m
    OBVIOUS
  <1>2. a = m * q + r /\ r \in 0..(m - 1) /\ q \in Int
    BY <1>1, Division
  <1>3. ~(q <= -1)
    <2>1. ASSUME q <= -1 PROVE m * q <= -m
      BY <1>2, <2>1
    <2> QED
      BY <1>2, <2>1
  <1>4. q <= m * q
    BY <1>2, <1>3
  <1> QED
    BY <1>1, <1>2, <1>3, <1>4

------------------------------------------------------------------------------
Congruent(m, x, y) == \E k \in Int : x = y + k * m

LEMMA CongruentSelf ==
    ASSUME NEW m \in Nat, NEW x \in Int
    PROVE  Congruent(m, x, x)
  <1>1. x = x + 0 * m
    OBVIOUS
  <1> QED
    BY <1>1 DEF Congruent

LEMMA CongruentBack ==
    ASSUME NEW m \in Nat, NEW x \in Int, NEW y \in Int, Congruent(m, x, y)
    PROVE  Congruent(m, y, x)
  <1>1. PICK k \in Int : x = y + k * m
    BY DEF Congruent
  <1>2. y = x + (-k) * m /\ -k \in Int
    BY <1>1
  <1> QED
    BY <1>2 DEF Congruent

LEMMA CongruentOver ==
    ASSUME NEW m \in Nat, NEW x \in Int, NEW y \in Int, NEW z \in Int,
           Congruent(m, x, y), Congruent(m, y, z)
    PROVE  Congruent(m, x, z)
  <1>1. PICK k \in Int : x = y + k * m
    BY DEF Congruent
  <1>2. PICK l \in Int : y = z + l * m
    BY DEF Congruent
  <1>3. x = z + (k + l) * m /\ k + l \in Int
    BY <1>1, <1>2
  <1> QED
    BY <1>3 DEF Congruent

LEMMA CongruentSums ==
    ASSUME NEW m \in Nat, NEW x \in Int, NEW y \in Int, NEW u \in Int, NEW v \in Int,
           Congruent(m, x, y), Congruent(m, u, v)
    PROVE  Congruent(m, x + u, y + v) /\ Congruent(m, x - u, y - v)
  <1>1. PICK k \in Int : x = y + k * m
    BY DEF Congruent
  <1>2. PICK l \in Int : u = v + l * m
    BY DEF Congruent
  <1>3. x + u = (y + v) + (k + l) * m /\ k + l \in Int
    BY <1>1, <1>2
  <1>4. x - u = (y - v) + (k - l) * m /\ k - l \in Int
    BY <1>1, <1>2
  <1> QED
    BY <1>3, <1>4 DEF Congruent

LEMMA CongruentPart ==
    ASSUME NEW m \in Nat, NEW d \in Nat, NEW x \in Int, NEW y \in Int, Congruent(m * d, x, y)
    PROVE  Congruent(m, x, y)
  <1>1. PICK k \in Int : x = y + k * (m * d)
    BY DEF Congruent
  <1>2. k * (m * d) = (k * d) * m /\ k * d \in Int
    OBVIOUS
  <1> QED
    BY <1>1, <1>2 DEF Congruent

(* A remainder is congruent, and the same for all congruent numbers.          *)
LEMMA RemainderCongruent ==
    ASSUME NEW m \in Nat \ {0}, NEW x \in Int
    PROVE  Congruent(m, x % m, x) /\ x % m \in 0..(m - 1)
  <1>1. x = m * (x \div m) + (x % m) /\ x % m \in 0..(m - 1) /\ x \div m \in Int
    BY Division
  <1>2. PICK q, r : q = x \div m /\ r = x % m
    OBVIOUS
  <1>3. r = x + (-q) * m /\ -q \in Int
    BY <1>1, <1>2
  <1> QED
    BY <1>1, <1>2, <1>3 DEF Congruent

LEMMA SameRemainder ==
    ASSUME NEW m \in Nat \ {0}, NEW x \in Int, NEW y \in Int, Congruent(m, x, y)
    PROVE  x % m = y % m
  <1>1. PICK k \in Int : x = y + k * m
    BY DEF Congruent
  <1>2. y = m * (y \div m) + (y % m) /\ y % m \in 0..(m - 1) /\ y \div m \in Int
    BY Division
  <1>3. PICK q, r : q = y \div m /\ r = y % m
    OBVIOUS
  <1>3a. q \in Int
    BY <1>2, <1>3, Zenon
  <1>4. PICK p \in Int : p = q + k
    <2>1. q + k \in Int
      BY ONLY <1>3a, k \in Int
    <2> QED
      BY <2>1, Zenon
  <1>5. x = m * p + r
    <2>1. y = m * q + r /\ r \in Int
      BY <1>2, <1>3
    <2> QED
      BY <1>1, <1>3a, <1>4, <2>1
  <1>6. r \in 0..(m - 1)
    BY <1>2, <1>3
  <1>7. x % m = r
    BY <1>5, <1>6, DivisionUnique, Zenon
  <1> QED
    BY <1>3, <1>7, Zenon

(* Two congruent numbers less than m apart are equal.                         *)
LEMMA CongruentClose ==
    ASSUME NEW m \in Nat \ {0}, NEW x \in Int, NEW y \in Int, Congruent(m, x, y),
           x - y < m, y - x < m
    PROVE  x = y
  <1>1. PICK k \in Int : x = y + k * m
    BY DEF Congruent
  <1>2. ASSUME k >= 1 PROVE FALSE
    <2>1. k * m >= m
      BY <1>2
    <2> QED
      BY <1>1, <2>1
  <1>3. ASSUME k <= -1 PROVE FALSE
    <2>1. k * m <= -m
      BY <1>3
    <2> QED
      BY <1>1, <2>1
  <1>4. k = 0
    BY <1>2, <1>3
  <1> QED
    BY <1>1, <1>4

LEMMA CongruentDifference ==
    ASSUME NEW m \in Nat \ {0}, NEW x \in Int, NEW y \in Int
    PROVE  Congruent(m, x, y) <=> (x - y) % m = 0
  <1>1. ASSUME Congruent(m, x, y) PROVE (x - y) % m = 0
    <2>1. PICK k \in Int : x = y + k * m
      BY <1>1 DEF Congruent
    <2>2. x - y = m * k + 0 /\ x - y \in Int
      BY <2>1
    <2> QED
      BY <2>2, DivisionUnique
  <1>2. ASSUME (x - y) % m = 0 PROVE Congruent(m, x, y)
    <2>1. PICK q : q = (x - y) \div m
      OBVIOUS
    <2>2. x - y = m * q + 0 /\ q \in Int
      BY <1>2, <2>1, Division
    <2>3. x = y + q * m
      BY <2>2
    <2> QED
      BY <2>2, <2>3 DEF Congruent
  <1> QED
    BY <1>1, <1>2
=============================================================================
