------------------------------ MODULE Products ------------------------------
(***************************************************************************)
(* Products and division of integers, which the provers know too little    *)
(* about: an index of a block group counts in groups and positions, an     *)
(* offset in groups and bytes.  And the least element of a set of numbers, *)
(* which stands for the first step of a loop, or the first place of a      *)
(* scan, where something happens.                                          *)
(***************************************************************************)
EXTENDS Integers, FiniteSetTheorems, TLAPS

\* Of two multiples of n the greater is greater by n at least.
LEMMA ProductMonotone ==
  ASSUME NEW a \in Int, NEW b \in Int, NEW n \in Nat, a < b
  PROVE  a * n + n <= b * n
<1>1. (b - a - 1) * n >= 0
  BY SMT
<1>2. (b - a - 1) * n = b * n - a * n - n
  BY SMT
<1>3. a * n \in Int /\ b * n \in Int
  BY SMT
<1>. QED
  BY <1>1, <1>2, <1>3, SMT

\* A natural number is its quotient and its remainder.
LEMMA Division ==
  ASSUME NEW i \in Nat, NEW n \in Nat, n > 0
  PROVE  /\ i \div n \in Nat
         /\ i % n \in 0 .. n - 1
         /\ i = (i \div n) * n + (i % n)
<1> DEFINE q == i \div n
           r == i % n
<1>1. q \in Int /\ r \in 0 .. n - 1 /\ i = n * q + r
  BY SMT
<1> HIDE DEF q, r
<1>2. n * q = q * n /\ q * n \in Int
  BY <1>1, SMT
<1>3. q >= 0
  <2> SUFFICES ASSUME q < 0
               PROVE  FALSE
    BY <1>1
  <2>1. q * n + n <= 0 * n
    BY <1>1, ProductMonotone
  <2>. QED
    BY <2>1, <1>1, <1>2
<1>. QED
  BY <1>1, <1>2, <1>3 DEF q, r

\* And no other pair makes the number.
LEMMA DivisionUnique ==
  ASSUME NEW g \in Nat, NEW n \in Nat, NEW b \in 0 .. n - 1
  PROVE  /\ (g * n + b) \div n = g
         /\ (g * n + b) % n = b
<1> DEFINE i == g * n + b
           q == i \div n
           r == i % n
<1>1. g * n \in Nat
  BY SMT
<1>2. i \in Nat
  BY <1>1
<1> HIDE DEF i
<1>3. q \in Nat /\ r \in 0 .. n - 1 /\ i = q * n + r
  BY <1>2, Division
<1> HIDE DEF q, r
<1>4. q * n \in Int /\ i = g * n + b
  BY <1>3, SMT DEF i
<1>5. ~ (q < g)
  <2> SUFFICES ASSUME q < g
               PROVE  FALSE
    OBVIOUS
  <2>1. q * n + n <= g * n
    BY <1>3, ProductMonotone
  <2>. QED
    BY <2>1, <1>1, <1>3, <1>4
<1>6. ~ (g < q)
  <2> SUFFICES ASSUME g < q
               PROVE  FALSE
    OBVIOUS
  <2>1. g * n + n <= q * n
    BY <1>3, ProductMonotone
  <2>. QED
    BY <2>1, <1>1, <1>3, <1>4
<1>7. q = g
  BY <1>3, <1>5, <1>6
<1>8. r = b
  BY <1>1, <1>3, <1>4, <1>7
<1>. QED
  BY <1>7, <1>8 DEF q, r, i

(* Every non-empty set of naturals has a least element: the strict subset  *)
(* order on the finite sets 0..n-1 is well founded.                        *)
LEMMA LeastExists ==
  ASSUME NEW S \in SUBSET Nat, S # {}
  PROVE  \E m \in S : \A n \in S : m <= n
<1> DEFINE Below(n) == 0 .. n - 1
           T == {Below(n) : n \in S}
           R == StrictSubsetOrdering(Nat)
<1>1. T \subseteq FiniteSubsetsOf(Nat)
  <2> SUFFICES ASSUME NEW n \in S
               PROVE  Below(n) \in FiniteSubsetsOf(Nat)
    OBVIOUS
  <2>1. IsFiniteSet(Below(n))
    BY FS_Interval
  <2>. QED
    BY <2>1 DEF FiniteSubsetsOf
<1>2. PICK x \in T : \A y \in T : <<y, x>> \notin R
  <2>1. T # {}
    OBVIOUS
  <2>2. IsWellFoundedOn(R, FiniteSubsetsOf(Nat))
    BY FS_StrictSubsetOrderingWellFounded
  <2>. QED
    BY <1>1, <2>1, <2>2, WFMin
<1>3. PICK m \in S : x = Below(m)
  OBVIOUS
<1>4. ASSUME NEW n \in S, n < m
      PROVE  FALSE
  <2>1. Below(n) \subseteq Below(m) /\ Below(n) # Below(m)
    <3>1. n \in Below(m) /\ n \notin Below(n)
      BY <1>4
    <3>. QED
      BY <3>1, <1>4
  <2>2. <<Below(n), Below(m)>> \in R
    BY <2>1 DEF StrictSubsetOrdering
  <2>. QED
    BY <1>2, <1>3, <2>2
<1>5. \A n \in S : m <= n
  BY <1>4
<1>. QED
  BY <1>5

=============================================================================
