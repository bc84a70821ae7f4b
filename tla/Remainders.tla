------------------------------ MODULE Remainders ------------------------------
(***************************************************************************)
(* Quotient and remainder by a number that is not known: the facts the     *)
(* proofs about the ring's blocks and the group's slots need.              *)
(***************************************************************************)
EXTENDS Integers, TLAPS

\* A number is n times its quotient and the rest.
LEMMA DivMod ==
  ASSUME NEW a \in Int, NEW n \in Nat \ {0}
  PROVE  /\ a \div n \in Int /\ a % n \in 0 .. n - 1
         /\ a = n * (a \div n) + (a % n)
  OBVIOUS

\* Multiples of n are n apart.
LEMMA MultiplesApart ==
  ASSUME NEW n \in Nat \ {0}, NEW x \in Int, NEW y \in Int, x < y
  PROVE  n * x + n <= n * y
  <1>1. n * (y - x - 1) >= 0
    OBVIOUS
  <1>2. n * (y - x - 1) = n * y - n * x - n
    OBVIOUS
  <1> QED BY <1>1, <1>2

\* Who writes a number as a multiple and a rest has found its quotient and rest.
LEMMA ModUnique ==
  ASSUME NEW n \in Nat \ {0}, NEW q \in Int, NEW r \in 0 .. n - 1,
         NEW a \in Int, a = n * q + r
  PROVE  a % n = r /\ a \div n = q
  <1> DEFINE p == a \div n
             s == a % n
  <1>1. p \in Int /\ s \in 0 .. n - 1 /\ a = n * p + s
    BY DivMod
  <1> HIDE DEF p, s
  <1>2. CASE p < q
    <2>1. n * p + n <= n * q
      BY <1>1, <1>2, MultiplesApart
    <2> QED BY <1>1, <2>1
  <1>3. CASE q < p
    <2>1. n * q + n <= n * p
      BY <1>1, <1>3, MultiplesApart
    <2> QED BY <1>1, <2>1
  <1>4. CASE p = q
    BY <1>1, <1>4 DEF p, s
  <1> QED BY <1>1, <1>2, <1>3, <1>4

\* Adding n changes no rest.
LEMMA AddRound ==
  ASSUME NEW n \in Nat \ {0}, NEW a \in Int
  PROVE  (a + n) % n = a % n
  <1> DEFINE q == a \div n
             r == a % n
  <1>1. q \in Int /\ r \in 0 .. n - 1 /\ a = n * q + r
    BY DivMod
  <1> HIDE DEF q, r
  <1>2. a + n = n * (q + 1) + r
    BY <1>1
  <1>3. (a + n) % n = r
    BY <1>1, <1>2, ModUnique
  <1> QED BY <1>3 DEF r

\* Two numbers less than n apart have different rests.
LEMMA CloseApart ==
  ASSUME NEW n \in Nat \ {0}, NEW a \in Int, NEW i \in 1 .. n - 1
  PROVE  (a + i) % n # a % n
  <1> DEFINE p == a \div n
             q == (a + i) \div n
             r == a % n
  <1>1. p \in Int /\ r \in 0 .. n - 1 /\ a = n * p + r
    BY DivMod
  <1>2. SUFFICES ASSUME (a + i) % n = r PROVE FALSE
    OBVIOUS
  <1>3. q \in Int /\ a + i = n * q + r
    <2> DEFINE b == a + i
    <2>1. b \in Int
      OBVIOUS
    <2> HIDE DEF b
    <2>2. b \div n \in Int /\ b = n * (b \div n) + (b % n)
      BY <2>1, DivMod
    <2> QED BY <1>2, <2>2 DEF b
  <1> HIDE DEF p, q, r
  <1>4. i = n * q - n * p
    BY <1>1, <1>3
  <1>5. CASE p < q
    <2>1. n * p + n <= n * q
      BY <1>1, <1>3, <1>5, MultiplesApart
    <2> QED BY <1>1, <1>3, <1>4, <2>1
  <1>6. CASE q <= p
    <2>1. n * q <= n * p
      BY <1>1, <1>3, <1>6
    <2> QED BY <1>1, <1>3, <1>4, <2>1
  <1> QED BY <1>1, <1>3, <1>5, <1>6
=============================================================================
