------------------------------ MODULE Lemmas ------------------------------
(***************************************************************************)
(* Facts about numbers that the proofs of several modules need.  Induction *)
(* is over a set of numbers: the principles of the library take a          *)
(* predicate as parameter, which cannot be instantiated.                   *)
(***************************************************************************)
EXTENDS Integers, WellFoundedInduction, TLAPS

(* Every set of natural numbers but the empty one has a least element.     *)
LEMMA LeastElement ==
    ASSUME NEW T, T \subseteq Nat, T # {}
    PROVE  \E x \in T : \A y \in T : x <= y
<1> DEFINE R == OpToRel(<, Nat)
<1>1. IsWellFoundedOn(R, Nat)
  BY NatLessThanWellFounded
<1>2. \A x, y \in Nat : y < x => <<y, x>> \in R
  BY DEF R, OpToRel
<1> HIDE DEF R
<1>3. PICK x \in T : \A y \in T : ~ (<<y, x>> \in R)
  BY <1>1, WFMin
<1>4. \A y \in T : ~ (y < x)
  BY <1>2, <1>3
<1>5. \A y \in T : x <= y
  BY <1>4
<1> QED BY <1>5

(* A set that has 0 and with a number its successor has all of them.       *)
LEMMA SetInduction ==
    ASSUME NEW T, 0 \in T, \A n \in Nat : n \in T => n + 1 \in T
    PROVE  Nat \subseteq T
<1> SUFFICES ASSUME Nat \ T # {} PROVE FALSE
  OBVIOUS
<1>1. PICK x \in Nat \ T : \A y \in Nat \ T : x <= y
  BY LeastElement
<1>2. x # 0 /\ x - 1 \in Nat /\ x - 1 < x /\ (x - 1) + 1 = x
  OBVIOUS
<1>3. x - 1 \in T
  BY <1>1, <1>2
<1> QED BY <1>1, <1>2, <1>3

(* Remainders.                                                             *)
LEMMA SmallMod == ASSUME NEW m \in Nat \ {0}, NEW d \in 0 .. m - 1 PROVE d % m = d
  OBVIOUS

LEMMA MultipleMod == ASSUME NEW m \in Nat \ {0} PROVE m % m = 0
  OBVIOUS

LEMMA NegativeMod ==
    ASSUME NEW m \in Nat \ {0}, NEW d \in Int, d < 0, d >= -m
    PROVE  d % m = d + m
  OBVIOUS

LEMMA WrappedMod ==
    ASSUME NEW m \in Nat \ {0}, NEW d \in Int, d >= m, d < 2 * m
    PROVE  d % m = d - m
  OBVIOUS

(* A number at most one turn of the ring away.                             *)
LEMMA WrapMod ==
    ASSUME NEW m \in Nat \ {0}, NEW d \in Int, d >= -m, d < 2 * m
    PROVE  d % m = IF d < 0 THEN d + m ELSE IF d < m THEN d ELSE d - m
<1>1. CASE d < 0
  BY <1>1, NegativeMod
<1>2. CASE d >= 0 /\ d < m
  BY <1>2, SmallMod
<1>3. CASE d >= m
  BY <1>3, WrappedMod
<1> QED BY <1>1, <1>2, <1>3

(* Numbers closer to each other than m have different remainders.           *)
LEMMA DistinctMod ==
    ASSUME NEW m \in Nat \ {0}, NEW a \in Nat, NEW b \in Nat, a < b, b - a < m
    PROVE  a % m # b % m
<1> DEFINE p == a \div m
           q == b \div m
<1>1. p \in Int /\ q \in Int /\ a = m * p + (a % m) /\ b = m * q + (b % m)
  OBVIOUS
<1>2. ASSUME a % m = b % m PROVE FALSE
  <2>1. m * (q - p) = b - a
    BY <1>1, <1>2
  <2> HIDE DEF p, q
  <2>2. CASE q - p <= 0
    <3>1. m * (q - p) <= 0
      BY <1>1, <2>2
    <3> QED BY <2>1, <3>1
  <2>3. CASE q - p >= 1
    <3>1. m * (q - p) >= m
      BY <1>1, <2>3
    <3> QED BY <2>1, <3>1
  <2> QED BY <1>1, <2>2, <2>3
<1> QED BY <1>2
=============================================================================
