---------------------------- MODULE NumberProofs ----------------------------
(***************************************************************************)
(* Facts about natural numbers that the other proofs use.                  *)
(***************************************************************************)
EXTENDS Integers, WellFoundedInduction, TLAPS

(* Every set of numbers but the empty one has a least element. *)
LEMMA LeastNumber ==
  ASSUME NEW S, S \subseteq Nat, S # {}
  PROVE  \E i \in S : \A j \in S : i <= j
<1> DEFINE Less == OpToRel(<, Nat)
<1>1. Less = {ss \in Nat \X Nat : ss[1] < ss[2]}
  BY DEF OpToRel
<1>2. IsWellFoundedOn(Less, Nat)
  BY NatLessThanWellFounded
<1>3. PICK i \in S : \A j \in S : <<j, i>> \notin Less
  <2> HIDE DEF Less
  <2> QED
    BY <1>2, WFMin
<1>4. ASSUME NEW j \in S
      PROVE  i <= j
  <2>1. i \in Nat /\ j \in Nat /\ <<j, i>> \in Nat \X Nat
    OBVIOUS
  <2>2. ~ (j < i)
    BY <1>1, <1>3, <2>1
  <2> QED
    BY <2>1, <2>2
<1> QED
  BY <1>4

(* A multiple that a quotient allows stays below the dividend. *)
LEMMA QuotientBound ==
  ASSUME NEW a \in Nat, NEW s \in Nat \ {0}, NEW n \in Nat, n <= a \div s
  PROVE  n * s <= a
<1> DEFINE q == a \div s
<1>1. q \in Nat /\ q * s <= a
  OBVIOUS
<1>2. n * s <= q * s
  <2> HIDE DEF q
  <2>1. n <= q
    BY DEF q
  <2> QED
    BY <1>1, <2>1
<1> QED
  BY <1>1, <1>2
=============================================================================
