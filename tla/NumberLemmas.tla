---------------------------- MODULE NumberLemmas ----------------------------
(* The least-number principle for sets, and what it says of the leading    *)
(* part of a sequence.                                                      *)
EXTENDS Integers, FiniteSetTheorems, TLAPS

\* A non-empty set of natural numbers has a least element: its finite initial parts
\* are well-founded under strict inclusion.
LEMMA LeastNumber ==
    ASSUME NEW T \in SUBSET Nat, T # {}
    PROVE  \E x \in T : \A y \in T : x <= y
<1> DEFINE Upto(n) == T \cap 0..n
           Parts == {Upto(n) : n \in T}
<1>1. Parts \subseteq FiniteSubsetsOf(Nat)
  <2>1. \A n \in T : IsFiniteSet(Upto(n))
    <3> SUFFICES ASSUME NEW n \in T PROVE IsFiniteSet(Upto(n))
      OBVIOUS
    <3>1. IsFiniteSet(0..n) /\ Upto(n) \subseteq 0..n
      BY FS_Interval
    <3> QED
      BY <3>1, FS_Subset
  <2> QED
    BY <2>1 DEF FiniteSubsetsOf
<1>2. PICK P \in Parts : \A Q \in Parts : <<Q, P>> \notin StrictSubsetOrdering(Nat)
  <2>1. IsWellFoundedOn(StrictSubsetOrdering(Nat), FiniteSubsetsOf(Nat))
    BY FS_StrictSubsetOrderingWellFounded
  <2>2. Parts # {}
    OBVIOUS
  <2> HIDE DEF Parts
  <2> QED
    BY <1>1, <2>1, <2>2, WFMin
<1>3. PICK x \in T : P = Upto(x)
  OBVIOUS
<1>4. ASSUME NEW y \in T, y < x PROVE FALSE
  <2>1. Upto(y) \in Parts /\ Upto(y) \subseteq Upto(x) /\ x \in Upto(x) /\ x \notin Upto(y)
    BY <1>4
  <2>2. <<Upto(y), Upto(x)>> \in StrictSubsetOrdering(Nat)
    BY <2>1 DEF StrictSubsetOrdering
  <2> QED
    BY <1>2, <1>3, <2>1, <2>2
<1> QED
  BY <1>4

\* The numbers up to n at and below which nothing of S lies are those up to some k.
LEMMA LeadingPart ==
    ASSUME NEW S, NEW n \in Nat
    PROVE  \E k \in 0..n : \A i \in 1..n : i <= k <=> \A j \in 1..i : j \notin S
<1> DEFINE T == S \cap 1..n
<1>1. CASE T = {}
  BY <1>1
<1>2. CASE T # {}
  <2>1. PICK x \in T : \A y \in T : x <= y
    <3>1. T \in SUBSET Nat
      OBVIOUS
    <3> QED
      BY <1>2, <3>1, LeastNumber
  <2> WITNESS x - 1 \in 0..n
  <2> QED
    BY <2>1
<1> QED
  BY <1>1, <1>2
=============================================================================
