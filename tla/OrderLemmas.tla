---------------------------- MODULE OrderLemmas ----------------------------
(***************************************************************************)
(* Sets of natural numbers have least elements, and bounded ones greatest  *)
(* elements.  The proofs that need induction take the least or greatest    *)
(* exception to what they claim.                                           *)
(***************************************************************************)
EXTENDS Integers, FiniteSetTheorems, WellFoundedInduction, TLAPS

(* A set of natural numbers has a smallest element.                        *)
LEMMA Smallest ==
    ASSUME NEW S \in SUBSET Nat, S # {}
    PROVE  \E m \in S : \A s \in S : m <= s
<1> DEFINE T == {0..s : s \in S}
<1>1. T \subseteq FiniteSubsetsOf(Nat) /\ T # {}
  <2>1. \A s \in S : 0..s \subseteq Nat /\ IsFiniteSet(0..s)
    BY FS_Interval
  <2>2. QED BY <2>1 DEF FiniteSubsetsOf
<1>2. IsWellFoundedOn(StrictSubsetOrdering(Nat), FiniteSubsetsOf(Nat))
  BY FS_StrictSubsetOrderingWellFounded
<1>3. PICK x \in T : \A y \in T : <<y, x>> \notin StrictSubsetOrdering(Nat)
  BY <1>1, <1>2, WFMin
<1>4. PICK m \in S : x = 0..m
  OBVIOUS
<1>5. ASSUME NEW s \in S, s < m PROVE FALSE
  <2>1. 0..s \in T /\ 0..s \subseteq 0..m /\ 0..s # 0..m
    <3>1. m \in 0..m /\ m \notin 0..s
      BY <1>5
    <3>2. QED BY <1>5, <3>1
  <2>2. <<0..s, x>> \in StrictSubsetOrdering(Nat)
    BY <2>1, <1>4 DEF StrictSubsetOrdering
  <2>3. QED BY <2>1, <2>2, <1>3
<1>6. QED BY <1>5

(* A set of natural numbers with a bound has a largest element.            *)
LEMMA Largest ==
    ASSUME NEW S \in SUBSET Nat, S # {}, NEW n \in Nat, \A s \in S : s <= n
    PROVE  \E m \in S : \A s \in S : s <= m
<1> DEFINE T == {n - s : s \in S}
<1>1. T \in SUBSET Nat /\ T # {}
  <2>1. \A s \in S : n - s \in Nat
    OBVIOUS
  <2>2. QED BY <2>1
<1>2. PICK t \in T : \A u \in T : t <= u
  BY <1>1, Smallest
<1>3. PICK m \in S : t = n - m
  OBVIOUS
<1>4. ASSUME NEW s \in S PROVE s <= m
  <2>1. n - s \in T
    OBVIOUS
  <2>2. n - m <= n - s
    BY <2>1, <1>2, <1>3
  <2> HIDE DEF T
  <2>3. QED BY <2>2
<1>5. QED BY <1>4
=============================================================================
