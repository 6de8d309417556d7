-------------------------- MODULE LeastAndGreatest --------------------------
(* Sets of naturals have a least element, and bounded ones a greatest: the *)
(* first exhibit, the next seat, the last account, the ending in the lead. *)
EXTENDS Naturals, FiniteSets, FiniteSetTheorems, WellFoundedInduction, TLAPS

\* A set of naturals that is not empty has a least element.
LEMMA LeastNatural ==
  ASSUME NEW T \in SUBSET Nat, T # {}
  PROVE  \E m \in T : \A k \in T : m <= k
<1> DEFINE upTo(k) == 0 .. k
           intervals == {upTo(k) : k \in T}
<1>1. intervals \subseteq FiniteSubsetsOf(Nat) /\ intervals # {}
  <2>1. ASSUME NEW k \in T PROVE upTo(k) \in FiniteSubsetsOf(Nat)
    BY FS_Interval DEF FiniteSubsetsOf
  <2> QED
    BY <2>1
<1>2. PICK I \in intervals : \A J \in intervals : <<J, I>> \notin StrictSubsetOrdering(Nat)
  <2> HIDE DEF intervals
  <2> QED
    BY <1>1, FS_StrictSubsetOrderingWellFounded, WFMin
<1>3. PICK m \in T : I = upTo(m)
  OBVIOUS
<1>4. ASSUME NEW k \in T, k < m PROVE FALSE
  <2>1. upTo(k) \in SUBSET Nat /\ upTo(m) \in SUBSET Nat /\ upTo(k) \subseteq upTo(m)
    BY <1>4
  <2>2. m \in upTo(m) /\ m \notin upTo(k)
    BY <1>4
  <2>3. <<upTo(k), upTo(m)>> \notin StrictSubsetOrdering(Nat)
    BY <1>2, <1>3
  <2> HIDE DEF upTo
  <2> QED
    BY <2>1, <2>2, <2>3 DEF StrictSubsetOrdering
<1>5. \A k \in T : m <= k
  BY <1>4
<1> QED
  BY <1>5

\* And if all are at most n, a greatest.
LEMMA GreatestNatural ==
  ASSUME NEW n \in Nat, NEW T \in SUBSET (0 .. n), T # {}
  PROVE  \E m \in T : \A k \in T : k <= m
<1> DEFINE mirrored == {n - k : k \in T}
<1>1. mirrored \in SUBSET Nat /\ mirrored # {}
  <2>1. \A k \in T : n - k \in Nat
    OBVIOUS
  <2>2. QED
    BY <2>1
<1>2. PICK m \in T : \A k \in mirrored : n - m <= k
  <2>1. PICK l \in mirrored : \A k \in mirrored : l <= k
    <3> HIDE DEF mirrored
    <3> QED
      BY <1>1, LeastNatural
  <2>2. QED
    BY <2>1
<1>3. \A k \in T : n - m <= n - k
  BY <1>2
<1>4. QED
  BY <1>3
=============================================================================
