------------------------------- MODULE Maxima -------------------------------
(***************************************************************************)
(* What the cursor of a read, the largest position that it saw, and the     *)
(* newest time of a collection have in common.                              *)
(***************************************************************************)
EXTENDS FiniteSetsExt, FiniteSetTheorems, TLAPS

\* A set of numbers up to n that is not empty has a largest member: among the
\* sets of the members above x, for each x, there is one without a smaller one.
LEMMA MaxExists ==
  ASSUME NEW n \in Nat, NEW S \in SUBSET (0..n), S # {}
  PROVE  Max(S) \in S /\ \A x \in S : x <= Max(S)
<1> DEFINE Above(x) == {y \in S : y > x}
           T == {Above(x) : x \in S}
<1>1. IsWellFoundedOn(StrictSubsetOrdering(0..n), SUBSET (0..n))
  <2>1. IsFiniteSet(0..n)
    BY FS_Interval
  <2>2. FiniteSubsetsOf(0..n) = SUBSET (0..n)
    BY <2>1, FS_FiniteSubsetsOfFinite
  <2> QED BY <2>2, FS_StrictSubsetOrderingWellFounded, Zenon
<1>2. PICK t \in T : \A u \in T : ~ (<<u, t>> \in StrictSubsetOrdering(0..n))
  <2>1. T \subseteq SUBSET (0..n) /\ T # {}
    OBVIOUS
  <2> HIDE DEF T
  <2> QED BY <1>1, <2>1, WFMin
<1>3. PICK m \in S : t = Above(m)
  OBVIOUS
<1>4. ASSUME NEW x \in S, x > m
      PROVE  FALSE
  <2>1. Above(x) \in SUBSET (0..n) /\ Above(m) \in SUBSET (0..n)
    OBVIOUS
  <2>2. \A y \in S : y > x => y > m
    BY <1>4
  <2>3. x \in Above(m) /\ x \notin Above(x)
    BY <1>4
  <2>4. Above(x) \subseteq Above(m) /\ Above(x) # Above(m)
    BY <2>2, <2>3
  <2>5. <<Above(x), Above(m)>> \notin StrictSubsetOrdering(0..n)
    BY <1>2, <1>3
  <2> HIDE DEF Above
  <2> QED BY <2>1, <2>4, <2>5 DEF StrictSubsetOrdering
<1>5. \A x \in S : m >= x
  BY <1>4
<1>6. Max(S) \in S /\ \A x \in S : Max(S) >= x
  BY <1>5, Zenon DEF Max
<1> QED BY <1>6
=============================================================================
