---------------------------- MODULE LargestProofs ----------------------------
(* Facts about Latest. *)
EXTENDS Largest, Integers, FiniteSetTheorems, TLAPS

\* A non-empty set of numbers with an upper bound has a latest element, so the
\* ORDER BY ... DESC ... first() of the code returns it.
LEMMA LatestExists ==
    ASSUME NEW S \in SUBSET Nat, S # {}, NEW n \in Nat, \A x \in S : x <= n
    PROVE  /\ Latest(S) \in S
           /\ \A x \in S : x <= Latest(S)
<1> DEFINE Tails == {x .. n : x \in S}
<1>1. Tails \subseteq FiniteSubsetsOf(Nat)
  <2> SUFFICES ASSUME NEW x \in S PROVE x .. n \in FiniteSubsetsOf(Nat)
    OBVIOUS
  <2>1. IsFiniteSet(x .. n)
    BY FS_Interval
  <2> QED BY <2>1 DEF FiniteSubsetsOf
<1>2. Tails # {}
  OBVIOUS
<1>3. IsWellFoundedOn(StrictSubsetOrdering(Nat), FiniteSubsetsOf(Nat))
  BY FS_StrictSubsetOrderingWellFounded
<1>4. PICK U \in Tails : \A V \in Tails : ~ (<<V, U>> \in StrictSubsetOrdering(Nat))
  <2> HIDE DEF Tails
  <2> QED BY <1>1, <1>2, <1>3, WFMin
<1>5. PICK m \in S : U = m .. n
  OBVIOUS
<1>6. \A x \in S : x <= m
  <2> SUFFICES ASSUME NEW x \in S, x > m PROVE FALSE
    OBVIOUS
  <2>1. x .. n \subseteq m .. n /\ x .. n # m .. n
    OBVIOUS
  <2>2. <<x .. n, m .. n>> \in StrictSubsetOrdering(Nat)
    BY <2>1 DEF StrictSubsetOrdering
  <2> QED BY <2>2, <1>4, <1>5
<1> QED BY <1>6 DEF Latest
=============================================================================
