---------------------------- MODULE LeastElement ----------------------------
(***************************************************************************)
(* The table lookups of the chat servers are loops from slot 0 up that     *)
(* stop at the first slot that fits, and the descriptor the kernel gives   *)
(* out is the first free one.  The models write both as Min of a set; here *)
(* is what the proofs need to know of it.                                  *)
(***************************************************************************)
EXTENDS Naturals, FiniteSets, FiniteSetsExt, FiniteSetTheorems, WellFoundedInduction, TLAPS

\* A finite set of naturals has a least one: among the sets of its elements below
\* x, for x in it, one has no proper subset.
LEMMA LeastInSet ==
    ASSUME NEW S, IsFiniteSet(S), S \subseteq Nat, S # {}
    PROVE  Min(S) \in S /\ \A y \in S : Min(S) <= y
<1> DEFINE Below(x) == {y \in S : y < x}
           B == {Below(x) : x \in S}
<1>1. B \subseteq FiniteSubsetsOf(S) /\ B # {}
  <2>1. FiniteSubsetsOf(S) = SUBSET S
    BY FS_FiniteSubsetsOfFinite
  <2>2. \A x : Below(x) \in SUBSET S
    OBVIOUS
  <2>3. \A b \in B : b \in SUBSET S
    BY <2>2
  <2>4. PICK x : x \in S
    OBVIOUS
  <2>5. Below(x) \in B
    BY <2>4
  <2> HIDE DEF B
  <2>6. QED
    BY <2>1, <2>3, <2>5
<1>2. PICK b \in B : \A a \in B : <<a, b>> \notin StrictSubsetOrdering(S)
  <2>1. IsWellFoundedOn(StrictSubsetOrdering(S), FiniteSubsetsOf(S))
    BY FS_StrictSubsetOrderingWellFounded
  <2> HIDE DEF B
  <2>2. QED
    BY <1>1, <2>1, WFMin
<1>3. PICK x \in S : b = Below(x)
  BY <1>2
<1>4. ASSUME NEW y \in S, ~(x <= y) PROVE FALSE
  <2>1. y \in Nat /\ x \in Nat /\ y < x
    BY <1>4
  <2>2. Below(y) \subseteq Below(x)
    <3>1. ASSUME NEW z \in S, z < y PROVE z < x
      BY <2>1, <3>1
    <3>2. QED
      BY <3>1
  <2>3. y \in Below(x) /\ y \notin Below(y)
    BY <2>1
  <2>4. Below(y) \in B
    OBVIOUS
  <2>5. <<Below(y), Below(x)>> \in StrictSubsetOrdering(S)
    BY <2>2, <2>3 DEF StrictSubsetOrdering
  <2>6. QED
    BY <2>4, <2>5, <1>2, <1>3
<1>5. QED
  BY <1>4 DEF Min
=============================================================================
