---------------------- MODULE VoterConfigurationProofs ----------------------
(***************************************************************************)
(* Quorums of a voter configuration intersect, for voter sets of any size, *)
(* outside a joint transition and across its three configurations; and the *)
(* principle by which this and the other proof modules reason about        *)
(* indexes, which have no induction of their own.                          *)
(***************************************************************************)
EXTENDS VoterConfiguration, FiniteSetTheorems, WellFoundedInduction, TLAPS

LEMMA MajoritiesMeet ==
  ASSUME NEW S, IsFiniteSet(S), NEW P, NEW Q,
         Cardinality(P \cap S) >= MajoritySize(S),
         Cardinality(Q \cap S) >= MajoritySize(S)
  PROVE  P \cap Q \cap S # {}
<1>1. /\ Cardinality(S) \in Nat
      /\ Cardinality(P \cap S) \in Nat
      /\ Cardinality(Q \cap S) \in Nat
  BY FS_CardinalityType, FS_Intersection
<1>2. Cardinality(P \cap S) + Cardinality(Q \cap S) > Cardinality(S)
  BY <1>1 DEF MajoritySize
<1>3. (P \cap S) \cap (Q \cap S) # {}
  <2>1. P \cap S \subseteq S /\ Q \cap S \subseteq S
    OBVIOUS
  <2>2. QED
    BY <1>2, <2>1, FS_MajoritiesIntersect
<1>4. QED
  BY <1>3

\* Two acknowledgement sets that has_quorum accepts in one configuration have
\* a voter in common.
THEOREM QuorumsIntersect ==
  ASSUME NEW c, IsFiniteSet(c.voters), NEW P, NEW Q, HasQuorum(c, P), HasQuorum(c, Q)
  PROVE  P \cap Q \cap c.voters # {}
BY MajoritiesMeet DEF HasQuorum

\* During a joint transition has_quorum accepts no acknowledgement set that
\* the old or the new configuration could be outvoted behind: every joint
\* quorum meets every quorum of the old and every quorum of the new voters.
THEOREM JointQuorumsIntersect ==
  ASSUME NEW S, NEW T, IsFiniteSet(S), IsFiniteSet(T), T # {}, NEW P, NEW Q,
         HasQuorum(Joint(S, T), P)
  PROVE  /\ HasQuorum(Stable(S), Q) => P \cap Q \cap S # {}
         /\ HasQuorum(Stable(T), Q) => P \cap Q \cap T # {}
BY MajoritiesMeet DEF HasQuorum, Stable, Joint

-----------------------------------------------------------------------------
(* Induction on the natural numbers, as the least counterexample *)

\* Every non-empty set of natural numbers has a least element.
LEMMA LeastOf ==
  ASSUME NEW S \in SUBSET Nat, S # {}
  PROVE  \E n \in S : \A m \in S : n <= m
<1>1. \E R : IsWellFoundedOn(R, Nat) /\ \A m, n \in Nat : m < n => <<m, n>> \in R
  <2>1. IsWellFoundedOn(OpToRel(<, Nat), Nat)
    BY NatLessThanWellFounded
  <2>2. \A m, n \in Nat : m < n => <<m, n>> \in OpToRel(<, Nat)
    BY DEF OpToRel
  <2>3. QED
    BY <2>1, <2>2, Zenon
<1>2. PICK R : IsWellFoundedOn(R, Nat) /\ \A m, n \in Nat : m < n => <<m, n>> \in R
  BY <1>1
<1>3. PICK n \in S : \A m \in S : ~(<<m, n>> \in R)
  <2>1. IsWellFoundedOn(R, Nat) /\ S \subseteq Nat /\ S # {}
    BY <1>2
  <2>2. QED
    BY <2>1, WFMin, Zenon
<1>4. \A m \in S : m \in Nat /\ n \in Nat /\ ~(m < n)
  BY <1>2, <1>3
<1>5. \A m \in S : n <= m
  BY <1>4
<1>6. QED
  BY <1>5
=============================================================================
