------------------------- MODULE VoterConfiguration -------------------------
(***************************************************************************)
(* membership.py: the voter configuration of one Raft cell.  A             *)
(* configuration is a record of a non-empty voter set and, during a joint  *)
(* transition, a second non-empty voter set.  The code's None for          *)
(* joint_voters is the empty set here: _normalise_voters refuses an empty  *)
(* set of voters, so the two never clash.                                  *)
(***************************************************************************)
EXTENDS Naturals, FiniteSets

\* _majority_size
MajoritySize(S) == Cardinality(S) \div 2 + 1

\* VoterConfiguration(voters), outside a transition.
Stable(S) == [voters |-> S, joint_voters |-> {}]

\* VoterConfiguration(voters, joint_voters), during a transition.
Joint(S, T) == [voters |-> S, joint_voters |-> T]

\* all_voters
AllVoters(c) == c.voters \cup c.joint_voters

\* peer_ids
PeerIds(c, n) == AllVoters(c) \ {n}

\* has_quorum: acknowledgements from outside the voter sets do not count.
HasQuorum(c, acknowledged) ==
  /\ Cardinality(acknowledged \cap c.voters) >= MajoritySize(c.voters)
  /\ \/ c.joint_voters = {}
     \/ Cardinality(acknowledged \cap c.joint_voters)
          >= MajoritySize(c.joint_voters)
=============================================================================
