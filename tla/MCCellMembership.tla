-------------------------- MODULE MCCellMembership --------------------------
(* Small instances of CellMembership. *)
EXTENDS CellMembership, TLC

\* The joiners become voters beside the founders, or in their place.
ReplacedVoters == {Peer, Peer \ Founder}
NoVoterSets == {}

\* Nothing tells the founders apart.
Alike == Permutations(Founder)

\* What follows the first change that takes effect is left out: the properties
\* speak of what comes before it.
FirstChange == ~moved
=============================================================================
