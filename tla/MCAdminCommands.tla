-------------------------- MODULE MCAdminCommands ---------------------------
(* Small instances of AdminCommands. *)
EXTENDS AdminCommands, TLC

Symmetry == Permutations(Approval) \cup Permutations(Chat)

CONSTANTS small, large

Prices == small :> 1 @@ large :> 2

\* One node of either size within the cap, and two small ones.
OneOrTwo == {[size |-> small, max |-> 2, cap |-> 2], [size |-> large, max |-> 1, cap |-> 2]}

\* One node at most.
One == {[size |-> large, max |-> 1, cap |-> 2]}
=============================================================================
