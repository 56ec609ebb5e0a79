----------------------------- MODULE AgreedLog ------------------------------
(***************************************************************************)
(* What a Raft cell promises the state machines above it: there is one     *)
(* sequence of commands, it only grows, and every node has been handed a   *)
(* prefix of it, in order.  RaftCell implements this specification;        *)
(* ClusterState is built on it.                                            *)
(***************************************************************************)
EXTENDS Naturals, Sequences, SequencesExt

CONSTANTS Replica, Value

VARIABLES
  agreed,   \* the commands agreed on so far
  handed    \* what on_commit has been called with on each node

LogInit == agreed = <<>> /\ handed = [i \in Replica |-> <<>>]

\* A leader's round agrees on more commands, a node is handed more of them, or
\* both at once.
Advance ==
  /\ agreed' \in Seq(Value) /\ IsPrefix(agreed, agreed')
  /\ \A i \in Replica : IsPrefix(handed[i], handed'[i]) /\ IsPrefix(handed'[i], agreed')

LogSpec == LogInit /\ [][Advance]_<<agreed, handed>>
=============================================================================
