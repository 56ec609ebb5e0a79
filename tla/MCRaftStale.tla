----------------------------- MODULE MCRaftStale ----------------------------
(***************************************************************************)
(* RaftCell steered towards an answer that outlives the term it was asked  *)
(* in: _send_heartbeats applies an AppendEntries answer to _match_index    *)
(* whenever the node leads (raft.py:641), without comparing the term of    *)
(* the round with the current one.                                         *)
(*                                                                         *)
(* A violation takes five terms, out of reach of a plain search.  Two      *)
(* nodes stand for election in turn: first, whose propose_and_wait thread  *)
(* opens a round in term 3, and second, who leads the terms between.  The  *)
(* constraint only leaves out behaviours; every one it keeps is one of     *)
(* Spec.                                                                   *)
(***************************************************************************)
EXTENDS MCRaftCell

CONSTANTS first, second

TakingTurns ==
  \A i \in Node : poll[i].term > 0 => i = IF poll[i].term % 2 = 1 THEN first ELSE second

\* Only the rounds the behaviour needs.
FewRounds ==
  /\ round[first][RunLoop] = None
  /\ \A p \in Proposer : round[first][p] # None => round[first][p].term = 3
  /\ round[second][RunLoop] # None => round[second][RunLoop].term = 4
  /\ \A i \in Node \ {first} : waiting[i] = [p \in Proposer |-> None]
  /\ \A m \in appendReplies : m.to = second => m.from = first

\* After term 1 each of the two is elected with the vote of the third node.
VotesOfTheThird ==
  /\ first \notin poll[second].votes
  /\ poll[first].term > 1 => second \notin poll[first].votes

Steered == TakingTurns /\ FewRounds /\ VotesOfTheThird /\ Len(log[second]) <= 1
=============================================================================
