----------------------------- MODULE MCRaftCell -----------------------------
(* Small instances of RaftCell. *)
EXTENDS RaftPromise, TLC

NodeSymmetry == Permutations(Node)

(***************************************************************************)
(* The state without what no later step can read: the history, the votes   *)
(* of an election that is over, and the peer indices of a node that        *)
(* neither leads nor has a round under way (_become_leader sets them anew  *)
(* before the next use).                                                   *)
(***************************************************************************)
LiveState ==
  LET leads(i) == role[i] = "leader"
      sends(i) == leads(i) \/ \E s \in Slot : round[i][s] # None
  IN  <<durable, role, election, round, waiting, crashes,
        voteRequests, voteReplies, appendRequests, appendReplies,
        [i \in Node |-> IF election[i] # None THEN poll[i] ELSE None],
        [i \in Node |-> IF sends(i) THEN nextIndex[i] ELSE None],
        [i \in Node |-> IF leads(i) THEN matchIndex[i] ELSE None]>>

\* The part of the history that AckedIsCommitted looks at, and the smaller one
\* that is enough for AckedWhileLeadingIsCommitted.
AnsweredState == <<LiveState, acked>>
SteadyState == <<LiveState, {a \in acked : a.steady}>>

\* A bound on faults and threads together: a request whose caller gave up is
\* under way only while nobody waits in propose_and_wait.
OrphansAlone == Orphans # {} => \A i \in Node : waiting[i] = [p \in Proposer |-> None]

\* ReplicatesFrom for every node: Spec treats all nodes alike, so for any one.
LeaderReplicates == ReplicatesFrom(CHOOSE i \in Node : TRUE)
=============================================================================
