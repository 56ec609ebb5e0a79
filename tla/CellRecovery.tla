---------------------------- MODULE CellRecovery ----------------------------
(***************************************************************************)
(* recovery.py and its use in raft_cluster_node.py: the leader of a cell   *)
(* counts the calls its peers do not answer and replaces a voter that      *)
(* stays silent by a learner that answers.                                 *)
(*                                                                         *)
(* The change of membership itself is CellMembership's: here it is         *)
(* refused, committed in time, or given up and perhaps committed later.    *)
(***************************************************************************)
EXTENDS Optional, Naturals, FiniteSets

CONSTANTS
  Voter, Standby,      \* the first voters besides the leader; the trusted standbys
  FailureThreshold,    \* failure_threshold
  MinimumSuspect,      \* minimum_suspect_seconds, in ticks
  MaxRecNow, MaxFailures   \* bounds: the clock; failures counted of one peer

ASSUME RecoveryAssumption ==
  {FailureThreshold, MinimumSuspect, MaxRecNow} \subseteq Nat /\ MaxFailures \in Nat \ {0}

VARIABLES
  recNow,
  voters, learners,   \* of the membership, without the leader
  alive,              \* peer_liveness: the last observation of a peer
  failures, planned,  \* _failures and _planned_failures
  pendingChange,      \* the change of membership under way, and whether it is waited for
  silence,            \* history: failed calls since the last answer, and the time of the first
  replaced            \* history: the last replacement, as it stood when it was proposed

recoveryVars == <<recNow, voters, learners, alive, failures, planned, pendingChange,
                  silence, replaced>>

RecPeer == Voter \cup Standby
FailureWindow == [count : 1 .. MaxFailures, first : 0 .. MaxRecNow]
PendingChange == [failed : RecPeer, standby : RecPeer, waiting : BOOLEAN]
Replacement ==
  [silent : FailureWindow, at : Nat, answered : Maybe(BOOLEAN), learner : BOOLEAN]
ASSUME NoWindowAssumption == None \notin FailureWindow \cup PendingChange \cup Replacement

RecoveryTypeOK ==
  /\ recNow \in 0 .. MaxRecNow
  /\ voters \subseteq RecPeer /\ learners \subseteq RecPeer
  /\ alive \in [RecPeer -> Maybe(BOOLEAN)]
  /\ failures \in [RecPeer -> Maybe(FailureWindow)] /\ planned \subseteq RecPeer
  /\ pendingChange \in Maybe(PendingChange) /\ silence \in [RecPeer -> Maybe(FailureWindow)]
  /\ replaced \in Maybe(Replacement)

\* configure_automatic_recovery: the planner is new and the standbys are learners.
RecoveryInit ==
  /\ recNow = 0 /\ voters = Voter /\ learners = Standby
  /\ alive = [p \in RecPeer |-> None]
  /\ failures = [p \in RecPeer |-> None] /\ planned = {}
  /\ pendingChange = None
  /\ silence = [p \in RecPeer |-> None] /\ replaced = None

RecTick ==
  /\ recNow < MaxRecNow
  /\ recNow' = recNow + 1
  /\ UNCHANGED <<voters, learners, alive, failures, planned, pendingChange, silence, replaced>>

OneMore(w) == IF w = None THEN [count |-> 1, first |-> recNow] ELSE [w EXCEPT !.count = @ + 1]

\* The change of membership commits: _apply_membership_command.
Replace(c) ==
  /\ voters' = (voters \ {c.failed}) \cup {c.standby}
  /\ learners' = learners \ {c.standby}

\* Mutant of Forget: an answer does not clear the window of failures.
ForgetPlanOnly(p) == planned' = planned \ {p} /\ UNCHANGED failures

\* observe(alive) and resolve: the evidence against p is dropped.
Forget(p) == planned' = planned \ {p} /\ failures' = [failures EXCEPT ![p] = None]

\* _record_peer_liveness of a peer that answered
Answered(p) ==
  /\ p \in voters \cup learners
  /\ alive' = [alive EXCEPT ![p] = TRUE]
  /\ silence' = [silence EXCEPT ![p] = None]
  /\ Forget(p)
  /\ <<alive, silence, failures, planned>>' # <<alive, silence, failures, planned>>
  /\ UNCHANGED <<recNow, voters, learners, pendingChange, replaced>>

\* The learners that answered last
ReadyStandbys(p) == {s \in Standby \cap learners : alive[s] = TRUE} \ (voters \cup {p})

Suspect(w) == w.count >= FailureThreshold /\ recNow - w.first >= MinimumSuspect

\* _record_peer_liveness of a peer that did not answer.  A plan is proposed at
\* once, by replace_failed_peer, and refused while another change is pending.
\* The rounds sent while it waits observe peers again; the failed one is passed
\* over as long as it is planned for.
Failed(p) ==
  LET counted == p \in voters /\ p \notin planned
      w == OneMore(failures[p])
      plans == counted /\ Suspect(w) /\ ReadyStandbys(p) # {} /\ pendingChange = None
  IN
  /\ p \in voters \cup learners
  /\ silence[p] # None => silence[p].count < MaxFailures
  /\ alive' = [alive EXCEPT ![p] = FALSE]
  /\ silence' = [silence EXCEPT ![p] = OneMore(@)]
  /\ failures' = IF counted THEN [failures EXCEPT ![p] = w] ELSE failures
  /\ \/ ~plans /\ UNCHANGED <<planned, pendingChange, replaced>>
     \/ \E s \in ReadyStandbys(p) :
        /\ plans
        /\ planned' = planned \cup {p}
        /\ pendingChange' = [failed |-> p, standby |-> s, waiting |-> TRUE]
        /\ replaced' = [silent |-> silence'[p], at |-> recNow, answered |-> alive[s],
                        learner |-> s \in learners]
  /\ UNCHANGED <<recNow, voters, learners>>

\* propose_membership_change gives up waiting: retry
GiveUpChange ==
  /\ pendingChange # None /\ pendingChange.waiting
  /\ pendingChange' = [pendingChange EXCEPT !.waiting = FALSE]
  /\ planned' = planned \ {pendingChange.failed}
  /\ UNCHANGED <<recNow, voters, learners, alive, failures, silence, replaced>>

\* The change commits, in time (resolve) or after it was given up.
CommitChange ==
  /\ pendingChange # None
  /\ Replace(pendingChange)
  /\ IF pendingChange.waiting THEN Forget(pendingChange.failed) ELSE UNCHANGED <<failures, planned>>
  /\ pendingChange' = None
  /\ UNCHANGED <<recNow, alive, silence, replaced>>

\* admit_trusted_peer brings a peer back as a voter.
Admit(p) ==
  /\ p \in RecPeer \ (voters \cup learners) /\ pendingChange = None
  /\ voters' = voters \cup {p}
  /\ UNCHANGED <<recNow, learners, alive, failures, planned, pendingChange, silence, replaced>>

RecoveryNext ==
  \/ RecTick \/ GiveUpChange \/ CommitChange
  \/ \E p \in RecPeer : Answered(p) \/ Failed(p) \/ Admit(p)

RecoverySpec == RecoveryInit /\ [][RecoveryNext]_recoveryVars

-----------------------------------------------------------------------------
(* Properties *)

\* A voter is proposed for replacement only after failure_threshold calls in a
\* row that it did not answer, over minimum_suspect_seconds or more, and only by
\* a learner whose last call was answered; neither a proposal given up before
\* nor a return of the peer to the cell makes old evidence count again.
OnlyTheSilentAreReplaced ==
  replaced # None =>
    /\ replaced.silent.count >= FailureThreshold
    /\ replaced.at - replaced.silent.first >= MinimumSuspect
    /\ replaced.answered = TRUE /\ replaced.learner
=============================================================================
