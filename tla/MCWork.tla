------------------------------- MODULE MCWork -------------------------------
(***************************************************************************)
(* Small instances of the modules that owe an answer: the leases of        *)
(* ClusterState, the jobs of SandboxPool and the workflows of Orchestrator.*)
(* They share no state in the model, so each behaviour moves the one that  *)
(* focus names.                                                            *)
(***************************************************************************)
EXTENDS ClusterState, SandboxPool, Orchestrator, TLC

VARIABLE focus

WorkInit ==
  /\ focus \in {"cluster", "pool", "workflow"}
  /\ ClusterInit /\ PoolInit /\ Init

\* The module that focus names takes a step.
WorkNext ==
  /\ UNCHANGED focus
  /\ \/ focus = "cluster" /\ ClusterNext /\ UNCHANGED <<poolVars, vars>>
     \/ focus = "pool" /\ PoolNext /\ UNCHANGED <<clusterVars, vars>>
     \/ focus = "workflow" /\ Next /\ UNCHANGED <<clusterVars, poolVars>>

\* What may happen, under faults and with threads in each other's way
WorkSafe == WorkInit /\ [][WorkNext]_<<focus, clusterVars, poolVars, vars>>

\* What must happen eventually: with one worker and no other thread that writes,
\* where no published event is taken back either.  The fair actions of a module
\* that focus does not name are never enabled.
WorkSpec == WorkSafe /\ PoolFairness /\ Fairness

\* Members, tasks and workers are alike; no fairness comes with it.
Alike == Permutations(Member) \cup Permutations(Task) \cup Permutations(Worker)

\* The state without the history of events, which no action reads.
WithoutHistory == <<focus, clusterVars, poolVars, stored, call, queued, crashes>>

\* The variables of the modules keep their types: among others, no member has
\* compacted more than it has committed or committed more than it holds, and
\* TaskScheduler._active_count stays within the size of the pool.
WorkTypeOK == ClusterTypeOK /\ PoolTypeOK /\ TypeOK

\* LeasesEndUnder for every member: all members are alike, so for any one.
ExpiredLeasesEnd == LeasesEndUnder(CHOOSE i \in Member : TRUE)
=============================================================================
