------------------------------ MODULE Workflow ------------------------------
(***************************************************************************)
(* domain/workflow.py: a workflow is a graph of tasks, each with a state   *)
(* and a count of the retries it has used.  The operators say what the     *)
(* methods of Workflow, and OrchestratorService._mark_ready_tasks, make of *)
(* a workflow; a method that raises has its condition in Raises...         *)
(***************************************************************************)
EXTENDS Naturals, FiniteSets

CONSTANTS
  Task,      \* the task ids of the workflow
  MaxRetry   \* bound: the largest max_retries of a task

ASSUME TaskAssumption == IsFiniteSet(Task) /\ MaxRetry \in Nat

TaskState == {"pending", "ready", "running", "completed", "failed", "cancelled"}
Dead == {"failed", "cancelled"}
Ended == Dead \cup {"completed"}

Graph == [Task -> SUBSET Task]
Workflows ==
  [depends_on : Graph, max_retries : [Task -> 0 .. MaxRetry],
   state : [Task -> TaskState], retry_count : [Task -> 0 .. MaxRetry]]

\* Mutant of Ordered: a task is ordered once one of its dependencies is.
OrderedByAny(deps) ==
  LET ordered[n \in Nat] ==
        IF n = 0 THEN {t \in Task : deps[t] = {}}
        ELSE ordered[n - 1] \cup {t \in Task : deps[t] \cap ordered[n - 1] # {}}
  IN  ordered[Cardinality(Task)]

\* The tasks that Kahn's algorithm of _validate_no_cycles visits: those whose
\* dependencies have all been visited before.
Ordered(deps) ==
  LET ordered[n \in Nat] ==
        IF n = 0 THEN {}
        ELSE ordered[n - 1] \cup {t \in Task : deps[t] \subseteq ordered[n - 1]}
  IN  ordered[Cardinality(Task)]

\* Workflow.create: TaskNode's defaults.  Dependencies outside the workflow
\* raise InvalidDependency and are not in Graph.
Created(deps, maxRetries) ==
  [depends_on |-> deps, max_retries |-> maxRetries,
   state |-> [t \in Task |-> "pending"], retry_count |-> [t \in Task |-> 0]]

CycleDetected(deps) == Ordered(deps) # Task

\* Mutant of ReadyTasks: one completed dependency is enough.
ReadyAfterOne(w) ==
  {t \in Task : /\ w.state[t] = "pending"
                /\ \/ w.depends_on[t] = {}
                   \/ \E d \in w.depends_on[t] : w.state[d] = "completed"}

\* ready_tasks
ReadyTasks(w) ==
  {t \in Task : /\ w.state[t] = "pending"
                /\ \A d \in w.depends_on[t] : w.state[d] = "completed"}

\* _mark_ready_tasks: mark_ready for each of them
MarkReady(w) ==
  [w EXCEPT !.state = [t \in Task |-> IF t \in ReadyTasks(w) THEN "ready" ELSE w.state[t]]]

\* transition_to, for one task: the state it must come from is in Raises...
Moved(w, t, target) == [w EXCEPT !.state[t] = target]

RaisesStart(w, t) == w.state[t] # "ready"
RaisesComplete(w, t) == w.state[t] # "running"

\* Mutant of MayRetry: off by one.
MayRetryOnceMore(w, t) == w.retry_count[t] <= w.max_retries[t]

\* fail_task gives the task back while it has retries left.
MayRetry(w, t) == w.retry_count[t] < w.max_retries[t]

\* The task is pending again, with one retry used.
Retried(w, t) == [Moved(w, t, "pending") EXCEPT !.retry_count[t] = @ + 1]

\* Mutant of CancelledBy: only direct dependents are cancelled.
DirectDependents(w) ==
  {t \in Task : w.state[t] \notin Ended /\ \E d \in w.depends_on[t] : w.state[d] = "failed"}

\* _cascade_cancel: the least set of tasks that have not ended and holds every
\* one that depends on a dead task or on a task of the set.
CancelledBy(w) ==
  LET live      == {t \in Task : w.state[t] \notin Ended}
      closed(S) == \A t \in live :
                     (\E d \in w.depends_on[t] : d \in S \/ w.state[d] \in Dead) => t \in S
  IN  {t \in live : \A S \in SUBSET live : closed(S) => t \in S}

\* The task has failed for good and every task that needs it is cancelled.
Failed(w, t) ==
  LET f == Moved(w, t, "failed") IN
  [f EXCEPT !.state = [u \in Task |-> IF u \in CancelledBy(f) THEN "cancelled" ELSE f.state[u]]]

\* Only a running task fails, and _cascade_cancel refuses to cancel one that runs.
RaisesFail(w, t) ==
  \/ w.state[t] # "running"
  \/ ~MayRetry(w, t) /\ \E u \in CancelledBy(Moved(w, t, "failed")) : w.state[u] = "running"

-----------------------------------------------------------------------------
(* What a consistent workflow is *)

StartedAfterDependencies(w) ==
  \A t \in Task : w.state[t] \in {"ready", "running", "completed", "failed"} =>
    \A d \in w.depends_on[t] : w.state[d] = "completed"

CancelledBehindDead(w) ==
  \A t \in Task : w.state[t] = "cancelled" <=> \E d \in w.depends_on[t] : w.state[d] \in Dead
=============================================================================
