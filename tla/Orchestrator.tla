---------------------------- MODULE Orchestrator ----------------------------
(***************************************************************************)
(* orchestrator_service.py and task_worker.py over the PostgreSQL          *)
(* repository: one workflow, a pool of worker threads, and API clients     *)
(* that call the same service (api/routes/workflows.py).                   *)
(*                                                                         *)
(* The repository keeps a workflow as one document.  A service method gets *)
(* the document, changes its own copy, overwrites the stored one and then  *)
(* publishes events: no lock or version ties the write to the read.  A     *)
(* task.ready event puts the task into the queue of the worker pool.       *)
(*                                                                         *)
(* The executor and the Raft lease are external: a task that has started   *)
(* ends well or badly.                                                     *)
(***************************************************************************)
EXTENDS Workflow, Optional

CONSTANTS
  Worker,     \* the threads of the pool
  Client,     \* the threads that serve API calls
  Requested,  \* the operations that API clients ask for
  MaxQueued,  \* bound: how often a task is in the queue
  MaxCrash    \* bound: how many crashes a behaviour has

ASSUME NoWorkflowAssumption == None \notin Workflows
ASSUME QueueAssumption == {MaxQueued, MaxCrash} \subseteq Nat

Thread == Worker \cup Client
Operation == {"start", "complete", "fail"}
ASSUME ThreadAssumption == Worker \cap Client = {} /\ Requested \subseteq Operation

VARIABLES
  stored,    \* the document in the workflows table
  call,      \* what each thread is doing
  queued,    \* how often a task is in the queue of the pool
  announced, \* the events published of tasks that ended (history)
  crashes

vars == <<stored, call, queued, announced, crashes>>

(***************************************************************************)
(* A thread has got its copy of the document and will apply an operation   *)
(* to it; or has updated the document and will publish; or, for a worker,  *)
(* executes a task.                                                        *)
(***************************************************************************)
Got == [at : {"got"}, op : Operation, task : Task, copy : Workflows]
Publishing(ops, tasks) ==
  [at : {"updated"}, op : ops, task : tasks, ready : SUBSET Task, ended : SUBSET (Task \X Ended)]
Updated == Publishing(Operation, Task) \cup Publishing({"create"}, {None})
Executing == [at : {"executing"}, task : Task]

TypeOK ==
  /\ stored \in Workflows \cup {None}
  /\ call \in [Thread -> Got \cup Updated \cup Executing \cup {None}]
  /\ queued \in [Task -> Nat]
  /\ announced \subseteq Task \X Ended
  /\ crashes \in Nat

Init ==
  /\ stored = None
  /\ call = [t \in Thread |-> None]
  /\ queued = [t \in Task |-> 0]
  /\ announced = {}
  /\ crashes = 0

\* The tasks that are in the state in w and were not in v, and these with the
\* state for those that ended: what a method publishes.
Entered(v, w, state) == {t \in Task : w.state[t] = state /\ v.state[t] # state}
EndedIn(v, w) == {e \in Task \X Ended : e[1] \in Entered(v, w, e[2])}

-----------------------------------------------------------------------------
\* create_workflow up to add; a graph with a cycle is refused and nothing is stored.
CreateWorkflow(c) ==
  \E deps \in Graph, maxRetries \in [Task -> 0 .. MaxRetry] :
    LET w == MarkReady(Created(deps, maxRetries)) IN
    /\ stored = None /\ call[c] = None
    /\ ~CycleDetected(deps)
    /\ stored' = w
    /\ call' = [call EXCEPT ![c] =
         [at |-> "updated", op |-> "create", task |-> None,
          ready |-> Entered(Created(deps, maxRetries), w, "ready"), ended |-> {}]]
    /\ UNCHANGED <<queued, announced, crashes>>

\* _workflows.get at the start of a service method
Get(x, op, t) ==
  /\ stored # None
  /\ call' = [call EXCEPT ![x] = [at |-> "got", op |-> op, task |-> t, copy |-> stored]]

\* A worker takes a task from the queue and calls start_task.
Take(x, t) ==
  /\ call[x] = None /\ queued[t] > 0
  /\ queued' = [queued EXCEPT ![t] = @ - 1]
  /\ Get(x, "start", t)
  /\ UNCHANGED <<stored, announced, crashes>>

\* An API request.
Request(c, op, t) ==
  /\ call[c] = None
  /\ Get(c, op, t)
  /\ UNCHANGED <<stored, queued, announced, crashes>>

\* The executor returns, or it raises or the lease is refused.
Executed(x, op) ==
  /\ call[x] # None /\ call[x].at = "executing"
  /\ Get(x, op, call[x].task)
  /\ UNCHANGED <<stored, queued, announced, crashes>>

-----------------------------------------------------------------------------
(* From the copy to the update *)

Raises(w, op, t) ==
  CASE op = "start"    -> RaisesStart(w, t)
    [] op = "complete" -> RaisesComplete(w, t)
    [] op = "fail"     -> RaisesFail(w, t)

\* Mutant of Applied: a completion promotes nothing.
AppliedWithoutPromotion(w, op, t) ==
  CASE op = "start"    -> Moved(w, t, "running")
    [] op = "complete" -> Moved(w, t, "completed")
    [] op = "fail"     -> IF MayRetry(w, t) THEN MarkReady(Retried(w, t)) ELSE Failed(w, t)

\* What start_task, complete_task and fail_task store.
Applied(w, op, t) ==
  CASE op = "start"    -> Moved(w, t, "running")
    [] op = "complete" -> MarkReady(Moved(w, t, "completed"))
    [] op = "fail"     -> IF MayRetry(w, t) THEN MarkReady(Retried(w, t)) ELSE Failed(w, t)

\* InvalidTaskTransition: nothing is stored.  A client gets a 409, a worker
\* logs the exception and goes on with its queue.
Refuse(x) ==
  LET k == call[x] IN
  /\ k # None /\ k.at = "got" /\ Raises(k.copy, k.op, k.task)
  /\ call' = [call EXCEPT ![x] = None]
  /\ UNCHANGED <<stored, queued, announced, crashes>>

\* Mutant of Update: complete_task publishes what it has not stored.
UpdateExceptCompletion(x) ==
  LET k == call[x]
      w == Applied(k.copy, k.op, k.task)
  IN  /\ k # None /\ k.at = "got" /\ ~Raises(k.copy, k.op, k.task)
      /\ stored' = IF k.op = "complete" THEN stored ELSE w
      /\ call' = [call EXCEPT ![x] =
           [at |-> "updated", op |-> k.op, task |-> k.task,
            ready |-> Entered(k.copy, w, "ready"), ended |-> EndedIn(k.copy, w)]]
      /\ UNCHANGED <<queued, announced, crashes>>

\* _workflows.update: the whole document is overwritten.
Update(x) ==
  LET k == call[x]
      w == Applied(k.copy, k.op, k.task)
  IN  /\ k # None /\ k.at = "got" /\ ~Raises(k.copy, k.op, k.task)
      /\ stored' = w
      /\ call' = [call EXCEPT ![x] =
           [at |-> "updated", op |-> k.op, task |-> k.task,
            ready |-> Entered(k.copy, w, "ready"), ended |-> EndedIn(k.copy, w)]]
      /\ UNCHANGED <<queued, announced, crashes>>

\* Mutant of Publish: the worker pool has not subscribed to task.ready.
PublishUnheard(x) ==
  LET k == call[x] IN
  /\ k # None /\ k.at = "updated"
  /\ announced' = announced \cup k.ended
  /\ call' = [call EXCEPT ![x] =
       IF x \in Worker /\ k.op = "start" THEN [at |-> "executing", task |-> k.task] ELSE None]
  /\ UNCHANGED <<stored, queued, crashes>>

\* The events of the method; task.ready reaches the queue through _enqueue.
\* A worker whose task has started goes on to execute it.
Publish(x) ==
  LET k == call[x] IN
  /\ k # None /\ k.at = "updated"
  /\ \A t \in k.ready : queued[t] < MaxQueued
  /\ queued' = [t \in Task |-> IF t \in k.ready THEN queued[t] + 1 ELSE queued[t]]
  /\ announced' = announced \cup k.ended
  /\ call' = [call EXCEPT ![x] =
       IF x \in Worker /\ k.op = "start" THEN [at |-> "executing", task |-> k.task] ELSE None]
  /\ UNCHANGED <<stored, crashes>>

\* The process ends and comes back: the queue and every call are gone.
Crash ==
  /\ crashes < MaxCrash
  /\ crashes' = crashes + 1
  /\ call' = [x \in Thread |-> None]
  /\ queued' = [t \in Task |-> 0]
  /\ UNCHANGED <<stored, announced>>

Next ==
  \/ \E c \in Client : CreateWorkflow(c)
  \/ \E x \in Worker, t \in Task : Take(x, t)
  \/ \E c \in Client, op \in Requested, t \in Task : Request(c, op, t)
  \/ \E x \in Worker, op \in {"complete", "fail"} : Executed(x, op)
  \/ \E x \in Thread : Refuse(x) \/ Update(x) \/ Publish(x)
  \/ Crash

Spec == Init /\ [][Next]_vars

-----------------------------------------------------------------------------
(* Properties.  The first four are about every document ever stored: they    *)
(* hold although updates overwrite each other, because each of them holds of *)
(* the copy a method starts from.                                            *)

\* A stored workflow is a graph without cycles: no set of tasks waits only for
\* itself (what Kahn's algorithm in _validate_no_cycles decides).
StoredIsAcyclic ==
  stored # None =>
    \A S \in (SUBSET Task) \ {{}} : \E t \in S : stored.depends_on[t] \cap S = {}

\* "A task becomes ready only after all dependencies complete", whoever starts,
\* completes and fails tasks, and whatever copy of the workflow they act on.
DependenciesRespected == stored # None => StartedAfterDependencies(stored)

\* "A task that permanently fails after retries cancels every dependent task",
\* and nothing else is ever cancelled: no waiting task is left behind a dead one.
FailureCascades == stored # None => CancelledBehindDead(stored)

\* No task is left pending once its dependencies have completed: each method
\* that completes or retries a task also promotes everything it makes ready.
NothingForgotten == stored # None => ReadyTasks(stored) = {}

\* The workflow is stored as its events say: a task announced as completed,
\* failed or cancelled is so in the repository.  ("persist every workflow
\* state change through `add` or `update` **before** publishing its event")
AnnouncedIsStored == \A e \in announced : stored.state[e[1]] = e[2]

(***************************************************************************)
(* Threads run: a call in progress goes on, a free worker takes what is    *)
(* queued, and an execution ends.                                          *)
(***************************************************************************)
Fairness ==
  /\ \A x \in Thread : WF_vars(Refuse(x) \/ Update(x) \/ Publish(x))
  /\ \A x \in Worker : /\ WF_vars(\E t \in Task : Take(x, t))
                       /\ WF_vars(\E op \in {"complete", "fail"} : Executed(x, op))

FairSpec == Spec /\ Fairness

\* Every workflow that is created comes to an end: each task completes, fails
\* or is cancelled, through promotion, retries and cascades.
Terminates == stored # None ~> stored # None /\ \A t \in Task : stored.state[t] \in Ended
=============================================================================
