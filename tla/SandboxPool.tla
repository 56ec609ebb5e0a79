------------------------------ MODULE SandboxPool ------------------------------
(***************************************************************************)
(* resource/: LocalExecutor gives a handler to TaskScheduler, whose pool   *)
(* threads each run one child process (SandboxedExecutor) and wait for it  *)
(* with a timeout.  The child is the generated code: it may return, raise, *)
(* die, also in the middle of its result, or never end, and a result larger*)
(* than the pipe keeps it alive until somebody reads it, which the parent  *)
(* does only after it has ended.  A child inherits the signal handlers of  *)
(* its node: that of scripts/run_node.py sets a flag and returns.          *)
(***************************************************************************)
EXTENDS Naturals, FiniteSets

CONSTANTS
  Job,              \* the calls of LocalExecutor
  Deaf,             \* those whose child outlives a SIGTERM
  PoolSize          \* max_concurrent_tasks

ASSUME PoolAssumption == PoolSize \in Nat \ {0}

VARIABLES
  stage,            \* where a call is
  child,            \* what its process has done
  answer,           \* the HandlerResult, when there is one
  activeCount,      \* TaskScheduler._active_count
  shutDown          \* TaskScheduler._shut_down

poolVars == <<stage, child, answer, activeCount, shutDown>>

Stages == {"new", "queued", "joining", "reading", "killing", "reaping", "done"}
Children == {"none", "running", "stuck", "returned", "raised", "died", "partial", "killed"}
Answers == {"none", "ok", "error", "timeout", "noHandler", "refused"}

PoolTypeOK ==
  /\ stage \in [Job -> Stages] /\ child \in [Job -> Children] /\ answer \in [Job -> Answers]
  /\ activeCount \in 0 .. PoolSize /\ shutDown \in BOOLEAN

PoolInit ==
  /\ stage = [j \in Job |-> "new"] /\ child = [j \in Job |-> "none"]
  /\ answer = [j \in Job |-> "none"]
  /\ activeCount = 0 /\ shutDown = FALSE

Answered(j, a) == /\ stage' = [stage EXCEPT ![j] = "done"]
                  /\ answer' = [answer EXCEPT ![j] = a]

\* __call__ of a capability without a handler
CallUnbound(j) ==
  /\ stage[j] = "new"
  /\ Answered(j, "noHandler")
  /\ UNCHANGED <<child, activeCount, shutDown>>

\* __call__: submit, or the exception of a scheduler that is shut down
Submit(j) ==
  /\ stage[j] = "new"
  /\ IF shutDown THEN Answered(j, "refused")
     ELSE stage' = [stage EXCEPT ![j] = "queued"] /\ UNCHANGED answer
  /\ UNCHANGED <<child, activeCount, shutDown>>

\* The jobs that a pool thread is in
Waited == {j \in Job : stage[j] \in {"joining", "reading", "killing", "reaping"}}

\* A pool thread takes the job: _run and the start of the child
StartJob(j) ==
  /\ stage[j] = "queued"
  /\ Cardinality(Waited) < PoolSize
  /\ stage' = [stage EXCEPT ![j] = "joining"]
  /\ child' = [child EXCEPT ![j] = "running"]
  /\ activeCount' = activeCount + 1
  /\ UNCHANGED <<answer, shutDown>>

\* _worker: the child ends, or has its result in a full pipe; one that the
\* system kills while it writes leaves a part of the message behind
ChildStep(j) ==
  /\ \/ /\ child[j] = "running"
        /\ \E c \in {"returned", "raised", "died", "stuck", "partial"} : child' = [child EXCEPT ![j] = c]
     \/ child[j] = "stuck" /\ child' = [child EXCEPT ![j] = "partial"]
  /\ UNCHANGED <<stage, answer, activeCount, shutDown>>

Alive(j) == child[j] \in {"running", "stuck"}

\* Mutant of JoinTimesOut: join without a timeout.
JoinForEver(j) == FALSE /\ UNCHANGED poolVars

\* join(timeout_seconds) gives up on a child that is still alive
JoinTimesOut(j) ==
  /\ stage[j] = "joining" /\ Alive(j)
  /\ stage' = [stage EXCEPT ![j] = "killing"]
  /\ UNCHANGED <<child, answer, activeCount, shutDown>>

\* terminate, a SIGTERM, whatever the child has done in the meantime
Terminate(j) ==
  /\ stage[j] = "killing"
  /\ stage' = [stage EXCEPT ![j] = "reaping"]
  /\ child' = [child EXCEPT ![j] = IF Alive(j) /\ j \notin Deaf THEN "killed" ELSE @]
  /\ UNCHANGED <<answer, activeCount, shutDown>>

\* _run returns with the answer a
Leave(j, a) == Answered(j, a) /\ activeCount' = activeCount - 1 /\ UNCHANGED <<child, shutDown>>

\* join without a timeout, which only the end of the child ends
Reap(j) ==
  /\ stage[j] = "reaping" /\ ~Alive(j)
  /\ Leave(j, "timeout")

\* The child has ended: its result is read, or there is none
Collect(j) ==
  /\ stage[j] = "joining" /\ child[j] \in {"returned", "raised", "died"}
  /\ Leave(j, IF child[j] = "returned" THEN "ok" ELSE "error")

\* The child has left a part of a message: the queue is not empty, and get waits
\* for the rest
ReadPartial(j) ==
  /\ stage[j] = "joining" /\ child[j] = "partial"
  /\ stage' = [stage EXCEPT ![j] = "reading"]
  /\ UNCHANGED <<child, answer, activeCount, shutDown>>

\* shutdown: queued jobs still run
ShutDown ==
  /\ ~shutDown
  /\ shutDown' = TRUE
  /\ UNCHANGED <<stage, child, answer, activeCount>>

PoolNext ==
  \/ \E j \in Job : \/ CallUnbound(j) \/ Submit(j) \/ StartJob(j) \/ ChildStep(j)
                    \/ JoinTimesOut(j) \/ Terminate(j) \/ Reap(j) \/ Collect(j) \/ ReadPartial(j)
  \/ ShutDown

PoolSpec == PoolInit /\ [][PoolNext]_poolVars

\* The pool's threads run and their timers fire; nothing is assumed of a child.
PoolFairness ==
  \A j \in Job : WF_poolVars(\/ StartJob(j) \/ JoinTimesOut(j) \/ Terminate(j) \/ Reap(j)
                             \/ Collect(j) \/ ReadPartial(j))

\* The jobs whose thread waits for what only the child could do: end, although
\* it has outlived its SIGTERM, or finish the message it left.
Blocked == {j \in Job : stage[j] = "reading" \/ (stage[j] = "reaping" /\ Alive(j))}

\* As long as fewer threads than the pool has are lost to such children, no other
\* accepted call waits for ever, although a child may never end, its result may be
\* stuck in the pipe and the pool may be full of such jobs
\* (SandboxedExecutor.run: join with a timeout, then terminate and join).
EveryJobAnswered ==
  <>[](Cardinality(Blocked) < PoolSize)
    => <>[](\A j \in Job \ Blocked : stage[j] \in {"new", "done"})
================================================================================
