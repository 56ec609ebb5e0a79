----------------------------- MODULE WorkProofs -----------------------------
(***************************************************************************)
(* The workflows, the cluster node and the pool of sandboxed children,     *)
(* which MCWork puts side by side.  Every document the repository ever     *)
(* holds is a consistent workflow without cycles, for every graph, every   *)
(* pool and every mix of API calls and crashes, and with a single writer   *)
(* it says what the events said; the members of a cluster act on what is   *)
(* agreed and converge; no child outlives the call it runs for.            *)
(***************************************************************************)
EXTENDS MCWork, VoterConfigurationProofs, SequenceTheorems

-----------------------------------------------------------------------------
(* The methods of Workflow: types *)

LEMMA MovedFields ==
  ASSUME NEW w \in Workflows, NEW t \in Task, NEW target \in TaskState
  PROVE  /\ Moved(w, t, target) \in Workflows
         /\ Moved(w, t, target).state = [w.state EXCEPT ![t] = target]
         /\ Moved(w, t, target).depends_on = w.depends_on
         /\ Moved(w, t, target).max_retries = w.max_retries
         /\ Moved(w, t, target).retry_count = w.retry_count
BY DEF Moved, Workflows

LEMMA MarkReadyFields ==
  ASSUME NEW w \in Workflows
  PROVE  /\ MarkReady(w) \in Workflows
         /\ MarkReady(w).state =
              [t \in Task |-> IF t \in ReadyTasks(w) THEN "ready" ELSE w.state[t]]
         /\ MarkReady(w).depends_on = w.depends_on
BY DEF MarkReady, Workflows, TaskState

LEMMA RetriedFields ==
  ASSUME NEW w \in Workflows, NEW t \in Task, MayRetry(w, t)
  PROVE  /\ Retried(w, t) \in Workflows
         /\ Retried(w, t).state = [w.state EXCEPT ![t] = "pending"]
         /\ Retried(w, t).depends_on = w.depends_on
<1> DEFINE m == Moved(w, t, "pending")
<1>1. /\ m \in Workflows /\ m.state = [w.state EXCEPT ![t] = "pending"]
      /\ m.depends_on = w.depends_on /\ m.retry_count = w.retry_count
  BY MovedFields DEF TaskState
<1>2. w.retry_count[t] + 1 \in 0 .. MaxRetry
  <2>1. w.retry_count[t] \in 0 .. MaxRetry /\ w.max_retries[t] \in 0 .. MaxRetry
    BY DEF Workflows
  <2>2. QED
    BY <2>1, TaskAssumption DEF MayRetry
<1>3. Retried(w, t) = [m EXCEPT !.retry_count[t] = @ + 1]
  BY DEF Retried
<1> HIDE DEF m
<1>4. QED
  BY <1>1, <1>2, <1>3 DEF Workflows

LEMMA FailedFields ==
  ASSUME NEW w \in Workflows, NEW t \in Task
  PROVE  LET f == Moved(w, t, "failed") IN
         /\ Failed(w, t) \in Workflows
         /\ Failed(w, t).state =
              [u \in Task |-> IF u \in CancelledBy(f) THEN "cancelled" ELSE f.state[u]]
         /\ Failed(w, t).depends_on = w.depends_on
<1> DEFINE f == Moved(w, t, "failed")
<1>1. f \in Workflows /\ f.depends_on = w.depends_on
  BY MovedFields DEF TaskState
<1>2. Failed(w, t) = [f EXCEPT !.state =
        [u \in Task |-> IF u \in CancelledBy(f) THEN "cancelled" ELSE f.state[u]]]
  BY DEF Failed
<1> HIDE DEF f
<1>3. [u \in Task |-> IF u \in CancelledBy(f) THEN "cancelled" ELSE f.state[u]]
        \in [Task -> TaskState]
  BY <1>1 DEF Workflows, TaskState
<1>4. /\ Failed(w, t) \in Workflows
      /\ Failed(w, t).state =
           [u \in Task |-> IF u \in CancelledBy(f) THEN "cancelled" ELSE f.state[u]]
      /\ Failed(w, t).depends_on = w.depends_on
  BY <1>1, <1>2, <1>3 DEF Workflows
<1>5. QED
  BY <1>4 DEF f

-----------------------------------------------------------------------------
(* The methods of Workflow: consistency *)

Sound(w) == StartedAfterDependencies(w) /\ CancelledBehindDead(w)

Consistent(w) == Sound(w) /\ ReadyTasks(w) = {}

\* Promoting what is ready makes nothing else ready.
LEMMA MarkReadyConsistent ==
  ASSUME NEW w \in Workflows, Sound(w)
  PROVE  Consistent(MarkReady(w))
<1> DEFINE r == MarkReady(w)
<1>1. /\ \A t \in Task : r.state[t] = IF t \in ReadyTasks(w) THEN "ready" ELSE w.state[t]
      /\ r.depends_on = w.depends_on
  BY MarkReadyFields
<1>2. \A t \in Task : w.depends_on[t] \subseteq Task
  BY DEF Workflows, Graph
<1>3. \A t \in ReadyTasks(w) : /\ t \in Task /\ w.state[t] = "pending"
                               /\ \A d \in w.depends_on[t] : w.state[d] = "completed"
  BY DEF ReadyTasks
<1> HIDE DEF r
<1>4. \A t \in Task : \A d \in w.depends_on[t] :
        /\ r.state[d] = "completed" <=> w.state[d] = "completed"
        /\ r.state[d] \in Dead <=> w.state[d] \in Dead
  BY <1>1, <1>2, <1>3 DEF Dead
<1>5. StartedAfterDependencies(r)
  BY <1>1, <1>3, <1>4 DEF Sound, StartedAfterDependencies
<1>6. CancelledBehindDead(r)
  <2> SUFFICES ASSUME NEW t \in Task
               PROVE  r.state[t] = "cancelled" <=> \E d \in w.depends_on[t] : r.state[d] \in Dead
    BY <1>1 DEF CancelledBehindDead
  <2>1. r.state[t] = "cancelled" <=> w.state[t] = "cancelled"
    BY <1>1, <1>3
  <2>2. w.state[t] = "cancelled" <=> \E d \in w.depends_on[t] : w.state[d] \in Dead
    BY DEF Sound, CancelledBehindDead
  <2>3. QED
    BY <1>4, <2>1, <2>2
<1>7. ReadyTasks(r) = {}
  <2> SUFFICES ASSUME NEW t \in Task, r.state[t] = "pending",
                      \A d \in w.depends_on[t] : r.state[d] = "completed"
               PROVE  FALSE
    BY <1>1 DEF ReadyTasks
  <2>1. t \notin ReadyTasks(w) /\ w.state[t] = "pending"
    BY <1>1
  <2>2. \A d \in w.depends_on[t] : w.state[d] = "completed"
    BY <1>4
  <2>3. QED
    BY <2>1, <2>2 DEF ReadyTasks
<1>8. QED
  BY <1>5, <1>6, <1>7 DEF Consistent, Sound, r

LEMMA CreatedConsistent ==
  ASSUME NEW deps \in Graph, NEW maxRetries \in [Task -> 0 .. MaxRetry]
  PROVE  LET w == Created(deps, maxRetries) IN w \in Workflows /\ Consistent(MarkReady(w))
<1> DEFINE w == Created(deps, maxRetries)
<1>1. w \in Workflows
  BY TaskAssumption DEF Created, Workflows, TaskState
<1>2. (\A t \in Task : w.state[t] = "pending") /\ w.depends_on = deps
  BY DEF Created
<1>3. \A t \in Task : w.depends_on[t] \subseteq Task
  BY <1>2 DEF Graph
<1> HIDE DEF w
<1>4. Sound(w)
  BY <1>2, <1>3 DEF Sound, StartedAfterDependencies, CancelledBehindDead, Dead
<1>5. Consistent(MarkReady(w))
  BY <1>1, <1>4, MarkReadyConsistent
<1>6. QED
  BY <1>1, <1>5 DEF w

\* A running task that completes, or is given back, disturbs no other: nothing
\* that depends on it has started, and none of it is dead.
LEMMA MovedSound ==
  ASSUME NEW w \in Workflows, Sound(w), NEW t \in Task, NEW m \in Workflows,
         NEW target \in {"running", "completed", "pending"},
         w.state[t] \in {"ready", "running"},
         m.state = [w.state EXCEPT ![t] = target], m.depends_on = w.depends_on
  PROVE  Sound(m)
<1>1. /\ m.state[t] = target
      /\ \A u \in Task \ {t} : m.state[u] = w.state[u]
      /\ \A u \in Task : w.depends_on[u] \subseteq Task
  BY DEF Workflows, Graph
<1>2. StartedAfterDependencies(m)
  <2> SUFFICES ASSUME NEW u \in Task, NEW d \in w.depends_on[u],
                      m.state[u] \in {"ready", "running", "completed", "failed"}
               PROVE  m.state[d] = "completed"
    BY DEF StartedAfterDependencies
  <2>1. w.state[u] \in {"ready", "running", "completed", "failed"}
    BY <1>1
  <2>2. w.state[d] = "completed"
    BY <2>1 DEF Sound, StartedAfterDependencies
  <2>3. QED
    BY <1>1, <2>2
<1>3. CancelledBehindDead(m)
  <2> SUFFICES ASSUME NEW u \in Task
               PROVE  m.state[u] = "cancelled" <=> \E d \in w.depends_on[u] : m.state[d] \in Dead
    BY DEF CancelledBehindDead
  <2>1. \A d \in Task : m.state[d] \in Dead <=> w.state[d] \in Dead
    BY <1>1 DEF Dead
  <2>2. m.state[u] = "cancelled" <=> w.state[u] = "cancelled"
    BY <1>1
  <2>3. w.state[u] = "cancelled" <=> \E d \in w.depends_on[u] : w.state[d] \in Dead
    BY DEF Sound, CancelledBehindDead
  <2>4. QED
    BY <1>1, <2>1, <2>2, <2>3
<1>4. QED
  BY <1>2, <1>3 DEF Sound

LEMMA StartConsistent ==
  ASSUME NEW w \in Workflows, Consistent(w), NEW t \in Task, ~RaisesStart(w, t)
  PROVE  Consistent(Moved(w, t, "running"))
<1> DEFINE m == Moved(w, t, "running")
<1>1. m \in Workflows /\ m.state = [w.state EXCEPT ![t] = "running"] /\ m.depends_on = w.depends_on
  BY MovedFields DEF TaskState
<1> HIDE DEF m
<1>2. w.state[t] = "ready" /\ w.state \in [Task -> TaskState]
  BY DEF RaisesStart, Workflows
<1>3. Sound(m)
  BY <1>1, <1>2, MovedSound DEF Consistent
<1>4. ReadyTasks(m) = {}
  <2> SUFFICES ASSUME NEW u \in Task, m.state[u] = "pending",
                      \A d \in w.depends_on[u] : m.state[d] = "completed"
               PROVE  FALSE
    BY <1>1 DEF ReadyTasks
  <2>1. \A d \in w.depends_on[u] : d \in Task
    BY DEF Workflows, Graph
  <2>2. w.state[u] = "pending" /\ \A d \in w.depends_on[u] : w.state[d] = "completed"
    BY <1>1, <1>2, <2>1
  <2>3. QED
    BY <2>2 DEF Consistent, ReadyTasks
<1>5. QED
  BY <1>3, <1>4 DEF Consistent, m

-----------------------------------------------------------------------------
(* The cascade *)

\* CancelledBy is closed under dependents, holds only dependents of dead or
\* cancelled tasks, and, in a sound workflow, only pending ones.
LEMMA CancelledByClosure ==
  ASSUME NEW f \in Workflows
  PROVE  LET C == CancelledBy(f) IN
         /\ C \subseteq {u \in Task : f.state[u] \notin Ended}
         /\ \A u \in Task : /\ f.state[u] \notin Ended
                            /\ \E d \in f.depends_on[u] : d \in C \/ f.state[d] \in Dead
                            => u \in C
         /\ \A u \in C : \E d \in f.depends_on[u] : d \in C \/ f.state[d] \in Dead
<1> DEFINE live == {u \in Task : f.state[u] \notin Ended}
           closed(S) == \A u \in live :
                          (\E d \in f.depends_on[u] : d \in S \/ f.state[d] \in Dead) => u \in S
           C == {u \in live : \A S \in SUBSET live : closed(S) => u \in S}
<1>1. CancelledBy(f) = C
  BY DEF CancelledBy
<1>2. C \subseteq live
  OBVIOUS
<1>3. closed(C)
  <2> SUFFICES ASSUME NEW u \in live, NEW d \in f.depends_on[u], d \in C \/ f.state[d] \in Dead,
                      NEW S \in SUBSET live, closed(S)
               PROVE  u \in S
    OBVIOUS
  <2>1. d \in S \/ f.state[d] \in Dead
    OBVIOUS
  <2>2. QED
    BY <2>1
<1>4. \A u \in C : \E d \in f.depends_on[u] : d \in C \/ f.state[d] \in Dead
  <2> SUFFICES ASSUME NEW u \in C, ~\E d \in f.depends_on[u] : d \in C \/ f.state[d] \in Dead
               PROVE  FALSE
    OBVIOUS
  <2>1. closed(C \ {u})
    <3> SUFFICES ASSUME NEW v \in live, NEW d \in f.depends_on[v],
                        d \in C \ {u} \/ f.state[d] \in Dead
                 PROVE  v \in C \ {u}
      OBVIOUS
    <3>1. v \in C
      BY <1>3
    <3>2. v # u
      OBVIOUS
    <3>3. QED
      BY <3>1, <3>2
  <2>2. C \ {u} \in SUBSET live
    OBVIOUS
  <2>3. QED
    BY <2>1, <2>2
<1>5. QED
  BY <1>1, <1>2, <1>3, <1>4

\* In a workflow that was sound before task t failed, only pending tasks are
\* cancelled: what has started waits for nobody.
LEMMA CancelledWerePending ==
  ASSUME NEW w \in Workflows, Sound(w), NEW t \in Task, w.state[t] = "running",
         NEW u \in CancelledBy(Moved(w, t, "failed"))
  PROVE  u \in Task /\ u # t /\ w.state[u] = "pending"
<1> DEFINE f == Moved(w, t, "failed")
           P == {v \in Task : f.state[v] = "pending"}
           live == {v \in Task : f.state[v] \notin Ended}
<1>1. /\ f \in Workflows /\ f.depends_on = w.depends_on
      /\ f.state[t] = "failed" /\ \A v \in Task \ {t} : f.state[v] = w.state[v]
  <2>1. f \in Workflows /\ f.depends_on = w.depends_on /\ f.state = [w.state EXCEPT ![t] = "failed"]
    BY MovedFields DEF TaskState
  <2>2. QED
    BY <2>1 DEF Workflows
<1>2. \A v \in Task : w.depends_on[v] \subseteq Task /\ w.state[v] \in TaskState
  BY DEF Workflows, Graph
<1> HIDE DEF f
<1>3. P \in SUBSET live
  BY DEF Ended, Dead
<1>4. \A v \in live : (\E d \in f.depends_on[v] : d \in P \/ f.state[d] \in Dead) => v \in P
  <2> SUFFICES ASSUME NEW v \in live, NEW d \in w.depends_on[v], d \in P \/ f.state[d] \in Dead
               PROVE  v \in P
    BY <1>1
  <2>1. w.state[d] # "completed" /\ v # t
    BY <1>1, <1>2 DEF Dead, Ended
  <2>2. w.state[v] \notin {"ready", "running", "completed", "failed"}
    BY <2>1 DEF Sound, StartedAfterDependencies
  <2>3. QED
    BY <1>1, <1>2, <2>1, <2>2 DEF TaskState, Ended, Dead
<1>5. u \in P
  BY <1>3, <1>4 DEF CancelledBy, f
<1>6. QED
  BY <1>1, <1>5

LEMMA FailConsistent ==
  ASSUME NEW w \in Workflows, Consistent(w), NEW t \in Task, w.state[t] = "running"
  PROVE  Consistent(Failed(w, t))
<1> DEFINE f == Moved(w, t, "failed")
           C == CancelledBy(f)
           g == Failed(w, t)
<1>1. /\ f \in Workflows /\ f.depends_on = w.depends_on
      /\ f.state[t] = "failed" /\ \A v \in Task \ {t} : f.state[v] = w.state[v]
  <2>1. f \in Workflows /\ f.depends_on = w.depends_on /\ f.state = [w.state EXCEPT ![t] = "failed"]
    BY MovedFields DEF TaskState
  <2>2. QED
    BY <2>1 DEF Workflows
<1>2. /\ \A v \in Task : g.state[v] = IF v \in C THEN "cancelled" ELSE f.state[v]
      /\ g.depends_on = w.depends_on
  <2>1. /\ g.state = [u \in Task |-> IF u \in C THEN "cancelled" ELSE f.state[u]]
        /\ g.depends_on = w.depends_on
    BY FailedFields
  <2> HIDE DEF f, C, g
  <2>2. QED
    BY <2>1
<1>3. /\ \A u \in Task : /\ f.state[u] \notin Ended
                         /\ \E d \in w.depends_on[u] : d \in C \/ f.state[d] \in Dead
                         => u \in C
      /\ \A u \in C : \E d \in w.depends_on[u] : d \in C \/ f.state[d] \in Dead
  BY <1>1, CancelledByClosure
<1>4. \A u \in C : u \in Task /\ u # t /\ w.state[u] = "pending"
  BY CancelledWerePending DEF Consistent
<1>5. \A v \in Task : w.depends_on[v] \subseteq Task /\ w.state[v] \in TaskState
  BY DEF Workflows, Graph
<1>6. Sound(w) /\ ReadyTasks(w) = {}
  BY DEF Consistent
<1> HIDE DEF f, C, g
<1>7. StartedAfterDependencies(g)
  <2> SUFFICES ASSUME NEW u \in Task, NEW d \in w.depends_on[u],
                      g.state[u] \in {"ready", "running", "completed", "failed"}
               PROVE  g.state[d] = "completed"
    BY <1>2 DEF StartedAfterDependencies
  <2>1. w.state[u] \in {"ready", "running", "completed", "failed"}
    BY <1>1, <1>2
  <2>2. w.state[d] = "completed" /\ d \in Task
    BY <1>5, <1>6, <2>1 DEF Sound, StartedAfterDependencies
  <2>3. d \notin C /\ d # t
    BY <1>4, <2>2
  <2>4. QED
    BY <1>1, <1>2, <2>2, <2>3
<1>8. CancelledBehindDead(g)
  <2> SUFFICES ASSUME NEW u \in Task
               PROVE  g.state[u] = "cancelled" <=> \E d \in w.depends_on[u] : g.state[d] \in Dead
    BY <1>2 DEF CancelledBehindDead
  <2>1. \A d \in Task : g.state[d] \in Dead <=> d \in C \/ f.state[d] \in Dead
    BY <1>2 DEF Dead
  <2>2. CASE g.state[u] = "cancelled"
    <3>1. CASE u \in C
      BY <1>3, <1>5, <2>1, <2>2, <3>1
    <3>2. CASE u \notin C
      <4>1. w.state[u] = "cancelled"
        BY <1>1, <1>2, <2>2, <3>2
      <4>2. PICK d \in w.depends_on[u] : w.state[d] \in Dead
        BY <1>6, <4>1 DEF Sound, CancelledBehindDead
      <4>3. d \in Task /\ f.state[d] \in Dead
        BY <1>1, <1>5, <4>2 DEF Dead
      <4>4. QED
        BY <2>1, <2>2, <4>2, <4>3
    <3>3. QED
      BY <3>1, <3>2
  <2>3. CASE \E d \in w.depends_on[u] : g.state[d] \in Dead
    <3>1. PICK d \in w.depends_on[u] : d \in C \/ f.state[d] \in Dead
      BY <1>5, <2>1, <2>3
    <3>2. d \in Task /\ w.state[d] # "completed"
      BY <1>1, <1>4, <1>5, <3>1 DEF Dead
    <3>3. u # t /\ w.state[u] \notin {"ready", "running", "completed", "failed"}
      BY <1>6, <3>2 DEF Sound, StartedAfterDependencies
    <3>4. w.state[u] \in {"pending", "cancelled"} /\ f.state[u] = w.state[u]
      BY <1>1, <1>5, <3>3 DEF TaskState
    <3>5. CASE f.state[u] = "pending"
      BY <1>2, <1>3, <2>3, <3>1, <3>5 DEF Ended, Dead
    <3>6. CASE f.state[u] = "cancelled"
      BY <1>2, <2>3, <3>6
    <3>7. QED
      BY <3>4, <3>5, <3>6
  <2>4. QED
    BY <2>2, <2>3
<1>9. ReadyTasks(g) = {}
  <2> SUFFICES ASSUME NEW u \in Task, g.state[u] = "pending",
                      \A d \in w.depends_on[u] : g.state[d] = "completed"
               PROVE  FALSE
    BY <1>2 DEF ReadyTasks
  <2>1. w.state[u] = "pending"
    BY <1>1, <1>2
  <2>2. \A d \in w.depends_on[u] : w.state[d] = "completed"
    BY <1>1, <1>2, <1>5
  <2>3. QED
    BY <1>6, <2>1, <2>2 DEF ReadyTasks
<1>10. QED
  BY <1>7, <1>8, <1>9 DEF Consistent, Sound, g

\* fail_task of a consistent workflow raises only for a task that is not
\* running: _cascade_cancel never meets a task it may not cancel and so never
\* stops half-way.
THEOREM CascadeNeverRaises ==
  ASSUME NEW w \in Workflows, Consistent(w), NEW t \in Task
  PROVE  RaisesFail(w, t) <=> w.state[t] # "running"
<1>1. SUFFICES ASSUME w.state[t] = "running",
                      NEW u \in CancelledBy(Moved(w, t, "failed")), w.state[u] = "running"
               PROVE  FALSE
  BY DEF RaisesFail
<1>2. QED
  BY <1>1, CancelledWerePending DEF Consistent

\* What start_task, complete_task and fail_task store is consistent if the
\* copy they act on is.
LEMMA AppliedConsistent ==
  ASSUME NEW w \in Workflows, Consistent(w), NEW op \in Operation, NEW t \in Task,
         ~Raises(w, op, t)
  PROVE  Applied(w, op, t) \in Workflows /\ Consistent(Applied(w, op, t))
<1>1. CASE op = "start"
  <2>1. Applied(w, op, t) = Moved(w, t, "running") /\ ~RaisesStart(w, t)
    BY <1>1 DEF Applied, Raises
  <2>2. Moved(w, t, "running") \in Workflows
    BY MovedFields DEF TaskState
  <2>3. Consistent(Moved(w, t, "running"))
    BY <2>1, StartConsistent
  <2>4. QED
    BY <2>1, <2>2, <2>3
<1>2. CASE op = "complete"
  <2> DEFINE m == Moved(w, t, "completed")
  <2>1. Applied(w, op, t) = MarkReady(m) /\ w.state[t] = "running"
    BY <1>2 DEF Applied, Raises, RaisesComplete
  <2>2. /\ m \in Workflows /\ m.depends_on = w.depends_on
        /\ m.state = [w.state EXCEPT ![t] = "completed"]
    BY MovedFields DEF TaskState
  <2> HIDE DEF m
  <2>3. Sound(m)
    BY <2>1, <2>2, MovedSound DEF Consistent
  <2>4. QED
    BY <2>1, <2>2, <2>3, MarkReadyConsistent, MarkReadyFields
<1>3. CASE op = "fail"
  <2>1. w.state[t] = "running"
    BY <1>3 DEF Raises, RaisesFail
  <2>2. CASE MayRetry(w, t)
    <3> DEFINE m == Retried(w, t)
    <3>1. Applied(w, op, t) = MarkReady(m)
      BY <1>3, <2>2 DEF Applied
    <3>2. /\ m \in Workflows /\ m.depends_on = w.depends_on
          /\ m.state = [w.state EXCEPT ![t] = "pending"]
      BY <2>2, RetriedFields
    <3> HIDE DEF m
    <3>3. Sound(m)
      BY <2>1, <3>2, MovedSound DEF Consistent
    <3>4. QED
      BY <3>1, <3>2, <3>3, MarkReadyConsistent, MarkReadyFields
  <2>3. CASE ~MayRetry(w, t)
    <3>1. Applied(w, op, t) = Failed(w, t)
      BY <1>3, <2>3 DEF Applied
    <3>2. Failed(w, t) \in Workflows
      BY FailedFields
    <3>3. Consistent(Failed(w, t))
      BY <2>1, FailConsistent
    <3>4. QED
      BY <3>1, <3>2, <3>3
  <2>4. QED
    BY <2>2, <2>3
<1>4. QED
  BY <1>1, <1>2, <1>3 DEF Operation

-----------------------------------------------------------------------------
(* The orchestrator: types and the inductive invariant *)

StoredConsistent == stored # None => Consistent(stored)

CopiesConsistent ==
  \A x \in Thread : call[x] # None /\ call[x].at = "got" => Consistent(call[x].copy)

Inv == TypeOK /\ StoredConsistent /\ CopiesConsistent

LEMMA InitInv == Init => Inv
BY DEF Init, Inv, TypeOK, StoredConsistent, CopiesConsistent

\* A thread that is not at its copy keeps the others' copies.
LEMMA OtherCopies ==
  ASSUME Inv, NEW x \in Thread, NEW k, call' = [call EXCEPT ![x] = k],
         k # None /\ k.at = "got" => Consistent(k.copy)
  PROVE  CopiesConsistent'
<1>1. SUFFICES ASSUME NEW y \in Thread, call'[y] # None, call'[y].at = "got"
               PROVE  Consistent(call'[y].copy)
  BY DEF CopiesConsistent, Consistent, Sound, StartedAfterDependencies, CancelledBehindDead, ReadyTasks
<1>2. call'[y] = IF y = x THEN k ELSE call[y]
  BY DEF Inv, TypeOK
<1>3. QED
  BY <1>1, <1>2 DEF Inv, CopiesConsistent

LEMMA GetInv ==
  ASSUME Inv, NEW x \in Thread, NEW op \in Operation, NEW t \in Task, Get(x, op, t),
         UNCHANGED <<stored, announced, crashes>>, queued' \in [Task -> Nat]
  PROVE  Inv'
<1> DEFINE k == [at |-> "got", op |-> op, task |-> t, copy |-> stored]
<1>1. stored \in Workflows /\ Consistent(stored) /\ call' = [call EXCEPT ![x] = k]
  BY DEF Inv, TypeOK, StoredConsistent, Get
<1>2. k \in Got /\ k.copy = stored
  BY <1>1 DEF Got
<1> HIDE DEF k
<1>3. CopiesConsistent'
  BY <1>1, <1>2, OtherCopies
<1>4. TypeOK'
  BY <1>1, <1>2 DEF Inv, TypeOK
<1>5. StoredConsistent'
  BY DEF Inv, StoredConsistent, Consistent, Sound, StartedAfterDependencies, CancelledBehindDead, ReadyTasks
<1>6. QED
  BY <1>3, <1>4, <1>5 DEF Inv

LEMMA CreateWorkflowInv ==
  ASSUME Inv, NEW c \in Client, CreateWorkflow(c)
  PROVE  Inv'
<1>1. PICK deps \in Graph, maxRetries \in [Task -> 0 .. MaxRetry] :
        LET w == MarkReady(Created(deps, maxRetries)) IN
        /\ stored' = w
        /\ call' = [call EXCEPT ![c] =
             [at |-> "updated", op |-> "create", task |-> None,
              ready |-> Entered(Created(deps, maxRetries), w, "ready"), ended |-> {}]]
        /\ UNCHANGED <<queued, announced, crashes>>
  BY DEF CreateWorkflow
<1> DEFINE v == Created(deps, maxRetries)
           k == [at |-> "updated", op |-> "create", task |-> None,
                 ready |-> Entered(v, MarkReady(v), "ready"), ended |-> {}]
<1>2. v \in Workflows /\ Consistent(MarkReady(v))
  BY CreatedConsistent
<1>3. MarkReady(v) \in Workflows
  BY <1>2, MarkReadyFields
<1>4. k \in Updated /\ k.at = "updated"
  BY DEF Updated, Publishing, Entered
<1>5. stored' = MarkReady(v) /\ call' = [call EXCEPT ![c] = k] /\ c \in Thread
  BY <1>1 DEF Thread
<1> HIDE DEF v, k
<1>6. TypeOK'
  BY <1>1, <1>3, <1>4, <1>5 DEF Inv, TypeOK
<1>7. StoredConsistent'
  <2>1. Consistent(stored')
    BY <1>2, <1>5
  <2>2. QED
    BY <2>1 DEF StoredConsistent, Consistent, Sound, StartedAfterDependencies,
                CancelledBehindDead, ReadyTasks
<1>8. CopiesConsistent'
  BY <1>4, <1>5, OtherCopies
<1>9. QED
  BY <1>6, <1>7, <1>8 DEF Inv

LEMMA UpdateInv ==
  ASSUME Inv, NEW x \in Thread, Update(x)
  PROVE  Inv'
<1> DEFINE k == call[x]
           w == Applied(k.copy, k.op, k.task)
           u == [at |-> "updated", op |-> k.op, task |-> k.task,
                 ready |-> Entered(k.copy, w, "ready"), ended |-> EndedIn(k.copy, w)]
<1>1. /\ k # None /\ k.at = "got" /\ ~Raises(k.copy, k.op, k.task)
      /\ stored' = w /\ call' = [call EXCEPT ![x] = u]
      /\ UNCHANGED <<queued, announced, crashes>>
  BY DEF Update
<1>2. k \in Got /\ Consistent(k.copy)
  <2>1. k \in Got \cup Updated \cup Executing
    BY <1>1 DEF Inv, TypeOK
  <2>2. k \notin Updated /\ k \notin Executing
    BY <1>1 DEF Updated, Publishing, Executing
  <2>3. QED
    BY <1>1, <2>1, <2>2 DEF Inv, CopiesConsistent
<1>3. k.copy \in Workflows /\ k.op \in Operation /\ k.task \in Task
  BY <1>2 DEF Got
<1>4. w \in Workflows /\ Consistent(w)
  BY <1>1, <1>2, <1>3, AppliedConsistent
<1>5. u \in Updated /\ u.at = "updated"
  BY <1>3 DEF Updated, Publishing, Entered, EndedIn
<1> HIDE DEF k, w, u
<1>6. TypeOK'
  BY <1>1, <1>4, <1>5 DEF Inv, TypeOK
<1>7. StoredConsistent'
  <2>1. Consistent(stored')
    BY <1>1, <1>4
  <2>2. QED
    BY <2>1 DEF StoredConsistent, Consistent, Sound, StartedAfterDependencies,
                CancelledBehindDead, ReadyTasks
<1>8. CopiesConsistent'
  BY <1>1, <1>5, OtherCopies
<1>9. QED
  BY <1>6, <1>7, <1>8 DEF Inv

\* A step that leaves the document alone and gives no thread a copy.
LEMMA QuietInv ==
  ASSUME Inv, UNCHANGED stored, TypeOK',
         \A y \in Thread : call'[y] # None /\ call'[y].at = "got" => call'[y] = call[y]
  PROVE  Inv'
<1>1. StoredConsistent'
  BY DEF Inv, StoredConsistent, Consistent, Sound, StartedAfterDependencies,
         CancelledBehindDead, ReadyTasks
<1>2. CopiesConsistent'
  <2>1. SUFFICES ASSUME NEW y \in Thread, call'[y] # None, call'[y].at = "got"
                 PROVE  Consistent(call'[y].copy)
    BY DEF CopiesConsistent, Consistent, Sound, StartedAfterDependencies, CancelledBehindDead,
           ReadyTasks
  <2>2. QED
    BY <2>1 DEF Inv, CopiesConsistent
<1>3. QED
  BY <1>1, <1>2 DEF Inv

LEMMA RefuseInv ==
  ASSUME Inv, NEW x \in Thread, Refuse(x)
  PROVE  Inv'
<1>1. call' = [call EXCEPT ![x] = None] /\ UNCHANGED <<stored, queued, announced, crashes>>
  BY DEF Refuse
<1>2. TypeOK'
  BY <1>1 DEF Inv, TypeOK
<1>3. \A y \in Thread : call'[y] # None => call'[y] = call[y]
  BY <1>1 DEF Inv, TypeOK
<1>4. QED
  BY <1>1, <1>2, <1>3, QuietInv

LEMMA PublishInv ==
  ASSUME Inv, NEW x \in Thread, Publish(x)
  PROVE  Inv'
<1> DEFINE k == call[x]
           n == IF x \in Worker /\ k.op = "start" THEN [at |-> "executing", task |-> k.task] ELSE None
<1>1. /\ k # None /\ k.at = "updated" /\ call' = [call EXCEPT ![x] = n]
      /\ queued' = [t \in Task |-> IF t \in k.ready THEN queued[t] + 1 ELSE queued[t]]
      /\ announced' = announced \cup k.ended /\ UNCHANGED <<stored, crashes>>
  BY DEF Publish
<1>2. k \in Updated
  <2>1. k \in Got \cup Updated \cup Executing
    BY <1>1 DEF Inv, TypeOK
  <2>2. k \notin Got /\ k \notin Executing
    BY <1>1 DEF Got, Executing
  <2>3. QED
    BY <2>1, <2>2
<1>3. k.ended \subseteq Task \X Ended /\ (k.op = "start" => k.task \in Task)
  BY <1>2 DEF Updated, Publishing, Operation
<1>4. n \in Executing \cup {None} /\ (n # None => n.at = "executing")
  <2>1. CASE k.op = "start"
    BY <1>3, <2>1 DEF Executing
  <2>2. CASE k.op # "start"
    BY <2>2
  <2>3. QED
    BY <2>1, <2>2
<1> HIDE DEF k, n
<1>5. TypeOK'
  BY <1>1, <1>3, <1>4 DEF Inv, TypeOK
<1>6. \A y \in Thread : call'[y] # None /\ call'[y].at = "got" => call'[y] = call[y]
  BY <1>1, <1>4 DEF Inv, TypeOK
<1>7. QED
  BY <1>1, <1>5, <1>6, QuietInv

LEMMA CrashInv ==
  ASSUME Inv, Crash
  PROVE  Inv'
<1>1. /\ call' = [x \in Thread |-> None] /\ queued' = [t \in Task |-> 0]
      /\ crashes' = crashes + 1 /\ UNCHANGED <<stored, announced>>
  BY DEF Crash
<1>2. TypeOK'
  BY <1>1 DEF Inv, TypeOK
<1>3. QED
  BY <1>1, <1>2, QuietInv

LEMMA NextInv == Inv /\ [Next]_vars => Inv'
<1> SUFFICES ASSUME Inv, [Next]_vars PROVE Inv'
  OBVIOUS
<1>1. ASSUME NEW c \in Client, CreateWorkflow(c) PROVE Inv'
  BY <1>1, CreateWorkflowInv
<1>2. ASSUME NEW x \in Worker, NEW t \in Task, Take(x, t) PROVE Inv'
  <2>1. Get(x, "start", t) /\ UNCHANGED <<stored, announced, crashes>> /\ x \in Thread
    BY <1>2 DEF Take, Thread
  <2>2. queued' \in [Task -> Nat]
    BY <1>2 DEF Take, Inv, TypeOK
  <2>3. "start" \in Operation
    BY DEF Operation
  <2>4. QED
    BY <2>1, <2>2, <2>3, GetInv
<1>3. ASSUME NEW c \in Client, NEW op \in Requested, NEW t \in Task, Request(c, op, t) PROVE Inv'
  <2>1. /\ Get(c, op, t) /\ UNCHANGED <<stored, announced, crashes>> /\ c \in Thread
        /\ queued' = queued
    BY <1>3 DEF Request, Thread
  <2>2. queued' \in [Task -> Nat] /\ op \in Operation
    BY <2>1, ThreadAssumption DEF Inv, TypeOK
  <2>3. QED
    BY <2>1, <2>2, GetInv
<1>4. ASSUME NEW x \in Worker, NEW op \in {"complete", "fail"}, Executed(x, op) PROVE Inv'
  <2>1. /\ call[x] # None /\ call[x].at = "executing" /\ Get(x, op, call[x].task)
        /\ UNCHANGED <<stored, queued, announced, crashes>> /\ x \in Thread
    BY <1>4 DEF Executed, Thread
  <2>2. call[x].task \in Task
    <3>1. call[x] \in Got \cup Updated \cup Executing
      BY <2>1 DEF Inv, TypeOK
    <3>2. call[x] \notin Got /\ call[x] \notin Updated
      BY <2>1 DEF Got, Updated, Publishing
    <3>3. QED
      BY <3>1, <3>2 DEF Executing
  <2>3. queued' \in [Task -> Nat] /\ op \in Operation
    BY <2>1 DEF Inv, TypeOK, Operation
  <2>4. QED
    BY <2>1, <2>2, <2>3, GetInv
<1>5. ASSUME NEW x \in Thread, Refuse(x) \/ Update(x) \/ Publish(x) PROVE Inv'
  BY <1>5, RefuseInv, UpdateInv, PublishInv
<1>6. CASE Crash
  BY <1>6, CrashInv
<1>7. CASE UNCHANGED vars
  <2>1. TypeOK' /\ UNCHANGED <<stored, call>>
    BY <1>7 DEF vars, Inv, TypeOK
  <2>2. QED
    BY <2>1, QuietInv
<1>8. QED
  BY <1>1, <1>2, <1>3, <1>4, <1>5, <1>6, <1>7 DEF Next

LEMMA Invariant == Spec => []Inv
BY InitInv, NextInv, PTL DEF Spec

\* The document, the queue and every call keep their types; in particular no
\* task's retry_count passes the largest max_retries, whatever updates are lost.
THEOREM TypeCorrect == Spec => []TypeOK
<1>1. Inv => TypeOK
  BY DEF Inv
<1>2. QED
  BY <1>1, Invariant, PTL

\* In every workflow ever stored a task has started only after all its
\* dependencies completed, although concurrent updates overwrite each other.
THEOREM DependenciesAlwaysRespected == Spec => []DependenciesRespected
<1>1. Inv => DependenciesRespected
  BY DEF Inv, StoredConsistent, Consistent, Sound, DependenciesRespected
<1>2. QED
  BY <1>1, Invariant, PTL

\* In every workflow ever stored exactly the tasks behind a failed one, however
\* far, are cancelled.
THEOREM FailureAlwaysCascades == Spec => []FailureCascades
<1>1. Inv => FailureCascades
  BY DEF Inv, StoredConsistent, Consistent, Sound, FailureCascades
<1>2. QED
  BY <1>1, Invariant, PTL

\* No stored workflow has a task that could be ready and is not.
THEOREM NothingEverForgotten == Spec => []NothingForgotten
<1>1. Inv => NothingForgotten
  BY DEF Inv, StoredConsistent, Consistent, NothingForgotten
<1>2. QED
  BY <1>1, Invariant, PTL

-----------------------------------------------------------------------------
(* Kahn's algorithm *)

\* The tasks visited next
Visit(deps, V) == V \cup {t \in Task : deps[t] \subseteq V}

\* f holds the tasks visited in the first rounds up to m.
IsVisits(f, deps, m) ==
  f = [n \in 0 .. m |-> IF n = 0 THEN {} ELSE Visit(deps, f[n - 1])]

LEMMA VisitsExist ==
  ASSUME NEW deps, NEW m \in Nat
  PROVE  \E f : IsVisits(f, deps, m)
<1> DEFINE Bad == {n \in Nat : ~\E f : IsVisits(f, deps, n)}
<1> SUFFICES ASSUME Bad # {} PROVE FALSE
  OBVIOUS
<1>1. PICK n \in Bad : \A k \in Bad : n <= k
  BY LeastOf
<1>2. CASE n = 0
  <2> DEFINE f == [k \in 0 .. n |-> {}]
  <2>1. f = [k \in 0 .. n |-> IF k = 0 THEN {} ELSE Visit(deps, f[k - 1])]
    BY <1>2
  <2>2. IsVisits(f, deps, n)
    BY <2>1 DEF IsVisits
  <2>3. QED
    BY <2>2
<1>3. CASE n > 0
  <2>1. PICK f : IsVisits(f, deps, n - 1)
    <3>1. n - 1 \in Nat /\ ~(n <= n - 1)
      BY <1>3
    <3>2. n - 1 \notin Bad
      BY <1>1, <3>1
    <3>3. QED
      BY <3>1, <3>2
  <2>2. \A k \in 0 .. n - 1 : f[k] = IF k = 0 THEN {} ELSE Visit(deps, f[k - 1])
    BY <2>1 DEF IsVisits
  <2> DEFINE g == [k \in 0 .. n |-> IF k = n THEN Visit(deps, f[n - 1]) ELSE f[k]]
  <2>3. ASSUME NEW k \in 0 .. n
        PROVE  g[k] = IF k = 0 THEN {} ELSE Visit(deps, g[k - 1])
    <3>1. CASE k = n
      <4>1. n - 1 \in 0 .. n /\ n - 1 # n
        BY <1>3
      <4>2. g[n - 1] = f[n - 1]
        BY <4>1
      <4>3. QED
        BY <3>1, <4>2, <1>3
    <3>2. CASE k # n /\ k = 0
      <4>1. k \in 0 .. n - 1
        BY <3>2
      <4>2. QED
        BY <3>2, <4>1, <2>2
    <3>3. CASE k # n /\ k # 0
      <4>1. k \in 0 .. n - 1 /\ k - 1 \in 0 .. n /\ k - 1 # n
        BY <3>3
      <4>2. g[k - 1] = f[k - 1] /\ g[k] = f[k]
        BY <4>1, <3>3
      <4>3. QED
        BY <3>3, <4>1, <4>2, <2>2
    <3>4. QED
      BY <3>1, <3>2, <3>3
  <2>4. IsVisits(g, deps, n)
    <3>1. g = [k \in 0 .. n |-> g[k]]
      OBVIOUS
    <3> HIDE DEF g
    <3>2. QED
      BY <3>1, <2>3 DEF IsVisits
  <2>5. QED
    BY <2>4
<1>4. QED
  BY <1>2, <1>3

LEMMA VisitsAgree ==
  ASSUME NEW deps, NEW m \in Nat, NEW f, IsVisits(f, deps, m), NEW m2 \in Nat, m <= m2,
         NEW g, IsVisits(g, deps, m2)
  PROVE  \A n \in 0 .. m : f[n] = g[n]
<1> DEFINE Bad == {n \in 0 .. m : f[n] # g[n]}
<1> SUFFICES ASSUME Bad # {} PROVE FALSE
  OBVIOUS
<1>1. PICK n \in Bad : \A k \in Bad : n <= k
  <2>1. Bad \in SUBSET Nat
    OBVIOUS
  <2> HIDE DEF Bad
  <2>2. QED
    BY <2>1, LeastOf
<1>2. /\ \A k \in 0 .. m : f[k] = IF k = 0 THEN {} ELSE Visit(deps, f[k - 1])
      /\ \A k \in 0 .. m2 : g[k] = IF k = 0 THEN {} ELSE Visit(deps, g[k - 1])
  BY DEF IsVisits
<1>3. n # 0
  <2>1. 0 \in 0 .. m /\ 0 \in 0 .. m2
    OBVIOUS
  <2>2. f[0] = {} /\ g[0] = {}
    BY <2>1, <1>2
  <2>3. QED
    BY <2>2
<1>4. n - 1 \in 0 .. m /\ ~(n <= n - 1)
  BY <1>3
<1>5. f[n - 1] = g[n - 1]
  BY <1>1, <1>4
<1>6. f[n] = Visit(deps, f[n - 1]) /\ g[n] = Visit(deps, g[n - 1])
  BY <1>2, <1>3
<1>7. QED
  BY <1>5, <1>6

\* Ordered is what its defining equation says.
LEMMA OrderedIs ==
  ASSUME NEW deps
  PROVE  \E f : /\ Ordered(deps) = f[Cardinality(Task)]
                /\ \A n \in Nat : f[n] = IF n = 0 THEN {} ELSE Visit(deps, f[n - 1])
<1> DEFINE ordered == CHOOSE f : f = [n \in Nat |->
             IF n = 0 THEN {} ELSE f[n - 1] \cup {t \in Task : deps[t] \subseteq f[n - 1]}]
           Run(m) == CHOOSE f : IsVisits(f, deps, m)
           g == [n \in Nat |-> Run(n)[n]]
<1>1. \A m \in Nat : IsVisits(Run(m), deps, m)
  <2> TAKE m \in Nat
  <2>1. \E f : IsVisits(f, deps, m)
    BY VisitsExist
  <2>2. QED
    BY <2>1
<1>2. ASSUME NEW n \in Nat
      PROVE  g[n] = IF n = 0 THEN {} ELSE g[n - 1] \cup {t \in Task : deps[t] \subseteq g[n - 1]}
  <2> HIDE DEF Run
  <2>1. \A k \in 0 .. n : Run(n)[k] = IF k = 0 THEN {} ELSE Visit(deps, Run(n)[k - 1])
    BY <1>1 DEF IsVisits
  <2>2. CASE n = 0
    BY <2>1, <2>2
  <2>3. CASE n # 0
    <3>1. n - 1 \in Nat /\ n - 1 <= n /\ n - 1 \in 0 .. n - 1 /\ n \in 0 .. n
      BY <2>3
    <3>2. IsVisits(Run(n - 1), deps, n - 1) /\ IsVisits(Run(n), deps, n)
      BY <1>1, <3>1
    <3>3. Run(n - 1)[n - 1] = Run(n)[n - 1]
      BY <3>1, <3>2, VisitsAgree
    <3>4. Run(n)[n] = Visit(deps, Run(n)[n - 1])
      BY <2>1, <2>3, <3>1
    <3>5. g[n] = Visit(deps, g[n - 1])
      BY <3>1, <3>3, <3>4
    <3> HIDE DEF g
    <3>6. QED
      BY <2>3, <3>5 DEF Visit
  <2>4. QED
    BY <2>2, <2>3
<1>3. g = [n \in Nat |-> IF n = 0 THEN {} ELSE g[n - 1] \cup {t \in Task : deps[t] \subseteq g[n - 1]}]
  <2>1. g = [n \in Nat |-> g[n]]
    OBVIOUS
  <2> HIDE DEF g
  <2>2. QED
    BY <2>1, <1>2
<1> HIDE DEF g
<1>4. ordered = [n \in Nat |->
        IF n = 0 THEN {} ELSE ordered[n - 1] \cup {t \in Task : deps[t] \subseteq ordered[n - 1]}]
  <2>1. \E f : f = [n \in Nat |->
          IF n = 0 THEN {} ELSE f[n - 1] \cup {t \in Task : deps[t] \subseteq f[n - 1]}]
    BY <1>3
  <2>2. QED
    BY <2>1
<1>5. Ordered(deps) = ordered[Cardinality(Task)]
  BY DEF Ordered
<1> HIDE DEF ordered
<1>6. \A n \in Nat : ordered[n] = IF n = 0 THEN {} ELSE Visit(deps, ordered[n - 1])
  BY <1>4 DEF Visit
<1>7. QED
  BY <1>5, <1>6

Acyclic(deps) == \A S \in (SUBSET Task) \ {{}} : \E t \in S : deps[t] \cap S = {}

\* _validate_no_cycles is right: when every task is visited, no set of tasks
\* waits only for itself.
THEOREM KahnIsSound == \A deps \in Graph : ~CycleDetected(deps) => Acyclic(deps)
<1> SUFFICES ASSUME NEW deps \in Graph, ~CycleDetected(deps),
                    NEW S \in (SUBSET Task) \ {{}}, \A t \in S : deps[t] \cap S # {}
             PROVE  FALSE
  BY DEF Acyclic
<1>1. PICK f : /\ Ordered(deps) = f[Cardinality(Task)]
               /\ \A n \in Nat : f[n] = IF n = 0 THEN {} ELSE Visit(deps, f[n - 1])
  BY OrderedIs
<1>2. \A n \in Nat : f[n] \cap S = {}
  <2> DEFINE Bad == {n \in Nat : f[n] \cap S # {}}
  <2> SUFFICES ASSUME Bad # {} PROVE FALSE
    OBVIOUS
  <2>1. PICK n \in Bad : \A k \in Bad : n <= k
    BY LeastOf
  <2>2. n # 0
    BY <1>1
  <2>3. n - 1 \in Nat /\ ~(n <= n - 1)
    BY <2>2
  <2>4. f[n - 1] \cap S = {}
    BY <2>1, <2>3
  <2>5. f[n] = Visit(deps, f[n - 1])
    BY <1>1, <2>2
  <2>6. f[n] \cap S = {}
    BY <2>4, <2>5 DEF Visit
  <2>7. QED
    BY <2>6
<1>3. Cardinality(Task) \in Nat
  BY TaskAssumption, FS_CardinalityType
<1>4. Ordered(deps) = Task
  BY DEF CycleDetected
<1>5. S \subseteq Task /\ S # {}
  OBVIOUS
<1>6. Task \cap S = {}
  BY <1>1, <1>2, <1>3, <1>4
<1>7. QED
  BY <1>5, <1>6

\* No method changes a dependency.
LEMMA AppliedKeepsGraph ==
  ASSUME NEW w \in Workflows, NEW op \in Operation, NEW t \in Task, ~Raises(w, op, t)
  PROVE  Applied(w, op, t).depends_on = w.depends_on
<1>1. CASE op = "start"
  BY <1>1, MovedFields DEF Applied, TaskState
<1>2. CASE op = "complete"
  <2> DEFINE m == Moved(w, t, "completed")
  <2>1. m \in Workflows /\ m.depends_on = w.depends_on
    BY MovedFields DEF TaskState
  <2>2. Applied(w, op, t) = MarkReady(m)
    BY <1>2 DEF Applied
  <2> HIDE DEF m
  <2>3. QED
    BY <2>1, <2>2, MarkReadyFields
<1>3. CASE op = "fail"
  <2>1. CASE MayRetry(w, t)
    <3> DEFINE m == Retried(w, t)
    <3>1. m \in Workflows /\ m.depends_on = w.depends_on
      BY <2>1, RetriedFields
    <3>2. Applied(w, op, t) = MarkReady(m)
      BY <1>3, <2>1 DEF Applied
    <3> HIDE DEF m
    <3>3. QED
      BY <3>1, <3>2, MarkReadyFields
  <2>2. CASE ~MayRetry(w, t)
    BY <1>3, <2>2, FailedFields DEF Applied
  <2>3. QED
    BY <2>1, <2>2
<1>4. QED
  BY <1>1, <1>2, <1>3 DEF Operation

\* The document and every copy under way are without cycles.
GraphInv ==
  /\ stored # None => Acyclic(stored.depends_on)
  /\ \A x \in Thread : call[x] # None /\ call[x].at = "got" => Acyclic(call[x].copy.depends_on)

LEMMA GraphStep ==
  ASSUME Inv, GraphInv, [Next]_vars
  PROVE  GraphInv'
<1> USE DEF Acyclic
<1>1. ASSUME NEW c \in Client, CreateWorkflow(c) PROVE GraphInv'
  <2>1. PICK deps \in Graph, maxRetries \in [Task -> 0 .. MaxRetry] :
          LET w == MarkReady(Created(deps, maxRetries)) IN
          /\ ~CycleDetected(deps) /\ stored' = w
          /\ call' = [call EXCEPT ![c] =
               [at |-> "updated", op |-> "create", task |-> None,
                ready |-> Entered(Created(deps, maxRetries), w, "ready"), ended |-> {}]]
    BY <1>1 DEF CreateWorkflow
  <2> DEFINE v == Created(deps, maxRetries)
  <2>2. v \in Workflows /\ v.depends_on = deps
    BY CreatedConsistent DEF Created
  <2>3. stored' = MarkReady(v)
    BY <2>1
  <2> HIDE DEF v
  <2>4. stored'.depends_on = deps
    BY <2>2, <2>3, MarkReadyFields
  <2>5. Acyclic(deps)
    BY <2>1, KahnIsSound
  <2>6. \A y \in Thread : call'[y] = call[y] \/ call'[y].at = "updated"
    BY <2>1 DEF Inv, TypeOK
  <2>7. QED
    BY <2>4, <2>5, <2>6 DEF GraphInv
<1>2. ASSUME NEW x \in Thread, NEW op, NEW t, Get(x, op, t), UNCHANGED stored PROVE GraphInv'
  <2>1. stored # None /\ call' = [call EXCEPT ![x] = [at |-> "got", op |-> op, task |-> t, copy |-> stored]]
    BY <1>2 DEF Get
  <2>2. \A y \in Thread : call'[y] = call[y] \/ call'[y].copy = stored
    BY <2>1 DEF Inv, TypeOK
  <2>3. QED
    BY <1>2, <2>1, <2>2 DEF GraphInv
<1>3. ASSUME NEW x \in Thread, Update(x) PROVE GraphInv'
  <2> DEFINE k == call[x]
             w == Applied(k.copy, k.op, k.task)
  <2>1. k # None /\ k.at = "got" /\ ~Raises(k.copy, k.op, k.task) /\ stored' = w
    BY <1>3 DEF Update
  <2>2. k \in Got
    <3>1. k \in Got \cup Updated \cup Executing
      BY <2>1 DEF Inv, TypeOK
    <3>2. QED
      BY <2>1, <3>1 DEF Updated, Publishing, Executing
  <2>3. k.copy \in Workflows /\ k.op \in Operation /\ k.task \in Task
    BY <2>2 DEF Got
  <2>4. w.depends_on = k.copy.depends_on
    BY <2>1, <2>3, AppliedKeepsGraph
  <2>5. Acyclic(k.copy.depends_on)
    BY <2>1 DEF GraphInv
  <2>6. \A y \in Thread : call'[y] = call[y] \/ call'[y].at = "updated"
    BY <1>3 DEF Update, Inv, TypeOK
  <2> HIDE DEF k, w
  <2>7. QED
    BY <2>1, <2>4, <2>5, <2>6 DEF GraphInv
<1>4. ASSUME UNCHANGED stored,
             \A y \in Thread : call'[y] = call[y] \/ call'[y] = None \/ call'[y].at # "got"
      PROVE  GraphInv'
  BY <1>4 DEF GraphInv
<1>5. ASSUME NEW x \in Thread, Refuse(x) \/ Publish(x) PROVE GraphInv'
  <2>1. UNCHANGED stored
    BY <1>5 DEF Refuse, Publish
  <2>2. \A y \in Thread : call'[y] = call[y] \/ call'[y] = None \/ call'[y].at # "got"
    BY <1>5 DEF Refuse, Publish, Inv, TypeOK
  <2>3. QED
    BY <1>4, <2>1, <2>2
<1>6. CASE Crash
  BY <1>4, <1>6 DEF Crash
<1>7. CASE UNCHANGED vars
  BY <1>4, <1>7 DEF vars
<1>8. QED
  BY <1>1, <1>2, <1>3, <1>5, <1>6, <1>7 DEF Next, Take, Request, Executed, Thread

\* Every document ever stored is a graph without cycles: create_workflow
\* refuses any other, and no method, however updates overwrite each other,
\* changes a dependency.
THEOREM StoredStaysAcyclic == Spec => []StoredIsAcyclic
<1>1. Init => GraphInv
  BY DEF Init, GraphInv
<1>2. Inv /\ GraphInv /\ [Next]_vars => GraphInv'
  BY GraphStep
<1>3. GraphInv => StoredIsAcyclic
  BY DEF GraphInv, StoredIsAcyclic, Acyclic
<1>4. QED
  BY <1>1, <1>2, <1>3, Invariant, PTL DEF Spec

-----------------------------------------------------------------------------
(* A single writer announces what is stored *)

\* One worker and no API request: the calls that write never overlap.
OneWriter == Requested = {} /\ \A x, y \in Worker : x = y

\* The workflow says of a task what the event does.
Says(w, e) == w # None /\ w.state[e[1]] = e[2]

\* No method takes a task out of a state in which it has ended.
LEMMA AppliedKeepsEnded ==
  ASSUME NEW w \in Workflows, Consistent(w), NEW op \in Operation, NEW t \in Task,
         ~Raises(w, op, t), NEW u \in Task, w.state[u] \in Ended
  PROVE  Applied(w, op, t).state[u] = w.state[u]
<1>1. CASE op = "start"
  <2>1. Applied(w, op, t) = Moved(w, t, "running") /\ w.state[t] = "ready"
    BY <1>1 DEF Applied, Raises, RaisesStart
  <2>2. u # t
    BY <2>1 DEF Ended, Dead
  <2>3. Moved(w, t, "running").state = [w.state EXCEPT ![t] = "running"]
    BY MovedFields DEF TaskState
  <2>4. QED
    BY <2>1, <2>2, <2>3 DEF Workflows
<1>2. ASSUME NEW m \in Workflows, NEW s, m.state = [w.state EXCEPT ![t] = s],
             w.state[t] = "running"
      PROVE  MarkReady(m).state[u] = w.state[u]
  <2>1. u # t
    BY <1>2 DEF Ended, Dead
  <2>2. m.state[u] = w.state[u]
    BY <1>2, <2>1 DEF Workflows
  <2>3. u \notin ReadyTasks(m)
    BY <2>2 DEF ReadyTasks, Ended, Dead
  <2>4. QED
    BY <2>2, <2>3, MarkReadyFields
<1>3. CASE op = "complete"
  <2> DEFINE m == Moved(w, t, "completed")
  <2>1. /\ m \in Workflows /\ m.state = [w.state EXCEPT ![t] = "completed"]
        /\ Applied(w, op, t) = MarkReady(m) /\ w.state[t] = "running"
    BY <1>3, MovedFields DEF TaskState, Applied, Raises, RaisesComplete
  <2> HIDE DEF m
  <2>2. QED
    BY <2>1, <1>2
<1>4. CASE op = "fail" /\ MayRetry(w, t)
  <2> DEFINE m == Retried(w, t)
  <2>1. m \in Workflows /\ m.state = [w.state EXCEPT ![t] = "pending"]
    BY <1>4, RetriedFields
  <2>2. Applied(w, op, t) = MarkReady(m) /\ w.state[t] = "running"
    BY <1>4 DEF Applied, Raises, RaisesFail
  <2> HIDE DEF m
  <2>3. QED
    BY <2>1, <2>2, <1>2
<1>5. CASE op = "fail" /\ ~MayRetry(w, t)
  <2> DEFINE f == Moved(w, t, "failed")
  <2>1. Applied(w, op, t) = Failed(w, t) /\ w.state[t] = "running"
    BY <1>5 DEF Applied, Raises, RaisesFail
  <2>2. u # t
    BY <2>1 DEF Ended, Dead
  <2>3. f.state = [w.state EXCEPT ![t] = "failed"]
    BY MovedFields DEF TaskState
  <2>4. f.state[u] = w.state[u]
    BY <2>2, <2>3 DEF Workflows
  <2>5. u \notin CancelledBy(f)
    BY <2>4 DEF CancelledBy
  <2>6. Failed(w, t).state[u] = IF u \in CancelledBy(f) THEN "cancelled" ELSE f.state[u]
    BY FailedFields
  <2> HIDE DEF f
  <2>7. QED
    BY <2>1, <2>4, <2>5, <2>6
<1>6. QED
  BY <1>1, <1>3, <1>4, <1>5 DEF Operation

\* What was announced and what is about to be is stored, and a copy under way
\* is the worker's and is the document.
AnnouncedInv ==
  /\ \A e \in announced : Says(stored, e)
  /\ \A x \in Thread : call[x] # None /\ call[x].at = "updated" =>
       \A e \in call[x].ended : Says(stored, e)
  /\ \A x \in Thread : call[x] # None /\ call[x].at = "got" =>
       x \in Worker /\ call[x].copy = stored

LEMMA CallTypes ==
  ASSUME Inv, NEW x \in Thread, call[x] # None
  PROVE  /\ call[x].at = "got" => call[x] \in Got
         /\ call[x].at = "updated" => call[x] \in Updated /\ call[x].ended \subseteq Task \X Ended
<1>1. call[x] \in Got \cup Updated \cup Executing
  BY DEF Inv, TypeOK
<1>2. /\ \A k \in Got : k.at = "got"
      /\ \A k \in Updated : k.at = "updated" /\ k.ended \subseteq Task \X Ended
      /\ \A k \in Executing : k.at = "executing"
  BY DEF Got, Updated, Publishing, Executing
<1>3. QED
  BY <1>1, <1>2

\* A worker gets its copy.
LEMMA GetAnnounced ==
  ASSUME Inv, AnnouncedInv, NEW x \in Worker, NEW op, NEW t, Get(x, op, t),
         UNCHANGED <<stored, announced>>
  PROVE  AnnouncedInv'
<1> DEFINE k == [at |-> "got", op |-> op, task |-> t, copy |-> stored]
<1>1. k.at = "got" /\ k.copy = stored /\ call' = [call EXCEPT ![x] = k]
  BY DEF Get
<1> HIDE DEF k
<1>2. \A y \in Thread : call'[y] = IF y = x THEN k ELSE call[y]
  BY <1>1 DEF Inv, TypeOK
<1>3. QED
  BY <1>1, <1>2 DEF AnnouncedInv, Says

LEMMA UpdateAnnounced ==
  ASSUME OneWriter, Inv, AnnouncedInv, NEW x \in Thread, Update(x)
  PROVE  AnnouncedInv'
<1> DEFINE k == call[x]
           w == Applied(k.copy, k.op, k.task)
           u == [at |-> "updated", op |-> k.op, task |-> k.task,
                 ready |-> Entered(k.copy, w, "ready"), ended |-> EndedIn(k.copy, w)]
<1>1. /\ k # None /\ k.at = "got" /\ ~Raises(k.copy, k.op, k.task)
      /\ stored' = w /\ call' = [call EXCEPT ![x] = u] /\ announced' = announced
  BY DEF Update
<1>2. k \in Got /\ Consistent(k.copy) /\ x \in Worker /\ k.copy = stored
  BY <1>1, CallTypes DEF Inv, CopiesConsistent, AnnouncedInv
<1>3. k.copy \in Workflows /\ k.op \in Operation /\ k.task \in Task
  BY <1>2 DEF Got
<1>4. w \in Workflows
  BY <1>1, <1>2, <1>3, AppliedConsistent
<1>5. w # None
  BY <1>4, NoWorkflowAssumption
<1>6. \A e \in Task \X Ended : Says(stored, e) => Says(w, e)
  <2> SUFFICES ASSUME NEW e \in Task \X Ended, Says(stored, e) PROVE Says(w, e)
    OBVIOUS
  <2>1. e[1] \in Task /\ k.copy.state[e[1]] = e[2] /\ k.copy.state[e[1]] \in Ended
    BY <1>2 DEF Says
  <2>2. w.state[e[1]] = k.copy.state[e[1]]
    BY <2>1, <1>1, <1>2, <1>3, AppliedKeepsEnded
  <2>3. QED
    BY <2>1, <2>2, <1>5 DEF Says
<1>7. \A e \in EndedIn(k.copy, w) : Says(w, e)
  BY <1>5 DEF EndedIn, Entered, Says
<1>8. u.at = "updated" /\ u.ended = EndedIn(k.copy, w)
  OBVIOUS
<1> HIDE DEF k, w, u
<1>9. \A y \in Thread : call'[y] = IF y = x THEN u ELSE call[y]
  BY <1>1 DEF Inv, TypeOK
<1>10. \A e \in announced' : Says(stored', e)
  BY <1>1, <1>6 DEF AnnouncedInv, Inv, TypeOK
<1>11. ASSUME NEW y \in Thread, call'[y] # None, call'[y].at = "updated"
       PROVE  \A e \in call'[y].ended : Says(stored', e)
  <2>1. CASE y = x
    BY <2>1, <1>1, <1>7, <1>8, <1>9
  <2>2. CASE y # x
    <3>1. call[y] # None /\ call[y].at = "updated" /\ call'[y] = call[y]
      BY <2>2, <1>9, <1>11
    <3>2. call[y].ended \subseteq Task \X Ended
      BY <3>1, CallTypes
    <3>3. QED
      BY <3>1, <3>2, <1>1, <1>6 DEF AnnouncedInv
  <2>3. QED
    BY <2>1, <2>2
<1>12. ASSUME NEW y \in Thread, call'[y] # None, call'[y].at = "got"
       PROVE  FALSE
  <2>1. y # x
    BY <1>8, <1>9, <1>12
  <2>2. call[y] # None /\ call[y].at = "got"
    BY <2>1, <1>9, <1>12
  <2>3. y \in Worker
    BY <2>2 DEF AnnouncedInv
  <2>4. QED
    BY <2>1, <2>3, <1>2 DEF OneWriter
<1>13. QED
  BY <1>10, <1>11, <1>12 DEF AnnouncedInv, Says

LEMMA CreateAnnounced ==
  ASSUME Inv, AnnouncedInv, NEW c \in Client, CreateWorkflow(c)
  PROVE  AnnouncedInv'
<1>1. PICK k : /\ k.at = "updated" /\ k.ended = {} /\ call' = [call EXCEPT ![c] = k]
               /\ stored = None /\ announced' = announced
  BY DEF CreateWorkflow
<1>2. c \in Thread /\ \A y \in Thread : call'[y] = IF y = c THEN k ELSE call[y]
  BY <1>1 DEF Inv, TypeOK, Thread
<1>3. announced' = {}
  BY <1>1 DEF AnnouncedInv, Says
<1>4. ASSUME NEW y \in Thread, call'[y] # None, call'[y].at = "updated"
      PROVE  call'[y].ended = {}
  BY <1>1, <1>2, <1>4 DEF AnnouncedInv, Says
<1>5. ASSUME NEW y \in Thread, call'[y] # None, call'[y].at = "got"
      PROVE  FALSE
  <2>1. call[y] # None /\ call[y].at = "got"
    BY <1>1, <1>2, <1>5
  <2>2. call[y].copy = None /\ call[y] \in Got
    BY <2>1, <1>1, CallTypes DEF AnnouncedInv
  <2>3. QED
    BY <2>2, NoWorkflowAssumption DEF Got
<1>6. QED
  BY <1>3, <1>4, <1>5 DEF AnnouncedInv

LEMMA AnnouncedStep ==
  ASSUME OneWriter, Inv, AnnouncedInv, [Next]_vars
  PROVE  AnnouncedInv'
<1>1. ASSUME NEW c \in Client, CreateWorkflow(c) PROVE AnnouncedInv'
  BY <1>1, CreateAnnounced
<1>2. ASSUME NEW x \in Worker, NEW t \in Task, Take(x, t) PROVE AnnouncedInv'
  BY <1>2, GetAnnounced DEF Take
<1>3. ASSUME NEW c \in Client, NEW op \in Requested, NEW t \in Task, Request(c, op, t)
      PROVE  AnnouncedInv'
  BY <1>3 DEF OneWriter
<1>4. ASSUME NEW x \in Worker, NEW op \in {"complete", "fail"}, Executed(x, op)
      PROVE  AnnouncedInv'
  BY <1>4, GetAnnounced DEF Executed
<1>5. ASSUME NEW x \in Thread, Refuse(x) PROVE AnnouncedInv'
  <2>1. call' = [call EXCEPT ![x] = None] /\ UNCHANGED <<stored, announced>>
    BY <1>5 DEF Refuse
  <2>2. \A y \in Thread : call'[y] # None => call'[y] = call[y]
    BY <2>1 DEF Inv, TypeOK
  <2>3. QED
    BY <2>1, <2>2 DEF AnnouncedInv, Says
<1>6. ASSUME NEW x \in Thread, Update(x) PROVE AnnouncedInv'
  BY <1>6, UpdateAnnounced
<1>7. ASSUME NEW x \in Thread, Publish(x) PROVE AnnouncedInv'
  <2> DEFINE n == IF x \in Worker /\ call[x].op = "start"
                    THEN [at |-> "executing", task |-> call[x].task] ELSE None
  <2>1. /\ call[x] # None /\ call[x].at = "updated" /\ call' = [call EXCEPT ![x] = n]
        /\ announced' = announced \cup call[x].ended /\ UNCHANGED stored
    BY <1>7 DEF Publish
  <2>2. n # None => n.at = "executing"
    OBVIOUS
  <2> HIDE DEF n
  <2>3. \A y \in Thread : call'[y] # None /\ call'[y].at # "executing" => call'[y] = call[y]
    BY <2>1, <2>2 DEF Inv, TypeOK
  <2>4. \A e \in announced' : Says(stored', e)
    BY <2>1 DEF AnnouncedInv
  <2>5. QED
    BY <2>1, <2>3, <2>4 DEF AnnouncedInv, Says
<1>8. CASE Crash
  <2>1. call' = [x \in Thread |-> None] /\ UNCHANGED <<stored, announced>>
    BY <1>8 DEF Crash
  <2>2. QED
    BY <2>1 DEF AnnouncedInv, Says
<1>9. CASE UNCHANGED vars
  BY <1>9 DEF vars, AnnouncedInv, Says
<1>10. QED
  BY <1>1, <1>2, <1>3, <1>4, <1>5, <1>6, <1>7, <1>8, <1>9 DEF Next

\* With one worker and no API requests, a task announced as completed, failed
\* or cancelled is so in the repository, through retries, cascades and crashes:
\* persisting before publishing suffices as long as no two writes overlap.
THEOREM OneWriterAnnouncesWhatIsStored == OneWriter => (Spec => []AnnouncedIsStored)
<1> SUFFICES ASSUME OneWriter PROVE Spec => []AnnouncedIsStored
  OBVIOUS
<1>1. Init => AnnouncedInv
  BY DEF Init, AnnouncedInv
<1>2. Inv /\ AnnouncedInv /\ [Next]_vars => AnnouncedInv'
  BY AnnouncedStep
<1>3. AnnouncedInv => AnnouncedIsStored
  BY DEF AnnouncedInv, AnnouncedIsStored, Says
<1>4. QED
  BY <1>1, <1>2, <1>3, Invariant, PTL DEF Spec
-----------------------------------------------------------------------------
(* ClusterState *)

ClusterShape ==
  /\ agreed \in Seq(Command) /\ entries \in [Member -> Seq(Command)]
  /\ base \in [Member -> Nat] /\ commit \in [Member -> Nat]
  /\ work \in [Member -> Maybe(Work)] /\ leader \in Maybe(Member)
  /\ reign \in Nat /\ now \in 0 .. MaxNow

\* The first k commands of l are the agreed ones.
HoldsUpTo(l, k) ==
  k <= Len(l) /\ k <= Len(agreed) /\ \A m \in 1 .. k : l[m] = agreed[m]

\* What is committed is agreed, and the leader holds all of that.
LogsAgreed ==
  /\ \A i \in Member : base[i] <= commit[i] /\ HoldsUpTo(entries[i], commit[i])
  /\ leader # None => HoldsUpTo(entries[leader], Len(agreed)) /\ reign # 0

\* In the reign of the proposal the command a coordinator waits for is where it put it.
Proposed(i) ==
  LET w == work[i]
  IN  /\ w.index \in 1 .. Len(entries[i])
      /\ w.phase \in {"acquiring", "running"} =>
           \E until \in Instant : entries[i][w.index] = Assign(w.task, i, until)
      /\ w.phase \in {"completing", "exposed"} => entries[i][w.index] = Complete(w.task)
      /\ w.phase \in {"running", "exposed"} => w.index <= commit[i]

WorkProposed ==
  \A i \in Member : work[i] # None =>
    work[i].reign <= reign /\ (leader = i /\ work[i].reign = reign => Proposed(i))

ClusterInv == ClusterShape /\ LogsAgreed /\ WorkProposed

\* A snapshot on its way is of agreed commands, and for another than the leader.
SnapshotsFollow ==
  \A m \in snapshots : /\ m.to \in Member /\ m.to # leader
                       /\ m.base \in Nat /\ m.base # 0 /\ m.base <= Len(agreed)

LEMMA ClusterInitially == ClusterInit => ClusterInv
<1> SUFFICES ASSUME ClusterInit PROVE ClusterInv
  OBVIOUS
<1>1. agreed = <<>> /\ agreed \in Seq(Command) /\ Len(agreed) = 0
  BY EmptySeq DEF ClusterInit
<1>2. entries \in [Member -> Seq(Command)] /\ \A i \in Member : entries[i] = <<>> /\ Len(entries[i]) = 0
  BY EmptySeq DEF ClusterInit
<1>3. ClusterShape
  BY <1>1, <1>2, ClusterAssumption DEF ClusterInit, ClusterShape, Maybe
<1>4. LogsAgreed /\ WorkProposed
  BY <1>1, <1>2 DEF ClusterInit, LogsAgreed, WorkProposed, HoldsUpTo
<1>5. QED
  BY <1>3, <1>4 DEF ClusterInv

LEMMA PrefixElements ==
  ASSUME NEW s \in Seq(Command), NEW l \in Seq(Command), IsPrefix(s, l)
  PROVE  Len(s) <= Len(l) /\ \A k \in 1 .. Len(s) : s[k] = l[k]
<1>1. Len(s) \in Nat /\ Len(l) \in Nat /\ Len(s) <= Len(l) /\ SubSeq(s, 1, Len(s)) = SubSeq(l, 1, Len(s))
  BY DEF IsPrefix
<1>2. \A k \in 1 .. Len(s) : SubSeq(s, 1, Len(s))[k] = s[k] /\ SubSeq(l, 1, Len(s))[k] = l[k]
  BY <1>1
<1>3. QED
  BY <1>1, <1>2

\* The commands a leader requeues tasks with are a sequence.
LEMMA RequeuesAreCommands ==
  ASSUME NEW tasks \in SUBSET TaskId
  PROVE  SetToSeq({Requeue(t) : t \in tasks}) \in Seq(Command)
<1> DEFINE S == {Requeue(t) : t \in tasks}
<1>1. IsFiniteSet(tasks)
  BY ClusterAssumption, FS_Subset
<1>2. IsFiniteSet(S)
  <2> DEFINE f == [t \in tasks |-> Requeue(t)]
  <2>1. f \in Surjection(tasks, S)
    BY DEF Surjection
  <2> HIDE DEF f, S
  <2>2. QED
    BY <1>1, <2>1, FS_Surjection
<1>3. S \subseteq Command
  BY DEF Command
<1> HIDE DEF S
<1>4. PICK n \in Nat : ExistsBijection(1 .. n, S)
  BY <1>2, FS_NatBijection
<1>5. Cardinality(S) = n
  BY <1>2, <1>4, FS_CountingElements
<1>6. \E f \in [1 .. Cardinality(S) -> S] : IsInjective(f)
  BY <1>4, <1>5 DEF ExistsBijection, Bijection, Injection, IsInjective
<1>7. SetToSeq(S) \in [1 .. n -> S]
  BY <1>5, <1>6 DEF SetToSeq
<1>8. QED
  BY <1>3, <1>4, <1>7 DEF S

\* The logs after a step that gives member j the log l and the commit index c.
LEMMA FollowerStep ==
  ASSUME ClusterInv, NEW j \in Member, leader # j,
         NEW l \in Seq(Command), NEW c \in Nat, NEW b \in Nat, b <= c, HoldsUpTo(l, c),
         entries' = [entries EXCEPT ![j] = l], commit' = [commit EXCEPT ![j] = c],
         base' = [base EXCEPT ![j] = b],
         UNCHANGED <<agreed, leader, reign, work, now>>
  PROVE  ClusterInv'
<1>1. ClusterShape'
  BY DEF ClusterInv, ClusterShape
<1>2. \A i \in Member : i # j => /\ entries'[i] = entries[i] /\ commit'[i] = commit[i]
                                 /\ base'[i] = base[i]
  BY DEF ClusterInv, ClusterShape
<1>3. entries'[j] = l /\ commit'[j] = c /\ base'[j] = b
  BY DEF ClusterInv, ClusterShape
<1>4. LogsAgreed'
  BY <1>2, <1>3 DEF ClusterInv, ClusterShape, Maybe, LogsAgreed, HoldsUpTo
<1>5. WorkProposed'
  BY <1>2 DEF ClusterInv, WorkProposed, Proposed
<1>6. QED
  BY <1>1, <1>4, <1>5 DEF ClusterInv

LEMMA ReplicateStep ==
  ASSUME ClusterInv, NEW j \in Member, Replicate(j)
  PROVE  ClusterInv'
<1> DEFINE i == leader
           l == IF IsPrefix(entries[i], entries[j]) THEN entries[j] ELSE entries[i]
           c == IF commit[i] > commit[j] THEN commit[i] ELSE commit[j]
<1>1. /\ i \in Member /\ i # j /\ i # None /\ agreed \in Seq(Command)
      /\ entries[i] \in Seq(Command) /\ entries[j] \in Seq(Command)
      /\ commit[i] \in Nat /\ commit[j] \in Nat /\ base[j] \in Nat
  BY DEF Replicate, ClusterInv, ClusterShape, Maybe
<1>2. /\ entries' = [entries EXCEPT ![j] = l] /\ UNCHANGED <<agreed, leader, reign, base, work, now>>
  BY DEF Replicate
<1>3. commit' = [commit EXCEPT ![j] = c] /\ base' = [base EXCEPT ![j] = base[j]]
  BY <1>1, <1>2 DEF Replicate, HandOver, ClusterInv, ClusterShape
<1>4. HoldsUpTo(entries[i], Len(agreed)) /\ HoldsUpTo(entries[i], commit[i])
      /\ HoldsUpTo(entries[j], commit[j]) /\ base[j] <= commit[j]
  BY <1>1 DEF ClusterInv, LogsAgreed
<1>5. l \in Seq(Command) /\ c \in Nat /\ base[j] <= c
  BY <1>1, <1>4
<1>6. HoldsUpTo(l, c)
  <2>1. CASE IsPrefix(entries[i], entries[j])
    <3>1. l = entries[j] /\ Len(entries[i]) <= Len(l) /\ \A k \in 1 .. Len(entries[i]) : entries[i][k] = l[k]
      BY <1>1, <2>1, PrefixElements
    <3>2. QED
      BY <1>1, <1>4, <3>1 DEF HoldsUpTo
  <2>2. CASE ~IsPrefix(entries[i], entries[j])
    <3>1. l = entries[i] /\ c <= Len(agreed)
      BY <1>4, <2>2 DEF HoldsUpTo
    <3>2. QED
      BY <1>1, <1>4, <1>5, <3>1 DEF HoldsUpTo
  <2>3. QED
    BY <2>1, <2>2
<1> HIDE DEF l, c
<1>7. QED
  BY <1>1, <1>2, <1>3, <1>5, <1>6, FollowerStep

\* The log q after a snapshot of the log p up to b.
Splice(p, q, b) == SubSeq(p, 1, b) \o SubSeq(q, b + 1, Len(q))

LEMMA Spliced ==
  ASSUME NEW p \in Seq(Command), NEW q \in Seq(Command), NEW b \in Nat, b <= Len(p),
         NEW l, l = Splice(p, q, b)
  PROVE  /\ l \in Seq(Command) /\ Len(l) = IF b < Len(q) THEN Len(q) ELSE b
         /\ \A k \in 1 .. b : l[k] = p[k]
         /\ \A k \in b + 1 .. Len(q) : l[k] = q[k]
<1> DEFINE s == SubSeq(p, 1, b)
           r == SubSeq(q, b + 1, Len(q))
<1>1. Len(p) \in Nat /\ Len(q) \in Nat
  BY LenProperties
<1>2. s \in Seq(Command) /\ Len(s) = b /\ \A k \in 1 .. b : s[k] = p[k]
  BY <1>1
<1>3. r \in Seq(Command)
  <2>1. \A k \in b + 1 .. Len(q) : q[k] \in Command
    BY <1>1, ElementOfSeq
  <2>2. QED
    BY <1>1, <2>1, SubSeqProperties
<1>4. /\ Len(r) = IF b + 1 <= Len(q) THEN Len(q) - (b + 1) + 1 ELSE 0
      /\ \A k \in 1 .. Len(q) - (b + 1) + 1 : r[k] = q[b + 1 + k - 1]
  <2>1. \A k \in b + 1 .. Len(q) : q[k] \in Command
    BY <1>1, ElementOfSeq
  <2>2. QED
    BY <1>1, <2>1, SubSeqProperties
<1> HIDE DEF s, r
<1>5. /\ s \o r \in Seq(Command) /\ Len(s \o r) = Len(s) + Len(r)
      /\ \A k \in 1 .. Len(s) + Len(r) : (s \o r)[k] = IF k <= Len(s) THEN s[k] ELSE r[k - Len(s)]
  BY <1>2, <1>3, ConcatProperties
<1>6. l = s \o r
  BY DEF s, r, Splice
<1>7. Len(l) = IF b < Len(q) THEN Len(q) ELSE b
  <2>1. Len(l) = b + Len(r)
    BY <1>2, <1>5, <1>6
  <2>2. CASE b < Len(q)
    <3>1. Len(r) = Len(q) - b
      BY <1>1, <1>4, <2>2
    <3>2. QED
      BY <1>1, <2>1, <2>2, <3>1
  <2>3. CASE ~(b < Len(q))
    <3>1. Len(r) = 0
      BY <1>1, <1>4, <2>3
    <3>2. QED
      BY <2>1, <2>3, <3>1
  <2>4. QED
    BY <2>2, <2>3
<1>8. ASSUME NEW k \in 1 .. b PROVE l[k] = p[k]
  <2>1. Len(r) \in Nat
    BY <1>3, LenProperties
  <2>2. k \in 1 .. Len(s) + Len(r) /\ k <= Len(s)
    BY <1>2, <2>1
  <2>3. l[k] = s[k]
    BY <1>5, <1>6, <2>2
  <2>4. QED
    BY <1>2, <2>3
<1>9. ASSUME NEW k \in b + 1 .. Len(q) PROVE l[k] = q[k]
  <2>1. /\ k \in 1 .. Len(s) + Len(r) /\ ~(k <= Len(s)) /\ k - b \in 1 .. Len(q) - (b + 1) + 1
        /\ b + 1 + (k - b) - 1 = k
    BY <1>1, <1>2, <1>4
  <2>2. l[k] = r[k - b]
    BY <1>2, <1>5, <1>6, <2>1
  <2>3. QED
    BY <1>4, <2>1, <2>2
<1>10. QED
  BY <1>5, <1>6, <1>7, <1>8, <1>9

LEMMA InstallSnapshotStep ==
  ASSUME ClusterInv, SnapshotsFollow, NEW m \in snapshots, InstallSnapshot(m)
  PROVE  ClusterInv'
<1> DEFINE j == m.to
           b == m.base
           l == Rebased(j, b)
           c == IF commit[j] < b THEN b ELSE commit[j]
<1>1. /\ j \in Member /\ j # leader /\ b \in Nat /\ b <= Len(agreed)
      /\ UNCHANGED <<agreed, leader, reign, work, now>>
      /\ Install(m, j, m.data) \/ UNCHANGED <<entries, base, commit>>
  BY DEF InstallSnapshot, SnapshotsFollow, Follow, HaveThisOrNewer, onDisk
<1>2. CASE UNCHANGED <<entries, base, commit>>
  BY <1>1, <1>2 DEF ClusterInv, ClusterShape, LogsAgreed, WorkProposed, HoldsUpTo, Proposed
<1>3. CASE Install(m, j, m.data)
  <2>1. /\ entries' = [entries EXCEPT ![j] = l] /\ base' = [base EXCEPT ![j] = b]
        /\ commit' = [commit EXCEPT ![j] = c]
    BY <1>3 DEF Install
  <2>2. agreed \in Seq(Command) /\ entries[j] \in Seq(Command) /\ commit[j] \in Nat
    BY <1>1 DEF ClusterInv, ClusterShape
  <2>3. Len(entries[j]) \in Nat /\ Len(agreed) \in Nat
    BY <2>2, LenProperties
  <2>4. HoldsUpTo(entries[j], commit[j])
    BY <1>1 DEF ClusterInv, LogsAgreed
  <2>5. /\ l \in Seq(Command) /\ Len(l) = IF b < Len(entries[j]) THEN Len(entries[j]) ELSE b
        /\ \A k \in 1 .. b : l[k] = agreed[k]
        /\ \A k \in b + 1 .. Len(entries[j]) : l[k] = entries[j][k]
    <3>1. l = Splice(agreed, entries[j], b)
      BY DEF Splice, Rebased
    <3> HIDE DEF l, b
    <3>2. QED
      BY <1>1, <2>2, <3>1, Spliced
  <2> HIDE DEF l
  <2>6. c \in Nat /\ b <= c
    BY <1>1, <2>2
  <2>7. HoldsUpTo(l, c)
    <3>1. c <= Len(agreed) /\ c <= Len(l)
      BY <1>1, <2>2, <2>3, <2>4, <2>5 DEF HoldsUpTo
    <3>2. ASSUME NEW k \in 1 .. c, k <= b PROVE l[k] = agreed[k]
      BY <1>1, <2>5, <3>2
    <3>3. ASSUME NEW k \in 1 .. c, k > b PROVE l[k] = agreed[k]
      <4>1. k \in 1 .. commit[j] /\ k \in b + 1 .. Len(entries[j])
        BY <1>1, <2>2, <2>3, <2>4, <3>3 DEF HoldsUpTo
      <4>2. QED
        BY <2>4, <2>5, <4>1 DEF HoldsUpTo
    <3>4. \A k \in 1 .. c : k <= b \/ k > b
      BY <1>1
    <3>5. QED
      BY <3>1, <3>2, <3>3, <3>4 DEF HoldsUpTo
  <2> HIDE DEF c, b, j
  <2>8. QED
    BY <1>1, <2>1, <2>5, <2>6, <2>7, FollowerStep
<1>4. QED
  BY <1>1, <1>2, <1>3

\* The leader commits: what is agreed grows along its log.
LEMMA CommitStep ==
  ASSUME ClusterInv, NEW i \in Member, NEW k \in Nat, Commit(i, k)
  PROVE  ClusterInv'
<1> DEFINE l == entries[i]
<1>1. /\ leader = i /\ commit[i] < k /\ k <= Len(l) /\ commit' = [commit EXCEPT ![i] = k]
      /\ agreed' = IF k > Len(agreed) THEN SubSeq(l, 1, k) ELSE agreed
      /\ UNCHANGED <<leader, reign, entries, base, work, now>>
  BY DEF Commit, HandOver
<1>2. ClusterShape /\ l \in Seq(Command) /\ agreed \in Seq(Command) /\ i # None
      /\ Len(l) \in Nat /\ Len(agreed) \in Nat /\ commit[i] \in Nat /\ base[i] \in Nat
  BY ClusterAssumption DEF ClusterInv, ClusterShape
<1>3. HoldsUpTo(l, Len(agreed))
  BY <1>1, <1>2 DEF ClusterInv, LogsAgreed
<1>4. /\ agreed' \in Seq(Command) /\ Len(agreed) <= Len(agreed') /\ k <= Len(agreed')
      /\ Len(agreed') \in Nat /\ Len(agreed') <= Len(l)
      /\ \A m \in 1 .. Len(agreed') : agreed'[m] = l[m]
  BY <1>1, <1>2, <1>3 DEF HoldsUpTo
<1>5. \A m \in 1 .. Len(agreed) : agreed'[m] = agreed[m]
  BY <1>2, <1>3, <1>4 DEF HoldsUpTo
<1>6. \A x \in Member : commit'[x] = IF x = i THEN k ELSE commit[x]
  BY <1>1, <1>2 DEF ClusterShape
<1>7. ClusterShape'
  BY <1>1, <1>2, <1>4 DEF ClusterShape
<1>8. LogsAgreed'
  <2>1. HoldsUpTo(entries[i], Len(agreed))' /\ HoldsUpTo(entries[i], commit[i])' /\ base'[i] <= commit'[i]
    BY <1>1, <1>2, <1>4, <1>6 DEF HoldsUpTo, ClusterInv, LogsAgreed
  <2>2. \A x \in Member \ {i} : HoldsUpTo(entries[x], commit[x])' /\ base'[x] <= commit'[x]
    <3> SUFFICES ASSUME NEW x \in Member, x # i
                 PROVE  HoldsUpTo(entries[x], commit[x])' /\ base'[x] <= commit'[x]
      OBVIOUS
    <3>1. HoldsUpTo(entries[x], commit[x]) /\ base[x] <= commit[x] /\ commit[x] \in Nat
      BY <1>2 DEF ClusterInv, LogsAgreed, ClusterShape
    <3>2. QED
      BY <1>1, <1>2, <1>4, <1>5, <1>6, <3>1 DEF HoldsUpTo
  <2>3. QED
    BY <1>1, <2>1, <2>2 DEF ClusterInv, LogsAgreed
<1>9. WorkProposed'
  <2> SUFFICES ASSUME NEW x \in Member, work[x] # None, leader = x, work[x].reign = reign
               PROVE  Proposed(x)'
    BY <1>1 DEF ClusterInv, WorkProposed
  <2>1. x = i /\ Proposed(x) /\ work[x] \in Work
    BY <1>1, <1>2 DEF ClusterInv, WorkProposed, ClusterShape, Maybe
  <2>2. work[x].index \in Nat /\ (work[x].index <= commit[x] => work[x].index <= k)
    BY <1>1, <1>2, <2>1 DEF Work
  <2>3. QED
    BY <1>1, <1>6, <2>1, <2>2 DEF Proposed
<1>10. QED
  BY <1>7, <1>8, <1>9 DEF ClusterInv

\* The winner of an election holds all that is agreed; no wait of before belongs to its reign.
LEMMA ElectStep ==
  ASSUME ClusterInv, NEW i \in Member, Elect(i)
  PROVE  ClusterInv'
<1>1. /\ IsPrefix(agreed, entries[i]) /\ leader' = i /\ reign' = reign + 1
      /\ UNCHANGED <<agreed, entries, base, commit, work, now>>
  BY DEF Elect, onDisk
<1>2. ClusterShape /\ agreed \in Seq(Command) /\ entries[i] \in Seq(Command) /\ reign \in Nat
      /\ i # None
  BY ClusterAssumption DEF ClusterInv, ClusterShape
<1>3. Len(agreed) <= Len(entries[i]) /\ \A k \in 1 .. Len(agreed) : agreed[k] = entries[i][k]
  BY <1>1, <1>2, PrefixElements
<1>4. ClusterShape'
  BY <1>1, <1>2 DEF ClusterShape, Maybe
<1>5. LogsAgreed'
  BY <1>1, <1>2, <1>3 DEF ClusterInv, LogsAgreed, HoldsUpTo
<1>6. WorkProposed'
  <2> SUFFICES ASSUME NEW x \in Member, work[x] # None
               PROVE  work[x].reign <= reign' /\ work[x].reign # reign'
    BY <1>1 DEF WorkProposed
  <2>1. work[x].reign <= reign /\ work[x].reign \in Nat
    BY <1>2 DEF ClusterInv, WorkProposed, ClusterShape, Maybe, Work
  <2>2. QED
    BY <1>1, <1>2, <2>1
<1>7. QED
  BY <1>4, <1>5, <1>6 DEF ClusterInv

LEMMA CompactLogStep ==
  ASSUME ClusterInv, NEW i \in Member, NEW k \in Nat, CompactLog(i, k)
  PROVE  ClusterInv'
<1>1. /\ k <= commit[i] /\ base' = [base EXCEPT ![i] = k]
      /\ UNCHANGED <<agreed, leader, reign, entries, commit, work, now>>
  BY DEF CompactLog
<1>2. ClusterShape'
  BY <1>1 DEF ClusterInv, ClusterShape
<1>3. LogsAgreed'
  BY <1>1 DEF ClusterInv, ClusterShape, LogsAgreed, HoldsUpTo
<1>4. WorkProposed'
  BY <1>1 DEF ClusterInv, WorkProposed, Proposed
<1>5. QED
  BY <1>2, <1>3, <1>4 DEF ClusterInv

\* The wait of member i ends, and perhaps its reign.
LEMMA AbandonStep ==
  ASSUME ClusterInv, NEW i \in Member, work' = [work EXCEPT ![i] = None],
         leader' \in {leader, None}, UNCHANGED <<agreed, reign, entries, base, commit, now>>
  PROVE  ClusterInv'
<1>1. ClusterShape'
  BY DEF ClusterInv, ClusterShape, Maybe
<1>2. LogsAgreed'
  BY DEF ClusterInv, LogsAgreed, HoldsUpTo
<1>3. WorkProposed'
  <2> SUFFICES ASSUME NEW x \in Member, work'[x] # None
               PROVE  work'[x].reign <= reign
                      /\ (leader' = x /\ work'[x].reign = reign => Proposed(x)')
    BY DEF WorkProposed
  <2>1. x # i /\ work'[x] = work[x]
    BY DEF ClusterInv, ClusterShape
  <2>2. leader' = x => leader = x
    BY ClusterAssumption
  <2>3. QED
    BY <2>1, <2>2 DEF ClusterInv, WorkProposed, Proposed
<1>4. QED
  BY <1>1, <1>2, <1>3 DEF ClusterInv

\* A member appends what it proposes.
LEMMA AppendStep ==
  ASSUME ClusterInv, NEW i \in Member, NEW cs \in Seq(Command), ProposeAll(i, cs)
  PROVE  /\ entries' \in [Member -> Seq(Command)] /\ LogsAgreed'
         /\ \A x \in Member : x # i => entries'[x] = entries[x]
         /\ Len(entries'[i]) = Len(entries[i]) + Len(cs)
         /\ \A k \in 1 .. Len(entries[i]) : entries'[i][k] = entries[i][k]
         /\ \A k \in 1 .. Len(cs) : entries'[i][Len(entries[i]) + k] = cs[k]
<1> DEFINE l == entries[i]
<1>1. /\ entries' = [entries EXCEPT ![i] = l \o cs]
      /\ UNCHANGED <<agreed, leader, reign, base, commit, now>>
  BY DEF ProposeAll
<1>2. l \in Seq(Command) /\ entries \in [Member -> Seq(Command)] /\ agreed \in Seq(Command)
      /\ Len(l) \in Nat /\ Len(cs) \in Nat /\ Len(agreed) \in Nat /\ commit \in [Member -> Nat]
  BY LenProperties DEF ClusterInv, ClusterShape
<1>3. /\ l \o cs \in Seq(Command) /\ Len(l \o cs) = Len(l) + Len(cs)
      /\ \A k \in 1 .. Len(l) + Len(cs) : (l \o cs)[k] = IF k <= Len(l) THEN l[k] ELSE cs[k - Len(l)]
  BY <1>2, ConcatProperties
<1>4. entries'[i] = l \o cs /\ \A x \in Member : x # i => entries'[x] = entries[x]
  BY <1>1, <1>2
<1>5. ASSUME NEW k \in 1 .. Len(l) PROVE entries'[i][k] = l[k]
  <2>1. k \in 1 .. Len(l) + Len(cs) /\ k <= Len(l)
    BY <1>2
  <2>2. QED
    BY <1>3, <1>4, <2>1
<1>6. ASSUME NEW k \in 1 .. Len(cs) PROVE entries'[i][Len(l) + k] = cs[k]
  <2>1. Len(l) + k \in 1 .. Len(l) + Len(cs) /\ ~(Len(l) + k <= Len(l)) /\ (Len(l) + k) - Len(l) = k
    BY <1>2
  <2>2. QED
    BY <1>3, <1>4, <2>1
<1>7. entries' \in [Member -> Seq(Command)]
  BY <1>1, <1>2, <1>3
<1>8. ASSUME NEW c \in Nat, HoldsUpTo(l, c) PROVE HoldsUpTo(entries'[i], c)
  BY <1>2, <1>3, <1>4, <1>5, <1>8 DEF HoldsUpTo
<1>9. LogsAgreed'
  <2>1. ASSUME NEW x \in Member PROVE base'[x] <= commit'[x] /\ HoldsUpTo(entries[x], commit[x])'
    <3>1. base[x] <= commit[x] /\ HoldsUpTo(entries[x], commit[x]) /\ commit[x] \in Nat
      BY <1>2 DEF ClusterInv, LogsAgreed
    <3>2. HoldsUpTo(entries'[x], commit[x])
      BY <1>4, <1>8, <3>1
    <3>3. QED
      BY <1>1, <3>1, <3>2 DEF HoldsUpTo
  <2>2. ASSUME leader # None PROVE HoldsUpTo(entries'[leader], Len(agreed)) /\ reign # 0
    <3>1. leader \in Member /\ HoldsUpTo(entries[leader], Len(agreed)) /\ reign # 0
      BY <2>2 DEF ClusterInv, LogsAgreed, ClusterShape, Maybe
    <3>2. QED
      BY <1>2, <1>4, <1>8, <3>1
  <2>3. QED
    BY <1>1, <2>1, <2>2 DEF LogsAgreed, HoldsUpTo
<1>10. QED
  BY <1>3, <1>4, <1>5, <1>6, <1>7, <1>9

\* What a coordinator waits for stays where it is while commands are appended.
LEMMA WaitsOutlastAppends ==
  ASSUME ClusterInv, NEW i \in Member, NEW cs \in Seq(Command), ProposeAll(i, cs),
         NEW x \in Member, Proposed(x), work'[x] = work[x]
  PROVE  Proposed(x)'
<1>1. UNCHANGED commit /\ Len(entries[x]) \in Nat /\ Len(cs) \in Nat
  BY LenProperties DEF ProposeAll, ClusterInv, ClusterShape
<1>2. Len(entries[x]) <= Len(entries'[x])
      /\ \A k \in 1 .. Len(entries[x]) : entries'[x][k] = entries[x][k]
  BY <1>1, AppendStep
<1>3. Len(entries'[x]) \in Nat
  BY AppendStep, LenProperties
<1>4. work[x].index \in 1 .. Len(entries[x]) /\ entries'[x][work[x].index] = entries[x][work[x].index]
      /\ work'[x].index \in 1 .. Len(entries'[x])
  BY <1>1, <1>2, <1>3 DEF Proposed
<1>5. QED
  BY <1>1, <1>4 DEF Proposed

\* Proposals nothing waits for.
LEMMA ProposeStep ==
  ASSUME ClusterInv, NEW i \in Member, NEW cs \in Seq(Command), ProposeAll(i, cs), UNCHANGED work
  PROVE  ClusterInv'
<1>1. UNCHANGED <<agreed, leader, reign, base, commit, now>>
  BY DEF ProposeAll
<1>2. entries' \in [Member -> Seq(Command)] /\ LogsAgreed'
  BY AppendStep
<1>3. ClusterShape'
  BY <1>1, <1>2 DEF ClusterInv, ClusterShape
<1>4. ASSUME NEW x \in Member, Proposed(x) PROVE Proposed(x)'
  BY <1>4, WaitsOutlastAppends
<1>5. WorkProposed'
  BY <1>1, <1>4 DEF ClusterInv, WorkProposed
<1>6. QED
  BY <1>2, <1>3, <1>5 DEF ClusterInv

\* A proposal a coordinator waits for.
LEMMA WaitStep ==
  ASSUME ClusterInv, NEW i \in Member, NEW c \in Command, ProposeOne(i, c),
         NEW t \in TaskId, NEW phase \in {"acquiring", "completing"}, WaitFor(i, phase, t),
         phase = "acquiring" => \E until \in Instant : c = Assign(t, i, until),
         phase = "completing" => c = Complete(t)
  PROVE  ClusterInv'
<1> DEFINE w == [phase |-> phase, task |-> t, index |-> Len(entries[i]) + 1,
                 reign |-> IF leader = i THEN reign ELSE 0]
<1>1. ProposeAll(i, <<c>>) /\ <<c>> \in Seq(Command) /\ Len(<<c>>) = 1 /\ <<c>>[1] = c
  BY DEF ProposeOne
<1>2. UNCHANGED <<agreed, leader, reign, base, commit, now>>
  BY <1>1 DEF ProposeAll
<1>3. Len(entries[i]) \in Nat /\ reign \in Nat /\ work \in [Member -> Maybe(Work)]
  BY LenProperties DEF ClusterInv, ClusterShape
<1>4. /\ entries' \in [Member -> Seq(Command)] /\ LogsAgreed'
      /\ Len(entries'[i]) = Len(entries[i]) + 1 /\ entries'[i][Len(entries[i]) + 1] = c
  <2>1. PICK cs \in Seq(Command) : cs = <<c>>
    BY <1>1
  <2>2. ProposeAll(i, cs) /\ Len(cs) = 1 /\ 1 \in 1 .. Len(cs) /\ cs[1] = c
    BY <1>1, <2>1
  <2>3. /\ entries' \in [Member -> Seq(Command)] /\ LogsAgreed'
        /\ Len(entries'[i]) = Len(entries[i]) + Len(cs)
        /\ \A k \in 1 .. Len(cs) : entries'[i][Len(entries[i]) + k] = cs[k]
    BY <2>2, AppendStep
  <2>4. QED
    BY <2>2, <2>3
<1>5. w \in Work /\ work' = [work EXCEPT ![i] = w]
  BY <1>3 DEF WaitFor, Work, Phase
<1>6. ClusterShape'
  BY <1>2, <1>3, <1>4, <1>5 DEF ClusterInv, ClusterShape, Maybe
<1>7. work'[i] = w /\ \A x \in Member : x # i => work'[x] = work[x]
  BY <1>3, <1>5
<1>8. w.phase = phase /\ w.task = t /\ w.index = Len(entries[i]) + 1 /\ w.reign <= reign
  BY <1>3
<1> HIDE DEF w
<1>9. Proposed(i)'
  <2>1. w.index \in 1 .. Len(entries'[i]) /\ entries'[i][w.index] = c
    BY <1>3, <1>4, <1>8
  <2>2. QED
    BY <1>7, <1>8, <2>1 DEF Proposed
<1>10. ASSUME NEW x \in Member, x # i, Proposed(x) PROVE Proposed(x)'
  BY <1>1, <1>7, <1>10, WaitsOutlastAppends
<1>11. WorkProposed'
  <2> SUFFICES ASSUME NEW x \in Member, work'[x] # None
               PROVE  work'[x].reign <= reign
                      /\ (leader = x /\ work'[x].reign = reign => Proposed(x)')
    BY <1>2 DEF WorkProposed
  <2>1. CASE x = i
    BY <1>7, <1>8, <1>9, <2>1
  <2>2. CASE x # i
    BY <1>7, <1>10, <2>2 DEF ClusterInv, WorkProposed
  <2>3. QED
    BY <2>1, <2>2
<1>12. QED
  BY <1>4, <1>6, <1>11 DEF ClusterInv

\* The wait is over once the index is committed.
LEMMA ProceedStep ==
  ASSUME ClusterInv, NEW i \in Member, Proceed(i)
  PROVE  ClusterInv'
<1> DEFINE w == work[i]
           v == [w EXCEPT !.phase = Next1(w.phase)]
<1>1. /\ w # None /\ w.phase \in {"acquiring", "completing"} /\ w.index <= commit[i]
      /\ work' = [work EXCEPT ![i] = v]
      /\ UNCHANGED <<agreed, leader, reign, entries, base, commit, now>>
  BY DEF Proceed, Awaited, onDisk, ClusterInv, ClusterShape, Work, Maybe
<1>2. w \in Work /\ work \in [Member -> Maybe(Work)]
  BY <1>1 DEF ClusterInv, ClusterShape, Maybe
<1>3. /\ v \in Work /\ v.task = w.task /\ v.index = w.index /\ v.reign = w.reign
      /\ \/ v.phase = "running" /\ w.phase = "acquiring"
         \/ v.phase = "exposed" /\ w.phase = "completing"
  BY <1>1, <1>2 DEF Work, Phase, Next1
<1> HIDE DEF v
<1>4. work'[i] = v /\ \A x \in Member : x # i => work'[x] = work[x]
  BY <1>1, <1>2
<1>5. ClusterShape'
  BY <1>1, <1>2, <1>3 DEF ClusterInv, ClusterShape, Maybe
<1>6. LogsAgreed'
  BY <1>1 DEF ClusterInv, LogsAgreed, HoldsUpTo
<1>7. Proposed(i) => Proposed(i)'
  BY <1>1, <1>3, <1>4 DEF Proposed
<1>8. \A x \in Member : x # i /\ Proposed(x) => Proposed(x)'
  BY <1>1, <1>4 DEF Proposed
<1>9. WorkProposed'
  <2> SUFFICES ASSUME NEW x \in Member, work'[x] # None
               PROVE  work'[x].reign <= reign
                      /\ (leader = x /\ work'[x].reign = reign => Proposed(x)')
    BY <1>1 DEF WorkProposed
  <2>1. CASE x = i
    BY <1>1, <1>3, <1>4, <1>7, <2>1 DEF ClusterInv, WorkProposed
  <2>2. CASE x # i
    BY <1>4, <1>8, <2>2 DEF ClusterInv, WorkProposed
  <2>3. QED
    BY <2>1, <2>2
<1>10. QED
  BY <1>5, <1>6, <1>9 DEF ClusterInv

LEMMA ClusterStep == ClusterInv /\ SnapshotsFollow /\ [ClusterNext]_clusterVars => ClusterInv'
<1> SUFFICES ASSUME ClusterInv, SnapshotsFollow, [ClusterNext]_clusterVars PROVE ClusterInv'
  OBVIOUS
<1>1. CASE UNCHANGED clusterVars
  BY <1>1 DEF clusterVars, onDisk, ClusterInv, ClusterShape, LogsAgreed, WorkProposed, HoldsUpTo, Proposed
<1>2. CASE Tick
  <2>1. now' \in 0 .. MaxNow /\ UNCHANGED <<agreed, leader, reign, entries, base, commit, work>>
    BY <1>2, ClusterAssumption DEF Tick, onDisk, ClusterInv, ClusterShape
  <2>2. QED
    BY <2>1 DEF ClusterInv, ClusterShape, LogsAgreed, WorkProposed, HoldsUpTo, Proposed
<1>3. ASSUME NEW i \in Member,
             Elect(i) \/ RestartMember(i) \/ Replicate(i) \/ SendSnapshot(i) \/ Proceed(i) \/ GiveUp(i)
      PROVE  ClusterInv'
  <2>1. CASE Elect(i)
    BY <2>1, ElectStep
  <2>2. CASE RestartMember(i)
    BY <2>2, AbandonStep DEF RestartMember, onDisk
  <2>3. CASE Replicate(i)
    BY <2>3, ReplicateStep
  <2>4. CASE SendSnapshot(i)
    <3>1. UNCHANGED <<agreed, leader, reign, entries, base, commit, work, now>>
      BY <2>4 DEF SendSnapshot, onDisk
    <3>2. QED
      BY <3>1 DEF ClusterInv, ClusterShape, LogsAgreed, WorkProposed, HoldsUpTo, Proposed
  <2>5. CASE Proceed(i)
    BY <2>5, ProceedStep
  <2>6. CASE GiveUp(i)
    BY <2>6, AbandonStep DEF GiveUp, onDisk
  <2>7. QED
    BY <1>3, <2>1, <2>2, <2>3, <2>4, <2>5, <2>6
<1>4. ASSUME NEW i \in Member, NEW k \in 1 .. MaxEntries, Commit(i, k) \/ CompactLog(i, k)
      PROVE  ClusterInv'
  <2>1. k \in Nat
    BY DEF ClusterInv
  <2>2. QED
    BY <1>4, <2>1, CommitStep, CompactLogStep
<1>5. ASSUME NEW i \in Member, NEW tasks \in SUBSET TaskId, RequeueAll(i, tasks) PROVE ClusterInv'
  <2> DEFINE cs == SetToSeq({Requeue(t) : t \in tasks})
  <2>1. cs \in Seq(Command) /\ ProposeAll(i, cs) /\ UNCHANGED work
    BY <1>5, RequeuesAreCommands DEF RequeueAll
  <2> HIDE DEF cs
  <2>2. QED
    BY <2>1, ProposeStep
<1>6. ASSUME NEW i \in Member, LeaderTick(i) PROVE ClusterInv'
  <2>1. Expired(i) \in SUBSET TaskId
    BY DEF Expired, Leased
  <2>2. QED
    BY <1>5, <1>6, <2>1 DEF LeaderTick
<1>7. ASSUME NEW i \in Member, NEW j \in Member, PeerUnreachable(i, j) PROVE ClusterInv'
  <2>1. {t \in Leased(i) : state[i].tasks[t].assignee = j} \in SUBSET TaskId
    BY DEF Leased
  <2>2. QED
    BY <1>5, <1>7, <2>1 DEF PeerUnreachable
<1>8. ASSUME NEW i \in Member, NEW s \in Subject, PublishEvidence(i, s) \/ RecordDecision(i, s)
      PROVE  ClusterInv'
  <2>1. PICK c \in {Evidence(s), Decision(s)} : ProposeOne(i, c) /\ UNCHANGED work
    BY <1>8 DEF PublishEvidence, RecordDecision
  <2>2. c \in Command
    BY DEF Command
  <2>3. <<c>> \in Seq(Command) /\ ProposeAll(i, <<c>>)
    BY <2>1, <2>2 DEF ProposeOne
  <2>4. QED
    BY <2>1, <2>3, ProposeStep
<1>9. ASSUME NEW i \in Member, NEW t \in TaskId, Acquire(i, t) PROVE ClusterInv'
  <2>1. PICK until, c : until = now + Lease /\ c = Assign(t, i, until)
    OBVIOUS
  <2>2. until \in Instant
    BY <2>1, ClusterAssumption DEF Instant, ClusterInv, ClusterShape
  <2>3. c \in Command
    BY <2>1, <2>2 DEF Command
  <2>4. ProposeOne(i, c) /\ WaitFor(i, "acquiring", t)
    BY <1>9, <2>1 DEF Acquire
  <2>5. QED
    BY <2>1, <2>2, <2>3, <2>4, WaitStep
<1>10. ASSUME NEW i \in Member, Finish(i) PROVE ClusterInv'
  <2>1. PICK t, c : t = work[i].task /\ c = Complete(t)
    OBVIOUS
  <2>2. t \in TaskId
    BY <1>10, <2>1 DEF Finish, ClusterInv, ClusterShape, Maybe, Work
  <2>3. c \in Command
    BY <2>1, <2>2 DEF Command
  <2>4. ProposeOne(i, c) /\ WaitFor(i, "completing", t)
    BY <1>10, <2>1 DEF Finish
  <2>5. QED
    BY <2>1, <2>2, <2>3, <2>4, WaitStep
<1>11. ASSUME NEW m \in snapshots, LoseSnapshot(m) \/ InstallSnapshot(m) PROVE ClusterInv'
  <2>1. CASE LoseSnapshot(m)
    <3>1. UNCHANGED <<agreed, leader, reign, entries, base, commit, work, now>>
      BY <2>1 DEF LoseSnapshot, onDisk
    <3>2. QED
      BY <3>1 DEF ClusterInv, ClusterShape, LogsAgreed, WorkProposed, HoldsUpTo, Proposed
  <2>2. QED
    BY <1>11, <2>1, InstallSnapshotStep
<1>12. QED
  BY <1>1, <1>2, <1>3, <1>4, <1>6, <1>7, <1>8, <1>9, <1>10, <1>11 DEF ClusterNext

\* No step takes back a commit index or a command agreed on.
LEMMA CommitsRise ==
  ASSUME ClusterInv, SnapshotsFollow, ClusterNext
  PROVE  /\ \A i \in Member : commit[i] <= commit'[i]
         /\ Len(agreed) <= Len(agreed') /\ \A k \in 1 .. Len(agreed) : agreed[k] = agreed'[k]
<1>1. /\ commit \in [Member -> Nat] /\ base \in [Member -> Nat] /\ agreed \in Seq(Command)
      /\ entries \in [Member -> Seq(Command)] /\ Len(agreed) \in Nat
  BY LenProperties DEF ClusterInv, ClusterShape
<1>2. ASSUME UNCHANGED <<commit, agreed>>
      PROVE  /\ \A i \in Member : commit[i] <= commit'[i]
             /\ Len(agreed) <= Len(agreed') /\ \A k \in 1 .. Len(agreed) : agreed[k] = agreed'[k]
  BY <1>1, <1>2
<1>3. ASSUME UNCHANGED agreed, NEW j \in Member, NEW c \in Nat, commit[j] <= c,
             commit' = [commit EXCEPT ![j] = c]
      PROVE  /\ \A i \in Member : commit[i] <= commit'[i]
             /\ Len(agreed) <= Len(agreed') /\ \A k \in 1 .. Len(agreed) : agreed[k] = agreed'[k]
  BY <1>1, <1>3
<1>4. leader # None => leader \in Member
  BY DEF ClusterInv, ClusterShape, Maybe
<1>5. ASSUME NEW j \in Member, Replicate(j)
      PROVE  \/ UNCHANGED <<commit, agreed>>
             \/ UNCHANGED agreed /\ commit[leader] \in Nat /\ commit[j] <= commit[leader]
                /\ commit' = [commit EXCEPT ![j] = commit[leader]]
  BY <1>1, <1>4, <1>5 DEF Replicate, HandOver
<1>6. ASSUME NEW m \in snapshots, InstallSnapshot(m)
      PROVE  \/ UNCHANGED <<commit, agreed>>
             \/ \E c \in Nat : /\ UNCHANGED agreed /\ m.to \in Member /\ commit[m.to] <= c
                               /\ commit' = [commit EXCEPT ![m.to] = c]
  <2> DEFINE c == IF commit[m.to] < m.base THEN m.base ELSE commit[m.to]
  <2>1. m.to \in Member /\ m.base \in Nat /\ UNCHANGED agreed
    BY <1>6 DEF SnapshotsFollow, InstallSnapshot, Follow
  <2>2. c \in Nat /\ commit[m.to] <= c
    BY <1>1, <2>1
  <2>3. UNCHANGED commit \/ commit' = [commit EXCEPT ![m.to] = c]
    BY <1>6 DEF InstallSnapshot, Install, HaveThisOrNewer, onDisk
  <2> HIDE DEF c
  <2>4. QED
    BY <2>1, <2>2, <2>3
<1>7. ASSUME NEW i \in Member, NEW k \in 1 .. MaxEntries, Commit(i, k)
      PROVE  /\ \A j \in Member : commit[j] <= commit'[j]
             /\ Len(agreed) <= Len(agreed') /\ \A m \in 1 .. Len(agreed) : agreed[m] = agreed'[m]
  <2> DEFINE l == entries[i]
  <2>1. /\ k \in Nat /\ k <= Len(l) /\ leader = i /\ i # None /\ commit[i] < k
        /\ commit' = [commit EXCEPT ![i] = k]
        /\ agreed' = IF k > Len(agreed) THEN SubSeq(l, 1, k) ELSE agreed
    BY <1>7, ClusterAssumption DEF Commit, HandOver
  <2>2. l \in Seq(Command) /\ Len(l) \in Nat /\ HoldsUpTo(l, Len(agreed))
    BY <1>1, <2>1, LenProperties DEF ClusterInv, LogsAgreed
  <2>3. Len(SubSeq(l, 1, k)) = k /\ \A m \in 1 .. k : SubSeq(l, 1, k)[m] = l[m]
    BY <2>1, <2>2, SubSeqProperties
  <2>4. \A j \in Member : commit[j] <= commit'[j]
    BY <1>1, <2>1
  <2>5. QED
    BY <1>1, <2>1, <2>2, <2>3, <2>4 DEF HoldsUpTo
<1>8. ASSUME \/ Tick
             \/ \E i \in Member :
                  \/ Elect(i) \/ RestartMember(i) \/ SendSnapshot(i)
                  \/ LeaderTick(i) \/ Proceed(i) \/ GiveUp(i) \/ Finish(i)
                  \/ \E k \in 1 .. MaxEntries : CompactLog(i, k)
                  \/ \E j \in Member : PeerUnreachable(i, j)
                  \/ \E s \in Subject : PublishEvidence(i, s) \/ RecordDecision(i, s)
                  \/ \E t \in TaskId : Acquire(i, t)
             \/ \E m \in snapshots : LoseSnapshot(m)
      PROVE  UNCHANGED <<commit, agreed>>
  BY <1>8 DEF Tick, Elect, RestartMember, SendSnapshot, LoseSnapshot, LeaderTick, Proceed, GiveUp, Finish, CompactLog,
     PeerUnreachable, PublishEvidence, RecordDecision, Acquire, RequeueAll, ProposeOne, ProposeAll, onDisk
<1>9. QED
  BY <1>2, <1>3, <1>5, <1>6, <1>7, <1>8 DEF ClusterNext

\* The snapshots on their way stay for followers: one for the winner of an
\* election no longer counts.
LEMMA SnapshotsStep ==
  ClusterInv /\ SnapshotsFollow /\ [ClusterNext]_clusterVars => SnapshotsFollow'
<1> SUFFICES ASSUME ClusterInv, SnapshotsFollow, [ClusterNext]_clusterVars PROVE SnapshotsFollow'
  OBVIOUS
<1>1. CASE UNCHANGED clusterVars
  BY <1>1 DEF clusterVars, snapVars, SnapshotsFollow
<1>2. CASE ClusterNext
  <2>1. Len(agreed) \in Nat /\ Len(agreed') \in Nat /\ Len(agreed) <= Len(agreed')
    <3>1. agreed \in Seq(Command) /\ agreed' \in Seq(Command)
      BY ClusterStep DEF ClusterInv, ClusterShape
    <3>2. QED
      BY <1>2, <3>1, CommitsRise, LenProperties
  <2>2. ASSUME snapshots' \subseteq snapshots, leader' = leader PROVE SnapshotsFollow'
    BY <2>1, <2>2 DEF SnapshotsFollow
  <2>3. ASSUME NEW i \in Member, Elect(i) PROVE SnapshotsFollow'
    BY <2>1, <2>3 DEF Elect, SnapshotsFollow
  <2>4. ASSUME NEW i \in Member, RestartMember(i) PROVE SnapshotsFollow'
    <3>1. snapshots' = snapshots /\ leader' \in {leader, None}
      BY <2>4 DEF RestartMember
    <3>2. QED
      BY <2>1, <3>1, ClusterAssumption DEF SnapshotsFollow
  <2>5. ASSUME NEW j \in Member, SendSnapshot(j) PROVE SnapshotsFollow'
    <3> DEFINE x == [to |-> j, reign |-> reign, base |-> base[leader],
                     upto |-> IF leader \in setBack THEN 0 ELSE commit[leader], data |-> state[leader]]
    <3>0. x.to = j /\ x.base = base[leader]
      OBVIOUS
    <3>1. /\ leader \in Member /\ j # leader /\ base[j] < base[leader] /\ leader' = leader
          /\ agreed' = agreed /\ snapshots' = snapshots \cup {x}
      BY <2>5 DEF SendSnapshot, ClusterInv, ClusterShape, Maybe
    <3> HIDE DEF x
    <3>2. base[j] \in Nat /\ base[leader] \in Nat /\ commit[leader] \in Nat
          /\ base[leader] <= commit[leader] /\ commit[leader] <= Len(agreed)
      BY <3>1 DEF ClusterInv, ClusterShape, LogsAgreed, HoldsUpTo
    <3>3. base[leader] # 0 /\ base[leader] <= Len(agreed)
      BY <2>1, <3>1, <3>2
    <3>4. QED
      BY <3>0, <3>1, <3>2, <3>3 DEF SnapshotsFollow
  <2>6. ASSUME NEW i \in Member, Replicate(i) \/ Proceed(i) \/ GiveUp(i)
                                   \/ \E k \in 1 .. MaxEntries : Commit(i, k) \/ CompactLog(i, k)
        PROVE  SnapshotsFollow'
    BY <2>2, <2>6 DEF Replicate, Proceed, GiveUp, Commit, CompactLog, snapVars
  <2>7. ASSUME NEW i \in Member, NEW cs, ProposeAll(i, cs) PROVE SnapshotsFollow'
    BY <2>2, <2>7 DEF ProposeAll, snapVars
  <2>8. ASSUME NEW i \in Member, \/ LeaderTick(i) \/ Finish(i)
                                 \/ \E j \in Member : PeerUnreachable(i, j)
                                 \/ \E s \in Subject : PublishEvidence(i, s) \/ RecordDecision(i, s)
                                 \/ \E t \in TaskId : Acquire(i, t)
        PROVE  SnapshotsFollow'
    BY <2>7, <2>8 DEF LeaderTick, Finish, PeerUnreachable, PublishEvidence, RecordDecision, Acquire,
       RequeueAll, ProposeOne
  <2>9. CASE Tick
    BY <2>2, <2>9 DEF Tick, snapVars
  <2>10. ASSUME NEW m \in snapshots, LoseSnapshot(m) \/ InstallSnapshot(m) PROVE SnapshotsFollow'
    BY <2>2, <2>10 DEF LoseSnapshot, InstallSnapshot, Follow
  <2>11. QED
    BY <1>2, <2>3, <2>4, <2>5, <2>6, <2>8, <2>9, <2>10 DEF ClusterNext
<1>3. QED
  BY <1>1, <1>2

LEMMA ClusterInvariant == ClusterSpec => [](ClusterInv /\ SnapshotsFollow)
<1>1. ClusterInit => SnapshotsFollow
  BY DEF ClusterInit, SnapshotsFollow
<1>2. QED
  BY <1>1, ClusterInitially, ClusterStep, SnapshotsStep, PTL DEF ClusterSpec

\* ClusterTaskCoordinator.execute: the index a coordinator waits for still
\* holds the command it proposed as long as its node has led without a break,
\* and what is committed is agreed.  So the executor runs only under a lease
\* the cell agreed on, and a result is handed out only with its completion
\* agreed, for every number of members, tasks, crashes and changes of leader.
THEOREM CoordinatorIsBacked == ClusterSpec => []CoordinatorActsOnCommits
<1>1. ClusterInv => CoordinatorActsOnCommits
  <2> SUFFICES ASSUME ClusterInv, NEW i \in Member, work[i] # None, leader = i, work[i].reign = reign,
                      work[i].phase \in {"running", "exposed"}
               PROVE  /\ work[i].index <= Len(agreed) /\ work[i].index \in 1 .. commit[i]
                      /\ agreed[work[i].index] = entries[i][work[i].index]
                      /\ Proposed(i)
    BY DEF CoordinatorActsOnCommits, Proposed
  <2>1. Proposed(i) /\ HoldsUpTo(entries[i], commit[i])
    BY DEF ClusterInv, WorkProposed, LogsAgreed
  <2>2. commit[i] \in Nat /\ Len(agreed) \in Nat /\ Len(entries[i]) \in Nat
    BY LenProperties DEF ClusterInv, ClusterShape
  <2>3. work[i].index \in 1 .. commit[i]
    BY <2>1, <2>2 DEF Proposed
  <2>4. QED
    BY <2>1, <2>2, <2>3 DEF HoldsUpTo
<1>2. QED
  BY <1>1, ClusterInvariant, PTL

-----------------------------------------------------------------------------
(* ClusterState: the promise of the cell *)

LEMMA BeginsWith ==
  ASSUME NEW s \in Seq(Command), NEW t \in Seq(Command),
         Len(s) <= Len(t), \A k \in 1 .. Len(s) : s[k] = t[k]
  PROVE  CellPromise!IsPrefix(s, t)
<1> DEFINE c == Len(s)
<1>1. Len(s) \in Nat /\ Len(t) \in Nat
  BY LenProperties
<1>2. /\ SubSeq(s, 1, c) \in Seq(Command) /\ Len(SubSeq(s, 1, c)) = c
      /\ \A k \in 1 .. c : SubSeq(s, 1, c)[k] = s[k]
  BY <1>1, SubSeqProperties
<1>3. /\ SubSeq(t, 1, c) \in Seq(Command) /\ Len(SubSeq(t, 1, c)) = c
      /\ \A k \in 1 .. c : SubSeq(t, 1, c)[k] = t[k]
  BY <1>1, SubSeqProperties
<1>4. SubSeq(s, 1, c) = SubSeq(t, 1, c)
  BY <1>2, <1>3, SeqEqual
<1>5. QED
  BY <1>4 DEF CellPromise!IsPrefix

LEMMA ClusterAdvances ==
  ASSUME ClusterInv, SnapshotsFollow, ClusterInv', [ClusterNext]_clusterVars
  PROVE  [CellPromise!Advance]_<<agreed, [i \in Member |-> SubSeq(entries[i], 1, commit[i])]>>
<1>1. CASE UNCHANGED clusterVars
  BY <1>1 DEF clusterVars, onDisk
<1>2. CASE ClusterNext
  <2>1. /\ agreed \in Seq(Command) /\ agreed' \in Seq(Command)
        /\ Len(agreed) \in Nat /\ Len(agreed') \in Nat
        /\ \A i \in Member : /\ entries[i] \in Seq(Command) /\ entries'[i] \in Seq(Command)
                             /\ commit[i] \in Nat /\ commit'[i] \in Nat
    BY LenProperties DEF ClusterInv, ClusterShape
  <2>2. /\ \A i \in Member : commit[i] <= commit'[i]
        /\ Len(agreed) <= Len(agreed') /\ \A k \in 1 .. Len(agreed) : agreed[k] = agreed'[k]
    BY <1>2, CommitsRise
  <2>3. \A i \in Member :
          /\ commit[i] <= Len(entries[i]) /\ commit[i] <= Len(agreed)
          /\ \A k \in 1 .. commit[i] : entries[i][k] = agreed[k]
          /\ commit'[i] <= Len(entries'[i]) /\ commit'[i] <= Len(agreed')
          /\ \A k \in 1 .. commit'[i] : entries'[i][k] = agreed'[k]
    BY DEF ClusterInv, LogsAgreed, HoldsUpTo
  <2>4. CellPromise!IsPrefix(agreed, agreed')
    BY <2>1, <2>2, BeginsWith
  <2>5. ASSUME NEW i \in Member
        PROVE  /\ CellPromise!IsPrefix(SubSeq(entries[i], 1, commit[i]), SubSeq(entries'[i], 1, commit'[i]))
               /\ CellPromise!IsPrefix(SubSeq(entries'[i], 1, commit'[i]), agreed')
    <3> DEFINE s == SubSeq(entries[i], 1, commit[i])
               t == SubSeq(entries'[i], 1, commit'[i])
    <3>1. Len(entries[i]) \in Nat /\ Len(entries'[i]) \in Nat
      BY <2>1, LenProperties
    <3>2. s \in Seq(Command) /\ Len(s) = commit[i] /\ \A k \in 1 .. commit[i] : s[k] = entries[i][k]
      BY <2>1, <2>3, <3>1, SubSeqProperties
    <3>3. t \in Seq(Command) /\ Len(t) = commit'[i] /\ \A k \in 1 .. commit'[i] : t[k] = entries'[i][k]
      BY <2>1, <2>3, <3>1, SubSeqProperties
    <3> HIDE DEF s, t
    <3>4. CellPromise!IsPrefix(s, t)
      BY <2>1, <2>2, <2>3, <3>2, <3>3, BeginsWith
    <3>5. CellPromise!IsPrefix(t, agreed')
      BY <2>1, <2>3, <3>3, BeginsWith
    <3>6. QED
      BY <3>4, <3>5 DEF s, t
  <2>6. QED
    BY <2>1, <2>4, <2>5 DEF CellPromise!Advance
<1>3. QED
  BY <1>1, <1>2

\* Catching up, compaction, a snapshot installed over a longer or a shorter log,
\* however late and lost, and a restart never take back or rewrite a committed
\* command of a member's log: the members see the log that AgreedLog specifies and
\* RaftCell implements, for any number of them, of crashes and of leaders.  It is
\* about the log: the state made of it is ReplicasAgree's.
THEOREM ClusterHandsOverAgreed == ClusterSpec => HandsOverAgreed
<1>1. ClusterInit => CellPromise!LogInit
  <2> SUFFICES ASSUME ClusterInit PROVE CellPromise!LogInit
    OBVIOUS
  <2>1. \A i \in Member : SubSeq(entries[i], 1, commit[i]) = <<>>
    BY DEF ClusterInit
  <2>2. QED
    BY <2>1 DEF ClusterInit, CellPromise!LogInit
<1>2. ClusterInv /\ SnapshotsFollow /\ ClusterInv' /\ [ClusterNext]_clusterVars
        => [CellPromise!Advance]_<<agreed, [i \in Member |-> SubSeq(entries[i], 1, commit[i])]>>
  BY ClusterAdvances
<1>3. QED
  BY <1>1, <1>2, ClusterInvariant, PTL DEF ClusterSpec, HandsOverAgreed, CellPromise!LogSpec

-----------------------------------------------------------------------------
(* ClusterState: the replicas *)

\* f is the run of states from s along the commands of l after from up to to.
IsRun(f, s, l, from, to) ==
  f = [k \in from .. to |-> IF k = from THEN s ELSE Apply(f[k - 1], k, l[k])]

LEMMA RunExists ==
  ASSUME NEW s, NEW l, NEW from \in Nat, NEW to \in Nat, from <= to
  PROVE  \E f : IsRun(f, s, l, from, to)
<1> DEFINE Bad == {n \in Nat : from <= n /\ ~\E f : IsRun(f, s, l, from, n)}
<1> SUFFICES ASSUME Bad # {} PROVE FALSE
  OBVIOUS
<1>1. PICK n \in Bad : \A m \in Bad : n <= m
  BY LeastOf
<1>2. CASE n = from
  <2> DEFINE f == [k \in from .. n |-> s]
  <2>1. f = [k \in from .. n |-> IF k = from THEN s ELSE Apply(f[k - 1], k, l[k])]
    BY <1>2
  <2>2. IsRun(f, s, l, from, n)
    BY <2>1 DEF IsRun
  <2>3. QED
    BY <2>2
<1>3. CASE n > from
  <2>1. PICK f : IsRun(f, s, l, from, n - 1)
    <3>1. n - 1 \in Nat /\ from <= n - 1 /\ ~(n <= n - 1)
      BY <1>3
    <3>2. n - 1 \notin Bad
      BY <1>1, <3>1
    <3>3. QED
      BY <3>1, <3>2
  <2>2. \A k \in from .. n - 1 : f[k] = IF k = from THEN s ELSE Apply(f[k - 1], k, l[k])
    BY <2>1 DEF IsRun
  <2> DEFINE g == [k \in from .. n |-> IF k = n THEN Apply(f[n - 1], n, l[n]) ELSE f[k]]
  <2>3. ASSUME NEW k \in from .. n
        PROVE  g[k] = IF k = from THEN s ELSE Apply(g[k - 1], k, l[k])
    <3>1. CASE k = n
      <4>1. n - 1 \in from .. n /\ n - 1 # n
        BY <1>3
      <4>2. g[n - 1] = f[n - 1]
        BY <4>1
      <4>3. QED
        BY <3>1, <4>2, <1>3
    <3>2. CASE k # n /\ k = from
      <4>1. k \in from .. n - 1
        BY <3>2
      <4>2. QED
        BY <3>2, <4>1, <2>2
    <3>3. CASE k # n /\ k # from
      <4>1. k \in from .. n - 1 /\ k - 1 \in from .. n /\ k - 1 # n
        BY <3>3
      <4>2. g[k - 1] = f[k - 1] /\ g[k] = f[k]
        BY <4>1, <3>3
      <4>3. QED
        BY <3>3, <4>1, <4>2, <2>2
    <3>4. QED
      BY <3>1, <3>2, <3>3
  <2>4. IsRun(g, s, l, from, n)
    <3>1. g = [k \in from .. n |-> g[k]]
      OBVIOUS
    <3> HIDE DEF g
    <3>2. QED
      BY <3>1, <2>3 DEF IsRun
  <2>5. QED
    BY <2>4
<1>4. QED
  BY <1>2, <1>3

\* Two runs from the same state along logs that agree are the same.
LEMMA RunsAgree ==
  ASSUME NEW s, NEW l, NEW l2, NEW from \in Nat, NEW to \in Nat, NEW to2 \in Nat,
         from <= to, to <= to2, NEW f, IsRun(f, s, l, from, to), NEW g, IsRun(g, s, l2, from, to2),
         \A k \in from + 1 .. to : l[k] = l2[k]
  PROVE  \A k \in from .. to : f[k] = g[k]
<1> DEFINE Bad == {n \in from .. to : f[n] # g[n]}
<1> SUFFICES ASSUME Bad # {} PROVE FALSE
  OBVIOUS
<1>1. PICK n \in Bad : \A m \in Bad : n <= m
  <2>1. Bad \in SUBSET Nat
    OBVIOUS
  <2> HIDE DEF Bad
  <2>2. QED
    BY <2>1, LeastOf
<1>2. /\ \A k \in from .. to : f[k] = IF k = from THEN s ELSE Apply(f[k - 1], k, l[k])
      /\ \A k \in from .. to2 : g[k] = IF k = from THEN s ELSE Apply(g[k - 1], k, l2[k])
  BY DEF IsRun
<1>3. n # from
  BY <1>2
<1>4. n - 1 \in from .. to /\ ~(n <= n - 1) /\ n \in from + 1 .. to
  BY <1>3
<1>5. f[n - 1] = g[n - 1]
  BY <1>1, <1>4
<1>6. f[n] = g[n]
  <2>1. f[n] = Apply(f[n - 1], n, l[n]) /\ g[n] = Apply(g[n - 1], n, l2[n]) /\ l[n] = l2[n]
    BY <1>2, <1>3, <1>4
  <2>2. QED
    BY <2>1, <1>5
<1>7. QED
  BY <1>6

LEMMA ReplayIsRun ==
  ASSUME NEW s, NEW l, NEW from \in Nat, NEW to \in Nat, from <= to
  PROVE  \E f : IsRun(f, s, l, from, to) /\ Replay(s, l, from, to) = f[to]
<1> DEFINE run == CHOOSE f : f = [k \in from .. to |-> IF k = from THEN s ELSE Apply(f[k - 1], k, l[k])]
<1>1. \E f : f = [k \in from .. to |-> IF k = from THEN s ELSE Apply(f[k - 1], k, l[k])]
  <2>1. PICK f : IsRun(f, s, l, from, to)
    BY RunExists
  <2>2. f = [k \in from .. to |-> IF k = from THEN s ELSE Apply(f[k - 1], k, l[k])]
    BY <2>1 DEF IsRun
  <2>3. QED
    BY <2>2
<1>2. run = [k \in from .. to |-> IF k = from THEN s ELSE Apply(run[k - 1], k, l[k])]
  BY <1>1
<1>3. Replay(s, l, from, to) = run[to]
  BY DEF Replay
<1> HIDE DEF run
<1>4. QED
  BY <1>2, <1>3 DEF IsRun

\* Replay, one command after the other
LEMMA ReplayNone ==
  ASSUME NEW s, NEW l, NEW from \in Nat
  PROVE  Replay(s, l, from, from) = s
<1>1. PICK f : IsRun(f, s, l, from, from) /\ Replay(s, l, from, from) = f[from]
  BY ReplayIsRun
<1>2. QED
  BY <1>1 DEF IsRun

LEMMA ReplayOne ==
  ASSUME NEW s, NEW l, NEW from \in Nat, NEW to \in Nat, from <= to
  PROVE  Replay(s, l, from, to + 1) = Apply(Replay(s, l, from, to), to + 1, l[to + 1])
<1>1. PICK f : IsRun(f, s, l, from, to) /\ Replay(s, l, from, to) = f[to]
  BY ReplayIsRun
<1>2. PICK g : IsRun(g, s, l, from, to + 1) /\ Replay(s, l, from, to + 1) = g[to + 1]
  BY ReplayIsRun
<1>3. f[to] = g[to]
  BY <1>1, <1>2, RunsAgree
<1>4. g[to + 1] = Apply(g[to], to + 1, l[to + 1])
  <2>1. to + 1 \in from .. to + 1 /\ to + 1 # from /\ (to + 1) - 1 = to
    OBVIOUS
  <2>2. \A k \in from .. to + 1 : g[k] = IF k = from THEN s ELSE Apply(g[k - 1], k, l[k])
    BY <1>2 DEF IsRun
  <2>3. QED
    BY <2>1, <2>2
<1>5. QED
  BY <1>1, <1>2, <1>3, <1>4

\* Replay reads the log only where it applies it.
LEMMA ReplayReads ==
  ASSUME NEW s, NEW l, NEW l2, NEW from \in Nat, NEW to \in Nat, from <= to,
         \A k \in from + 1 .. to : l[k] = l2[k]
  PROVE  Replay(s, l, from, to) = Replay(s, l2, from, to)
<1>1. PICK f : IsRun(f, s, l, from, to) /\ Replay(s, l, from, to) = f[to]
  BY ReplayIsRun
<1>2. PICK g : IsRun(g, s, l2, from, to) /\ Replay(s, l2, from, to) = g[to]
  BY ReplayIsRun
<1>3. f[to] = g[to]
  BY <1>1, <1>2, RunsAgree
<1>4. QED
  BY <1>1, <1>2, <1>3

LEMMA ReplayOn ==
  ASSUME NEW s, NEW l, NEW from \in Nat, NEW mid \in Nat, NEW to \in Nat, from <= mid, mid <= to
  PROVE  Replay(Replay(s, l, from, mid), l, mid, to) = Replay(s, l, from, to)
<1> DEFINE r == Replay(s, l, from, mid)
           Bad == {n \in Nat : mid <= n /\ Replay(r, l, mid, n) # Replay(s, l, from, n)}
<1> SUFFICES ASSUME Bad # {} PROVE FALSE
  OBVIOUS
<1>1. PICK n \in Bad : \A m \in Bad : n <= m
  <2> HIDE DEF r
  <2>1. QED
    BY LeastOf
<1>2. n \in Nat /\ mid <= n /\ Replay(r, l, mid, n) # Replay(s, l, from, n)
  OBVIOUS
<1>3. CASE n = mid
  BY <1>2, <1>3, ReplayNone
<1>4. CASE n > mid
  <2> DEFINE m == n - 1
  <2>1. m \in Nat /\ mid <= m /\ from <= m /\ m + 1 = n /\ ~(n <= m)
    BY <1>2, <1>4
  <2>2. m \notin Bad
    BY <1>1, <2>1
  <2>3. Replay(r, l, mid, m) = Replay(s, l, from, m)
    BY <2>1, <2>2
  <2> HIDE DEF m, r, Bad
  <2>4. Replay(r, l, mid, m + 1) = Replay(s, l, from, m + 1)
    BY <2>1, <2>3, ReplayOne
  <2>5. QED
    BY <1>2, <2>1, <2>4
<1>5. QED
  BY <1>2, <1>3, <1>4

-----------------------------------------------------------------------------
(* A command applied again changes nothing that its next turn would not    *)
(* have changed: the state a snapshot holds may be ahead of its label.     *)

LEMMA Commands ==
  ASSUME NEW c \in Command
  PROVE  \/ c.kind = "task_assign" /\ "task" \in DOMAIN c /\ c.task \in TaskId
              /\ c.assignee \in Member /\ c.until \in Instant
         \/ c.kind = "task_complete" /\ "task" \in DOMAIN c /\ c.task \in TaskId
         \/ c.kind = "task_requeue" /\ "task" \in DOMAIN c /\ c.task \in TaskId
         \/ c.kind = "evidence_publish" /\ "task" \notin DOMAIN c /\ c.subject \in Subject
         \/ c.kind = "governance_decision" /\ "task" \notin DOMAIN c /\ c.subject \in Subject
<1>1. CASE \E t \in TaskId, i \in Member, until \in Instant : c = Assign(t, i, until)
  BY <1>1 DEF Assign
<1>2. CASE \E t \in TaskId : c = Complete(t)
  BY <1>2 DEF Complete
<1>3. CASE \E t \in TaskId : c = Requeue(t)
  BY <1>3 DEF Requeue
<1>4. CASE \E s \in Subject : c = Evidence(s)
  BY <1>4 DEF Evidence
<1>5. CASE \E s \in Subject : c = Decision(s)
  BY <1>5 DEF Decision
<1>6. QED
  BY <1>1, <1>2, <1>3, <1>4, <1>5 DEF Command

\* What a command about a task makes of the entry x of that task
TaskAfter(x, c) ==
  CASE c.kind = "task_assign" -> [status |-> "leased", assignee |-> c.assignee, until |-> c.until]
    [] c.kind = "task_complete" /\ x # None -> [x EXCEPT !.status = "completed"]
    [] c.kind = "task_requeue" /\ x # None -> [status |-> "pending", assignee |-> None, until |-> 0]
    [] OTHER -> x

LEMMA TaskAfterIs ==
  ASSUME NEW x \in Maybe(TaskLease), NEW c
  PROVE  /\ c.kind = "task_assign" =>
              TaskAfter(x, c) = [status |-> "leased", assignee |-> c.assignee, until |-> c.until]
         /\ c.kind = "task_complete" =>
              /\ x = None => TaskAfter(x, c) = None
              /\ x # None =>
                   TaskAfter(x, c) = [status |-> "completed", assignee |-> x.assignee, until |-> x.until]
         /\ c.kind = "task_requeue" =>
              /\ x = None => TaskAfter(x, c) = None
              /\ x # None => TaskAfter(x, c) = [status |-> "pending", assignee |-> None, until |-> 0]
<1>1. CASE c.kind = "task_assign"
  BY <1>1 DEF TaskAfter
<1>2. CASE c.kind = "task_complete"
  BY <1>2 DEF TaskAfter, Maybe, TaskLease
<1>3. CASE c.kind = "task_requeue"
  BY <1>3 DEF TaskAfter
<1>4. QED
  BY <1>1, <1>2, <1>3

LEMMA TaskAfterType ==
  ASSUME NEW x \in Maybe(TaskLease), NEW c \in Command, "task" \in DOMAIN c
  PROVE  /\ TaskAfter(x, c) \in Maybe(TaskLease)
         /\ x # None => TaskAfter(x, c) # None
         /\ c.kind = "task_assign" => TaskAfter(x, c) # None
<1>1. 0 \in Instant
  BY ClusterAssumption DEF Instant
<1>2. x # None => x \in TaskLease /\ x.assignee \in Maybe(Member) /\ x.until \in Instant
  BY DEF Maybe, TaskLease
<1>3. CASE c.kind = "task_assign"
  <2>1. TaskAfter(x, c) \in TaskLease
    BY <1>3, Commands, TaskAfterIs DEF TaskLease, Maybe
  <2>2. QED
    BY <2>1, NoRecordAssumption DEF Maybe
<1>4. CASE c.kind = "task_complete"
  <2>1. x # None => TaskAfter(x, c) \in TaskLease
    <3> SUFFICES ASSUME x # None PROVE TaskAfter(x, c) \in TaskLease
      OBVIOUS
    <3>1. TaskAfter(x, c) = [status |-> "completed", assignee |-> x.assignee, until |-> x.until]
      BY <1>4, TaskAfterIs
    <3>2. x.assignee \in Maybe(Member) /\ x.until \in Instant
      BY <1>2
    <3>3. [status |-> "completed", assignee |-> x.assignee, until |-> x.until] \in TaskLease
      BY <3>2 DEF TaskLease
    <3>4. QED
      BY <3>1, <3>3
  <2>2. x = None => TaskAfter(x, c) = None
    BY <1>4, TaskAfterIs
  <2>3. QED
    BY <1>4, <2>1, <2>2, NoRecordAssumption DEF Maybe
<1>5. CASE c.kind = "task_requeue"
  <2>1. x # None => TaskAfter(x, c) \in TaskLease
    BY <1>1, <1>5, TaskAfterIs DEF TaskLease, Maybe
  <2>2. x = None => TaskAfter(x, c) = None
    BY <1>5, TaskAfterIs
  <2>3. QED
    BY <1>5, <2>1, <2>2, NoRecordAssumption DEF Maybe
<1>6. QED
  BY <1>3, <1>4, <1>5, Commands

LEMMA TaskAfterAgain ==
  ASSUME NEW x \in Maybe(TaskLease), NEW c \in Command, "task" \in DOMAIN c
  PROVE  TaskAfter(TaskAfter(x, c), c) = TaskAfter(x, c)
<1> DEFINE y == TaskAfter(x, c)
<1>1. y \in Maybe(TaskLease) /\ (x # None => y # None)
  BY TaskAfterType
<1>2. CASE c.kind = "task_assign"
  BY <1>1, <1>2, TaskAfterIs
<1>3. CASE c.kind = "task_complete"
  <2>1. x = None => y = None
    BY <1>3, TaskAfterIs
  <2>2. x # None => y = [status |-> "completed", assignee |-> x.assignee, until |-> x.until]
    BY <1>3, TaskAfterIs
  <2> HIDE DEF y
  <2>3. CASE x = None
    BY <1>1, <1>3, <2>1, <2>3, TaskAfterIs DEF y
  <2>4. CASE x # None
    <3>1. TaskAfter(y, c) = [status |-> "completed", assignee |-> y.assignee, until |-> y.until]
      BY <1>1, <1>3, <2>4, TaskAfterIs
    <3>2. TaskAfter(y, c) = y
      BY <3>1, <2>2, <2>4
    <3>3. QED
      BY <3>2 DEF y
  <2>5. QED
    BY <2>3, <2>4
<1>4. CASE c.kind = "task_requeue"
  BY <1>1, <1>4, TaskAfterIs
<1>5. QED
  BY <1>2, <1>3, <1>4, Commands

LEMMA TaskAfterBetween ==
  ASSUME NEW x \in Maybe(TaskLease), NEW y \in Maybe(TaskLease),
         NEW c \in Command, "task" \in DOMAIN c, NEW d \in Command, "task" \in DOMAIN d,
         TaskAfter(x, c) = TaskAfter(y, c)
  PROVE  TaskAfter(TaskAfter(x, d), c) = TaskAfter(TaskAfter(y, d), c)
<1> DEFINE xd == TaskAfter(x, d)
           yd == TaskAfter(y, d)
<1>1. /\ xd \in Maybe(TaskLease) /\ yd \in Maybe(TaskLease)
      /\ (x # None => xd # None) /\ (y # None => yd # None)
  BY TaskAfterType
<1>2. CASE c.kind = "task_assign"
  BY <1>1, <1>2, TaskAfterIs
<1>3. ASSUME c.kind # "task_assign" PROVE x = None <=> y = None
  <2>1. (x = None => TaskAfter(x, c) = None) /\ (y = None => TaskAfter(y, c) = None)
    BY <1>3, Commands, TaskAfterIs
  <2>2. QED
    BY <2>1, TaskAfterType
<1>4. ASSUME c.kind # "task_assign" PROVE xd = None <=> yd = None
  <2>1. CASE d.kind = "task_assign"
    BY <2>1, TaskAfterType
  <2>2. CASE d.kind # "task_assign"
    <3>1. (x = None => xd = None) /\ (y = None => yd = None)
      BY <2>2, Commands, TaskAfterIs
    <3>2. QED
      BY <3>1, <1>1, <1>3, <1>4
  <2>3. QED
    BY <2>1, <2>2
<1>5. CASE c.kind = "task_requeue"
  <2>1. xd = None <=> yd = None
    BY <1>4, <1>5
  <2> HIDE DEF xd, yd
  <2>2. TaskAfter(xd, c) = TaskAfter(yd, c)
    BY <2>1, <1>1, <1>5, TaskAfterIs
  <2>3. QED
    BY <2>2 DEF xd, yd
<1>6. CASE c.kind = "task_complete"
  <2>1. CASE x = None
    BY <2>1, <1>3, <1>6
  <2>2. CASE x # None
    <3>1. y # None
      BY <2>2, <1>3, <1>6
    <3>2. /\ TaskAfter(x, c) = [status |-> "completed", assignee |-> x.assignee, until |-> x.until]
          /\ TaskAfter(y, c) = [status |-> "completed", assignee |-> y.assignee, until |-> y.until]
      BY <2>2, <3>1, <1>6, TaskAfterIs
    <3>3. x.assignee = y.assignee /\ x.until = y.until
      <4>1. ASSUME NEW a, NEW b, NEW a2, NEW b2,
                   [status |-> "completed", assignee |-> a, until |-> b]
                     = [status |-> "completed", assignee |-> a2, until |-> b2]
            PROVE  a = a2 /\ b = b2
        <5>1. ASSUME NEW e, NEW f
              PROVE  /\ [status |-> "completed", assignee |-> e, until |-> f].assignee = e
                     /\ [status |-> "completed", assignee |-> e, until |-> f].until = f
          OBVIOUS
        <5>2. QED
          BY <4>1, <5>1, Zenon
      <4>2. [status |-> "completed", assignee |-> x.assignee, until |-> x.until]
              = [status |-> "completed", assignee |-> y.assignee, until |-> y.until]
        BY <3>2, Zenon
      <4>3. QED
        BY <4>1, <4>2
    <3>4. CASE d.kind = "task_complete"
      <4>1. /\ xd = [status |-> "completed", assignee |-> x.assignee, until |-> x.until]
            /\ yd = [status |-> "completed", assignee |-> y.assignee, until |-> y.until]
        BY <2>2, <3>1, <3>4, TaskAfterIs
      <4>2. QED
        BY <4>1, <3>3
    <3>5. CASE d.kind # "task_complete"
      <4>1. xd = yd
        BY <3>5, <2>2, <3>1, Commands, TaskAfterIs
      <4>2. QED
        BY <4>1
    <3>6. QED
      BY <3>4, <3>5
  <2>3. QED
    BY <2>1, <2>2
<1>7. QED
  BY <1>2, <1>5, <1>6, Commands

\* The four parts of Apply
TasksAfter(ts, c) == IF "task" \in DOMAIN c THEN ApplyTask(ts, c) ELSE ts
EvidenceAfter(e, c) == IF c.kind = "evidence_publish" THEN e \cup {c.subject} ELSE e
DecisionsAfter(ds, n, c) ==
  IF c.kind = "governance_decision" THEN [ds EXCEPT ![c.subject] = n] ELSE ds
LetterAfter(cs, n, c) == cs \cup {[index |-> n, command |-> c]}

Tasks == [TaskId -> Maybe(TaskLease)]
Decisions == [Subject -> Nat]

LEMMA ApplyParts ==
  ASSUME NEW s, NEW n, NEW c
  PROVE  Apply(s, n, c) =
           [tasks |-> TasksAfter(s.tasks, c), evidence |-> EvidenceAfter(s.evidence, c),
            decisions |-> DecisionsAfter(s.decisions, n, c), commands |-> LetterAfter(s.commands, n, c)]
BY DEF Apply, TasksAfter, EvidenceAfter, DecisionsAfter, LetterAfter

LEMMA TasksAfterIs ==
  ASSUME NEW ts \in Tasks, NEW c \in Command, "task" \in DOMAIN c
  PROVE  /\ TasksAfter(ts, c) \in Tasks
         /\ c.task \in TaskId
         /\ \A t \in TaskId : TasksAfter(ts, c)[t] = IF t = c.task THEN TaskAfter(ts[t], c) ELSE ts[t]
<1>1. c.task \in TaskId
  BY Commands
<1>2. ts[c.task] \in Maybe(TaskLease)
  BY <1>1 DEF Tasks
<1>3. TasksAfter(ts, c) = [ts EXCEPT ![c.task] = TaskAfter(ts[c.task], c)]
  BY <1>1 DEF TasksAfter, ApplyTask, TaskAfter, Tasks
<1>4. TaskAfter(ts[c.task], c) \in Maybe(TaskLease)
  BY <1>2, TaskAfterType
<1>5. QED
  BY <1>1, <1>3, <1>4 DEF Tasks

LEMMA TasksAgain ==
  ASSUME NEW ts \in Tasks, NEW c \in Command
  PROVE  TasksAfter(TasksAfter(ts, c), c) = TasksAfter(ts, c)
<1>1. CASE "task" \notin DOMAIN c
  BY <1>1 DEF TasksAfter
<1>2. CASE "task" \in DOMAIN c
  <2> DEFINE t1 == TasksAfter(ts, c)
             t2 == TasksAfter(t1, c)
  <2>1. /\ t1 \in Tasks /\ c.task \in TaskId
        /\ \A t \in TaskId : t1[t] = IF t = c.task THEN TaskAfter(ts[t], c) ELSE ts[t]
    BY <1>2, TasksAfterIs
  <2> HIDE DEF t1
  <2>2. /\ t2 \in Tasks
        /\ \A t \in TaskId : t2[t] = IF t = c.task THEN TaskAfter(t1[t], c) ELSE t1[t]
    BY <1>2, <2>1, TasksAfterIs
  <2>3. ts[c.task] \in Maybe(TaskLease)
    BY <2>1 DEF Tasks
  <2>4. TaskAfter(TaskAfter(ts[c.task], c), c) = TaskAfter(ts[c.task], c)
    BY <1>2, <2>3, TaskAfterAgain
  <2> HIDE DEF t2
  <2>5. \A t \in TaskId : t2[t] = t1[t]
    BY <2>1, <2>2, <2>4
  <2>6. t2 = t1
    BY <2>1, <2>2, <2>5 DEF Tasks
  <2>7. QED
    BY <2>6 DEF t1, t2
<1>3. QED
  BY <1>1, <1>2

LEMMA TasksBetween ==
  ASSUME NEW ts \in Tasks, NEW us \in Tasks, NEW c \in Command, NEW d \in Command,
         TasksAfter(ts, c) = TasksAfter(us, c)
  PROVE  TasksAfter(TasksAfter(ts, d), c) = TasksAfter(TasksAfter(us, d), c)
<1>1. CASE "task" \notin DOMAIN c
  BY <1>1 DEF TasksAfter
<1>2. CASE "task" \notin DOMAIN d
  BY <1>2 DEF TasksAfter
<1>3. CASE "task" \in DOMAIN c /\ "task" \in DOMAIN d
  <2> DEFINE td == TasksAfter(ts, d)
             ud == TasksAfter(us, d)
             tc == TasksAfter(td, c)
             uc == TasksAfter(ud, c)
  <2>1. /\ td \in Tasks /\ ud \in Tasks /\ d.task \in TaskId
        /\ \A t \in TaskId : td[t] = IF t = d.task THEN TaskAfter(ts[t], d) ELSE ts[t]
        /\ \A t \in TaskId : ud[t] = IF t = d.task THEN TaskAfter(us[t], d) ELSE us[t]
    BY <1>3, TasksAfterIs
  <2> HIDE DEF td, ud
  <2>2. /\ tc \in Tasks /\ uc \in Tasks /\ c.task \in TaskId
        /\ \A t \in TaskId : tc[t] = IF t = c.task THEN TaskAfter(td[t], c) ELSE td[t]
        /\ \A t \in TaskId : uc[t] = IF t = c.task THEN TaskAfter(ud[t], c) ELSE ud[t]
    BY <1>3, <2>1, TasksAfterIs
  <2> HIDE DEF tc, uc
  <2>3. /\ \A t \in TaskId \ {c.task} : ts[t] = us[t]
        /\ TaskAfter(ts[c.task], c) = TaskAfter(us[c.task], c)
    <3>1. /\ \A t \in TaskId : TasksAfter(ts, c)[t] = IF t = c.task THEN TaskAfter(ts[t], c) ELSE ts[t]
          /\ \A t \in TaskId : TasksAfter(us, c)[t] = IF t = c.task THEN TaskAfter(us[t], c) ELSE us[t]
      BY <1>3, TasksAfterIs
    <3>2. QED
      BY <2>2, <3>1
  <2>4. ASSUME NEW t \in TaskId PROVE tc[t] = uc[t]
    <3>1. ts[t] \in Maybe(TaskLease) /\ us[t] \in Maybe(TaskLease)
      BY DEF Tasks
    <3>2. CASE t # c.task
      BY <2>1, <2>2, <2>3, <3>2
    <3>3. CASE t = c.task /\ t # d.task
      BY <2>1, <2>2, <2>3, <3>3
    <3>4. CASE t = c.task /\ t = d.task
      <4>1. TaskAfter(ts[t], c) = TaskAfter(us[t], c)
        BY <2>3, <3>4
      <4>2. TaskAfter(TaskAfter(ts[t], d), c) = TaskAfter(TaskAfter(us[t], d), c)
        BY <1>3, <3>1, <4>1, TaskAfterBetween
      <4>3. QED
        BY <2>1, <2>2, <3>4, <4>2
    <3>5. QED
      BY <3>2, <3>3, <3>4
  <2>5. tc = uc
    BY <2>2, <2>4 DEF Tasks
  <2>6. QED
    BY <2>5 DEF tc, uc, td, ud
<1>4. QED
  BY <1>1, <1>2, <1>3

LEMMA StateParts ==
  ASSUME NEW s \in State
  PROVE  s.tasks \in Tasks /\ s.evidence \subseteq Subject /\ s.decisions \in Decisions
BY DEF State, Tasks, Decisions

LEMMA ApplyType ==
  ASSUME NEW s \in State, NEW n \in Nat, NEW c \in Command
  PROVE  Apply(s, n, c) \in State
<1>1. TasksAfter(s.tasks, c) \in [TaskId -> Maybe(TaskLease)]
  <2>1. CASE "task" \in DOMAIN c
    BY <2>1, StateParts, TasksAfterIs DEF Tasks
  <2>2. CASE "task" \notin DOMAIN c
    BY <2>2, StateParts DEF TasksAfter, Tasks
  <2>3. QED
    BY <2>1, <2>2
<1>2. EvidenceAfter(s.evidence, c) \in SUBSET Subject
  BY StateParts, Commands DEF EvidenceAfter
<1>3. DecisionsAfter(s.decisions, n, c) \in [Subject -> Nat]
  BY StateParts, Commands DEF DecisionsAfter, Decisions
<1>4. LetterAfter(s.commands, n, c) \in SUBSET [index : Nat, command : Command]
  BY DEF LetterAfter, State
<1>5. QED
  BY <1>1, <1>2, <1>3, <1>4, ApplyParts DEF State

LEMMA ApplyAgain ==
  ASSUME NEW s \in State, NEW n \in Nat, NEW c \in Command
  PROVE  Apply(Apply(s, n, c), n, c) = Apply(s, n, c)
<1> DEFINE t == Apply(s, n, c)
<1>1. /\ t.tasks = TasksAfter(s.tasks, c) /\ t.evidence = EvidenceAfter(s.evidence, c)
      /\ t.decisions = DecisionsAfter(s.decisions, n, c) /\ t.commands = LetterAfter(s.commands, n, c)
  BY ApplyParts
<1> HIDE DEF t
<1>2. TasksAfter(t.tasks, c) = TasksAfter(s.tasks, c)
  BY <1>1, StateParts, TasksAgain
<1>3. EvidenceAfter(t.evidence, c) = EvidenceAfter(s.evidence, c)
  BY <1>1 DEF EvidenceAfter
<1>4. DecisionsAfter(t.decisions, n, c) = DecisionsAfter(s.decisions, n, c)
  BY <1>1, StateParts DEF DecisionsAfter, Decisions
<1>5. LetterAfter(t.commands, n, c) = LetterAfter(s.commands, n, c)
  BY <1>1 DEF LetterAfter
<1>6. Apply(t, n, c) = Apply(s, n, c)
  BY <1>2, <1>3, <1>4, <1>5, ApplyParts
<1>7. QED
  BY <1>6 DEF t

LEMMA ApplyBetween ==
  ASSUME NEW s \in State, NEW u \in State, NEW n \in Nat, NEW m \in Nat,
         NEW c \in Command, NEW d \in Command, Apply(s, n, c) = Apply(u, n, c)
  PROVE  Apply(Apply(s, m, d), n, c) = Apply(Apply(u, m, d), n, c)
<1> DEFINE sd == Apply(s, m, d)
           ud == Apply(u, m, d)
<1>1. /\ sd.tasks = TasksAfter(s.tasks, d) /\ sd.evidence = EvidenceAfter(s.evidence, d)
      /\ sd.decisions = DecisionsAfter(s.decisions, m, d) /\ sd.commands = LetterAfter(s.commands, m, d)
  BY ApplyParts
<1>2. /\ ud.tasks = TasksAfter(u.tasks, d) /\ ud.evidence = EvidenceAfter(u.evidence, d)
      /\ ud.decisions = DecisionsAfter(u.decisions, m, d) /\ ud.commands = LetterAfter(u.commands, m, d)
  BY ApplyParts
<1> HIDE DEF sd, ud
<1>3. /\ TasksAfter(s.tasks, c) = TasksAfter(u.tasks, c)
      /\ EvidenceAfter(s.evidence, c) = EvidenceAfter(u.evidence, c)
      /\ DecisionsAfter(s.decisions, n, c) = DecisionsAfter(u.decisions, n, c)
      /\ LetterAfter(s.commands, n, c) = LetterAfter(u.commands, n, c)
  <2>1. ASSUME NEW x
        PROVE  /\ Apply(x, n, c).tasks = TasksAfter(x.tasks, c)
               /\ Apply(x, n, c).evidence = EvidenceAfter(x.evidence, c)
               /\ Apply(x, n, c).decisions = DecisionsAfter(x.decisions, n, c)
               /\ Apply(x, n, c).commands = LetterAfter(x.commands, n, c)
    BY ApplyParts
  <2>2. QED
    BY <2>1, Zenon
<1>4. TasksAfter(sd.tasks, c) = TasksAfter(ud.tasks, c)
  BY <1>1, <1>2, <1>3, StateParts, TasksBetween
<1>5. EvidenceAfter(sd.evidence, c) = EvidenceAfter(ud.evidence, c)
  BY <1>1, <1>2, <1>3 DEF EvidenceAfter
<1>6. DecisionsAfter(sd.decisions, n, c) = DecisionsAfter(ud.decisions, n, c)
  <2>1. s.decisions \in Decisions /\ u.decisions \in Decisions
    BY StateParts
  <2>2. CASE c.kind # "governance_decision"
    BY <1>1, <1>2, <1>3, <2>2 DEF DecisionsAfter
  <2>3. CASE c.kind = "governance_decision"
    <3>1. c.subject \in Subject /\ (d.kind = "governance_decision" => d.subject \in Subject)
      BY <2>3, Commands
    <3>2. \A x \in Subject \ {c.subject} : s.decisions[x] = u.decisions[x]
      <4>1. [s.decisions EXCEPT ![c.subject] = n] = [u.decisions EXCEPT ![c.subject] = n]
        BY <1>3, <2>3 DEF DecisionsAfter
      <4>2. ASSUME NEW x \in Subject \ {c.subject}
            PROVE  [s.decisions EXCEPT ![c.subject] = n][x] = s.decisions[x]
                   /\ [u.decisions EXCEPT ![c.subject] = n][x] = u.decisions[x]
        BY <2>1 DEF Decisions
      <4>3. QED
        BY <4>1, <4>2
    <3>3. sd.decisions \in Decisions /\ ud.decisions \in Decisions
      BY <1>1, <1>2, <2>1, <3>1 DEF DecisionsAfter, Decisions
    <3>4. \A x \in Subject \ {c.subject} : sd.decisions[x] = ud.decisions[x]
      BY <1>1, <1>2, <2>1, <3>1, <3>2 DEF DecisionsAfter, Decisions
    <3>5. [sd.decisions EXCEPT ![c.subject] = n] = [ud.decisions EXCEPT ![c.subject] = n]
      BY <3>3, <3>4 DEF Decisions
    <3>6. QED
      BY <2>3, <3>5 DEF DecisionsAfter
  <2>4. QED
    BY <2>2, <2>3
<1>7. LetterAfter(sd.commands, n, c) = LetterAfter(ud.commands, n, c)
  BY <1>1, <1>2, <1>3 DEF LetterAfter
<1>8. Apply(sd, n, c) = Apply(ud, n, c)
  BY <1>4, <1>5, <1>6, <1>7, ApplyParts
<1>9. QED
  BY <1>8 DEF sd, ud

LEMMA ReplayType ==
  ASSUME NEW s \in State, NEW l, NEW from \in Nat, NEW to \in Nat, from <= to,
         \A k \in from + 1 .. to : l[k] \in Command
  PROVE  Replay(s, l, from, to) \in State
<1> DEFINE Bad == {n \in Nat : from <= n /\ n <= to /\ Replay(s, l, from, n) \notin State}
<1> SUFFICES ASSUME Bad # {} PROVE FALSE
  OBVIOUS
<1>1. PICK n \in Bad : \A m \in Bad : n <= m
  BY LeastOf
<1>2. n \in Nat /\ from <= n /\ n <= to /\ Replay(s, l, from, n) \notin State
  OBVIOUS
<1>3. CASE n = from
  BY <1>2, <1>3, ReplayNone
<1>4. CASE n > from
  <2> DEFINE m == n - 1
  <2>1. m \in Nat /\ from <= m /\ m <= to /\ m + 1 = n /\ ~(n <= m) /\ m + 1 \in from + 1 .. to
    BY <1>2, <1>4
  <2>2. m \notin Bad
    BY <1>1, <2>1
  <2>3. Replay(s, l, from, m) \in State
    BY <2>1, <2>2
  <2> HIDE DEF m, Bad
  <2>4. Replay(s, l, from, m + 1) = Apply(Replay(s, l, from, m), m + 1, l[m + 1])
    BY <2>1, ReplayOne
  <2>5. Apply(Replay(s, l, from, m), m + 1, l[m + 1]) \in State
    BY <2>1, <2>3, ApplyType
  <2>6. QED
    BY <1>2, <2>1, <2>4, <2>5
<1>5. QED
  BY <1>2, <1>3, <1>4

\* A command the state has seen already is absorbed by its next turn.
LEMMA Absorbed ==
  ASSUME NEW s \in State, NEW l, NEW b \in Nat, NEW n \in Nat, NEW to \in Nat, b < n, n <= to,
         \A k \in b + 1 .. to : l[k] \in Command
  PROVE  Replay(Apply(s, n, l[n]), l, b, to) = Replay(s, l, b, to)
<1> DEFINE t == Apply(s, n, l[n])
           Same(m) == Apply(Replay(t, l, b, m), n, l[n]) = Apply(Replay(s, l, b, m), n, l[n])
           Bad == {m \in Nat : b <= m /\ m < n /\ ~Same(m)}
<1>0. l[n] \in Command /\ t \in State
  <2>1. n \in b + 1 .. to
    OBVIOUS
  <2>2. l[n] \in Command
    BY <2>1
  <2>3. QED
    BY <2>2, ApplyType
<1>1. ASSUME Bad # {} PROVE FALSE
  <2>1. PICK m \in Bad : \A k \in Bad : m <= k
    <3>1. Bad \in SUBSET Nat
      OBVIOUS
    <3> HIDE DEF Bad
    <3>2. QED
      BY <1>1, <3>1, LeastOf
  <2>2. m \in Nat /\ b <= m /\ m < n /\ ~Same(m)
    OBVIOUS
  <2>3. CASE m = b
    <3>1. Replay(t, l, b, m) = t /\ Replay(s, l, b, m) = s
      BY <2>3, ReplayNone
    <3>2. Apply(t, n, l[n]) = Apply(s, n, l[n])
      BY <1>0, ApplyAgain
    <3>3. QED
      BY <2>2, <3>1, <3>2
  <2>4. CASE m > b
    <3> DEFINE k == m - 1
    <3>1. k \in Nat /\ b <= k /\ k < n /\ k + 1 = m /\ ~(m <= k) /\ k + 1 \in b + 1 .. to
      BY <2>2, <2>4
    <3>2. Same(k)
      BY <2>1, <3>1
    <3> HIDE DEF k, t, Bad
    <3>3. /\ Replay(t, l, b, k + 1) = Apply(Replay(t, l, b, k), k + 1, l[k + 1])
          /\ Replay(s, l, b, k + 1) = Apply(Replay(s, l, b, k), k + 1, l[k + 1])
      BY <3>1, ReplayOne
    <3>4. \A j \in b + 1 .. k : l[j] \in Command
      <4>1. \A j \in b + 1 .. k : j \in b + 1 .. to
        BY <3>1
      <4>2. QED
        BY <4>1
    <3>5. Replay(t, l, b, k) \in State /\ Replay(s, l, b, k) \in State /\ l[k + 1] \in Command
      BY <1>0, <3>1, <3>4, ReplayType
    <3>6. Apply(Apply(Replay(t, l, b, k), k + 1, l[k + 1]), n, l[n])
            = Apply(Apply(Replay(s, l, b, k), k + 1, l[k + 1]), n, l[n])
      BY <1>0, <3>1, <3>2, <3>5, ApplyBetween
    <3>7. Same(k + 1)
      BY <3>3, <3>6
    <3>8. QED
      BY <2>2, <3>1, <3>7
  <2>5. QED
    BY <2>2, <2>3, <2>4
<1>2. Replay(t, l, b, n) = Replay(s, l, b, n)
  <2> DEFINE m == n - 1
  <2>1. m \in Nat /\ b <= m /\ m < n /\ m + 1 = n
    OBVIOUS
  <2>2. Same(m)
    BY <1>1, <2>1
  <2> HIDE DEF m, t, Bad
  <2>3. /\ Replay(t, l, b, m + 1) = Apply(Replay(t, l, b, m), m + 1, l[m + 1])
        /\ Replay(s, l, b, m + 1) = Apply(Replay(s, l, b, m), m + 1, l[m + 1])
    BY <2>1, ReplayOne
  <2>4. QED
    BY <2>1, <2>2, <2>3
<1> HIDE DEF t
<1>3. /\ Replay(t, l, b, to) = Replay(Replay(t, l, b, n), l, n, to)
      /\ Replay(s, l, b, to) = Replay(Replay(s, l, b, n), l, n, to)
  BY ReplayOn
<1>4. QED
  BY <1>2, <1>3 DEF t

\* So is a whole run of them.
LEMMA RunAbsorbed ==
  ASSUME NEW s \in State, NEW l, NEW b \in Nat, NEW p \in Nat, NEW q \in Nat, NEW to \in Nat,
         b <= p, p <= q, q <= to, \A k \in b + 1 .. to : l[k] \in Command
  PROVE  Replay(Replay(s, l, p, q), l, b, to) = Replay(s, l, b, to)
<1> DEFINE Same(n) == Replay(Replay(s, l, p, n), l, b, to) = Replay(s, l, b, to)
           Bad == {n \in Nat : p <= n /\ n <= to /\ ~Same(n)}
<1> SUFFICES ASSUME Bad # {} PROVE FALSE
  OBVIOUS
<1>1. PICK n \in Bad : \A m \in Bad : n <= m
  <2>1. Bad \in SUBSET Nat
    OBVIOUS
  <2> HIDE DEF Bad
  <2>2. QED
    BY <2>1, LeastOf
<1>2. n \in Nat /\ p <= n /\ n <= to /\ ~Same(n)
  OBVIOUS
<1>3. CASE n = p
  BY <1>2, <1>3, ReplayNone
<1>4. CASE n > p
  <2> DEFINE m == n - 1
  <2>1. m \in Nat /\ p <= m /\ m <= to /\ m + 1 = n /\ ~(n <= m) /\ m + 1 \in Nat /\ m + 1 <= to /\ b < m + 1
    BY <1>2, <1>4
  <2>2. Same(m)
    BY <1>1, <2>1
  <2> HIDE DEF m, Bad
  <2>3. \A j \in p + 1 .. m : l[j] \in Command
    <3>1. \A j \in p + 1 .. m : j \in b + 1 .. to
      BY <2>1
    <3>2. QED
      BY <3>1
  <2>4. Replay(s, l, p, m) \in State
    BY <2>1, <2>3, ReplayType
  <2>5. Replay(s, l, p, m + 1) = Apply(Replay(s, l, p, m), m + 1, l[m + 1])
    BY <2>1, ReplayOne
  <2> DEFINE r == Replay(s, l, p, m)
  <2>6. Replay(Apply(r, m + 1, l[m + 1]), l, b, to) = Replay(r, l, b, to)
    <3> HIDE DEF r
    <3>1. r \in State
      BY <2>4 DEF r
    <3>2. QED
      BY <2>1, <3>1, Absorbed
  <2>7. Same(m + 1)
    BY <2>2, <2>5, <2>6
  <2>8. QED
    BY <1>2, <2>1, <2>7
<1>5. QED
  BY <1>2, <1>3, <1>4

-----------------------------------------------------------------------------
(* s is the state of some member that has been handed the commands of l up to k *)
(* at least: from any point until k on, the rest of l leads to one state.    *)
Reaches(s, k, l) ==
  s \in State /\ \A b \in 0 .. k : Replay(s, l, b, Len(l)) = Replay(EmptyState, l, 0, Len(l))

LEMMA ReachesHandedOver ==
  ASSUME NEW l \in Seq(Command), NEW s, NEW k \in Nat, NEW m \in Nat, k <= m, m <= Len(l),
         Reaches(s, k, l)
  PROVE  Reaches(Replay(s, l, k, m), m, l)
<1>0. s \in State /\ Len(l) \in Nat /\ \A j \in Nat : \A i \in j + 1 .. Len(l) : l[i] \in Command
  BY DEF Reaches
<1>1. ASSUME NEW j \in Nat, k <= j, j <= m PROVE Replay(s, l, k, j) \in State
  <2>1. \A i \in k + 1 .. j : i \in k + 1 .. Len(l)
    BY <1>0, <1>1
  <2>2. \A i \in k + 1 .. j : l[i] \in Command
    BY <1>0, <2>1
  <2>3. QED
    BY <1>0, <1>1, <2>2, ReplayType
<1>2. ASSUME NEW b \in 0 .. m
      PROVE  Replay(Replay(s, l, k, m), l, b, Len(l)) = Replay(EmptyState, l, 0, Len(l))
  <2>1. CASE b <= k
    <3>1. Replay(Replay(s, l, k, m), l, b, Len(l)) = Replay(s, l, b, Len(l))
      BY <1>0, <2>1, RunAbsorbed
    <3>2. b \in 0 .. k
      BY <2>1
    <3>3. QED
      BY <3>1, <3>2 DEF Reaches
  <2>2. CASE b > k
    <3> DEFINE t == Replay(s, l, k, b)
    <3>1. t \in State
      BY <1>1, <2>2
    <3>2. Replay(s, l, k, m) = Replay(t, l, b, m)
      BY <2>2, ReplayOn
    <3>3. Replay(t, l, b, Len(l)) = Replay(s, l, k, Len(l))
      BY <1>0, <2>2, ReplayOn
    <3> HIDE DEF t
    <3>4. Replay(Replay(t, l, b, m), l, b, Len(l)) = Replay(t, l, b, Len(l))
      BY <1>0, <3>1, RunAbsorbed
    <3>5. Replay(s, l, k, Len(l)) = Replay(EmptyState, l, 0, Len(l))
      BY DEF Reaches
    <3>6. QED
      BY <3>2, <3>3, <3>4, <3>5
  <2>3. QED
    BY <2>1, <2>2
<1>3. QED
  BY <1>1, <1>2 DEF Reaches

LEMMA ReachesLonger ==
  ASSUME NEW l \in Seq(Command), NEW l2 \in Seq(Command), Len(l) <= Len(l2),
         \A k \in 1 .. Len(l) : l[k] = l2[k],
         NEW s, NEW k \in Nat, k <= Len(l), Reaches(s, k, l)
  PROVE  Reaches(s, k, l2)
<1>0. Len(l) \in Nat /\ Len(l2) \in Nat
  OBVIOUS
<1>1. ASSUME NEW x, NEW b \in 0 .. Len(l)
      PROVE  Replay(x, l2, b, Len(l2)) = Replay(Replay(x, l, b, Len(l)), l2, Len(l), Len(l2))
  <2>1. Replay(x, l2, b, Len(l2)) = Replay(Replay(x, l2, b, Len(l)), l2, Len(l), Len(l2))
    BY <1>0, ReplayOn
  <2>2. \A j \in b + 1 .. Len(l) : l[j] = l2[j]
    BY <1>0
  <2>3. Replay(x, l, b, Len(l)) = Replay(x, l2, b, Len(l))
    BY <1>0, <2>2, ReplayReads
  <2>4. QED
    BY <2>1, <2>3
<1>2. ASSUME NEW b \in 0 .. k
      PROVE  Replay(s, l2, b, Len(l2)) = Replay(EmptyState, l2, 0, Len(l2))
  <2>1. b \in 0 .. Len(l) /\ 0 \in 0 .. Len(l)
    BY <1>0
  <2>2. Replay(s, l, b, Len(l)) = Replay(EmptyState, l, 0, Len(l))
    BY DEF Reaches
  <2>3. QED
    BY <1>1, <2>1, <2>2
<1>3. QED
  BY <1>2 DEF Reaches

LEMMA ReachesSooner ==
  ASSUME NEW s, NEW l, NEW k \in Nat, NEW m \in Nat, k <= m, Reaches(s, m, l)
  PROVE  Reaches(s, k, l)
<1>1. \A b \in 0 .. k : b \in 0 .. m
  OBVIOUS
<1>2. QED
  BY <1>1 DEF Reaches

\* Every member is on its way to the agreed state, from memory and from disk, and
\* so is the data of a snapshot, unless a late one has taken it back.
OnTheWay ==
  /\ \A i \in Member : /\ i \notin setBack => Reaches(state[i], commit[i], agreed)
                       /\ i \notin savedBack => Reaches(saved[i], base[i], agreed)
  /\ \A m \in snapshots :
       m.upto <= Len(agreed) /\ (m.base <= m.upto => Reaches(m.data, m.upto, agreed))

StatesAreThere ==
  /\ state \in [Member -> State] /\ saved \in [Member -> State]
  /\ snapshots \subseteq Snapshot /\ setBack \subseteq Member /\ savedBack \subseteq Member

ReplicaInv == ClusterInv /\ SnapshotsFollow /\ StatesAreThere /\ OnTheWay

LEMMA ReplicaInitially == ClusterInit => ReplicaInv
<1> SUFFICES ASSUME ClusterInit PROVE ReplicaInv
  OBVIOUS
<1>1. EmptyState \in State
  BY DEF EmptyState, State, Maybe
<1>2. Reaches(EmptyState, 0, agreed)
  <2>1. agreed = <<>> /\ Len(agreed) = 0
    BY EmptySeq DEF ClusterInit
  <2>2. \A b \in 0 .. 0 : b = 0
    OBVIOUS
  <2>3. QED
    BY <1>1, <2>1, <2>2 DEF Reaches
<1>3. QED
  BY <1>1, <1>2, ClusterInitially
     DEF ClusterInit, ReplicaInv, SnapshotsFollow, StatesAreThere, OnTheWay

\* A member handed commands of a log that holds the agreed ones so far
LEMMA HandOverStep ==
  ASSUME NEW a \in Seq(Command), NEW s \in State, NEW c \in Nat, NEW k \in Nat, NEW l,
         c <= k, k <= Len(a), \A m \in 1 .. k : l[m] = a[m]
  PROVE  /\ Replay(s, l, c, k) \in State
         /\ Reaches(s, c, a) => Reaches(Replay(s, l, c, k), k, a)
<1>1. Len(a) \in Nat /\ \A m \in c + 1 .. k : l[m] = a[m] /\ a[m] \in Command
  OBVIOUS
<1>2. Replay(s, l, c, k) = Replay(s, a, c, k)
  BY <1>1, ReplayReads
<1>3. Replay(s, a, c, k) \in State
  BY <1>1, ReplayType
<1>4. QED
  BY <1>2, <1>3, ReachesHandedOver

\* The data of a snapshot is what its receiver is on its way with, unless the
\* history says that it has taken the receiver back.
LEMMA InstallReplica ==
  ASSUME ReplicaInv, ClusterInv', NEW m \in snapshots, InstallSnapshot(m)
  PROVE  StatesAreThere' /\ OnTheWay'
<1> DEFINE j == m.to
           c == commit'[j]
<1>1. /\ j \in Member /\ m \in Snapshot /\ m.base \in Nat /\ m.upto \in Nat /\ m.data \in State
      /\ agreed' = agreed /\ snapshots' \subseteq snapshots
      /\ StatesAreThere /\ OnTheWay
      /\ Install(m, j, m.data) \/ UNCHANGED <<onDisk, state, setBack, savedBack>>
  BY DEF ReplicaInv, SnapshotsFollow, StatesAreThere, Snapshot, InstallSnapshot, Follow, HaveThisOrNewer
<1>2. CASE UNCHANGED <<onDisk, state, setBack, savedBack>>
  BY <1>1, <1>2 DEF onDisk, StatesAreThere, OnTheWay
<1>3. CASE Install(m, j, m.data)
  <2>1. /\ commit' = [commit EXCEPT ![j] = IF @ < m.base THEN m.base ELSE @]
        /\ base' = [base EXCEPT ![j] = m.base]
        /\ saved' = [saved EXCEPT ![j] = m.data] /\ state' = [state EXCEPT ![j] = m.data]
        /\ setBack' = Mark(setBack, j, m.upto < c) /\ savedBack' = Mark(savedBack, j, m.upto < m.base)
    BY <1>3 DEF Install
  <2>2. base \in [Member -> Nat] /\ commit \in [Member -> Nat]
    BY DEF ReplicaInv, ClusterInv, ClusterShape
  <2>3. c \in Nat /\ m.base <= c
    BY <1>1, <2>1, <2>2
  <2>4. StatesAreThere'
    BY <1>1, <2>1 DEF StatesAreThere, Mark
  <2>5. m.base <= m.upto => Reaches(m.data, m.upto, agreed)
    BY <1>1 DEF OnTheWay
  <2>6. j \notin setBack' => Reaches(m.data, c, agreed)
    <3>1. j \notin setBack' => c <= m.upto
      BY <1>1, <2>1, <2>3 DEF Mark
    <3> HIDE DEF c, j
    <3>2. QED
      BY <1>1, <2>3, <2>5, <3>1, ReachesSooner
  <2>7. j \notin savedBack' => Reaches(m.data, m.base, agreed)
    <3>1. j \notin savedBack' => m.base <= m.upto
      BY <1>1, <2>1 DEF Mark
    <3> HIDE DEF j
    <3>2. QED
      BY <1>1, <2>5, <3>1, ReachesSooner
  <2>8. \A i \in Member : i # j => /\ state'[i] = state[i] /\ saved'[i] = saved[i]
                                   /\ commit'[i] = commit[i] /\ base'[i] = base[i]
                                   /\ i \in setBack <=> i \in setBack'
                                   /\ i \in savedBack <=> i \in savedBack'
    BY <1>1, <2>1, <2>2 DEF StatesAreThere, Mark
  <2>9. state'[j] = m.data /\ saved'[j] = m.data /\ base'[j] = m.base
    BY <1>1, <2>1, <2>2 DEF StatesAreThere
  <2> HIDE DEF j
  <2>10. \A i \in Member : /\ i \notin setBack' => Reaches(state'[i], commit'[i], agreed)
                           /\ i \notin savedBack' => Reaches(saved'[i], base'[i], agreed)
    BY <1>1, <2>6, <2>7, <2>8, <2>9 DEF OnTheWay
  <2>11. \A x \in snapshots' : x.upto <= Len(agreed) /\ (x.base <= x.upto => Reaches(x.data, x.upto, agreed))
    BY <1>1 DEF OnTheWay
  <2>12. QED
    BY <1>1, <2>4, <2>10, <2>11 DEF OnTheWay
<1>4. QED
  BY <1>1, <1>2, <1>3

\* A snapshot is sent with a state that has been handed at least its base, or with one taken back.
LEMMA SendReplica ==
  ASSUME ReplicaInv, NEW j \in Member, SendSnapshot(j)
  PROVE  StatesAreThere' /\ OnTheWay'
<1> DEFINE x == [to |-> j, reign |-> reign, base |-> base[leader],
                 upto |-> IF leader \in setBack THEN 0 ELSE commit[leader], data |-> state[leader]]
<1>1. /\ leader \in Member /\ base[j] < base[leader] /\ snapshots' = snapshots \cup {x}
      /\ UNCHANGED <<agreed, commit, base, state, saved, setBack, savedBack>>
  BY DEF SendSnapshot, onDisk, ReplicaInv, ClusterInv, ClusterShape, Maybe
<1>2. /\ base[j] \in Nat /\ base[leader] \in Nat /\ commit[leader] \in Nat /\ reign \in Nat
      /\ commit[leader] <= Len(agreed) /\ Len(agreed) \in Nat
      /\ StatesAreThere /\ OnTheWay
  BY <1>1, LenProperties DEF ReplicaInv, ClusterInv, ClusterShape, LogsAgreed, HoldsUpTo
<1>3. x \in Snapshot
  BY <1>1, <1>2 DEF StatesAreThere, Snapshot
<1>4. /\ x.data = state[leader] /\ x.base = base[leader] /\ x.base # 0
      /\ x.upto = IF leader \in setBack THEN 0 ELSE commit[leader]
  BY <1>1, <1>2
<1> HIDE DEF x
<1>5. x.upto <= Len(agreed) /\ (x.base <= x.upto => Reaches(x.data, x.upto, agreed))
  <2>1. CASE leader \in setBack
    BY <1>1, <1>2, <1>4, <2>1
  <2>2. CASE leader \notin setBack
    BY <1>1, <1>2, <1>4, <2>2 DEF OnTheWay
  <2>3. QED
    BY <2>1, <2>2
<1>6. StatesAreThere'
  BY <1>1, <1>2, <1>3 DEF StatesAreThere
<1>7. OnTheWay'
  BY <1>1, <1>2, <1>5 DEF OnTheWay
<1>8. QED
  BY <1>6, <1>7

LEMMA ReplicaStep == ReplicaInv /\ ClusterInv' /\ [ClusterNext]_clusterVars => StatesAreThere' /\ OnTheWay'
<1> SUFFICES ASSUME ReplicaInv, ClusterInv', [ClusterNext]_clusterVars
             PROVE  StatesAreThere' /\ OnTheWay'
  OBVIOUS
<1>0. /\ ClusterInv /\ StatesAreThere /\ OnTheWay
      /\ agreed \in Seq(Command) /\ Len(agreed) \in Nat
      /\ agreed' \in Seq(Command) /\ Len(agreed') \in Nat
      /\ \A i \in Member : commit[i] \in Nat /\ base[i] \in Nat /\ base[i] <= commit[i]
      /\ \A i \in Member : commit[i] <= Len(agreed)
      /\ commit \in [Member -> Nat] /\ base \in [Member -> Nat] /\ entries \in [Member -> Seq(Command)]
      /\ leader \in Maybe(Member)
  BY DEF ReplicaInv, ClusterInv, ClusterShape, LogsAgreed, HoldsUpTo
<1>1. ASSUME UNCHANGED <<agreed, commit, base, state, saved, setBack, savedBack>>, snapshots' \subseteq snapshots
      PROVE  StatesAreThere' /\ OnTheWay'
  BY <1>0, <1>1 DEF StatesAreThere, OnTheWay
\* Member i has been handed the commands of log l up to k.
<1>2. ASSUME NEW i \in Member, NEW l, NEW k \in Nat, commit[i] <= k, k <= Len(agreed'),
             \A n \in 1 .. k : l[n] = agreed'[n],
             Len(agreed) <= Len(agreed'), \A n \in 1 .. Len(agreed) : agreed[n] = agreed'[n],
             commit' = [commit EXCEPT ![i] = k],
             state' = [state EXCEPT ![i] = Replay(@, l, commit[i], k)],
             UNCHANGED <<base, saved, setBack, savedBack>>, snapshots' \subseteq snapshots
      PROVE  StatesAreThere' /\ OnTheWay'
  <2>1. ASSUME NEW s, NEW n \in Nat, n <= Len(agreed), Reaches(s, n, agreed) PROVE Reaches(s, n, agreed')
    BY <1>0, <1>2, <2>1, ReachesLonger
  <2> DEFINE r == Replay(state[i], l, commit[i], k)
  <2>2. r \in State /\ (Reaches(state[i], commit[i], agreed') => Reaches(r, k, agreed'))
    <3>1. state[i] \in State
      BY <1>0 DEF StatesAreThere
    <3>2. QED
      BY <1>0, <1>2, <3>1, HandOverStep
  <2> HIDE DEF r
  <2>3. state' = [state EXCEPT ![i] = r]
    BY <1>2 DEF r
  <2>4. StatesAreThere'
    BY <1>0, <1>2, <2>2, <2>3 DEF StatesAreThere
  <2>5. ASSUME NEW j \in Member, j \notin setBack PROVE Reaches(state'[j], commit'[j], agreed')
    <3>1. Reaches(state[j], commit[j], agreed')
      BY <1>0, <2>1, <2>5 DEF OnTheWay
    <3>2. QED
      BY <1>0, <1>2, <2>2, <2>3, <3>1 DEF StatesAreThere
  <2>6. ASSUME NEW j \in Member, j \notin savedBack PROVE Reaches(saved[j], base[j], agreed')
    <3>1. base[j] \in Nat /\ base[j] <= Len(agreed) /\ Reaches(saved[j], base[j], agreed)
      BY <1>0, <2>6 DEF OnTheWay
    <3>2. QED
      BY <2>1, <3>1
  <2>7. ASSUME NEW m \in snapshots
        PROVE  m.upto <= Len(agreed') /\ (m.base <= m.upto => Reaches(m.data, m.upto, agreed'))
    <3>1. m.upto \in Nat /\ m.upto <= Len(agreed) /\ (m.base <= m.upto => Reaches(m.data, m.upto, agreed))
      BY <1>0 DEF OnTheWay, StatesAreThere, Snapshot
    <3>2. QED
      BY <1>0, <1>2, <2>1, <3>1
  <2>8. QED
    BY <1>2, <2>4, <2>5, <2>6, <2>7 DEF OnTheWay
<1>3. ASSUME NEW i \in Member, NEW k \in 1 .. MaxEntries, Commit(i, k)
      PROVE  StatesAreThere' /\ OnTheWay'
  <2>1. /\ commit[i] < k /\ k \in Nat /\ commit' = [commit EXCEPT ![i] = k]
        /\ state' = [state EXCEPT ![i] = Replay(@, entries[i], commit[i], k)]
        /\ UNCHANGED <<entries, base, saved, setBack, savedBack, snapshots>>
    BY <1>3 DEF Commit, HandOver, snapVars
  <2>2. Len(agreed) <= Len(agreed') /\ \A m \in 1 .. Len(agreed) : agreed[m] = agreed'[m]
    <3>1. ClusterNext
      BY <1>3 DEF ClusterNext
    <3>2. QED
      BY <3>1, CommitsRise DEF ReplicaInv
  <2>3. k <= Len(agreed') /\ \A m \in 1 .. k : entries[i][m] = agreed'[m]
    <3>1. HoldsUpTo(entries[i], commit[i])'
      BY DEF ClusterInv, LogsAgreed
    <3>2. commit'[i] = k
      BY <1>0, <2>1
    <3>3. QED
      BY <2>1, <3>1, <3>2 DEF HoldsUpTo
  <2>4. commit[i] <= k /\ snapshots' \subseteq snapshots
    BY <1>0, <2>1
  <2>5. QED
    BY <1>2, <2>1, <2>2, <2>3, <2>4
<1>4. ASSUME NEW j \in Member, Replicate(j) PROVE StatesAreThere' /\ OnTheWay'
  <2>1. UNCHANGED <<base, saved, agreed, setBack, savedBack>> /\ leader \in Member /\ snapshots' \subseteq snapshots
    BY <1>0, <1>4 DEF Replicate, Maybe
  <2>2. CASE ~(commit[leader] > commit[j])
    <3>1. commit' = commit /\ state' = state
      BY <1>4, <2>2 DEF Replicate
    <3>2. QED
      BY <1>1, <2>1, <3>1
  <2>3. CASE commit[leader] > commit[j]
    <3> DEFINE k == commit[leader]
               l == entries'[j]
    <3>1. /\ commit' = [commit EXCEPT ![j] = k]
          /\ state' = [state EXCEPT ![j] = Replay(@, l, commit[j], k)]
      BY <1>4, <2>3 DEF Replicate, HandOver
    <3>2. k \in Nat /\ commit[j] <= k /\ k <= Len(agreed)
      BY <1>0, <2>1, <2>3
    <3>3. \A m \in 1 .. k : l[m] = agreed[m]
      <4>1. HoldsUpTo(entries[j], commit[j])'
        BY DEF ClusterInv, LogsAgreed
      <4>2. commit'[j] = k
        BY <1>0, <3>1
      <4>3. QED
        BY <2>1, <4>1, <4>2 DEF HoldsUpTo
    <3> HIDE DEF k, l
    <3>4. k <= Len(agreed') /\ \A m \in 1 .. k : l[m] = agreed'[m]
      BY <2>1, <3>2, <3>3
    <3>5. Len(agreed) <= Len(agreed') /\ \A m \in 1 .. Len(agreed) : agreed[m] = agreed'[m]
      BY <1>0, <2>1
    <3>6. QED
      BY <1>2, <2>1, <3>1, <3>2, <3>4, <3>5
  <2>4. QED
    BY <2>2, <2>3
<1>5. ASSUME NEW i \in Member, NEW k \in 1 .. MaxEntries, CompactLog(i, k)
      PROVE  StatesAreThere' /\ OnTheWay'
  <2>1. /\ k <= commit[i] /\ base' = [base EXCEPT ![i] = k] /\ saved' = [saved EXCEPT ![i] = state[i]]
        /\ savedBack' = Mark(savedBack, i, i \in setBack)
        /\ UNCHANGED <<agreed, commit, state, snapshots, setBack>>
    BY <1>5 DEF CompactLog
  <2>2. i \notin setBack => Reaches(state[i], k, agreed)
    BY <1>0, <2>1, ReachesSooner DEF OnTheWay
  <2>3. StatesAreThere'
    BY <1>0, <2>1 DEF StatesAreThere, Mark
  <2>4. ASSUME NEW j \in Member, j \notin savedBack' PROVE Reaches(saved'[j], base'[j], agreed)
    BY <1>0, <2>1, <2>2, <2>4 DEF OnTheWay, StatesAreThere, Mark
  <2>5. QED
    BY <1>0, <2>1, <2>3, <2>4 DEF OnTheWay
<1>6. ASSUME NEW i \in Member, RestartMember(i) PROVE StatesAreThere' /\ OnTheWay'
  <2> DEFINE r == Replay(saved[i], entries[i], base[i], commit[i])
  <2>1. /\ state' = [state EXCEPT ![i] = r] /\ setBack' = Mark(setBack, i, i \in savedBack)
        /\ UNCHANGED <<agreed, commit, base, saved, snapshots, savedBack>>
    BY <1>6 DEF RestartMember, Restored, onDisk
  <2>2. \A m \in 1 .. commit[i] : entries[i][m] = agreed[m]
    BY <1>0 DEF ClusterInv, LogsAgreed, HoldsUpTo
  <2>3. r \in State /\ (Reaches(saved[i], base[i], agreed) => Reaches(r, commit[i], agreed))
    <3>1. saved[i] \in State
      BY <1>0 DEF StatesAreThere
    <3>2. QED
      BY <1>0, <2>2, <3>1, HandOverStep
  <2> HIDE DEF r
  <2>4. StatesAreThere'
    BY <1>0, <2>1, <2>3 DEF StatesAreThere, Mark
  <2>5. ASSUME NEW j \in Member, j \notin setBack' PROVE Reaches(state'[j], commit[j], agreed)
    BY <1>0, <2>1, <2>3, <2>5 DEF OnTheWay, StatesAreThere, Mark
  <2>6. QED
    BY <1>0, <2>1, <2>4, <2>5 DEF OnTheWay
<1>7. CASE ClusterNext
  <2>1. CASE Tick
    BY <1>1, <2>1 DEF Tick, onDisk, snapVars
  <2>2. ASSUME NEW i \in Member, Elect(i) \/ Proceed(i) \/ GiveUp(i)
        PROVE  StatesAreThere' /\ OnTheWay'
    BY <1>1, <2>2 DEF Elect, Proceed, GiveUp, onDisk, snapVars
  <2>3. ASSUME NEW i \in Member, NEW cs, ProposeAll(i, cs)
        PROVE  StatesAreThere' /\ OnTheWay'
    BY <1>1, <2>3 DEF ProposeAll, snapVars
  <2>4. ASSUME NEW i \in Member, LeaderTick(i) \/ \E j \in Member : PeerUnreachable(i, j)
        PROVE  StatesAreThere' /\ OnTheWay'
    BY <2>3, <2>4 DEF LeaderTick, PeerUnreachable, RequeueAll
  <2>5. ASSUME NEW i \in Member, Finish(i) \/ \E t \in TaskId : Acquire(i, t)
        PROVE  StatesAreThere' /\ OnTheWay'
    BY <2>3, <2>5 DEF Finish, Acquire, ProposeOne
  <2>6. ASSUME NEW i \in Member, NEW s \in Subject, PublishEvidence(i, s) \/ RecordDecision(i, s)
        PROVE  StatesAreThere' /\ OnTheWay'
    BY <2>3, <2>6 DEF PublishEvidence, RecordDecision, ProposeOne
  <2>7. ASSUME NEW m \in snapshots, LoseSnapshot(m) PROVE StatesAreThere' /\ OnTheWay'
    BY <1>1, <2>7 DEF LoseSnapshot, onDisk
  <2>8. ASSUME NEW m \in snapshots, InstallSnapshot(m) PROVE StatesAreThere' /\ OnTheWay'
    BY <2>8, InstallReplica
  <2>9. ASSUME NEW j \in Member, SendSnapshot(j) PROVE StatesAreThere' /\ OnTheWay'
    BY <2>9, SendReplica
  <2>10. QED
    BY <1>3, <1>4, <1>5, <1>6, <1>7, <2>1, <2>2, <2>4, <2>5, <2>6, <2>7, <2>8, <2>9 DEF ClusterNext
<1>8. CASE UNCHANGED clusterVars
  BY <1>1, <1>8 DEF clusterVars, onDisk, snapVars
<1>9. QED
  BY <1>7, <1>8

LEMMA ReplicaInvariant == ClusterSpec => []ReplicaInv
<1>1. ReplicaInv /\ [ClusterNext]_clusterVars => ReplicaInv'
  <2>1. ReplicaInv /\ [ClusterNext]_clusterVars => ClusterInv' /\ SnapshotsFollow'
    BY ClusterStep, SnapshotsStep DEF ReplicaInv
  <2>2. QED
    BY <2>1, ReplicaStep DEF ReplicaInv
<1>2. QED
  BY <1>1, ReplicaInitially, PTL DEF ClusterSpec

\* Whatever was compacted under a label older than its data, sent to a follower,
\* delivered late or lost, applied a second time or replayed after a crash: handed
\* the rest of the agreed commands, a cluster node comes to the one state they
\* define, from memory and from its disk.  The exception is a state that a
\* snapshot captured before its receiver's last commits has replaced, until the
\* receiver restarts or takes a newer one: compact_log and handle_install_snapshot
\* leave no other way to diverge.
THEOREM ReplicasAgree == ClusterSpec => []ReplicasConverge
<1>1. ReplicaInv => ReplicasConverge
  <2> SUFFICES ASSUME ReplicaInv, NEW i \in Member
               PROVE  /\ i \notin setBack => Converges(state[i], commit[i])
                      /\ i \notin savedBack => Converges(saved[i], base[i])
    BY DEF ReplicasConverge
  <2>1. commit[i] \in 0 .. commit[i] /\ base[i] \in 0 .. base[i]
    BY DEF ReplicaInv, ClusterInv, ClusterShape
  <2>2. /\ i \notin setBack => Reaches(state[i], commit[i], agreed)
        /\ i \notin savedBack => Reaches(saved[i], base[i], agreed)
    BY DEF ReplicaInv, OnTheWay
  <2>3. QED
    BY <2>1, <2>2 DEF Reaches, Converges
<1>2. QED
  BY <1>1, ReplicaInvariant, PTL

-----------------------------------------------------------------------------
(* SandboxPool *)

\* The count is exact, and a child that has not ended has a thread waiting for it.
CountIsExact ==
  /\ activeCount = Cardinality(Waited)
  /\ \A j \in Job : Alive(j) => j \in Waited

PoolInv == PoolTypeOK /\ IsFiniteSet(Waited) /\ CountIsExact

LEMMA PoolInitially == PoolInit => PoolInv
<1> SUFFICES ASSUME PoolInit PROVE PoolInv
  OBVIOUS
<1>1. Waited = {}
  BY DEF PoolInit, Waited
<1>2. IsFiniteSet(Waited) /\ Cardinality(Waited) = 0
  BY <1>1, FS_EmptySet
<1>3. activeCount \in 0 .. PoolSize
  BY PoolAssumption DEF PoolInit
<1>4. stage \in [Job -> Stages] /\ child \in [Job -> Children] /\ answer \in [Job -> Answers]
  BY DEF PoolInit, Stages, Children, Answers
<1>5. QED
  BY <1>2, <1>3, <1>4 DEF PoolInit, PoolInv, PoolTypeOK, CountIsExact, Alive

\* A thread is done with job j, which was answered a.
LEMMA LeaveStep ==
  ASSUME PoolInv, NEW j \in Waited, NEW a \in Answers, Answered(j, a),
         child' \in [Job -> Children], ~Alive(j)', \A i \in Job : i # j => child'[i] = child[i],
         activeCount' = activeCount - 1, shutDown' = shutDown
  PROVE  PoolInv'
<1>1. PoolTypeOK /\ IsFiniteSet(Waited) /\ activeCount = Cardinality(Waited) /\ j \in Job
  BY DEF PoolInv, CountIsExact, Waited
<1>2. stage' = [stage EXCEPT ![j] = "done"] /\ answer' = [answer EXCEPT ![j] = a]
  BY DEF Answered
<1>3. Waited' = Waited \ {j}
  BY <1>1, <1>2 DEF Waited, PoolTypeOK
<1>4. IsFiniteSet(Waited') /\ Cardinality(Waited') = activeCount - 1
  BY <1>1, <1>3, FS_RemoveElement
<1>5. Cardinality(Waited') \in Nat
  BY <1>4, FS_CardinalityType
<1>6. activeCount' \in 0 .. PoolSize
  BY <1>1, <1>4, <1>5, PoolAssumption DEF PoolTypeOK
<1>7. PoolTypeOK'
  BY <1>1, <1>2, <1>6 DEF PoolTypeOK, Stages
<1>8. \A i \in Job : Alive(i)' => i \in Waited'
  BY <1>3 DEF PoolInv, CountIsExact, Alive
<1>9. QED
  BY <1>4, <1>7, <1>8 DEF PoolInv, CountIsExact

LEMMA StartJobStep ==
  ASSUME PoolInv, NEW j \in Job, StartJob(j)
  PROVE  PoolInv'
<1>1. PoolTypeOK /\ IsFiniteSet(Waited) /\ activeCount = Cardinality(Waited)
  BY DEF PoolInv, CountIsExact
<1>2. /\ stage' = [stage EXCEPT ![j] = "joining"] /\ child' = [child EXCEPT ![j] = "running"]
      /\ activeCount' = activeCount + 1 /\ activeCount < PoolSize /\ j \notin Waited
      /\ UNCHANGED <<answer, shutDown>>
  BY <1>1 DEF StartJob, Waited
<1>3. Waited' = Waited \cup {j}
  BY <1>1, <1>2 DEF Waited, PoolTypeOK
<1>4. IsFiniteSet(Waited') /\ Cardinality(Waited') = activeCount + 1
  BY <1>1, <1>2, <1>3, FS_AddElement
<1>5. PoolTypeOK'
  BY <1>1, <1>2, PoolAssumption DEF PoolTypeOK, Stages, Children
<1>6. \A i \in Job : Alive(i)' => i \in Waited'
  BY <1>1, <1>2, <1>3 DEF PoolInv, CountIsExact, Alive, PoolTypeOK
<1>7. QED
  BY <1>2, <1>4, <1>5, <1>6 DEF PoolInv, CountIsExact

LEMMA PoolStep == PoolInv /\ [PoolNext]_poolVars => PoolInv'
<1> SUFFICES ASSUME PoolInv, [PoolNext]_poolVars PROVE PoolInv'
  OBVIOUS
<1>1. PoolTypeOK /\ CountIsExact
  BY DEF PoolInv
<1>2. ASSUME UNCHANGED activeCount, PoolTypeOK', Waited' = Waited, \A i \in Job : Alive(i)' => Alive(i)
      PROVE  PoolInv'
  BY <1>2 DEF PoolInv, CountIsExact
<1>3. ASSUME NEW j \in Job, CallUnbound(j) \/ Submit(j) PROVE PoolInv'
  <2>1. /\ stage[j] = "new" /\ UNCHANGED <<child, activeCount, shutDown>>
        /\ \E s \in {"queued", "done"} : stage' = [stage EXCEPT ![j] = s]
        /\ answer' \in [Job -> Answers]
    BY <1>1, <1>3 DEF CallUnbound, Submit, Answered, PoolTypeOK, Answers
  <2>2. PoolTypeOK' /\ Waited' = Waited
    BY <1>1, <2>1 DEF PoolTypeOK, Stages, Waited
  <2>3. QED
    BY <1>2, <2>1, <2>2 DEF Alive
<1>4. ASSUME NEW j \in Job, ChildStep(j) PROVE PoolInv'
  BY <1>1, <1>2, <1>4 DEF ChildStep, PoolTypeOK, Children, Alive, Waited
<1>5. ASSUME NEW j \in Job, JoinTimesOut(j) \/ ReadPartial(j) \/ Terminate(j) PROVE PoolInv'
  <2>1. /\ stage[j] \in {"joining", "killing"} /\ UNCHANGED <<answer, activeCount, shutDown>>
        /\ \E s \in {"killing", "reading", "reaping"} : stage' = [stage EXCEPT ![j] = s]
        /\ child' = child \/ child' = [child EXCEPT ![j] = "killed"]
    <3>1. CASE JoinTimesOut(j) \/ ReadPartial(j)
      BY <3>1 DEF JoinTimesOut, ReadPartial
    <3>2. CASE Terminate(j)
      BY <1>1, <3>2 DEF Terminate, PoolTypeOK
    <3>3. QED
      BY <1>5, <3>1, <3>2
  <2>2. PoolTypeOK' /\ Waited' = Waited
    BY <1>1, <2>1 DEF PoolTypeOK, Stages, Children, Waited
  <2>3. \A i \in Job : Alive(i)' => Alive(i)
    BY <1>1, <2>1 DEF Alive, PoolTypeOK
  <2>4. QED
    BY <1>2, <2>1, <2>2, <2>3
<1>6. ASSUME NEW j \in Job, Reap(j) \/ Collect(j) PROVE PoolInv'
  <2>1. /\ stage[j] \in {"joining", "reaping"} /\ ~Alive(j) /\ UNCHANGED <<child, shutDown>>
        /\ activeCount' = activeCount - 1 /\ \E a \in Answers : Answered(j, a)
    BY <1>6 DEF Reap, Collect, Leave, Answers, Alive
  <2>2. child' \in [Job -> Children] /\ ~Alive(j)'
    BY <1>1, <2>1 DEF PoolTypeOK, Alive
  <2>3. QED
    BY <2>1, <2>2, LeaveStep DEF Waited
<1>8. ASSUME ShutDown \/ UNCHANGED poolVars PROVE PoolInv'
  BY <1>1, <1>2, <1>8 DEF ShutDown, poolVars, PoolTypeOK, Waited, Alive
<1>9. QED
  BY <1>3, <1>4, <1>5, <1>6, <1>8, StartJobStep DEF PoolNext

\* TaskScheduler and SandboxedExecutor: for any number of calls and any size of
\* the pool, _active_count is the number of jobs a thread is in, it never
\* exceeds max_concurrent_tasks, and no child is alive that no thread waits for:
\* a call is never answered while generated code still runs for it.
THEOREM PoolHoldsItsChildren == PoolSpec => [](PoolTypeOK /\ CountIsExact)
<1>1. PoolInv => PoolTypeOK /\ CountIsExact
  BY DEF PoolInv
<1>2. QED
  BY <1>1, PoolInitially, PoolStep, PTL DEF PoolSpec

-----------------------------------------------------------------------------
(* ClusterState: types and bounds; the parts side by side *)

ClusterBounds ==
  /\ leads \subseteq Member /\ leader \in Maybe(leads) /\ reign \in 0 .. MaxReign
  /\ \A i \in Member : Len(entries[i]) <= MaxEntries
  /\ Len(agreed) <= MaxEntries
  /\ restarts \in 0 .. MaxRestart

\* Nothing but a snapshot over a shorter log lengthens a log without a proposal,
\* and then only up to what is agreed.
LEMMA BoundsStep == ReplicaInv /\ ClusterBounds /\ [ClusterNext]_clusterVars => ClusterBounds'
<1> SUFFICES ASSUME ReplicaInv, ClusterBounds, [ClusterNext]_clusterVars PROVE ClusterBounds'
  OBVIOUS
<1>1. /\ entries \in [Member -> Seq(Command)] /\ commit \in [Member -> Nat] /\ base \in [Member -> Nat]
      /\ \A i \in Member : /\ Len(entries[i]) \in Nat /\ base[i] <= commit[i]
                           /\ commit[i] <= Len(entries[i]) /\ Len(entries[i]) <= MaxEntries
  BY LenProperties DEF ReplicaInv, ClusterInv, ClusterShape, LogsAgreed, HoldsUpTo, ClusterBounds
<1>2. leader # None => leader \in Member
  BY DEF ClusterBounds, Maybe
<1>0. Len(agreed') <= MaxEntries
  <2>1. ASSUME NEW i \in Member, NEW k \in 1 .. MaxEntries, Commit(i, k) PROVE Len(agreed') <= MaxEntries
    <3>1. k <= Len(entries[i]) /\ agreed' = IF k > Len(agreed) THEN SubSeq(entries[i], 1, k) ELSE agreed
      BY <2>1 DEF Commit
    <3>2. Len(SubSeq(entries[i], 1, k)) = k /\ k <= MaxEntries
      BY <1>1, <3>1, ClusterAssumption
    <3>3. QED
      BY <3>1, <3>2 DEF ClusterBounds
  <2>2. ASSUME NEW i \in Member, \/ Elect(i) \/ RestartMember(i) \/ Replicate(i) \/ SendSnapshot(i)
                                 \/ Proceed(i) \/ GiveUp(i)
                                 \/ \E k \in 1 .. MaxEntries : CompactLog(i, k)
        PROVE  agreed' = agreed
    BY <2>2 DEF Elect, RestartMember, Replicate, SendSnapshot, Proceed, GiveUp, CompactLog
  <2>3. ASSUME NEW i \in Member, NEW cs, ProposeAll(i, cs) PROVE agreed' = agreed
    BY <2>3 DEF ProposeAll
  <2>4. ASSUME NEW i \in Member, \/ LeaderTick(i) \/ Finish(i)
                                 \/ \E j \in Member : PeerUnreachable(i, j)
                                 \/ \E s \in Subject : PublishEvidence(i, s) \/ RecordDecision(i, s)
                                 \/ \E t \in TaskId : Acquire(i, t)
        PROVE  agreed' = agreed
    BY <2>3, <2>4 DEF LeaderTick, Finish, PeerUnreachable, PublishEvidence, RecordDecision, Acquire,
       RequeueAll, ProposeOne
  <2>5. ASSUME Tick \/ UNCHANGED clusterVars \/ \E m \in snapshots : LoseSnapshot(m) \/ InstallSnapshot(m)
        PROVE  agreed' = agreed
    BY <2>5 DEF Tick, clusterVars, LoseSnapshot, InstallSnapshot, Follow
  <2>6. CASE agreed' = agreed
    BY <2>6 DEF ClusterBounds
  <2>7. QED
    BY <2>1, <2>2, <2>4, <2>5, <2>6 DEF ClusterNext
<1>3. ASSUME UNCHANGED <<leads, leader, reign, restarts>>,
             \A i \in Member : Len(entries'[i]) <= MaxEntries
      PROVE  ClusterBounds'
  BY <1>0, <1>3 DEF ClusterBounds
<1>4. ASSUME NEW j \in Member, leader # j, leads' = leads \ {j}, UNCHANGED <<leader, reign, restarts>>,
             NEW l, entries' = [entries EXCEPT ![j] = l], Len(l) <= MaxEntries
      PROVE  ClusterBounds'
  BY <1>0, <1>1, <1>4 DEF ClusterBounds, Maybe
<1>5. ASSUME NEW j \in Member, Replicate(j) PROVE ClusterBounds'
  <2> DEFINE l == IF IsPrefix(entries[leader], entries[j]) THEN entries[j] ELSE entries[leader]
  <2>1. /\ leader # None /\ leader # j /\ leads' = leads \ {j} /\ UNCHANGED <<leader, reign, restarts>>
        /\ entries' = [entries EXCEPT ![j] = l]
    BY <1>1, <1>5 DEF Replicate
  <2>2. Len(l) <= MaxEntries
    BY <1>1, <1>2, <2>1
  <2> HIDE DEF l
  <2>3. QED
    BY <1>4, <2>1, <2>2
<1>6. ASSUME NEW m \in snapshots, InstallSnapshot(m) PROVE ClusterBounds'
  <2> DEFINE j == m.to
             b == m.base
             old == entries[j]
             l == Rebased(j, b)
  <2>1. /\ j \in Member /\ leader # j /\ leads' = leads \ {j} /\ UNCHANGED <<leader, reign, restarts>>
        /\ entries' = [entries EXCEPT ![j] = l] \/ UNCHANGED entries
    BY <1>6 DEF InstallSnapshot, Follow, Install, HaveThisOrNewer, onDisk, ReplicaInv, SnapshotsFollow
  <2>2. /\ b \in Nat /\ b <= Len(agreed) /\ Len(agreed) <= MaxEntries
        /\ agreed \in Seq(Command) /\ old \in Seq(Command)
        /\ Len(agreed) \in Nat /\ Len(old) \in Nat /\ Len(old) <= MaxEntries
    BY <1>1, <2>1, LenProperties DEF ReplicaInv, ClusterInv, ClusterShape, SnapshotsFollow, ClusterBounds
  <2>3. Len(l) = IF b < Len(old) THEN Len(old) ELSE b
    <3>1. l = Splice(agreed, old, b)
      BY DEF Rebased, Splice
    <3> HIDE DEF l, b, old
    <3>2. QED
      BY <2>2, <3>1, Spliced
  <2>4. Len(l) <= MaxEntries
    BY <2>2, <2>3, ClusterAssumption
  <2>5. entries' = [entries EXCEPT ![j] = l] \/ entries' = [entries EXCEPT ![j] = old]
    BY <1>1, <2>1
  <2> HIDE DEF l, j
  <2>6. QED
    BY <1>4, <2>1, <2>2, <2>4, <2>5
<1>7. ASSUME NEW i \in Member, Elect(i) PROVE ClusterBounds'
  BY <1>0, <1>1, <1>7, ClusterAssumption DEF Elect, onDisk, ClusterBounds, Maybe
<1>8. ASSUME NEW i \in Member, RestartMember(i) PROVE ClusterBounds'
  BY <1>0, <1>1, <1>8, ClusterAssumption DEF RestartMember, onDisk, ClusterBounds, Maybe
<1>9. ASSUME NEW i \in Member, NEW cs \in Seq(Command), ProposeAll(i, cs) PROVE ClusterBounds'
  <2>1. /\ entries' = [entries EXCEPT ![i] = entries[i] \o cs] /\ Len(entries[i]) + Len(cs) <= MaxEntries
        /\ UNCHANGED <<leads, leader, reign, restarts>>
    BY <1>1, <1>9 DEF ProposeAll
  <2>2. Len(entries[i] \o cs) = Len(entries[i]) + Len(cs)
    BY <1>1, ConcatProperties
  <2>3. \A k \in Member : Len(entries'[k]) <= MaxEntries
    BY <1>1, <2>1, <2>2
  <2>4. QED
    BY <1>3, <2>1, <2>3
<1>10. ASSUME NEW i \in Member, NEW tasks \in SUBSET TaskId, RequeueAll(i, tasks) PROVE ClusterBounds'
  <2>1. SetToSeq({Requeue(t) : t \in tasks}) \in Seq(Command)
    BY RequeuesAreCommands
  <2>2. QED
    BY <1>9, <1>10, <2>1 DEF RequeueAll
<1>11. ASSUME NEW i \in Member, NEW c \in Command, ProposeOne(i, c) PROVE ClusterBounds'
  <2>1. <<c>> \in Seq(Command)
    OBVIOUS
  <2>2. QED
    BY <1>9, <1>11, <2>1 DEF ProposeOne
<1>12. ASSUME NEW i \in Member, \/ LeaderTick(i)
                                \/ \E j \in Member : PeerUnreachable(i, j)
       PROVE  ClusterBounds'
  <2>1. PICK tasks \in SUBSET TaskId : RequeueAll(i, tasks)
    BY <1>12 DEF LeaderTick, PeerUnreachable, Expired, Leased
  <2>2. QED
    BY <1>10, <2>1
<1>13. ASSUME NEW i \in Member, \/ \E s \in Subject : PublishEvidence(i, s) \/ RecordDecision(i, s)
                                \/ \E t \in TaskId : Acquire(i, t)
                                \/ Finish(i)
       PROVE  ClusterBounds'
  <2>1. ASSUME NEW s \in Subject, PublishEvidence(i, s) \/ RecordDecision(i, s)
        PROVE  \E c \in Command : ProposeOne(i, c)
    BY <2>1 DEF PublishEvidence, RecordDecision, Command
  <2>2. ASSUME NEW t \in TaskId, Acquire(i, t) PROVE \E c \in Command : ProposeOne(i, c)
    <3>1. now + Lease \in Instant
      BY ClusterAssumption DEF Instant, ReplicaInv, ClusterInv, ClusterShape
    <3>2. Assign(t, i, now + Lease) \in Command
      BY <3>1 DEF Command
    <3>3. QED
      BY <2>2, <3>2 DEF Acquire
  <2>3. ASSUME Finish(i) PROVE \E c \in Command : ProposeOne(i, c)
    <3>1. work[i].task \in TaskId
      BY <2>3 DEF Finish, ReplicaInv, ClusterInv, ClusterShape, Maybe, Work
    <3>2. Complete(work[i].task) \in Command
      BY <3>1 DEF Command
    <3>3. QED
      BY <2>3, <3>2 DEF Finish
  <2>4. QED
    BY <1>11, <1>13, <2>1, <2>2, <2>3
<1>14. ASSUME \/ UNCHANGED clusterVars \/ Tick
              \/ \E i \in Member : \/ Proceed(i) \/ GiveUp(i) \/ SendSnapshot(i)
                                   \/ \E k \in 1 .. MaxEntries : Commit(i, k) \/ CompactLog(i, k)
              \/ \E m \in snapshots : LoseSnapshot(m)
       PROVE  ClusterBounds'
  <2>1. UNCHANGED <<leads, leader, reign, restarts, entries>>
    BY <1>14 DEF clusterVars, onDisk, Tick, Proceed, GiveUp, Commit, CompactLog, SendSnapshot, LoseSnapshot
  <2>2. QED
    BY <1>1, <1>3, <2>1
<1>15. ASSUME NEW i \in Member, NEW k \in 1 .. MaxEntries, Commit(i, k) \/ CompactLog(i, k)
       PROVE  ClusterBounds'
  BY <1>14, <1>15
<1>16. CASE Tick \/ UNCHANGED clusterVars
  BY <1>14, <1>16
<1>17. ASSUME NEW i \in Member, Proceed(i) \/ GiveUp(i) \/ SendSnapshot(i) PROVE ClusterBounds'
  BY <1>14, <1>17
<1>18. ASSUME NEW m \in snapshots, LoseSnapshot(m) PROVE ClusterBounds'
  BY <1>14, <1>18
<1>19. QED
  BY <1>18, <1>5, <1>6, <1>7, <1>8, <1>12, <1>13, <1>15, <1>16, <1>17 DEF ClusterNext

\* No member has compacted more than it has committed or committed more than it
\* holds, and the newest leader believes itself one: the bookkeeping of
\* compact_log and handle_install_snapshot stays in order, whatever label a
\* snapshot has.
THEOREM ClusterTyped == ClusterSpec => []ClusterTypeOK
<1>1. ClusterInit => ClusterBounds
  <2> SUFFICES ASSUME ClusterInit PROVE ClusterBounds
    OBVIOUS
  <2>1. Len(agreed) = 0 /\ \A i \in Member : Len(entries[i]) = 0
    BY EmptySeq DEF ClusterInit
  <2>2. 0 \in 0 .. MaxReign /\ 0 \in 0 .. MaxRestart /\ 0 <= MaxEntries
    BY ClusterAssumption
  <2>3. QED
    BY <2>1, <2>2 DEF ClusterInit, ClusterBounds, Maybe
<1>2. ReplicaInv /\ ClusterBounds => ClusterTypeOK
  <2> SUFFICES ASSUME ReplicaInv, ClusterBounds PROVE ClusterTypeOK
    OBVIOUS
  <2>1. ClusterShape /\ LogsAgreed /\ StatesAreThere
    BY DEF ReplicaInv, ClusterInv
  <2>2. \A i \in Member : base[i] <= commit[i] /\ commit[i] <= Len(entries[i])
    BY <2>1 DEF LogsAgreed, HoldsUpTo
  <2>3. QED
    BY <2>1, <2>2 DEF ClusterTypeOK, ClusterShape, ClusterBounds, StatesAreThere
<1>3. QED
  BY <1>1, <1>2, ReplicaInvariant, BoundsStep, PTL DEF ClusterSpec

\* What MCWork puts side by side are behaviours of the three parts.
LEMMA WorkIsItsParts == WorkSpec => ClusterSpec /\ PoolSpec /\ Spec
<1>1. WorkInit => ClusterInit /\ PoolInit /\ Init
  BY DEF WorkInit
<1>2. [WorkNext]_<<focus, clusterVars, poolVars, vars>>
        => [ClusterNext]_clusterVars /\ [PoolNext]_poolVars /\ [Next]_vars
  BY DEF WorkNext
<1>3. QED
  BY <1>1, <1>2, PTL DEF WorkSpec, WorkSafe, ClusterSpec, PoolSpec, Spec

\* Leases, jobs and workflows keep their types and bounds in every instance.
THEOREM WorkTyped == WorkSpec => []WorkTypeOK
BY WorkIsItsParts, ClusterTyped, PoolHoldsItsChildren, TypeCorrect, PTL DEF WorkTypeOK

=============================================================================
