---------------------------- MODULE ClusterState ----------------------------
(***************************************************************************)
(* raft_cluster_node.py and task_coordinator.py: the replicated state      *)
(* machines of a cluster node (decisions, task leases, evidence), the      *)
(* leader's requeueing of leases, the coordinator that runs a task under a *)
(* lease, and compaction, snapshot transfer and replay (raft.py), on top   *)
(* of the promise AgreedLog: committed commands are never taken back, and  *)
(* a leader holds all of them.                                             *)
(*                                                                         *)
(* Members are the nodes whose state is followed; the further voters that  *)
(* complete their quorums keep nothing a property looks at.  entries[i] is *)
(* the whole log of i, of which the first base[i] commands are compacted   *)
(* away and only present in the snapshot.                                  *)
(***************************************************************************)
EXTENDS Optional, Naturals, Sequences, SequencesExt

CONSTANTS
  Member, TaskId, Subject,
  Lease,        \* lease_seconds, in ticks of the clock
  MaxNow,       \* bound: the clock stops here
  MaxEntries,   \* bound: the log has at most this many commands
  MaxReign,     \* bound: changes of leader
  MaxRestart,   \* bound: crashes
  MaxSnapshots  \* bound: snapshots on their way at once

ASSUME ClusterAssumption ==
  /\ {Lease, MaxNow, MaxEntries, MaxReign, MaxRestart, MaxSnapshots} \subseteq Nat
  /\ None \notin Member /\ IsFiniteSet(TaskId)

VARIABLES
  \* the cell
  agreed,       \* the commands committed so far
  leads,        \* the members that believe themselves leader
  leader, reign,\* the one of them elected last, and how often one was
  \* on disk
  entries, base, saved, commit,
  \* in memory
  state,
  work,         \* what the coordinator of a member is doing
  now, restarts,
  \* snapshots
  snapshots,    \* the install_snapshot requests on their way
  setBack,      \* history: members whose state a snapshot has taken back
  savedBack     \* history: members that saved such a state

onDisk == <<entries, base, saved, commit>>
snapVars == <<snapshots, setBack, savedBack>>
clusterVars == <<agreed, leads, leader, reign, onDisk, state, work, now, restarts, snapVars>>

-----------------------------------------------------------------------------
(* Commands and what they do to a replicated state *)

Assign(t, i, until) == [kind |-> "task_assign", task |-> t, assignee |-> i, until |-> until]
Complete(t) == [kind |-> "task_complete", task |-> t]
Requeue(t) == [kind |-> "task_requeue", task |-> t]
Evidence(s) == [kind |-> "evidence_publish", subject |-> s]
Decision(s) == [kind |-> "governance_decision", subject |-> s]

Instant == 0 .. MaxNow + Lease
Command ==
  {Assign(t, i, until) : t \in TaskId, i \in Member, until \in Instant} \cup
  {Complete(t) : t \in TaskId} \cup {Requeue(t) : t \in TaskId} \cup
  {Evidence(s) : s \in Subject} \cup {Decision(s) : s \in Subject}

TaskLease ==
  [status : {"leased", "completed", "pending"}, assignee : Maybe(Member), until : Instant]
State ==
  [tasks : [TaskId -> Maybe(TaskLease)], evidence : SUBSET Subject,
   decisions : [Subject -> Nat], commands : SUBSET [index : Nat, command : Command]]

EmptyState ==
  [tasks |-> [t \in TaskId |-> None], evidence |-> {},
   decisions |-> [s \in Subject |-> 0], commands |-> {}]

\* ReplicatedTaskLeaseState.apply: an assignment replaces whatever there is; a
\* completion or a requeue of a task never assigned does nothing.
ApplyTask(tasks, c) ==
  LET t == c.task IN
  [tasks EXCEPT ![t] =
    CASE c.kind = "task_assign" ->
           [status |-> "leased", assignee |-> c.assignee, until |-> c.until]
      [] c.kind = "task_complete" /\ @ # None -> [@ EXCEPT !.status = "completed"]
      [] c.kind = "task_requeue" /\ @ # None ->
           [status |-> "pending", assignee |-> None, until |-> 0]
      [] OTHER -> @]

\* _apply_commit: all three state machines see every command.
Apply(s, index, c) ==
  [tasks |-> IF "task" \in DOMAIN c THEN ApplyTask(s.tasks, c) ELSE s.tasks,
   evidence |-> IF c.kind = "evidence_publish" THEN s.evidence \cup {c.subject} ELSE s.evidence,
   decisions |-> IF c.kind = "governance_decision"
                   THEN [s.decisions EXCEPT ![c.subject] = index] ELSE s.decisions,
   commands |-> s.commands \cup {[index |-> index, command |-> c]}]

\* s after on_commit of the commands of l after from up to to
Replay(s, l, from, to) ==
  LET after[k \in from .. to] == IF k = from THEN s ELSE Apply(after[k - 1], k, l[k])
  IN  after[to]

-----------------------------------------------------------------------------
Phase == {"acquiring", "running", "completing", "exposed"}
Work == [phase : Phase, task : TaskId, index : Nat, reign : Nat]
\* upto: history, the commit index that data was captured at, 0 when it had been
\* taken back itself
Snapshot == [to : Member, reign : Nat, base : Nat, upto : Nat, data : State]
ASSUME NoRecordAssumption == None \notin Work /\ None \notin TaskLease

ClusterTypeOK ==
  /\ agreed \in Seq(Command)
  /\ leads \subseteq Member /\ leader \in Maybe(leads) /\ reign \in 0 .. MaxReign
  /\ entries \in [Member -> Seq(Command)]
  /\ \A i \in Member : Len(entries[i]) <= MaxEntries
  /\ base \in [Member -> Nat] /\ commit \in [Member -> Nat]
  /\ \A i \in Member : base[i] <= commit[i] /\ commit[i] <= Len(entries[i])
  /\ saved \in [Member -> State] /\ state \in [Member -> State]
  /\ work \in [Member -> Maybe(Work)]
  /\ now \in 0 .. MaxNow /\ restarts \in 0 .. MaxRestart
  /\ snapshots \subseteq Snapshot /\ setBack \subseteq Member /\ savedBack \subseteq Member

ClusterInit ==
  /\ agreed = <<>> /\ leads = {} /\ leader = None /\ reign = 0
  /\ entries = [i \in Member |-> <<>>]
  /\ base = [i \in Member |-> 0] /\ commit = [i \in Member |-> 0]
  /\ saved = [i \in Member |-> EmptyState] /\ state = [i \in Member |-> EmptyState]
  /\ work = [i \in Member |-> None]
  /\ now = 0 /\ restarts = 0
  /\ snapshots = {} /\ setBack = {} /\ savedBack = {}

-----------------------------------------------------------------------------
(* The cell, as far as AgreedLog promises it *)

\* A member that holds everything agreed wins an election; the one before it
\* believes itself leader until it hears of the new term.  A request of an
\* earlier term no longer counts with a member that knows of a later one.
Elect(i) ==
  /\ IsPrefix(agreed, entries[i]) /\ leader # i /\ reign < MaxReign
  /\ leader' = i /\ reign' = reign + 1 /\ leads' = leads \cup {i}
  /\ snapshots' = {m \in snapshots : m.to # i}
  /\ UNCHANGED <<agreed, onDisk, state, work, now, restarts, setBack, savedBack>>

\* _apply_committed on member i, up to the command at k of log l
HandOver(i, l, k) ==
  /\ commit' = [commit EXCEPT ![i] = k]
  /\ state' = [state EXCEPT ![i] = Replay(@, l, commit[i], k)]

\* _maybe_advance_commit_index of the leader
Commit(i, k) ==
  /\ leader = i /\ commit[i] < k /\ k <= Len(entries[i])
  /\ agreed' = IF k > Len(agreed) THEN SubSeq(entries[i], 1, k) ELSE agreed
  /\ HandOver(i, entries[i], k)
  /\ UNCHANGED <<leads, leader, reign, entries, base, saved, work, now, restarts, snapVars>>

\* The oldest prev a leader can name is its base: handle_append_entries refuses it
\* to a follower whose log differs there.
HoldsBase(j) == IsPrefix(SubSeq(entries[leader], 1, base[leader]), entries[j])

\* handle_append_entries once the leader has found where the logs part
Replicate(j) ==
  /\ leader \notin {None, j} /\ HoldsBase(j)
  /\ entries' = [entries EXCEPT ![j] =
       IF IsPrefix(entries[leader], @) THEN @ ELSE entries[leader]]
  /\ IF commit[leader] > commit[j] THEN HandOver(j, entries'[j], commit[leader])
                                   ELSE UNCHANGED <<commit, state>>
  /\ leads' = leads \ {j}
  /\ <<entries, commit, leads>>' # <<entries, commit, leads>>
  /\ snapshots' = {m \in snapshots : m.to # j \/ m.reign = reign}
  /\ UNCHANGED <<agreed, leader, reign, base, saved, work, now, restarts, setBack, savedBack>>

\* install_snapshot, with the leader's state when the round begins.  Which
\* followers are sent one is decided by _next_index, and what stands there after
\* lost, late and overlapping answers need not be what the follower holds; only
\* a base that the follower has already is left out, which it would ignore.
SendSnapshot(j) ==
  /\ leader \notin {None, j} /\ base[j] < base[leader]
  /\ Cardinality(snapshots) < MaxSnapshots
  /\ snapshots' = snapshots \cup
       {[to |-> j, reign |-> reign, base |-> base[leader],
         upto |-> IF leader \in setBack THEN 0 ELSE commit[leader], data |-> state[leader]]}
  /\ UNCHANGED <<agreed, leads, leader, reign, onDisk, state, work, now, restarts, setBack, savedBack>>

LoseSnapshot(m) ==
  /\ snapshots' = snapshots \ {m}
  /\ UNCHANGED <<agreed, leads, leader, reign, onDisk, state, work, now, restarts, setBack, savedBack>>

\* Mutant of Rebased: the command at b is kept in the log too.
RebasedFrom(j, b) == SubSeq(agreed, 1, b) \o SubSeq(entries[j], b, Len(entries[j]))

\* The log of j with a base of b: what stands beyond it stays
Rebased(j, b) == SubSeq(agreed, 1, b) \o SubSeq(entries[j], b + 1, Len(entries[j]))

\* The member i is in the set S from now on, or no longer.
Mark(S, i, in) == IF in THEN S \cup {i} ELSE S \ {i}

\* j takes a request m for a base it does not have; its state becomes s.
Install(m, j, s) ==
  /\ base[j] < m.base
  /\ entries' = [entries EXCEPT ![j] = Rebased(j, m.base)]
  /\ base' = [base EXCEPT ![j] = m.base]
  /\ commit' = [commit EXCEPT ![j] = IF @ < m.base THEN m.base ELSE @]
  /\ saved' = [saved EXCEPT ![j] = m.data]
  /\ state' = [state EXCEPT ![j] = s]
  /\ setBack' = Mark(setBack, j, m.upto < commit'[j])
  /\ savedBack' = Mark(savedBack, j, m.upto < m.base)

\* handle_install_snapshot: a base the member has, or one behind it, changes nothing.
HaveThisOrNewer(m) ==
  m.base <= base[m.to] /\ UNCHANGED <<onDisk, state, setBack, savedBack>>

\* Whatever it carries, the request makes a follower of its receiver.
Follow(m) ==
  /\ leads' = leads \ {m.to}
  /\ snapshots' = {x \in snapshots \ {m} : x.to # m.to \/ m.reign <= x.reign}
  /\ UNCHANGED <<agreed, leader, reign, work, now, restarts>>

\* Mutant of InstallSnapshot: on_snapshot_restore is not called.
InstallWithoutRestore(m) ==
  /\ Follow(m)
  /\ Install(m, m.to, state[m.to]) \/ HaveThisOrNewer(m)

\* handle_install_snapshot: the data can be ahead of the index it is labelled
\* with, and behind what the member has taken in the meantime.
InstallSnapshot(m) ==
  /\ Follow(m)
  /\ Install(m, m.to, m.data) \/ HaveThisOrNewer(m)

\* Mutant of CompactLog: what is not committed yet may be compacted.
CompactUncommitted(i, k) ==
  /\ base[i] < k /\ k <= Len(entries[i])
  /\ base' = [base EXCEPT ![i] = k]
  /\ saved' = [saved EXCEPT ![i] = state[i]]
  /\ savedBack' = Mark(savedBack, i, i \in setBack)
  /\ UNCHANGED <<agreed, leads, leader, reign, entries, commit, state, work, now, restarts,
                 snapshots, setBack>>

\* compact_log(k): the data saved is the state of now, whatever k is.
CompactLog(i, k) ==
  /\ base[i] < k /\ k <= commit[i]
  /\ base' = [base EXCEPT ![i] = k]
  /\ saved' = [saved EXCEPT ![i] = state[i]]
  /\ savedBack' = Mark(savedBack, i, i \in setBack)
  /\ UNCHANGED <<agreed, leads, leader, reign, entries, commit, state, work, now, restarts,
                 snapshots, setBack>>

\* _load_persisted_state, _restore and replay_committed
Restored(i) == Replay(saved[i], entries[i], base[i], commit[i])

\* No member stops after the last election, so that the bound never leaves the
\* cell without a leader.
RestartMember(i) ==
  /\ restarts < MaxRestart /\ reign < MaxReign
  /\ restarts' = restarts + 1
  /\ state' = [state EXCEPT ![i] = Restored(i)]
  /\ work' = [work EXCEPT ![i] = None]
  /\ leads' = leads \ {i}
  /\ leader' = IF leader = i THEN None ELSE leader
  /\ setBack' = Mark(setBack, i, i \in savedBack)
  /\ UNCHANGED <<agreed, reign, onDisk, now, snapshots, savedBack>>

-----------------------------------------------------------------------------
(* Proposals *)

\* propose: the member believes itself leader.  Room is left for the requeues
\* of the leader's tick, so that the bound never keeps a lease alive.
ProposeAll(i, commands) ==
  /\ i \in leads
  /\ Len(entries[i]) + Len(commands) <= MaxEntries
  /\ entries' = [entries EXCEPT ![i] = @ \o commands]
  /\ UNCHANGED <<agreed, leads, leader, reign, base, saved, commit, state, now, restarts, snapVars>>

ProposeOne(i, c) == Len(entries[i]) + 1 < MaxEntries /\ ProposeAll(i, <<c>>)

RequeueAll(i, tasks) ==
  /\ tasks # {}
  /\ ProposeAll(i, SetToSeq({Requeue(t) : t \in tasks}))
  /\ UNCHANGED work

Leased(i) == {t \in TaskId : state[i].tasks[t] # None /\ state[i].tasks[t].status = "leased"}

\* Mutant of Expired: a lease is taken for current until after its last instant.
ExpiredLate(i) == {t \in Leased(i) : state[i].tasks[t].until < now}

\* expired_task_ids
Expired(i) == {t \in Leased(i) : state[i].tasks[t].until <= now}

\* requeue_expired_tasks, on every turn of the leader's run loop
LeaderTick(i) == RequeueAll(i, Expired(i))

\* _record_peer_liveness of a peer that did not answer
PeerUnreachable(i, j) ==
  i # j /\ RequeueAll(i, {t \in Leased(i) : state[i].tasks[t].assignee = j})

PublishEvidence(i, s) == ProposeOne(i, Evidence(s)) /\ UNCHANGED work

\* record_governance_decision; nothing is done with its answer
RecordDecision(i, s) == ProposeOne(i, Decision(s)) /\ UNCHANGED work

Tick ==
  /\ now < MaxNow
  /\ now' = now + 1
  /\ UNCHANGED <<agreed, leads, leader, reign, onDisk, state, work, restarts, snapVars>>

-----------------------------------------------------------------------------
(* ClusterTaskCoordinator.execute *)

\* The command just proposed by i is what its coordinator waits for.
WaitFor(i, phase, t) ==
  work' = [work EXCEPT ![i] =
    [phase |-> phase, task |-> t, index |-> Len(entries[i]) + 1,
     reign |-> IF leader = i THEN reign ELSE 0]]

CoordinatorIdle(i) == work[i] # None => work[i].phase = "exposed"

Acquire(i, t) ==
  /\ CoordinatorIdle(i)
  /\ ProposeOne(i, Assign(t, i, now + Lease))
  /\ WaitFor(i, "acquiring", t)

\* Mutant of Awaited: propose instead of propose_and_wait.
AwaitedNothing(i) == TRUE

\* The True of propose_and_wait: the index is committed, whatever is there.
Awaited(i) == commit[i] >= work[i].index

Next1(phase) == IF phase = "acquiring" THEN "running" ELSE "exposed"

\* The lease is committed and the executor runs, or the completion is and the
\* result is handed out.
Proceed(i) ==
  /\ work[i] # None /\ work[i].phase \in {"acquiring", "completing"} /\ Awaited(i)
  /\ work' = [work EXCEPT ![i].phase = Next1(@)]
  /\ UNCHANGED <<agreed, leads, leader, reign, onDisk, state, now, restarts, snapVars>>

\* Not leader any more, the deadline passed, the executor failed, or the
\* completion could not be proposed: no result.
GiveUp(i) ==
  /\ ~CoordinatorIdle(i)
  /\ work' = [work EXCEPT ![i] = None]
  /\ UNCHANGED <<agreed, leads, leader, reign, onDisk, state, now, restarts, snapVars>>

\* The executor succeeded.
Finish(i) ==
  /\ work[i] # None /\ work[i].phase = "running"
  /\ ProposeOne(i, Complete(work[i].task))
  /\ WaitFor(i, "completing", work[i].task)

ClusterNext ==
  \/ Tick
  \/ \E i \in Member :
       \/ Elect(i) \/ RestartMember(i) \/ Replicate(i) \/ SendSnapshot(i)
       \/ LeaderTick(i) \/ Proceed(i) \/ GiveUp(i) \/ Finish(i)
       \/ \E k \in 1 .. MaxEntries : Commit(i, k) \/ CompactLog(i, k)
       \/ \E j \in Member : PeerUnreachable(i, j)
       \/ \E s \in Subject : PublishEvidence(i, s) \/ RecordDecision(i, s)
       \/ \E t \in TaskId : Acquire(i, t)
  \/ \E m \in snapshots : LoseSnapshot(m) \/ InstallSnapshot(m)

ClusterSpec == ClusterInit /\ [][ClusterNext]_clusterVars

-----------------------------------------------------------------------------
(* Properties *)

CellPromise == INSTANCE AgreedLog WITH
  Replica <- Member, Value <- Command,
  handed <- [i \in Member |-> SubSeq(entries[i], 1, commit[i])]

\* What the cluster node does to the log keeps the promise of the cell: no
\* compaction, snapshot, restart or catching up takes back or rewrites a command
\* of the log that a member has committed (the log, not the state made of it: a
\* late snapshot can take that back).
HandsOverAgreed == CellPromise!LogSpec

\* Handed the rest of the agreed commands after k, s becomes the one state they
\* define from the empty one.
Converges(s, k) ==
  Replay(s, agreed, k, Len(agreed)) = Replay(EmptyState, agreed, 0, Len(agreed))

\* Every member comes to the agreed state: whatever was compacted, restored from a
\* snapshot newer than its label and applied a second time, or replayed after a
\* crash.  A state that a late snapshot has taken back is not meant, and such a
\* member comes to the agreed one from its disk, by a restart, unless it has
\* compacted its log since.
ReplicasConverge ==
  \A i \in Member : /\ i \notin setBack => Converges(state[i], commit[i])
                    /\ i \notin savedBack => Converges(saved[i], base[i])

\* While its node has led without a break since the proposal, execute runs a
\* task only under its own committed lease, and hands out a result only with
\* the completion committed.
CoordinatorActsOnCommits ==
  \A i \in Member : work[i] # None /\ leader = i /\ work[i].reign = reign =>
    /\ work[i].phase = "running" =>
         /\ work[i].index <= Len(agreed)
         /\ \E until \in Instant : agreed[work[i].index] = Assign(work[i].task, i, until)
    /\ work[i].phase = "exposed" =>
         work[i].index <= Len(agreed) /\ agreed[work[i].index] = Complete(work[i].task)

\* Under a leader i that stays, whose run loop goes on and whose quorum answers,
\* no lease outlives its time for ever: requeue_expired_tasks repeats its
\* proposal until one is committed.
LeasesEndUnder(i) ==
  /\ WF_clusterVars(LeaderTick(i)) /\ WF_clusterVars(\E k \in 1 .. MaxEntries : Commit(i, k))
  /\ <>[](leader = i)
  => <>[](\A t \in Leased(i) : state[i].tasks[t].until > now)
=============================================================================
