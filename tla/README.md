# Verification of Reus

TLA+ models of the core of Reus (`src/`), the TLC configurations that check them
on small instances, and TLAPS proofs of what matters most for every instance.
`PROJECT.json` maps each definition to the source lines it models, lists the
runs, the mutants that show each property can fail, the hazards of the code, the
findings and the theorems.

## 1. Inventory

Reus is a Python service that runs agents' workflows, alone or in cells of nodes
that agree through Raft, under human approval for everything sensitive.

| part | state | operations | interacts with |
|---|---|---|---|
| **Raft cell** (`cluster_network/raft.py`, `raft_storage.py`) | term, vote, log, commit index (on disk); role, peer indices, election, rounds (memory) | election, heartbeat round, four RPC handlers, `propose`, `propose_and_wait`, compaction, membership change | peers over mTLS; the cluster node's callbacks |
| Voter configuration (`membership.py`) | voters, joint voters | quorum, peers | used by every Raft decision |
| Cluster node (`raft_cluster_node.py`, `task_coordinator.py`) | replicated decisions, task leases, governance log, peer liveness | assign, complete, requeue, record; applied by `on_commit` | Raft (proposes), worker pool (asks for leases) |
| Cell recovery (`recovery.py`) | failure windows, planned failures | observe, retry, resolve | liveness callbacks, membership change |
| Joining and trust (`join_requests.py`, `trust_store.py`, `bootstrap_*.py`, `discovery.py`) | join requests, trusted peers (files) | create, approve, reject, expire, trust | administrator's approval, TLS contexts |
| Federation (`federation.py`) | approved domains, advertisements with an expiry | approve, publish, purge, allocate a lease | administrator, task allocation |
| **Workflow domain** (`domain/workflow.py`) | tasks with dependencies, state, retries | create, ready, start, complete, fail, cascade | the orchestrator |
| **Orchestration** (`orchestrator_service.py`, `task_worker.py`, workflow repositories, `api/routes/workflows.py`) | stored workflows, queue of ready tasks, threads | create, start, complete, fail; take, execute | repository, event bus, executor, leases |
| Event buses (`event_bus.py`, `redis_event_bus.py`) | subscribers | publish, subscribe | everything |
| Telegram and approvals (`telegram_service.py`, `approval_store.py`, `*_telegram_commands.py`) | pending approvals (memory), records (file), chats waiting for results | request, approve, reject, expire, restart | callbacks that deploy, promote, join, pair |
| Hosting and cloud (`hosting_governance.py`, `cloud/deployment_manager.py`) | purchase authorizations (file), instances at the provider | request, approve, consume, expire, cancel; propose, execute | approvals, cloud provider |
| Capability evolution, agent factory | requests (memory), files of generated agents, registry | build, ask, approve, reject, bind | approvals, autonomy (same builder and binder) |
| Autonomy supervisor | ledger (file), artifacts and build counts (memory) | design, build, ask, approve, reject | approvals, API threads, agent factory |
| Model promotion, training | dataset and active model (files), ids known (memory) | harvest, build, notify, promote, demote | episodes, approvals, daily report |
| Cognitive core | registry, episodes, facts (files); sessions, handlers (memory) | publish, plan, execute, record, review, extract | executor, audit log |
| Sandbox and scheduler | pool threads, child processes | submit, run, join, terminate, shut down | capability handlers |
| Audit log | hash-chained file | append, verify | every layer of the core |
| Rate limiter, pairing, agents, tokens | sliding windows, claims, agents' states, tokens | allow, consume, transition, revoke | the API |

What is hard here:

* *Concurrency.* A Raft node has a run loop, server threads, and threads inside
  `propose_and_wait` that send rounds of their own. A worker pool of four threads
  and the API's threads read, change and overwrite the same workflow.
* *Failure.* Nodes crash between two saves; calls time out while their request
  is still under way; a process loses its queue and its approval callbacks.
* *Ordering.* Results, approvals and expiries race with each other, and values
  checked before a call (lease, budget, readiness) are used after it.

What makes the parts correct: one leader per term and no committed entry ever
lost or replaced (Raft); a confirmation is about the caller's own command
(`propose_and_wait`); tasks run after their dependencies, failures cancel exactly
what depends on them, every workflow ends (orchestration); an approval is
executed at most once and not after it expired (approvals, purchases); every replica computes the same leases and decisions and a
coordinator acts only on commits (cluster node); voters are replaced without two
cells deciding apart (membership) and only when they are silent (recovery); a join
is mutual; what is bound has passed its gates and was not refused (self-expansion);
an entry written without interference never breaks the audit chain; what was ended
stays ended (agents, tokens).

The hazards in `PROJECT.json` name the line where each of these bites.

## 2. Plan

In order of importance:

1. `VoterConfiguration`, `RaftCell`: elections, replication, proposals, crashes. **done**
2. `Workflow`, `Orchestrator`: workflow graph, worker pool, document repository. **done**
3. Proofs: quorums, Raft types, vote stability, election safety; the
   orchestrator's types and three invariants of stored workflows. **done**
4. `ApprovalGate`, `CloudCommands`, `PairingCommands`, composed by
   `AdminCommands`: Telegram approvals over the file store, purchase gate, cloud
   deployment, control plane pairing; proofs of the gate. **done**
5. `AgreedLog`, the abstract specification of what a cell promises, refined by
   `RaftCell`; `ClusterState` on top of it: leases, decisions, coordinator,
   compaction and snapshots. **done**
6. `CellMembership` and `CellRecovery`: joint changes as the code activates them,
   learners, restarts, the recovery planner. **done**
7. `JoinTrust`, `Federation`: how cells grow and how they lend capacity. **done**
8. `SelfExpansion`, `ModelTraining`, `CognitiveCycle`, `SandboxPool`: what the
   system writes, learns and runs for itself. **done**
9. `AuditChain`, `RateLimit`, `AgentRecords`: the services of a node. **done**
10. Proofs: log matching, committed entries and the refinement of `AgreedLog` for
   any number of voters; acyclicity; the invariants of every component that
   the runs check. **done**
11. `CommitsAgree` of `CellMembership`: that commits agree through joint quorums,
   learners and restarts, by an invariant that needs no history. **done**
12. The in-memory repository at the granularity of statements; the Redis bus; the
   delivery of task results to chats.

## 3. Modules

| module | models | proofs |
|---|---|---|
| `VoterConfiguration` | `membership.py` as operators | `VoterConfigurationProofs` |
| `AgreedLog` | what `on_commit` may rely on: the promise of a cell | |
| `RaftCell` (instances: `MCRaftCell`, `MCRaftStale`) | `raft.py`, `raft_storage.py`, calls of `raft_secure_rpc.py` | `RaftCellProofs` (types), `RaftElectionProofs` (votes), `RaftLogProofs` (logs), `RaftCommitProofs` (commits) |
| `RaftPromise` | `RaftCell` as an implementation of `AgreedLog` | `RaftCommitProofs` |
| `Workflow` | `domain/workflow.py` as operators | `WorkProofs` |
| `Orchestrator` (instances: `MCWork`, `MCOrchestrator`) | `orchestrator_service.py`, `task_worker.py`, `postgres/workflow_repository.py`, `api/routes/workflows.py` | `WorkProofs` |
| `ApprovalGate` | approvals of `telegram_service.py`, `approval_store.py` | `ComponentProofs` |
| `AdminCallbacks` | what all `on_approve` callbacks share | |
| `CloudCommands` | `cloud_telegram_commands.py`, `deployment_manager.py`, purchase gate of `hosting_governance.py` | |
| `PairingCommands` | `control_plane_telegram_commands.py`, `control_plane_pairing_store.py` | |
| `AdminCommands` (instances: `MCAdminCommands`, `MCComponents`) | the commands together, behind one gate | `ComponentProofs` |
| `ClusterState` (`MCWork`) | `raft_cluster_node.py`, `task_coordinator.py`, compaction and snapshots of `raft.py` | `WorkProofs` |
| `SandboxPool` (`MCWork`) | `resource/scheduler.py`, `sandbox.py`, `local_executor.py` | `WorkProofs` |
| `CellMembership` (`MCCellMembership`, `MCComponents`) | membership changes, learners and seeding of `raft.py` | `CellMembershipProofs` |
| `CellRecovery` (`MCComponents`) | `recovery.py` and its use in `raft_cluster_node.py` | `ComponentProofs` |
| `JoinTrust` (`MCComponents`) | `join_requests.py`, `trust_store.py`, `bootstrap_*.py`, `cluster_telegram_commands.py`, `mtls_join_client.py`, `snapshot.py`, composition in `node_runtime.py` | `ComponentProofs` |
| `Federation` (`MCComponents`) | `federation.py` | `ComponentProofs` |
| `SelfExpansion` (`MCComponents`) | `capability_evolution_service.py`, `autonomy_supervisor.py`, the ledger, `agent_factory/`, `capability_binder.py` | `ComponentProofs` |
| `ModelTraining` (`MCComponents`) | `training_dataset.py`, `local_model_builder.py`, `model_promotion*.py`, the daily thread | `ComponentProofs` |
| `CognitiveCycle` (`MCComponents`) | the cycle of `cognitive/engine.py`, registry, memories, learning layer | `ComponentProofs` |
| `AuditChain` (`MCComponents`) | `identity/audit_log.py` | `ComponentProofs` |
| `RateLimit` (`MCComponents`) | `rate_limiter.py` | `ComponentProofs` |
| `AgentRecords` (`MCComponents`) | agents, memory references and tokens over the PostgreSQL repositories | `ComponentProofs` |
| `Optional` | Python's `None` | |

Definitions introduced by a comment "Mutant of X" are broken variants of X. They
are used by no specification; each shows that some property would notice the bug.

### RaftCell

*State.* `currentTerm`, `votedFor`, `log`, `commitIndex` are what `_persist`
saves; since every handler saves before it releases the lock, memory and disk
agree between actions. `role`, `nextIndex`, `matchIndex` are in memory. `election`
and `round` are the local variables of `_start_election` and `_send_heartbeats`
(peers still to call, the call now open, the snapshot of the log taken at the
start of the round); `poll` is the term and the votes of the last election.
`waiting` is the index a `propose_and_wait` thread waits for. Indices start at 1.

*Actions.* A critical section of the code is one action, and so is every RPC
handler. `StartElection`, `RequestVote`, `HandleVoteReply`, `AbandonVote`,
`FinishElection` are `_start_election`; `StartRound`, `AppendEntries`,
`HandleAppendReply`, `AbandonAppend`, `FinishRound` are `_send_heartbeats`, which
the run loop and the proposer threads execute concurrently (`Slot`).
`ProposeAndWait`, `AnswerTrue`, `AnswerFalse` are `propose_and_wait`. The
deadlines are left out: a timeout may happen at any time.

*Network.* An RPC is a synchronous call. Its caller may give up at any time; then
the request is lost, or stays in flight with `live = FALSE` and can reach its
server later, where its answer goes nowhere. (Duplicates cannot arise: a retry is
a new call.)

*Crashes.* `Crash` at rest; `CrashInVote` and `CrashInAppend` between two saves of
one handler.

*Left out here, modelled elsewhere.* Compaction and snapshots (`ClusterState`),
learners and membership changes (`CellMembership`), the liveness callback
(`CellRecovery`, `ClusterState`).

*Refinement.* `RaftPromise` maps a cell to `AgreedLog`: the agreed sequence is the
committed log of a node that is ahead of no other (`Ahead`), and what a node was
handed is its committed log. `ImplementsAgreedLog` says that every step of a
cell extends both or leaves them alone.

### ClusterState

*State.* `agreed` is the abstract log. Each member has on disk its whole log
(`entries`, of which the first `base` commands are compacted away), the snapshot
(`saved`) and the commit index, and in memory the state the commands computed.
`leads` are the members that believe themselves leader; `work` is where the
coordinator of a member is; `snapshots` are the `install_snapshot` requests on
their way. *Actions.* `Commit`, `Replicate`, `SendSnapshot`, `LoseSnapshot`,
`InstallSnapshot`, `CompactLog`, `RestartMember` move the log the way `AgreedLog` allows;
`LeaderTick`, `PeerUnreachable`, `PublishEvidence`, `RecordDecision` propose;
`Acquire`, `Proceed`, `Finish`, `GiveUp` are `ClusterTaskCoordinator.execute`.
What the code takes as snapshot data is the state of the moment and not of the
index it is labelled with, on compaction as on transfer; `ReplicasConverge` shows
that applying the commands in between a second time does no harm. A snapshot carries
the leader's state of the moment its round began and may arrive any time later, or
never. Whom it is sent to the code decides by `_next_index`, which may lag behind
what a follower holds, so the model sends it to any follower; left out is only a
base that the follower already has, which it would ignore. Such a snapshot can take
the state of a follower back (section 5): `setBack` and `savedBack` record the
members in whose state, and in whose saved one, that has happened. *Abstraction.*
Times are ticks; payloads and results are left out; so is a crash inside
`compact_log`.

### CellMembership

*State.* Term, vote, log and commit index of each peer, and `member`: its
configuration, whether it is enforced, the pending voters, learners and retired
peers. `change` is the `propose_membership_change` a node is in. *Actions.* An
election and a round are one step each and reach any set of peers (`Campaign`,
`SendRound`): their calls are `RaftCell`'s subject. `ProposeJoint`,
`ProposeFinalize`, `RegisterLearner`, `InstallMembership`, `RestartPeer` are the
membership operations. A configuration is applied when its entry is committed
(`ApplyMembership`), and again at a restart (`Rejoined`), which begins from the
peers in the trust store: `trusted`, to which `TrustPeer` adds the joiners that
were approved. A joiner runs from its own start, as `node_runtime.py` starts it:
before it joins it elects itself in any terms, proposes and commits what it likes,
and it has `Joined` once it was seeded with a configuration or has committed one.
`moved` records that some node has counted quorums of other voters than the
founders, or has usurped the cell (`Usurps`): it leads others although it was never
seeded, or joined while it led or with a log of its own. The properties
speak of what comes before, since afterwards they do not hold (section 5).

### CellRecovery and Federation

`CellRecovery` has the failure windows and planned failures of
`RecoveryPlanner`, the liveness observed of each peer and the change under way;
`Answered` and `Failed` are an observation with all it causes, the plan, the
proposal and its outcome; a change that was given up may still commit
(`GiveUpChange`, `CommitChange`). `Federation` has the approved capabilities of
a domain, the advertisements and the leases; `Allocate` purges first, as
`candidates` does.

### JoinTrust

*State.* The host's requests and their file, its trust store and file, and the
certificates the running TLS server accepts (`context`: it is built when the
server starts and when the bundle is rebuilt); for each joiner the phase of
`join_cluster`, its certificate's serial, and what it has saved. *Actions.*
`RequestJoin` (its answer may be lost), `ExecuteApprove`, `GrantTrust`,
`MarkApproved` (one callback, in which time passes and the process may stop),
`RejectPeer`, `Poll`, `GiveUpJoin`, `TrustHost`, `FinishJoin`, and the
composition of either side after a restart, which reads the files.

### SelfExpansion

*State.* For each request or proposal the gates its build would fail (`flaws`),
its specification's name, its status; the file written under each name
(`onFile`), which a later build under the same name replaces; artifacts, build
counts and questions in memory; the approvals under way on each thread; what was
bound, with the item whose code the file held. *Actions.* `Build` runs the gates
in the builder's order and writes the file only after the last; `Enter*`,
`Ask*`, `Approve*`, `Bind`, `FinishApproval`, `Reject*`, `Withdraw`,
`ExpansionRestart`.

### CognitiveCycle, SandboxPool, ModelTraining

`CognitiveCycle` follows the cycles of several threads through planning,
execution, the episode, the two queries of the review and the query, removals and
addition of `KnowledgeExtractor.extract`, each a call of its own. A query reads the
newest `ReviewLimit` episodes of its kind, of all capabilities, before those of
one are picked out. `SandboxPool` has calls, pool threads and child processes that
return, raise, die, hang, or block on a full pipe. What follows a timeout is three
steps: SIGTERM, which the children in `Deaf` outlive, the join that waits for the
end of the child (`Reap`), and the answer; a child that dies while it writes leaves
a part of a message, which `ReadPartial` begins to read and never finishes.
`ModelTraining` has the dataset's file with
lines cut short, the ids known in memory, the build, the readiness notice and the
promotion with its confirmation; a crash can fall inside either write.

### AuditChain, RateLimit, AgentRecords

`AuditChain`: an append reads the last line and later writes its own, with other
writers in between and a crash that may leave a part of a line, on which every later
read fails: `VerifyStopsAt` is the number of the line at which `verify_chain`
returns False or raises, 0 when it returns True. (A write cut exactly before its
newline, which leaves a whole line, is left out.) `RateLimit`:
`allow` is two steps, as it reads the clock before it takes the lock
(`ReadClock`, `Allow`); the cleanup is part of the second. A grant is `late` when
a request with a later time had the lock before it. `AgentRecords`:
`get` and `update` are two steps (`call` holds the copy), so that requests of
several threads overwrite each other's rows.

### Orchestrator

*State.* `stored` is the document in the table; `call` is what each thread is
doing: it has got its copy and will apply an operation, or has updated the
document and will publish, or executes the task. `queued` is the pool's queue;
`announced` records the events about ended tasks.

*Actions.* A service method is cut where another thread can interfere: the read
of the document (`Take`, `Request`, `Executed`, all through `Get`), the write
(`Update`, or `Refuse` when the domain raises), and the events (`Publish`).
`Applied` composes the domain operators the way the service does. `Crash` loses
the queue and all calls. The executor and the lease are external: an execution
ends well or badly.

*Abstraction.* Results, errors, names and times are left out; the events of one
method are published in one step.

### ApprovalGate and AdminCommands

*State.* `record` and `owner` are the file of `FileApprovalStore`, saved by every
change; `callbacks` are the keys of `_pending_approvals`, in memory; `due` are the
approvals whose TTL has ended; `doing` is the approval whose `on_approve` is
running; `invoked` counts its calls. `AdminCallbacks` adds what was asked for
(`job`), where the running callback is (`step`) and what it did (`effects`).
`CloudCommands` adds the manager's configuration, the purchase authorizations
(the container builds the gate without a file, so a crash empties it) and the
instances at the provider. `PairingCommands` adds the pairings.

*Actions.* The polling worker is one thread and handles one message after the
other, so a handler is one action: `RequestApproval`, `RespondInVain`, `Approve`,
`Reject`. An `on_approve` callback goes step by step (`ApprovePurchase`,
`ConsumePurchase`, `CreateInstance`; `DestroyInstance`; `CheckClaim`, `IssueKey`,
`DeliverKey`), because the process may stop between any two, and time passes.
A request and an answer begin by expiring what is due (`ExpireDue`), which is part
of their actions. An update
that Telegram delivers again after a restart is a message sent again. The three
time limits (approval, authorization, pairing) end independently. The pairing store
has no lock: the API's `verify_user_key` runs `expire_due` on its own thread, which
looks (`SeeDue`) and writes (`ExpireSeen`) while the polling thread tests
(`CheckClaim`) and writes (`IssueKey`).

*Composition.* `AdminCommands` conjoins each command with the gate's action and
leaves the other commands' state alone; `Crash` is the crash of all of them.

*Left out.* The texts of messages and audits, `/list_nodes`, the cloud-init
script, the tokens themselves; the pairing store's memory and file are taken as
one. The provider is external: a call fails before or after its effect, and a
price that cannot be read is 0.

## 4. Runs

| run | instance | shows |
|---|---|---|
| `raft_terms` | 3 voters, terms to 4, logs to 2, calls may be lost | `LogMatching`, `LeaderCompleteness`, `ImplementsAgreedLog` |
| `raft_faults` | 3 voters, a `propose_and_wait` thread per node, terms to 2, 1 crash, 1 late request | `TypeOK`, `ElectionSafety`, `CommittedAgree`, `AckedWhileLeadingIsCommitted`, `VoteIsStable` |
| `raft_acks` | the same without faults, 2 threads busy at once | violates `AckedIsCommitted` |
| `raft_stale` | 3 voters, terms to 5, logs to 2, 2 threads busy at once, steered (`Steered`) | violates `CommittedByMajority` |
| `raft_live` | 3 voters, terms to 2, logs to 2 | `LeaderReplicates` |
| `work_faults` | all acyclic graphs of 3 tasks, 2 workers, a failing client, 1 crash; or a cluster of 2 members, 1 task, 3 commands, 2 reigns, 1 restart, 1 snapshot on its way | `TypeOK`, `StoredIsAcyclic`, `DependenciesRespected`, `FailureCascades`, `NothingForgotten`, `ReplicasConverge`, `CoordinatorActsOnCommits`, `HandsOverAgreed` |
| `workflow_lost` | 2 tasks, 2 workers | violates `AnnouncedIsStored` |
| `work` | a cluster of 2 members without snapshots, a pool of 2 with 3 jobs, 1 of them deaf, or a workflow of 3 tasks, 1 retry, 1 worker | `WorkTypeOK`, `AnnouncedIsStored`, `ExpiredLeasesEnd`, `EveryJobAnswered`, `Terminates` |
| `components` | one small instance of the commands and of each of ten other components | `ComponentsTypeOK` and the invariants of the table below, `DecisionIsFinal` |
| `cell_join` | 3 peers, 2 of them founders, terms to 2, logs to 1 | violates `JoinersAgree` |
| `cloud_limits` | 2 approvals, 2 chats, 2 configurations, no crash | violates `LimitsHold` |
| `cloud_offer` | the same | violates `CreatedAsReviewed` |

`components`, `work` and `work_faults` put modules that share no state side by side: `focus` is
chosen initially and names the one that moves, so the states are the sum and not
the product of those of the parts.

| part of `components` | instance | invariants |
|---|---|---|
| admin | 2 approvals, 2 chats, 1 configuration, 1 crash | `InvokedIsConfirmed`, `PendingIsAnswerable`, `EffectsAreApproved` |
| membership | 3 peers, 2 founders, a change of the voters up to where it takes effect (`FirstChange`), terms to 2, logs to 2, 1 crash | `OneLeaderPerTerm`, `CommitsAgree` |
| join | 2 joiners, 2 request ids, TTL 1, clock to 2, 1 restart, 1 certificate issued again | `ApprovedMeansTrusted`, `JoinIsMutual` |
| recovery | 2 voters, 1 standby, threshold 2, 3 failures | `OnlyTheSilentAreReplaced` |
| federation | 1 domain, 2 nodes, 2 abilities, leases to 2 | `NarrowingTakesEffect` |
| audit | 3 writers, 4 entries drafted | `VerifyBlamesTheOvertaken` |
| cognition | 2 capabilities, 2 threads, 3 goals, 1 restart | `SoloLearningSettles` |
| expansion | 1 request, 2 proposals, 1 name, 2 approvers, 1 restart | `BoundPassedTheGates`, `RejectionHolds` |
| training | 3 episodes, harvests of 2, 2 crashes | `EachEpisodeOnce` |
| rate | 2 clients, 2 threads, 1 request in a window of 2, 1 key kept, clock to 4 | `WindowHolds` |
| records | 1 agent, 1 memory, 1 token, 2 concurrent callers | `EndedAloneIsFinal` |

*Bounds.* Three voters are the smallest cell in which a minority can be cut off
and a vote can decide. The classical loss of an entry that a majority holds needs
two entries and four terms (`raft_terms`; without the own-term rule or the
up-to-date test the run fails). `MaxBusy` is how many threads are in an election
or a round at once; one suffices for most questions because a thread may stop between any two of its
calls and another go on when it has ended; two are used where rounds must overlap
(`raft_acks`, `raft_stale`), and the theorems have any number. In `raft_faults` a
late request and a waiting thread do not meet (`OrphansAlone`), which keeps the
run small; the theorems do not need it. `Steered` leaves out behaviours only, so
that the one of five terms that `raft_stale` shows is found; every state it keeps
is a state of the cell. `MaxOrphan` bounds late requests, `MaxCrash` crashes, `MaxQueued` how often a task
is queued. Three tasks give chains, forks, joins and a dependency that is not
transitive; retries are explored with one worker, where all of the state fits.
In the pool run the client only fails tasks: its other calls are those of the
workers. Two approvals are what it takes for a command to be decided against a
state that another has changed, and two chats for an answer from the wrong one;
the configurations of the cloud runs differ in size and in limits, while
`components` has one, since what the gate promises does not depend on it.

The cluster of `work` has two members, one task and one subject, a lease of one
tick that ends at the last one, three commands (assign, requeue or complete, and a
repetition), two reigns so that a lease can outlive the leader that gave it, and
one restart. That of `work_faults` has one snapshot on its way, and its commands are
those of the leases, which unlike the others do not commute; a lease ends at once,
so that a requeue may race a completion. A late snapshot takes two commands, of
which it carries one (TLC finds it within these bounds, section 5). Three jobs on a
pool of two, one of them deaf, make two of them wait while a thread is lost. In
`components` the bounds are the least with which the named hazard happens: two
founders and a third peer that is a learner, is promoted or replaces a voter; a
request whose approval outlives its TTL; two threads that learn from the same
capability at once; two items of self-expansion built under one name; a harvest
cut short and repeated; more clients than keys. The theorems need none of these
bounds.

*Deadlock* is not checked in the passing runs: within the bounds every behaviour may
end (the last term or tick is used up, the workflow has ended, all requests are
decided). That work does not stop halfway is what the temporal properties say.

*Symmetry and views.* Nodes, members, tasks and workers are interchangeable in the Raft
runs, in `work_faults` and in `workflow_lost`, approvals and chats in the cloud runs,
founders in `components`; `work` and `raft_live` use no symmetry. No property under symmetry is a liveness property. The view
`LiveState` drops what no later step reads: the votes of an election that is over,
the peer indices of a node that is neither leader nor in a round, and the history
of proposals; `AnsweredState` keeps the answers given, and `SteadyState` those
given by a node that still led. `WithoutHistory` drops the published events, which no action
reads and no property of that run mentions.

*Fairness.* `LeaderReplicates` asks for what the leader's daemon thread gives:
rounds go on, a call ends by an answer or by its timeout (weak fairness), and of
calls repeated without end to a live peer some request arrives and some answer
comes back (strong fairness, as a timeout can always come first). Strong fairness
of `StartRound` only says that the model's bound on busy threads does not lock the
leader out. The property asks that the leader's last entry is of its own term: the
code appends no entry on election, and entries of earlier terms alone are never
committed. `Terminates` asks that threads run and that executions end. `EveryJobAnswered` asks
that the pool's threads run and that a join with a timeout returns. Of the child
processes no fairness is asked: they may hang for ever. But the join after SIGTERM
and the reading of a result have no timeout, so the property has a condition: that
fewer threads than the pool has are lost (`Blocked`) to a child that outlives its
SIGTERM or leaves a part of a message. `ExpiredLeasesEnd` states
its fairness in the property: if one member leads from some time on, its tick
(`requeue_expired_tasks`, called on every turn of the leader's loop) and the commit of what it
proposed are weakly fair. Fair actions of a module that `focus` does not name are
never enabled, so they ask nothing.

## 5. Findings

* `raft_acks`: `propose_and_wait` compares indices only. A leader deposed before
  its entry was replicated answers True once another leader's entry at the same
  index is committed; the docstring promises "its Raft commit". While the node
  still leads the term it proposed in, the answer is right
  (`AckedWhileLeadingIsCommitted`), unless the next finding strikes.
* `raft_stale`: an AppendEntries answer is applied to `_match_index` whenever the
  node leads, whatever term the round was sent in. A `propose_and_wait` thread can
  read its answer after the node lost and won back leadership with another log;
  the node then takes its peer to hold what it does not, and commits an entry that
  it alone holds. The proofs of section 6 show that nothing else breaks
  agreement: they need only that no node leads with a round of an earlier term
  open (`RoundsCurrent`), which holds where no thread waits in `propose_and_wait`.
* `workflow_lost`: the document repository overwrites the workflow with whatever
  copy the caller has. With two workers a completion that has been announced is
  undone, and its task is running for ever. With one worker the repository and the
  events agree. What is stored remains a consistent workflow in any case.
* `cloud_limits`: the instance limit and the budget are tested when a deployment is
  proposed and not again when it is approved; two proposals that fit one by one are
  both executed. `provider_base.py` calls the cap one "the system cannot exceed".
* `cloud_offer`: `/configure_cloud` replaces the manager between proposal and
  approval, and `create_instance` is called with the configuration of that moment;
  the authorization that `deployment_manager.py` compares in full is the one of the
  reviewed offer, so another size than the reviewed one can be created.
* `cell_join`: `install_membership_snapshot` refuses a node with a log but does not
  look at its role or term. A joiner whose election timer ran out leads its own
  cell of one; seeded, it stays leader and sends its entries to the founders.
  `handle_append_entries` compares the terms of entries only, so a founder that has
  another command of the same index and term answers success, and the joiner
  commits a command that the cell has not.

Met while modelling, each outside what a property states or harmless within the
bounds, and kept here for whoever changes this code:

* A snapshot can take a follower's state back. `_send_heartbeats` captures the data
  when its round begins (`raft.py:563`) and sends it to a peer whose `_next_index`
  is behind the base when the round comes to it; rounds of the run loop and of
  `propose_and_wait` overlap, and calls are slow. `handle_install_snapshot` replaces
  the state without looking at the commit index (`raft.py:426`), and what is lost is
  not applied again, because the index stays. TLC finds it in 10 steps of
  `ClusterState` with two members and one snapshot: the leader compacts after the
  first command and begins a round, a second command is committed on both, the
  snapshot arrives. The log is right (`HandsOverAgreed`), and so is the state after a
  restart (`ReplicasConverge`). No production code calls `compact_log` yet.
* The sandbox sends SIGTERM and joins without a timeout (`sandbox.py:178-179`). A forked
  child inherits the handler of `scripts/run_node.py:109-113`, which only sets a flag:
  it goes on, and its pool thread waits for ever (4 steps of `SandboxPool`), although
  `sandbox.py:18` says that "a task that hangs is killed on timeout". A child killed
  while it writes its result has the same effect at `get` (line 192).
* `review_capability` reads the newest 1000 episodes of all capabilities and then picks
  those of one (`self_review.py:55-64`), although `for_action` speaks of "*every* past
  task" (`episodic_memory.py:171-173`). A capability used rarely beside a busy one is
  labelled by the few that are left; TLC finds three failures of which the review
  reads two, so that the label stays moderate (limit 3, four goals).
* After a restart the initial voters are the peers in the trust store, joiners
  approved meanwhile included (`node_runtime.py:199-201`, `raft.py:74`), so a
  committed change whose old voters are the founders is passed over
  (`raft.py:471`). TLC finds two founders replaced by a third peer, which leads
  alone, while a restarted founder is elected by the other in the same term (11
  steps of `CellMembership`). `docs/CELL_RECOVERY.md:34` says that joint consensus
  "prevents the old and new memberships from independently making conflicting
  progress during replacement"; `tests/test_raft_membership.py:63` restarts with
  the original peers only. `OneLeaderPerTerm` and `CommitsAgree` are therefore
  about what comes before the first change takes effect.
* `propose_membership_change` (`raft.py:514`) waits for an index like
  `propose_and_wait`: a leader deposed and elected again, whose log has another
  leader's uncommitted joint entry there, appends the final configuration and
  commits both at once under the old quorum, and two nodes then lead term 4 (four
  peers, 15 steps).
* `_become_leader` (`raft.py:291-296`) sets `_match_index` anew for voters only; what
  was known of a learner in an earlier reign counts once it is a voter.
* The rate limiter reads the clock before it takes the lock. A request whose time is
  older than the cleanup another client's request has run since is let through
  above the limit (10 steps), although the docstring (`rate_limiter.py:35-38`) says
  that the lock prevents it. `WindowHolds` is about requests that nothing overtook.
* A joint configuration is never left when the leader stops between its commit and
  the proposal of the final one: no later leader finishes the change.
* `PeerDirectory` and `TrustStore` write the same `peers.json`
  (`node_runtime.py:170-171`).
* A join whose answer is lost leaves its request pending until it expires; approved
  requests are forgotten on a restart (only the trust remains).
* `allocate` (`federation.py:172`) does not subtract leases given from what is advertised.
* `model_promotion_service.py:105` tests a score for being below its least value; promotion
  does not evaluate again what the approval was given for.
* `read_all` of the dataset raises on a line cut short by a crash, and so do
  `verify_chain` and every append of the audit log after one
  (`audit_log.py:98-104`): the log can then be neither verified nor continued.
* Pending proposals lose their artifacts on a restart; a design that raises uses up
  the builds of its goal.
* A session of the cognitive core stays open when its executor raises.
* The sandbox joins its child before it reads the result: one that does not fit the
  pipe is reported as a timeout.
* Rows of agents and tokens are overwritten like workflows: `authenticate` can undo
  a concurrent `revoke` (`EndedAloneIsFinal` holds for what was ended alone).
* A client evicted from the rate limiter begins a fresh window; `max_keys` is
  enforced at the cleanup only (`WindowHolds` is about clients not evicted).

## 6. Proofs

*Quorums* (`VoterConfigurationProofs`). Two majorities of a finite set meet, by
counting; so do two quorums of a configuration, and a joint quorum meets the
quorums of both its halves.

*Types* (`RaftCellProofs`). `TypeOK` is inductive. The one conjunct that needs
care is `nextIndex`, which must stay positive through back-off.

*Votes* (`RaftElectionProofs`). `VoteIsStable` follows from `TypeOK` alone.
`ElectionSafety` is not inductive: `VoteInv` adds that a counted vote was cast
(`CountedVotesCast`), that two candidates of a term count disjoint votes
(`CountedVotesDisjoint`), that a granted vote under way belongs to the election
its candidate is in (`GrantsGood`), which in turn rests on a node having one vote
call open at a time (`CallsMatch`), and that a leader's votes are a quorum
(`RolesMatch`). Two leaders of a term have two quorums of one configuration; a
voter in both contradicts disjointness.

*Logs* (`RaftLogProofs`). `LogMatching` needs to know where entries come from, and
the program keeps no record of it. `LogsSafe` says that a history of reigns exists:
for each term that had a leader, who it was, who voted for it, what its log
became and how much of it each node acknowledged. Every log is, up to each of its
entries, the log of the leader that created the entry (`Fits`), and so is what
is under way in rounds and requests. A step of the cell is met by a step of the
history; `LogsMatch` holds without any condition.

*Commits* (`RaftCommitProofs`). An entry is chosen when a quorum acknowledged it to
the leader that created it. A chosen entry is in the log of every later leader: the
quorum meets the voters of that leader, and the up-to-date test and the terms of
the entries do the rest. `CommitInv` says that whatever counts as committed on a
node, in a round or in a request under way ends in a chosen entry. This gives
`CommittedAgree`, `LeaderCompleteness`, `AckedWhileLeadingIsCommitted`,
`CommittedByMajority` and the refinement `ImplementsAgreedLog`. All of them have the
condition `[]RoundsCurrent`, and `raft_stale` shows why: the code counts the answer
to a round of an earlier term. The condition is met in every cell that uses the
run loop alone (`RunLoopRoundsAreCurrent`, `RunLoopKeepsPromise`).

*Workflows* (`WorkProofs`). Updates overwrite each other, so the
invariant must hold of every copy and not only of the stored document:
`Inv == TypeOK /\ StoredConsistent /\ CopiesConsistent`. Each operation maps a
consistent workflow to a consistent one; the core is that the cascade's least
closed set leaves no live task behind a dead one and cancels nothing else, and
that it never meets a running task (`CascadeNeverRaises`). `KahnIsSound` says what
the cycle test decides: were there a set of tasks that waits only for itself, a
first round of the algorithm would visit a task of it, and none can be the first;
`StoredIsAcyclic` follows, as no method changes a dependency. `AnnouncedIsStored`
holds when writes do not overlap (`OneWriter`: one worker, no API request, as in the
run `work`; `OneWriterAnnouncesWhatIsStored`), because no method takes a task out of
a state in which it has ended; with two writers `workflow_lost` refutes it.

*Approvals* (`ComponentProofs`). `GateInv` adds to the checked invariants
`InvokedIsConfirmed` and `PendingIsAnswerable` the link between memory and file
(`CallbacksMatch`): a callback belongs to a record that is pending or expired
unnoticed, and the running one to a record that is executing. It is inductive for
the gate alone, whatever its callbacks do (`GateInvariant`, `GateSafe`), and gives
`DecisionIsFinal` (`GateFinal`). Every step of the composition is a step of the gate
or leaves it alone (`CommandsUseGate`: `Spec => GateSpec`), so that the commands
inherit all of this (`CommandsSafe`). `EffectsAreApproved` needs besides that a running
callback that has not reached its effect has none yet (`EffectsInv`).

*The cluster node* (`WorkProofs`, `ClusterInv`, `ReplicaInv`). What is committed
is agreed, a leader has all that is agreed, and what a coordinator proposed stays
at its index as long as its node leads without a break: so the executor runs under
an agreed lease. For `ReplicasConverge`, snapshots carry later data than their
label says, and commands are applied twice. `OnTheWay` says that from any point
up to the commit index the rest of the agreed commands leads a member to the one
state; its core is that a command applied once too often is absorbed by
its next turn (`ApplyAgain`, `ApplyBetween`, `Absorbed`). It is said of every member
and of every snapshot on its way, with the index its data was captured at. A follower
may have committed past that index when the snapshot arrives, and what it then
computes is not the one state: such a member is in `setBack`, and `ReplicasConverge`
does not speak of its state in memory. It does speak of what the member saved with
the snapshot, from which a restart computes the one state, unless the data came
from a state that had been taken back itself, or such a state was compacted
(`savedBack`). `ClusterHandsOverAgreed` shows that
`ClusterState` refines `AgreedLog` (`HandsOverAgreed`, with the committed part of each
member's log for what it was handed): with `KeepsPromise` the cell and the node
above it meet at one specification. It speaks of the logs and not of the states.

*The pool* (`WorkProofs`, `PoolInv`). `_active_count` is the number of jobs that a
pool thread is in, and a child that is alive has a thread that waits for it: so a
call is never answered while generated code still runs for it
(`PoolHoldsItsChildren`), also when that code outlives its SIGTERM and the call is
therefore never answered. `WorkTyped` joins this with the types of the workflows and
of the cluster node (`ClusterTyped`): every behaviour of `MCWork` is one of its three
parts (`WorkIsItsParts`), whatever the values of the constants.

*Membership* (`CellMembershipProofs`). Until a change takes effect, the voters by
which a leader counted include a majority of the founders, whether its configuration
is the first or the joint one, and no node votes twice in a term (`CellInv`); that
is `OneLeaderThroughChanges`. `CommitsAgreeThroughChanges` shows that what two nodes
have both committed is the same. Where `RaftLogProofs` carries a history of reigns,
here, with elections and rounds in one step, the state itself says enough
(`AgreeInv`): whoever wrote an entry reached its term with a majority of the
founders, each of which has stayed with it or gone to a later term (`EntriesFit`), so
no two leaders write entries of one term, and the entries of a term fill one
interval of indexes in every log (`LogsMatch`, `TermsUniform`, `LeaderHasOwn`). An
entry of a leader's own term is on every founder that acknowledged it, and in
every log that has an entry of a later term, unless a majority has gone to later terms
without acknowledging it (`AcksFit`): then the leader can no longer commit it. When
a majority has acknowledged it, no majority can have gone past it, so what is
committed stays in the log of every later leader (`CommitsFit`). The invariant speaks
of the founders only, which is why learners may be counted and seeded freely. It is
needed as a whole: `LogsMatch` alone is not inductive for lack of the
origin of entries, and `CommitsFit` for lack of what an election may leave out. TLC
confirmed it on 3 founders and on 2 founders with a learner and a crash before it
was proved. Nothing is assumed of a joiner before it joins: it may elect itself in terms
that the cell uses too and write entries of its own, so the invariant speaks of
the nodes that have `Joined`, and says of the others that whoever leads without
having joined leads nobody else (`OwnCell`) and that a node joins with an empty log
and not as leader (`JoinsEmpty`), or else `moved` is set. What the theorems exclude is
what `moved` records: a node that counts other voters than the founders (a change
finalized there, a restart from a larger trust store), and one that usurps the cell;
`cell_join` shows what comes of a joiner that is seeded while it leads.

*The other components* (`ComponentProofs`), each with its own inductive invariant:
recovery (the window of failures counted lies within the silence since the last
answer), federation (advertisements and leases lie within the grace that the
withdrawal of a capability leaves), joining (what is approved is in the trust
store, its file and the TLS context, and so is what either side read of it),
self-expansion (the file under a name, every artifact and every approval under
way come from a build that passed the gates; what was turned down stays so),
audit (a line's hash is that of its predecessor unless its writer was overtaken, and
a torn line is the last),
learning (a cycle that is alone reads what is there and leaves one fact; what it reads
is the whole history as long as the episodes of all capabilities fit the limit of the
review, and only then is the label promised to be that of the history), training
(the lines of the file are in the ids known, also after a crash in a write), rate
limiting (the times counted are those of the last grants, and the grants before
them are out of every later window), agents
and tokens (a copy of a row ended alone says so too).

Where an argument needs induction, it is by a least counterexample among the
natural numbers (`LeastOf`, from `WFMin`), since the library's induction rules take
an operator that these provers cannot instantiate.

The assumptions are those of the modules: finite sets of nodes, founders and
tasks, natural numbers as bounds, `None` different from the values it stands
beside, and ids of agents different from those of tokens. No theorem depends on the
values a run gives to the constants.

*Only model-checked.* The type invariant of the run `components` as such
(`ComponentsTypeOK`; where a component's types are needed they are part of its
invariant); and everything temporal under fairness (`LeaderReplicates`,
`ExpiredLeasesEnd`, `EveryJobAnswered`, `Terminates`), which is out of the provers'
reach.

## 7. Not modelled

* *Discovery of further peers* (`discovery.py`): off by default, and nothing in the
  composed node switches it on.
* *In-memory workflow repository*: threads share one object, so the domain's
  statements would have to be cut one by one; `Orchestrator` has the repository of
  a deployment, the document table.
* *Redis event bus* and *the delivery of task results to chats*: `Orchestrator` ends
  where an event is published to the in-process bus.
* *Model routing and execution*: a choice by configuration and calls to external
  models, without state of its own.
* *Code synthesis*: what a template or a model writes is text; `SelfExpansion` keeps
  which gates it fails.
* *Offer search, remote-control sessions, hosting commands*: the first two are
  external input and output, the commands have no caller.
* *Cryptography, TLS framing, certificates' contents*: a certificate is its owner and
  serial number.
* *Reporting, secrets, configuration, API shell, container*: input and output, wiring
  and formatting.
