---------------------------- MODULE CognitiveCycle ----------------------------
(***************************************************************************)
(* cognitive_core: CognitiveEngine.run on the threads of a pool, over the  *)
(* capability registry, working, episodic and semantic memory, and the     *)
(* learning layer.  Each call of a memory holds that memory's lock; a cycle*)
(* is many such calls.  The registry, the episodes and the facts are on    *)
(* disk; sessions and the executor's handlers are in memory.  The audit    *)
(* appends of these calls are module AuditChain: no step here reads them.  *)
(***************************************************************************)
EXTENDS Optional, Integers, Sequences, FiniteSets

CONSTANTS
  Capability,        \* (component_id, name)
  Thread,
  Score,             \* cost and risk penalty of a capability, in tenths
  ReviewLimit,       \* episodes of one kind that a review reads: 1000
  MaxVersions,       \* bound: publications of one capability
  MaxGoals,          \* bound: goals run
  MaxRestarts,       \* bound: restarts of the process
  MaxOpen            \* bound: sessions open at once

ASSUME ScoreAssumption == Score \in [Capability -> Nat]
ASSUME CoreAssumption == MaxVersions \in Nat /\ ReviewLimit \in Nat

Id == Capability \X (1 .. MaxVersions)     \* a capability_id, new for each publication
Label == {"moderate", "reliable", "unreliable"}

VARIABLES
  versions,     \* publications so far
  latest,       \* CapabilityRegistry._latest
  unbound,      \* a capability_id bind has published and not registered a handler for
  handlers,     \* LocalExecutor._handlers
  completed,    \* the capability_id of each goal.completed episode, oldest first
  failed,       \* of each goal.failed_execution episode
  facts,        \* the has_reliability facts
  cycle,        \* the thread's run: where it is and what it has read
  sessions,     \* WorkingMemory._sessions, counted
  goals,        \* goals run so far
  coreRestarts,
  settled       \* history: ids whose last learning overlapped no other and ended

coreVars == <<versions, latest, unbound, handlers, completed, failed, facts, cycle,
              sessions, goals, coreRestarts, settled>>

Steps == {"idle", "chosen", "ran", "recorded", "half", "reviewed", "pruning"}
Idle == [step |-> "idle", id |-> None, ok |-> FALSE, good |-> 0, bad |-> 0,
         stale |-> {}, alone |-> TRUE]

CoreTypeOK ==
  /\ versions \in [Capability -> 0 .. MaxVersions] /\ latest \in [Capability -> Maybe(Id)]
  /\ unbound \in Maybe(Id) /\ handlers \subseteq Id
  /\ completed \in Seq(Id) /\ failed \in Seq(Id) /\ Len(completed) + Len(failed) <= goals
  /\ facts \in [Id -> SUBSET Label]
  /\ cycle \in [Thread -> [step : Steps, id : Maybe(Id), ok : BOOLEAN, good : 0 .. ReviewLimit,
                           bad : 0 .. ReviewLimit, stale : SUBSET Label, alone : BOOLEAN]]
  /\ sessions \in 0 .. MaxOpen /\ goals \in 0 .. MaxGoals
  /\ coreRestarts \in 0 .. MaxRestarts /\ settled \subseteq Id

CoreInit ==
  /\ versions = [k \in Capability |-> 0] /\ latest = [k \in Capability |-> None]
  /\ unbound = None /\ handlers = {}
  /\ completed = <<>> /\ failed = <<>>
  /\ facts = [i \in Id |-> {}]
  /\ cycle = [t \in Thread |-> Idle]
  /\ sessions = 0 /\ goals = 0 /\ coreRestarts = 0 /\ settled = {}

registryVars == <<versions, latest, unbound, handlers>>
memoryVars == <<completed, failed, facts>>

------------------------------------------------------------------------------
(* The registry *)

\* register: a version of its own, which replaces the latest
RegisterVersion(k, id) ==
  /\ versions' = [versions EXCEPT ![k] = @ + 1]
  /\ latest' = [latest EXCEPT ![k] = id]

\* bind: publish
Publish(k) ==
  /\ unbound = None /\ versions[k] < MaxVersions
  /\ LET id == <<k, versions[k] + 1>> IN RegisterVersion(k, id) /\ unbound' = id
  /\ UNCHANGED <<handlers, memoryVars, cycle, sessions, coreRestarts, settled, goals>>

\* bind: register_handler, after the capability can already be found
RegisterHandler ==
  /\ unbound # None
  /\ handlers' = handlers \cup {unbound} /\ unbound' = None
  /\ UNCHANGED <<versions, latest, memoryVars, cycle, sessions, coreRestarts, settled, goals>>

\* unpublish: gone from discovery; its handler and its history stay
Unpublish(k) ==
  /\ latest[k] # None
  /\ latest' = [latest EXCEPT ![k] = None]
  /\ UNCHANGED <<versions, unbound, handlers, memoryVars, cycle, sessions, coreRestarts, settled, goals>>

------------------------------------------------------------------------------
(* The memories *)

OpenSession == sessions < MaxOpen /\ sessions' = sessions + 1
CloseSession == sessions' = sessions - 1

\* record_episode
RecordEpisode(id, ok) ==
  IF ok THEN completed' = Append(completed, id) /\ UNCHANGED failed
        ELSE failed' = Append(failed, id) /\ UNCHANGED completed

\* All the episodes of id that were recorded
Runs(episodes, id) == Cardinality({k \in DOMAIN episodes : episodes[k] = id})

\* for_action, then the filter of the review: the newest of all capabilities,
\* and of those the episodes of id
Newest(episodes) == {k \in DOMAIN episodes : k + ReviewLimit > Len(episodes)}
Reviewed(episodes, id) == Cardinality({k \in Newest(episodes) : episodes[k] = id})

\* add_fact, on entities add_entity has made or found, and remove_fact: both may be
\* repeated
AddFact(id, l) == facts' = [facts EXCEPT ![id] = @ \cup {l}]
RemoveFact(id, l) == facts' = [facts EXCEPT ![id] = @ \ {l}]

------------------------------------------------------------------------------
(* One cycle *)

Classify(good, bad) ==
  CASE good + bad < 3 -> "moderate"
    [] good + bad >= 3 /\ 10 * good >= 8 * (good + bad) -> "reliable"
    [] good + bad >= 3 /\ 10 * good < 5 * (good + bad) -> "unreliable"
    [] OTHER -> "moderate"

\* score_adjustment in tenths: the first of the facts, in no particular order
Adjustments(id) ==
  IF facts[id] = {} THEN {0}
  ELSE {CASE l = "reliable" -> -2 [] l = "moderate" -> 5 [] l = "unreliable" -> 30 : l \in facts[id]}

\* The plans select_best_plan may return for these candidates
Best(C) ==
  {c \in C : \E s \in Adjustments(c) : \A d \in C :
     \E r \in Adjustments(d) : Score[c[1]] + s <= Score[d[1]] + r}

\* What discover and find_by_name find: the latest versions
Discovered == {k \in Capability : latest[k] # None}

\* analyze of a goal that names capabilities K
Candidates(K) == {latest[k] : k \in K \cap Discovered}

\* run: the session, the candidates, the plan and its episode.  Without a candidate
\* the session is closed again and run raises: nothing a later step reads remains.
ChoosePlan(t, K) ==
  /\ cycle[t].step = "idle" /\ goals < MaxGoals
  /\ OpenSession
  /\ \E id \in Best(Candidates(K)) :
        cycle' = [cycle EXCEPT ![t] = [Idle EXCEPT !.step = "chosen", !.id = id]]
  /\ goals' = goals + 1
  /\ UNCHANGED <<registryVars, memoryVars, coreRestarts, settled>>

\* executor(step, payload): without a handler it fails, with one it may
Execute(t) ==
  /\ cycle[t].step = "chosen"
  /\ \E ok \in (IF cycle[t].id \in handlers THEN BOOLEAN ELSE {FALSE}) :
        cycle' = [cycle EXCEPT ![t].step = "ran", ![t].ok = ok]
  /\ UNCHANGED <<registryVars, memoryVars, sessions, coreRestarts, settled, goals>>

\* The executor raises (the scheduler is shut down): run has no handler for it,
\* so no outcome is recorded and the session stays open.
ExecutorRaises(t) ==
  /\ cycle[t].step = "chosen" /\ cycle[t].id \in handlers
  /\ cycle' = [cycle EXCEPT ![t] = Idle]
  /\ UNCHANGED <<registryVars, memoryVars, sessions, coreRestarts, settled, goals>>

\* The threads between the episode of an execution of id and the end of learning
Learning(id) ==
  {t \in Thread : cycle[t].step \in {"recorded", "half", "reviewed", "pruning"} /\ cycle[t].id = id}

\* record_episode of the outcome
RecordOutcome(t) ==
  /\ cycle[t].step = "ran"
  /\ LET id == cycle[t].id
     IN /\ RecordEpisode(id, cycle[t].ok)
        /\ cycle' = [u \in Thread |->
             IF u = t THEN [cycle[t] EXCEPT !.step = "recorded", !.alone = (Learning(id) = {})]
             ELSE IF u \in Learning(id) THEN [cycle[u] EXCEPT !.alone = FALSE] ELSE cycle[u]]
        /\ settled' = settled \ {id}
  /\ UNCHANGED <<registryVars, facts, sessions, coreRestarts, goals>>

\* review_capability: the completed and the failed episodes, in two queries
ReviewCompleted(t) ==
  /\ cycle[t].step = "recorded"
  /\ cycle' = [cycle EXCEPT ![t].step = "half", ![t].good = Reviewed(completed, cycle[t].id)]
  /\ UNCHANGED <<registryVars, memoryVars, sessions, coreRestarts, settled, goals>>

ReviewFailed(t) ==
  /\ cycle[t].step = "half"
  /\ cycle' = [cycle EXCEPT ![t].step = "reviewed", ![t].bad = Reviewed(failed, cycle[t].id)]
  /\ UNCHANGED <<registryVars, memoryVars, sessions, coreRestarts, settled, goals>>

\* Mutant of NewLabel: the label of the last outcome, whatever came before it.
LabelOfLast(t) == IF cycle[t].ok THEN "reliable" ELSE "unreliable"

\* classify_reliability of the review
NewLabel(t) == Classify(cycle[t].good, cycle[t].bad)

\* extract: the labels found that differ from the new one
StaleLabels(t) == facts[cycle[t].id] \ {NewLabel(t)}

\* A review that found no run: other capabilities' episodes have filled the limit
Unseen(t) == cycle[t].good + cycle[t].bad = 0

QueryLabels(t) ==
  /\ cycle[t].step = "reviewed" /\ ~Unseen(t)
  /\ cycle' = [cycle EXCEPT ![t].step = "pruning", ![t].stale = StaleLabels(t)]
  /\ UNCHANGED <<registryVars, memoryVars, sessions, coreRestarts, settled, goals>>

RemoveLabel(t) ==
  /\ cycle[t].step = "pruning"
  /\ \E l \in cycle[t].stale :
        /\ RemoveFact(cycle[t].id, l)
        /\ cycle' = [cycle EXCEPT ![t].stale = @ \ {l}]
  /\ UNCHANGED <<registryVars, completed, failed, sessions, coreRestarts, settled, goals>>

\* run after the learning: the session is closed and the result returned
EndCycle(t) == CloseSession /\ cycle' = [cycle EXCEPT ![t] = Idle]

\* extract of an empty report: there is nothing to learn, and the facts stay
NothingToLearn(t) ==
  /\ cycle[t].step = "reviewed" /\ Unseen(t)
  /\ EndCycle(t)
  /\ UNCHANGED <<registryVars, memoryVars, coreRestarts, settled, goals>>

\* extract: the new fact, after which run ends
AddLabel(t) ==
  /\ cycle[t].step = "pruning" /\ cycle[t].stale = {}
  /\ AddFact(cycle[t].id, NewLabel(t))
  /\ EndCycle(t)
  /\ settled' = IF cycle[t].alone THEN settled \cup {cycle[t].id} ELSE settled
  /\ UNCHANGED <<registryVars, completed, failed, coreRestarts, goals>>

CoreRestart ==
  /\ coreRestarts < MaxRestarts
  /\ coreRestarts' = coreRestarts + 1
  /\ cycle' = [t \in Thread |-> Idle]
  /\ sessions' = 0 /\ handlers' = {} /\ unbound' = None
  /\ UNCHANGED <<versions, latest, memoryVars, settled, goals>>

CoreNext ==
  \/ \E k \in Capability : Publish(k) \/ Unpublish(k)
  \/ RegisterHandler \/ CoreRestart
  \/ \E t \in Thread :
        \/ \E K \in SUBSET Capability : ChoosePlan(t, K)
        \/ Execute(t) \/ ExecutorRaises(t) \/ RecordOutcome(t)
        \/ ReviewCompleted(t) \/ ReviewFailed(t)
        \/ QueryLabels(t) \/ NothingToLearn(t) \/ RemoveLabel(t) \/ AddLabel(t)

CoreSpec == CoreInit /\ [][CoreNext]_coreVars

------------------------------------------------------------------------------
\* What the runs of id, all of them, say of it
HistoryLabel(id) == Classify(Runs(completed, id), Runs(failed, id))

\* No review has left out an episode yet.
WithinLimit == Len(completed) <= ReviewLimit /\ Len(failed) <= ReviewLimit

\* A learning that overlaps no other of the same capability leaves exactly one
\* reliability fact, whatever contradictory facts overlapping cycles or a crash
\* between the calls of extract left behind (KnowledgeExtractor.extract prunes
\* before it adds); and as long as the episodes of all capabilities fit the limit
\* of the review, it is the fact that the whole history of this one deserves.
SoloLearningSettles ==
  \A id \in settled :
    \E l \in Label : facts[id] = {l} /\ (WithinLimit => l = HistoryLabel(id))
===============================================================================
