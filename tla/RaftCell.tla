------------------------------ MODULE RaftCell ------------------------------
(***************************************************************************)
(* raft.py: elections and log replication of one Raft cell whose voters    *)
(* are fixed and whose log is never compacted (no production code calls    *)
(* compact_log).                                                           *)
(*                                                                         *)
(* Every RPC handler runs under the node's RLock and persists before it    *)
(* releases it, so between actions the disk holds exactly currentTerm,     *)
(* votedFor, log and commitIndex.  An RPC is a synchronous call: a thread  *)
(* has at most one call open, and gives it up by a timeout or a broken     *)
(* connection (Abandon...).  The request of a call given up can still      *)
(* reach its server: it stays in flight with live = FALSE, and nobody      *)
(* reads its answer.                                                       *)
(*                                                                         *)
(* The threads of a node are its run loop, which holds elections and sends *)
(* heartbeat rounds, and the threads inside propose_and_wait, which send   *)
(* rounds of their own, concurrently.                                      *)
(*                                                                         *)
(* Indices start at 1; the code's start at 0, and its -1 is 0 here.        *)
(***************************************************************************)
EXTENDS VoterConfiguration, Sequences, FiniteSetsExt

CONSTANTS
  Node,       \* the voters of the cell
  Command,    \* what owners propose
  RunLoop,    \* the slot of a node's _run_loop thread
  Proposer,   \* the slots of the threads that may be inside propose_and_wait
  None,       \* the code's None
  MaxTerm,    \* bound: no election is started in this term
  MaxLog,     \* bound: no command is proposed to a log this long
  MaxCrash,   \* bound: how many crashes a behaviour has
  MaxOrphan,  \* bound: calls given up whose request is still in flight
  MaxBusy     \* bound: threads in an election or a round at the same time

ASSUME NodeAssumption == IsFiniteSet(Node) /\ Node # {} /\ None \notin Node
ASSUME SlotAssumption == RunLoop \notin Proposer
ASSUME BoundAssumption == {MaxTerm, MaxLog, MaxCrash, MaxOrphan, MaxBusy} \subseteq Nat

Slot == {RunLoop} \cup Proposer
Cell == Stable(Node)

VARIABLES
  \* on disk and in memory
  currentTerm, votedFor, log, commitIndex,
  \* in memory only
  role, nextIndex, matchIndex,
  poll,       \* term and votes of the last election a node held
  election,   \* the election the run loop is in: what it asks with, whom it still asks
  round,      \* the heartbeat round a thread is in: its snapshot, whom it still calls
  waiting,    \* the entry a propose_and_wait thread waits for
  acked,      \* the answers True of propose_and_wait so far (history)
  \* the network
  voteRequests, voteReplies, appendRequests, appendReplies,
  crashes

durable   == <<currentTerm, votedFor, log, commitIndex>>
leading   == <<nextIndex, matchIndex>>
voting    == <<poll, election, voteRequests, voteReplies>>
appending == <<round, appendRequests, appendReplies>>
proposing == <<waiting, acked>>
vars == <<durable, role, leading, voting, appending, proposing, crashes>>

Role == {"follower", "candidate", "leader"}
Entry == [term : Nat, command : Command]
Poll == [term : Nat, votes : SUBSET Node]
Election ==
  [lastIndex : Nat, lastTerm : Nat, todo : SUBSET Node, calling : Node \cup {None}]
Round ==
  [term : Nat, log : Seq(Entry), commit : Nat, todo : SUBSET Node, calling : Node \cup {None}]
Wait == [index : Nat, entry : Entry]
ASSUME NoneAssumption == None \notin Election \cup Round
Ack == [index : Nat, entry : Entry, steady : BOOLEAN]
VoteRequest ==
  [from : Node, to : Node, term : Nat, lastIndex : Nat, lastTerm : Nat, live : BOOLEAN]
VoteReply == [from : Node, to : Node, term : Nat, granted : BOOLEAN]
AppendRequest ==
  [from : Node, slot : Slot, to : Node, term : Nat, prevIndex : Nat, prevTerm : Nat,
   entries : Seq(Entry), commit : Nat, live : BOOLEAN]
AppendReply ==
  [from : Node, slot : Slot, to : Node, term : Nat, success : BOOLEAN, match : Nat]

TypeOK ==
  /\ currentTerm \in [Node -> Nat]
  /\ votedFor \in [Node -> Node \cup {None}]
  /\ log \in [Node -> Seq(Entry)]
  /\ commitIndex \in [Node -> Nat]
  /\ role \in [Node -> Role]
  /\ nextIndex \in [Node -> [Node -> Nat \ {0}]]
  /\ matchIndex \in [Node -> [Node -> Nat]]
  /\ poll \in [Node -> Poll]
  /\ election \in [Node -> Election \cup {None}]
  /\ round \in [Node -> [Slot -> Round \cup {None}]]
  /\ waiting \in [Node -> [Proposer -> Wait \cup {None}]]
  /\ acked \subseteq Ack
  /\ voteRequests \subseteq VoteRequest
  /\ voteReplies \subseteq VoteReply
  /\ appendRequests \subseteq AppendRequest
  /\ appendReplies \subseteq AppendReply
  /\ crashes \in Nat

Init ==
  /\ currentTerm = [i \in Node |-> 0]
  /\ votedFor = [i \in Node |-> None]
  /\ log = [i \in Node |-> <<>>]
  /\ commitIndex = [i \in Node |-> 0]
  /\ role = [i \in Node |-> "follower"]
  /\ nextIndex = [i \in Node |-> [j \in Node |-> 1]]
  /\ matchIndex = [i \in Node |-> [j \in Node |-> 0]]
  /\ poll = [i \in Node |-> [term |-> 0, votes |-> {}]]
  /\ election = [i \in Node |-> None]
  /\ round = [i \in Node |-> [s \in Slot |-> None]]
  /\ waiting = [i \in Node |-> [p \in Proposer |-> None]]
  /\ acked = {}
  /\ voteRequests = {} /\ voteReplies = {}
  /\ appendRequests = {} /\ appendReplies = {}
  /\ crashes = 0

-----------------------------------------------------------------------------
(* Log helpers *)

\* _term_at, and the prev_log_term lookup of _send_heartbeats: 0 outside the log.
TermAt(l, index) == IF index \in DOMAIN l THEN l[index].term ELSE 0

\* _last_log_term
LastTerm(l) == TermAt(l, Len(l))

\* Mutant of UpToDate: only the lengths are compared.
LongEnough(lastTerm, lastIndex, l) == lastIndex >= Len(l)

\* log_ok of handle_request_vote
UpToDate(lastTerm, lastIndex, l) ==
  \/ lastTerm > LastTerm(l)
  \/ lastTerm = LastTerm(l) /\ lastIndex >= Len(l)

\* Mutant of PrevMatches: the term at prev_log_index is not compared.
PrevExists(l, prevIndex, prevTerm) == prevIndex <= Len(l)

\* The prev_log_index test of handle_append_entries.
PrevMatches(l, prevIndex, prevTerm) ==
  prevIndex > 0 => prevIndex <= Len(l) /\ TermAt(l, prevIndex) = prevTerm

\* Mutant of Merge: a conflicting suffix is kept, only missing positions are filled.
MergeKeepingConflicts(l, prevIndex, entries) ==
  l \o SubSeq(entries, Len(l) - prevIndex + 1, Len(entries))

\* The merge loop of handle_append_entries: an entry the log already holds, by
\* position and term, is kept; the first one that conflicts truncates the log,
\* and the rest is appended.
Merge(l, prevIndex, entries) ==
  LET last     == prevIndex + Len(entries)
      holds(n) == \A k \in prevIndex + 1 .. n :
                    k <= Len(l) /\ l[k].term = entries[k - prevIndex].term
  IN  IF holds(last) THEN l
      ELSE [n \in 1 .. last |-> IF holds(n) THEN l[n] ELSE entries[n - prevIndex]]

-----------------------------------------------------------------------------
(* What several handlers do to the node they run on *)

\* _step_down, and the term change of handle_append_entries
StepDown(i, term) ==
  /\ currentTerm' = [currentTerm EXCEPT ![i] = term]
  /\ votedFor' = [votedFor EXCEPT ![i] = None]
  /\ role' = [role EXCEPT ![i] = "follower"]

\* The process of node i is gone and comes back: whatever is not on disk is
\* reset by __init__, its threads and the calls they had open are gone.
Restart(i) ==
  /\ role' = [role EXCEPT ![i] = "follower"]
  /\ nextIndex' = [nextIndex EXCEPT ![i] = [j \in Node |-> 1]]
  /\ matchIndex' = [matchIndex EXCEPT ![i] = [j \in Node |-> 0]]
  /\ election' = [election EXCEPT ![i] = None]
  /\ round' = [round EXCEPT ![i] = [s \in Slot |-> None]]
  /\ waiting' = [waiting EXCEPT ![i] = [p \in Proposer |-> None]]
  /\ voteReplies' = {m \in voteReplies : m.to # i}
  /\ appendReplies' = {m \in appendReplies : m.to # i}
  /\ crashes < MaxCrash
  /\ crashes' = crashes + 1
  /\ UNCHANGED <<poll, acked>>

\* The requests of a crashed node that are still under way.
Orphaned(requests, i) ==
  {IF m.from = i THEN [m EXCEPT !.live = FALSE] ELSE m : m \in requests}

Orphans == {m \in voteRequests : ~m.live} \cup {m \in appendRequests : ~m.live}

\* What becomes of the request of a call its caller gives up: it is lost, or
\* (within the bound) still under way.
LostOrOrphaned(requests, mine) ==
  {requests \ mine} \cup
    (IF Cardinality(Orphans) < MaxOrphan
       THEN {(requests \ mine) \cup {[m EXCEPT !.live = FALSE] : m \in mine}}
       ELSE {})

\* The bound on concurrency: another thread may start an election or a round.
MayStart ==
  Cardinality({i \in Node : election[i] # None} \cup
              {t \in Node \X Slot : round[t[1]][t[2]] # None}) < MaxBusy

-----------------------------------------------------------------------------
(* Elections: _start_election on the run loop, handle_request_vote *)

StartElection(i) ==
  /\ role[i] # "leader"
  /\ election[i] = None /\ round[i][RunLoop] = None
  /\ currentTerm[i] < MaxTerm /\ MayStart
  /\ currentTerm' = [currentTerm EXCEPT ![i] = @ + 1]
  /\ votedFor' = [votedFor EXCEPT ![i] = i]
  /\ role' = [role EXCEPT ![i] = "candidate"]
  /\ poll' = [poll EXCEPT ![i] = [term |-> currentTerm[i] + 1, votes |-> {i}]]
  /\ election' = [election EXCEPT ![i] =
       [lastIndex |-> Len(log[i]), lastTerm |-> LastTerm(log[i]),
        todo |-> PeerIds(Cell, i), calling |-> None]]
  /\ UNCHANGED <<log, commitIndex, leading, voteRequests, voteReplies,
                 appending, proposing, crashes>>

\* A failed call is skipped without looking at the node's state, so a node no
\* longer a candidate can go on asking for votes in its old term.
RequestVote(i, j) ==
  /\ election[i] # None /\ election[i].calling = None /\ j \in election[i].todo
  /\ election' = [election EXCEPT ![i].calling = j, ![i].todo = @ \ {j}]
  /\ voteRequests' = voteRequests \cup
       {[from |-> i, to |-> j, term |-> poll[i].term, lastIndex |-> election[i].lastIndex,
         lastTerm |-> election[i].lastTerm, live |-> TRUE]}
  /\ UNCHANGED <<durable, role, leading, poll, voteReplies, appending, proposing, crashes>>

\* Mutant of Grants: an earlier vote of the term is forgotten.
GrantsAgain(m, vote) == UpToDate(m.lastTerm, m.lastIndex, log[m.to])

\* The voter, whose vote in the request's term is vote so far, votes for the candidate.
Grants(m, vote) ==
  vote \in {None, m.from} /\ UpToDate(m.lastTerm, m.lastIndex, log[m.to])

HandleRequestVote(m) ==
  LET j       == m.to
      newer   == m.term > currentTerm[j]
      granted == /\ m.term >= currentTerm[j]
                 /\ Grants(m, IF newer THEN None ELSE votedFor[j])
  IN  /\ m \in voteRequests
      /\ currentTerm' = [currentTerm EXCEPT ![j] = IF newer THEN m.term ELSE @]
      /\ votedFor' = [votedFor EXCEPT ![j] =
           IF granted THEN m.from ELSE IF newer THEN None ELSE @]
      /\ role' = [role EXCEPT ![j] = IF newer THEN "follower" ELSE @]
      /\ voteRequests' = voteRequests \ {m}
      /\ voteReplies' = IF ~m.live THEN voteReplies ELSE voteReplies \cup
           {[from |-> j, to |-> m.from, term |-> currentTerm'[j], granted |-> granted]}
      /\ UNCHANGED <<log, commitIndex, leading, poll, election, appending, proposing, crashes>>

\* The answer ends the election when it shows a newer term or finds the node
\* no longer a candidate of the election's term; else the vote is counted.
HandleVoteReply(m) ==
  LET i == m.to IN
  /\ m \in voteReplies /\ election[i] # None
  /\ voteReplies' = voteReplies \ {m}
  /\ \/ /\ m.term > currentTerm[i]
        /\ StepDown(i, m.term)
        /\ election' = [election EXCEPT ![i] = None]
        /\ UNCHANGED poll
     \/ /\ m.term <= currentTerm[i]
        /\ role[i] # "candidate" \/ currentTerm[i] # poll[i].term
        /\ election' = [election EXCEPT ![i] = None]
        /\ UNCHANGED <<currentTerm, votedFor, role, poll>>
     \/ /\ m.term <= currentTerm[i]
        /\ role[i] = "candidate" /\ currentTerm[i] = poll[i].term
        /\ election' = [election EXCEPT ![i].calling = None]
        /\ poll' = [poll EXCEPT ![i].votes = IF m.granted THEN @ \cup {m.from} ELSE @]
        /\ UNCHANGED <<currentTerm, votedFor, role>>
  /\ UNCHANGED <<log, commitIndex, leading, voteRequests, appending, proposing, crashes>>

\* request_vote raises: the run loop goes on with the next peer.
AbandonVote(i) ==
  /\ election[i] # None /\ election[i].calling # None
  /\ election' = [election EXCEPT ![i].calling = None]
  /\ voteRequests' \in
       LostOrOrphaned(voteRequests, {m \in voteRequests : m.from = i /\ m.live})
  /\ voteReplies' = {m \in voteReplies : m.to # i}
  /\ UNCHANGED <<durable, role, leading, poll, appending, proposing, crashes>>

Elected(i) ==
  /\ role[i] = "candidate" /\ currentTerm[i] = poll[i].term
  /\ HasQuorum(Cell, poll[i].votes)

\* Mutant of FirstNext: off by one, the last entry is taken for missing.
LastAgain(l) == Len(l)

\* The _next_index that _become_leader gives every peer.
FirstNext(l) == Len(l) + 1

\* The end of _start_election, with _become_leader.
FinishElection(i) ==
  /\ election[i] # None /\ election[i].calling = None /\ election[i].todo = {}
  /\ election' = [election EXCEPT ![i] = None]
  /\ \/ /\ Elected(i)
        /\ role' = [role EXCEPT ![i] = "leader"]
        /\ nextIndex' = [nextIndex EXCEPT ![i] = [j \in Node |-> FirstNext(log[i])]]
        /\ matchIndex' = [matchIndex EXCEPT ![i] = [j \in Node |-> 0]]
     \/ ~Elected(i) /\ UNCHANGED <<role, leading>>
  /\ UNCHANGED <<durable, poll, voteRequests, voteReplies, appending, proposing, crashes>>

-----------------------------------------------------------------------------
(* Replication: _send_heartbeats on any thread, handle_append_entries *)

\* The run loop starts a round as leader, a waiting proposer in each turn of
\* its loop; the round keeps the log and commit index of this moment.
StartRound(i, s) ==
  /\ role[i] = "leader" /\ round[i][s] = None
  /\ IF s = RunLoop THEN election[i] = None ELSE waiting[i][s] # None
  /\ MayStart
  /\ round' = [round EXCEPT ![i][s] =
       [term |-> currentTerm[i], log |-> log[i], commit |-> commitIndex[i],
        todo |-> PeerIds(Cell, i), calling |-> None]]
  /\ UNCHANGED <<durable, role, leading, voting, appendRequests, appendReplies,
                 proposing, crashes>>

\* next_index is read now, without the lock, and may lie past the round's log.
AppendEntries(i, s, j) ==
  LET r == round[i][s]
      prevIndex == nextIndex[i][j] - 1
  IN  /\ r # None /\ r.calling = None /\ j \in r.todo
      /\ round' = [round EXCEPT ![i][s] = [r EXCEPT !.calling = j, !.todo = r.todo \ {j}]]
      /\ appendRequests' = appendRequests \cup
           {[from |-> i, slot |-> s, to |-> j, term |-> r.term,
             prevIndex |-> prevIndex, prevTerm |-> TermAt(r.log, prevIndex),
             entries |-> SubSeq(r.log, prevIndex + 1, Len(r.log)),
             commit |-> r.commit, live |-> TRUE]}
      /\ UNCHANGED <<durable, role, leading, voting, appendReplies, proposing, crashes>>

\* commit_index after _apply_committed(min(leader_commit, last log index))
NewCommit(commit, leaderCommit, l) ==
  IF leaderCommit > commit THEN Min({leaderCommit, Len(l)}) ELSE commit

HandleAppendEntries(m) ==
  LET j       == m.to
      current == m.term >= currentTerm[j]
      newer   == m.term > currentTerm[j]
      success == current /\ PrevMatches(log[j], m.prevIndex, m.prevTerm)
  IN  /\ m \in appendRequests
      /\ currentTerm' = [currentTerm EXCEPT ![j] = IF newer THEN m.term ELSE @]
      /\ votedFor' = [votedFor EXCEPT ![j] = IF newer THEN None ELSE @]
      /\ role' = [role EXCEPT ![j] = IF current THEN "follower" ELSE @]
      /\ log' = [log EXCEPT ![j] = IF success THEN Merge(@, m.prevIndex, m.entries) ELSE @]
      /\ commitIndex' = [commitIndex EXCEPT ![j] =
           IF success THEN NewCommit(@, m.commit, log'[j]) ELSE @]
      /\ appendRequests' = appendRequests \ {m}
      /\ appendReplies' = IF ~m.live THEN appendReplies ELSE appendReplies \cup
           {[from |-> j, slot |-> m.slot, to |-> m.from, term |-> currentTerm'[j],
             success |-> success, match |-> m.prevIndex + Len(m.entries)]}
      /\ UNCHANGED <<leading, voting, round, proposing, crashes>>

\* The _next_index of a peer that refused: never below the first entry.
BackOff(next) == Max({1, next - 1})

\* The answer is judged by the node's state now: its term need not be the
\* term of the round any more.
HandleAppendReply(m) ==
  LET i == m.to
      s == m.slot
  IN  /\ m \in appendReplies /\ round[i][s] # None
      /\ appendReplies' = appendReplies \ {m}
      /\ \/ /\ m.term > currentTerm[i]
            /\ StepDown(i, m.term)
            /\ round' = [round EXCEPT ![i][s] = None]
            /\ UNCHANGED leading
         \/ /\ m.term <= currentTerm[i] /\ role[i] # "leader"
            /\ round' = [round EXCEPT ![i][s] = None]
            /\ UNCHANGED <<currentTerm, votedFor, role, leading>>
         \/ /\ m.term <= currentTerm[i] /\ role[i] = "leader" /\ m.success
            /\ matchIndex' = [matchIndex EXCEPT ![i][m.from] = m.match]
            /\ nextIndex' = [nextIndex EXCEPT ![i][m.from] = m.match + 1]
            /\ round' = [round EXCEPT ![i][s].calling = None]
            /\ UNCHANGED <<currentTerm, votedFor, role>>
         \/ /\ m.term <= currentTerm[i] /\ role[i] = "leader" /\ ~m.success
            /\ nextIndex' = [nextIndex EXCEPT ![i][m.from] = BackOff(@)]
            /\ round' = [round EXCEPT ![i][s].calling = None]
            /\ UNCHANGED <<currentTerm, votedFor, role, matchIndex>>
      /\ UNCHANGED <<log, commitIndex, voting, appendRequests, proposing, crashes>>

\* append_entries raises: the thread goes on with the next peer.
AbandonAppend(i, s) ==
  /\ round[i][s] # None /\ round[i][s].calling # None
  /\ round' = [round EXCEPT ![i][s].calling = None]
  /\ appendRequests' \in LostOrOrphaned(appendRequests,
       {m \in appendRequests : m.from = i /\ m.slot = s /\ m.live})
  /\ appendReplies' = {m \in appendReplies : ~(m.to = i /\ m.slot = s)}
  /\ UNCHANGED <<durable, role, leading, voting, proposing, crashes>>

\* Mutant of Acknowledged: off by one.
AcknowledgedBeyond(i, index) == {i} \cup {j \in PeerIds(Cell, i) : matchIndex[i][j] > index}

\* _maybe_advance_commit_index: only an entry of the leader's own term is
\* counted, and it carries every earlier one.
Acknowledged(i, index) == {i} \cup {j \in PeerIds(Cell, i) : matchIndex[i][j] >= index}

\* Mutant of Committable: an entry of any term is counted.
CommittableOfAnyTerm(i) ==
  {k \in commitIndex[i] + 1 .. Len(log[i]) : HasQuorum(Cell, Acknowledged(i, k))}

Committable(i) ==
  {k \in commitIndex[i] + 1 .. Len(log[i]) :
     log[i][k].term = currentTerm[i] /\ HasQuorum(Cell, Acknowledged(i, k))}

FinishRound(i, s) ==
  /\ round[i][s] # None /\ round[i][s].calling = None /\ round[i][s].todo = {}
  /\ round' = [round EXCEPT ![i][s] = None]
  /\ \/ /\ role[i] = "leader"
        /\ \E k \in Committable(i) :
             /\ \A n \in Committable(i) : n <= k
             /\ commitIndex' = [commitIndex EXCEPT ![i] = k]
     \/ /\ role[i] = "leader" => Committable(i) = {}
        /\ UNCHANGED commitIndex
  /\ UNCHANGED <<currentTerm, votedFor, log, role, leading, voting,
                 appendRequests, appendReplies, proposing, crashes>>

-----------------------------------------------------------------------------
(* Proposals *)

Append1(i, c) ==
  /\ role[i] = "leader" /\ Len(log[i]) < MaxLog
  /\ log' = [log EXCEPT ![i] = Append(@, [term |-> currentTerm[i], command |-> c])]

\* propose, on any thread of the owner
Propose(i, c) ==
  /\ Append1(i, c)
  /\ UNCHANGED <<currentTerm, votedFor, commitIndex, role, leading, voting, appending,
                 proposing, crashes>>

\* propose_and_wait up to its loop
ProposeAndWait(i, p, c) ==
  /\ waiting[i][p] = None
  /\ Append1(i, c)
  /\ waiting' = [waiting EXCEPT ![i][p] =
       [index |-> Len(log[i]) + 1, entry |-> [term |-> currentTerm[i], command |-> c]]]
  /\ UNCHANGED <<currentTerm, votedFor, commitIndex, role, leading, voting, appending,
                 acked, crashes>>

\* Mutant of IsCommitted: off by one.
IsAlmostCommitted(i, index) == commitIndex[i] + 1 >= index

IsCommitted(i, index) == commitIndex[i] >= index

\* The thread looks only at commit_index: steady says whether its node has
\* stayed leader of the entry's term.
AnswerTrue(i, p) ==
  LET w == waiting[i][p] IN
  /\ w # None /\ round[i][p] = None /\ IsCommitted(i, w.index)
  /\ acked' = acked \cup {[index |-> w.index, entry |-> w.entry,
       steady |-> role[i] = "leader" /\ currentTerm[i] = w.entry.term]}
  /\ waiting' = [waiting EXCEPT ![i][p] = None]
  /\ UNCHANGED <<durable, role, leading, voting, appending, crashes>>

\* Not leader any more, or the deadline has passed.
AnswerFalse(i, p) ==
  /\ waiting[i][p] # None /\ round[i][p] = None
  /\ waiting' = [waiting EXCEPT ![i][p] = None]
  /\ UNCHANGED <<durable, role, leading, voting, appending, acked, crashes>>

-----------------------------------------------------------------------------
(* Crashes.  RaftStorage.save is atomic, so a crash inside a handler leaves  *)
(* the state of one of its saves.                                            *)

\* Mutant of Crash: the vote was not on disk.
CrashForgettingVote(i) ==
  /\ Restart(i)
  /\ votedFor' = [votedFor EXCEPT ![i] = None]
  /\ voteRequests' = Orphaned(voteRequests, i)
  /\ appendRequests' = Orphaned(appendRequests, i)
  /\ UNCHANGED <<currentTerm, log, commitIndex>>

Crash(i) ==
  /\ Restart(i)
  /\ voteRequests' = Orphaned(voteRequests, i)
  /\ appendRequests' = Orphaned(appendRequests, i)
  /\ UNCHANGED durable

\* handle_request_vote has stepped down and not yet granted.
CrashInVote(m) ==
  LET j == m.to IN
  /\ m \in voteRequests /\ m.term > currentTerm[j]
  /\ currentTerm' = [currentTerm EXCEPT ![j] = m.term]
  /\ votedFor' = [votedFor EXCEPT ![j] = None]
  /\ Restart(j)
  /\ voteRequests' = Orphaned(voteRequests \ {m}, j)
  /\ appendRequests' = Orphaned(appendRequests, j)
  /\ UNCHANGED <<log, commitIndex>>

\* handle_append_entries has saved the new term and not the log, or the log
\* and not the commit index.
CrashInAppend(m) ==
  LET j == m.to IN
  /\ m \in appendRequests /\ m.term >= currentTerm[j]
  /\ currentTerm' = [currentTerm EXCEPT ![j] = m.term]
  /\ votedFor' = [votedFor EXCEPT ![j] = IF m.term > currentTerm[j] THEN None ELSE @]
  /\ \/ m.term > currentTerm[j] /\ UNCHANGED log
     \/ /\ PrevMatches(log[j], m.prevIndex, m.prevTerm)
        /\ log' = [log EXCEPT ![j] = Merge(@, m.prevIndex, m.entries)]
        /\ log' # log /\ m.commit > commitIndex[j]
  /\ Restart(j)
  /\ voteRequests' = Orphaned(voteRequests, j)
  /\ appendRequests' = Orphaned(appendRequests \ {m}, j)
  /\ UNCHANGED commitIndex

-----------------------------------------------------------------------------
Next ==
  \/ \E i \in Node : StartElection(i) \/ AbandonVote(i) \/ FinishElection(i) \/ Crash(i)
  \/ \E i, j \in Node : RequestVote(i, j)
  \/ \E m \in voteRequests : HandleRequestVote(m) \/ CrashInVote(m)
  \/ \E m \in voteReplies : HandleVoteReply(m)
  \/ \E i \in Node, s \in Slot :
       \/ StartRound(i, s) \/ AbandonAppend(i, s) \/ FinishRound(i, s)
       \/ \E j \in Node : AppendEntries(i, s, j)
  \/ \E m \in appendRequests : HandleAppendEntries(m) \/ CrashInAppend(m)
  \/ \E m \in appendReplies : HandleAppendReply(m)
  \/ \E i \in Node, c \in Command : Propose(i, c)
  \/ \E i \in Node, p \in Proposer :
       \/ \E c \in Command : ProposeAndWait(i, p, c)
       \/ AnswerTrue(i, p) \/ AnswerFalse(i, p)

Spec == Init /\ [][Next]_vars

-----------------------------------------------------------------------------
(* Properties *)

\* At most one node leads a term: the vote counted by one candidate of
\* _start_election is never also counted by another, whatever crashes between
\* the saves of handle_request_vote.
ElectionSafety ==
  \A i, j \in Node :
    role[i] = "leader" /\ role[j] = "leader" /\ currentTerm[i] = currentTerm[j] => i = j

\* Two logs that hold an entry of the same term at an index are equal up to
\* it: what lets the merge loop of handle_append_entries compare terms only.
LogMatching ==
  \A i, j \in Node : \A k \in DOMAIN log[i] \cap DOMAIN log[j] :
    log[i][k].term = log[j][k].term => SubSeq(log[i], 1, k) = SubSeq(log[j], 1, k)

Committed(i) == SubSeq(log[i], 1, commitIndex[i])

\* Nodes agree on what _apply_committed has handed to on_commit: of two
\* committed logs one is a prefix of the other.
CommittedAgree ==
  \A i, j \in Node : commitIndex[i] <= commitIndex[j] =>
    /\ commitIndex[i] <= Len(log[i])
    /\ Committed(i) = SubSeq(log[j], 1, commitIndex[i])

\* A leader holds everything a node of no later term has committed: the
\* up-to-date test of handle_request_vote and the own-term rule of
\* _maybe_advance_commit_index together protect committed entries.
LeaderCompleteness ==
  \A i, j \in Node : role[i] = "leader" /\ currentTerm[j] <= currentTerm[i] =>
    SubSeq(log[i], 1, commitIndex[j]) = Committed(j)

\* "Log replication commits entries via majority acknowledgment" (raft.py:17):
\* every entry a node has committed is in the logs of a majority of the voters.
CommittedByMajority ==
  \A i \in Node : \A k \in 1 .. commitIndex[i] :
    HasQuorum(Cell, {j \in Node : k \in DOMAIN log[j] /\ log[j][k] = log[i][k]})

\* A node never goes back in terms nor changes its vote within one, whether
\* it crashes before or after any save.
VoteIsStable ==
  [][\A i \in Node :
       /\ currentTerm[i] <= currentTerm'[i]
       /\ currentTerm[i] = currentTerm'[i] /\ votedFor[i] # None
            => votedFor'[i] = votedFor[i]]_vars

\* A True of propose_and_wait given by a node that still leads the term it
\* proposed in is about the caller's own entry: no node ever commits another
\* one at that index.
AckedWhileLeadingIsCommitted ==
  \A a \in acked : a.steady =>
    \A i \in Node : commitIndex[i] >= a.index => log[i][a.index] = a.entry

\* Every True of propose_and_wait is about the caller's own entry, as its
\* docstring has it ("wait, bounded, for its Raft commit").
AckedIsCommitted ==
  \A a \in acked : \A i \in Node : commitIndex[i] >= a.index => log[i][a.index] = a.entry

\* No round of an earlier term is under way on a node that leads: nothing in
\* _send_heartbeats tells the answer to such a round from one of the node's own
\* term.  The run loop never has such a round, since an election waits for its
\* round to end; a propose_and_wait thread can, when its node loses leadership
\* and wins it back while the thread's call is open.
RoundsCurrent ==
  \A i \in Node, s \in Slot :
    role[i] = "leader" /\ round[i][s] # None => round[i][s].term = currentTerm[i]

(***************************************************************************)
(* Why ElectionSafety holds: the inductive invariant.  A vote, once cast,  *)
(* is for one candidate; it is counted, or under way to be counted, by no  *)
(* other; and a leader's votes are a quorum.  CallsMatch says that a node  *)
(* has one vote call open at a time, so that no answer meant for an        *)
(* earlier election of the node is counted in a later one.                 *)
(***************************************************************************)
Cast(v, term, c) == currentTerm[v] >= term /\ (currentTerm[v] = term => votedFor[v] = c)

CountedVotesCast == \A i \in Node : \A v \in poll[i].votes : Cast(v, poll[i].term, i)

CountedVotesDisjoint ==
  \A i, j \in Node : i # j /\ poll[i].term = poll[j].term => poll[i].votes \cap poll[j].votes = {}

\* A granted vote under way is for the election its candidate is in.
GrantsGood ==
  \A m \in voteReplies : m.granted =>
    /\ m.term = poll[m.to].term
    /\ Cast(m.from, m.term, m.to)
    /\ \A j \in Node : m.from \in poll[j].votes /\ poll[j].term = m.term => j = m.to
    /\ \A n \in voteReplies : n.granted /\ n.from = m.from /\ n.term = m.term => n.to = m.to

CallsMatch ==
  /\ \A m \in voteRequests : m.live =>
       /\ election[m.from] # None /\ election[m.from].calling = m.to
       /\ m.term = poll[m.from].term
       /\ \A n \in voteRequests : n.live /\ n.from = m.from => n = m
       /\ \A n \in voteReplies : n.to # m.from
  /\ \A m \in voteReplies :
       /\ election[m.to] # None /\ election[m.to].calling = m.from
       /\ \A n \in voteReplies : n.to = m.to => n = m

RolesMatch ==
  \A i \in Node :
    /\ poll[i].term <= currentTerm[i]
    /\ role[i] # "follower" => poll[i].term = currentTerm[i]
    /\ role[i] = "leader" => HasQuorum(Cell, poll[i].votes)

VoteInv ==
  CountedVotesCast /\ CountedVotesDisjoint /\ GrantsGood /\ CallsMatch /\ RolesMatch

(***************************************************************************)
(* What keeps one leader going.  Its run loop never stops: its thread is   *)
(* scheduled, and a call ends by an answer or a timeout.  The network does *)
(* not lose every call to a live peer: of calls repeated without end some  *)
(* request arrives and some answer comes back.  The others' calls end too; *)
(* that StartRound is strongly fair only says that MaxBusy, a bound of the *)
(* model, does not lock the leader out for ever.                           *)
(***************************************************************************)
CallsEnd ==
  \A j \in Node :
    /\ WF_vars(AbandonVote(j) \/ FinishElection(j) \/ \E k \in Node : RequestVote(j, k))
    /\ WF_vars(\/ AbandonAppend(j, RunLoop) \/ FinishRound(j, RunLoop)
               \/ \E k \in Node : AppendEntries(j, RunLoop, k))

LeaderFairness(i) ==
  /\ CallsEnd
  /\ SF_vars(StartRound(i, RunLoop))
  /\ \A j \in PeerIds(Cell, i) :
       /\ SF_vars(\E m \in appendRequests : m.from = i /\ m.to = j /\ HandleAppendEntries(m))
       /\ SF_vars(\E m \in appendReplies : m.to = i /\ m.from = j /\ HandleAppendReply(m))

\* A leader that stays leader, and whose last entry is of its own term, ends
\* with its whole log on every node and committed there: the back-off of
\* _next_index, the merge loop and the once-a-round commit check together.
ReplicatesFrom(i) ==
  /\ LeaderFairness(i)
  /\ <>[](role[i] = "leader" /\ LastTerm(log[i]) = currentTerm[i])
  => <>[](\A j \in Node : log[j] = log[i] /\ commitIndex[j] = Len(log[i]))
=============================================================================
