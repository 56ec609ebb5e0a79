--------------------------- MODULE RaftCommitProofs --------------------------
(***************************************************************************)
(* What a node commits stays committed, on it and on every node, and a     *)
(* leader has it: CommittedAgree, LeaderCompleteness, the answers of       *)
(* propose_and_wait and the refinement of AgreedLog, as long as no node    *)
(* leads with a round of an earlier term open (RoundsCurrent).             *)
(*                                                                         *)
(* An entry is chosen when a quorum acknowledged it to the leader who      *)
(* created it.  The history of reigns of RaftLogProofs says that a chosen  *)
(* entry is in the log of every later leader; the invariant here is that   *)
(* whatever counts as committed somewhere ends in a chosen entry.          *)
(***************************************************************************)
EXTENDS RaftLogProofs, RaftPromise

-----------------------------------------------------------------------------
(* Calls and rounds *)

\* A request whose caller waits, and an answer, belong to the call that the
\* round of their slot has open; there is one of them.
RoundCalls ==
  /\ \A m \in appendRequests : m.live =>
       /\ round[m.from][m.slot] # None
       /\ round[m.from][m.slot].calling = m.to
       /\ round[m.from][m.slot].term = m.term
       /\ \A n \in appendRequests : n.live /\ n.from = m.from /\ n.slot = m.slot => n = m
       /\ \A n \in appendReplies : ~(n.to = m.from /\ n.slot = m.slot)
  /\ \A m \in appendReplies :
       /\ round[m.to][m.slot] # None
       /\ round[m.to][m.slot].calling = m.from
       /\ m.success => m.term = round[m.to][m.slot].term
       /\ \A n \in appendReplies : n.to = m.to /\ n.slot = m.slot => n = m

\* The run loop holds an election or a round, never both, and its round is of
\* the term its node leads.
RunLoopCurrent ==
  \A i \in Node : round[i][RunLoop] # None =>
    /\ election[i] = None /\ role[i] # "candidate"
    /\ role[i] = "leader" => round[i][RunLoop].term = currentTerm[i]

-----------------------------------------------------------------------------
(* The invariant *)

\* A quorum acknowledged the entry at index k that the leader of t created.
Chosen(H, k, t) ==
  Own(H, k, t) /\ \E Q \in SUBSET Node : HasQuorum(Cell, Q) /\ \A v \in Q : k <= H[t].acked[v]

\* What log l has up to index c ends in a chosen entry.
ChosenIn(H, l, c) == c > 0 => c \in DOMAIN l /\ Chosen(H, c, l[c].term)

\* A chosen entry is in the log of every later leader.
ChosenLead(H) ==
  \A t, u \in DOMAIN H : \A k \in DOMAIN H[t].log :
    t < u /\ Chosen(H, k, t) => Has(H[u].log, k, t)

MatchesFit(H) ==
  \A i, j \in Node : role[i] = "leader" => matchIndex[i][j] <= H[currentTerm[i]].acked[j]

NodesFit(H) == \A i \in Node : ChosenIn(H, log[i], commitIndex[i])

RoundCommitsFit(H) ==
  \A i \in Node, s \in Slot :
    round[i][s] # None => ChosenIn(H, round[i][s].log, round[i][s].commit)

RequestCommitsFit(H) ==
  \A m \in appendRequests :
    PastTheEnd(m) \/ (m.commit <= LastIndex(m) /\ ChosenIn(H, H[m.term].log, m.commit))

\* A propose_and_wait thread waits for an entry its leader created.
WaitsFit(H) ==
  \A i \in Node, p \in Proposer : waiting[i][p] # None =>
    LET w == waiting[i][p] IN
    /\ w.entry.term \in DOMAIN H /\ w.index \in DOMAIN H[w.entry.term].log
    /\ H[w.entry.term].log[w.index] = w.entry

\* A steady answer True is about an entry that a chosen one carries.
Backed(H, a) ==
  \E t \in DOMAIN H : \E k \in DOMAIN H[t].log :
    Chosen(H, k, t) /\ a.index \in 1 .. k /\ H[t].log[a.index] = a.entry

AnswersBacked(H) == \A a \in acked : a.steady => Backed(H, a)

CommitInv(H) ==
  /\ MatchesFit(H) /\ NodesFit(H) /\ RoundCommitsFit(H) /\ RequestCommitsFit(H)
  /\ WaitsFit(H) /\ AnswersBacked(H)

-----------------------------------------------------------------------------
(* Every answer is about the call its thread has open *)

LEMMA MessageTypes ==
  ASSUME TypeOK
  PROVE  /\ \A m \in appendRequests : m.from \in Node /\ m.to \in Node /\ m.slot \in Slot
         /\ \A m \in appendReplies : /\ m.from \in Node /\ m.to \in Node /\ m.slot \in Slot
                                     /\ m.term \in Nat /\ m.match \in Nat
         /\ None \notin Node /\ round \in [Node -> [Slot -> Round \cup {None}]]
BY NodeAssumption DEF TypeOK, AppendRequest, AppendReply

LEMMA CallsShrink ==
  ASSUME RoundCalls,
         \A m \in appendRequests' : m.live =>
           m \in appendRequests /\ round'[m.from][m.slot] = round[m.from][m.slot],
         \A m \in appendReplies' :
           m \in appendReplies /\ round'[m.to][m.slot] = round[m.to][m.slot]
  PROVE  RoundCalls'
BY DEF RoundCalls

\* A thread between two calls has nothing under way.
LEMMA NoRoundCall ==
  ASSUME TypeOK, RoundCalls, NEW i \in Node, NEW s \in Slot,
         round[i][s] = None \/ round[i][s].calling = None
  PROVE  /\ \A m \in appendRequests : m.live => ~(m.from = i /\ m.slot = s)
         /\ \A m \in appendReplies : ~(m.to = i /\ m.slot = s)
BY MessageTypes DEF RoundCalls

LEMMA OtherSlots ==
  ASSUME TypeOK, NEW i \in Node, NEW s \in Slot,
         \E r : round' = [round EXCEPT ![i][s] = r]
  PROVE  \A j \in Node, z \in Slot : ~(j = i /\ z = s) => round'[j][z] = round[j][z]
BY DEF TypeOK

LEMMA RestartCalls ==
  ASSUME TypeOK, RoundCalls, NEW i \in Node, Restart(i),
         NEW A \in SUBSET appendRequests, appendRequests' = Orphaned(A, i)
  PROVE  RoundCalls'
<1>1. \A m \in A : [m EXCEPT !.live = FALSE].live = FALSE
  BY DEF TypeOK, AppendRequest
<1>2. \A m \in appendRequests' : m.live => m \in appendRequests /\ m.from # i
  BY <1>1 DEF Orphaned
<1>3. \A j \in Node \ {i} : round'[j] = round[j]
  BY DEF TypeOK, Restart
<1>4. \A m \in appendReplies' : m \in appendReplies /\ m.to # i
  BY DEF Restart
<1>5. QED
  BY <1>2, <1>3, <1>4, MessageTypes, CallsShrink

LEMMA AppendEntriesCalls ==
  ASSUME TypeOK, RoundCalls, NEW i \in Node, NEW s \in Slot, NEW j \in Node,
         AppendEntries(i, s, j)
  PROVE  RoundCalls'
<1> DEFINE r == round[i][s]
           q == [from |-> i, slot |-> s, to |-> j, term |-> r.term,
                 prevIndex |-> nextIndex[i][j] - 1,
                 prevTerm |-> TermAt(r.log, nextIndex[i][j] - 1),
                 entries |-> SubSeq(r.log, nextIndex[i][j] - 1 + 1, Len(r.log)),
                 commit |-> r.commit, live |-> TRUE]
<1>1. /\ r # None /\ r.calling = None /\ appendReplies' = appendReplies
      /\ appendRequests' = appendRequests \cup {q}
      /\ round' = [round EXCEPT ![i][s] = [r EXCEPT !.calling = j, !.todo = r.todo \ {j}]]
  BY DEF AppendEntries
<1>2. q.from = i /\ q.slot = s /\ q.to = j /\ q.term = r.term
  OBVIOUS
<1>3. round'[i][s] # None /\ round'[i][s].calling = j /\ round'[i][s].term = r.term
  <2>1. round'[i][s] = [r EXCEPT !.calling = j, !.todo = r.todo \ {j}]
    BY <1>1, MessageTypes
  <2>2. r \in Round
    BY <1>1, MessageTypes
  <2>3. round'[i][s].calling = j /\ round'[i][s].term = r.term
    BY <2>1, <2>2 DEF Round
  <2>4. round'[i][s] \in Round
    BY <2>1, <2>2 DEF Round
  <2>5. QED
    BY <2>3, <2>4, NoneAssumption
<1> HIDE DEF q, r
<1>4. /\ \A m \in appendRequests : m.live => ~(m.from = i /\ m.slot = s)
      /\ \A m \in appendReplies : ~(m.to = i /\ m.slot = s)
  BY <1>1, NoRoundCall DEF r
<1>5. \A k \in Node, z \in Slot : ~(k = i /\ z = s) => round'[k][z] = round[k][z]
  BY <1>1, OtherSlots
<1>6. QED
  BY <1>1, <1>2, <1>3, <1>4, <1>5, MessageTypes DEF RoundCalls

LEMMA HandleAppendEntriesCalls ==
  ASSUME TypeOK, RoundCalls, NEW m \in appendRequests, HandleAppendEntries(m)
  PROVE  RoundCalls'
<1> DEFINE j == m.to
           ok == m.term >= currentTerm[j] /\ PrevMatches(log[j], m.prevIndex, m.prevTerm)
           q == [from |-> j, slot |-> m.slot, to |-> m.from, term |-> currentTerm'[j],
                 success |-> ok, match |-> m.prevIndex + Len(m.entries)]
<1>1. /\ UNCHANGED round /\ appendRequests' = appendRequests \ {m}
      /\ ~m.live => appendReplies' = appendReplies
      /\ m.live => appendReplies' = appendReplies \cup {q}
  BY DEF HandleAppendEntries
<1>2. q.from = j /\ q.slot = m.slot /\ q.to = m.from
  OBVIOUS
<1>3. q.success => q.term = m.term
  <2>1. currentTerm'[j] = IF m.term > currentTerm[j] THEN m.term ELSE currentTerm[j]
    BY RequestType DEF HandleAppendEntries, TypeOK
  <2>2. m.term \in Nat /\ currentTerm[j] \in Nat
    BY RequestType DEF TypeOK
  <2>3. ok => currentTerm'[j] = m.term
    BY <2>1, <2>2
  <2>4. QED
    BY <2>3
<1> HIDE DEF q, j
<1>4. CASE ~m.live
  BY <1>1, <1>4, CallsShrink
<1>5. CASE m.live
  <2>1. /\ round[m.from][m.slot] # None
        /\ round[m.from][m.slot].calling = m.to
        /\ round[m.from][m.slot].term = m.term
        /\ \A n \in appendRequests : n.live /\ n.from = m.from /\ n.slot = m.slot => n = m
        /\ \A n \in appendReplies : ~(n.to = m.from /\ n.slot = m.slot)
    BY <1>5 DEF RoundCalls
  <2>2. ASSUME NEW n \in appendRequests', n.live
        PROVE  /\ round'[n.from][n.slot] # None
               /\ round'[n.from][n.slot].calling = n.to
               /\ round'[n.from][n.slot].term = n.term
               /\ \A a \in appendRequests' : a.live /\ a.from = n.from /\ a.slot = n.slot => a = n
               /\ \A a \in appendReplies' : ~(a.to = n.from /\ a.slot = n.slot)
    BY <1>1, <1>2, <1>5, <2>1, <2>2 DEF RoundCalls
  <2>3. ASSUME NEW a \in appendReplies'
        PROVE  /\ round'[a.to][a.slot] # None
               /\ round'[a.to][a.slot].calling = a.from
               /\ a.success => a.term = round'[a.to][a.slot].term
               /\ \A b \in appendReplies' : b.to = a.to /\ b.slot = a.slot => b = a
    BY <1>1, <1>2, <1>3, <1>5, <2>1 DEF RoundCalls, j
  <2>4. QED
    BY <2>2, <2>3 DEF RoundCalls
<1>6. QED
  BY <1>4, <1>5

LEMMA HandleAppendReplyCalls ==
  ASSUME TypeOK, RoundCalls, NEW m \in appendReplies, HandleAppendReply(m)
  PROVE  RoundCalls'
<1> DEFINE i == m.to
           s == m.slot
<1>1. /\ appendReplies' = appendReplies \ {m} /\ UNCHANGED appendRequests
      /\ \/ round' = [round EXCEPT ![i][s] = None]
         \/ round' = [round EXCEPT ![i][s].calling = None]
  BY DEF HandleAppendReply
<1>2. /\ \A n \in appendRequests : n.live => ~(n.from = i /\ n.slot = s)
      /\ \A n \in appendReplies' : ~(n.to = i /\ n.slot = s)
  BY <1>1 DEF RoundCalls
<1>3. i \in Node /\ s \in Slot
  BY MessageTypes
<1> HIDE DEF i, s
<1>4. \A j \in Node, z \in Slot : ~(j = i /\ z = s) => round'[j][z] = round[j][z]
  BY <1>1, <1>3, OtherSlots
<1>5. QED
  BY <1>1, <1>2, <1>4, MessageTypes, CallsShrink

LEMMA AbandonAppendCalls ==
  ASSUME TypeOK, RoundCalls, NEW i \in Node, NEW s \in Slot, AbandonAppend(i, s)
  PROVE  RoundCalls'
<1> DEFINE mine == {m \in appendRequests : m.from = i /\ m.slot = s /\ m.live}
<1>1. \A m \in mine : [m EXCEPT !.live = FALSE].live = FALSE
  BY DEF TypeOK, AppendRequest
<1>2. \/ appendRequests' = appendRequests \ mine
      \/ appendRequests' =
           (appendRequests \ mine) \cup {[m EXCEPT !.live = FALSE] : m \in mine}
  BY DEF AbandonAppend, LostOrOrphaned
<1>3. \A m \in appendRequests' : m.live => m \in appendRequests /\ ~(m.from = i /\ m.slot = s)
  BY <1>1, <1>2
<1>4. /\ appendReplies' = {m \in appendReplies : ~(m.to = i /\ m.slot = s)}
      /\ round' = [round EXCEPT ![i][s].calling = None]
  BY DEF AbandonAppend
<1>5. \A j \in Node, z \in Slot : ~(j = i /\ z = s) => round'[j][z] = round[j][z]
  BY <1>4, OtherSlots
<1>6. QED
  BY <1>3, <1>4, <1>5, MessageTypes, CallsShrink

\* A round begins or ends.
LEMMA RoundTurnsCalls ==
  ASSUME TypeOK, RoundCalls, NEW i \in Node, NEW s \in Slot,
         StartRound(i, s) \/ FinishRound(i, s)
  PROVE  RoundCalls'
<1>1. /\ UNCHANGED <<appendRequests, appendReplies>>
      /\ round[i][s] = None \/ round[i][s].calling = None
      /\ \E r : round' = [round EXCEPT ![i][s] = r]
  BY DEF StartRound, FinishRound
<1>2. /\ \A m \in appendRequests : m.live => ~(m.from = i /\ m.slot = s)
      /\ \A m \in appendReplies : ~(m.to = i /\ m.slot = s)
  BY <1>1, NoRoundCall
<1>3. \A j \in Node, z \in Slot : ~(j = i /\ z = s) => round'[j][z] = round[j][z]
  BY <1>1, OtherSlots
<1>4. QED
  BY <1>1, <1>2, <1>3, MessageTypes, CallsShrink

LEMMA NextCalls == TypeOK /\ RoundCalls /\ [Next]_vars => RoundCalls'
<1> SUFFICES ASSUME TypeOK, RoundCalls, [Next]_vars, ~RoundCalls' PROVE FALSE
  OBVIOUS
<1>1. ASSUME UNCHANGED <<round, appendRequests, appendReplies>> PROVE FALSE
  BY <1>1, CallsShrink
<1>2. ASSUME NEW i \in Node,
             StartElection(i) \/ AbandonVote(i) \/ FinishElection(i) \/ Crash(i)
      PROVE  FALSE
  <2>1. CASE Crash(i)
    BY <2>1, RestartCalls DEF Crash
  <2>2. QED
    BY <1>1, <1>2, <2>1 DEF StartElection, AbandonVote, FinishElection, appending
<1>3. ASSUME NEW i \in Node, NEW j \in Node, RequestVote(i, j) PROVE FALSE
  BY <1>1, <1>3 DEF RequestVote, appending
<1>4. ASSUME NEW m \in voteRequests, HandleRequestVote(m) \/ CrashInVote(m) PROVE FALSE
  <2>1. CASE CrashInVote(m)
    <3>1. m.to \in Node
      BY DEF TypeOK, VoteRequest
    <3>2. QED
      BY <2>1, <3>1, RestartCalls DEF CrashInVote
  <2>2. QED
    BY <1>1, <1>4, <2>1 DEF HandleRequestVote, appending
<1>5. ASSUME NEW m \in voteReplies, HandleVoteReply(m) PROVE FALSE
  BY <1>1, <1>5 DEF HandleVoteReply, appending
<1>6. ASSUME NEW i \in Node, NEW s \in Slot,
             \/ StartRound(i, s) \/ AbandonAppend(i, s) \/ FinishRound(i, s)
             \/ \E j \in Node : AppendEntries(i, s, j)
      PROVE  FALSE
  BY <1>6, RoundTurnsCalls, AbandonAppendCalls, AppendEntriesCalls
<1>7. ASSUME NEW m \in appendRequests, HandleAppendEntries(m) \/ CrashInAppend(m) PROVE FALSE
  <2>1. CASE CrashInAppend(m)
    BY <2>1, RequestType, RestartCalls DEF CrashInAppend
  <2>2. QED
    BY <1>7, <2>1, HandleAppendEntriesCalls
<1>8. ASSUME NEW m \in appendReplies, HandleAppendReply(m) PROVE FALSE
  BY <1>8, HandleAppendReplyCalls
<1>9. ASSUME NEW i \in Node, NEW c \in Command, Propose(i, c) PROVE FALSE
  BY <1>1, <1>9 DEF Propose, appending
<1>10. ASSUME NEW i \in Node, NEW p \in Proposer,
              \/ \E c \in Command : ProposeAndWait(i, p, c)
              \/ AnswerTrue(i, p) \/ AnswerFalse(i, p)
       PROVE  FALSE
  BY <1>1, <1>10 DEF ProposeAndWait, AnswerTrue, AnswerFalse, appending
<1>11. ASSUME UNCHANGED vars PROVE FALSE
  BY <1>1, <1>11 DEF vars, appending
<1>12. QED
  BY <1>2, <1>3, <1>4, <1>5, <1>6, <1>7, <1>8, <1>9, <1>10, <1>11 DEF Next

LEMMA CallsInvariant == Spec => []RoundCalls
<1>1. Init => RoundCalls
  BY DEF Init, RoundCalls
<1>2. QED
  BY <1>1, NextCalls, TypeCorrect, PTL DEF Spec

-----------------------------------------------------------------------------
(* The rounds of the run loop *)

LEMMA RunLoopKept ==
  ASSUME RunLoopCurrent, RolesFall,
         \A i \in Node : round'[i][RunLoop] # None =>
           round[i][RunLoop] # None /\ round'[i][RunLoop].term = round[i][RunLoop].term,
         \A i \in Node : election'[i] # None => election[i] # None
  PROVE  RunLoopCurrent'
BY DEF RunLoopCurrent, RolesFall

\* What a step of Next leaves alone, for steps that no round begins in.
LEMMA QuietRunLoop ==
  ASSUME TypeOK, RunLoopCurrent, RolesFall, UNCHANGED <<round, election>>
  PROVE  RunLoopCurrent'
BY RunLoopKept

LEMMA RestartRunLoop ==
  ASSUME TypeOK, RunLoopCurrent, NEW i \in Node, Restart(i),
         \A j \in Node \ {i} : currentTerm'[j] = currentTerm[j]
  PROVE  RunLoopCurrent'
<1>1. RolesFall
  BY DEF TypeOK, Restart, RolesFall
<1>2. \A j \in Node : round'[j][RunLoop] # None => round'[j] = round[j]
  BY DEF TypeOK, Restart, Slot
<1>3. \A j \in Node : election'[j] # None => election'[j] = election[j]
  BY DEF TypeOK, Restart
<1>4. QED
  BY <1>1, <1>2, <1>3, RunLoopKept

LEMMA NextRunLoop == TypeOK /\ RunLoopCurrent /\ [Next]_vars => RunLoopCurrent'
<1> SUFFICES ASSUME TypeOK, RunLoopCurrent, [Next]_vars, ~RunLoopCurrent' PROVE FALSE
  OBVIOUS
<1>1. ASSUME RolesFall, UNCHANGED <<round, election>> PROVE FALSE
  BY <1>1, QuietRunLoop
<1>2. ASSUME UNCHANGED <<role, currentTerm, round, election>> PROVE FALSE
  BY <1>1, <1>2 DEF RolesFall
<1>3. ASSUME NEW i \in Node, StartElection(i) PROVE FALSE
  <2>1. /\ UNCHANGED round /\ round[i][RunLoop] = None
        /\ \A j \in Node \ {i} : /\ role'[j] = role[j] /\ currentTerm'[j] = currentTerm[j]
                                 /\ election'[j] = election[j]
    BY <1>3 DEF StartElection, TypeOK, appending
  <2>2. QED
    BY <2>1 DEF RunLoopCurrent
<1>4. ASSUME NEW i \in Node, FinishElection(i) PROVE FALSE
  <2>1. /\ UNCHANGED <<round, currentTerm>> /\ election[i] # None
        /\ \A j \in Node \ {i} : role'[j] = role[j] /\ election'[j] = election[j]
    BY <1>4 DEF FinishElection, TypeOK, appending, durable
  <2>2. QED
    BY <2>1 DEF RunLoopCurrent
<1>5. ASSUME NEW i \in Node, AbandonVote(i) PROVE FALSE
  <2>1. /\ UNCHANGED <<round, role, currentTerm>> /\ election[i] # None
        /\ election' = [election EXCEPT ![i].calling = None]
    BY <1>5 DEF AbandonVote, appending, durable
  <2>2. \A j \in Node : election'[j] # None => election[j] # None
    BY <2>1, ElectionFields
  <2>3. QED
    BY <2>1, <2>2, RunLoopKept DEF RolesFall
<1>6. ASSUME NEW i \in Node, Crash(i) PROVE FALSE
  BY <1>6, RestartRunLoop DEF Crash, durable
<1>7. ASSUME NEW i \in Node, NEW j \in Node, RequestVote(i, j) PROVE FALSE
  <2>1. /\ UNCHANGED <<round, role, currentTerm>> /\ election[i] # None
        /\ \A k \in Node \ {i} : election'[k] = election[k]
    BY <1>7 DEF RequestVote, appending, durable, TypeOK
  <2>2. QED
    BY <2>1, RunLoopKept DEF RolesFall
<1>8. ASSUME NEW m \in voteRequests, HandleRequestVote(m) PROVE FALSE
  <2>1. m.to \in Node
    BY DEF TypeOK, VoteRequest
  <2>2. RolesFall /\ UNCHANGED <<round, election>>
    BY <1>8, <2>1 DEF TypeOK, HandleRequestVote, RolesFall, appending
  <2>3. QED
    BY <1>1, <2>2
<1>9. ASSUME NEW m \in voteRequests, CrashInVote(m) PROVE FALSE
  <2>1. m.to \in Node
    BY DEF TypeOK, VoteRequest
  <2>2. \A j \in Node \ {m.to} : currentTerm'[j] = currentTerm[j]
    BY <1>9 DEF TypeOK, CrashInVote
  <2>3. QED
    BY <1>9, <2>1, <2>2, RestartRunLoop DEF CrashInVote
<1>10. ASSUME NEW m \in voteReplies, HandleVoteReply(m) PROVE FALSE
  <2>1. m.to \in Node /\ UNCHANGED round /\ election[m.to] # None
        /\ \/ election' = [election EXCEPT ![m.to] = None]
           \/ election' = [election EXCEPT ![m.to].calling = None]
    BY <1>10 DEF TypeOK, VoteReply, HandleVoteReply, appending
  <2>2. RolesFall
    BY <1>10, <2>1 DEF TypeOK, HandleVoteReply, StepDown, RolesFall
  <2>3. \A j \in Node : election'[j] # None => election[j] # None
    BY <2>1, ElectionFields
  <2>4. QED
    BY <2>1, <2>2, <2>3, RunLoopKept
<1>11. ASSUME NEW i \in Node, NEW s \in Slot, StartRound(i, s) PROVE FALSE
  <2> DEFINE r == [term |-> currentTerm[i], log |-> log[i], commit |-> commitIndex[i],
                   todo |-> PeerIds(Cell, i), calling |-> None]
  <2>1. /\ UNCHANGED <<role, currentTerm, election>> /\ role[i] = "leader"
        /\ s = RunLoop => election[i] = None
        /\ round' = [round EXCEPT ![i][s] = r]
    BY <1>11 DEF StartRound, voting, durable
  <2>2. r.term = currentTerm[i]
    OBVIOUS
  <2> HIDE DEF r
  <2>3. round'[i][s] = r /\ \A j \in Node : ~(j = i /\ s = RunLoop) => round'[j][RunLoop] = round[j][RunLoop]
    BY <2>1, MessageTypes DEF Slot
  <2>4. QED
    BY <2>1, <2>2, <2>3 DEF RunLoopCurrent
<1>12. ASSUME NEW i \in Node, NEW s \in Slot, AbandonAppend(i, s) \/ FinishRound(i, s)
       PROVE  FALSE
  <2>1. /\ UNCHANGED <<role, currentTerm, election>> /\ round[i][s] # None
        /\ \/ round' = [round EXCEPT ![i][s] = None]
           \/ round' = [round EXCEPT ![i][s].calling = None]
    BY <1>12 DEF AbandonAppend, FinishRound, voting, durable
  <2>2. \A j \in Node : round'[j][RunLoop] # None =>
          round[j][RunLoop] # None /\ round'[j][RunLoop].term = round[j][RunLoop].term
    BY <2>1, RoundFields DEF Slot
  <2>3. QED
    BY <2>1, <2>2, RunLoopKept DEF RolesFall
<1>13. ASSUME NEW i \in Node, NEW s \in Slot, NEW j \in Node, AppendEntries(i, s, j) PROVE FALSE
  <2> DEFINE r == round[i][s]
  <2>1. /\ UNCHANGED <<role, currentTerm, election>> /\ r # None
        /\ round' = [round EXCEPT ![i][s] = [r EXCEPT !.calling = j, !.todo = r.todo \ {j}]]
    BY <1>13 DEF AppendEntries, voting, durable
  <2>2. r \in Round /\ round'[i][s] = [r EXCEPT !.calling = j, !.todo = r.todo \ {j}]
    BY <2>1, MessageTypes
  <2>3. round'[i][s].term = r.term
    BY <2>2 DEF Round
  <2>4. \A k \in Node, z \in Slot : ~(k = i /\ z = s) => round'[k][z] = round[k][z]
    BY <2>1, OtherSlots
  <2>5. \A k \in Node : round'[k][RunLoop] # None =>
          round[k][RunLoop] # None /\ round'[k][RunLoop].term = round[k][RunLoop].term
    BY <2>1, <2>3, <2>4 DEF Slot
  <2>6. QED
    BY <2>1, <2>5, RunLoopKept DEF RolesFall
<1>14. ASSUME NEW m \in appendRequests, HandleAppendEntries(m) PROVE FALSE
  <2>1. UNCHANGED <<round, election>>
    BY <1>14 DEF HandleAppendEntries, voting
  <2>2. RolesFall
    BY <1>14, HandleAppendEntriesRoles
  <2>3. QED
    BY <1>1, <2>1, <2>2
<1>15. ASSUME NEW m \in appendRequests, CrashInAppend(m) PROVE FALSE
  <2>1. m.to \in Node
    BY RequestType
  <2>2. \A j \in Node \ {m.to} : currentTerm'[j] = currentTerm[j]
    BY <1>15 DEF TypeOK, CrashInAppend
  <2>3. QED
    BY <1>15, <2>1, <2>2, RestartRunLoop DEF CrashInAppend
<1>16. ASSUME NEW m \in appendReplies, HandleAppendReply(m) PROVE FALSE
  <2>1. /\ m.to \in Node /\ m.slot \in Slot /\ UNCHANGED election /\ round[m.to][m.slot] # None
        /\ \/ round' = [round EXCEPT ![m.to][m.slot] = None]
           \/ round' = [round EXCEPT ![m.to][m.slot].calling = None]
    BY <1>16, MessageTypes DEF HandleAppendReply, voting
  <2>2. RolesFall
    BY <1>16, HandleAppendReplyRoles
  <2>3. \A j \in Node : round'[j][RunLoop] # None =>
          round[j][RunLoop] # None /\ round'[j][RunLoop].term = round[j][RunLoop].term
    BY <2>1, RoundFields DEF Slot
  <2>4. QED
    BY <2>1, <2>2, <2>3, RunLoopKept
<1>17. ASSUME NEW i \in Node, NEW c \in Command, Propose(i, c) PROVE FALSE
  BY <1>2, <1>17 DEF Propose, appending, voting
<1>18. ASSUME NEW i \in Node, NEW p \in Proposer,
              \/ \E c \in Command : ProposeAndWait(i, p, c)
              \/ AnswerTrue(i, p) \/ AnswerFalse(i, p)
       PROVE  FALSE
  BY <1>2, <1>18 DEF ProposeAndWait, AnswerTrue, AnswerFalse, appending, voting, durable
<1>19. ASSUME UNCHANGED vars PROVE FALSE
  BY <1>2, <1>19 DEF vars, appending, voting, durable
<1>20. QED
  BY <1>3, <1>4, <1>5, <1>6, <1>7, <1>8, <1>9, <1>10, <1>11, <1>12, <1>13, <1>14, <1>15,
     <1>16, <1>17, <1>18, <1>19 DEF Next

\* Where no owner waits in propose_and_wait, no node leads with a round of an
\* earlier term open: an election of _run_loop waits for the round before it.
THEOREM RunLoopRoundsAreCurrent == Proposer = {} => (Spec => []RoundsCurrent)
<1> SUFFICES ASSUME Proposer = {} PROVE Spec => []RoundsCurrent
  OBVIOUS
<1>1. Init => RunLoopCurrent
  BY DEF Init, RunLoopCurrent, Slot
<1>2. RunLoopCurrent => RoundsCurrent
  BY DEF RunLoopCurrent, RoundsCurrent, Slot
<1>3. QED
  BY <1>1, <1>2, NextRunLoop, TypeCorrect, PTL DEF Spec

-----------------------------------------------------------------------------
(* Chosen entries *)

\* No quorum misses a chosen entry.
LEMMA ChosenAlive ==
  ASSUME NEW H, IsHistory(H), NEW k, NEW t, Chosen(H, k, t)
  PROVE  Alive(H, k, t) /\ t \in DOMAIN H /\ k \in DOMAIN H[t].log
<1>1. t \in DOMAIN H /\ k \in DOMAIN H[t].log /\ Own(H, k, t)
  BY DEF Chosen, Own, Has
<1>2. k \in Nat
  BY <1>1, ReignType
<1>3. ASSUME Dead(H, k, t) PROVE FALSE
  <2>1. PICK P \in SUBSET Node : HasQuorum(Cell, P) /\ \A v \in P : k <= H[t].acked[v]
    BY DEF Chosen
  <2>2. PICK Q \in SUBSET Node : HasQuorum(Cell, Q) /\ \A v \in Q : Missed(H, v, k, t)
    BY <1>3 DEF Dead
  <2>3. PICK v \in Node : v \in P /\ v \in Q
    BY <2>1, <2>2, CellQuorum
  <2>4. H[t].acked[v] \in Nat
    BY <1>1, ReignType
  <2>5. QED
    BY <1>2, <2>1, <2>2, <2>3, <2>4 DEF Missed
<1>4. QED
  BY <1>1, <1>3 DEF Alive

\* What is chosen stays chosen.
LEMMA ChosenKept ==
  ASSUME NEW H, NEW G, Grows(H, G), NEW k, NEW t, Chosen(H, k, t)
  PROVE  Chosen(G, k, t)
<1>1. t \in DOMAIN H /\ k \in DOMAIN H[t].log /\ H[t].log[k].term = t
  BY DEF Chosen, Own, Has
<1>2. /\ IsHistory(H) /\ IsHistory(G) /\ t \in DOMAIN G
      /\ Len(H[t].log) <= Len(G[t].log) /\ G[t].log[k] = H[t].log[k]
      /\ \A v \in Node : H[t].acked[v] <= G[t].acked[v]
  BY <1>1 DEF Grows, Begins
<1>3. /\ DOMAIN H[t].log = 1 .. Len(H[t].log) /\ Len(H[t].log) \in Nat
      /\ DOMAIN G[t].log = 1 .. Len(G[t].log) /\ Len(G[t].log) \in Nat
      /\ \A v \in Node : H[t].acked[v] \in Nat /\ G[t].acked[v] \in Nat
  BY <1>1, <1>2, ReignType
<1>4. Own(G, k, t)
  BY <1>1, <1>2, <1>3 DEF Own, Has
<1>5. PICK Q \in SUBSET Node : HasQuorum(Cell, Q) /\ \A v \in Q : k <= H[t].acked[v]
  BY DEF Chosen
<1>6. ASSUME NEW v \in Q PROVE k <= G[t].acked[v]
  BY <1>1, <1>2, <1>3, <1>5
<1>7. QED
  BY <1>4, <1>5, <1>6 DEF Chosen

LEMMA ChosenInKept ==
  ASSUME NEW H, NEW G, Grows(H, G), NEW l, NEW c, ChosenIn(H, l, c)
  PROVE  ChosenIn(G, l, c)
BY ChosenKept DEF ChosenIn

LEMMA ChosenInLonger ==
  ASSUME NEW H, NEW l \in Seq(Entry), NEW n \in Seq(Entry), NEW c, ChosenIn(H, l, c),
         Begins(l, n)
  PROVE  ChosenIn(H, n, c)
BY EntryType DEF ChosenIn, Begins

\* Later leaders have what is chosen.
LEMMA LeadersHaveChosen ==
  ASSUME NEW H, IsHistory(H), LeadersKeep(H)
  PROVE  ChosenLead(H)
<1> SUFFICES ASSUME NEW t \in DOMAIN H, NEW u \in DOMAIN H, NEW k \in DOMAIN H[t].log, t < u,
                    Chosen(H, k, t)
             PROVE  Has(H[u].log, k, t)
  BY DEF ChosenLead
<1>1. Alive(H, k, t)
  BY ChosenAlive
<1>2. QED
  BY <1>1 DEF LeadersKeep

\* Of two logs that end in chosen entries, the shorter begins the longer.
LEMMA ChosenAgree ==
  ASSUME NEW H, IsHistory(H), ReignLogs(H), ChosenLead(H),
         NEW l \in Seq(Entry), NEW n \in Seq(Entry), Fits(H, l), Fits(H, n),
         NEW c \in Nat, NEW d \in Nat, c <= d, ChosenIn(H, l, c), ChosenIn(H, n, d)
  PROVE  c <= Len(l) /\ \A x \in 1 .. c : l[x] = n[x]
<1>1. CASE c = 0
  BY <1>1, EntryType
<1>2. CASE c > 0
  <2> DEFINE t == l[c].term
             u == n[d].term
  <2>1. c \in DOMAIN l /\ Chosen(H, c, t) /\ d \in DOMAIN n /\ Chosen(H, d, u)
    BY <1>2 DEF ChosenIn
  <2>2. /\ t \in DOMAIN H /\ c \in DOMAIN H[t].log /\ \A x \in 1 .. c : H[t].log[x] = l[x]
        /\ u \in DOMAIN H /\ d \in DOMAIN H[u].log /\ \A x \in 1 .. d : H[u].log[x] = n[x]
    BY <2>1 DEF Fits
  <2> HIDE DEF t, u
  <2>3. Chosen(H, c, t) /\ Chosen(H, d, u)
    BY <2>1
  <2>4. t \in Nat /\ u \in Nat
    BY <2>2, ReignType
  <2>5. CASE t = u
    BY <2>1, <2>2, <2>5, EntryType
  <2>6. CASE t < u
    <3>1. Has(H[u].log, c, t) /\ Fits(H, H[u].log)
      BY <2>2, <2>3, <2>6 DEF ChosenLead, ReignLogs
    <3>2. \A x \in 1 .. c : H[t].log[x] = H[u].log[x]
      BY <3>1 DEF Has, Fits
    <3>3. QED
      BY <2>1, <2>2, <3>2
  <2>7. CASE u < t
    <3>1. Has(H[t].log, d, u) /\ Fits(H, H[t].log)
      BY <2>2, <2>3, <2>7 DEF ChosenLead, ReignLogs
    <3>2. \A x \in 1 .. d : H[u].log[x] = H[t].log[x]
      BY <3>1 DEF Has, Fits
    <3>3. QED
      BY <2>1, <2>2, <3>2
  <2>8. QED
    BY <2>4, <2>5, <2>6, <2>7
<1>3. QED
  BY <1>1, <1>2

LEMMA ReignChosen ==
  ASSUME NEW H, NEW k, NEW t, Chosen(H, k, t)
  PROVE  ChosenIn(H, H[t].log, k)
BY DEF ChosenIn, Chosen, Own, Has

-----------------------------------------------------------------------------
(* What the invariant says *)

CommitsSafe == \E H : LogInv(H) /\ CommitInv(H)

LEMMA CommittedFit ==
  ASSUME TypeOK, NEW H, LogInv(H), CommitInv(H), NEW i \in Node
  PROVE  /\ log[i] \in Seq(Entry) /\ commitIndex[i] \in Nat
         /\ Fits(H, log[i]) /\ ChosenIn(H, log[i], commitIndex[i])
         /\ IsHistory(H) /\ ReignLogs(H) /\ ChosenLead(H)
BY LeadersHaveChosen DEF TypeOK, LogInv, CommitInv, LogsFit, NodesFit

LEMMA CommitsAgree == TypeOK /\ CommitsSafe => CommittedAgree
<1> SUFFICES ASSUME TypeOK, CommitsSafe, NEW i \in Node, NEW j \in Node,
                    commitIndex[i] <= commitIndex[j]
             PROVE  /\ commitIndex[i] <= Len(log[i])
                    /\ Committed(i) = SubSeq(log[j], 1, commitIndex[i])
  BY DEF CommittedAgree
<1>1. PICK H : LogInv(H) /\ CommitInv(H)
  BY DEF CommitsSafe
<1>2. /\ commitIndex[i] <= Len(log[i])
      /\ \A x \in 1 .. commitIndex[i] : log[i][x] = log[j][x]
  BY <1>1, CommittedFit, ChosenAgree
<1>3. QED
  BY <1>1, <1>2, CommittedFit, SamePrefix DEF Committed

LEMMA LeadersComplete == TypeOK /\ CommitsSafe => LeaderCompleteness
<1> SUFFICES ASSUME TypeOK, CommitsSafe, NEW i \in Node, NEW j \in Node,
                    role[i] = "leader", currentTerm[j] <= currentTerm[i]
             PROVE  SubSeq(log[i], 1, commitIndex[j]) = Committed(j)
  BY DEF LeaderCompleteness
<1> DEFINE l == log[j]
           c == commitIndex[j]
           t == l[c].term
           u == currentTerm[i]
<1>1. PICK H : LogInv(H) /\ CommitInv(H)
  BY DEF CommitsSafe
<1>2. /\ log[i] \in Seq(Entry) /\ l \in Seq(Entry) /\ c \in Nat
      /\ Fits(H, l) /\ ChosenIn(H, l, c) /\ Fits(H, log[i])
      /\ IsHistory(H) /\ ReignLogs(H) /\ ChosenLead(H)
  BY <1>1, CommittedFit
<1>3. /\ Ordered(l, currentTerm[j]) /\ u \in DOMAIN H /\ H[u].log = log[i]
  BY <1>1 DEF LogInv, LogsFit, LeadersReign
<1>4. currentTerm[j] \in Nat /\ u \in Nat
  BY DEF TypeOK
<1>5. CASE c = 0
  BY <1>2, <1>5, SamePrefix DEF Committed
<1>6. CASE c > 0
  <2>1. c \in DOMAIN l /\ Chosen(H, c, t) /\ t <= currentTerm[j]
    BY <1>2, <1>3, <1>6 DEF ChosenIn, Ordered
  <2>2. Alive(H, c, t) /\ t \in DOMAIN H /\ c \in DOMAIN H[t].log /\ t \in Nat
    BY <1>2, <2>1, ChosenAlive, ReignType
  <2>3. Has(log[i], c, t)
    <3>1. CASE t = u
      BY <1>3, <2>2, <3>1 DEF Alive, Own
    <3>2. CASE t < u
      <4> HIDE DEF t, u, c
      <4>1. QED
        BY <1>2, <1>3, <2>1, <2>2, <3>2 DEF ChosenLead
    <3>3. QED
      BY <1>4, <2>1, <2>2, <3>1, <3>2
  <2>4. c \in DOMAIN log[i] \cap DOMAIN l /\ log[i][c].term = l[c].term
    BY <2>1, <2>3 DEF Has
  <2>5. \A x \in 1 .. c : log[i][x] = l[x]
    BY <1>2, <2>4, FitsAgree
  <2>6. QED
    BY <1>2, <2>5, SamePrefix DEF Committed
<1>7. QED
  BY <1>2, <1>5, <1>6

LEMMA AnswersHold == TypeOK /\ CommitsSafe => AckedWhileLeadingIsCommitted
<1> SUFFICES ASSUME TypeOK, CommitsSafe, NEW a \in acked, a.steady, NEW i \in Node,
                    commitIndex[i] >= a.index
             PROVE  log[i][a.index] = a.entry
  BY DEF AckedWhileLeadingIsCommitted
<1> DEFINE c == commitIndex[i]
<1>1. PICK H : LogInv(H) /\ CommitInv(H)
  BY DEF CommitsSafe
<1>2. PICK t \in DOMAIN H : \E k \in DOMAIN H[t].log :
        Chosen(H, k, t) /\ a.index \in 1 .. k /\ H[t].log[a.index] = a.entry
  BY <1>1 DEF CommitInv, AnswersBacked, Backed
<1>3. PICK k \in DOMAIN H[t].log :
        Chosen(H, k, t) /\ a.index \in 1 .. k /\ H[t].log[a.index] = a.entry
  BY <1>2
<1>4. /\ log[i] \in Seq(Entry) /\ c \in Nat /\ Fits(H, log[i]) /\ ChosenIn(H, log[i], c)
      /\ IsHistory(H) /\ ReignLogs(H) /\ ChosenLead(H)
  BY <1>1, CommittedFit
<1>5. /\ H[t].log \in Seq(Entry) /\ k \in Nat /\ Fits(H, H[t].log)
      /\ ChosenIn(H, H[t].log, k)
  BY <1>3, <1>4, ReignType, ReignChosen DEF ReignLogs
<1>6. CASE c <= k
  <2>1. \A x \in 1 .. c : log[i][x] = H[t].log[x]
    BY <1>4, <1>5, <1>6, ChosenAgree
  <2>2. QED
    BY <1>3, <1>4, <1>5, <2>1
<1>7. CASE k <= c
  <2>1. \A x \in 1 .. k : H[t].log[x] = log[i][x]
    BY <1>4, <1>5, <1>7, ChosenAgree
  <2>2. QED
    BY <1>3, <2>1
<1>8. QED
  BY <1>4, <1>5, <1>6, <1>7

-----------------------------------------------------------------------------
(* What a step keeps of each part of the invariant *)

\* Leaders stay in their term with what they know of the others.
LeadersStay ==
  \A i \in Node : role'[i] = "leader" =>
    role[i] = "leader" /\ currentTerm'[i] = currentTerm[i] /\ matchIndex'[i] = matchIndex[i]

LEMMA MatchGrows ==
  ASSUME TypeOK, NEW H, NEW G, LogInv(H), MatchesFit(H), Grows(H, G),
         NEW i \in Node, role[i] = "leader", NEW j \in Node
  PROVE  matchIndex[i][j] <= G[currentTerm[i]].acked[j]
<1> DEFINE u == currentTerm[i]
<1>1. u \in DOMAIN H /\ IsHistory(H)
  BY DEF LogInv, LeadersReign
<1>2. /\ matchIndex[i][j] <= H[u].acked[j] /\ H[u].acked[j] <= G[u].acked[j]
      /\ IsHistory(G) /\ u \in DOMAIN G
  BY <1>1 DEF MatchesFit, Grows
<1>3. H[u].acked[j] \in Nat /\ G[u].acked[j] \in Nat /\ matchIndex[i][j] \in Nat
  BY <1>1, <1>2, ReignType DEF TypeOK
<1>4. QED
  BY <1>2, <1>3

LEMMA MatchesKept ==
  ASSUME TypeOK, NEW H, NEW G, LogInv(H), MatchesFit(H), Grows(H, G), LeadersStay
  PROVE  MatchesFit(G)'
<1> SUFFICES ASSUME NEW i \in Node, NEW j \in Node, role'[i] = "leader"
             PROVE  matchIndex'[i][j] <= G[currentTerm'[i]].acked[j]
  BY DEF MatchesFit
<1>1. QED
  BY MatchGrows DEF LeadersStay

LEMMA NodeKept ==
  ASSUME NEW H, NEW G, NodesFit(H), Grows(H, G), NEW i \in Node,
         log'[i] = log[i], commitIndex'[i] = commitIndex[i]
  PROVE  ChosenIn(G, log'[i], commitIndex'[i])
BY ChosenInKept DEF NodesFit

LEMMA NodesKept ==
  ASSUME NEW H, NEW G, NodesFit(H), Grows(H, G), UNCHANGED <<log, commitIndex>>
  PROVE  NodesFit(G)'
<1>1. \A i \in Node : ChosenIn(G, log'[i], commitIndex'[i])
  BY NodeKept
<1>2. QED
  BY <1>1 DEF NodesFit, ChosenIn, Chosen, Own, Has, HasQuorum, Cell, Stable, MajoritySize

\* The commit indices under way were so before.
RoundCommitsKept ==
  \A i \in Node, s \in Slot : round'[i][s] # None =>
    /\ round[i][s] # None
    /\ round'[i][s].log = round[i][s].log /\ round'[i][s].commit = round[i][s].commit

RequestCommitsKept ==
  \A m \in appendRequests' : \E n \in appendRequests :
    /\ m.term = n.term /\ m.prevIndex = n.prevIndex /\ m.prevTerm = n.prevTerm
    /\ m.entries = n.entries /\ m.commit = n.commit

WaitsKept ==
  \A i \in Node, p \in Proposer : waiting'[i][p] # None => waiting'[i][p] = waiting[i][p]

LEMMA RoundCommitsFitKept ==
  ASSUME NEW H, NEW G, Grows(H, G), RoundCommitsFit(H), RoundCommitsKept
  PROVE  RoundCommitsFit(G)'
<1>1. \A i \in Node, s \in Slot : round'[i][s] # None =>
        ChosenIn(G, round'[i][s].log, round'[i][s].commit)
  BY ChosenInKept DEF RoundCommitsFit, RoundCommitsKept
<1>2. QED
  BY <1>1 DEF RoundCommitsFit, ChosenIn, Chosen, Own, Has, HasQuorum, Cell, Stable, MajoritySize

LEMMA RequestCommitFits ==
  ASSUME TypeOK, NEW H, NEW G, LogInv(H), Grows(H, G), RequestCommitsFit(H),
         NEW m \in appendRequests
  PROVE  PastTheEnd(m) \/ (m.commit <= LastIndex(m) /\ ChosenIn(G, G[m.term].log, m.commit))
<1> DEFINE t == m.term
<1>1. SUFFICES ASSUME ~PastTheEnd(m)
               PROVE  m.commit <= LastIndex(m) /\ ChosenIn(G, G[t].log, m.commit)
  OBVIOUS
<1>2. m.commit <= LastIndex(m) /\ ChosenIn(H, H[t].log, m.commit)
  BY <1>1 DEF RequestCommitsFit
<1>3. t \in DOMAIN H /\ IsHistory(H) /\ IsHistory(G) /\ t \in DOMAIN G /\ Begins(H[t].log, G[t].log)
  BY DEF LogInv, RequestsFit, Grows
<1>4. H[t].log \in Seq(Entry) /\ G[t].log \in Seq(Entry)
  BY <1>3, ReignType
<1>5. QED
  BY <1>2, <1>3, <1>4, ChosenInKept, ChosenInLonger

LEMMA RequestCommitsFitKept ==
  ASSUME TypeOK, NEW H, NEW G, LogInv(H), Grows(H, G), RequestCommitsFit(H), RequestCommitsKept
  PROVE  RequestCommitsFit(G)'
<1>1. ASSUME NEW m \in appendRequests'
      PROVE  PastTheEnd(m) \/ (m.commit <= LastIndex(m) /\ ChosenIn(G, G[m.term].log, m.commit))
  <2>1. PICK n \in appendRequests :
          /\ m.term = n.term /\ m.prevIndex = n.prevIndex /\ m.prevTerm = n.prevTerm
          /\ m.entries = n.entries /\ m.commit = n.commit
    BY DEF RequestCommitsKept
  <2>2. PastTheEnd(n) \/ (n.commit <= LastIndex(n) /\ ChosenIn(G, G[n.term].log, n.commit))
    BY RequestCommitFits
  <2>3. QED
    BY <2>1, <2>2 DEF PastTheEnd, LastIndex
<1>2. QED
  BY <1>1 DEF RequestCommitsFit, PastTheEnd, LastIndex, ChosenIn, Chosen, Own, Has, HasQuorum,
              Cell, Stable, MajoritySize

LEMMA EntryGrows ==
  ASSUME NEW H, NEW G, Grows(H, G), NEW t \in DOMAIN H, NEW k \in DOMAIN H[t].log
  PROVE  t \in DOMAIN G /\ k \in DOMAIN G[t].log /\ G[t].log[k] = H[t].log[k]
<1>1. /\ IsHistory(H) /\ IsHistory(G) /\ t \in DOMAIN G
      /\ Len(H[t].log) <= Len(G[t].log) /\ G[t].log[k] = H[t].log[k]
  BY DEF Grows, Begins
<1>2. /\ DOMAIN H[t].log = 1 .. Len(H[t].log) /\ Len(H[t].log) \in Nat
      /\ DOMAIN G[t].log = 1 .. Len(G[t].log) /\ Len(G[t].log) \in Nat
  BY <1>1, ReignType
<1>3. QED
  BY <1>1, <1>2

LEMMA WaitFits ==
  ASSUME NEW H, NEW G, Grows(H, G), WaitsFit(H),
         NEW i \in Node, NEW p \in Proposer, waiting[i][p] # None
  PROVE  LET w == waiting[i][p] IN
         /\ w.entry.term \in DOMAIN G /\ w.index \in DOMAIN G[w.entry.term].log
         /\ G[w.entry.term].log[w.index] = w.entry
<1> DEFINE w == waiting[i][p]
<1>1. /\ w.entry.term \in DOMAIN H /\ w.index \in DOMAIN H[w.entry.term].log
      /\ H[w.entry.term].log[w.index] = w.entry
  BY DEF WaitsFit
<1>2. QED
  BY <1>1, EntryGrows

LEMMA WaitsFitKept ==
  ASSUME NEW H, NEW G, Grows(H, G), WaitsFit(H), WaitsKept
  PROVE  WaitsFit(G)'
<1> SUFFICES ASSUME NEW i \in Node, NEW p \in Proposer, waiting'[i][p] # None
             PROVE  LET w == waiting'[i][p] IN
                    /\ w.entry.term \in DOMAIN G /\ w.index \in DOMAIN G[w.entry.term].log
                    /\ G[w.entry.term].log[w.index] = w.entry
  BY DEF WaitsFit
<1>1. waiting'[i][p] = waiting[i][p]
  BY DEF WaitsKept
<1>2. QED
  BY <1>1, WaitFits

LEMMA BackedKept ==
  ASSUME NEW H, NEW G, Grows(H, G), NEW a, Backed(H, a)
  PROVE  Backed(G, a)
<1>1. PICK t \in DOMAIN H : \E k \in DOMAIN H[t].log :
        Chosen(H, k, t) /\ a.index \in 1 .. k /\ H[t].log[a.index] = a.entry
  BY DEF Backed
<1>2. PICK k \in DOMAIN H[t].log :
        Chosen(H, k, t) /\ a.index \in 1 .. k /\ H[t].log[a.index] = a.entry
  BY <1>1
<1>3. Chosen(G, k, t)
  BY <1>2, ChosenKept
<1>4. a.index \in DOMAIN H[t].log
  BY <1>2, ReignType DEF Grows
<1>5. /\ t \in DOMAIN G /\ k \in DOMAIN G[t].log /\ G[t].log[a.index] = H[t].log[a.index]
  BY <1>4, EntryGrows
<1>6. QED
  BY <1>2, <1>3, <1>5 DEF Backed

LEMMA AnswersBackedKept ==
  ASSUME NEW H, NEW G, Grows(H, G), AnswersBacked(H),
         \A a \in acked' : a.steady => a \in acked \/ Backed(H, a)
  PROVE  AnswersBacked(G)'
<1>1. \A a \in acked' : a.steady => Backed(G, a)
  BY BackedKept DEF AnswersBacked
<1>2. QED
  BY <1>1 DEF AnswersBacked, Backed, Chosen, Own, Has, HasQuorum, Cell, Stable, MajoritySize

\* All of it, for a step that sends nothing new.
LEMMA QuietCommits ==
  ASSUME TypeOK, NEW H, NEW G, LogInv(H), CommitInv(H), Grows(H, G),
         MatchesFit(G)', NodesFit(G)', RoundCommitsKept, RequestCommitsKept, WaitsKept,
         UNCHANGED acked
  PROVE  CommitInv(G)'
<1>1. RoundCommitsFit(G)'
  BY RoundCommitsFitKept DEF CommitInv
<1>2. RequestCommitsFit(G)'
  BY RequestCommitsFitKept DEF CommitInv
<1>3. WaitsFit(G)'
  BY WaitsFitKept DEF CommitInv
<1>4. AnswersBacked(G)'
  BY AnswersBackedKept DEF CommitInv
<1>5. QED
  BY <1>1, <1>2, <1>3, <1>4 DEF CommitInv

\* A step on the side of elections.
LEMMA IdleCommits ==
  ASSUME TypeOK, NEW H, NEW G, LogInv(H), CommitInv(H), Grows(H, G),
         UNCHANGED <<log, commitIndex, round, appendRequests, acked>>, WaitsKept, MatchesFit(G)'
  PROVE  CommitInv(G)'
<1>1. NodesFit(G)'
  BY NodesKept DEF CommitInv
<1>2. RoundCommitsKept /\ RequestCommitsKept
  BY DEF RoundCommitsKept, RequestCommitsKept
<1>3. QED
  BY <1>1, <1>2, QuietCommits

LEMMA SameWaits ==
  ASSUME UNCHANGED waiting
  PROVE  WaitsKept
BY DEF WaitsKept

-----------------------------------------------------------------------------
(* Elections *)

LEMMA FallStays ==
  ASSUME RolesFall, UNCHANGED matchIndex
  PROVE  LeadersStay
BY DEF RolesFall, LeadersStay

LEMMA ElectionCommits ==
  ASSUME TypeOK, NEW H, NEW G, LogInv(H), CommitInv(H), Grows(H, G),
         \/ \E i \in Node : StartElection(i) \/ AbandonVote(i)
         \/ \E i, j \in Node : RequestVote(i, j)
         \/ \E m \in voteRequests : HandleRequestVote(m)
         \/ \E m \in voteReplies : HandleVoteReply(m)
  PROVE  CommitInv(G)'
<1>1. UNCHANGED <<log, commitIndex, matchIndex, round, appendRequests, acked, waiting>>
  BY DEF StartElection, AbandonVote, RequestVote, HandleRequestVote, HandleVoteReply, durable,
         leading, appending, proposing
<1>2. LeadersStay
  <2>1. ASSUME NEW i \in Node, StartElection(i) PROVE LeadersStay
    BY <1>1, <2>1 DEF TypeOK, StartElection, LeadersStay
  <2>2. ASSUME NEW m \in voteRequests, HandleRequestVote(m) PROVE LeadersStay
    <3>1. m.to \in Node
      BY DEF TypeOK, VoteRequest
    <3>2. RolesFall
      BY <2>2, <3>1 DEF TypeOK, HandleRequestVote, RolesFall
    <3>3. QED
      BY <1>1, <3>2, FallStays
  <2>3. ASSUME NEW m \in voteReplies, HandleVoteReply(m) PROVE LeadersStay
    <3>1. m.to \in Node
      BY DEF TypeOK, VoteReply
    <3>2. RolesFall
      BY <2>3, <3>1 DEF TypeOK, HandleVoteReply, StepDown, RolesFall
    <3>3. QED
      BY <1>1, <3>2, FallStays
  <2>4. ASSUME UNCHANGED <<role, currentTerm>> PROVE LeadersStay
    BY <1>1, <2>4 DEF LeadersStay
  <2>5. QED
    BY <2>1, <2>2, <2>3, <2>4 DEF AbandonVote, RequestVote, durable
<1>3. QED
  BY <1>1, <1>2, MatchesKept, SameWaits, IdleCommits DEF CommitInv

\* A new leader knows nothing of the others yet.
LEMMA FinishElectionCommits ==
  ASSUME TypeOK, NEW H, NEW G, LogInv(H), CommitInv(H), Grows(H, G), LogInv(G)',
         NEW i \in Node, FinishElection(i)
  PROVE  CommitInv(G)'
<1>1. /\ UNCHANGED <<log, currentTerm, commitIndex, round, appendRequests, acked, waiting>>
      /\ \A j \in Node \ {i} : role'[j] = role[j] /\ matchIndex'[j] = matchIndex[j]
  BY DEF FinishElection, durable, leading, appending, proposing, TypeOK
<1>2. \/ \A k \in Node : matchIndex'[i][k] = 0
      \/ role'[i] = role[i] /\ matchIndex'[i] = matchIndex[i]
  BY DEF FinishElection, leading, TypeOK
<1>3. MatchesFit(G)'
  <2> SUFFICES ASSUME NEW n \in Node, NEW j \in Node, role'[n] = "leader"
               PROVE  matchIndex'[n][j] <= G[currentTerm'[n]].acked[j]
    BY DEF MatchesFit
  <2>1. CASE n # i \/ (role'[i] = role[i] /\ matchIndex'[i] = matchIndex[i])
    BY <1>1, <2>1, MatchGrows DEF CommitInv
  <2>2. CASE n = i /\ \A k \in Node : matchIndex'[i][k] = 0
    <3>1. currentTerm'[n] \in DOMAIN G /\ IsHistory(G)
      BY DEF LogInv, LeadersReign, IsHistory, Reign
    <3>2. G[currentTerm'[n]].acked[j] \in Nat /\ matchIndex'[n][j] = 0
      BY <2>2, <3>1, ReignType
    <3>3. QED
      BY <3>2
  <2>3. QED
    BY <1>2, <2>1, <2>2
<1>4. QED
  BY <1>1, <1>3, SameWaits, IdleCommits

-----------------------------------------------------------------------------
(* Rounds *)

LEMMA StartRoundCommits ==
  ASSUME TypeOK, NEW H, NEW G, LogInv(H), CommitInv(H), Grows(H, G),
         NEW i \in Node, NEW s \in Slot, StartRound(i, s)
  PROVE  CommitInv(G)'
<1> DEFINE r == [term |-> currentTerm[i], log |-> log[i], commit |-> commitIndex[i],
                 todo |-> PeerIds(Cell, i), calling |-> None]
<1>1. /\ UNCHANGED <<log, currentTerm, role, matchIndex, commitIndex, appendRequests, acked,
                     waiting>>
      /\ round' = [round EXCEPT ![i][s] = r]
  BY DEF StartRound, durable, leading, proposing
<1>2. r.log = log[i] /\ r.commit = commitIndex[i]
  OBVIOUS
<1> HIDE DEF r
<1>3. round'[i][s] = r /\ \A j \in Node, z \in Slot : ~(j = i /\ z = s) => round'[j][z] = round[j][z]
  BY <1>1, OtherSlots, MessageTypes
<1>4. RoundCommitsFit(G)'
  <2>1. \A j \in Node, z \in Slot : round'[j][z] # None =>
          ChosenIn(H, round'[j][z].log, round'[j][z].commit)
    BY <1>2, <1>3 DEF CommitInv, NodesFit, RoundCommitsFit
  <2>2. \A j \in Node, z \in Slot : round'[j][z] # None =>
          ChosenIn(G, round'[j][z].log, round'[j][z].commit)
    BY <2>1, ChosenInKept
  <2>3. QED
    BY <2>2 DEF RoundCommitsFit, ChosenIn, Chosen, Own, Has, HasQuorum, Cell, Stable,
                MajoritySize
<1>5. LeadersStay /\ RequestCommitsKept
  BY <1>1 DEF LeadersStay, RequestCommitsKept
<1>6. MatchesFit(G)' /\ NodesFit(G)' /\ RequestCommitsFit(G)'
  BY <1>1, <1>5, MatchesKept, NodesKept, RequestCommitsFitKept DEF CommitInv
<1>7. WaitsFit(G)' /\ AnswersBacked(G)'
  BY <1>1, SameWaits, WaitsFitKept, AnswersBackedKept DEF CommitInv
<1>8. QED
  BY <1>4, <1>6, <1>7 DEF CommitInv

\* The commit index sent is within what is sent, or the request is refused.
LEMMA SentCommit ==
  ASSUME NEW H, IsHistory(H), NEW t, NEW l \in Seq(Entry), Snapshot(H, l, t), NEW p \in Nat,
         NEW c \in Nat, ChosenIn(H, l, c),
         NEW m, m.term = t, m.prevIndex = p, m.prevTerm = TermAt(l, p),
         m.entries = SubSeq(l, p + 1, Len(l)), m.commit = c
  PROVE  PastTheEnd(m) \/ (m.commit <= LastIndex(m) /\ ChosenIn(H, H[m.term].log, m.commit))
<1>1. Len(l) \in Nat /\ DOMAIN l = 1 .. Len(l)
  BY EntryType
<1>2. CASE p > Len(l)
  <2>1. m.prevTerm = 0 /\ m.prevIndex > 0
    BY <1>1, <1>2 DEF TermAt
  <2>2. QED
    BY <2>1 DEF PastTheEnd
<1>3. CASE p <= Len(l)
  <2> DEFINE e == SubSeq(l, p + 1, Len(l))
  <2>1. Len(e) = Len(l) - p
    BY <1>3, SubSeqEnd
  <2>2. m.entries = e
    OBVIOUS
  <2> HIDE DEF e
  <2>3. LastIndex(m) = Len(l)
    <3>1. p + (Len(l) - p) = Len(l)
      BY <1>1
    <3>2. QED
      BY <2>1, <2>2, <3>1 DEF LastIndex
  <2>4. c <= Len(l)
    BY <1>1 DEF ChosenIn
  <2>5. H[t].log \in Seq(Entry) /\ Begins(l, H[t].log)
    BY ReignType DEF Snapshot
  <2>6. ChosenIn(H, H[t].log, c)
    BY <2>5, ChosenInLonger
  <2>7. QED
    BY <2>3, <2>4, <2>6
<1>4. QED
  BY <1>1, <1>2, <1>3

LEMMA AppendEntriesCommits ==
  ASSUME TypeOK, NEW H, NEW G, LogInv(H), CommitInv(H), Grows(H, G),
         NEW i \in Node, NEW s \in Slot, NEW j \in Node, AppendEntries(i, s, j)
  PROVE  CommitInv(G)'
<1> DEFINE r == round[i][s]
           p == nextIndex[i][j] - 1
           q == [from |-> i, slot |-> s, to |-> j, term |-> r.term, prevIndex |-> p,
                 prevTerm |-> TermAt(r.log, p), entries |-> SubSeq(r.log, p + 1, Len(r.log)),
                 commit |-> r.commit, live |-> TRUE]
<1>1. /\ UNCHANGED <<log, role, currentTerm, matchIndex, commitIndex, acked, waiting>>
      /\ r # None /\ appendRequests' = appendRequests \cup {q}
      /\ round' = [round EXCEPT ![i][s] = [r EXCEPT !.calling = j, !.todo = r.todo \ {j}]]
  BY DEF AppendEntries, durable, leading, proposing
<1>2. r \in Round /\ p \in Nat /\ r.log \in Seq(Entry) /\ r.commit \in Nat
  <2>1. r \in Round /\ nextIndex[i][j] \in Nat \ {0}
    BY <1>1 DEF TypeOK
  <2>2. QED
    BY <2>1 DEF Round
<1>3. Snapshot(H, r.log, r.term) /\ ChosenIn(H, r.log, r.commit) /\ IsHistory(H)
  BY <1>1 DEF LogInv, RoundsFit, CommitInv, RoundCommitsFit
<1>4. /\ q.term = r.term /\ q.prevIndex = p /\ q.prevTerm = TermAt(r.log, p)
      /\ q.entries = SubSeq(r.log, p + 1, Len(r.log)) /\ q.commit = r.commit
  OBVIOUS
<1>5. round'[i][s].log = r.log /\ round'[i][s].commit = r.commit
  <2>1. round'[i][s] = [r EXCEPT !.calling = j, !.todo = r.todo \ {j}]
    BY <1>1, MessageTypes
  <2>2. QED
    BY <1>2, <2>1 DEF Round
<1>6. \A k \in Node, z \in Slot : ~(k = i /\ z = s) => round'[k][z] = round[k][z]
  BY <1>1, OtherSlots
<1>7. RoundCommitsKept
  BY <1>1, <1>5, <1>6 DEF RoundCommitsKept
<1> HIDE DEF p, q, r
<1>8. PastTheEnd(q) \/ (q.commit <= LastIndex(q) /\ ChosenIn(H, H[q.term].log, q.commit))
  BY <1>2, <1>3, <1>4, SentCommit
<1>9. RequestCommitsFit(G)'
  <2>1. q.term \in DOMAIN H
    BY <1>3, <1>4 DEF Snapshot
  <2>2. ASSUME ChosenIn(H, H[q.term].log, q.commit) PROVE ChosenIn(G, G[q.term].log, q.commit)
    <3>1. /\ H[q.term].log \in Seq(Entry) /\ G[q.term].log \in Seq(Entry)
          /\ Begins(H[q.term].log, G[q.term].log)
      BY <2>1, ReignType DEF Grows
    <3>2. QED
      BY <2>2, <3>1, ChosenInKept, ChosenInLonger
  <2>3. \A m \in appendRequests' :
          PastTheEnd(m) \/ (m.commit <= LastIndex(m) /\ ChosenIn(G, G[m.term].log, m.commit))
    BY <1>1, <1>8, <2>2, RequestCommitFits DEF CommitInv
  <2>4. QED
    BY <2>3 DEF RequestCommitsFit, PastTheEnd, LastIndex, ChosenIn, Chosen, Own, Has, HasQuorum,
                Cell, Stable, MajoritySize
<1>10. LeadersStay
  BY <1>1 DEF LeadersStay
<1>11. MatchesFit(G)' /\ NodesFit(G)' /\ RoundCommitsFit(G)'
  BY <1>1, <1>7, <1>10, MatchesKept, NodesKept, RoundCommitsFitKept DEF CommitInv
<1>12. WaitsFit(G)' /\ AnswersBacked(G)'
  BY <1>1, SameWaits, WaitsFitKept, AnswersBackedKept DEF CommitInv
<1>13. QED
  BY <1>9, <1>11, <1>12 DEF CommitInv

LEMMA LaterRequests ==
  ASSUME TypeOK, appendRequests' \subseteq appendRequests
  PROVE  RequestCommitsKept
BY DEF RequestCommitsKept

\* A call ends: what a success tells the leader is what the peer acknowledged in
\* the leader's own term.
LEMMA HandleAppendReplyCommits ==
  ASSUME TypeOK, RoundCalls, RoundsCurrent, NEW H, NEW G, LogInv(H), CommitInv(H), Grows(H, G),
         NEW m \in appendReplies, HandleAppendReply(m)
  PROVE  CommitInv(G)'
<1> DEFINE i == m.to
           s == m.slot
<1>1. /\ UNCHANGED <<log, commitIndex, appendRequests, acked, waiting>> /\ round[i][s] # None
      /\ i \in Node /\ s \in Slot /\ m.from \in Node
      /\ \/ round' = [round EXCEPT ![i][s] = None]
         \/ round' = [round EXCEPT ![i][s].calling = None]
  BY MessageTypes DEF HandleAppendReply, proposing
<1>2. RoundCommitsKept
  BY <1>1, RoundFields DEF RoundCommitsKept
<1>3. MatchesFit(G)'
  <2>1. CASE UNCHANGED matchIndex
    BY <2>1, HandleAppendReplyRoles, FallStays, MatchesKept DEF CommitInv
  <2>2. CASE /\ role[i] = "leader" /\ m.success /\ UNCHANGED <<currentTerm, role>>
             /\ matchIndex' = [matchIndex EXCEPT ![i][m.from] = m.match]
    <3>1. m.term = currentTerm[i]
      BY <1>1, <2>2 DEF RoundCalls, RoundsCurrent
    <3>2. m.term \in DOMAIN H /\ m.match <= H[m.term].acked[m.from]
      BY <2>2 DEF LogInv, AnswersFit
    <3>3. /\ IsHistory(H) /\ IsHistory(G) /\ m.term \in DOMAIN G
          /\ H[m.term].acked[m.from] <= G[m.term].acked[m.from]
      BY <1>1, <3>2 DEF Grows
    <3>4. /\ H[m.term].acked[m.from] \in Nat /\ G[m.term].acked[m.from] \in Nat /\ m.match \in Nat
      BY <1>1, <3>2, <3>3, ReignType, MessageTypes
    <3>5. m.match <= G[currentTerm[i]].acked[m.from]
      BY <3>1, <3>2, <3>3, <3>4
    <3>6. /\ matchIndex'[i][m.from] = m.match
          /\ \A n \in Node, j \in Node : ~(n = i /\ j = m.from) => matchIndex'[n][j] = matchIndex[n][j]
      BY <1>1, <2>2 DEF TypeOK
    <3> SUFFICES ASSUME NEW n \in Node, NEW j \in Node, role'[n] = "leader"
                 PROVE  matchIndex'[n][j] <= G[currentTerm'[n]].acked[j]
      BY DEF MatchesFit
    <3>7. CASE n = i /\ j = m.from
      BY <2>2, <3>5, <3>6, <3>7
    <3>8. CASE ~(n = i /\ j = m.from)
      BY <2>2, <3>6, <3>8, MatchGrows DEF CommitInv
    <3>9. QED
      BY <3>7, <3>8
  <2>3. QED
    BY <2>1, <2>2 DEF HandleAppendReply, leading
<1>4. NodesFit(G)'
  BY <1>1, NodesKept DEF CommitInv
<1>5. QED
  BY <1>1, <1>2, <1>3, <1>4, LaterRequests, SameWaits, QuietCommits

LEMMA AbandonAppendCommits ==
  ASSUME TypeOK, NEW H, NEW G, LogInv(H), CommitInv(H), Grows(H, G),
         NEW i \in Node, NEW s \in Slot, AbandonAppend(i, s)
  PROVE  CommitInv(G)'
<1>1. /\ UNCHANGED <<log, commitIndex, role, currentTerm, matchIndex, acked, waiting>>
      /\ round[i][s] # None /\ round' = [round EXCEPT ![i][s].calling = None]
  BY DEF AbandonAppend, durable, leading, proposing
<1>2. RoundCommitsKept
  BY <1>1, RoundFields DEF RoundCommitsKept
<1>3. RequestCommitsKept
  <2> SUFFICES ASSUME NEW m \in appendRequests'
               PROVE  \E n \in appendRequests :
                 /\ m.term = n.term /\ m.prevIndex = n.prevIndex /\ m.prevTerm = n.prevTerm
                 /\ m.entries = n.entries /\ m.commit = n.commit
    BY DEF RequestCommitsKept
  <2>1. PICK mine \in SUBSET appendRequests :
          \/ appendRequests' = appendRequests \ mine
          \/ appendRequests' =
               (appendRequests \ mine) \cup {[n EXCEPT !.live = FALSE] : n \in mine}
    BY DEF AbandonAppend, LostOrOrphaned
  <2>2. PICK n \in appendRequests : m = n \/ m = [n EXCEPT !.live = FALSE]
    BY <2>1
  <2>3. n \in AppendRequest
    BY DEF TypeOK
  <2>4. QED
    BY <2>2, <2>3 DEF AppendRequest
<1>4. LeadersStay
  BY <1>1 DEF LeadersStay
<1>5. MatchesFit(G)' /\ NodesFit(G)'
  BY <1>1, <1>4, MatchesKept, NodesKept DEF CommitInv
<1>6. QED
  BY <1>1, <1>2, <1>3, <1>5, SameWaits, QuietCommits

\* What a leader counts as acknowledged by a quorum is chosen.
LEMMA CountedIsChosen ==
  ASSUME TypeOK, NEW H, LogInv(H), CommitInv(H), NEW i \in Node, role[i] = "leader",
         NEW k \in Committable(i)
  PROVE  k \in DOMAIN log[i] /\ Chosen(H, k, log[i][k].term)
<1> DEFINE u == currentTerm[i]
           Q == Acknowledged(i, k)
<1>1. log[i] \in Seq(Entry) /\ commitIndex[i] \in Nat /\ u \in Nat
  BY DEF TypeOK
<1>2. /\ k \in DOMAIN log[i] /\ k <= Len(log[i]) /\ k \in Nat
      /\ log[i][k].term = u /\ HasQuorum(Cell, Q)
  BY <1>1, EntryType DEF Committable
<1>3. /\ u \in DOMAIN H /\ H[u].leader = i /\ H[u].log = log[i] /\ IsHistory(H)
      /\ H[u].acked[i] = Len(log[i])
  BY DEF LogInv, LeadersReign, ReignAcks
<1>4. Own(H, k, u)
  BY <1>2, <1>3 DEF Own, Has
<1>5. Q \subseteq Node
  BY DEF Acknowledged, PeerIds, Cell, Stable, AllVoters
<1>6. ASSUME NEW v \in Q PROVE k <= H[u].acked[v]
  <2>1. CASE v = i
    BY <1>2, <1>3, <2>1
  <2>2. CASE v # i
    <3>1. v \in Node /\ matchIndex[i][v] >= k /\ matchIndex[i][v] \in Nat
      BY <1>5, <2>2 DEF Acknowledged, TypeOK
    <3>2. matchIndex[i][v] <= H[u].acked[v] /\ H[u].acked[v] \in Nat
      BY <1>3, <3>1, ReignType DEF CommitInv, MatchesFit
    <3>3. QED
      BY <1>2, <3>1, <3>2
  <2>3. QED
    BY <2>1, <2>2
<1>7. QED
  BY <1>2, <1>4, <1>5, <1>6 DEF Chosen

LEMMA FinishRoundCommits ==
  ASSUME TypeOK, NEW H, NEW G, LogInv(H), CommitInv(H), Grows(H, G),
         NEW i \in Node, NEW s \in Slot, FinishRound(i, s)
  PROVE  CommitInv(G)'
<1>1. /\ UNCHANGED <<log, role, currentTerm, matchIndex, appendRequests, acked, waiting>>
      /\ round[i][s] # None /\ round' = [round EXCEPT ![i][s] = None]
  BY DEF FinishRound, leading, proposing
<1>2. RoundCommitsKept
  BY <1>1, RoundFields DEF RoundCommitsKept
<1>3. NodesFit(G)'
  <2>1. CASE UNCHANGED commitIndex
    BY <1>1, <2>1, NodesKept DEF CommitInv
  <2>2. ASSUME role[i] = "leader", NEW k \in Committable(i),
               commitIndex' = [commitIndex EXCEPT ![i] = k]
        PROVE  NodesFit(G)'
    <3>1. /\ commitIndex'[i] = k
          /\ \A j \in Node \ {i} : commitIndex'[j] = commitIndex[j]
      BY <2>2 DEF TypeOK
    <3>2. ChosenIn(H, log[i], k)
      BY <2>2, CountedIsChosen DEF ChosenIn
    <3>3. \A j \in Node : ChosenIn(H, log'[j], commitIndex'[j])
      BY <1>1, <3>1, <3>2 DEF CommitInv, NodesFit
    <3>4. \A j \in Node : ChosenIn(G, log'[j], commitIndex'[j])
      BY <3>3, ChosenInKept
    <3>5. QED
      BY <3>4 DEF NodesFit, ChosenIn, Chosen, Own, Has, HasQuorum, Cell, Stable, MajoritySize
  <2>3. QED
    BY <2>1, <2>2 DEF FinishRound
<1>4. LeadersStay
  BY <1>1 DEF LeadersStay
<1>5. MatchesFit(G)'
  BY <1>4, MatchesKept DEF CommitInv
<1>6. QED
  BY <1>1, <1>2, <1>3, <1>5, LaterRequests, SameWaits, QuietCommits

-----------------------------------------------------------------------------
(* A node accepts entries, or crashes *)

LEMMA MinOfTwo ==
  ASSUME NEW a \in Nat, NEW b \in Nat, a <= b
  PROVE  Min({a, b}) = a
BY DEF Min

\* Accepting keeps what the node has committed, and what it commits then is
\* chosen.
LEMMA AcceptedNode ==
  ASSUME TypeOK, NEW H, LogInv(H), CommitInv(H), NEW m \in appendRequests, Accepts(m),
         NEW r, r = Merge(log[m.to], m.prevIndex, m.entries)
  PROVE  /\ ChosenIn(H, r, commitIndex[m.to])
         /\ ChosenIn(H, r, NewCommit(commitIndex[m.to], m.commit, r))
         /\ commitIndex[m.to] <= NewCommit(commitIndex[m.to], m.commit, r)
<1> DEFINE j == m.to
           l == log[j]
           c == commitIndex[j]
           n == H[m.term].log
<1>1. /\ j \in Node /\ m.commit \in Nat /\ LastIndex(m) \in Nat /\ c \in Nat
      /\ m.term >= currentTerm[j] /\ PrevMatches(log[j], m.prevIndex, m.prevTerm)
  BY RequestType DEF TypeOK, Accepts
<1>2. /\ r \in Seq(Entry) /\ LastIndex(m) <= Len(r) /\ \A x \in 1 .. LastIndex(m) : r[x] = n[x]
  BY <1>1, AcceptedLog
<1>3. Len(r) \in Nat /\ DOMAIN r = 1 .. Len(r)
  BY <1>2, EntryType
<1>4. ChosenIn(H, r, c)
  <2> SUFFICES ASSUME c > 0 PROVE c \in DOMAIN r /\ Chosen(H, c, r[c].term)
    BY DEF ChosenIn
  <2> DEFINE t == l[c].term
  <2>1. c \in DOMAIN l /\ Chosen(H, c, t)
    BY <1>1 DEF CommitInv, NodesFit, ChosenIn
  <2>2. Alive(H, c, t) /\ t \in DOMAIN H /\ c \in DOMAIN H[t].log
    BY <2>1, ChosenAlive DEF LogInv
  <2>3. Has(log[m.to], c, t)
    BY <2>1 DEF Has
  <2> HIDE DEF t, c
  <2>4. Has(r, c, t)
    BY <1>1, <2>2, <2>3, AcceptKeeps
  <2>5. QED
    BY <2>1, <2>4 DEF Has
<1>5. CASE m.commit <= c
  BY <1>1, <1>4, <1>5 DEF NewCommit
<1>6. CASE m.commit > c
  <2>1. ~PastTheEnd(m)
    BY <1>1, AcceptedIsCut
  <2>2. m.commit <= LastIndex(m) /\ ChosenIn(H, n, m.commit)
    BY <2>1 DEF CommitInv, RequestCommitsFit
  <2>3. m.commit <= Len(r)
    BY <1>1, <1>2, <1>3, <2>2
  <2>4. NewCommit(c, m.commit, r) = m.commit
    BY <1>1, <1>3, <1>6, <2>3, MinOfTwo DEF NewCommit
  <2>5. ChosenIn(H, r, m.commit)
    BY <1>1, <1>2, <1>3, <2>2, <2>3 DEF ChosenIn
  <2>6. QED
    BY <1>1, <1>4, <1>6, <2>4, <2>5
<1>7. QED
  BY <1>1, <1>5, <1>6

LEMMA HandleAppendEntriesCommits ==
  ASSUME TypeOK, NEW H, NEW G, LogInv(H), CommitInv(H), Grows(H, G),
         NEW m \in appendRequests, HandleAppendEntries(m)
  PROVE  CommitInv(G)'
<1> DEFINE j == m.to
           r == Merge(log[j], m.prevIndex, m.entries)
<1>1. /\ UNCHANGED <<round, matchIndex, acked, waiting>> /\ appendRequests' \subseteq appendRequests
      /\ j \in Node
  BY RequestType DEF HandleAppendEntries, leading, proposing
<1>2. /\ log' = [log EXCEPT ![j] = IF Accepts(m) THEN r ELSE log[j]]
      /\ commitIndex' = [commitIndex EXCEPT ![j] =
           IF Accepts(m) THEN NewCommit(commitIndex[j], m.commit, log'[j]) ELSE commitIndex[j]]
  BY DEF HandleAppendEntries, Accepts
<1>3. /\ \A i \in Node \ {j} : log'[i] = log[i] /\ commitIndex'[i] = commitIndex[i]
      /\ log'[j] = IF Accepts(m) THEN r ELSE log[j]
      /\ commitIndex'[j] =
           IF Accepts(m) THEN NewCommit(commitIndex[j], m.commit, log'[j]) ELSE commitIndex[j]
  BY <1>1, <1>2 DEF TypeOK
<1>4. ChosenIn(H, log'[j], commitIndex'[j])
  <2>1. CASE Accepts(m)
    BY <1>3, <2>1, AcceptedNode
  <2>2. CASE ~Accepts(m)
    BY <1>1, <1>3, <2>2 DEF CommitInv, NodesFit
  <2>3. QED
    BY <2>1, <2>2
<1>5. NodesFit(G)'
  <2>1. \A i \in Node : ChosenIn(H, log'[i], commitIndex'[i])
    BY <1>3, <1>4 DEF CommitInv, NodesFit
  <2>2. \A i \in Node : ChosenIn(G, log'[i], commitIndex'[i])
    BY <2>1, ChosenInKept
  <2>3. QED
    BY <2>2 DEF NodesFit, ChosenIn, Chosen, Own, Has, HasQuorum, Cell, Stable, MajoritySize
<1>6. RoundCommitsKept /\ RequestCommitsKept /\ WaitsKept
  BY <1>1, LaterRequests, SameWaits DEF RoundCommitsKept
<1>7. MatchesFit(G)'
  BY <1>1, HandleAppendEntriesRoles, FallStays, MatchesKept DEF CommitInv
<1>8. QED
  BY <1>1, <1>5, <1>6, <1>7, QuietCommits

LEMMA RestartCommits ==
  ASSUME TypeOK, NEW H, NEW G, LogInv(H), CommitInv(H), Grows(H, G),
         NEW i \in Node, Restart(i), \A j \in Node \ {i} : currentTerm'[j] = currentTerm[j],
         NEW A \in SUBSET appendRequests, appendRequests' = Orphaned(A, i), NodesFit(G)'
  PROVE  CommitInv(G)'
<1>1. LeadersStay
  BY DEF TypeOK, Restart, LeadersStay
<1>2. RoundCommitsKept
  <2>1. \A j \in Node, s \in Slot : round'[j][s] # None => round'[j][s] = round[j][s]
    BY MessageTypes DEF Restart
  <2>2. QED
    BY <2>1 DEF RoundCommitsKept
<1>3. RequestCommitsKept
  <2> SUFFICES ASSUME NEW m \in appendRequests'
               PROVE  \E n \in appendRequests :
                 /\ m.term = n.term /\ m.prevIndex = n.prevIndex /\ m.prevTerm = n.prevTerm
                 /\ m.entries = n.entries /\ m.commit = n.commit
    BY DEF RequestCommitsKept
  <2>1. PICK n \in A : m = n \/ m = [n EXCEPT !.live = FALSE]
    BY DEF Orphaned
  <2>2. n \in AppendRequest
    BY DEF TypeOK
  <2>3. QED
    BY <2>1, <2>2 DEF AppendRequest
<1>4. WaitsKept
  <2>1. waiting \in [Node -> [Proposer -> Wait \cup {None}]]
    BY DEF TypeOK
  <2>2. QED
    BY <2>1 DEF Restart, WaitsKept
<1>5. MatchesFit(G)' /\ UNCHANGED acked
  BY <1>1, MatchesKept DEF CommitInv, Restart
<1>6. QED
  BY <1>2, <1>3, <1>4, <1>5, QuietCommits

LEMMA CrashCommits ==
  ASSUME TypeOK, NEW H, NEW G, LogInv(H), CommitInv(H), Grows(H, G),
         \/ \E i \in Node : Crash(i)
         \/ \E m \in voteRequests : CrashInVote(m)
         \/ \E m \in appendRequests : CrashInAppend(m)
  PROVE  CommitInv(G)'
<1>1. ASSUME UNCHANGED <<log, commitIndex>> PROVE NodesFit(G)'
  BY <1>1, NodesKept DEF CommitInv
<1>2. ASSUME NEW i \in Node, Crash(i) PROVE CommitInv(G)'
  BY <1>1, <1>2, RestartCommits DEF Crash, durable
<1>3. ASSUME NEW m \in voteRequests, CrashInVote(m) PROVE CommitInv(G)'
  <2>1. m.to \in Node
    BY DEF TypeOK, VoteRequest
  <2>2. \A j \in Node \ {m.to} : currentTerm'[j] = currentTerm[j]
    BY <1>3 DEF TypeOK, CrashInVote
  <2>3. QED
    BY <1>1, <1>3, <2>1, <2>2, RestartCommits DEF CrashInVote
<1>4. ASSUME NEW m \in appendRequests, CrashInAppend(m) PROVE CommitInv(G)'
  <2> DEFINE j == m.to
             r == Merge(log[j], m.prevIndex, m.entries)
  <2>1. j \in Node /\ m.term >= currentTerm[j] /\ UNCHANGED commitIndex
    BY <1>4, RequestType DEF CrashInAppend
  <2>2. \A i \in Node \ {j} : currentTerm'[i] = currentTerm[i]
    BY <1>4, <2>1 DEF TypeOK, CrashInAppend
  <2>3. NodesFit(G)'
    <3>1. CASE UNCHANGED log
      BY <1>1, <2>1, <3>1
    <3>2. CASE log' # log
      <4>1. Accepts(m) /\ log' = [log EXCEPT ![j] = r]
        BY <1>4, <2>1, <3>2 DEF CrashInAppend, Accepts
      <4>2. ChosenIn(H, r, commitIndex[j])
        BY <4>1, AcceptedNode
      <4>3. \A i \in Node : ChosenIn(H, log'[i], commitIndex'[i])
        BY <2>1, <4>1, <4>2 DEF TypeOK, CommitInv, NodesFit
      <4>4. \A i \in Node : ChosenIn(G, log'[i], commitIndex'[i])
        BY <4>3, ChosenInKept
      <4>5. QED
        BY <4>4 DEF NodesFit, ChosenIn, Chosen, Own, Has, HasQuorum, Cell, Stable, MajoritySize
    <3>3. QED
      BY <3>1, <3>2
  <2>4. QED
    BY <1>4, <2>1, <2>2, <2>3, RestartCommits DEF CrashInAppend
<1>5. QED
  BY <1>2, <1>3, <1>4

-----------------------------------------------------------------------------
(* Proposals and their answers *)

LEMMA Append1Commits ==
  ASSUME TypeOK, NEW H, NEW G, LogInv(H), CommitInv(H), Grows(H, G),
         NEW i \in Node, NEW c \in Command, Append1(i, c),
         UNCHANGED <<currentTerm, commitIndex, role, leading, appending, acked>>, WaitsFit(G)'
  PROVE  CommitInv(G)'
<1> DEFINE e == [term |-> currentTerm[i], command |-> c]
<1>1. /\ log[i] \in Seq(Entry) /\ e \in Entry /\ log' = [log EXCEPT ![i] = Append(log[i], e)]
  BY DEF TypeOK, Entry, Append1
<1> HIDE DEF e
<1>2. /\ log'[i] = Append(log[i], e) /\ \A j \in Node \ {i} : log'[j] = log[j]
  BY <1>1 DEF TypeOK
<1>3. Begins(log[i], log'[i]) /\ log'[i] \in Seq(Entry)
  BY <1>1, <1>2 DEF Begins
<1>4. \A j \in Node : ChosenIn(H, log'[j], commitIndex'[j])
  <2>1. ChosenIn(H, log'[i], commitIndex[i])
    BY <1>1, <1>3, ChosenInLonger DEF CommitInv, NodesFit
  <2>2. QED
    BY <1>2, <2>1 DEF CommitInv, NodesFit
<1>5. NodesFit(G)'
  <2>1. \A j \in Node : ChosenIn(G, log'[j], commitIndex'[j])
    BY <1>4, ChosenInKept
  <2>2. QED
    BY <2>1 DEF NodesFit, ChosenIn, Chosen, Own, Has, HasQuorum, Cell, Stable, MajoritySize
<1>6. LeadersStay /\ RoundCommitsKept /\ RequestCommitsKept
  BY DEF LeadersStay, RoundCommitsKept, RequestCommitsKept, leading, appending
<1>7. MatchesFit(G)' /\ RoundCommitsFit(G)' /\ RequestCommitsFit(G)'
  BY <1>6, MatchesKept, RoundCommitsFitKept, RequestCommitsFitKept DEF CommitInv
<1>8. AnswersBacked(G)'
  BY AnswersBackedKept DEF CommitInv
<1>9. QED
  BY <1>5, <1>7, <1>8 DEF CommitInv

LEMMA ProposeCommits ==
  ASSUME TypeOK, NEW H, NEW G, LogInv(H), CommitInv(H), Grows(H, G),
         NEW i \in Node, NEW c \in Command, Propose(i, c)
  PROVE  CommitInv(G)'
<1>1. WaitsFit(G)'
  BY SameWaits, WaitsFitKept DEF CommitInv, Propose, proposing
<1>2. QED
  BY <1>1, Append1Commits DEF Propose, proposing

LEMMA ProposeAndWaitCommits ==
  ASSUME TypeOK, NEW H, NEW G, LogInv(H), CommitInv(H), Grows(H, G), LogInv(G)',
         NEW i \in Node, NEW p \in Proposer, NEW c \in Command, ProposeAndWait(i, p, c)
  PROVE  CommitInv(G)'
<1> DEFINE u == currentTerm[i]
           e == [term |-> u, command |-> c]
           n == Len(log[i]) + 1
           w == [index |-> n, entry |-> e]
<1>1. /\ log[i] \in Seq(Entry) /\ e \in Entry /\ log' = [log EXCEPT ![i] = Append(log[i], e)]
      /\ role[i] = "leader" /\ UNCHANGED <<role, currentTerm>>
      /\ waiting' = [waiting EXCEPT ![i][p] = w]
  BY DEF TypeOK, Entry, Append1, ProposeAndWait
<1>2. /\ log'[i] = Append(log[i], e) /\ e.term = u /\ w.index = n /\ w.entry = e
      /\ waiting'[i][p] = w
      /\ \A j \in Node, q \in Proposer : ~(j = i /\ q = p) => waiting'[j][q] = waiting[j][q]
  BY <1>1 DEF TypeOK
<1> HIDE DEF e, w
<1>3. n \in DOMAIN log'[i] /\ log'[i][n] = e
  BY <1>1, <1>2, EntryType
<1>4. u \in DOMAIN G /\ G[u].log = log'[i]
  BY <1>1 DEF LogInv, LeadersReign
<1>5. WaitsFit(G)'
  <2> SUFFICES ASSUME NEW j \in Node, NEW q \in Proposer, waiting'[j][q] # None
               PROVE  LET x == waiting'[j][q] IN
                      /\ x.entry.term \in DOMAIN G /\ x.index \in DOMAIN G[x.entry.term].log
                      /\ G[x.entry.term].log[x.index] = x.entry
    BY DEF WaitsFit
  <2>1. CASE j = i /\ q = p
    BY <1>2, <1>3, <1>4, <2>1
  <2>2. CASE ~(j = i /\ q = p)
    BY <1>2, <2>2, WaitFits DEF CommitInv
  <2>3. QED
    BY <2>1, <2>2
<1>6. QED
  BY <1>5, Append1Commits DEF ProposeAndWait

\* A node that still leads has the entry the thread waits for, and its commit
\* index is past it.
LEMMA SteadyIsBacked ==
  ASSUME TypeOK, NEW H, LogInv(H), CommitInv(H), NEW i \in Node, NEW p \in Proposer,
         NEW w, w = waiting[i][p], w # None, IsCommitted(i, w.index),
         role[i] = "leader", currentTerm[i] = w.entry.term
  PROVE  Backed(H, [index |-> w.index, entry |-> w.entry, steady |-> TRUE])
<1> DEFINE c == commitIndex[i]
           t == log[i][c].term
           u == w.entry.term
           a == [index |-> w.index, entry |-> w.entry, steady |-> TRUE]
<1>1. /\ u \in DOMAIN H /\ w.index \in DOMAIN H[u].log /\ H[u].log[w.index] = w.entry
  BY DEF CommitInv, WaitsFit
<1>2. H[u].log = log[i] /\ log[i] \in Seq(Entry) /\ c \in Nat /\ Fits(H, log[i])
  BY DEF LogInv, LeadersReign, LogsFit, TypeOK
<1>3. w.index \in Nat /\ 1 <= w.index /\ w.index <= c
  BY <1>1, <1>2, EntryType DEF IsCommitted
<1>4. c \in DOMAIN log[i] /\ Chosen(H, c, t)
  BY <1>2, <1>3 DEF CommitInv, NodesFit, ChosenIn
<1>5. t \in DOMAIN H /\ c \in DOMAIN H[t].log /\ \A x \in 1 .. c : H[t].log[x] = log[i][x]
  BY <1>2, <1>4 DEF Fits
<1>6. a.index = w.index /\ a.entry = w.entry
  OBVIOUS
<1> HIDE DEF a, c, t, u
<1>7. a.index \in 1 .. c
  BY <1>2, <1>3, <1>6
<1>8. H[t].log[a.index] = a.entry
  BY <1>1, <1>2, <1>5, <1>6, <1>7
<1>9. Backed(H, a)
  BY <1>4, <1>5, <1>7, <1>8 DEF Backed
<1>10. QED
  BY <1>9 DEF a

LEMMA AnswerCommits ==
  ASSUME TypeOK, NEW H, NEW G, LogInv(H), CommitInv(H), Grows(H, G),
         NEW i \in Node, NEW p \in Proposer, AnswerTrue(i, p) \/ AnswerFalse(i, p)
  PROVE  CommitInv(G)'
<1> DEFINE w == waiting[i][p]
           b == role[i] = "leader" /\ currentTerm[i] = w.entry.term
           a == [index |-> w.index, entry |-> w.entry, steady |-> b]
<1>1. /\ UNCHANGED <<log, commitIndex, role, currentTerm, matchIndex, round, appendRequests>>
      /\ waiting' = [waiting EXCEPT ![i][p] = None]
  BY DEF AnswerTrue, AnswerFalse, durable, leading, appending
<1>2. LeadersStay /\ WaitsKept /\ RoundCommitsKept /\ RequestCommitsKept
  BY <1>1 DEF LeadersStay, WaitsKept, RoundCommitsKept, RequestCommitsKept, TypeOK
<1>3. /\ MatchesFit(G)' /\ NodesFit(G)' /\ RoundCommitsFit(G)' /\ RequestCommitsFit(G)'
      /\ WaitsFit(G)'
  BY <1>1, <1>2, MatchesKept, NodesKept, RoundCommitsFitKept, RequestCommitsFitKept,
     WaitsFitKept DEF CommitInv
<1>4. CASE AnswerFalse(i, p)
  <2>1. AnswersBacked(G)'
    BY <1>4, AnswersBackedKept DEF CommitInv, AnswerFalse
  <2>2. QED
    BY <1>3, <2>1 DEF CommitInv
<1>5. CASE AnswerTrue(i, p)
  <2>1. w # None /\ IsCommitted(i, w.index) /\ acked' = acked \cup {a}
    BY <1>5 DEF AnswerTrue
  <2>2. a.steady => Backed(H, a)
    <3>1. SUFFICES ASSUME a.steady PROVE Backed(H, a)
      OBVIOUS
    <3>2. b = TRUE
      BY <3>1
    <3>3. a = [index |-> w.index, entry |-> w.entry, steady |-> TRUE]
      BY <3>2
    <3>4. Backed(H, [index |-> w.index, entry |-> w.entry, steady |-> TRUE])
      BY <2>1, <3>2, SteadyIsBacked
    <3> HIDE DEF a
    <3>5. QED
      BY <3>3, <3>4
  <2> HIDE DEF a
  <2>3. \A x \in acked' : x.steady => x \in acked \/ Backed(H, x)
    BY <2>1, <2>2
  <2>4. AnswersBacked(G)'
    BY <2>3, AnswersBackedKept DEF CommitInv
  <2>5. QED
    BY <1>3, <2>4 DEF CommitInv
<1>6. QED
  BY <1>4, <1>5

-----------------------------------------------------------------------------
(* Every step *)

LEMMA StepCommits ==
  ASSUME TypeOK, RoundCalls, RoundsCurrent, NEW H, NEW G, LogInv(H), CommitInv(H),
         Grows(H, G), LogInv(G)', [Next]_vars
  PROVE  CommitInv(G)'
<1>1. ASSUME NEW i \in Node,
             StartElection(i) \/ AbandonVote(i) \/ FinishElection(i) \/ Crash(i)
      PROVE  CommitInv(G)'
  BY <1>1, ElectionCommits, FinishElectionCommits, CrashCommits
<1>2. ASSUME NEW i \in Node, NEW j \in Node, RequestVote(i, j) PROVE CommitInv(G)'
  BY <1>2, ElectionCommits
<1>3. ASSUME NEW m \in voteRequests, HandleRequestVote(m) \/ CrashInVote(m)
      PROVE  CommitInv(G)'
  BY <1>3, ElectionCommits, CrashCommits
<1>4. ASSUME NEW m \in voteReplies, HandleVoteReply(m) PROVE CommitInv(G)'
  BY <1>4, ElectionCommits
<1>5. ASSUME NEW i \in Node, NEW s \in Slot,
             \/ StartRound(i, s) \/ AbandonAppend(i, s) \/ FinishRound(i, s)
             \/ \E j \in Node : AppendEntries(i, s, j)
      PROVE  CommitInv(G)'
  BY <1>5, StartRoundCommits, AbandonAppendCommits, FinishRoundCommits, AppendEntriesCommits
<1>6. ASSUME NEW m \in appendRequests, HandleAppendEntries(m) \/ CrashInAppend(m)
      PROVE  CommitInv(G)'
  BY <1>6, HandleAppendEntriesCommits, CrashCommits
<1>7. ASSUME NEW m \in appendReplies, HandleAppendReply(m) PROVE CommitInv(G)'
  BY <1>7, HandleAppendReplyCommits
<1>8. ASSUME NEW i \in Node, NEW c \in Command, Propose(i, c) PROVE CommitInv(G)'
  BY <1>8, ProposeCommits
<1>9. ASSUME NEW i \in Node, NEW p \in Proposer,
             \/ \E c \in Command : ProposeAndWait(i, p, c)
             \/ AnswerTrue(i, p) \/ AnswerFalse(i, p)
      PROVE  CommitInv(G)'
  BY <1>9, ProposeAndWaitCommits, AnswerCommits
<1>10. ASSUME UNCHANGED vars PROVE CommitInv(G)'
  <2>1. UNCHANGED <<log, currentTerm, role, matchIndex, commitIndex, round, appendRequests,
                    acked, waiting>>
    BY <1>10 DEF vars, durable, leading, appending, proposing
  <2>2. LeadersStay
    BY <2>1 DEF LeadersStay
  <2>3. QED
    BY <2>1, <2>2, MatchesKept, SameWaits, IdleCommits DEF CommitInv
<1>11. QED
  BY <1>1, <1>2, <1>3, <1>4, <1>5, <1>6, <1>7, <1>8, <1>9, <1>10 DEF Next

LEMMA NextCommits ==
  ASSUME TypeOK, TypeOK', VoteInv, VoteInv', RoundCalls, RoundsCurrent,
         NEW H, LogInv(H), CommitInv(H), [Next]_vars
  PROVE  \E G : Grows(H, G) /\ LogInv(G)' /\ CommitInv(G)'
<1>1. PICK G : Grows(H, G) /\ LogInv(G)'
  BY NextVoteStep, NextLogs
<1>2. CommitInv(G)'
  BY <1>1, StepCommits
<1>3. QED
  BY <1>1, <1>2

LEMMA NextCommitsSafe ==
  /\ TypeOK /\ TypeOK' /\ VoteInv /\ VoteInv' /\ RoundCalls /\ RoundsCurrent
  /\ CommitsSafe /\ [Next]_vars
  => CommitsSafe'
<1> SUFFICES ASSUME TypeOK, TypeOK', VoteInv, VoteInv', RoundCalls, RoundsCurrent,
                    CommitsSafe, [Next]_vars
             PROVE  CommitsSafe'
  OBVIOUS
<1>1. PICK H : LogInv(H) /\ CommitInv(H)
  BY DEF CommitsSafe
<1>2. PICK G : LogInv(G)' /\ CommitInv(G)'
  BY <1>1, NextCommits
<1>3. QED
  BY <1>2 DEF CommitsSafe

LEMMA InitCommits == Init => CommitsSafe
<1> SUFFICES ASSUME Init PROVE CommitsSafe
  OBVIOUS
<1>1. PICK H : LogInv(H)
  BY InitLogs
<1>2. MatchesFit(H) /\ NodesFit(H) /\ RoundCommitsFit(H)
  BY DEF Init, MatchesFit, NodesFit, RoundCommitsFit, ChosenIn
<1>3. RequestCommitsFit(H) /\ WaitsFit(H) /\ AnswersBacked(H)
  BY DEF Init, RequestCommitsFit, WaitsFit, AnswersBacked
<1>4. QED
  BY <1>1, <1>2, <1>3 DEF CommitsSafe, CommitInv

LEMMA CommitsInvariant == Spec /\ []RoundsCurrent => []CommitsSafe
BY InitCommits, NextCommitsSafe, TypeCorrect, VoteInvariant, CallsInvariant, PTL DEF Spec

\* Nodes never disagree on what _apply_committed handed to on_commit: as long as
\* no node leads with a round of an earlier term open, two committed logs never
\* differ, whatever is lost, delayed or crashes.
THEOREM CommittedLogsAgree == Spec /\ []RoundsCurrent => []CommittedAgree
BY CommitsInvariant, TypeCorrect, CommitsAgree, PTL

\* Under the same condition a leader has what nodes of no later term committed:
\* the vote of handle_request_vote and the own-term rule of
\* _maybe_advance_commit_index protect it.
THEOREM LeadersHaveCommitted == Spec /\ []RoundsCurrent => []LeaderCompleteness
BY CommitsInvariant, TypeCorrect, LeadersComplete, PTL

\* Under the same condition a True of propose_and_wait, given by a node that
\* still leads the term it proposed in, is never contradicted.
THEOREM SteadyAnswersHold == Spec /\ []RoundsCurrent => []AckedWhileLeadingIsCommitted
BY CommitsInvariant, TypeCorrect, AnswersHold, PTL

-----------------------------------------------------------------------------
(* The promise of AgreedLog *)

\* What the invariant says of histories, to be used in the next state too.
HistoriesAgree == \A H : LogInv(H) => ChosenLead(H)

LEMMA HistoriesDoAgree == HistoriesAgree
BY LeadersHaveChosen DEF HistoriesAgree, LogInv

LEMMA HistoriesAgreeNext == HistoriesAgree'
BY HistoriesDoAgree, PTL

\* Commit indices never fall, and a step raises that of one node.
LEMMA CommitsRise ==
  ASSUME TypeOK, NEW H, LogInv(H), CommitInv(H), [Next]_vars
  PROVE  \E i \in Node : /\ commitIndex[i] <= commitIndex'[i]
                         /\ \A j \in Node \ {i} : commitIndex'[j] = commitIndex[j]
<1>1. CASE UNCHANGED commitIndex
  <2>1. PICK i \in Node : TRUE
    BY NodeAssumption
  <2>2. commitIndex[i] \in Nat
    BY DEF TypeOK
  <2>3. QED
    BY <1>1, <2>1, <2>2
<1>2. ASSUME NEW i \in Node, NEW s \in Slot, FinishRound(i, s), commitIndex' # commitIndex
      PROVE  /\ commitIndex[i] <= commitIndex'[i]
             /\ \A j \in Node \ {i} : commitIndex'[j] = commitIndex[j]
  <2>1. PICK k \in Committable(i) : commitIndex' = [commitIndex EXCEPT ![i] = k]
    BY <1>2 DEF FinishRound
  <2>2. k \in commitIndex[i] + 1 .. Len(log[i]) /\ commitIndex[i] \in Nat /\ log[i] \in Seq(Entry)
    BY DEF Committable, TypeOK
  <2>3. commitIndex[i] <= k
    BY <2>2, EntryType
  <2>4. QED
    BY <2>1, <2>3 DEF TypeOK
<1>3. ASSUME NEW m \in appendRequests, HandleAppendEntries(m)
      PROVE  /\ m.to \in Node /\ commitIndex[m.to] <= commitIndex'[m.to]
             /\ \A j \in Node \ {m.to} : commitIndex'[j] = commitIndex[j]
  <2> DEFINE i == m.to
             r == Merge(log[i], m.prevIndex, m.entries)
  <2>1. /\ i \in Node
        /\ log' = [log EXCEPT ![i] = IF Accepts(m) THEN r ELSE log[i]]
        /\ commitIndex' = [commitIndex EXCEPT ![i] =
             IF Accepts(m) THEN NewCommit(commitIndex[i], m.commit, log'[i]) ELSE commitIndex[i]]
    BY <1>3, RequestType DEF HandleAppendEntries, Accepts
  <2>2. CASE Accepts(m)
    <3>1. commitIndex[i] <= NewCommit(commitIndex[i], m.commit, r)
      BY <2>2, AcceptedNode
    <3>2. QED
      BY <2>1, <2>2, <3>1 DEF TypeOK
  <2>3. CASE ~Accepts(m)
    BY <2>1, <2>3 DEF TypeOK
  <2>4. QED
    BY <2>2, <2>3
<1>4. CASE commitIndex' # commitIndex
  <2>1. ASSUME NEW i \in Node, StartElection(i) \/ AbandonVote(i) \/ FinishElection(i) \/ Crash(i)
        PROVE  FALSE
    BY <1>4, <2>1 DEF StartElection, AbandonVote, FinishElection, Crash, durable
  <2>2. ASSUME NEW i \in Node, NEW j \in Node, RequestVote(i, j) PROVE FALSE
    BY <1>4, <2>2 DEF RequestVote, durable
  <2>3. ASSUME NEW m \in voteRequests, HandleRequestVote(m) \/ CrashInVote(m) PROVE FALSE
    BY <1>4, <2>3 DEF HandleRequestVote, CrashInVote
  <2>4. ASSUME NEW m \in voteReplies, HandleVoteReply(m) PROVE FALSE
    BY <1>4, <2>4 DEF HandleVoteReply
  <2>5. ASSUME NEW i \in Node, NEW s \in Slot,
               \/ StartRound(i, s) \/ AbandonAppend(i, s) \/ \E j \in Node : AppendEntries(i, s, j)
        PROVE  FALSE
    BY <1>4, <2>5 DEF StartRound, AbandonAppend, AppendEntries, durable
  <2>6. ASSUME NEW m \in appendRequests, CrashInAppend(m) PROVE FALSE
    BY <1>4, <2>6 DEF CrashInAppend
  <2>7. ASSUME NEW m \in appendReplies, HandleAppendReply(m) PROVE FALSE
    BY <1>4, <2>7 DEF HandleAppendReply
  <2>8. ASSUME NEW i \in Node, NEW c \in Command, Propose(i, c) PROVE FALSE
    BY <1>4, <2>8 DEF Propose
  <2>9. ASSUME NEW i \in Node, NEW p \in Proposer,
               \/ \E c \in Command : ProposeAndWait(i, p, c)
               \/ AnswerTrue(i, p) \/ AnswerFalse(i, p)
        PROVE  FALSE
    BY <1>4, <2>9 DEF ProposeAndWait, AnswerTrue, AnswerFalse, durable
  <2>10. ASSUME UNCHANGED vars PROVE FALSE
    BY <1>4, <2>10 DEF vars, durable
  <2>11. \/ \E i \in Node, s \in Slot : FinishRound(i, s)
         \/ \E m \in appendRequests : HandleAppendEntries(m)
    BY <2>1, <2>2, <2>3, <2>4, <2>5, <2>6, <2>7, <2>8, <2>9, <2>10 DEF Next
  <2>12. QED
    BY <1>2, <1>3, <1>4, <2>11
<1>5. QED
  BY <1>1, <1>4

\* What a node has committed stays as it is.
CommitStep ==
  \A i \in Node : /\ commitIndex[i] <= commitIndex'[i]
                  /\ \A x \in 1 .. commitIndex[i] : log'[i][x] = log[i][x]

LEMMA NextCommitStep ==
  /\ TypeOK /\ TypeOK' /\ VoteInv /\ VoteInv' /\ RoundCalls /\ RoundsCurrent
  /\ CommitsSafe /\ [Next]_vars
  => CommitStep
<1> SUFFICES ASSUME TypeOK, TypeOK', VoteInv, VoteInv', RoundCalls, RoundsCurrent,
                    CommitsSafe, [Next]_vars, NEW i \in Node
             PROVE  /\ commitIndex[i] <= commitIndex'[i]
                    /\ \A x \in 1 .. commitIndex[i] : log'[i][x] = log[i][x]
  BY DEF CommitStep
<1> DEFINE c == commitIndex[i]
           d == commitIndex'[i]
<1>1. PICK H : LogInv(H) /\ CommitInv(H)
  BY DEF CommitsSafe
<1>2. PICK G : Grows(H, G) /\ LogInv(G)' /\ CommitInv(G)'
  BY <1>1, NextCommits
<1>3. c \in Nat /\ d \in Nat /\ log[i] \in Seq(Entry) /\ log'[i] \in Seq(Entry) /\ c <= d
  <2>1. c \in Nat /\ d \in Nat /\ log[i] \in Seq(Entry) /\ log'[i] \in Seq(Entry)
    BY DEF TypeOK
  <2>2. c <= d
    BY <1>1, <2>1, CommitsRise
  <2>3. QED
    BY <2>1, <2>2
<1>4. IsHistory(G) /\ ReignLogs(G)
  BY <1>2 DEF Grows, LogInv, ReignLogs, Fits, Ordered
<1>5. ChosenLead(G)
  <2>1. ChosenLead(G)'
    BY <1>2, HistoriesAgreeNext DEF HistoriesAgree
  <2>2. QED
    BY <2>1 DEF ChosenLead, Chosen, Own, Has, HasQuorum, Cell, Stable, MajoritySize
<1>6. Fits(G, log[i]) /\ ChosenIn(G, log[i], c)
  BY <1>1, <1>2, <1>3, CommittedFit, FitsKept, ChosenInKept
<1>7. Fits(G, log'[i])
  BY <1>2 DEF LogInv, LogsFit, Fits
<1>8. ChosenIn(G, log'[i], d)
  BY <1>2 DEF CommitInv, NodesFit, ChosenIn, Chosen, Own, Has, HasQuorum, Cell, Stable,
              MajoritySize
<1>9. \A x \in 1 .. c : log[i][x] = log'[i][x]
  BY <1>3, <1>4, <1>5, <1>6, <1>7, <1>8, ChosenAgree
<1>10. QED
  BY <1>3, <1>9

\* Some node is ahead of all others.
HasAhead == \E i \in Node : \A j \in Node : commitIndex[j] <= commitIndex[i]

LEMMA NextHasAhead ==
  TypeOK /\ TypeOK' /\ CommitsSafe /\ HasAhead /\ [Next]_vars => HasAhead'
<1> SUFFICES ASSUME TypeOK, TypeOK', CommitsSafe, HasAhead, [Next]_vars PROVE HasAhead'
  OBVIOUS
<1>1. PICK i \in Node : /\ commitIndex[i] <= commitIndex'[i]
                        /\ \A j \in Node \ {i} : commitIndex'[j] = commitIndex[j]
  BY CommitsRise DEF CommitsSafe
<1>2. PICK a \in Node : \A j \in Node : commitIndex[j] <= commitIndex[a]
  BY DEF HasAhead
<1>3. \A j \in Node : commitIndex[j] \in Nat /\ commitIndex'[j] \in Nat
  BY DEF TypeOK
<1>4. CASE commitIndex'[i] <= commitIndex'[a]
  <2>1. \A j \in Node : commitIndex'[j] <= commitIndex'[a]
    BY <1>1, <1>2, <1>3, <1>4
  <2>2. QED
    BY <2>1 DEF HasAhead
<1>5. CASE commitIndex'[a] <= commitIndex'[i]
  <2>1. \A j \in Node : commitIndex'[j] <= commitIndex'[i]
    BY <1>1, <1>2, <1>3, <1>5
  <2>2. QED
    BY <2>1 DEF HasAhead
<1>6. QED
  BY <1>3, <1>4, <1>5

LEMMA AheadInvariant == Spec /\ []RoundsCurrent => []HasAhead
<1>1. Init => HasAhead
  BY NodeAssumption DEF Init, HasAhead
<1>2. QED
  BY <1>1, NextHasAhead, CommitsInvariant, TypeCorrect, PTL DEF Spec

\* What the beginning of a log is.
LEMMA PrefixIs ==
  ASSUME NEW l \in Seq(Entry), NEW c \in Nat, c <= Len(l)
  PROVE  LET s == SubSeq(l, 1, c) IN
         s \in Seq(Entry) /\ Len(s) = c /\ \A x \in 1 .. c : s[x] = l[x]
<1> DEFINE s == SubSeq(l, 1, c)
<1>1. Len(l) \in Nat /\ DOMAIN l = 1 .. Len(l) /\ \A k \in 1 .. c : l[k] \in Entry
  BY EntryType
<1>2. /\ s \in Seq(Entry)
      /\ Len(s) = IF 1 <= c THEN c - 1 + 1 ELSE 0
      /\ \A k \in 1 .. c - 1 + 1 : s[k] = l[1 + k - 1]
  BY <1>1, SubSeqProperties
<1> HIDE DEF s
<1>3. (IF 1 <= c THEN c - 1 + 1 ELSE 0) = c
  OBVIOUS
<1>4. \A x \in 1 .. c : s[x] = l[x]
  <2> SUFFICES ASSUME NEW x \in 1 .. c PROVE s[x] = l[x]
    OBVIOUS
  <2>1. x \in 1 .. c - 1 + 1 /\ 1 + x - 1 = x
    OBVIOUS
  <2>2. QED
    BY <1>2, <2>1
<1>5. QED
  BY <1>2, <1>3, <1>4 DEF s

LEMMA SameUpTo ==
  ASSUME NEW l \in Seq(Entry), NEW n \in Seq(Entry), NEW c \in Nat, c <= Len(l), c <= Len(n),
         SubSeq(l, 1, c) = SubSeq(n, 1, c)
  PROVE  \A x \in 1 .. c : l[x] = n[x]
<1> SUFFICES ASSUME NEW x \in 1 .. c PROVE l[x] = n[x]
  OBVIOUS
<1> DEFINE s == SubSeq(l, 1, c)
           t == SubSeq(n, 1, c)
<1>1. s[x] = l[x] /\ t[x] = n[x] /\ s = t
  BY PrefixIs
<1>2. QED
  BY <1>1

\* A committed log is a prefix of another one as soon as they agree that far.
LEMMA CommittedPrefix ==
  ASSUME NEW l \in Seq(Entry), NEW n \in Seq(Entry), NEW c \in Nat, NEW d \in Nat,
         c <= d, c <= Len(l), d <= Len(n), \A x \in 1 .. c : l[x] = n[x]
  PROVE  /\ SubSeq(n, 1, d) \in Seq(Entry)
         /\ Promise!IsPrefix(SubSeq(l, 1, c), SubSeq(n, 1, d))
<1> DEFINE s == SubSeq(l, 1, c)
           t == SubSeq(n, 1, d)
<1>1. Len(l) \in Nat /\ DOMAIN l = 1 .. Len(l) /\ Len(n) \in Nat /\ DOMAIN n = 1 .. Len(n)
  BY EntryType
<1>2. /\ s \in Seq(Entry) /\ Len(s) = c /\ \A x \in 1 .. c : s[x] = l[x]
  BY <1>1, PrefixIs
<1>3. /\ t \in Seq(Entry) /\ Len(t) = d /\ \A x \in 1 .. d : t[x] = n[x]
  BY <1>1, PrefixIs
<1> HIDE DEF s, t
<1>4. \A x \in 1 .. c : s[x] = t[x]
  BY <1>2, <1>3
<1>5. SubSeq(s, 1, c) = SubSeq(t, 1, c)
  BY <1>2, <1>3, <1>4, SamePrefix
<1>6. QED
  BY <1>2, <1>3, <1>5 DEF Promise!IsPrefix, s, t

LEMMA StepAdvances ==
  ASSUME TypeOK, TypeOK', HasAhead, HasAhead', CommitStep, CommittedAgree, CommittedAgree'
  PROVE  Promise!Advance
<1> DEFINE a == Ahead
           b == Ahead'
<1>1. /\ a \in Node /\ \A j \in Node : commitIndex[j] <= commitIndex[a]
      /\ b \in Node /\ \A j \in Node : commitIndex'[j] <= commitIndex'[b]
  BY DEF HasAhead, Ahead
<1> HIDE DEF a, b
<1>2. \A i \in Node :
        /\ log[i] \in Seq(Entry) /\ log'[i] \in Seq(Entry)
        /\ commitIndex[i] \in Nat /\ commitIndex'[i] \in Nat
  BY DEF TypeOK
<1>3. \A i \in Node :
        /\ commitIndex[i] <= Len(log[i]) /\ commitIndex'[i] <= Len(log'[i])
        /\ commitIndex[i] <= commitIndex'[i]
        /\ \A x \in 1 .. commitIndex[i] : log[i][x] = log'[i][x]
  BY <1>2 DEF CommittedAgree, CommitStep
<1>4. ASSUME NEW i \in Node
      PROVE  \A x \in 1 .. commitIndex'[i] : log'[i][x] = log'[b][x]
  <2>1. SubSeq(log'[i], 1, commitIndex'[i]) = SubSeq(log'[b], 1, commitIndex'[i])
    BY <1>1 DEF CommittedAgree, Committed
  <2>2. commitIndex'[i] <= Len(log'[i]) /\ commitIndex'[i] <= Len(log'[b])
    <3>1. log'[b] \in Seq(Entry) /\ commitIndex'[b] \in Nat /\ commitIndex'[b] <= Len(log'[b])
      BY <1>1, <1>2, <1>3
    <3>2. Len(log'[b]) \in Nat
      BY <3>1, EntryType
    <3>3. commitIndex'[i] \in Nat /\ commitIndex'[i] <= commitIndex'[b]
      BY <1>1, <1>2
    <3>4. QED
      BY <1>3, <3>1, <3>2, <3>3
  <2>3. QED
    BY <1>1, <1>2, <2>1, <2>2, SameUpTo
<1>5. ASSUME NEW i \in Node
      PROVE  /\ Promise!IsPrefix(Committed(i), Committed(i)')
             /\ Promise!IsPrefix(Committed(i)', SubSeq(log'[b], 1, commitIndex'[b]))
  BY <1>1, <1>2, <1>3, <1>4, CommittedPrefix DEF Committed
<1>6. /\ SubSeq(log'[b], 1, commitIndex'[b]) \in Seq(Entry)
      /\ Promise!IsPrefix(SubSeq(log[a], 1, commitIndex[a]), SubSeq(log'[b], 1, commitIndex'[b]))
  <2>1. \A x \in 1 .. commitIndex[a] : log[a][x] = log'[b][x]
    BY <1>1, <1>2, <1>3, <1>4
  <2>2. commitIndex[a] <= commitIndex'[b]
    BY <1>1, <1>2, <1>3
  <2>3. QED
    BY <1>1, <1>2, <1>3, <2>1, <2>2, CommittedPrefix
<1>7. /\ Committed(Ahead) = SubSeq(log[a], 1, commitIndex[a])
      /\ Committed(Ahead)' = SubSeq(log'[b], 1, commitIndex'[b])
  BY DEF Committed, a, b
<1>8. QED
  BY <1>5, <1>6, <1>7 DEF Promise!Advance

LEMMA InitPromise == Init => Promise!LogInit
<1> SUFFICES ASSUME Init PROVE Promise!LogInit
  OBVIOUS
<1>1. \A i \in Node : Committed(i) = <<>>
  BY DEF Init, Committed
<1>2. Ahead \in Node
  BY NodeAssumption DEF Init, Ahead
<1>3. QED
  BY <1>1, <1>2 DEF Promise!LogInit

\* Under the same condition the cell implements the log it promises to the state
\* machines above it: no election, late AppendEntries or truncation in
\* handle_append_entries takes back or rewrites what on_commit was called with.
THEOREM KeepsPromise == Spec /\ []RoundsCurrent => ImplementsAgreedLog
<1>1. /\ TypeOK /\ TypeOK' /\ VoteInv /\ VoteInv' /\ RoundCalls /\ RoundsCurrent
      /\ CommitsSafe /\ HasAhead /\ HasAhead' /\ CommittedAgree /\ CommittedAgree'
      /\ [Next]_vars
      => Promise!Advance
  BY NextCommitStep, StepAdvances
<1>2. QED
  BY <1>1, InitPromise, CommitsInvariant, CommittedLogsAgree, AheadInvariant, TypeCorrect,
     VoteInvariant, CallsInvariant, PTL DEF Spec, ImplementsAgreedLog, Promise!LogSpec

\* A cell whose owners only use propose keeps all of it: only the rounds of
\* propose_and_wait threads can outlive the term they began in.
THEOREM RunLoopKeepsPromise ==
  Proposer = {} => (Spec => []CommittedAgree /\ []LeaderCompleteness /\ ImplementsAgreedLog)
<1> SUFFICES ASSUME Proposer = {}
             PROVE  Spec => []CommittedAgree /\ []LeaderCompleteness /\ ImplementsAgreedLog
  OBVIOUS
<1>1. Spec => []RoundsCurrent
  BY RunLoopRoundsAreCurrent
<1>2. QED
  BY <1>1, CommittedLogsAgree, LeadersHaveCommitted, KeepsPromise, PTL

-----------------------------------------------------------------------------
(* Majorities *)

LEMMA QuorumWiden ==
  ASSUME NEW P \in SUBSET Node, NEW Q \in SUBSET Node, P \subseteq Q, HasQuorum(Cell, P)
  PROVE  HasQuorum(Cell, Q)
<1>1. /\ IsFiniteSet(P) /\ IsFiniteSet(Q) /\ P \cap Node = P /\ Q \cap Node = Q
      /\ Cardinality(P) <= Cardinality(Q) /\ Cardinality(P) \in Nat /\ Cardinality(Q) \in Nat
  BY NodeAssumption, FS_Subset, FS_CardinalityType
<1>2. MajoritySize(Node) \in Nat
  BY NodeAssumption, FS_CardinalityType DEF MajoritySize
<1>3. QED
  BY <1>1, <1>2 DEF HasQuorum, Cell, Stable

LEMMA MajorityHas == TypeOK /\ CommitsSafe => CommittedByMajority
<1> SUFFICES ASSUME TypeOK, CommitsSafe, NEW i \in Node, NEW x \in 1 .. commitIndex[i]
             PROVE  HasQuorum(Cell, {j \in Node : x \in DOMAIN log[j] /\ log[j][x] = log[i][x]})
  BY DEF CommittedByMajority
<1> DEFINE c == commitIndex[i]
           t == log[i][c].term
           holders == {j \in Node : x \in DOMAIN log[j] /\ log[j][x] = log[i][x]}
<1>1. PICK H : LogInv(H) /\ CommitInv(H)
  BY DEF CommitsSafe
<1>2. c \in Nat /\ c > 0 /\ x <= c /\ Fits(H, log[i]) /\ ChosenIn(H, log[i], c) /\ IsHistory(H)
  BY <1>1, CommittedFit
<1>3. c \in DOMAIN log[i] /\ Chosen(H, c, t)
  BY <1>2 DEF ChosenIn
<1>4. Alive(H, c, t) /\ t \in DOMAIN H /\ c \in DOMAIN H[t].log
  BY <1>2, <1>3, ChosenAlive
<1>5. PICK Q \in SUBSET Node : HasQuorum(Cell, Q) /\ \A v \in Q : c <= H[t].acked[v]
  BY <1>3 DEF Chosen
<1>6. ASSUME NEW v \in Q PROVE v \in holders
  <2>1. Has(log[v], c, t)
    BY <1>1, <1>4, <1>5 DEF LogInv, AckersKeep
  <2>2. log[v] \in Seq(Entry) /\ Fits(H, log[v])
    BY <1>1, CommittedFit
  <2>3. c \in DOMAIN log[i] \cap DOMAIN log[v] /\ log[i][c].term = log[v][c].term
    BY <1>3, <2>1 DEF Has
  <2>4. log[i][x] = log[v][x]
    BY <1>2, <2>2, <2>3, FitsAgree
  <2>5. x \in DOMAIN log[v]
    BY <1>2, <2>2, <2>3, EntryType
  <2>6. QED
    BY <2>4, <2>5
<1>7. QED
  BY <1>5, <1>6, QuorumWiden

\* As long as no node leads with a round of an earlier term open, an entry is
\* committed only when a majority of the voters holds it, and it stays there.
THEOREM CommittedOnMajority == Spec /\ []RoundsCurrent => []CommittedByMajority
BY MajorityHas, CommitsInvariant, TypeCorrect, PTL
=============================================================================
