------------------------- MODULE RaftElectionProofs -------------------------
(***************************************************************************)
(* Votes never change within a term (VoteIsStable) and at most one node    *)
(* leads a term (ElectionSafety), for every value of the constants.        *)
(***************************************************************************)
EXTENDS RaftCellProofs

-----------------------------------------------------------------------------
(* Terms and votes: what one step may do to them *)

VoteStep ==
  \A i \in Node :
    /\ currentTerm[i] <= currentTerm'[i]
    /\ currentTerm[i] = currentTerm'[i] /\ votedFor[i] # None => votedFor'[i] = votedFor[i]

LEMMA UnchangedVoteStep ==
  ASSUME TypeOK, UNCHANGED <<currentTerm, votedFor>>
  PROVE  VoteStep
BY DEF TypeOK, VoteStep

\* The step of one node j to a term not below its own, after which its vote is
\* for w, and was so unless it had none or the term is newer.
LEMMA OneVoteStep ==
  ASSUME TypeOK, NEW j \in Node, NEW t \in Nat, NEW w, t >= currentTerm[j],
         currentTerm' = [currentTerm EXCEPT ![j] = t],
         votedFor' = [votedFor EXCEPT ![j] = w],
         t = currentTerm[j] => votedFor[j] \in {None, w}
  PROVE  VoteStep
<1>1. currentTerm \in [Node -> Nat] /\ votedFor \in [Node -> Node \cup {None}]
  BY DEF TypeOK
<1>2. QED
  BY <1>1 DEF VoteStep

LEMMA HandleRequestVoteVoteStep ==
  ASSUME TypeOK, NEW m \in voteRequests, HandleRequestVote(m)
  PROVE  VoteStep
<1> DEFINE j == m.to
           t == IF m.term > currentTerm[j] THEN m.term ELSE currentTerm[j]
<1>1. j \in Node /\ m.term \in Nat /\ currentTerm[j] \in Nat /\ t \in Nat /\ t >= currentTerm[j]
  BY DEF TypeOK, VoteRequest
<1>2. currentTerm' = [currentTerm EXCEPT ![j] = t]
  BY DEF HandleRequestVote
<1>3. PICK w : /\ votedFor' = [votedFor EXCEPT ![j] = w]
               /\ ~(m.term > currentTerm[j]) => votedFor[j] \in {None, w}
  BY DEF HandleRequestVote, Grants
<1>4. t = currentTerm[j] => votedFor[j] \in {None, w}
  BY <1>1, <1>3
<1> HIDE DEF j, t
<1>5. QED
  BY <1>1, <1>2, <1>3, <1>4, OneVoteStep

LEMMA StepDownVoteStep ==
  ASSUME TypeOK, NEW j \in Node, NEW t \in Nat, t > currentTerm[j], StepDown(j, t)
  PROVE  VoteStep
<1>1. currentTerm[j] \in Nat
  BY DEF TypeOK
<1>2. t >= currentTerm[j] /\ (t = currentTerm[j] => votedFor[j] \in {None, None})
  BY <1>1
<1>3. /\ currentTerm' = [currentTerm EXCEPT ![j] = t]
      /\ votedFor' = [votedFor EXCEPT ![j] = None]
  BY DEF StepDown
<1>4. QED
  BY <1>2, <1>3, OneVoteStep

LEMMA NextVoteStep == TypeOK /\ [Next]_vars => VoteStep
<1> SUFFICES ASSUME TypeOK, [Next]_vars PROVE VoteStep
  OBVIOUS
<1>1. ASSUME NEW i \in Node, StartElection(i) PROVE VoteStep
  BY <1>1 DEF TypeOK, VoteStep, StartElection
<1>2. ASSUME NEW i \in Node, AbandonVote(i) \/ FinishElection(i) \/ Crash(i) PROVE VoteStep
  BY <1>2, UnchangedVoteStep DEF AbandonVote, FinishElection, Crash, durable
<1>3. ASSUME NEW i \in Node, NEW j \in Node, RequestVote(i, j) PROVE VoteStep
  BY <1>3, UnchangedVoteStep DEF RequestVote, durable
<1>4. ASSUME NEW m \in voteRequests, CrashInVote(m) PROVE VoteStep
  <2>1. m.to \in Node /\ m.term \in Nat
    BY DEF TypeOK, VoteRequest
  <2>2. QED
    BY <1>4, <2>1 DEF TypeOK, VoteStep, CrashInVote
<1>5. ASSUME NEW m \in voteReplies, HandleVoteReply(m) PROVE VoteStep
  <2>1. m.to \in Node /\ m.term \in Nat
    BY DEF TypeOK, VoteReply
  <2>2. QED
    BY <1>5, <2>1, UnchangedVoteStep, StepDownVoteStep DEF HandleVoteReply
<1>6. ASSUME NEW i \in Node, NEW s \in Slot,
             \/ StartRound(i, s) \/ AbandonAppend(i, s) \/ FinishRound(i, s)
             \/ \E j \in Node : AppendEntries(i, s, j)
      PROVE  VoteStep
  BY <1>6, UnchangedVoteStep DEF StartRound, AbandonAppend, FinishRound, AppendEntries, durable
<1>7. ASSUME NEW m \in appendRequests, HandleAppendEntries(m) \/ CrashInAppend(m)
      PROVE  VoteStep
  <2> DEFINE j == m.to
             t == IF m.term > currentTerm[j] THEN m.term ELSE currentTerm[j]
             w == IF m.term > currentTerm[j] THEN None ELSE votedFor[j]
  <2>1. j \in Node /\ m.term \in Nat /\ currentTerm[j] \in Nat /\ t \in Nat /\ t >= currentTerm[j]
    BY DEF TypeOK, AppendRequest
  <2>2. currentTerm' = [currentTerm EXCEPT ![j] = t]
    BY <1>7, <2>1 DEF HandleAppendEntries, CrashInAppend
  <2>3. votedFor' = [votedFor EXCEPT ![j] = w]
    BY <1>7 DEF HandleAppendEntries, CrashInAppend
  <2>4. t = currentTerm[j] => votedFor[j] \in {None, w}
    BY <2>1
  <2> HIDE DEF j, t, w
  <2>5. QED
    BY <2>1, <2>2, <2>3, <2>4, OneVoteStep
<1>8. ASSUME NEW m \in appendReplies, HandleAppendReply(m) PROVE VoteStep
  <2>1. m.to \in Node /\ m.term \in Nat
    BY DEF TypeOK, AppendReply
  <2>2. QED
    BY <1>8, <2>1, UnchangedVoteStep, StepDownVoteStep DEF HandleAppendReply
<1>9. ASSUME NEW i \in Node, NEW c \in Command, Propose(i, c) PROVE VoteStep
  BY <1>9, UnchangedVoteStep DEF Propose
<1>10. ASSUME NEW i \in Node, NEW p \in Proposer,
              \/ \E c \in Command : ProposeAndWait(i, p, c)
              \/ AnswerTrue(i, p) \/ AnswerFalse(i, p)
       PROVE  VoteStep
  BY <1>10, UnchangedVoteStep DEF ProposeAndWait, AnswerTrue, AnswerFalse, durable
<1>11. CASE UNCHANGED vars
  BY <1>11, UnchangedVoteStep DEF vars, durable
<1>12. QED
  BY <1>1, <1>2, <1>3, <1>4, <1>5, <1>6, <1>7, <1>8, <1>9, <1>10, <1>11,
     HandleRequestVoteVoteStep DEF Next

\* However handlers, timeouts and crashes interleave, no node goes back in
\* terms or changes the vote it cast in one: _persist before every answer.
THEOREM VoteStability == Spec => VoteIsStable
<1>1. TypeOK /\ [Next]_vars => [VoteStep]_vars
  BY NextVoteStep
<1>2. QED
  BY <1>1, TypeCorrect, PTL DEF Spec, VoteIsStable, VoteStep

-----------------------------------------------------------------------------
(* The inductive invariant *)

LEMMA InitVoteInv == Init => VoteInv
<1> SUFFICES ASSUME Init PROVE VoteInv
  OBVIOUS
<1> USE DEF Init
<1>1. CountedVotesCast /\ CountedVotesDisjoint /\ RolesMatch
  BY DEF CountedVotesCast, CountedVotesDisjoint, RolesMatch
<1>2. GrantsGood /\ CallsMatch
  BY DEF GrantsGood, CallsMatch
<1>3. QED
  BY <1>1, <1>2 DEF VoteInv

\* A vote once cast stays cast.
LEMMA CastStable ==
  ASSUME TypeOK, TypeOK', VoteStep, NEW v \in Node, NEW t \in Nat, NEW c \in Node, Cast(v, t, c)
  PROVE  Cast(v, t, c)'
<1>1. currentTerm[v] \in Nat /\ currentTerm'[v] \in Nat /\ c # None
  BY NodeAssumption DEF TypeOK
<1>2. QED
  BY <1>1 DEF Cast, VoteStep

\* Votes that are counted stay good in a step that counts none.
LEMMA CountedKept ==
  ASSUME TypeOK, TypeOK', VoteStep, VoteInv, UNCHANGED poll
  PROVE  (CountedVotesCast /\ CountedVotesDisjoint)'
<1>1. CountedVotesCast'
  <2> SUFFICES ASSUME NEW i \in Node, NEW v \in poll[i].votes
               PROVE  Cast(v, poll[i].term, i)'
    BY DEF CountedVotesCast
  <2>1. v \in Node /\ poll[i].term \in Nat
    BY DEF TypeOK, Poll
  <2>2. Cast(v, poll[i].term, i)
    BY DEF VoteInv, CountedVotesCast
  <2>3. Cast(v, poll[i].term, i)'
    <3> DEFINE t == poll[i].term
    <3>1. t \in Nat /\ Cast(v, t, i) /\ t' = t
      BY <2>1, <2>2
    <3> HIDE DEF t
    <3>2. (currentTerm'[v] >= t) /\ (currentTerm'[v] = t => votedFor'[v] = i)
      BY <2>1, <3>1, CastStable DEF Cast
    <3>3. QED
      BY <3>1, <3>2 DEF Cast, t
  <2>4. QED
    BY <2>3
<1>2. CountedVotesDisjoint'
  BY DEF VoteInv, CountedVotesDisjoint
<1>3. QED
  BY <1>1, <1>2

\* Votes under way stay good too, unless one is granted.
LEMMA VotesKept ==
  ASSUME TypeOK, TypeOK', VoteStep, VoteInv, UNCHANGED poll, voteReplies' \subseteq voteReplies
  PROVE  (CountedVotesCast /\ CountedVotesDisjoint /\ GrantsGood)'
<1>1. (CountedVotesCast /\ CountedVotesDisjoint)'
  BY CountedKept
<1>3. GrantsGood'
  <2> SUFFICES ASSUME NEW m \in voteReplies, m.granted
               PROVE  /\ m.term = poll[m.to].term
                      /\ Cast(m.from, m.term, m.to)'
                      /\ \A j \in Node :
                           m.from \in poll[j].votes /\ poll[j].term = m.term => j = m.to
                      /\ \A n \in voteReplies :
                           n.granted /\ n.from = m.from /\ n.term = m.term => n.to = m.to
    BY DEF GrantsGood
  <2>1. m.from \in Node /\ m.to \in Node /\ m.term \in Nat
    BY DEF TypeOK, VoteReply
  <2>2. Cast(m.from, m.term, m.to)
    BY DEF VoteInv, GrantsGood
  <2>3. QED
    BY <2>1, <2>2, CastStable DEF VoteInv, GrantsGood
<1>4. QED
  BY <1>1, <1>3

\* What a step that makes nobody a candidate or a leader does to the roles.
RolesFall ==
  \A i \in Node :
    role'[i] # "follower" => role'[i] = role[i] /\ currentTerm'[i] = currentTerm[i]

LEMMA RolesKept ==
  ASSUME TypeOK, TypeOK', VoteStep, RolesMatch, UNCHANGED poll, RolesFall
  PROVE  RolesMatch'
<1>1. SUFFICES ASSUME NEW i \in Node
               PROVE  /\ poll[i].term <= currentTerm'[i]
                      /\ role'[i] # "follower" => poll[i].term = currentTerm'[i]
                      /\ role'[i] = "leader" => HasQuorum(Cell, poll[i].votes)
  BY DEF RolesMatch, HasQuorum, Cell, Stable, MajoritySize
<1>2. poll[i].term \in Nat /\ currentTerm[i] \in Nat /\ currentTerm'[i] \in Nat
  BY DEF TypeOK, Poll
<1>3. poll[i].term <= currentTerm[i] /\ currentTerm[i] <= currentTerm'[i]
  BY DEF RolesMatch, VoteStep
<1>4. QED
  BY <1>2, <1>3 DEF RolesMatch, RolesFall

\* A step that touches neither polls nor vote calls.
LEMMA QuietStep ==
  ASSUME TypeOK, TypeOK', VoteStep, VoteInv, RolesFall,
         UNCHANGED <<poll, election, voteRequests, voteReplies>>
  PROVE  VoteInv'
<1>1. (CountedVotesCast /\ CountedVotesDisjoint /\ GrantsGood)'
  BY VotesKept
<1>2. CallsMatch'
  BY DEF VoteInv, CallsMatch
<1>3. RolesMatch'
  BY RolesKept DEF VoteInv
<1>4. QED
  BY <1>1, <1>2, <1>3 DEF VoteInv

LEMMA StartElectionVoteInv ==
  ASSUME TypeOK, TypeOK', VoteStep, VoteInv, NEW i \in Node, StartElection(i)
  PROVE  VoteInv'
<1> DEFINE t == currentTerm[i] + 1
<1>1. /\ currentTerm \in [Node -> Nat] /\ currentTerm' = [currentTerm EXCEPT ![i] = t]
      /\ votedFor' = [votedFor EXCEPT ![i] = i] /\ votedFor \in [Node -> Node \cup {None}]
      /\ role \in [Node -> Role] /\ role' = [role EXCEPT ![i] = "candidate"]
      /\ poll \in [Node -> Poll] /\ poll' = [poll EXCEPT ![i] = [term |-> t, votes |-> {i}]]
      /\ election[i] = None /\ UNCHANGED <<voteRequests, voteReplies>>
      /\ t \in Nat /\ t > currentTerm[i]
  BY DEF TypeOK, StartElection
<1>2. poll'[i].term = t /\ poll'[i].votes = {i}
  BY <1>1
<1>3. \A j \in Node \ {i} : poll'[j] = poll[j]
  BY <1>1
<1>4. \A j \in Node : i \in poll[j].votes => poll[j].term < t
  <2> SUFFICES ASSUME NEW j \in Node, i \in poll[j].votes PROVE poll[j].term < t
    OBVIOUS
  <2>1. Cast(i, poll[j].term, j) /\ poll[j].term \in Nat
    BY DEF VoteInv, CountedVotesCast, TypeOK, Poll
  <2>2. QED
    BY <1>1, <2>1 DEF Cast
<1>5. CountedVotesCast'
  <2> SUFFICES ASSUME NEW j \in Node, NEW v \in poll'[j].votes
               PROVE  Cast(v, poll[j].term, j)'
    BY DEF CountedVotesCast
  <2>1. CASE j = i
    BY <1>1, <1>2, <2>1 DEF Cast
  <2>2. CASE j # i
    <3>1. poll'[j] = poll[j] /\ v \in Node /\ poll[j].term \in Nat
      BY <1>3, <2>2 DEF TypeOK, Poll
    <3>2. Cast(v, poll[j].term, j)
      BY <3>1 DEF VoteInv, CountedVotesCast
    <3>3. (currentTerm'[v] >= poll[j].term)
           /\ (currentTerm'[v] = poll[j].term => votedFor'[v] = j)
      BY <3>1, <3>2, CastStable DEF Cast
    <3>4. QED
      BY <3>1, <3>3 DEF Cast
  <2>3. QED
    BY <2>1, <2>2
<1>6. CountedVotesDisjoint'
  <2> SUFFICES ASSUME NEW j \in Node, NEW k \in Node, j # k, poll'[j].term = poll'[k].term
               PROVE  poll'[j].votes \cap poll'[k].votes = {}
    BY DEF CountedVotesDisjoint
  <2>1. \A n \in Node : poll[n].term \in Nat
    BY DEF TypeOK, Poll
  <2>2. CASE j = i
    BY <1>1, <1>2, <1>3, <1>4, <2>1, <2>2
  <2>3. CASE k = i
    BY <1>1, <1>2, <1>3, <1>4, <2>1, <2>3
  <2>4. CASE j # i /\ k # i
    BY <1>3, <2>4 DEF VoteInv, CountedVotesDisjoint
  <2>5. QED
    BY <2>2, <2>3, <2>4
<1>7. GrantsGood'
  <2> SUFFICES ASSUME NEW m \in voteReplies, m.granted
               PROVE  /\ m.term = poll'[m.to].term
                      /\ Cast(m.from, m.term, m.to)'
                      /\ \A j \in Node :
                           m.from \in poll'[j].votes /\ poll'[j].term = m.term => j = m.to
                      /\ \A n \in voteReplies :
                           n.granted /\ n.from = m.from /\ n.term = m.term => n.to = m.to
    BY <1>1 DEF GrantsGood
  <2>1. m.from \in Node /\ m.to \in Node /\ m.term \in Nat
    BY DEF TypeOK, VoteReply
  <2>2. m.to # i
    BY <1>1 DEF VoteInv, CallsMatch
  <2>3. /\ m.term = poll[m.to].term
        /\ Cast(m.from, m.term, m.to)
        /\ \A j \in Node : m.from \in poll[j].votes /\ poll[j].term = m.term => j = m.to
        /\ \A n \in voteReplies :
             n.granted /\ n.from = m.from /\ n.term = m.term => n.to = m.to
    BY DEF VoteInv, GrantsGood
  <2>4. Cast(m.from, m.term, m.to)'
    BY <2>1, <2>3, CastStable
  <2>5. ~(m.from \in poll'[i].votes /\ poll'[i].term = m.term)
    BY <1>1, <1>2, <2>1, <2>3 DEF Cast
  <2>6. QED
    BY <1>3, <2>1, <2>2, <2>3, <2>4, <2>5
<1>8. CallsMatch'
  <2>1. \A m \in voteRequests : m.live => m.from # i
    BY <1>1 DEF VoteInv, CallsMatch
  <2>2. \A m \in voteReplies : m.to # i
    BY <1>1 DEF VoteInv, CallsMatch
  <2>3. \A j \in Node \ {i} : election'[j] = election[j]
    BY DEF StartElection, TypeOK
  <2>4. /\ \A m \in voteRequests : m.from \in Node
        /\ \A m \in voteReplies : m.to \in Node
    BY DEF TypeOK, VoteRequest, VoteReply
  <2>5. QED
    BY <1>1, <1>3, <2>1, <2>2, <2>3, <2>4 DEF VoteInv, CallsMatch
<1>9. RolesMatch'
  <2> SUFFICES ASSUME NEW j \in Node
               PROVE  /\ poll'[j].term <= currentTerm'[j]
                      /\ role'[j] # "follower" => poll'[j].term = currentTerm'[j]
                      /\ role'[j] = "leader" => HasQuorum(Cell, poll'[j].votes)
    BY DEF RolesMatch, HasQuorum, Cell, Stable, MajoritySize
  <2>1. CASE j = i
    BY <1>1, <1>2, <2>1
  <2>2. CASE j # i
    BY <1>1, <1>3, <2>2 DEF VoteInv, RolesMatch
  <2>3. QED
    BY <2>1, <2>2
<1>10. QED
  BY <1>5, <1>6, <1>7, <1>8, <1>9 DEF VoteInv

-----------------------------------------------------------------------------
(* Steps that open, drop or end calls *)

LEMMA CallStep ==
  ASSUME TypeOK, TypeOK', VoteStep, VoteInv, RolesFall,
         UNCHANGED poll, voteReplies' \subseteq voteReplies, CallsMatch'
  PROVE  VoteInv'
<1>1. RolesMatch'
  BY RolesKept DEF VoteInv
<1>2. QED
  BY <1>1, VotesKept DEF VoteInv

\* A node whose run loop has no call open is awaited by no message.
LEMMA NoCallNoMessage ==
  ASSUME TypeOK, CallsMatch, NEW i \in Node, election[i] = None \/ election[i].calling = None
  PROVE  /\ \A m \in voteRequests : m.live => m.from # i
         /\ \A m \in voteReplies : m.to # i
<1>1. /\ \A m \in voteRequests : m.to \in Node
      /\ \A m \in voteReplies : m.from \in Node
  BY DEF TypeOK, VoteRequest, VoteReply
<1>2. QED
  BY <1>1, NodeAssumption DEF CallsMatch

\* The calls of the other nodes stay as they are when node i's call ends and
\* no answer to it, and no request of it that is answered, is left.
LEMMA CallEnds ==
  ASSUME TypeOK, CallsMatch, NEW i \in Node,
         \A j \in Node : poll'[j].term = poll[j].term,
         \A j \in Node \ {i} : election'[j] = election[j],
         \A m \in voteRequests' : m.live => m \in voteRequests /\ m.from # i,
         \A m \in voteReplies' : m \in voteReplies /\ m.to # i
  PROVE  CallsMatch'
<1>1. /\ \A m \in voteRequests : m.from \in Node
      /\ \A m \in voteReplies : m.to \in Node
  BY DEF TypeOK, VoteRequest, VoteReply
<1>2. QED
  BY <1>1 DEF CallsMatch

LEMMA RequestVoteVoteInv ==
  ASSUME TypeOK, TypeOK', VoteStep, VoteInv, NEW i \in Node, NEW j \in Node, RequestVote(i, j)
  PROVE  VoteInv'
<1>1. /\ \A m \in voteRequests : m.live => m.from # i
      /\ \A m \in voteReplies : m.to # i
  BY NoCallNoMessage DEF VoteInv, RequestVote
<1> DEFINE q == [from |-> i, to |-> j, term |-> poll[i].term,
                 lastIndex |-> election[i].lastIndex, lastTerm |-> election[i].lastTerm,
                 live |-> TRUE]
<1>2. /\ voteRequests' = voteRequests \cup {q}
      /\ q.from = i /\ q.to = j /\ q.term = poll[i].term
  BY DEF RequestVote
<1> HIDE DEF q
<1>3. election'[i] # None /\ election'[i].calling = j
  <2>1. election \in [Node -> Election \cup {None}] /\ election[i] # None
    BY DEF TypeOK, RequestVote
  <2>2. election[i] \in Election
    BY <2>1
  <2>3. election'[i] = [election[i] EXCEPT !.calling = j, !.todo = @ \ {j}]
    BY <2>1 DEF RequestVote
  <2>4. election'[i].calling = j
    BY <2>2, <2>3 DEF Election
  <2>5. [election[i] EXCEPT !.calling = j, !.todo = @ \ {j}] \in Election
    BY <2>2 DEF Election
  <2>6. QED
    BY <2>3, <2>4, <2>5, NoneAssumption
<1>4. \A k \in Node \ {i} : election'[k] = election[k]
  BY DEF TypeOK, RequestVote
<1>5. UNCHANGED <<poll, voteReplies, role, currentTerm>>
  BY DEF RequestVote, durable
<1>6. CallsMatch'
  <2>1. /\ \A m \in voteRequests : m.from \in Node
        /\ \A m \in voteReplies : m.to \in Node
    BY DEF TypeOK, VoteRequest, VoteReply
  <2>2. CallsMatch
    BY DEF VoteInv
  <2>3. QED
    BY <1>1, <1>2, <1>3, <1>4, <1>5, <2>1, <2>2 DEF CallsMatch
<1>7. RolesFall
  BY <1>5 DEF RolesFall
<1>8. QED
  BY <1>5, <1>6, <1>7, CallStep

LEMMA AbandonVoteVoteInv ==
  ASSUME TypeOK, TypeOK', VoteStep, VoteInv, NEW i \in Node, AbandonVote(i)
  PROVE  VoteInv'
<1>1. UNCHANGED <<poll, role, currentTerm>> /\ voteReplies' = {m \in voteReplies : m.to # i}
  BY DEF AbandonVote, durable
<1>2. \A k \in Node \ {i} : election'[k] = election[k]
  BY DEF TypeOK, AbandonVote
<1>3. \A m \in voteRequests' : m.live => m \in voteRequests /\ m.from # i
  <2> DEFINE mine == {m \in voteRequests : m.from = i /\ m.live}
  <2>1. \A m \in mine : [m EXCEPT !.live = FALSE].live = FALSE
    BY DEF TypeOK, VoteRequest
  <2>2. \/ voteRequests' = voteRequests \ mine
        \/ voteRequests' = (voteRequests \ mine) \cup {[m EXCEPT !.live = FALSE] : m \in mine}
    BY DEF AbandonVote, LostOrOrphaned
  <2>3. QED
    BY <2>1, <2>2
<1>4. CallsMatch'
  BY <1>1, <1>2, <1>3, CallEnds DEF VoteInv
<1>5. RolesFall
  BY <1>1 DEF RolesFall
<1>6. QED
  BY <1>1, <1>4, <1>5, CallStep

\* A crash of node i, whatever handler it happens in.
LEMMA RestartVoteInv ==
  ASSUME TypeOK, TypeOK', VoteStep, VoteInv, NEW i \in Node, Restart(i),
         NEW R \in SUBSET voteRequests, voteRequests' = Orphaned(R, i),
         \A j \in Node \ {i} : currentTerm'[j] = currentTerm[j]
  PROVE  VoteInv'
<1>1. UNCHANGED poll /\ voteReplies' = {m \in voteReplies : m.to # i}
  BY DEF Restart
<1>2. \A k \in Node \ {i} : election'[k] = election[k]
  BY DEF TypeOK, Restart
<1>3. \A m \in voteRequests' : m.live => m \in voteRequests /\ m.from # i
  <2>1. \A m \in R : [m EXCEPT !.live = FALSE].live = FALSE
    BY DEF TypeOK, VoteRequest
  <2>2. QED
    BY <2>1 DEF Orphaned
<1>4. CallsMatch'
  BY <1>1, <1>2, <1>3, CallEnds DEF VoteInv
<1>5. RolesFall
  BY DEF TypeOK, Restart, RolesFall
<1>6. QED
  BY <1>1, <1>4, <1>5, CallStep

LEMMA CrashesVoteInv ==
  ASSUME TypeOK, TypeOK', VoteStep, VoteInv,
         \/ \E i \in Node : Crash(i)
         \/ \E m \in voteRequests : CrashInVote(m)
         \/ \E m \in appendRequests : CrashInAppend(m)
  PROVE  VoteInv'
<1>1. ASSUME NEW i \in Node, Crash(i) PROVE VoteInv'
  BY <1>1, RestartVoteInv DEF Crash, durable
<1>2. ASSUME NEW m \in voteRequests, CrashInVote(m) PROVE VoteInv'
  <2>1. m.to \in Node
    BY DEF TypeOK, VoteRequest
  <2>2. \A j \in Node \ {m.to} : currentTerm'[j] = currentTerm[j]
    BY <1>2 DEF TypeOK, CrashInVote
  <2>3. QED
    BY <1>2, <2>1, <2>2, RestartVoteInv DEF CrashInVote
<1>3. ASSUME NEW m \in appendRequests, CrashInAppend(m) PROVE VoteInv'
  <2>1. m.to \in Node
    BY DEF TypeOK, AppendRequest
  <2>2. \A j \in Node \ {m.to} : currentTerm'[j] = currentTerm[j]
    BY <1>3 DEF TypeOK, CrashInAppend
  <2>3. QED
    BY <1>3, <2>1, <2>2, RestartVoteInv DEF CrashInAppend
<1>4. QED
  BY <1>1, <1>2, <1>3

-----------------------------------------------------------------------------
(* Steps that grant and count votes *)

LEMMA HandleRequestVoteVoteInv ==
  ASSUME TypeOK, TypeOK', VoteStep, VoteInv, NEW m \in voteRequests, HandleRequestVote(m)
  PROVE  VoteInv'
<1> DEFINE j == m.to
           c == m.from
<1>1. j \in Node /\ c \in Node /\ m.term \in Nat /\ currentTerm[j] \in Nat
  BY DEF TypeOK, VoteRequest
<1>2. UNCHANGED <<poll, election>> /\ voteRequests' = voteRequests \ {m}
  BY DEF HandleRequestVote
<1>3. RolesFall
  BY <1>1 DEF TypeOK, HandleRequestVote, RolesFall
<1>4. PICK g \in BOOLEAN :
        /\ m.live => voteReplies' = voteReplies \cup
             {[from |-> j, to |-> c, term |-> currentTerm'[j], granted |-> g]}
        /\ ~m.live => voteReplies' = voteReplies
        /\ g => /\ m.term >= currentTerm[j]
                /\ currentTerm' = [currentTerm EXCEPT ![j] =
                     IF m.term > currentTerm[j] THEN m.term ELSE currentTerm[j]]
                /\ votedFor' = [votedFor EXCEPT ![j] = c]
  BY DEF HandleRequestVote
<1>5. g => currentTerm'[j] = m.term /\ votedFor'[j] = c
  <2>1. DOMAIN currentTerm = Node /\ DOMAIN votedFor = Node
    BY DEF TypeOK
  <2> HIDE DEF j, c
  <2>2. QED
    BY <1>1, <1>4, <2>1
<1>6. (CountedVotesCast /\ CountedVotesDisjoint)'
  BY <1>2, CountedKept
<1>7. RolesMatch'
  BY <1>2, <1>3, RolesKept DEF VoteInv
<1>8. CASE ~m.live
  <2>1. CallsMatch'
    BY <1>2, <1>4, <1>8 DEF VoteInv, CallsMatch
  <2>2. QED
    BY <1>2, <1>3, <1>4, <1>8, <2>1, CallStep
<1>9. CASE m.live
  <2> DEFINE r == [from |-> j, to |-> c, term |-> currentTerm'[j], granted |-> g]
  <2>1. /\ voteReplies' = voteReplies \cup {r}
        /\ r.from = j /\ r.to = c /\ r.term = currentTerm'[j] /\ r.granted = g
    BY <1>4, <1>9
  <2> HIDE DEF r
  <2>2. /\ election[c] # None /\ election[c].calling = j /\ m.term = poll[c].term
        /\ \A n \in voteRequests : n.live /\ n.from = c => n = m
        /\ \A n \in voteReplies : n.to # c
    BY <1>9 DEF VoteInv, CallsMatch
  <2>3. CallsMatch'
    <3>1. CallsMatch
      BY DEF VoteInv
    <3>2. QED
      BY <1>1, <1>2, <2>1, <2>2, <3>1 DEF CallsMatch
  <2>4. ASSUME NEW n \in voteReplies, n.granted
        PROVE  /\ n.from \in Node /\ n.to \in Node /\ n.term \in Nat
               /\ n.term = poll[n.to].term
               /\ Cast(n.from, n.term, n.to)'
               /\ \A k \in Node : n.from \in poll[k].votes /\ poll[k].term = n.term => k = n.to
               /\ \A o \in voteReplies :
                    o.granted /\ o.from = n.from /\ o.term = n.term => o.to = n.to
    <3>1. n.from \in Node /\ n.to \in Node /\ n.term \in Nat
      BY DEF TypeOK, VoteReply
    <3>2. Cast(n.from, n.term, n.to)
      BY <2>4 DEF VoteInv, GrantsGood
    <3>3. QED
      BY <2>4, <3>1, <3>2, CastStable DEF VoteInv, GrantsGood
  <2>5. \A n \in voteReplies :
          n.granted /\ n.from = j /\ g /\ n.term = m.term => n.to = c
    BY <1>5, <2>4 DEF Cast
  <2>6. ASSUME NEW k \in Node, g, j \in poll[k].votes, poll[k].term = m.term PROVE k = c
    <3>1. Cast(j, poll[k].term, k)'
      BY <1>2, <1>6, <2>6 DEF CountedVotesCast
    <3>2. QED
      BY <1>2, <1>5, <2>6, <3>1 DEF Cast
  <2>7. g => Cast(j, m.term, c)'
    BY <1>1, <1>5 DEF Cast
  <2>8. GrantsGood'
    <3>1. SUFFICES ASSUME NEW n \in voteReplies \cup {r}, n.granted
          PROVE  /\ n.term = poll[n.to].term
                 /\ Cast(n.from, n.term, n.to)'
                 /\ \A k \in Node : n.from \in poll[k].votes /\ poll[k].term = n.term => k = n.to
                 /\ \A o \in voteReplies \cup {r} :
                      o.granted /\ o.from = n.from /\ o.term = n.term => o.to = n.to
      BY <1>2, <2>1 DEF GrantsGood
    <3>2. CASE n \in voteReplies
      BY <1>5, <2>1, <2>4, <2>5, <3>1, <3>2
    <3>3. CASE n = r
      <4>1. g /\ n.from = j /\ n.to = c /\ n.term = m.term
        BY <1>5, <2>1, <3>1, <3>3
      <4>2. Cast(n.from, n.term, n.to)'
        BY <2>7, <4>1 DEF Cast
      <4>3. QED
        BY <1>5, <2>1, <2>2, <2>5, <2>6, <4>1, <4>2
    <3>4. QED
      BY <3>1, <3>2, <3>3
  <2>9. QED
    BY <1>6, <1>7, <2>3, <2>8 DEF VoteInv
<1>10. QED
  BY <1>8, <1>9

LEMMA HandleVoteReplyVoteInv ==
  ASSUME TypeOK, TypeOK', VoteStep, VoteInv, NEW m \in voteReplies, HandleVoteReply(m)
  PROVE  VoteInv'
<1> DEFINE i == m.to
           v == m.from
<1>1. i \in Node /\ v \in Node /\ m.term \in Nat /\ poll[i] \in Poll
  BY DEF TypeOK, VoteReply
<1>2. UNCHANGED voteRequests /\ voteReplies' = voteReplies \ {m}
  BY DEF HandleVoteReply
<1>3. \A k \in Node \ {i} : election'[k] = election[k]
  BY DEF TypeOK, HandleVoteReply
<1>4. /\ \A n \in voteRequests' : n.live => n \in voteRequests /\ n.from # i
      /\ \A n \in voteReplies' : n \in voteReplies /\ n.to # i
  BY <1>2 DEF VoteInv, CallsMatch
<1>5. CASE UNCHANGED poll
  <2>1. CallsMatch'
    BY <1>1, <1>3, <1>4, <1>5, CallEnds DEF VoteInv
  <2>2. RolesFall
    BY <1>1 DEF TypeOK, HandleVoteReply, StepDown, RolesFall
  <2>3. QED
    BY <1>2, <1>5, <2>1, <2>2, CallStep
<1>6. CASE poll' # poll
  <2>1. /\ UNCHANGED <<currentTerm, votedFor, role>> /\ role[i] = "candidate"
        /\ m.granted /\ poll' = [poll EXCEPT ![i].votes = @ \cup {v}]
    <3>1. poll \in [Node -> Poll]
      BY DEF TypeOK
    <3>2. [poll EXCEPT ![i].votes = @] = poll
      BY <1>1, <3>1 DEF Poll
    <3>3. QED
      BY <1>6, <3>2 DEF HandleVoteReply
  <2>2. /\ poll'[i].term = poll[i].term /\ poll'[i].votes = poll[i].votes \cup {v}
        /\ \A k \in Node \ {i} : poll'[k] = poll[k]
    <3>1. poll \in [Node -> Poll]
      BY DEF TypeOK
    <3>2. poll'[i] = [poll[i] EXCEPT !.votes = @ \cup {v}]
      BY <1>1, <2>1, <3>1
    <3>3. poll'[i].term = poll[i].term /\ poll'[i].votes = poll[i].votes \cup {v}
      BY <1>1, <3>2 DEF Poll
    <3> HIDE DEF i, v
    <3>4. QED
      BY <2>1, <3>1, <3>3
  <2>3. /\ m.term = poll[i].term
        /\ Cast(v, m.term, i)
        /\ \A k \in Node : v \in poll[k].votes /\ poll[k].term = m.term => k = i
        /\ \A n \in voteReplies : n.granted /\ n.from = v /\ n.term = m.term => n.to = i
    BY <2>1 DEF VoteInv, GrantsGood
  <2> HIDE DEF i, v
  <2>4. \A k \in Node : poll'[k].term = poll[k].term
    BY <2>2
  <2>5. CallsMatch'
    BY <1>1, <1>3, <1>4, <2>4, CallEnds DEF VoteInv
  <2>6. CountedVotesCast'
    <3>1. SUFFICES ASSUME NEW k \in Node, NEW w \in poll'[k].votes
                   PROVE  Cast(w, poll[k].term, k)'
      BY DEF CountedVotesCast
    <3>2. Cast(w, poll[k].term, k)
      BY <2>2, <2>3 DEF VoteInv, CountedVotesCast
    <3>3. QED
      BY <2>1, <2>4, <3>2 DEF Cast
  <2>7. CountedVotesDisjoint'
    BY <1>1, <2>2, <2>3, <2>4 DEF VoteInv, CountedVotesDisjoint
  <2>8. GrantsGood'
    <3>1. SUFFICES ASSUME NEW n \in voteReplies, n.granted
          PROVE  /\ n.term = poll'[n.to].term
                 /\ Cast(n.from, n.term, n.to)'
                 /\ \A k \in Node :
                      n.from \in poll'[k].votes /\ poll'[k].term = n.term => k = n.to
                 /\ \A o \in voteReplies :
                      o.granted /\ o.from = n.from /\ o.term = n.term => o.to = n.to
      BY <1>2 DEF GrantsGood
    <3>2. n.to \in Node
      BY DEF TypeOK, VoteReply
    <3>3. /\ n.term = poll[n.to].term
          /\ Cast(n.from, n.term, n.to)
          /\ \A k \in Node : n.from \in poll[k].votes /\ poll[k].term = n.term => k = n.to
          /\ \A o \in voteReplies :
               o.granted /\ o.from = n.from /\ o.term = n.term => o.to = n.to
      BY <3>1 DEF VoteInv, GrantsGood
    <3>4. Cast(n.from, n.term, n.to)'
      BY <2>1, <3>3 DEF Cast
    <3>5. ASSUME NEW k \in Node, n.from \in poll'[k].votes, poll'[k].term = n.term
          PROVE  k = n.to
      <4>1. CASE n.from \in poll[k].votes
        BY <2>4, <3>3, <3>5, <4>1
      <4>2. CASE k = i /\ n.from = v
        BY <2>3, <2>4, <3>1, <3>5, <4>2
      <4>3. QED
        BY <2>2, <3>5, <4>1, <4>2
    <3>6. QED
      BY <2>4, <3>2, <3>3, <3>4, <3>5
  <2>9. RolesMatch'
    <3>1. SUFFICES ASSUME NEW k \in Node
                   PROVE  /\ poll'[k].term <= currentTerm[k]
                          /\ role[k] # "follower" => poll'[k].term = currentTerm[k]
                          /\ role[k] = "leader" => HasQuorum(Cell, poll'[k].votes)
      BY <2>1 DEF RolesMatch, HasQuorum, Cell, Stable, MajoritySize
    <3>2. QED
      BY <2>1, <2>2, <2>4 DEF VoteInv, RolesMatch
  <2>10. QED
    BY <2>5, <2>6, <2>7, <2>8, <2>9 DEF VoteInv
<1>7. QED
  BY <1>5, <1>6

LEMMA FinishElectionVoteInv ==
  ASSUME TypeOK, TypeOK', VoteStep, VoteInv, NEW i \in Node, FinishElection(i)
  PROVE  VoteInv'
<1>1. /\ UNCHANGED <<poll, currentTerm, voteRequests, voteReplies>>
      /\ election[i] # None /\ election[i].calling = None
  BY DEF FinishElection, durable
<1>2. \A k \in Node \ {i} : election'[k] = election[k]
  BY DEF TypeOK, FinishElection
<1>3. CallsMatch'
  <2>1. CallsMatch
    BY DEF VoteInv
  <2>2. QED
    BY <1>1, <1>2, <2>1, NoCallNoMessage, CallEnds
<1>4. RolesMatch'
  <2>1. SUFFICES ASSUME NEW k \in Node
                 PROVE  /\ poll[k].term <= currentTerm[k]
                        /\ role'[k] # "follower" => poll[k].term = currentTerm[k]
                        /\ role'[k] = "leader" => HasQuorum(Cell, poll[k].votes)
    BY <1>1 DEF RolesMatch, HasQuorum, Cell, Stable, MajoritySize
  <2>2. CASE k = i /\ Elected(i)
    BY <2>2 DEF VoteInv, RolesMatch, Elected
  <2>3. CASE k # i \/ ~Elected(i)
    <3>1. role'[k] = role[k]
      BY <2>3 DEF TypeOK, FinishElection
    <3>2. QED
      BY <3>1 DEF VoteInv, RolesMatch
  <2>4. QED
    BY <2>2, <2>3
<1>5. QED
  BY <1>1, <1>3, <1>4, VotesKept DEF VoteInv

-----------------------------------------------------------------------------
(* Every step, and the theorem *)

LEMMA NextVoteInv == TypeOK /\ TypeOK' /\ VoteInv /\ [Next]_vars => VoteInv'
<1> SUFFICES ASSUME TypeOK, TypeOK', VoteInv, [Next]_vars PROVE VoteInv'
  OBVIOUS
<1>1. VoteStep
  BY NextVoteStep
<1>2. CASE \E i \in Node : StartElection(i) \/ AbandonVote(i) \/ FinishElection(i)
  BY <1>1, <1>2, StartElectionVoteInv, AbandonVoteVoteInv, FinishElectionVoteInv
<1>3. CASE \/ \E i \in Node : Crash(i)
           \/ \E m \in voteRequests : CrashInVote(m)
           \/ \E m \in appendRequests : CrashInAppend(m)
  BY <1>1, <1>3, CrashesVoteInv
<1>4. CASE \E i, j \in Node : RequestVote(i, j)
  BY <1>1, <1>4, RequestVoteVoteInv
<1>5. CASE \E m \in voteRequests : HandleRequestVote(m)
  BY <1>1, <1>5, HandleRequestVoteVoteInv
<1>6. CASE \E m \in voteReplies : HandleVoteReply(m)
  BY <1>1, <1>6, HandleVoteReplyVoteInv
<1>7. CASE \E m \in appendRequests : HandleAppendEntries(m)
  <2>1. PICK m \in appendRequests : HandleAppendEntries(m)
    BY <1>7
  <2>2. m.to \in Node /\ m.term \in Nat /\ currentTerm[m.to] \in Nat
    BY DEF TypeOK, AppendRequest
  <2>3. /\ currentTerm' = [currentTerm EXCEPT ![m.to] =
              IF m.term > currentTerm[m.to] THEN m.term ELSE @]
        /\ role' = [role EXCEPT ![m.to] = IF m.term >= currentTerm[m.to] THEN "follower" ELSE @]
    BY <2>1 DEF HandleAppendEntries
  <2>4. DOMAIN currentTerm = Node /\ DOMAIN role = Node
    BY DEF TypeOK
  <2>5. RolesFall
    BY <2>2, <2>3, <2>4 DEF RolesFall
  <2>6. QED
    BY <1>1, <2>1, <2>5, QuietStep DEF HandleAppendEntries, voting
<1>8. CASE \E m \in appendReplies : HandleAppendReply(m)
  <2>1. PICK m \in appendReplies : HandleAppendReply(m)
    BY <1>8
  <2>2. m.to \in Node
    BY DEF TypeOK, AppendReply
  <2>3. \/ UNCHANGED <<currentTerm, role>>
        \/ /\ currentTerm' = [currentTerm EXCEPT ![m.to] = m.term]
           /\ role' = [role EXCEPT ![m.to] = "follower"]
    BY <2>1 DEF HandleAppendReply, StepDown
  <2>4. RolesFall
    BY <2>2, <2>3 DEF TypeOK, RolesFall
  <2>5. QED
    BY <1>1, <2>1, <2>4, QuietStep DEF HandleAppendReply, voting
<1>9. CASE UNCHANGED <<currentTerm, role, voting>>
  <2>1. RolesFall
    BY <1>9 DEF RolesFall
  <2>2. QED
    BY <1>1, <1>9, <2>1, QuietStep DEF voting
<1>10. CASE \E i \in Node, s \in Slot :
              \/ StartRound(i, s) \/ AbandonAppend(i, s) \/ FinishRound(i, s)
              \/ \E j \in Node : AppendEntries(i, s, j)
  <2>1. ASSUME NEW i, NEW s, StartRound(i, s) \/ AbandonAppend(i, s) \/ FinishRound(i, s)
        PROVE  UNCHANGED <<currentTerm, role, voting>>
    BY <2>1 DEF StartRound, AbandonAppend, FinishRound, durable
  <2>2. ASSUME NEW i, NEW s, NEW j, AppendEntries(i, s, j)
        PROVE  UNCHANGED <<currentTerm, role, voting>>
    BY <2>2 DEF AppendEntries, durable
  <2>3. UNCHANGED <<currentTerm, role, voting>>
    BY <1>10, <2>1, <2>2
  <2>4. QED
    BY <1>9, <2>3
<1>11. CASE \E i \in Node, c \in Command : Propose(i, c)
  BY <1>9, <1>11 DEF Propose
<1>12. CASE \E i \in Node, p \in Proposer :
              \/ \E c \in Command : ProposeAndWait(i, p, c)
              \/ AnswerTrue(i, p) \/ AnswerFalse(i, p)
  <2>1. UNCHANGED <<currentTerm, role, voting>>
    BY <1>12 DEF ProposeAndWait, AnswerTrue, AnswerFalse, durable
  <2>2. QED
    BY <1>9, <2>1
<1>13. CASE UNCHANGED vars
  BY <1>9, <1>13 DEF vars, durable
<1>14. QED
  BY <1>2, <1>3, <1>4, <1>5, <1>6, <1>7, <1>8, <1>10, <1>11, <1>12, <1>13 DEF Next

LEMMA VoteInvariant == Spec => []VoteInv
BY InitVoteInv, NextVoteInv, TypeCorrect, PTL DEF Spec

LEMMA OneLeader == TypeOK /\ VoteInv => ElectionSafety
<1> SUFFICES ASSUME TypeOK, VoteInv, NEW i \in Node, NEW j \in Node,
                    role[i] = "leader", role[j] = "leader", currentTerm[i] = currentTerm[j]
             PROVE  i = j
  BY DEF ElectionSafety
<1>1. poll[i].term = poll[j].term
  BY DEF VoteInv, RolesMatch
<1>2. HasQuorum(Cell, poll[i].votes) /\ HasQuorum(Cell, poll[j].votes)
  BY DEF VoteInv, RolesMatch
<1>3. Cell.voters = Node /\ IsFiniteSet(Cell.voters)
  BY NodeAssumption DEF Cell, Stable
<1>4. poll[i].votes \cap poll[j].votes # {}
  BY <1>2, <1>3, QuorumsIntersect
<1>5. QED
  BY <1>1, <1>4 DEF VoteInv, CountedVotesDisjoint

\* In a cell of any size, however elections, timeouts, late requests and
\* crashes interleave, no two nodes are leader of the same term.
THEOREM ElectionSafe == Spec => []ElectionSafety
BY VoteInvariant, TypeCorrect, OneLeader, PTL
=============================================================================
