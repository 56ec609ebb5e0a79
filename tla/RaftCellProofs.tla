--------------------------- MODULE RaftCellProofs ---------------------------
(***************************************************************************)
(* Type correctness and election safety of RaftCell, for any number of     *)
(* voters, threads, terms, commands, crashes and calls in flight.          *)
(***************************************************************************)
EXTENDS RaftCell, VoterConfigurationProofs, SequenceTheorems

-----------------------------------------------------------------------------
(* What the helpers return *)

LEMMA TermAtType ==
  ASSUME NEW l \in Seq(Entry), NEW n \in Int
  PROVE  TermAt(l, n) \in Nat
<1>1. CASE n \in 1 .. Len(l)
  <2>1. l[n] \in Entry
    BY <1>1
  <2>2. QED
    BY <2>1 DEF TermAt, Entry
<1>2. CASE n \notin 1 .. Len(l)
  BY <1>2 DEF TermAt
<1>3. QED
  BY <1>1, <1>2

LEMMA LastTermType ==
  ASSUME NEW l \in Seq(Entry)
  PROVE  LastTerm(l) \in Nat
BY TermAtType DEF LastTerm

LEMMA MergeType ==
  ASSUME NEW l \in Seq(Entry), NEW es \in Seq(Entry), NEW p \in Nat, p <= Len(l)
  PROVE  Merge(l, p, es) \in Seq(Entry)
<1> DEFINE last     == p + Len(es)
           holds(n) == \A k \in p + 1 .. n : k <= Len(l) /\ l[k].term = es[k - p].term
           e(n)     == IF holds(n) THEN l[n] ELSE es[n - p]
<1>1. CASE holds(last)
  BY <1>1 DEF Merge
<1>2. CASE ~holds(last)
  <2>1. \A n \in 1 .. last : e(n) \in Entry
    <3>1. SUFFICES ASSUME NEW n \in 1 .. last PROVE e(n) \in Entry
      OBVIOUS
    <3>2. CASE n <= p
      <4>1. holds(n)
        BY <3>2
      <4>2. QED
        BY <4>1, <3>2
    <3>3. CASE n > p /\ holds(n)
      <4>1. n <= Len(l)
        BY <3>3
      <4>2. QED
        BY <4>1, <3>3
    <3>4. CASE n > p /\ ~holds(n)
      <4>1. n - p \in 1 .. Len(es)
        BY <3>4
      <4>2. QED
        BY <4>1, <3>4
    <3>5. QED
      BY <3>2, <3>3, <3>4
  <2>2. [n \in 1 .. last |-> e(n)] \in Seq(Entry)
    <3> HIDE DEF e
    <3>1. last \in Nat
      OBVIOUS
    <3>2. QED
      BY <2>1, <3>1
  <2>3. Merge(l, p, es) = [n \in 1 .. last |-> e(n)]
    BY <1>2 DEF Merge
  <2>4. QED
    BY <2>2, <2>3
<1>3. QED
  BY <1>1, <1>2

LEMMA PrevMatchesBound ==
  ASSUME NEW l \in Seq(Entry), NEW p \in Nat, NEW t, PrevMatches(l, p, t)
  PROVE  p <= Len(l)
BY DEF PrevMatches

LEMMA NewCommitType ==
  ASSUME NEW c \in Nat, NEW d \in Nat, NEW l \in Seq(Entry)
  PROVE  NewCommit(c, d, l) \in Nat
BY DEF NewCommit, Min

LEMMA BackOffType ==
  ASSUME NEW n \in Nat \ {0}
  PROVE  BackOff(n) \in Nat \ {0}
BY DEF BackOff, Max

LEMMA NestedUpdate ==
  ASSUME NEW A, NEW B, NEW S, NEW f \in [A -> [B -> S]], NEW a \in A, NEW b \in B, NEW v \in S
  PROVE  [f EXCEPT ![a][b] = v] \in [A -> [B -> S]]
OBVIOUS

-----------------------------------------------------------------------------
(* Type correctness *)

LEMMA InitTypeOK == Init => TypeOK
<1> SUFFICES ASSUME Init PROVE TypeOK
  OBVIOUS
<1> USE DEF Init
<1>1. log \in [Node -> Seq(Entry)]
  OBVIOUS
<1>2. role \in [Node -> Role]
  BY DEF Role
<1>3. /\ nextIndex \in [Node -> [Node -> Nat \ {0}]]
      /\ matchIndex \in [Node -> [Node -> Nat]]
  OBVIOUS
<1>4. poll \in [Node -> Poll]
  BY DEF Poll
<1>5. /\ round \in [Node -> [Slot -> Round \cup {None}]]
      /\ waiting \in [Node -> [Proposer -> Wait \cup {None}]]
  OBVIOUS
<1>6. QED
  BY <1>1, <1>2, <1>3, <1>4, <1>5 DEF TypeOK

LEMMA RestartType ==
  ASSUME TypeOK, NEW i \in Node, Restart(i)
  PROVE  /\ role' \in [Node -> Role]
         /\ nextIndex' \in [Node -> [Node -> Nat \ {0}]]
         /\ matchIndex' \in [Node -> [Node -> Nat]]
         /\ election' \in [Node -> Election \cup {None}]
         /\ round' \in [Node -> [Slot -> Round \cup {None}]]
         /\ waiting' \in [Node -> [Proposer -> Wait \cup {None}]]
         /\ voteReplies' \subseteq VoteReply
         /\ appendReplies' \subseteq AppendReply
         /\ crashes' \in Nat
         /\ UNCHANGED <<poll, acked>>
<1> USE DEF Restart, TypeOK
<1>1. role' \in [Node -> Role]
  BY DEF Role
<1>2. nextIndex' \in [Node -> [Node -> Nat \ {0}]]
  OBVIOUS
<1>3. round' \in [Node -> [Slot -> Round \cup {None}]]
  OBVIOUS
<1>4. waiting' \in [Node -> [Proposer -> Wait \cup {None}]]
  OBVIOUS
<1>5. matchIndex' \in [Node -> [Node -> Nat]]
  OBVIOUS
<1>6. election' \in [Node -> Election \cup {None}]
  OBVIOUS
<1>7. voteReplies' \subseteq VoteReply /\ appendReplies' \subseteq AppendReply
  OBVIOUS
<1>8. crashes' \in Nat /\ UNCHANGED <<poll, acked>>
  OBVIOUS
<1>9. QED
  BY <1>1, <1>2, <1>3, <1>4, <1>5, <1>6, <1>7, <1>8

LEMMA OrphanedVoteType ==
  ASSUME TypeOK, NEW i \in Node, NEW R \in SUBSET voteRequests
  PROVE  Orphaned(R, i) \subseteq VoteRequest
<1>1. ASSUME NEW m \in R
      PROVE  m \in VoteRequest /\ [m EXCEPT !.live = FALSE] \in VoteRequest
  <2>1. m \in VoteRequest
    BY DEF TypeOK
  <2>2. QED
    BY <2>1 DEF VoteRequest
<1>2. QED
  BY <1>1 DEF Orphaned

LEMMA OrphanedAppendType ==
  ASSUME TypeOK, NEW i \in Node, NEW R \in SUBSET appendRequests
  PROVE  Orphaned(R, i) \subseteq AppendRequest
<1>1. ASSUME NEW m \in R
      PROVE  m \in AppendRequest /\ [m EXCEPT !.live = FALSE] \in AppendRequest
  <2>1. m \in AppendRequest
    BY DEF TypeOK
  <2>2. QED
    BY <2>1 DEF AppendRequest
<1>2. QED
  BY <1>1 DEF Orphaned

LEMMA StartElectionType ==
  ASSUME TypeOK, NEW i \in Node, StartElection(i)
  PROVE  TypeOK'
<1> USE DEF StartElection, TypeOK
<1>1. LastTerm(log[i]) \in Nat /\ Len(log[i]) \in Nat
  BY LastTermType
<1>2. PeerIds(Cell, i) \subseteq Node
  BY DEF PeerIds, Cell, Stable, AllVoters
<1>3. election' \in [Node -> Election \cup {None}]
  <2>1. [lastIndex |-> Len(log[i]), lastTerm |-> LastTerm(log[i]),
         todo |-> PeerIds(Cell, i), calling |-> None] \in Election
    BY <1>1, <1>2 DEF Election
  <2>2. QED
    BY <2>1
<1>4. poll' \in [Node -> Poll]
  <2>1. [term |-> currentTerm[i] + 1, votes |-> {i}] \in Poll
    BY DEF Poll
  <2>2. QED
    BY <2>1
<1>5. /\ currentTerm' \in [Node -> Nat]
      /\ votedFor' \in [Node -> Node \cup {None}]
      /\ role' \in [Node -> Role]
  BY DEF Role
<1>6. QED
  BY <1>3, <1>4, <1>5 DEF leading, appending, proposing

LEMMA RequestVoteType ==
  ASSUME TypeOK, NEW i \in Node, NEW j \in Node, RequestVote(i, j)
  PROVE  TypeOK'
<1> USE DEF RequestVote, TypeOK
<1>1. election[i] \in Election
  OBVIOUS
<1>2. election' \in [Node -> Election \cup {None}]
  <2>1. [election[i] EXCEPT !.calling = j, !.todo = election[i].todo \ {j}] \in Election
    BY <1>1 DEF Election
  <2>2. QED
    BY <2>1
<1>3. voteRequests' \subseteq VoteRequest
  <2>1. [from |-> i, to |-> j, term |-> poll[i].term, lastIndex |-> election[i].lastIndex,
         lastTerm |-> election[i].lastTerm, live |-> TRUE] \in VoteRequest
    BY <1>1 DEF VoteRequest, Election, Poll
  <2>2. QED
    BY <2>1
<1>4. QED
  BY <1>2, <1>3 DEF durable, leading, appending, proposing

LEMMA HandleRequestVoteType ==
  ASSUME TypeOK, NEW m \in voteRequests, HandleRequestVote(m)
  PROVE  TypeOK'
<1> USE DEF TypeOK
<1>1. m.from \in Node /\ m.to \in Node /\ m.term \in Nat
  BY DEF VoteRequest
<1>2. /\ currentTerm' \in [Node -> Nat]
      /\ votedFor' \in [Node -> Node \cup {None}]
  BY <1>1 DEF HandleRequestVote
<1>3. role' \in [Node -> Role]
  BY <1>1 DEF HandleRequestVote, Role
<1>4. voteRequests' \subseteq VoteRequest
  BY DEF HandleRequestVote
<1>5. voteReplies' \subseteq VoteReply
  <2>1. PICK g \in BOOLEAN : voteReplies' \subseteq voteReplies \cup
          {[from |-> m.to, to |-> m.from, term |-> currentTerm'[m.to], granted |-> g]}
    BY DEF HandleRequestVote
  <2>2. [from |-> m.to, to |-> m.from, term |-> currentTerm'[m.to], granted |-> g] \in VoteReply
    BY <1>1, <1>2 DEF VoteReply
  <2>3. QED
    BY <2>1, <2>2
<1>6. UNCHANGED <<log, commitIndex, nextIndex, matchIndex, poll, election, round,
                  appendRequests, appendReplies, waiting, acked, crashes>>
  BY DEF HandleRequestVote, leading, appending, proposing
<1>7. QED
  BY <1>2, <1>3, <1>4, <1>5, <1>6

LEMMA StepDownType ==
  ASSUME TypeOK, NEW i \in Node, NEW t \in Nat, StepDown(i, t)
  PROVE  /\ currentTerm' \in [Node -> Nat]
         /\ votedFor' \in [Node -> Node \cup {None}]
         /\ role' \in [Node -> Role]
BY DEF TypeOK, StepDown, Role

LEMMA HandleVoteReplyType ==
  ASSUME TypeOK, NEW m \in voteReplies, HandleVoteReply(m)
  PROVE  TypeOK'
<1> USE DEF TypeOK
<1>1. m.from \in Node /\ m.to \in Node /\ m.term \in Nat
  BY DEF VoteReply
<1>2. election[m.to] \in Election
  BY <1>1 DEF HandleVoteReply
<1>3. /\ currentTerm' \in [Node -> Nat]
      /\ votedFor' \in [Node -> Node \cup {None}]
      /\ role' \in [Node -> Role]
  BY <1>1, StepDownType DEF HandleVoteReply
<1>4. election' \in [Node -> Election \cup {None}]
  <2>1. [election[m.to] EXCEPT !.calling = None] \in Election
    BY <1>2 DEF Election
  <2>2. QED
    BY <1>1, <2>1 DEF HandleVoteReply
<1>5. poll' \in [Node -> Poll]
  <2>1. poll[m.to] \in Poll
    BY <1>1
  <2>2. /\ [poll[m.to] EXCEPT !.votes = poll[m.to].votes \cup {m.from}] \in Poll
        /\ [poll[m.to] EXCEPT !.votes = poll[m.to].votes] \in Poll
    BY <1>1, <2>1 DEF Poll
  <2>3. QED
    BY <1>1, <2>2 DEF HandleVoteReply
<1>6. voteReplies' \subseteq VoteReply
  BY DEF HandleVoteReply
<1>7. UNCHANGED <<log, commitIndex, nextIndex, matchIndex, voteRequests, round,
                  appendRequests, appendReplies, waiting, acked, crashes>>
  BY DEF HandleVoteReply, leading, appending, proposing
<1>8. QED
  BY <1>3, <1>4, <1>5, <1>6, <1>7

LEMMA AbandonVoteType ==
  ASSUME TypeOK, NEW i \in Node, AbandonVote(i)
  PROVE  TypeOK'
<1> USE DEF TypeOK
<1>1. election' \in [Node -> Election \cup {None}]
  <2>1. election[i] \in Election
    BY DEF AbandonVote
  <2>2. [election[i] EXCEPT !.calling = None] \in Election
    BY <2>1 DEF Election
  <2>3. QED
    BY <2>2 DEF AbandonVote
<1>2. voteRequests' \subseteq VoteRequest
  <2>1. \A m \in voteRequests : [m EXCEPT !.live = FALSE] \in VoteRequest
    <3>1. SUFFICES ASSUME NEW m \in voteRequests PROVE [m EXCEPT !.live = FALSE] \in VoteRequest
      OBVIOUS
    <3>2. m \in VoteRequest
      OBVIOUS
    <3>3. QED
      BY <3>2 DEF VoteRequest
  <2>2. QED
    BY <2>1 DEF AbandonVote, LostOrOrphaned
<1>3. voteReplies' \subseteq VoteReply
  BY DEF AbandonVote
<1>4. QED
  BY <1>1, <1>2, <1>3 DEF AbandonVote, durable, leading, appending, proposing

LEMMA FinishElectionType ==
  ASSUME TypeOK, NEW i \in Node, FinishElection(i)
  PROVE  TypeOK'
<1> USE DEF TypeOK, FinishElection, leading
<1>1. election' \in [Node -> Election \cup {None}]
  OBVIOUS
<1>2. role' \in [Node -> Role]
  BY DEF Role
<1>3. /\ nextIndex' \in [Node -> [Node -> Nat \ {0}]]
      /\ matchIndex' \in [Node -> [Node -> Nat]]
  <2>1. FirstNext(log[i]) \in Nat \ {0}
    <3>1. log[i] \in Seq(Entry)
      OBVIOUS
    <3>2. QED
      BY <3>1 DEF FirstNext
  <2>2. /\ [j \in Node |-> FirstNext(log[i])] \in [Node -> Nat \ {0}]
        /\ [j \in Node |-> 0] \in [Node -> Nat]
    BY <2>1
  <2>3. \/ UNCHANGED <<nextIndex, matchIndex>>
        \/ /\ nextIndex' = [nextIndex EXCEPT ![i] = [j \in Node |-> FirstNext(log[i])]]
           /\ matchIndex' = [matchIndex EXCEPT ![i] = [j \in Node |-> 0]]
    OBVIOUS
  <2>4. /\ nextIndex \in [Node -> [Node -> Nat \ {0}]]
        /\ matchIndex \in [Node -> [Node -> Nat]]
    OBVIOUS
  <2> HIDE DEF FinishElection, TypeOK, leading, FirstNext
  <2>5. QED
    BY <2>2, <2>3, <2>4
<1>4. QED
  BY <1>1, <1>2, <1>3 DEF durable, appending, proposing

LEMMA StartRoundType ==
  ASSUME TypeOK, NEW i \in Node, NEW s \in Slot, StartRound(i, s)
  PROVE  TypeOK'
<1> USE DEF TypeOK, StartRound
<1>1. [term |-> currentTerm[i], log |-> log[i], commit |-> commitIndex[i],
       todo |-> PeerIds(Cell, i), calling |-> None] \in Round
  BY DEF Round, PeerIds, Cell, Stable, AllVoters
<1>2. round' \in [Node -> [Slot -> Round \cup {None}]]
  BY <1>1
<1>3. QED
  BY <1>2 DEF durable, leading, voting, proposing

LEMMA AppendEntriesType ==
  ASSUME TypeOK, NEW i \in Node, NEW s \in Slot, NEW j \in Node, AppendEntries(i, s, j)
  PROVE  TypeOK'
<1> USE DEF TypeOK
<1> DEFINE r == round[i][s]
           p == nextIndex[i][j] - 1
<1>1. r \in Round /\ p \in Nat
  BY DEF AppendEntries
<1>2. round' \in [Node -> [Slot -> Round \cup {None}]]
  <2>1. [r EXCEPT !.calling = j, !.todo = r.todo \ {j}] \in Round
    BY <1>1 DEF Round
  <2>2. QED
    BY <2>1 DEF AppendEntries
<1>3. appendRequests' \subseteq AppendRequest
  <2>1. /\ r.term \in Nat /\ r.commit \in Nat
        /\ r.log \in Seq(Entry)
    BY <1>1 DEF Round
  <2>2. TermAt(r.log, p) \in Nat
    <3> HIDE DEF r, p, TypeOK
    <3>1. QED
      BY <1>1, <2>1, TermAtType
  <2>3. SubSeq(r.log, p + 1, Len(r.log)) \in Seq(Entry)
    <3>1. \A k \in p + 1 .. Len(r.log) : r.log[k] \in Entry
      BY <1>1, <2>1
    <3>2. QED
      BY <1>1, <2>1, <3>1, SubSeqProperties
  <2>4. [from |-> i, slot |-> s, to |-> j, term |-> r.term, prevIndex |-> p,
         prevTerm |-> TermAt(r.log, p), entries |-> SubSeq(r.log, p + 1, Len(r.log)),
         commit |-> r.commit, live |-> TRUE] \in AppendRequest
    BY <1>1, <2>1, <2>2, <2>3 DEF AppendRequest
  <2>5. QED
    BY <2>4 DEF AppendEntries
<1>4. QED
  BY <1>2, <1>3 DEF AppendEntries, durable, leading, voting, proposing

LEMMA HandleAppendEntriesType ==
  ASSUME TypeOK, NEW m \in appendRequests, HandleAppendEntries(m)
  PROVE  TypeOK'
<1>1. /\ m.from \in Node /\ m.to \in Node /\ m.slot \in Slot /\ m.term \in Nat
      /\ m.prevIndex \in Nat /\ m.commit \in Nat /\ m.entries \in Seq(Entry)
  BY DEF TypeOK, AppendRequest
<1>2. /\ currentTerm' \in [Node -> Nat]
      /\ votedFor' \in [Node -> Node \cup {None}]
      /\ role' \in [Node -> Role]
  BY <1>1 DEF TypeOK, HandleAppendEntries, Role
<1>3. log' \in [Node -> Seq(Entry)]
  <2>1. log[m.to] \in Seq(Entry)
    BY <1>1 DEF TypeOK
  <2>2. PrevMatches(log[m.to], m.prevIndex, m.prevTerm)
          => Merge(log[m.to], m.prevIndex, m.entries) \in Seq(Entry)
    BY <1>1, <2>1, PrevMatchesBound, MergeType
  <2>3. QED
    BY <1>1, <2>1, <2>2 DEF TypeOK, HandleAppendEntries
<1>4. commitIndex' \in [Node -> Nat]
  <2>1. commitIndex[m.to] \in Nat /\ log'[m.to] \in Seq(Entry)
    BY <1>1, <1>3 DEF TypeOK
  <2>2. NewCommit(commitIndex[m.to], m.commit, log'[m.to]) \in Nat
    BY <1>1, <2>1, NewCommitType
  <2>3. QED
    BY <1>1, <2>2 DEF TypeOK, HandleAppendEntries
<1>5. appendRequests' \subseteq AppendRequest
  BY DEF TypeOK, HandleAppendEntries
<1>6. appendReplies' \subseteq AppendReply
  <2>1. PICK g \in BOOLEAN : appendReplies' \subseteq appendReplies \cup
          {[from |-> m.to, slot |-> m.slot, to |-> m.from, term |-> currentTerm'[m.to],
            success |-> g, match |-> m.prevIndex + Len(m.entries)]}
    BY DEF HandleAppendEntries
  <2>2. [from |-> m.to, slot |-> m.slot, to |-> m.from, term |-> currentTerm'[m.to],
         success |-> g, match |-> m.prevIndex + Len(m.entries)] \in AppendReply
    BY <1>1, <1>2 DEF AppendReply
  <2>3. QED
    BY <2>1, <2>2 DEF TypeOK
<1>7. UNCHANGED <<nextIndex, matchIndex, poll, election, voteRequests, voteReplies, round,
                  waiting, acked, crashes>>
  BY DEF HandleAppendEntries, leading, voting, proposing
<1>8. QED
  BY <1>2, <1>3, <1>4, <1>5, <1>6, <1>7 DEF TypeOK

LEMMA HandleAppendReplyType ==
  ASSUME TypeOK, NEW m \in appendReplies, HandleAppendReply(m)
  PROVE  TypeOK'
<1>1. m.from \in Node /\ m.to \in Node /\ m.slot \in Slot /\ m.term \in Nat /\ m.match \in Nat
  BY DEF TypeOK, AppendReply
<1>2. round[m.to][m.slot] \in Round
  BY <1>1 DEF TypeOK, HandleAppendReply
<1>3. /\ currentTerm' \in [Node -> Nat]
      /\ votedFor' \in [Node -> Node \cup {None}]
      /\ role' \in [Node -> Role]
  BY <1>1, StepDownType DEF TypeOK, HandleAppendReply
<1>4. round' \in [Node -> [Slot -> Round \cup {None}]]
  <2>1. [round[m.to][m.slot] EXCEPT !.calling = None] \in Round
    BY <1>2 DEF Round
  <2>2. \/ round' = [round EXCEPT ![m.to][m.slot] = None]
        \/ round' = [round EXCEPT ![m.to][m.slot] = [round[m.to][m.slot] EXCEPT !.calling = None]]
    BY DEF HandleAppendReply
  <2>3. round \in [Node -> [Slot -> Round \cup {None}]]
    BY DEF TypeOK
  <2>4. CASE round' = [round EXCEPT ![m.to][m.slot] = None]
    BY <1>1, <2>3, <2>4
  <2>5. CASE round' =
               [round EXCEPT ![m.to][m.slot] = [round[m.to][m.slot] EXCEPT !.calling = None]]
    BY <1>1, <2>1, <2>3, <2>5, NestedUpdate
  <2>6. QED
    BY <2>2, <2>4, <2>5
<1>5. nextIndex' \in [Node -> [Node -> Nat \ {0}]]
  <2>1. nextIndex[m.to][m.from] \in Nat \ {0}
    BY <1>1 DEF TypeOK
  <2>2. BackOff(nextIndex[m.to][m.from]) \in Nat \ {0} /\ m.match + 1 \in Nat \ {0}
    BY <1>1, <2>1, BackOffType
  <2>3. \/ nextIndex' = nextIndex
        \/ nextIndex' = [nextIndex EXCEPT ![m.to][m.from] = m.match + 1]
        \/ nextIndex' =
             [nextIndex EXCEPT ![m.to][m.from] = BackOff(nextIndex[m.to][m.from])]
    BY DEF HandleAppendReply, leading
  <2>4. nextIndex \in [Node -> [Node -> Nat \ {0}]]
    BY DEF TypeOK
  <2>5. CASE nextIndex' = [nextIndex EXCEPT ![m.to][m.from] = m.match + 1]
    BY <1>1, <2>2, <2>4, <2>5, NestedUpdate
  <2>6. CASE nextIndex' =
               [nextIndex EXCEPT ![m.to][m.from] = BackOff(nextIndex[m.to][m.from])]
    BY <1>1, <2>2, <2>4, <2>6, NestedUpdate
  <2>7. QED
    BY <2>3, <2>4, <2>5, <2>6
<1>6. matchIndex' \in [Node -> [Node -> Nat]]
  <2>1. \/ matchIndex' = matchIndex
        \/ matchIndex' = [matchIndex EXCEPT ![m.to][m.from] = m.match]
    BY DEF HandleAppendReply, leading
  <2>2. matchIndex \in [Node -> [Node -> Nat]]
    BY DEF TypeOK
  <2>3. CASE matchIndex' = [matchIndex EXCEPT ![m.to][m.from] = m.match]
    BY <1>1, <2>2, <2>3, NestedUpdate
  <2>4. QED
    BY <2>1, <2>2, <2>3
<1>7. appendReplies' \subseteq AppendReply
  BY DEF TypeOK, HandleAppendReply
<1>8. UNCHANGED <<log, commitIndex, poll, election, voteRequests, voteReplies,
                  appendRequests, waiting, acked, crashes>>
  BY DEF HandleAppendReply, voting, proposing
<1>9. QED
  BY <1>3, <1>4, <1>5, <1>6, <1>7, <1>8 DEF TypeOK

LEMMA AbandonAppendType ==
  ASSUME TypeOK, NEW i \in Node, NEW s \in Slot, AbandonAppend(i, s)
  PROVE  TypeOK'
<1>1. round' \in [Node -> [Slot -> Round \cup {None}]]
  <2>1. round[i][s] \in Round
    BY DEF TypeOK, AbandonAppend
  <2>2. [round[i][s] EXCEPT !.calling = None] \in Round
    BY <2>1 DEF Round
  <2>3. round' = [round EXCEPT ![i][s] = [round[i][s] EXCEPT !.calling = None]]
    BY DEF AbandonAppend
  <2>4. round \in [Node -> [Slot -> Round \cup {None}]]
    BY DEF TypeOK
  <2>5. QED
    BY <2>2, <2>3, <2>4, NestedUpdate
<1>2. appendRequests' \subseteq AppendRequest
  <2>1. ASSUME NEW m \in appendRequests
        PROVE  m \in AppendRequest /\ [m EXCEPT !.live = FALSE] \in AppendRequest
    <3>1. m \in AppendRequest
      BY DEF TypeOK
    <3>2. QED
      BY <3>1 DEF AppendRequest
  <2>2. PICK mine \in SUBSET appendRequests :
          \/ appendRequests' = appendRequests \ mine
          \/ appendRequests' =
               (appendRequests \ mine) \cup {[m EXCEPT !.live = FALSE] : m \in mine}
    BY DEF AbandonAppend, LostOrOrphaned
  <2>3. \A x \in appendRequests' :
          x \in appendRequests \/ \E m \in appendRequests : x = [m EXCEPT !.live = FALSE]
    BY <2>2
  <2>4. QED
    BY <2>1, <2>3
<1>3. appendReplies' \subseteq AppendReply
  BY DEF TypeOK, AbandonAppend
<1>4. UNCHANGED <<currentTerm, votedFor, log, commitIndex, role, nextIndex, matchIndex, poll,
                  election, voteRequests, voteReplies, waiting, acked, crashes>>
  BY DEF AbandonAppend, durable, leading, voting, proposing
<1>5. QED
  BY <1>1, <1>2, <1>3, <1>4 DEF TypeOK

LEMMA FinishRoundType ==
  ASSUME TypeOK, NEW i \in Node, NEW s \in Slot, FinishRound(i, s)
  PROVE  TypeOK'
<1>1. round' \in [Node -> [Slot -> Round \cup {None}]]
  BY DEF TypeOK, FinishRound
<1>2. commitIndex' \in [Node -> Nat]
  <2>1. Committable(i) \subseteq Nat
    BY DEF TypeOK, Committable
  <2>2. QED
    BY <2>1 DEF TypeOK, FinishRound
<1>3. UNCHANGED <<currentTerm, votedFor, log, role, nextIndex, matchIndex, poll, election,
                  voteRequests, voteReplies, appendRequests, appendReplies,
                  waiting, acked, crashes>>
  BY DEF FinishRound, leading, voting, proposing
<1>4. QED
  BY <1>1, <1>2, <1>3 DEF TypeOK

LEMMA Append1Type ==
  ASSUME TypeOK, NEW i \in Node, NEW c \in Command, Append1(i, c)
  PROVE  log' \in [Node -> Seq(Entry)] /\ [term |-> currentTerm[i], command |-> c] \in Entry
<1>1. [term |-> currentTerm[i], command |-> c] \in Entry
  BY DEF TypeOK, Entry
<1>2. log[i] \in Seq(Entry)
  BY DEF TypeOK
<1>3. Append(log[i], [term |-> currentTerm[i], command |-> c]) \in Seq(Entry)
  BY <1>1, <1>2, AppendProperties
<1>4. QED
  BY <1>1, <1>3 DEF TypeOK, Append1

LEMMA ProposeAndWaitType ==
  ASSUME TypeOK, NEW i \in Node, NEW p \in Proposer, NEW c \in Command, ProposeAndWait(i, p, c)
  PROVE  TypeOK'
<1>1. log' \in [Node -> Seq(Entry)] /\ [term |-> currentTerm[i], command |-> c] \in Entry
  BY Append1Type DEF ProposeAndWait
<1>2. waiting' \in [Node -> [Proposer -> Wait \cup {None}]]
  <2>1. Len(log[i]) + 1 \in Nat
    BY DEF TypeOK
  <2>2. [index |-> Len(log[i]) + 1,
         entry |-> [term |-> currentTerm[i], command |-> c]] \in Wait
    BY <1>1, <2>1 DEF Wait
  <2>3. QED
    BY <2>2, NestedUpdate DEF TypeOK, ProposeAndWait
<1>3. QED
  BY <1>1, <1>2 DEF TypeOK, ProposeAndWait, leading, voting, appending

LEMMA AnswerTrueType ==
  ASSUME TypeOK, NEW i \in Node, NEW p \in Proposer, AnswerTrue(i, p)
  PROVE  TypeOK'
<1>1. acked' \subseteq Ack
  <2>1. waiting[i][p] \in Wait
    BY DEF TypeOK, AnswerTrue
  <2>2. PICK g \in BOOLEAN : acked' = acked \cup
          {[index |-> waiting[i][p].index, entry |-> waiting[i][p].entry, steady |-> g]}
    BY DEF AnswerTrue
  <2>3. QED
    BY <2>1, <2>2 DEF TypeOK, Ack, Wait
<1>2. waiting' \in [Node -> [Proposer -> Wait \cup {None}]]
  BY DEF TypeOK, AnswerTrue
<1>3. QED
  BY <1>1, <1>2 DEF TypeOK, AnswerTrue, durable, leading, voting, appending

LEMMA AnswerFalseType ==
  ASSUME TypeOK, NEW i \in Node, NEW p \in Proposer, AnswerFalse(i, p)
  PROVE  TypeOK'
<1>1. waiting' \in [Node -> [Proposer -> Wait \cup {None}]]
  BY DEF TypeOK, AnswerFalse
<1>2. QED
  BY <1>1 DEF TypeOK, AnswerFalse, durable, leading, voting, appending

LEMMA CrashType ==
  ASSUME TypeOK, NEW i \in Node, Crash(i)
  PROVE  TypeOK'
<1>1. Restart(i) /\ UNCHANGED <<currentTerm, votedFor, log, commitIndex>>
  BY DEF Crash, durable
<1>2. voteRequests' \subseteq VoteRequest /\ appendRequests' \subseteq AppendRequest
  BY OrphanedVoteType, OrphanedAppendType DEF Crash
<1>3. QED
  BY <1>1, <1>2, RestartType DEF TypeOK

LEMMA CrashInVoteType ==
  ASSUME TypeOK, NEW m \in voteRequests, CrashInVote(m)
  PROVE  TypeOK'
<1>1. m.to \in Node /\ m.term \in Nat
  BY DEF TypeOK, VoteRequest
<1>2. /\ currentTerm' \in [Node -> Nat]
      /\ votedFor' \in [Node -> Node \cup {None}]
      /\ UNCHANGED <<log, commitIndex>>
      /\ Restart(m.to)
  BY <1>1 DEF TypeOK, CrashInVote
<1>3. voteRequests' \subseteq VoteRequest /\ appendRequests' \subseteq AppendRequest
  BY <1>1, OrphanedVoteType, OrphanedAppendType DEF CrashInVote
<1>4. QED
  BY <1>1, <1>2, <1>3, RestartType DEF TypeOK

LEMMA CrashInAppendType ==
  ASSUME TypeOK, NEW m \in appendRequests, CrashInAppend(m)
  PROVE  TypeOK'
<1>1. /\ m.to \in Node /\ m.term \in Nat
      /\ m.prevIndex \in Nat /\ m.entries \in Seq(Entry)
  BY DEF TypeOK, AppendRequest
<1>2. /\ currentTerm' \in [Node -> Nat]
      /\ votedFor' \in [Node -> Node \cup {None}]
      /\ UNCHANGED commitIndex
      /\ Restart(m.to)
  BY <1>1 DEF TypeOK, CrashInAppend
<1>3. log' \in [Node -> Seq(Entry)]
  <2>1. log[m.to] \in Seq(Entry)
    BY <1>1 DEF TypeOK
  <2>2. PrevMatches(log[m.to], m.prevIndex, m.prevTerm)
          => Merge(log[m.to], m.prevIndex, m.entries) \in Seq(Entry)
    BY <1>1, <2>1, PrevMatchesBound, MergeType
  <2>3. QED
    BY <1>1, <2>1, <2>2 DEF TypeOK, CrashInAppend
<1>4. voteRequests' \subseteq VoteRequest /\ appendRequests' \subseteq AppendRequest
  BY <1>1, OrphanedVoteType, OrphanedAppendType DEF CrashInAppend
<1>5. QED
  BY <1>1, <1>2, <1>3, <1>4, RestartType DEF TypeOK

LEMMA NextTypeOK == TypeOK /\ [Next]_vars => TypeOK'
<1> SUFFICES ASSUME TypeOK, [Next]_vars PROVE TypeOK'
  OBVIOUS
<1>1. CASE \E i \in Node :
             StartElection(i) \/ AbandonVote(i) \/ FinishElection(i) \/ Crash(i)
  BY <1>1, StartElectionType, AbandonVoteType, FinishElectionType, CrashType
<1>2. CASE \E i, j \in Node : RequestVote(i, j)
  BY <1>2, RequestVoteType
<1>3. CASE \E m \in voteRequests : HandleRequestVote(m) \/ CrashInVote(m)
  BY <1>3, HandleRequestVoteType, CrashInVoteType
<1>4. CASE \E m \in voteReplies : HandleVoteReply(m)
  BY <1>4, HandleVoteReplyType
<1>5. CASE \E i \in Node, s \in Slot :
             \/ StartRound(i, s) \/ AbandonAppend(i, s) \/ FinishRound(i, s)
             \/ \E j \in Node : AppendEntries(i, s, j)
  BY <1>5, StartRoundType, AbandonAppendType, FinishRoundType, AppendEntriesType
<1>6. CASE \E m \in appendRequests : HandleAppendEntries(m) \/ CrashInAppend(m)
  BY <1>6, HandleAppendEntriesType, CrashInAppendType
<1>7. CASE \E m \in appendReplies : HandleAppendReply(m)
  BY <1>7, HandleAppendReplyType
<1>8. CASE \E i \in Node, c \in Command : Propose(i, c)
  BY <1>8, Append1Type DEF Propose, TypeOK, leading, voting, appending, proposing
<1>9. CASE \E i \in Node, p \in Proposer :
             \/ \E c \in Command : ProposeAndWait(i, p, c)
             \/ AnswerTrue(i, p) \/ AnswerFalse(i, p)
  BY <1>9, ProposeAndWaitType, AnswerTrueType, AnswerFalseType
<1>10. CASE UNCHANGED vars
  BY <1>10 DEF TypeOK, vars, durable, leading, voting, appending, proposing
<1>11. QED
  BY <1>1, <1>2, <1>3, <1>4, <1>5, <1>6, <1>7, <1>8, <1>9, <1>10 DEF Next

\* Every variable of the cell keeps its type, for all values of the constants:
\* in particular the back-off of _next_index never leaves the log's start, and
\* merging entries into a log yields a log.
THEOREM TypeCorrect == Spec => []TypeOK
BY InitTypeOK, NextTypeOK, PTL DEF Spec
=============================================================================
