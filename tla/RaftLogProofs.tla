---------------------------- MODULE RaftLogProofs ----------------------------
(***************************************************************************)
(* Logs that hold the same entry are equal up to it (LogMatching), for     *)
(* every value of the constants, and what the safety of commits rests on.  *)
(*                                                                         *)
(* The argument is about a history H of the reigns so far: for each term   *)
(* in which a leader was elected, who it was, who voted for it, what its   *)
(* log became, and how much of that log each node has acknowledged.  The   *)
(* program keeps no such history: the invariant says that one exists, and  *)
(* a step of the program is met by a step from H to a history G.           *)
(***************************************************************************)
EXTENDS RaftElectionProofs

-----------------------------------------------------------------------------
(* The history of reigns *)

Reign == [leader : Node, votes : SUBSET Node, log : Seq(Entry), acked : [Node -> Nat]]

IsHistory(H) == DOMAIN H \subseteq Nat \ {0} /\ H \in [DOMAIN H -> Reign]

\* Log l begins log n.
Begins(l, n) == Len(l) <= Len(n) /\ \A k \in DOMAIN l : n[k] = l[k]

\* The entries of l after index n are all of term t.
OnlyAfter(l, n, t) == \A k \in DOMAIN l : k > n => l[k].term = t

\* Log l has an entry of term t at index k.
Has(l, k, t) == k \in DOMAIN l /\ l[k].term = t

\* Up to each of its entries, l is the log of the leader who created the entry.
Fits(H, l) ==
  \A k \in DOMAIN l :
    /\ l[k].term \in DOMAIN H
    /\ k \in DOMAIN H[l[k].term].log
    /\ \A x \in 1 .. k : H[l[k].term].log[x] = l[x]

\* Its terms never fall, and none is later than t.
Ordered(l, t) ==
  \A k \in DOMAIN l : l[k].term <= t /\ \A x \in 1 .. k : l[x].term <= l[k].term

\* The leader of term t created an entry at index k.
Own(H, k, t) == t \in DOMAIN H /\ Has(H[t].log, k, t)

\* Node v has left term t without acknowledging index k, and never will.
Missed(H, v, k, t) == currentTerm[v] > t /\ H[t].acked[v] < k

\* A quorum has: the entry can no longer be committed in its term.
Dead(H, k, t) == \E Q \in SUBSET Node : HasQuorum(Cell, Q) /\ \A v \in Q : Missed(H, v, k, t)

Alive(H, k, t) == Own(H, k, t) /\ ~Dead(H, k, t)

-----------------------------------------------------------------------------
(* The invariant *)

ReignLogs(H) == \A t \in DOMAIN H : Fits(H, H[t].log) /\ Ordered(H[t].log, t)

ReignAcks(H) ==
  \A t \in DOMAIN H :
    /\ H[t].acked[H[t].leader] = Len(H[t].log)
    /\ \A v \in Node :
         /\ H[t].acked[v] <= Len(H[t].log)
         /\ H[t].acked[v] > 0 => currentTerm[v] >= t

ReignVotes(H) ==
  \A t \in DOMAIN H :
    /\ HasQuorum(Cell, H[t].votes)
    /\ \A v \in H[t].votes : Cast(v, t, H[t].leader)
    /\ currentTerm[H[t].leader] >= t
    /\ role[H[t].leader] = "candidate" => currentTerm[H[t].leader] > t

\* Those whose vote in the last election of node i is counted or under way.
Voters(i) == poll[i].votes \cup {m.from : m \in {n \in voteReplies : n.granted /\ n.to = i}}

\* Nobody who voted for the leader of a term votes for another node in it.
ReignRivals(H) ==
  \A t \in DOMAIN H : \A i \in Node \ {H[t].leader} :
    poll[i].term = t => Voters(i) \cap H[t].votes = {}

LeadersReign(H) ==
  \A i \in Node : role[i] = "leader" =>
    /\ currentTerm[i] \in DOMAIN H
    /\ H[currentTerm[i]].leader = i
    /\ H[currentTerm[i]].log = log[i]

LogsFit(H) == \A i \in Node : Fits(H, log[i]) /\ Ordered(log[i], currentTerm[i])

\* What a round sends is the beginning of the log of its term; the rest of
\* that log was proposed since, in that term.
Snapshot(H, l, t) ==
  t \in DOMAIN H /\ Begins(l, H[t].log) /\ OnlyAfter(H[t].log, Len(l), t)

RoundsFit(H) ==
  \A i \in Node, s \in Slot : round[i][s] # None => Snapshot(H, round[i][s].log, round[i][s].term)

\* A request carries the end of such a beginning, or starts past its end
\* (_next_index was read after the round had begun).
LastIndex(m) == m.prevIndex + Len(m.entries)

PastTheEnd(m) == m.prevIndex > 0 /\ m.prevTerm = 0

Cut(H, m) ==
  LET l == H[m.term].log IN
  /\ LastIndex(m) <= Len(l)
  /\ m.prevTerm = TermAt(l, m.prevIndex)
  /\ \A k \in DOMAIN m.entries : m.entries[k] = l[m.prevIndex + k]
  /\ OnlyAfter(l, LastIndex(m), m.term)

RequestsFit(H) ==
  \A m \in appendRequests : m.term \in DOMAIN H /\ (PastTheEnd(m) \/ Cut(H, m))

AnswersFit(H) ==
  \A m \in appendReplies : m.success =>
    m.term \in DOMAIN H /\ m.match <= H[m.term].acked[m.from]

\* An entry that may still be committed in its term is in the log of every
\* later leader and of every node that acknowledged it.
LeadersKeep(H) ==
  \A t, u \in DOMAIN H : \A k \in DOMAIN H[t].log :
    t < u /\ Alive(H, k, t) => Has(H[u].log, k, t)

AckersKeep(H) ==
  \A t \in DOMAIN H, v \in Node : \A k \in DOMAIN H[t].log :
    k <= H[t].acked[v] /\ Alive(H, k, t) => Has(log[v], k, t)

\* A candidate has it, or nobody who votes for the candidate acknowledged it.
CandidatesKeep(H) ==
  \A i \in Node, t \in DOMAIN H : \A k \in DOMAIN H[t].log :
    role[i] = "candidate" /\ t < currentTerm[i] /\ Alive(H, k, t) /\ ~Has(log[i], k, t)
      => \A v \in Voters(i) : Missed(H, v, k, t)

\* A candidate asks for votes with its log as it is, and never in term 0.
AsksFit ==
  /\ \A i \in Node : role[i] = "candidate" => currentTerm[i] > 0
  /\ \A i \in Node : role[i] = "candidate" /\ election[i] # None =>
       election[i].lastIndex = Len(log[i]) /\ election[i].lastTerm = LastTerm(log[i])
  /\ \A m \in voteRequests : m.live =>
       m.lastIndex = election[m.from].lastIndex /\ m.lastTerm = election[m.from].lastTerm

LogInv(H) ==
  /\ IsHistory(H) /\ ReignLogs(H) /\ ReignAcks(H) /\ ReignVotes(H) /\ ReignRivals(H)
  /\ LeadersReign(H) /\ LogsFit(H)
  /\ RoundsFit(H) /\ RequestsFit(H) /\ AnswersFit(H)
  /\ LeadersKeep(H) /\ AckersKeep(H) /\ CandidatesKeep(H) /\ AsksFit

\* How the history may change in a step.
Grows(H, G) ==
  /\ IsHistory(H) /\ IsHistory(G) /\ DOMAIN H \subseteq DOMAIN G
  /\ \A t \in DOMAIN H :
       /\ G[t].leader = H[t].leader /\ G[t].votes = H[t].votes
       /\ Begins(H[t].log, G[t].log) /\ OnlyAfter(G[t].log, Len(H[t].log), t)
       /\ \A v \in Node :
            /\ H[t].acked[v] <= G[t].acked[v]
            /\ currentTerm'[v] > t => G[t].acked[v] = H[t].acked[v]

-----------------------------------------------------------------------------
(* Histories and logs *)

LEMMA ReignType ==
  ASSUME NEW H, IsHistory(H), NEW t \in DOMAIN H
  PROVE  /\ t \in Nat \ {0} /\ H[t].leader \in Node /\ H[t].votes \subseteq Node
         /\ H[t].log \in Seq(Entry) /\ Len(H[t].log) \in Nat
         /\ DOMAIN H[t].log = 1 .. Len(H[t].log)
         /\ \A v \in Node : H[t].acked[v] \in Nat
<1>1. H[t] \in Reign /\ t \in Nat \ {0}
  BY DEF IsHistory
<1>2. QED
  BY <1>1 DEF Reign

LEMMA EntryType ==
  ASSUME NEW l \in Seq(Entry)
  PROVE  /\ Len(l) \in Nat /\ DOMAIN l = 1 .. Len(l)
         /\ \A k \in DOMAIN l : l[k] \in Entry /\ l[k].term \in Nat
<1>1. Len(l) \in Nat /\ DOMAIN l = 1 .. Len(l) /\ \A k \in DOMAIN l : l[k] \in Entry
  OBVIOUS
<1>2. QED
  BY <1>1 DEF Entry

LEMMA SamePrefix ==
  ASSUME NEW l \in Seq(Entry), NEW n \in Seq(Entry), NEW k \in Nat,
         \A x \in 1 .. k : l[x] = n[x]
  PROVE  SubSeq(l, 1, k) = SubSeq(n, 1, k)
OBVIOUS

LEMMA SameGrows ==
  ASSUME NEW H, IsHistory(H)
  PROVE  Grows(H, H)
<1>1. ASSUME NEW t \in DOMAIN H
      PROVE  /\ Begins(H[t].log, H[t].log) /\ OnlyAfter(H[t].log, Len(H[t].log), t)
             /\ \A v \in Node : H[t].acked[v] <= H[t].acked[v]
  BY ReignType DEF Begins, OnlyAfter
<1>2. QED
  BY <1>1 DEF Grows

\* A log that fits a history fits it as it grows.
LEMMA FitsKept ==
  ASSUME NEW H, NEW G, Grows(H, G), NEW l \in Seq(Entry), Fits(H, l)
  PROVE  Fits(G, l)
<1> SUFFICES ASSUME NEW k \in DOMAIN l
             PROVE  /\ l[k].term \in DOMAIN G /\ k \in DOMAIN G[l[k].term].log
                    /\ \A x \in 1 .. k : G[l[k].term].log[x] = l[x]
  BY DEF Fits
<1> DEFINE t == l[k].term
<1>1. /\ t \in DOMAIN H /\ k \in DOMAIN H[t].log
      /\ \A x \in 1 .. k : H[t].log[x] = l[x]
  BY DEF Fits
<1>2. k \in Nat
  BY EntryType
<1> HIDE DEF t
<1>3. /\ t \in DOMAIN G /\ Len(H[t].log) <= Len(G[t].log)
      /\ \A x \in DOMAIN H[t].log : G[t].log[x] = H[t].log[x]
  BY <1>1 DEF Grows, Begins
<1>4. IsHistory(H) /\ IsHistory(G)
  BY DEF Grows
<1>5. /\ DOMAIN H[t].log = 1 .. Len(H[t].log) /\ Len(H[t].log) \in Nat
      /\ DOMAIN G[t].log = 1 .. Len(G[t].log) /\ Len(G[t].log) \in Nat
  BY <1>1, <1>3, <1>4, ReignType
<1>6. k \in DOMAIN G[t].log /\ \A x \in 1 .. k : G[t].log[x] = l[x]
  BY <1>1, <1>2, <1>3, <1>5
<1>7. QED
  BY <1>3, <1>6 DEF t

\* Two logs that fit a history agree up to an entry of the same term.
LEMMA FitsAgree ==
  ASSUME NEW H, NEW l, NEW n, Fits(H, l), Fits(H, n), NEW k \in DOMAIN l \cap DOMAIN n,
         l[k].term = n[k].term
  PROVE  \A x \in 1 .. k : l[x] = n[x]
BY DEF Fits

\* What begins a log that fits, fits.
LEMMA FitsPrefix ==
  ASSUME NEW H, NEW l \in Seq(Entry), NEW n \in Seq(Entry), Fits(H, n), Begins(l, n)
  PROVE  Fits(H, l)
<1> SUFFICES ASSUME NEW k \in DOMAIN l
             PROVE  /\ l[k].term \in DOMAIN H /\ k \in DOMAIN H[l[k].term].log
                    /\ \A x \in 1 .. k : H[l[k].term].log[x] = l[x]
  BY DEF Fits
<1>1. /\ k \in DOMAIN n /\ l[k] = n[k] /\ \A x \in 1 .. k : l[x] = n[x]
  BY EntryType DEF Begins
<1>2. QED
  BY <1>1 DEF Fits

LEMMA OrderedPrefix ==
  ASSUME NEW l \in Seq(Entry), NEW n \in Seq(Entry), NEW t, Ordered(n, t), Begins(l, n)
  PROVE  Ordered(l, t)
<1> SUFFICES ASSUME NEW k \in DOMAIN l
             PROVE  l[k].term <= t /\ \A x \in 1 .. k : l[x].term <= l[k].term
  BY DEF Ordered
<1>1. /\ k \in DOMAIN n /\ l[k] = n[k] /\ \A x \in 1 .. k : l[x] = n[x]
  BY EntryType DEF Begins
<1>2. QED
  BY <1>1 DEF Ordered

\* A dead entry stays dead, and no entry of H comes alive in G.
LEMMA MissedKept ==
  ASSUME TypeOK, TypeOK', VoteStep, NEW H, NEW G, Grows(H, G),
         NEW t \in DOMAIN H, NEW k, NEW v \in Node, Missed(H, v, k, t)
  PROVE  Missed(G, v, k, t)'
<1>1. currentTerm[v] \in Nat /\ currentTerm'[v] \in Nat /\ currentTerm[v] <= currentTerm'[v]
  BY DEF TypeOK, VoteStep
<1>2. t \in Nat
  BY ReignType DEF Grows
<1>3. currentTerm'[v] > t
  BY <1>1, <1>2 DEF Missed
<1>4. G[t].acked[v] = H[t].acked[v]
  BY <1>3 DEF Grows
<1>5. QED
  BY <1>3, <1>4 DEF Missed

LEMMA AliveBefore ==
  ASSUME TypeOK, TypeOK', VoteStep, NEW H, NEW G, Grows(H, G),
         NEW t \in DOMAIN H, NEW k \in DOMAIN H[t].log, Alive(G, k, t)'
  PROVE  Alive(H, k, t)
<1>1. Own(H, k, t)
  BY DEF Alive, Own, Has, Grows, Begins
<1>2. ~Dead(H, k, t)
  <2>1. SUFFICES ASSUME Dead(H, k, t) PROVE FALSE
    OBVIOUS
  <2>2. PICK Q \in SUBSET Node : HasQuorum(Cell, Q) /\ \A v \in Q : Missed(H, v, k, t)
    BY <2>1 DEF Dead
  <2>3. \A v \in Q : Missed(G, v, k, t)'
    BY <2>2, MissedKept
  <2>4. Dead(G, k, t)'
    BY <2>2, <2>3 DEF Dead, HasQuorum, Cell, Stable, MajoritySize
  <2>5. QED
    BY <2>4 DEF Alive
<1>3. QED
  BY <1>1, <1>2 DEF Alive

LEMMA CellQuorum ==
  ASSUME NEW P, NEW Q, HasQuorum(Cell, P), HasQuorum(Cell, Q)
  PROVE  \E v \in Node : v \in P /\ v \in Q
<1>1. Cell.voters = Node /\ IsFiniteSet(Cell.voters)
  BY NodeAssumption DEF Cell, Stable
<1>2. QED
  BY <1>1, QuorumsIntersect

-----------------------------------------------------------------------------
(* The merge loop of handle_append_entries *)

\* A log takes a cut of another, with which it agrees up to entries of the
\* same term: up to the cut's end it then is the other log.  It is cut off
\* there unless it was so before, and only where it differed from the other.
LEMMA MergeCases ==
  ASSUME NEW l \in Seq(Entry), NEW n \in Seq(Entry), NEW es \in Seq(Entry), NEW p \in Nat,
         \A k \in DOMAIN l \cap DOMAIN n :
           l[k].term = n[k].term => \A x \in 1 .. k : l[x] = n[x],
         p + Len(es) <= Len(n),
         \A k \in DOMAIN es : es[k] = n[p + k],
         PrevMatches(l, p, TermAt(n, p))
  PROVE  LET r == Merge(l, p, es) IN
         /\ r \in Seq(Entry)
         /\ p + Len(es) <= Len(r) /\ \A x \in 1 .. p + Len(es) : r[x] = n[x]
         /\ \/ r = l
            \/ /\ Len(r) = p + Len(es)
               /\ \A k \in DOMAIN l \cap DOMAIN n : k > p + Len(es) => l[k].term # n[k].term
<1> DEFINE last     == p + Len(es)
           holds(y) == \A k \in p + 1 .. y : k <= Len(l) /\ l[k].term = es[k - p].term
           r        == Merge(l, p, es)
<1>1. /\ Len(l) \in Nat /\ DOMAIN l = 1 .. Len(l)
      /\ Len(n) \in Nat /\ DOMAIN n = 1 .. Len(n)
      /\ Len(es) \in Nat /\ DOMAIN es = 1 .. Len(es)
      /\ last \in Nat /\ last <= Len(n) /\ p <= last
  BY EntryType
<1>2. p <= Len(l) /\ \A x \in 1 .. p : l[x] = n[x]
  <2>1. CASE p = 0
    BY <1>1, <2>1
  <2>2. CASE p > 0
    <3>1. p <= Len(l) /\ TermAt(l, p) = TermAt(n, p)
      BY <2>2 DEF PrevMatches
    <3>2. p \in DOMAIN l \cap DOMAIN n /\ l[p].term = n[p].term
      BY <1>1, <2>2, <3>1 DEF TermAt
    <3>3. QED
      BY <3>1, <3>2
  <2>3. QED
    BY <2>1, <2>2
<1>3. \A k \in p + 1 .. last : es[k - p] = n[k]
  <2> SUFFICES ASSUME NEW k \in p + 1 .. last PROVE es[k - p] = n[k]
    OBVIOUS
  <2>1. k - p \in DOMAIN es /\ p + (k - p) = k
    BY <1>1
  <2>2. QED
    BY <2>1
<1>4. r \in Seq(Entry)
  BY <1>2, MergeType
<1>5. ASSUME NEW y \in p .. last, holds(y)
      PROVE  y <= Len(l) /\ \A x \in 1 .. y : l[x] = n[x]
  <2>1. CASE y = p
    BY <1>2, <2>1
  <2>2. CASE y > p
    <3>1. y \in p + 1 .. y /\ y \in p + 1 .. last
      BY <1>1, <2>2
    <3>2. y <= Len(l) /\ l[y].term = n[y].term
      BY <1>3, <1>5, <3>1
    <3>3. y \in DOMAIN l \cap DOMAIN n
      BY <1>1, <3>1, <3>2
    <3>4. QED
      BY <3>2, <3>3
  <2>3. QED
    BY <1>1, <2>1, <2>2
<1>6. CASE holds(last)
  <2>1. r = l
    BY <1>6 DEF Merge
  <2>2. last <= Len(l) /\ \A x \in 1 .. last : l[x] = n[x]
    BY <1>1, <1>5, <1>6
  <2>3. QED
    BY <1>4, <2>1, <2>2
<1>7. CASE ~holds(last)
  <2>1. r = [y \in 1 .. last |-> IF holds(y) THEN l[y] ELSE es[y - p]]
    BY <1>7 DEF Merge
  <2>2. \A y \in 1 .. last : r[y] = n[y]
    <3> SUFFICES ASSUME NEW y \in 1 .. last PROVE r[y] = n[y]
      OBVIOUS
    <3>1. r[y] = IF holds(y) THEN l[y] ELSE es[y - p]
      BY <2>1
    <3>2. CASE y <= p
      <4>1. holds(y)
        BY <3>2
      <4>2. r[y] = l[y]
        BY <3>1, <4>1
      <4>3. QED
        BY <1>2, <3>2, <4>2
    <3>3. CASE y > p /\ holds(y)
      <4>1. r[y] = l[y]
        BY <3>1, <3>3
      <4>2. QED
        BY <1>1, <1>5, <3>3, <4>1
    <3>4. CASE y > p /\ ~holds(y)
      BY <1>1, <1>3, <3>1, <3>4
    <3>5. QED
      BY <1>1, <3>2, <3>3, <3>4
  <2>3. Len(r) = last
    <3> HIDE DEF holds, last
    <3>1. DOMAIN r = 1 .. last
      BY <2>1
    <3>2. QED
      BY <1>1, <1>4, <3>1
  <2>4. ASSUME NEW k \in DOMAIN l \cap DOMAIN n, k > last PROVE l[k].term # n[k].term
    <3>1. SUFFICES ASSUME l[k].term = n[k].term PROVE FALSE
      OBVIOUS
    <3>2. \A x \in 1 .. k : l[x] = n[x]
      BY <3>1
    <3>3. holds(last)
      BY <1>1, <1>3, <2>4, <3>2
    <3>4. QED
      BY <1>7, <3>3
  <2>5. QED
    BY <1>4, <2>2, <2>3, <2>4
<1>8. QED
  BY <1>6, <1>7

-----------------------------------------------------------------------------
(* What a step keeps of each part of the invariant *)

\* The history of a step that elects nobody and proposes nothing.
OnlyAcks(H, G) ==
  Grows(H, G) /\ DOMAIN G = DOMAIN H /\ \A t \in DOMAIN H : G[t].log = H[t].log

LEMMA SameOnlyAcks ==
  ASSUME NEW H, IsHistory(H)
  PROVE  OnlyAcks(H, H)
BY SameGrows DEF OnlyAcks

\* A node becomes a candidate only in a new term.
CandidaciesNew ==
  \A i \in Node : role'[i] = "candidate" =>
    \/ role[i] = "candidate" /\ currentTerm'[i] = currentTerm[i]
    \/ currentTerm'[i] > currentTerm[i]

LEMMA ReignVotesKept ==
  ASSUME TypeOK, TypeOK', VoteStep, NEW H, NEW G, ReignVotes(H), OnlyAcks(H, G), CandidaciesNew
  PROVE  ReignVotes(G)'
<1> SUFFICES ASSUME NEW t \in DOMAIN G
             PROVE  /\ HasQuorum(Cell, G[t].votes)
                    /\ \A v \in G[t].votes : Cast(v, t, G[t].leader)'
                    /\ currentTerm'[G[t].leader] >= t
                    /\ role'[G[t].leader] = "candidate" => currentTerm'[G[t].leader] > t
  BY DEF ReignVotes, HasQuorum, Cell, Stable, MajoritySize
<1>1. t \in DOMAIN H /\ G[t].leader = H[t].leader /\ G[t].votes = H[t].votes
  BY DEF OnlyAcks, Grows
<1> DEFINE i == H[t].leader
<1>2. t \in Nat /\ i \in Node /\ H[t].votes \subseteq Node
  BY <1>1, ReignType DEF OnlyAcks, Grows
<1>3. /\ HasQuorum(Cell, H[t].votes)
      /\ \A v \in H[t].votes : Cast(v, t, i)
      /\ currentTerm[i] >= t
      /\ role[i] = "candidate" => currentTerm[i] > t
  BY <1>1 DEF ReignVotes
<1> HIDE DEF i
<1>4. ASSUME NEW v \in H[t].votes PROVE Cast(v, t, i)'
  BY <1>2, <1>3, CastStable
<1>5. currentTerm[i] \in Nat /\ currentTerm'[i] \in Nat /\ currentTerm[i] <= currentTerm'[i]
  BY <1>2 DEF TypeOK, VoteStep
<1>6. currentTerm'[i] >= t /\ (role'[i] = "candidate" => currentTerm'[i] > t)
  BY <1>2, <1>3, <1>5 DEF CandidaciesNew
<1>7. QED
  BY <1>1, <1>3, <1>4, <1>6 DEF i

\* No vote is cast or sent.
VotersKept == \A i \in Node : poll'[i].term = poll[i].term /\ Voters(i)' \subseteq Voters(i)

LEMMA RivalsKept ==
  ASSUME NEW H, NEW G, ReignRivals(H), OnlyAcks(H, G), VotersKept
  PROVE  ReignRivals(G)'
<1>1. DOMAIN G = DOMAIN H
      /\ \A t \in DOMAIN H : G[t].leader = H[t].leader /\ G[t].votes = H[t].votes
  BY DEF OnlyAcks, Grows
<1> SUFFICES ASSUME NEW t \in DOMAIN G, NEW i \in Node \ {G[t].leader}, poll'[i].term = t
             PROVE  Voters(i)' \cap G[t].votes = {}
  BY DEF ReignRivals
<1>2. Voters(i) \cap H[t].votes = {}
  BY <1>1 DEF ReignRivals, VotersKept
<1>3. QED
  BY <1>1, <1>2 DEF VotersKept

\* Leaders keep their logs.
LEMMA LeadersKept ==
  ASSUME NEW H, NEW G, LeadersReign(H), OnlyAcks(H, G),
         \A i \in Node : role'[i] = "leader" =>
           role[i] = "leader" /\ currentTerm'[i] = currentTerm[i] /\ log'[i] = log[i]
  PROVE  LeadersReign(G)'
BY DEF LeadersReign, OnlyAcks, Grows

LEMMA ReignLogsKept ==
  ASSUME NEW H, NEW G, ReignLogs(H), OnlyAcks(H, G)
  PROVE  ReignLogs(G)'
<1>1. ASSUME NEW t \in DOMAIN G PROVE Fits(G, G[t].log) /\ Ordered(G[t].log, t)
  <2>1. /\ t \in DOMAIN H /\ G[t].log = H[t].log /\ H[t].log \in Seq(Entry)
        /\ Fits(H, H[t].log) /\ Ordered(H[t].log, t) /\ Grows(H, G)
    BY ReignType DEF ReignLogs, OnlyAcks, Grows
  <2>2. QED
    BY <2>1, FitsKept
<1>2. QED
  BY <1>1 DEF ReignLogs, Fits, Ordered

LEMMA LogsKept ==
  ASSUME TypeOK, TypeOK', VoteStep, NEW H, NEW G, LogsFit(H), Grows(H, G),
         NEW i \in Node, log'[i] = log[i]
  PROVE  Fits(G, log'[i]) /\ Ordered(log'[i], currentTerm'[i])
<1>1. log[i] \in Seq(Entry)
  BY DEF TypeOK
<1>2. Fits(H, log[i]) /\ Ordered(log[i], currentTerm[i])
  BY DEF LogsFit
<1>3. Fits(G, log[i])
  BY <1>1, <1>2, FitsKept
<1>4. currentTerm[i] \in Nat /\ currentTerm'[i] \in Nat /\ currentTerm[i] <= currentTerm'[i]
  BY DEF TypeOK, VoteStep
<1>5. Ordered(log[i], currentTerm'[i])
  BY <1>1, <1>2, <1>4, EntryType DEF Ordered
<1>6. QED
  BY <1>3, <1>5

LEMMA LogsFitKept ==
  ASSUME TypeOK, TypeOK', VoteStep, NEW H, NEW G, LogsFit(H), Grows(H, G), UNCHANGED log
  PROVE  LogsFit(G)'
<1>1. \A i \in Node : Fits(G, log'[i]) /\ Ordered(log'[i], currentTerm'[i])
  BY LogsKept
<1>2. QED
  BY <1>1 DEF LogsFit, Fits, Ordered

LEMMA ReignAcksKept ==
  ASSUME TypeOK, TypeOK', VoteStep, NEW H, IsHistory(H), ReignAcks(H)
  PROVE  ReignAcks(H)'
<1> SUFFICES ASSUME NEW t \in DOMAIN H, NEW v \in Node, H[t].acked[v] > 0
             PROVE  currentTerm'[v] >= t
  BY DEF ReignAcks
<1>1. currentTerm[v] >= t /\ t \in Nat
  BY ReignType DEF ReignAcks
<1>2. QED
  BY <1>1 DEF TypeOK, VoteStep

LEMMA LeadersKeepKept ==
  ASSUME TypeOK, TypeOK', VoteStep, NEW H, NEW G, LeadersKeep(H), OnlyAcks(H, G)
  PROVE  LeadersKeep(G)'
<1>1. DOMAIN G = DOMAIN H /\ Grows(H, G) /\ \A t \in DOMAIN H : G[t].log = H[t].log
  BY DEF OnlyAcks
<1> SUFFICES ASSUME NEW t \in DOMAIN G, NEW u \in DOMAIN G, NEW k \in DOMAIN G[t].log,
                    t < u, Alive(G, k, t)'
             PROVE  Has(G[u].log, k, t)
  BY DEF LeadersKeep, Has
<1>2. t \in DOMAIN H /\ u \in DOMAIN H /\ k \in DOMAIN H[t].log
  BY <1>1
<1>3. Alive(H, k, t)
  BY <1>1, <1>2, AliveBefore
<1>4. QED
  BY <1>1, <1>2, <1>3 DEF LeadersKeep

LEMMA AckersKeepKept ==
  ASSUME TypeOK, TypeOK', VoteStep, NEW H, IsHistory(H), AckersKeep(H), UNCHANGED log
  PROVE  AckersKeep(H)'
<1> SUFFICES ASSUME NEW t \in DOMAIN H, NEW v \in Node, NEW k \in DOMAIN H[t].log,
                    k <= H[t].acked[v], Alive(H, k, t)'
             PROVE  Has(log[v], k, t)
  BY DEF AckersKeep, Has
<1>1. Alive(H, k, t)
  BY SameGrows, AliveBefore
<1>2. QED
  BY <1>1 DEF AckersKeep

LEMMA VotersType ==
  ASSUME TypeOK, NEW i \in Node
  PROVE  Voters(i) \subseteq Node
<1>1. poll[i].votes \subseteq Node
  BY DEF TypeOK, Poll
<1>2. \A m \in voteReplies : m.from \in Node
  BY DEF TypeOK, VoteReply
<1>3. QED
  BY <1>1, <1>2 DEF Voters

LEMMA CandidatesKeepKept ==
  ASSUME TypeOK, TypeOK', VoteStep, VoteInv, NEW H, NEW G, CandidatesKeep(H), OnlyAcks(H, G),
         RolesFall, VotersKept, \A i \in Node : role'[i] = "candidate" => log'[i] = log[i]
  PROVE  CandidatesKeep(G)'
<1>1. DOMAIN G = DOMAIN H /\ Grows(H, G) /\ \A t \in DOMAIN H : G[t].log = H[t].log
  BY DEF OnlyAcks
<1> SUFFICES ASSUME NEW i \in Node, NEW t \in DOMAIN H, NEW k \in DOMAIN H[t].log,
                    role'[i] = "candidate", t < currentTerm'[i], Alive(G, k, t)',
                    ~Has(log'[i], k, t), NEW v \in Voters(i)'
             PROVE  Missed(G, v, k, t)'
  BY <1>1 DEF CandidatesKeep, Has
<1>2. /\ role[i] = "candidate" /\ t < currentTerm[i] /\ log'[i] = log[i]
      /\ v \in Voters(i)
  BY DEF RolesFall, VotersKept
<1>3. Alive(H, k, t)
  BY <1>1, AliveBefore
<1>4. Missed(H, v, k, t)
  BY <1>2, <1>3 DEF CandidatesKeep
<1>5. v \in Node
  BY <1>2, VotersType
<1>6. QED
  BY <1>1, <1>4, <1>5, MissedKept

\* What is under way from leaders to followers was so before.
SendsKept ==
  /\ \A i \in Node, s \in Slot : round'[i][s] # None =>
       /\ round[i][s] # None
       /\ round'[i][s].term = round[i][s].term /\ round'[i][s].log = round[i][s].log
  /\ \A m \in appendRequests' : \E n \in appendRequests :
       /\ m.term = n.term /\ m.prevIndex = n.prevIndex /\ m.prevTerm = n.prevTerm
       /\ m.entries = n.entries

\* And so was every answer that acknowledges something.
AppendsKept == SendsKept /\ \A m \in appendReplies' : m.success => m \in appendReplies

LEMMA SnapshotKept ==
  ASSUME NEW H, NEW G, Grows(H, G), NEW l \in Seq(Entry), NEW t, Snapshot(H, l, t)
  PROVE  Snapshot(G, l, t)
<1>1. /\ t \in DOMAIN H /\ t \in DOMAIN G
      /\ Len(l) <= Len(H[t].log) /\ \A k \in DOMAIN l : H[t].log[k] = l[k]
      /\ Len(H[t].log) <= Len(G[t].log) /\ \A k \in DOMAIN H[t].log : G[t].log[k] = H[t].log[k]
  BY DEF Snapshot, Grows, Begins
<1>2. /\ Len(l) \in Nat /\ DOMAIN l = 1 .. Len(l)
      /\ Len(H[t].log) \in Nat /\ DOMAIN H[t].log = 1 .. Len(H[t].log)
      /\ Len(G[t].log) \in Nat /\ DOMAIN G[t].log = 1 .. Len(G[t].log)
  BY <1>1, EntryType, ReignType DEF Grows
<1>3. Begins(l, G[t].log)
  BY <1>1, <1>2 DEF Begins
<1>4. OnlyAfter(G[t].log, Len(l), t)
  <2>1. /\ OnlyAfter(H[t].log, Len(l), t) /\ OnlyAfter(G[t].log, Len(H[t].log), t)
    BY <1>1 DEF Snapshot, Grows
  <2>2. QED
    BY <1>1, <1>2, <2>1 DEF OnlyAfter
<1>5. QED
  BY <1>1, <1>3, <1>4 DEF Snapshot

LEMMA CutKept ==
  ASSUME NEW H, NEW G, Grows(H, G), NEW m \in AppendRequest, m.term \in DOMAIN H, Cut(H, m)
  PROVE  m.term \in DOMAIN G /\ Cut(G, m)
<1> DEFINE t == m.term
           l == H[t].log
           n == G[t].log
           last == LastIndex(m)
<1>1. t \in DOMAIN G /\ Len(l) <= Len(n) /\ \A k \in DOMAIN l : n[k] = l[k]
  BY DEF Grows, Begins
<1>2. /\ m.prevIndex \in Nat /\ m.entries \in Seq(Entry)
      /\ last \in Nat /\ m.prevIndex <= last /\ Len(m.entries) \in Nat
      /\ last = m.prevIndex + Len(m.entries)
      /\ DOMAIN m.entries = 1 .. Len(m.entries)
  BY DEF AppendRequest, LastIndex
<1>3. /\ Len(l) \in Nat /\ DOMAIN l = 1 .. Len(l) /\ Len(n) \in Nat /\ DOMAIN n = 1 .. Len(n)
  BY <1>1, ReignType DEF Grows
<1>4. /\ last <= Len(l)
      /\ m.prevTerm = TermAt(l, m.prevIndex)
      /\ \A k \in DOMAIN m.entries : m.entries[k] = l[m.prevIndex + k]
      /\ OnlyAfter(l, last, t)
  BY DEF Cut
<1>5. OnlyAfter(n, Len(l), t)
  BY DEF Grows
<1> HIDE DEF t, l, n, last
<1>6. OnlyAfter(n, last, t)
  BY <1>1, <1>2, <1>3, <1>4, <1>5 DEF OnlyAfter
<1>7. m.prevTerm = TermAt(n, m.prevIndex)
  BY <1>1, <1>2, <1>3, <1>4 DEF TermAt
<1>8. last <= Len(n)
  BY <1>1, <1>2, <1>3, <1>4
<1>9. \A k \in DOMAIN m.entries : m.entries[k] = n[m.prevIndex + k]
  BY <1>1, <1>2, <1>3, <1>4
<1>10. QED
  BY <1>1, <1>6, <1>7, <1>8, <1>9 DEF Cut, t, n, last

LEMMA RoundsFitKept ==
  ASSUME TypeOK, TypeOK', NEW H, NEW G, RoundsFit(H), Grows(H, G),
         NEW i \in Node, NEW s \in Slot, round[i][s] # None
  PROVE  Snapshot(G, round[i][s].log, round[i][s].term)
<1>1. round[i][s].log \in Seq(Entry)
  BY DEF TypeOK, Round
<1>2. Snapshot(H, round[i][s].log, round[i][s].term)
  BY DEF RoundsFit
<1>3. QED
  BY <1>1, <1>2, SnapshotKept

LEMMA RequestsFitKept ==
  ASSUME TypeOK, NEW H, NEW G, RequestsFit(H), Grows(H, G), NEW m \in appendRequests
  PROVE  m.term \in DOMAIN G /\ (PastTheEnd(m) \/ Cut(G, m))
<1>1. m \in AppendRequest
  BY DEF TypeOK
<1>2. m.term \in DOMAIN H /\ (PastTheEnd(m) \/ Cut(H, m))
  BY DEF RequestsFit
<1>3. m.term \in DOMAIN G
  BY <1>2 DEF Grows
<1>4. QED
  BY <1>1, <1>2, <1>3, CutKept

LEMMA AnswersFitKept ==
  ASSUME TypeOK, NEW H, NEW G, AnswersFit(H), Grows(H, G), NEW m \in appendReplies, m.success
  PROVE  m.term \in DOMAIN G /\ m.match <= G[m.term].acked[m.from]
<1>1. m.term \in DOMAIN H /\ m.match <= H[m.term].acked[m.from]
  BY DEF AnswersFit
<1>2. m.match \in Nat /\ m.from \in Node
  BY DEF TypeOK, AppendReply
<1>3. m.term \in DOMAIN G /\ H[m.term].acked[m.from] <= G[m.term].acked[m.from]
  BY <1>1, <1>2 DEF Grows
<1>4. H[m.term].acked[m.from] \in Nat /\ G[m.term].acked[m.from] \in Nat
  BY <1>1, <1>2, <1>3, ReignType DEF Grows
<1>5. QED
  BY <1>1, <1>2, <1>3, <1>4

LEMMA SendsFitKept ==
  ASSUME TypeOK, TypeOK', NEW H, NEW G, Grows(H, G), SendsKept, RoundsFit(H), RequestsFit(H)
  PROVE  (RoundsFit(G) /\ RequestsFit(G))'
<1>1. RoundsFit(G)'
  <2> SUFFICES ASSUME NEW i \in Node, NEW s \in Slot, round'[i][s] # None
               PROVE  Snapshot(G, round'[i][s].log, round'[i][s].term)
    BY DEF RoundsFit, Snapshot, Begins, OnlyAfter
  <2>1. /\ round[i][s] # None
        /\ round'[i][s].term = round[i][s].term /\ round'[i][s].log = round[i][s].log
    BY DEF SendsKept
  <2>2. QED
    BY <2>1, RoundsFitKept
<1>2. RequestsFit(G)'
  <2> SUFFICES ASSUME NEW m \in appendRequests'
               PROVE  m.term \in DOMAIN G /\ (PastTheEnd(m) \/ Cut(G, m))
    BY DEF RequestsFit, PastTheEnd, Cut, LastIndex, OnlyAfter, TermAt
  <2>1. PICK n \in appendRequests :
          /\ m.term = n.term /\ m.prevIndex = n.prevIndex /\ m.prevTerm = n.prevTerm
          /\ m.entries = n.entries
    BY DEF SendsKept
  <2>2. n.term \in DOMAIN G /\ (PastTheEnd(n) \/ Cut(G, n))
    BY RequestsFitKept
  <2>3. QED
    BY <2>1, <2>2 DEF PastTheEnd, Cut, LastIndex
<1>3. QED
  BY <1>1, <1>2

LEMMA AppendsFitKept ==
  ASSUME TypeOK, TypeOK', NEW H, NEW G, Grows(H, G), AppendsKept,
         RoundsFit(H), RequestsFit(H), AnswersFit(H)
  PROVE  (RoundsFit(G) /\ RequestsFit(G) /\ AnswersFit(G))'
<1>1. (RoundsFit(G) /\ RequestsFit(G))'
  BY SendsFitKept DEF AppendsKept
<1>2. AnswersFit(G)'
  <2> SUFFICES ASSUME NEW m \in appendReplies', m.success
               PROVE  m.term \in DOMAIN G /\ m.match <= G[m.term].acked[m.from]
    BY DEF AnswersFit
  <2>1. QED
    BY AnswersFitKept DEF AppendsKept
<1>3. QED
  BY <1>1, <1>2

\* Candidates and elections stay as they are, or end.
AsksKept ==
  /\ \A i \in Node : election'[i] # None =>
       /\ election[i] # None
       /\ election'[i].lastIndex = election[i].lastIndex
       /\ election'[i].lastTerm = election[i].lastTerm
  /\ \A m \in voteRequests' : m.live => m \in voteRequests

LEMMA AsksFitKept ==
  ASSUME TypeOK, TypeOK', VoteInv', AsksFit, AsksKept,
         \A i \in Node : role'[i] = "candidate" =>
           role[i] = "candidate" /\ currentTerm'[i] = currentTerm[i] /\ log'[i] = log[i]
  PROVE  AsksFit'
<1>1. ASSUME NEW i \in Node, role'[i] = "candidate"
      PROVE  /\ currentTerm'[i] > 0
             /\ election'[i] # None =>
                  /\ election'[i].lastIndex = Len(log'[i])
                  /\ election'[i].lastTerm = LastTerm(log'[i])
  BY <1>1 DEF AsksFit, AsksKept
<1>2. ASSUME NEW m \in voteRequests', m.live
      PROVE  /\ m.lastIndex = election'[m.from].lastIndex
             /\ m.lastTerm = election'[m.from].lastTerm
  <2>1. m \in voteRequests /\ election'[m.from] # None
    BY <1>2 DEF AsksKept, VoteInv, CallsMatch
  <2>2. m.from \in Node
    BY <2>1 DEF TypeOK, VoteRequest
  <2>3. QED
    BY <1>2, <2>1, <2>2 DEF AsksFit, AsksKept
<1>3. QED
  BY <1>1, <1>2 DEF AsksFit, LastTerm, TermAt

-----------------------------------------------------------------------------
(* Steps that leave the logs alone and cast no vote *)

LEMMA QuietState ==
  ASSUME TypeOK, TypeOK', VoteStep, VoteInv, NEW H, LogInv(H),
         UNCHANGED log, RolesFall, VotersKept
  PROVE  /\ IsHistory(H)
         /\ (/\ ReignLogs(H) /\ ReignAcks(H) /\ ReignVotes(H) /\ ReignRivals(H)
             /\ LeadersReign(H) /\ LogsFit(H)
             /\ LeadersKeep(H) /\ AckersKeep(H) /\ CandidatesKeep(H))'
<1>1. /\ IsHistory(H) /\ ReignLogs(H) /\ ReignAcks(H) /\ ReignVotes(H) /\ ReignRivals(H)
      /\ LeadersReign(H) /\ LogsFit(H) /\ LeadersKeep(H) /\ AckersKeep(H) /\ CandidatesKeep(H)
  BY DEF LogInv
<1>2. OnlyAcks(H, H) /\ Grows(H, H)
  BY <1>1, SameOnlyAcks DEF OnlyAcks
<1>3. CandidaciesNew
  BY DEF RolesFall, CandidaciesNew
<1>4. ReignLogs(H)'
  BY <1>1, <1>2, ReignLogsKept
<1>5. ReignAcks(H)'
  BY <1>1, ReignAcksKept
<1>6. ReignVotes(H)'
  BY <1>1, <1>2, <1>3, ReignVotesKept
<1>7. ReignRivals(H)'
  BY <1>1, <1>2, RivalsKept
<1>8. LeadersReign(H)'
  BY <1>1, <1>2, LeadersKept DEF RolesFall
<1>9. LogsFit(H)'
  BY <1>1, <1>2, LogsFitKept
<1>10. LeadersKeep(H)'
  BY <1>1, <1>2, LeadersKeepKept
<1>11. AckersKeep(H)'
  BY <1>1, AckersKeepKept
<1>12. CandidatesKeep(H)'
  BY <1>1, <1>2, CandidatesKeepKept
<1>13. QED
  BY <1>1, <1>4, <1>5, <1>6, <1>7, <1>8, <1>9, <1>10, <1>11, <1>12

LEMMA QuietLogs ==
  ASSUME TypeOK, TypeOK', VoteStep, VoteInv, VoteInv', NEW H, LogInv(H),
         UNCHANGED log, RolesFall, VotersKept, AsksKept, AppendsKept
  PROVE  LogInv(H)'
<1>1. AsksFit'
  BY AsksFitKept DEF LogInv, RolesFall
<1>2. IsHistory(H) /\ Grows(H, H)
  BY SameGrows DEF LogInv
<1>3. (RoundsFit(H) /\ RequestsFit(H) /\ AnswersFit(H))'
  BY <1>2, AppendsFitKept DEF LogInv
<1>4. IsHistory(H)'
  BY <1>2 DEF IsHistory, Reign, Entry
<1>5. QED
  BY <1>1, <1>3, <1>4, QuietState DEF LogInv

LEMMA FewerVoters ==
  ASSUME UNCHANGED poll, voteReplies' \subseteq voteReplies
  PROVE  VotersKept
BY DEF VotersKept, Voters

LEMMA SameAppends ==
  ASSUME UNCHANGED <<round, appendRequests, appendReplies>>
  PROVE  AppendsKept
BY DEF AppendsKept, SendsKept

LEMMA SameAsks ==
  ASSUME UNCHANGED <<election, voteRequests>>
  PROVE  AsksKept
BY DEF AsksKept

\* The run loop's call of i ends, and perhaps its election.
LEMMA ElectionFields ==
  ASSUME TypeOK, NEW i \in Node, election[i] # None,
         \/ election' = [election EXCEPT ![i] = None]
         \/ \E c \in Node \cup {None} : election' = [election EXCEPT ![i].calling = c]
  PROVE  \A j \in Node : election'[j] # None =>
           /\ election[j] # None
           /\ election'[j].lastIndex = election[j].lastIndex
           /\ election'[j].lastTerm = election[j].lastTerm
<1>1. election \in [Node -> Election \cup {None}] /\ election[i] \in Election
  BY DEF TypeOK
<1>2. CASE election' = [election EXCEPT ![i] = None]
  BY <1>1, <1>2
<1>3. ASSUME NEW c, election' = [election EXCEPT ![i].calling = c]
      PROVE  \A j \in Node : election'[j] # None =>
               /\ election[j] # None
               /\ election'[j].lastIndex = election[j].lastIndex
               /\ election'[j].lastTerm = election[j].lastTerm
  <2>1. election'[i] = [election[i] EXCEPT !.calling = c]
    BY <1>1, <1>3
  <2>2. /\ election'[i].lastIndex = election[i].lastIndex
        /\ election'[i].lastTerm = election[i].lastTerm
    BY <1>1, <2>1 DEF Election
  <2>3. \A j \in Node \ {i} : election'[j] = election[j]
    BY <1>1, <1>3
  <2>4. QED
    BY <2>2, <2>3
<1>4. QED
  BY <1>2, <1>3

LEMMA AbandonVoteLogs ==
  ASSUME TypeOK, TypeOK', VoteStep, VoteInv, VoteInv', NEW H, LogInv(H),
         NEW i \in Node, AbandonVote(i)
  PROVE  LogInv(H)'
<1>1. /\ UNCHANGED <<log, role, currentTerm, poll, round, appendRequests, appendReplies>>
      /\ voteReplies' \subseteq voteReplies /\ election[i] # None
      /\ election' = [election EXCEPT ![i].calling = None]
  BY DEF AbandonVote, durable, appending
<1>2. RolesFall
  BY <1>1 DEF RolesFall
<1>3. \A m \in voteRequests' : m.live => m \in voteRequests /\ m.from # i
  <2> DEFINE mine == {m \in voteRequests : m.from = i /\ m.live}
  <2>1. \A m \in mine : [m EXCEPT !.live = FALSE].live = FALSE
    BY DEF TypeOK, VoteRequest
  <2>2. \/ voteRequests' = voteRequests \ mine
        \/ voteRequests' = (voteRequests \ mine) \cup {[m EXCEPT !.live = FALSE] : m \in mine}
    BY DEF AbandonVote, LostOrOrphaned
  <2>3. QED
    BY <2>1, <2>2
<1>4. AsksKept
  BY <1>1, <1>3, ElectionFields DEF AsksKept
<1>5. VotersKept /\ AppendsKept
  BY <1>1, FewerVoters, SameAppends
<1>6. QED
  BY <1>1, <1>2, <1>4, <1>5, QuietLogs

LEMMA RequestVoteLogs ==
  ASSUME TypeOK, TypeOK', VoteStep, VoteInv, VoteInv', NEW H, LogInv(H),
         NEW i \in Node, NEW j \in Node, RequestVote(i, j)
  PROVE  LogInv(H)'
<1>1. /\ UNCHANGED <<log, role, currentTerm, poll, round, appendRequests, appendReplies>>
      /\ UNCHANGED voteReplies /\ election[i] # None
  BY DEF RequestVote, durable, appending
<1>2. RolesFall /\ VotersKept /\ AppendsKept
  BY <1>1, FewerVoters, SameAppends DEF RolesFall
<1>3. \A k \in Node : election'[k] # None =>
        /\ election[k] # None
        /\ election'[k].lastIndex = election[k].lastIndex
        /\ election'[k].lastTerm = election[k].lastTerm
  <2>1. election \in [Node -> Election \cup {None}] /\ election[i] \in Election
    BY <1>1 DEF TypeOK
  <2>2. election'[i] = [election[i] EXCEPT !.calling = j, !.todo = @ \ {j}]
    BY <2>1 DEF RequestVote
  <2>3. /\ election'[i].lastIndex = election[i].lastIndex
        /\ election'[i].lastTerm = election[i].lastTerm
    BY <2>1, <2>2 DEF Election
  <2>4. \A k \in Node \ {i} : election'[k] = election[k]
    BY <2>1 DEF RequestVote
  <2>5. QED
    BY <1>1, <2>3, <2>4
<1>4. AsksFit'
  <2> DEFINE q == [from |-> i, to |-> j, term |-> poll[i].term,
                   lastIndex |-> election[i].lastIndex, lastTerm |-> election[i].lastTerm,
                   live |-> TRUE]
  <2>1. /\ voteRequests' = voteRequests \cup {q} /\ q.from = i
        /\ q.lastIndex = election[i].lastIndex /\ q.lastTerm = election[i].lastTerm
    BY DEF RequestVote
  <2>2. AsksFit
    BY DEF LogInv
  <2> HIDE DEF q
  <2>3. ASSUME NEW m \in voteRequests', m.live
        PROVE  /\ m.lastIndex = election'[m.from].lastIndex
               /\ m.lastTerm = election'[m.from].lastTerm
    <3>1. election'[m.from] # None /\ m.from \in Node
      BY <2>3 DEF VoteInv, CallsMatch, TypeOK, VoteRequest
    <3>2. /\ m.lastIndex = election[m.from].lastIndex
          /\ m.lastTerm = election[m.from].lastTerm
      BY <2>1, <2>2, <2>3 DEF AsksFit
    <3>3. QED
      BY <1>3, <3>1, <3>2
  <2>4. ASSUME NEW k \in Node, role'[k] = "candidate"
        PROVE  /\ currentTerm'[k] > 0
               /\ election'[k] # None =>
                    /\ election'[k].lastIndex = Len(log'[k])
                    /\ election'[k].lastTerm = LastTerm(log'[k])
    BY <1>1, <1>3, <2>2, <2>4 DEF AsksFit
  <2>5. QED
    BY <2>3, <2>4 DEF AsksFit, LastTerm, TermAt
<1>5. IsHistory(H) /\ Grows(H, H)
  BY SameGrows DEF LogInv
<1>6. (RoundsFit(H) /\ RequestsFit(H) /\ AnswersFit(H))'
  BY <1>2, <1>5, AppendsFitKept DEF LogInv
<1>7. QED
  BY <1>1, <1>2, <1>4, <1>5, <1>6, QuietState DEF LogInv

LEMMA HandleVoteReplyLogs ==
  ASSUME TypeOK, TypeOK', VoteStep, VoteInv, VoteInv', NEW H, LogInv(H),
         NEW m \in voteReplies, HandleVoteReply(m)
  PROVE  LogInv(H)'
<1> DEFINE i == m.to
<1>1. /\ i \in Node /\ m.from \in Node
      /\ UNCHANGED <<log, voteRequests, round, appendRequests, appendReplies>>
      /\ election[i] # None /\ voteReplies' = voteReplies \ {m}
      /\ \/ election' = [election EXCEPT ![i] = None]
         \/ election' = [election EXCEPT ![i].calling = None]
  BY DEF TypeOK, VoteReply, HandleVoteReply, appending
<1>2. RolesFall
  BY <1>1 DEF TypeOK, HandleVoteReply, StepDown, RolesFall
<1>3. AsksKept
  BY <1>1, ElectionFields DEF AsksKept
<1>4. AppendsKept
  BY <1>1, SameAppends
<1>5. VotersKept
  <2>1. CASE UNCHANGED poll
    BY <1>1, <2>1, FewerVoters
  <2>2. CASE poll' = [poll EXCEPT ![i].votes = IF m.granted THEN @ \cup {m.from} ELSE @]
    <3>1. poll \in [Node -> Poll] /\ poll[i] \in Poll
      BY <1>1 DEF TypeOK
    <3>2. /\ poll'[i].term = poll[i].term
          /\ poll'[i].votes = IF m.granted THEN poll[i].votes \cup {m.from} ELSE poll[i].votes
      BY <1>1, <2>2, <3>1 DEF Poll
    <3>3. \A k \in Node \ {i} : poll'[k] = poll[k]
      BY <2>2, <3>1
    <3>4. Voters(i)' \subseteq Voters(i)
      BY <1>1, <3>2 DEF Voters
    <3>5. \A k \in Node \ {i} : Voters(k)' \subseteq Voters(k)
      BY <1>1, <3>3 DEF Voters
    <3>6. QED
      BY <3>2, <3>3, <3>4, <3>5 DEF VotersKept
  <2>3. QED
    BY <2>1, <2>2 DEF HandleVoteReply
<1>6. QED
  BY <1>1, <1>2, <1>3, <1>4, <1>5, QuietLogs

LEMMA NotElectedLogs ==
  ASSUME TypeOK, TypeOK', VoteStep, VoteInv, VoteInv', NEW H, LogInv(H),
         NEW i \in Node, FinishElection(i), ~Elected(i)
  PROVE  LogInv(H)'
<1>1. /\ UNCHANGED <<log, role, currentTerm, poll, voteRequests, voteReplies,
                     round, appendRequests, appendReplies>>
      /\ election[i] # None /\ election' = [election EXCEPT ![i] = None]
  BY DEF FinishElection, durable, appending
<1>2. RolesFall /\ VotersKept /\ AppendsKept
  BY <1>1, FewerVoters, SameAppends DEF RolesFall
<1>3. AsksKept
  BY <1>1, ElectionFields DEF AsksKept
<1>4. QED
  BY <1>1, <1>2, <1>3, QuietLogs

-----------------------------------------------------------------------------
(* Crashes that leave the log as it was *)

LEMMA RestartLogs ==
  ASSUME TypeOK, TypeOK', VoteStep, VoteInv, VoteInv', NEW H, LogInv(H),
         NEW i \in Node, Restart(i), UNCHANGED log,
         \A j \in Node \ {i} : currentTerm'[j] = currentTerm[j],
         NEW V \in SUBSET voteRequests, voteRequests' = Orphaned(V, i),
         NEW A \in SUBSET appendRequests, appendRequests' = Orphaned(A, i)
  PROVE  LogInv(H)'
<1>1. RolesFall /\ VotersKept
  BY FewerVoters DEF TypeOK, Restart, RolesFall
<1>2. AsksKept
  <2>1. \A m \in V : [m EXCEPT !.live = FALSE].live = FALSE
    BY DEF TypeOK, VoteRequest
  <2>2. \A m \in voteRequests' : m.live => m \in voteRequests
    BY <2>1 DEF Orphaned
  <2>3. \A j \in Node : election'[j] # None => election'[j] = election[j]
    BY DEF TypeOK, Restart
  <2>4. QED
    BY <2>2, <2>3 DEF AsksKept
<1>3. AppendsKept
  <2>1. \A j \in Node, s \in Slot : round'[j][s] # None => round'[j][s] = round[j][s]
    <3>1. round \in [Node -> [Slot -> Round \cup {None}]]
      BY DEF TypeOK
    <3>2. QED
      BY <3>1 DEF Restart
  <2>2. ASSUME NEW m \in appendRequests'
        PROVE  \E n \in appendRequests :
                 /\ m.term = n.term /\ m.prevIndex = n.prevIndex /\ m.prevTerm = n.prevTerm
                 /\ m.entries = n.entries
    <3>1. PICK n \in A : m = n \/ m = [n EXCEPT !.live = FALSE]
      BY DEF Orphaned
    <3>2. n \in AppendRequest
      BY DEF TypeOK
    <3>3. QED
      BY <3>1, <3>2 DEF AppendRequest
  <2>3. appendReplies' \subseteq appendReplies
    BY DEF Restart
  <2>4. QED
    BY <2>1, <2>2, <2>3 DEF AppendsKept, SendsKept
<1>4. QED
  BY <1>1, <1>2, <1>3, QuietLogs

LEMMA CrashLogs ==
  ASSUME TypeOK, TypeOK', VoteStep, VoteInv, VoteInv', NEW H, LogInv(H), UNCHANGED log,
         \/ \E i \in Node : Crash(i)
         \/ \E m \in voteRequests : CrashInVote(m)
         \/ \E m \in appendRequests : CrashInAppend(m)
  PROVE  LogInv(H)'
<1>1. ASSUME NEW i \in Node, Crash(i) PROVE LogInv(H)'
  BY <1>1, RestartLogs DEF Crash, durable
<1>2. ASSUME NEW m \in voteRequests, CrashInVote(m) PROVE LogInv(H)'
  <2>1. m.to \in Node
    BY DEF TypeOK, VoteRequest
  <2>2. \A j \in Node \ {m.to} : currentTerm'[j] = currentTerm[j]
    BY <1>2 DEF TypeOK, CrashInVote
  <2>3. QED
    BY <1>2, <2>1, <2>2, RestartLogs DEF CrashInVote
<1>3. ASSUME NEW m \in appendRequests, CrashInAppend(m) PROVE LogInv(H)'
  <2>1. m.to \in Node
    BY DEF TypeOK, AppendRequest
  <2>2. \A j \in Node \ {m.to} : currentTerm'[j] = currentTerm[j]
    BY <1>3 DEF TypeOK, CrashInAppend
  <2>3. QED
    BY <1>3, <2>1, <2>2, RestartLogs DEF CrashInAppend
<1>4. QED
  BY <1>1, <1>2, <1>3

-----------------------------------------------------------------------------
(* Rounds *)

\* A step on the side of rounds: no vote, role or log changes, except that a
\* node may step down.
LEMMA RoundStep ==
  ASSUME TypeOK, TypeOK', VoteStep, VoteInv, VoteInv', NEW H, LogInv(H), UNCHANGED log,
         RolesFall, UNCHANGED voting, (RoundsFit(H) /\ RequestsFit(H) /\ AnswersFit(H))'
  PROVE  LogInv(H)'
<1>1. VotersKept /\ AsksKept
  BY FewerVoters, SameAsks DEF voting
<1>2. AsksFit'
  BY <1>1, AsksFitKept DEF LogInv, RolesFall
<1>3. QED
  BY <1>1, <1>2, QuietState DEF LogInv

\* What the other rounds send stays the beginning of a leader's log.
LEMMA OtherRounds ==
  ASSUME TypeOK, TypeOK', NEW H, LogInv(H), NEW i \in Node, NEW s \in Slot,
         round' = [round EXCEPT ![i][s] = round'[i][s]],
         round'[i][s] # None => Snapshot(H, round'[i][s].log, round'[i][s].term)
  PROVE  RoundsFit(H)'
<1> SUFFICES ASSUME NEW j \in Node, NEW r \in Slot, round'[j][r] # None
             PROVE  Snapshot(H, round'[j][r].log, round'[j][r].term)
  BY DEF RoundsFit, Snapshot, Begins, OnlyAfter
<1>1. round \in [Node -> [Slot -> Round \cup {None}]]
  BY DEF TypeOK
<1>2. CASE j = i /\ r = s
  BY <1>2
<1>3. CASE j # i \/ r # s
  <2>1. round'[j][r] = round[j][r]
    BY <1>1, <1>3
  <2>2. QED
    BY <2>1 DEF LogInv, RoundsFit
<1>4. QED
  BY <1>2, <1>3

LEMMA StartRoundLogs ==
  ASSUME TypeOK, TypeOK', VoteStep, VoteInv, VoteInv', NEW H, LogInv(H),
         NEW i \in Node, NEW s \in Slot, StartRound(i, s)
  PROVE  LogInv(H)'
<1> DEFINE r == [term |-> currentTerm[i], log |-> log[i], commit |-> commitIndex[i],
                 todo |-> PeerIds(Cell, i), calling |-> None]
<1>1. /\ UNCHANGED <<log, role, currentTerm, voting, appendRequests, appendReplies>>
      /\ role[i] = "leader" /\ round' = [round EXCEPT ![i][s] = r]
  BY DEF StartRound, durable
<1>2. r.log = log[i] /\ r.term = currentTerm[i]
  OBVIOUS
<1> HIDE DEF r
<1>3. RolesFall
  BY <1>1 DEF RolesFall
<1>4. round'[i][s] = r
  <2>1. round \in [Node -> [Slot -> Round \cup {None}]]
    BY DEF TypeOK
  <2>2. QED
    BY <1>1, <2>1
<1>5. Snapshot(H, log[i], currentTerm[i])
  <2>1. currentTerm[i] \in DOMAIN H /\ H[currentTerm[i]].log = log[i]
    BY <1>1 DEF LogInv, LeadersReign
  <2>2. log[i] \in Seq(Entry)
    BY DEF TypeOK
  <2>3. QED
    BY <2>1, <2>2 DEF Snapshot, Begins, OnlyAfter
<1>6. RoundsFit(H)'
  BY <1>1, <1>2, <1>4, <1>5, OtherRounds
<1>7. (RequestsFit(H) /\ AnswersFit(H))'
  BY <1>1 DEF LogInv, RequestsFit, AnswersFit, PastTheEnd, Cut, LastIndex, OnlyAfter, TermAt
<1>8. QED
  BY <1>1, <1>3, <1>6, <1>7, RoundStep

\* The end of a log.
LEMMA SubSeqEnd ==
  ASSUME NEW l \in Seq(Entry), NEW p \in Nat, p <= Len(l)
  PROVE  LET e == SubSeq(l, p + 1, Len(l)) IN
         e \in Seq(Entry) /\ Len(e) = Len(l) - p /\ \A k \in 1 .. Len(e) : e[k] = l[p + k]
<1> DEFINE e == SubSeq(l, p + 1, Len(l))
<1>1. Len(l) \in Nat /\ DOMAIN l = 1 .. Len(l) /\ p + 1 \in Int /\ Len(l) \in Int
  BY EntryType
<1>2. \A k \in p + 1 .. Len(l) : l[k] \in Entry
  BY <1>1
<1>3. /\ e \in Seq(Entry)
      /\ Len(e) = IF p + 1 <= Len(l) THEN Len(l) - (p + 1) + 1 ELSE 0
      /\ \A k \in 1 .. Len(l) - (p + 1) + 1 : e[k] = l[(p + 1) + k - 1]
  BY <1>1, <1>2, SubSeqProperties
<1> HIDE DEF e
<1>4. Len(e) = Len(l) - p
  <2> DEFINE n == Len(l)
  <2>1. (IF p + 1 <= n THEN n - (p + 1) + 1 ELSE 0) = n - p
    <3>1. n \in Nat /\ p <= n
      BY <1>1
    <3> HIDE DEF n
    <3>2. QED
      BY <3>1
  <2>2. QED
    BY <1>3, <2>1
<1>5. ASSUME NEW k \in 1 .. Len(e) PROVE e[k] = l[p + k]
  <2>1. k \in 1 .. Len(l) - (p + 1) + 1 /\ (p + 1) + k - 1 = p + k
    BY <1>1, <1>4
  <2>2. QED
    BY <1>3, <2>1
<1>6. QED
  BY <1>3, <1>4, <1>5 DEF e

\* What a round sends: the end of its log, from wherever _next_index points.
LEMMA RequestCut ==
  ASSUME NEW H, IsHistory(H), NEW t, NEW l \in Seq(Entry), Snapshot(H, l, t), NEW p \in Nat,
         NEW m, m.term = t, m.prevIndex = p, m.prevTerm = TermAt(l, p),
         m.entries = SubSeq(l, p + 1, Len(l))
  PROVE  m.term \in DOMAIN H /\ (PastTheEnd(m) \/ Cut(H, m))
<1> DEFINE n == H[t].log
<1>1. /\ t \in DOMAIN H /\ Len(l) <= Len(n) /\ \A k \in DOMAIN l : n[k] = l[k]
      /\ OnlyAfter(n, Len(l), t)
  BY DEF Snapshot, Begins
<1>2. /\ Len(l) \in Nat /\ DOMAIN l = 1 .. Len(l) /\ Len(n) \in Nat /\ DOMAIN n = 1 .. Len(n)
  BY <1>1, EntryType, ReignType
<1> HIDE DEF n
<1>3. CASE p > Len(l)
  <2>1. m.prevTerm = 0 /\ m.prevIndex > 0
    BY <1>2, <1>3 DEF TermAt
  <2>2. QED
    BY <1>1, <2>1 DEF PastTheEnd
<1>4. CASE p <= Len(l)
  <2> DEFINE e == SubSeq(l, p + 1, Len(l))
  <2>1. e \in Seq(Entry) /\ Len(e) = Len(l) - p /\ \A k \in 1 .. Len(e) : e[k] = l[p + k]
    BY <1>4, SubSeqEnd
  <2>2. m.entries = e
    OBVIOUS
  <2> HIDE DEF e
  <2>3. LastIndex(m) = Len(l)
    <3>1. p + (Len(l) - p) = Len(l)
      BY <1>2
    <3>2. QED
      BY <2>1, <2>2, <3>1 DEF LastIndex
  <2>4. m.prevTerm = TermAt(n, p)
    BY <1>1, <1>2, <1>4 DEF TermAt
  <2>5. ASSUME NEW k \in DOMAIN e PROVE e[k] = n[p + k]
    <3>1. k \in 1 .. Len(e) /\ p + k \in DOMAIN l
      BY <1>2, <1>4, <2>1
    <3>2. QED
      BY <1>1, <2>1, <3>1
  <2>6. QED
    BY <1>1, <2>2, <2>3, <2>4, <2>5 DEF Cut, n
<1>5. QED
  BY <1>2, <1>3, <1>4

LEMMA AppendEntriesLogs ==
  ASSUME TypeOK, TypeOK', VoteStep, VoteInv, VoteInv', NEW H, LogInv(H),
         NEW i \in Node, NEW s \in Slot, NEW j \in Node, AppendEntries(i, s, j)
  PROVE  LogInv(H)'
<1> DEFINE r == round[i][s]
           p == nextIndex[i][j] - 1
           q == [from |-> i, slot |-> s, to |-> j, term |-> r.term, prevIndex |-> p,
                 prevTerm |-> TermAt(r.log, p), entries |-> SubSeq(r.log, p + 1, Len(r.log)),
                 commit |-> r.commit, live |-> TRUE]
<1>1. /\ UNCHANGED <<log, role, currentTerm, voting, appendReplies>>
      /\ r # None /\ appendRequests' = appendRequests \cup {q}
      /\ round' = [round EXCEPT ![i][s] = [r EXCEPT !.calling = j, !.todo = r.todo \ {j}]]
  BY DEF AppendEntries, durable
<1>2. r \in Round /\ p \in Nat /\ r.log \in Seq(Entry)
  <2>1. r \in Round /\ nextIndex[i][j] \in Nat \ {0}
    BY <1>1 DEF TypeOK
  <2>2. QED
    BY <2>1 DEF Round
<1>3. Snapshot(H, r.log, r.term)
  BY <1>1 DEF LogInv, RoundsFit
<1>4. /\ q.term = r.term /\ q.prevIndex = p /\ q.prevTerm = TermAt(r.log, p)
      /\ q.entries = SubSeq(r.log, p + 1, Len(r.log))
  OBVIOUS
<1>5. /\ round'[i][s].log = r.log /\ round'[i][s].term = r.term
      /\ round' = [round EXCEPT ![i][s] = round'[i][s]]
  <2>1. round \in [Node -> [Slot -> Round \cup {None}]]
    BY DEF TypeOK
  <2>2. round'[i][s] = [r EXCEPT !.calling = j, !.todo = r.todo \ {j}]
    BY <1>1, <2>1
  <2>3. QED
    BY <1>1, <1>2, <2>2 DEF Round
<1> HIDE DEF r, p, q
<1>6. RoundsFit(H)'
  BY <1>3, <1>5, OtherRounds
<1>7. q.term \in DOMAIN H /\ (PastTheEnd(q) \/ Cut(H, q))
  BY <1>2, <1>3, <1>4, RequestCut DEF LogInv
<1>8. RequestsFit(H)'
  <2>1. \A m \in appendRequests' : m.term \in DOMAIN H /\ (PastTheEnd(m) \/ Cut(H, m))
    BY <1>1, <1>7 DEF LogInv, RequestsFit
  <2>2. QED
    BY <2>1 DEF RequestsFit, PastTheEnd, Cut, LastIndex, OnlyAfter, TermAt
<1>9. AnswersFit(H)'
  BY <1>1 DEF LogInv, AnswersFit
<1>10. RolesFall
  BY <1>1 DEF RolesFall
<1>11. QED
  BY <1>1, <1>6, <1>8, <1>9, <1>10, RoundStep

\* A round ends or goes on with the same log and term.
LEMMA RoundFields ==
  ASSUME TypeOK, NEW i \in Node, NEW s \in Slot, round[i][s] # None,
         \/ round' = [round EXCEPT ![i][s] = None]
         \/ round' = [round EXCEPT ![i][s].calling = None]
  PROVE  \A j \in Node, r \in Slot : round'[j][r] # None =>
           /\ round[j][r] # None
           /\ round'[j][r].term = round[j][r].term /\ round'[j][r].log = round[j][r].log
           /\ round'[j][r].commit = round[j][r].commit
<1>1. round \in [Node -> [Slot -> Round \cup {None}]] /\ round[i][s] \in Round
  BY DEF TypeOK
<1>2. CASE round' = [round EXCEPT ![i][s] = None]
  BY <1>1, <1>2
<1>3. CASE round' = [round EXCEPT ![i][s].calling = None]
  <2>1. round'[i][s] = [round[i][s] EXCEPT !.calling = None]
    BY <1>1, <1>3
  <2>2. /\ round'[i][s].term = round[i][s].term /\ round'[i][s].log = round[i][s].log
        /\ round'[i][s].commit = round[i][s].commit
    BY <1>1, <2>1 DEF Round
  <2>3. \A j \in Node, r \in Slot : j # i \/ r # s => round'[j][r] = round[j][r]
    BY <1>1, <1>3
  <2>4. QED
    BY <2>2, <2>3
<1>4. QED
  BY <1>2, <1>3

LEMMA RoundEndsLogs ==
  ASSUME TypeOK, TypeOK', VoteStep, VoteInv, VoteInv', NEW H, LogInv(H), UNCHANGED log,
         RolesFall, UNCHANGED voting, NEW i \in Node, NEW s \in Slot, round[i][s] # None,
         \/ round' = [round EXCEPT ![i][s] = None]
         \/ round' = [round EXCEPT ![i][s].calling = None],
         \A m \in appendRequests' : \E n \in appendRequests :
           /\ m.term = n.term /\ m.prevIndex = n.prevIndex /\ m.prevTerm = n.prevTerm
           /\ m.entries = n.entries,
         appendReplies' \subseteq appendReplies
  PROVE  LogInv(H)'
<1>1. AppendsKept
  BY RoundFields DEF AppendsKept, SendsKept
<1>2. IsHistory(H) /\ Grows(H, H)
  BY SameGrows DEF LogInv
<1>3. (RoundsFit(H) /\ RequestsFit(H) /\ AnswersFit(H))'
  BY <1>1, <1>2, AppendsFitKept DEF LogInv
<1>4. QED
  BY <1>3, RoundStep

LEMMA HandleAppendReplyRoles ==
  ASSUME TypeOK, NEW m \in appendReplies, HandleAppendReply(m)
  PROVE  RolesFall
<1>1. m.to \in Node
  BY DEF TypeOK, AppendReply
<1>2. \/ UNCHANGED <<currentTerm, role>>
      \/ /\ currentTerm' = [currentTerm EXCEPT ![m.to] = m.term]
         /\ role' = [role EXCEPT ![m.to] = "follower"]
  BY DEF HandleAppendReply, StepDown
<1>3. QED
  BY <1>1, <1>2 DEF TypeOK, RolesFall

LEMMA HandleAppendReplyLogs ==
  ASSUME TypeOK, TypeOK', VoteStep, VoteInv, VoteInv', NEW H, LogInv(H),
         NEW m \in appendReplies, HandleAppendReply(m)
  PROVE  LogInv(H)'
<1>1. m.to \in Node /\ m.slot \in Slot
  BY DEF TypeOK, AppendReply
<1>2. RolesFall
  BY HandleAppendReplyRoles
<1>3. /\ UNCHANGED <<log, voting, appendRequests>> /\ appendReplies' \subseteq appendReplies
      /\ round[m.to][m.slot] # None
      /\ \/ round' = [round EXCEPT ![m.to][m.slot] = None]
         \/ round' = [round EXCEPT ![m.to][m.slot].calling = None]
  BY DEF HandleAppendReply
<1>4. QED
  BY <1>1, <1>2, <1>3, RoundEndsLogs

LEMMA AbandonAppendLogs ==
  ASSUME TypeOK, TypeOK', VoteStep, VoteInv, VoteInv', NEW H, LogInv(H),
         NEW i \in Node, NEW s \in Slot, AbandonAppend(i, s)
  PROVE  LogInv(H)'
<1>1. /\ UNCHANGED <<log, voting, role, currentTerm>> /\ appendReplies' \subseteq appendReplies
      /\ round[i][s] # None /\ round' = [round EXCEPT ![i][s].calling = None]
  BY DEF AbandonAppend, durable
<1>2. RolesFall
  BY <1>1 DEF RolesFall
<1>3. ASSUME NEW m \in appendRequests'
      PROVE  \E n \in appendRequests :
               /\ m.term = n.term /\ m.prevIndex = n.prevIndex /\ m.prevTerm = n.prevTerm
               /\ m.entries = n.entries
  <2>1. PICK mine \in SUBSET appendRequests :
          \/ appendRequests' = appendRequests \ mine
          \/ appendRequests' =
               (appendRequests \ mine) \cup {[n EXCEPT !.live = FALSE] : n \in mine}
    BY DEF AbandonAppend, LostOrOrphaned
  <2>2. PICK n \in appendRequests : m = n \/ m = [n EXCEPT !.live = FALSE]
    BY <2>1
  <2>3. n \in AppendRequest
    BY DEF TypeOK
  <2>4. QED
    BY <2>2, <2>3 DEF AppendRequest
<1>4. QED
  BY <1>1, <1>2, <1>3, RoundEndsLogs

LEMMA FinishRoundLogs ==
  ASSUME TypeOK, TypeOK', VoteStep, VoteInv, VoteInv', NEW H, LogInv(H),
         NEW i \in Node, NEW s \in Slot, FinishRound(i, s)
  PROVE  LogInv(H)'
<1>1. /\ UNCHANGED <<log, voting, role, currentTerm, appendRequests, appendReplies>>
      /\ round[i][s] # None /\ round' = [round EXCEPT ![i][s] = None]
  BY DEF FinishRound
<1>2. RolesFall
  BY <1>1 DEF RolesFall
<1>3. QED
  BY <1>1, <1>2, RoundEndsLogs

LEMMA IdleLogs ==
  ASSUME TypeOK, TypeOK', VoteStep, VoteInv, VoteInv', NEW H, LogInv(H),
         UNCHANGED <<log, currentTerm, role, voting, appending>>
  PROVE  LogInv(H)'
<1>1. RolesFall /\ VotersKept /\ AsksKept /\ AppendsKept
  BY FewerVoters, SameAsks, SameAppends DEF voting, appending, RolesFall
<1>2. QED
  BY <1>1, QuietLogs

-----------------------------------------------------------------------------
(* Votes *)

LEMMA StartElectionLogs ==
  ASSUME TypeOK, TypeOK', VoteStep, VoteInv, VoteInv', NEW H, LogInv(H),
         NEW i \in Node, StartElection(i)
  PROVE  LogInv(H)'
<1>1. /\ UNCHANGED <<log, voteRequests, voteReplies, round, appendRequests, appendReplies>>
      /\ role' = [role EXCEPT ![i] = "candidate"] /\ role \in [Node -> Role]
      /\ currentTerm' = [currentTerm EXCEPT ![i] = @ + 1] /\ currentTerm \in [Node -> Nat]
      /\ poll' = [poll EXCEPT ![i] = [term |-> currentTerm[i] + 1, votes |-> {i}]]
      /\ poll \in [Node -> Poll] /\ election \in [Node -> Election \cup {None}]
      /\ election[i] = None
  BY DEF StartElection, TypeOK, appending
<1>2. /\ currentTerm'[i] = currentTerm[i] + 1 /\ currentTerm[i] \in Nat
      /\ \A k \in Node \ {i} : currentTerm'[k] = currentTerm[k] /\ role'[k] = role[k]
      /\ role'[i] = "candidate"
  BY <1>1
<1>3. /\ poll'[i].term = currentTerm[i] + 1 /\ poll'[i].votes = {i}
      /\ \A k \in Node \ {i} : poll'[k] = poll[k]
  BY <1>1
<1>4. /\ IsHistory(H) /\ ReignLogs(H) /\ ReignAcks(H) /\ ReignVotes(H) /\ ReignRivals(H)
      /\ LeadersReign(H) /\ LogsFit(H) /\ LeadersKeep(H) /\ AckersKeep(H) /\ CandidatesKeep(H)
      /\ AsksFit /\ OnlyAcks(H, H) /\ Grows(H, H)
  BY SameOnlyAcks DEF LogInv, OnlyAcks
<1>5. /\ \A m \in voteRequests : m.live => m.from # i
      /\ \A m \in voteReplies : m.to # i
  BY <1>1, NoCallNoMessage DEF VoteInv
<1>6. Voters(i)' = {i} /\ \A k \in Node \ {i} : Voters(k)' = Voters(k)
  BY <1>1, <1>3, <1>5 DEF Voters
<1>7. CandidaciesNew
  BY <1>2 DEF CandidaciesNew
<1>8. ReignVotes(H)'
  BY <1>4, <1>7, ReignVotesKept
<1>9. (ReignLogs(H) /\ ReignAcks(H) /\ LogsFit(H) /\ LeadersKeep(H) /\ AckersKeep(H))'
  BY <1>1, <1>4, ReignLogsKept, ReignAcksKept, LogsFitKept, LeadersKeepKept, AckersKeepKept
<1>10. LeadersReign(H)'
  <2>1. \A k \in Node : role'[k] = "leader" =>
          role[k] = "leader" /\ currentTerm'[k] = currentTerm[k] /\ log'[k] = log[k]
    BY <1>1, <1>2
  <2>2. QED
    BY <1>4, <2>1, LeadersKept
<1>11. ReignRivals(H)'
  <2> SUFFICES ASSUME NEW t \in DOMAIN H, NEW k \in Node \ {H[t].leader}, poll'[k].term = t
               PROVE  Voters(k)' \cap H[t].votes = {}
    BY DEF ReignRivals
  <2>1. CASE k # i
    BY <1>3, <1>4, <1>6, <2>1 DEF ReignRivals
  <2>2. CASE k = i
    <3>1. i \in H[t].votes => Cast(i, t, H[t].leader)
      BY <1>4 DEF ReignVotes
    <3>2. i \notin H[t].votes
      BY <1>2, <1>3, <2>2, <3>1 DEF Cast
    <3>3. QED
      BY <1>6, <2>2, <3>2
  <2>3. QED
    BY <2>1, <2>2
<1>12. CandidatesKeep(H)'
  <2> SUFFICES ASSUME NEW n \in Node, NEW t \in DOMAIN H, NEW k \in DOMAIN H[t].log,
                      role'[n] = "candidate", t < currentTerm'[n], Alive(H, k, t)',
                      ~Has(log[n], k, t), NEW v \in Voters(n)'
               PROVE  Missed(H, v, k, t)'
    BY <1>1 DEF CandidatesKeep, Has
  <2>1. Alive(H, k, t)
    BY <1>4, AliveBefore
  <2>2. CASE n # i
    <3>1. Missed(H, v, k, t)
      BY <1>2, <1>4, <1>6, <2>1, <2>2 DEF CandidatesKeep
    <3>2. v \in Node
      BY <1>6, <2>2, VotersType
    <3>3. QED
      BY <1>4, <3>1, <3>2, MissedKept
  <2>3. CASE n = i
    <3>1. ~(k <= H[t].acked[i])
      BY <1>4, <2>1, <2>3 DEF AckersKeep
    <3>2. H[t].acked[i] \in Nat /\ k \in Nat
      BY <1>4, ReignType
    <3>3. QED
      BY <1>6, <2>3, <3>1, <3>2 DEF Missed
  <2>4. QED
    BY <2>2, <2>3
<1>13. AsksFit'
  <2> DEFINE e == [lastIndex |-> Len(log[i]), lastTerm |-> LastTerm(log[i]),
                   todo |-> PeerIds(Cell, i), calling |-> None]
  <2>1. /\ election'[i] = e /\ e.lastIndex = Len(log[i]) /\ e.lastTerm = LastTerm(log[i])
        /\ \A k \in Node \ {i} : election'[k] = election[k]
    BY <1>1 DEF StartElection
  <2> HIDE DEF e
  <2>2. ASSUME NEW k \in Node, role'[k] = "candidate"
        PROVE  /\ currentTerm'[k] > 0
               /\ election'[k] # None =>
                    /\ election'[k].lastIndex = Len(log'[k])
                    /\ election'[k].lastTerm = LastTerm(log'[k])
    BY <1>1, <1>2, <1>4, <2>1, <2>2 DEF AsksFit
  <2>3. \A m \in voteRequests : m.from \in Node
    BY DEF TypeOK, VoteRequest
  <2>4. QED
    BY <1>1, <1>4, <1>5, <2>1, <2>2, <2>3 DEF AsksFit, LastTerm, TermAt
<1>14. AppendsKept
  BY <1>1, SameAppends
<1>15. (RoundsFit(H) /\ RequestsFit(H) /\ AnswersFit(H))'
  BY <1>4, <1>14, AppendsFitKept DEF LogInv
<1>16. QED
  BY <1>4, <1>8, <1>9, <1>10, <1>11, <1>12, <1>13, <1>15 DEF LogInv

\* A log as up to date as one that has a live entry has it too: either its
\* last entry was created by a later leader, who had the live entry, or it is
\* a longer part of the log of the same leader.
LEMMA UpToDateHas ==
  ASSUME TypeOK, NEW H, LogInv(H), NEW c \in Node, NEW j \in Node,
         UpToDate(LastTerm(log[c]), Len(log[c]), log[j]),
         NEW t \in DOMAIN H, NEW k \in DOMAIN H[t].log, Alive(H, k, t), Has(log[j], k, t)
  PROVE  Has(log[c], k, t)
<1> DEFINE l == log[c]
           n == log[j]
           w == LastTerm(l)
           last == Len(l)
<1>1. l \in Seq(Entry) /\ n \in Seq(Entry) /\ IsHistory(H)
  BY DEF TypeOK, LogInv
<1>2. /\ Fits(H, l) /\ Fits(H, n) /\ Ordered(n, currentTerm[j]) /\ LeadersKeep(H)
      /\ \A u \in DOMAIN H : Ordered(H[u].log, u)
  BY DEF LogInv, LogsFit, ReignLogs
<1>3. UpToDate(w, last, n) /\ k \in DOMAIN n /\ n[k].term = t
  BY DEF Has
<1>4. t \in Nat \ {0} /\ t \in DOMAIN H /\ H[t].log \in Seq(Entry)
  BY <1>1, ReignType
<1> HIDE DEF l, n
<1>5. /\ last \in Nat /\ DOMAIN l = 1 .. last /\ \A x \in DOMAIN l : l[x].term \in Nat
      /\ Len(n) \in Nat /\ DOMAIN n = 1 .. Len(n) /\ \A x \in DOMAIN n : n[x].term \in Nat
      /\ w \in Nat
  BY <1>1, EntryType, LastTermType
<1>6. LastTerm(n) \in Nat /\ LastTerm(n) >= t /\ Len(n) >= k /\ k \in Nat
  <2>1. Len(n) \in DOMAIN n /\ k \in 1 .. Len(n)
    BY <1>3, <1>5
  <2>2. n[k].term <= n[Len(n)].term
    BY <1>2, <2>1 DEF Ordered
  <2>3. QED
    BY <1>3, <1>5, <2>1, <2>2 DEF LastTerm, TermAt
<1>7. w >= LastTerm(n) /\ (w = LastTerm(n) => last >= Len(n))
  BY <1>3, <1>5, <1>6 DEF UpToDate
<1>8. last \in DOMAIN l /\ l[last].term = w
  <2>1. w > 0
    BY <1>4, <1>5, <1>6, <1>7
  <2>2. QED
    BY <1>5, <2>1 DEF LastTerm, TermAt
<1>9. /\ w \in DOMAIN H /\ last \in DOMAIN H[w].log
      /\ \A x \in 1 .. last : H[w].log[x] = l[x]
  BY <1>2, <1>8 DEF Fits
<1>10. H[w].log \in Seq(Entry)
  BY <1>1, <1>9, ReignType
<1> HIDE DEF w, last
<1>11. CASE w > t
  <2>1. Has(H[w].log, k, t)
    BY <1>2, <1>4, <1>9, <1>11 DEF LeadersKeep
  <2>2. k <= last
    <3>1. SUFFICES ASSUME k > last PROVE FALSE
      BY <1>5, <1>6
    <3>2. last \in 1 .. k
      BY <1>5, <1>6, <1>8, <3>1
    <3>3. H[w].log[last].term <= H[w].log[k].term
      BY <1>2, <1>9, <2>1, <3>2 DEF Ordered, Has
    <3>4. H[w].log[last] = l[last]
      BY <1>5, <1>8, <1>9
    <3>5. QED
      BY <1>4, <1>5, <1>8, <1>11, <2>1, <3>3, <3>4 DEF Has
  <2>3. k \in 1 .. last
    BY <1>3, <1>5, <1>6, <2>2
  <2>4. H[w].log[k] = l[k]
    BY <1>9, <2>3
  <2>5. QED
    BY <1>5, <2>1, <2>3, <2>4 DEF Has, l
<1>12. CASE w = t
  <2>1. k \in 1 .. last
    BY <1>3, <1>4, <1>5, <1>6, <1>7, <1>12
  <2>2. H[t].log[k] = l[k] /\ H[t].log[k].term = t
    BY <1>9, <1>12, <2>1 DEF Alive, Own, Has
  <2>3. QED
    BY <1>5, <2>1, <2>2 DEF Has, l
<1>13. QED
  BY <1>4, <1>5, <1>6, <1>7, <1>11, <1>12

LEMMA HandleRequestVoteLogs ==
  ASSUME TypeOK, TypeOK', VoteStep, VoteInv, VoteInv', NEW H, LogInv(H),
         NEW m \in voteRequests, HandleRequestVote(m)
  PROVE  LogInv(H)'
<1> DEFINE j == m.to
           c == m.from
<1>1. /\ j \in Node /\ c \in Node /\ m.term \in Nat /\ currentTerm[j] \in Nat
      /\ currentTerm'[j] \in Nat
  BY DEF TypeOK, VoteRequest
<1>2. /\ UNCHANGED <<log, poll, election, round, appendRequests, appendReplies>>
      /\ voteRequests' = voteRequests \ {m}
  BY DEF HandleRequestVote, appending
<1>3. RolesFall
  BY <1>1 DEF TypeOK, HandleRequestVote, RolesFall
<1>4. AsksKept /\ AppendsKept
  BY <1>2, SameAppends DEF AsksKept
<1>5. PICK g \in BOOLEAN :
        /\ m.live => voteReplies' = voteReplies \cup
             {[from |-> j, to |-> c, term |-> currentTerm'[j], granted |-> g]}
        /\ ~m.live => voteReplies' = voteReplies
        /\ g => /\ m.term >= currentTerm[j] /\ UpToDate(m.lastTerm, m.lastIndex, log[j])
                /\ currentTerm' = [currentTerm EXCEPT ![j] =
                     IF m.term > currentTerm[j] THEN m.term ELSE currentTerm[j]]
                /\ votedFor' = [votedFor EXCEPT ![j] = c]
  BY DEF HandleRequestVote, Grants
<1>6. CASE ~(m.live /\ g)
  <2>1. \A n \in voteReplies' : n.granted => n \in voteReplies
    BY <1>5, <1>6
  <2>2. VotersKept
    BY <1>2, <2>1 DEF VotersKept, Voters
  <2>3. QED
    BY <1>2, <1>3, <1>4, <2>2, QuietLogs
<1>7. CASE m.live /\ g
  <2>1. currentTerm'[j] = m.term /\ votedFor'[j] = c
    <3>1. DOMAIN currentTerm = Node /\ DOMAIN votedFor = Node
      BY DEF TypeOK
    <3> HIDE DEF j, c
    <3>2. QED
      BY <1>1, <1>5, <1>7, <3>1
  <2>2. /\ election[c] # None /\ m.term = poll[c].term
        /\ m.lastIndex = election[c].lastIndex /\ m.lastTerm = election[c].lastTerm
    BY <1>7 DEF VoteInv, CallsMatch, LogInv, AsksFit
  <2>3. Voters(c)' \subseteq Voters(c) \cup {j} /\ \A k \in Node \ {c} : Voters(k)' \subseteq Voters(k)
    BY <1>2, <1>5, <1>7 DEF Voters
  <2> HIDE DEF j, c
  <2>4. /\ IsHistory(H) /\ ReignLogs(H) /\ ReignAcks(H) /\ ReignVotes(H) /\ ReignRivals(H)
        /\ LeadersReign(H) /\ LogsFit(H) /\ LeadersKeep(H) /\ AckersKeep(H) /\ CandidatesKeep(H)
        /\ AsksFit /\ OnlyAcks(H, H) /\ Grows(H, H)
    BY SameOnlyAcks DEF LogInv, OnlyAcks
  <2>5. (ReignLogs(H) /\ ReignAcks(H) /\ LogsFit(H) /\ LeadersKeep(H) /\ AckersKeep(H))'
    BY <1>2, <2>4, ReignLogsKept, ReignAcksKept, LogsFitKept, LeadersKeepKept, AckersKeepKept
  <2>6. ReignVotes(H)'
    <3>1. CandidaciesNew
      BY <1>3 DEF RolesFall, CandidaciesNew
    <3>2. QED
      BY <2>4, <3>1, ReignVotesKept
  <2>7. LeadersReign(H)'
    BY <1>2, <1>3, <2>4, LeadersKept DEF RolesFall
  <2>8. ReignRivals(H)'
    <3> SUFFICES ASSUME NEW t \in DOMAIN H, NEW k \in Node \ {H[t].leader}, poll[k].term = t
                 PROVE  Voters(k)' \cap H[t].votes = {}
      BY <1>2 DEF ReignRivals
    <3>1. Voters(k) \cap H[t].votes = {}
      BY <2>4 DEF ReignRivals
    <3>2. ASSUME k = c PROVE j \notin H[t].votes
      <4>1. SUFFICES ASSUME j \in H[t].votes PROVE FALSE
        OBVIOUS
      <4>2. Cast(j, t, H[t].leader)'
        BY <2>6, <4>1 DEF ReignVotes
      <4>3. QED
        BY <2>1, <2>2, <3>2, <4>2 DEF Cast
    <3>3. QED
      BY <2>3, <3>1, <3>2
  <2>9. CandidatesKeep(H)'
    <3> SUFFICES ASSUME NEW n \in Node, NEW t \in DOMAIN H, NEW k \in DOMAIN H[t].log,
                        role'[n] = "candidate", t < currentTerm'[n], Alive(H, k, t)',
                        ~Has(log[n], k, t), NEW v \in Voters(n)'
                 PROVE  Missed(H, v, k, t)'
      BY <1>2 DEF CandidatesKeep, Has
    <3>1. Alive(H, k, t)
      BY <2>4, AliveBefore
    <3>2. role[n] = "candidate" /\ currentTerm[n] = currentTerm'[n]
      BY <1>3 DEF RolesFall
    <3>3. CASE v \in Voters(n)
      <4>1. Missed(H, v, k, t)
        BY <2>4, <3>1, <3>2, <3>3 DEF CandidatesKeep
      <4>2. v \in Node
        BY <3>3, VotersType
      <4>3. QED
        BY <2>4, <4>1, <4>2, MissedKept
    <3>4. CASE v = j /\ n = c
      <4>1. currentTerm'[j] > t
        <5>1. poll[c].term = currentTerm[c]
          BY <1>1, <3>2, <3>4 DEF VoteInv, RolesMatch
        <5>2. t < currentTerm[c]
          BY <3>2, <3>4
        <5>3. currentTerm[c] \in Nat /\ t \in Nat
          BY <1>1, <2>4, ReignType DEF TypeOK
        <5>4. QED
          BY <2>1, <2>2, <5>1, <5>2, <5>3
      <4>2. m.lastIndex = Len(log[c]) /\ m.lastTerm = LastTerm(log[c])
        BY <1>1, <2>2, <2>4, <3>2, <3>4 DEF AsksFit
      <4>3. UpToDate(m.lastTerm, m.lastIndex, log[j])
        BY <1>5, <1>7 DEF j
      <4>4. ~Has(log[j], k, t)
        BY <1>1, <3>1, <3>4, <4>2, <4>3, UpToDateHas
      <4>5. ~(k <= H[t].acked[j])
        BY <1>1, <2>4, <3>1, <4>4 DEF AckersKeep
      <4>6. H[t].acked[j] \in Nat /\ k \in Nat
        BY <1>1, <2>4, ReignType
      <4>7. QED
        BY <3>4, <4>1, <4>5, <4>6 DEF Missed
    <3>5. QED
      BY <2>3, <3>3, <3>4
  <2>10. AsksFit'
    BY <1>2, <1>3, <1>4, <2>4, AsksFitKept DEF RolesFall
  <2>11. (RoundsFit(H) /\ RequestsFit(H) /\ AnswersFit(H))'
    BY <1>4, <2>4, AppendsFitKept DEF LogInv
  <2>12. QED
    BY <2>4, <2>5, <2>6, <2>7, <2>8, <2>9, <2>10, <2>11 DEF LogInv
<1>8. QED
  BY <1>6, <1>7

-----------------------------------------------------------------------------
(* A leader is elected *)

ElectedHistory(H, i) ==
  [t \in DOMAIN H \cup {currentTerm[i]} |->
     IF t # currentTerm[i] THEN H[t]
     ELSE [leader |-> i, votes |-> poll[i].votes, log |-> log[i],
           acked |-> [v \in Node |-> IF v = i THEN Len(log[i]) ELSE 0]]]

\* No term is won twice.
LEMMA ElectedOnce ==
  ASSUME TypeOK, VoteInv, NEW H, LogInv(H), NEW i \in Node, Elected(i)
  PROVE  currentTerm[i] \notin DOMAIN H
<1> DEFINE u == currentTerm[i]
<1> SUFFICES ASSUME u \in DOMAIN H PROVE FALSE
  OBVIOUS
<1>1. /\ role[i] = "candidate" /\ poll[i].term = u /\ HasQuorum(Cell, poll[i].votes)
      /\ u \in Nat
  BY DEF Elected, TypeOK
<1>2. CASE H[u].leader = i
  <2>1. currentTerm[i] > u
    BY <1>1, <1>2 DEF LogInv, ReignVotes
  <2>2. QED
    BY <1>1, <2>1
<1>3. CASE H[u].leader # i
  <2>1. HasQuorum(Cell, H[u].votes)
    BY DEF LogInv, ReignVotes
  <2>2. Voters(i) \cap H[u].votes = {}
    BY <1>1, <1>3 DEF LogInv, ReignRivals
  <2>3. poll[i].votes \cap H[u].votes = {}
    BY <2>2 DEF Voters
  <2>4. QED
    BY <1>1, <2>1, <2>3, CellQuorum
<1>4. QED
  BY <1>2, <1>3

LEMMA ElectedLogs ==
  ASSUME TypeOK, TypeOK', VoteStep, VoteInv, VoteInv', NEW H, LogInv(H),
         NEW i \in Node, FinishElection(i), Elected(i), NEW G, G = ElectedHistory(H, i)
  PROVE  LogInv(G)' /\ Grows(H, G)
<1> DEFINE u == currentTerm[i]
<1>1. /\ UNCHANGED <<log, currentTerm, votedFor, poll, voteRequests, voteReplies,
                     round, appendRequests, appendReplies>>
      /\ election[i] # None /\ election' = [election EXCEPT ![i] = None]
      /\ role' = [role EXCEPT ![i] = "leader"] /\ role \in [Node -> Role]
      /\ log[i] \in Seq(Entry) /\ Len(log[i]) \in Nat
      /\ u \in Nat /\ role[i] = "candidate" /\ poll[i].term = u /\ poll[i] \in Poll
      /\ HasQuorum(Cell, poll[i].votes)
  BY DEF FinishElection, Elected, durable, appending, TypeOK
<1>2. /\ IsHistory(H) /\ ReignLogs(H) /\ ReignAcks(H) /\ ReignVotes(H) /\ ReignRivals(H)
      /\ LeadersReign(H) /\ LogsFit(H) /\ LeadersKeep(H) /\ AckersKeep(H) /\ CandidatesKeep(H)
      /\ AsksFit
  BY DEF LogInv
<1>3. u \notin DOMAIN H /\ u > 0
  BY <1>1, <1>2, ElectedOnce DEF AsksFit
<1>4. /\ DOMAIN G = DOMAIN H \cup {u} /\ \A t \in DOMAIN H : G[t] = H[t]
      /\ G[u] = [leader |-> i, votes |-> poll[i].votes, log |-> log[i],
                 acked |-> [v \in Node |-> IF v = i THEN Len(log[i]) ELSE 0]]
  BY <1>3 DEF ElectedHistory
<1>5. /\ G[u] \in Reign
      /\ G[u].leader = i /\ G[u].votes = poll[i].votes /\ G[u].log = log[i]
      /\ G[u].acked[i] = Len(log[i]) /\ \A v \in Node \ {i} : G[u].acked[v] = 0
  BY <1>1, <1>4 DEF Reign, Poll
<1> HIDE DEF u
<1>6. IsHistory(G)
  <2>1. \A t \in DOMAIN G : t \in Nat \ {0} /\ G[t] \in Reign
    BY <1>1, <1>2, <1>3, <1>4, <1>5 DEF IsHistory
  <2>2. G = [t \in DOMAIN G |-> G[t]]
    BY DEF ElectedHistory
  <2>3. QED
    BY <2>1, <2>2 DEF IsHistory
<1>7. Grows(H, G)
  <2>1. Grows(H, H)
    BY <1>2, SameGrows
  <2>2. QED
    BY <1>2, <1>4, <1>6, <2>1 DEF Grows
<1>8. /\ role'[i] = "leader" /\ \A k \in Node \ {i} : role'[k] = role[k]
  BY <1>1
<1>9. \A k \in DOMAIN log[i] : log[i][k].term # u
  BY <1>2, <1>3 DEF LogsFit, Fits
<1>10. \A k : ~Own(G, k, u)
  BY <1>5, <1>9 DEF Own, Has
<1>11. ReignLogs(G)'
  <2>1. ASSUME NEW t \in DOMAIN H PROVE Fits(G, G[t].log) /\ Ordered(G[t].log, t)
    BY <1>2, <1>4, <1>7, FitsKept, ReignType DEF ReignLogs
  <2>2. Fits(G, G[u].log) /\ Ordered(G[u].log, u)
    BY <1>1, <1>2, <1>5, <1>7, FitsKept DEF LogsFit, u
  <2>3. QED
    BY <1>4, <2>1, <2>2 DEF ReignLogs, Fits, Ordered
<1>12. ReignAcks(G)'
  <2> SUFFICES ASSUME NEW t \in DOMAIN G, NEW v \in Node
               PROVE  /\ G[t].acked[G[t].leader] = Len(G[t].log)
                      /\ G[t].acked[v] <= Len(G[t].log)
                      /\ G[t].acked[v] > 0 => currentTerm[v] >= t
    BY <1>1, NodeAssumption DEF ReignAcks
  <2>1. CASE t = u
    BY <1>1, <1>5, <2>1 DEF u
  <2>2. CASE t # u
    BY <1>2, <1>4, <2>2 DEF ReignAcks
  <2>3. QED
    BY <2>1, <2>2
<1>13. ReignVotes(G)'
  <2> SUFFICES ASSUME NEW t \in DOMAIN G
               PROVE  /\ HasQuorum(Cell, G[t].votes)
                      /\ \A v \in G[t].votes : Cast(v, t, G[t].leader)
                      /\ currentTerm[G[t].leader] >= t
                      /\ role'[G[t].leader] = "candidate" => currentTerm[G[t].leader] > t
    BY <1>1 DEF ReignVotes, Cast, HasQuorum, Cell, Stable, MajoritySize
  <2>1. CASE t = u
    <3>1. \A v \in poll[i].votes : Cast(v, u, i)
      BY <1>1 DEF VoteInv, CountedVotesCast
    <3>2. QED
      BY <1>1, <1>5, <1>8, <2>1, <3>1 DEF u
  <2>2. CASE t # u
    <3>1. t \in DOMAIN H /\ G[t] = H[t] /\ H[t].leader \in Node
      BY <1>2, <1>4, <2>2, ReignType
    <3>2. QED
      BY <1>2, <1>8, <3>1 DEF ReignVotes
  <2>3. QED
    BY <2>1, <2>2
<1>14. ReignRivals(G)'
  <2> SUFFICES ASSUME NEW t \in DOMAIN G, NEW k \in Node \ {G[t].leader}, poll[k].term = t
               PROVE  Voters(k) \cap G[t].votes = {}
    BY <1>1 DEF ReignRivals, Voters
  <2>1. CASE t = u
    <3>1. poll[k].votes \cap poll[i].votes = {}
      BY <1>1, <1>5, <2>1 DEF VoteInv, CountedVotesDisjoint
    <3>2. \A m \in voteReplies : m.granted /\ m.to = k => m.from \notin poll[i].votes
      BY <1>1, <1>5, <2>1 DEF VoteInv, GrantsGood
    <3>3. QED
      BY <1>5, <2>1, <3>1, <3>2 DEF Voters
  <2>2. CASE t # u
    BY <1>2, <1>4, <2>2 DEF ReignRivals
  <2>3. QED
    BY <2>1, <2>2
<1>15. LeadersReign(G)'
  <2> SUFFICES ASSUME NEW k \in Node, role'[k] = "leader"
               PROVE  /\ currentTerm[k] \in DOMAIN G
                      /\ G[currentTerm[k]].leader = k
                      /\ G[currentTerm[k]].log = log[k]
    BY <1>1 DEF LeadersReign
  <2>1. CASE k = i
    BY <1>4, <1>5, <2>1 DEF u
  <2>2. CASE k # i
    <3>1. /\ currentTerm[k] \in DOMAIN H /\ H[currentTerm[k]].leader = k
          /\ H[currentTerm[k]].log = log[k]
      BY <1>2, <1>8, <2>2 DEF LeadersReign
    <3>2. QED
      BY <1>4, <3>1
  <2>3. QED
    BY <2>1, <2>2
<1>16. LogsFit(G)'
  BY <1>1, <1>2, <1>7, LogsFitKept
<1>17. (RoundsFit(G) /\ RequestsFit(G) /\ AnswersFit(G))'
  BY <1>1, <1>7, SameAppends, AppendsFitKept DEF LogInv
<1>18. ASSUME NEW t \in DOMAIN G, NEW k \in DOMAIN G[t].log, Alive(G, k, t)'
       PROVE  t \in DOMAIN H /\ G[t] = H[t] /\ k \in DOMAIN H[t].log /\ Alive(H, k, t)
  <2>1. t # u
    BY <1>10, <1>18 DEF Alive, Own, Has
  <2>2. t \in DOMAIN H /\ G[t] = H[t] /\ k \in DOMAIN H[t].log
    BY <1>4, <2>1
  <2>3. QED
    BY <1>7, <1>18, <2>2, AliveBefore
<1>19. LeadersKeep(G)'
  <2> SUFFICES ASSUME NEW t \in DOMAIN G, NEW w \in DOMAIN G, NEW k \in DOMAIN G[t].log,
                      t < w, Alive(G, k, t)'
               PROVE  Has(G[w].log, k, t)
    BY DEF LeadersKeep, Has
  <2>1. t \in DOMAIN H /\ G[t] = H[t] /\ k \in DOMAIN H[t].log /\ Alive(H, k, t)
    BY <1>18
  <2>2. CASE w # u
    BY <1>2, <1>4, <2>1, <2>2 DEF LeadersKeep
  <2>3. CASE w = u
    <3>1. SUFFICES ASSUME ~Has(log[i], k, t) PROVE FALSE
      BY <1>5, <2>3
    <3>2. \A v \in Voters(i) : Missed(H, v, k, t)
      BY <1>1, <1>2, <2>1, <2>3, <3>1 DEF CandidatesKeep, u
    <3>3. poll[i].votes \in SUBSET Node /\ \A v \in poll[i].votes : Missed(H, v, k, t)
      BY <1>1, <3>2 DEF Voters, Poll
    <3>4. Dead(H, k, t)
      BY <1>1, <3>3 DEF Dead
    <3>5. QED
      BY <2>1, <3>4 DEF Alive
  <2>4. QED
    BY <2>2, <2>3
<1>20. AckersKeep(G)'
  <2> SUFFICES ASSUME NEW t \in DOMAIN G, NEW v \in Node, NEW k \in DOMAIN G[t].log,
                      k <= G[t].acked[v], Alive(G, k, t)'
               PROVE  Has(log[v], k, t)
    BY <1>1 DEF AckersKeep, Has
  <2>1. QED
    BY <1>2, <1>18 DEF AckersKeep
<1>21. CandidatesKeep(G)'
  <2> SUFFICES ASSUME NEW n \in Node, NEW t \in DOMAIN G, NEW k \in DOMAIN G[t].log,
                      role'[n] = "candidate", t < currentTerm[n], Alive(G, k, t)',
                      ~Has(log[n], k, t), NEW v \in Voters(n)
               PROVE  Missed(G, v, k, t)'
    BY <1>1 DEF CandidatesKeep, Has, Voters
  <2>1. t \in DOMAIN H /\ G[t] = H[t] /\ k \in DOMAIN H[t].log /\ Alive(H, k, t)
    BY <1>18
  <2>2. Missed(H, v, k, t)
    BY <1>2, <1>8, <2>1 DEF CandidatesKeep
  <2>3. QED
    BY <1>1, <2>1, <2>2 DEF Missed
<1>22. AsksFit'
  <2>1. AsksKept
    BY <1>1, ElectionFields DEF AsksKept
  <2>2. QED
    BY <1>1, <1>2, <1>8, <2>1, AsksFitKept
<1>23. QED
  BY <1>6, <1>7, <1>11, <1>12, <1>13, <1>14, <1>15, <1>16, <1>17, <1>19, <1>20, <1>21, <1>22
  DEF LogInv

-----------------------------------------------------------------------------
(* A leader proposes *)

Proposed(i, c) == Append(log[i], [term |-> currentTerm[i], command |-> c])

ProposedHistory(H, i, c) ==
  [t \in DOMAIN H |->
     IF t # currentTerm[i] THEN H[t]
     ELSE [leader |-> H[t].leader, votes |-> H[t].votes, log |-> Proposed(i, c),
           acked |-> [v \in Node |-> IF v = i THEN Len(log[i]) + 1 ELSE H[t].acked[v]]]]

\* Whoever votes for a candidate has reached the candidate's term.
LEMMA VotersAhead ==
  ASSUME TypeOK, VoteInv, NEW i \in Node, role[i] = "candidate", NEW v \in Voters(i)
  PROVE  currentTerm[v] >= currentTerm[i]
<1>1. poll[i].term = currentTerm[i]
  BY DEF VoteInv, RolesMatch
<1>2. CASE v \in poll[i].votes
  BY <1>1, <1>2 DEF VoteInv, CountedVotesCast, Cast
<1>3. CASE v \notin poll[i].votes
  BY <1>1, <1>3 DEF Voters, VoteInv, GrantsGood, Cast
<1>4. QED
  BY <1>2, <1>3

LEMMA ProposeLogs ==
  ASSUME TypeOK, TypeOK', VoteStep, VoteInv, VoteInv', NEW H, LogInv(H),
         NEW i \in Node, NEW c \in Command, Append1(i, c),
         UNCHANGED <<currentTerm, votedFor, role, voting, appending>>,
         NEW G, G = ProposedHistory(H, i, c)
  PROVE  LogInv(G)' /\ Grows(H, G)
<1> DEFINE u == currentTerm[i]
           l == log[i]
           e == [term |-> u, command |-> c]
           n == Append(l, e)
<1>1. /\ UNCHANGED <<currentTerm, votedFor, role, poll, election, voteRequests, voteReplies,
                     round, appendRequests, appendReplies>>
      /\ role[i] = "leader" /\ u \in Nat /\ l \in Seq(Entry) /\ Len(l) \in Nat
      /\ log' = [log EXCEPT ![i] = n] /\ log \in [Node -> Seq(Entry)]
  BY DEF Append1, voting, appending, TypeOK
<1>2. e \in Entry /\ e.term = u
  BY <1>1 DEF Entry
<1>3. /\ IsHistory(H) /\ ReignLogs(H) /\ ReignAcks(H) /\ ReignVotes(H) /\ ReignRivals(H)
      /\ LeadersReign(H) /\ LogsFit(H) /\ LeadersKeep(H) /\ AckersKeep(H) /\ CandidatesKeep(H)
      /\ AsksFit
  BY DEF LogInv
<1>4. u \in DOMAIN H /\ H[u].leader = i /\ H[u].log = l /\ u > 0
  BY <1>1, <1>3, ReignType DEF LeadersReign
<1>5. /\ DOMAIN G = DOMAIN H /\ \A t \in DOMAIN H : t # u => G[t] = H[t]
      /\ G[u] = [leader |-> i, votes |-> H[u].votes, log |-> n,
                 acked |-> [v \in Node |-> IF v = i THEN Len(l) + 1 ELSE H[u].acked[v]]]
  BY <1>4 DEF ProposedHistory, Proposed
<1> HIDE DEF e
<1>6. /\ n \in Seq(Entry) /\ Len(n) = Len(l) + 1 /\ n[Len(l) + 1] = e
      /\ \A k \in 1 .. Len(l) : n[k] = l[k]
      /\ DOMAIN n = 1 .. Len(l) + 1 /\ DOMAIN l = 1 .. Len(l)
  BY <1>1, <1>2
<1>7. /\ G[u] \in Reign
      /\ G[u].leader = i /\ G[u].votes = H[u].votes /\ G[u].log = n
      /\ G[u].acked[i] = Len(n) /\ \A v \in Node \ {i} : G[u].acked[v] = H[u].acked[v]
  <2>1. H[u].votes \subseteq Node /\ \A v \in Node : H[u].acked[v] \in Nat
    BY <1>3, <1>4, ReignType
  <2> HIDE DEF n, l, u
  <2>2. QED
    BY <1>1, <1>5, <1>6, <2>1 DEF Reign
<1> HIDE DEF u, l, n
<1>8. IsHistory(G)
  <2>1. \A t \in DOMAIN G : t \in Nat \ {0} /\ G[t] \in Reign
    BY <1>3, <1>5, <1>7 DEF IsHistory
  <2>2. G = [t \in DOMAIN G |-> G[t]]
    BY DEF ProposedHistory
  <2>3. QED
    BY <2>1, <2>2 DEF IsHistory
<1>9. H[u].acked[i] = Len(l) /\ \A v \in Node : H[u].acked[v] \in Nat /\ H[u].acked[v] <= Len(l)
  BY <1>3, <1>4, ReignType DEF ReignAcks
<1>9a. \A v \in Node \ {i} : G[u].acked[v] < Len(l) + 1
  <2> SUFFICES ASSUME NEW v \in Node \ {i} PROVE G[u].acked[v] < Len(l) + 1
    OBVIOUS
  <2>1. G[u].acked[v] = H[u].acked[v] /\ H[u].acked[v] \in Nat /\ H[u].acked[v] <= Len(l)
    BY <1>7, <1>9
  <2>2. QED
    BY <1>1, <2>1
<1>10. Begins(l, n) /\ OnlyAfter(n, Len(l), u)
  BY <1>1, <1>2, <1>6 DEF Begins, OnlyAfter
<1>11. Grows(H, G)
  <2>1. Grows(H, H)
    BY <1>3, SameGrows
  <2>2. ASSUME NEW v \in Node
        PROVE  /\ H[u].acked[v] <= G[u].acked[v]
               /\ currentTerm'[v] > u => G[u].acked[v] = H[u].acked[v]
    <3>1. CASE v = i
      BY <1>1, <1>6, <1>7, <1>9, <3>1 DEF u
    <3>2. CASE v # i
      BY <1>7, <1>9, <3>2
    <3>3. QED
      BY <3>1, <3>2
  <2>3. QED
    BY <1>3, <1>4, <1>5, <1>7, <1>8, <1>10, <2>1, <2>2 DEF Grows
<1>12. log'[i] = n /\ \A j \in Node \ {i} : log'[j] = log[j]
  BY <1>1
<1>13. Fits(G, n) /\ Ordered(n, u)
  <2>1. Fits(H, l) /\ Ordered(l, u)
    BY <1>3 DEF LogsFit, l, u
  <2>2. Fits(G, l)
    BY <1>1, <1>11, <2>1, FitsKept
  <2>3. ASSUME NEW k \in DOMAIN n
        PROVE  /\ n[k].term \in DOMAIN G /\ k \in DOMAIN G[n[k].term].log
               /\ \A x \in 1 .. k : G[n[k].term].log[x] = n[x]
               /\ n[k].term <= u /\ \A x \in 1 .. k : n[x].term <= n[k].term
    <3>1. CASE k = Len(l) + 1
      <4>1. n[k].term = u
        BY <1>2, <1>6, <3>1
      <4>2. ASSUME NEW x \in 1 .. k PROVE n[x].term <= u
        <5>1. CASE x = k
          BY <1>1, <4>1, <5>1
        <5>2. CASE x # k
          <6>1. x \in DOMAIN l /\ n[x] = l[x]
            BY <1>1, <1>6, <3>1, <5>2
          <6>2. QED
            BY <2>1, <6>1 DEF Ordered
        <5>3. QED
          BY <5>1, <5>2
      <4>3. QED
        BY <1>1, <1>4, <1>5, <1>7, <4>1, <4>2
    <3>2. CASE k # Len(l) + 1
      <4>1. k \in DOMAIN l /\ n[k] = l[k] /\ \A x \in 1 .. k : n[x] = l[x]
        BY <1>1, <1>6, <3>2
      <4>2. QED
        BY <2>1, <2>2, <4>1 DEF Fits, Ordered
    <3>3. QED
      BY <3>1, <3>2
  <2>4. QED
    BY <2>3 DEF Fits, Ordered
<1>14. ReignLogs(G)'
  <2>1. ASSUME NEW t \in DOMAIN H, t # u PROVE Fits(G, G[t].log) /\ Ordered(G[t].log, t)
    BY <1>3, <1>5, <1>11, <2>1, FitsKept, ReignType DEF ReignLogs
  <2>2. QED
    BY <1>5, <1>7, <1>13, <2>1 DEF ReignLogs, Fits, Ordered
<1>15. ReignAcks(G)'
  <2> SUFFICES ASSUME NEW t \in DOMAIN G, NEW v \in Node
               PROVE  /\ G[t].acked[G[t].leader] = Len(G[t].log)
                      /\ G[t].acked[v] <= Len(G[t].log)
                      /\ G[t].acked[v] > 0 => currentTerm[v] >= t
    BY <1>1, NodeAssumption DEF ReignAcks
  <2>1. CASE t = u
    <3>1. CASE v = i
      BY <1>1, <1>6, <1>7, <2>1, <3>1 DEF u
    <3>2. CASE v # i
      <4>1. H[u].acked[v] > 0 => currentTerm[v] >= u
        BY <1>3, <1>4 DEF ReignAcks
      <4>2. QED
        BY <1>1, <1>6, <1>7, <1>9, <2>1, <3>2, <4>1
    <3>3. QED
      BY <3>1, <3>2
  <2>2. CASE t # u
    BY <1>3, <1>5, <2>2 DEF ReignAcks
  <2>3. QED
    BY <2>1, <2>2
<1>16. \A t \in DOMAIN H : G[t].leader = H[t].leader /\ G[t].votes = H[t].votes
  BY <1>4, <1>5, <1>7
<1>17. ReignVotes(G)'
  <2>1. ReignVotes(H)'
    BY <1>1, <1>3 DEF ReignVotes, Cast, HasQuorum, Cell, Stable, MajoritySize
  <2>2. QED
    BY <1>5, <1>16, <2>1 DEF ReignVotes
<1>18. ReignRivals(G)'
  BY <1>1, <1>3, <1>5, <1>16 DEF ReignRivals, Voters
<1>19. LeadersReign(G)'
  <2> SUFFICES ASSUME NEW k \in Node, role[k] = "leader"
               PROVE  /\ currentTerm[k] \in DOMAIN G
                      /\ G[currentTerm[k]].leader = k
                      /\ G[currentTerm[k]].log = log'[k]
    BY <1>1 DEF LeadersReign
  <2>1. CASE k = i
    BY <1>4, <1>5, <1>7, <1>12, <2>1 DEF u
  <2>2. CASE k # i
    <3>1. /\ currentTerm[k] \in DOMAIN H /\ H[currentTerm[k]].leader = k
          /\ H[currentTerm[k]].log = log[k]
      BY <1>3 DEF LeadersReign
    <3>2. currentTerm[k] # u
      BY <1>4, <2>2, <3>1
    <3>3. QED
      BY <1>5, <1>12, <2>2, <3>1, <3>2
  <2>3. QED
    BY <2>1, <2>2
<1>20. LogsFit(G)'
  <2>1. \A j \in Node : Fits(G, log'[j]) /\ Ordered(log'[j], currentTerm'[j])
    BY <1>1, <1>3, <1>11, <1>12, <1>13, LogsKept DEF u
  <2>2. QED
    BY <2>1 DEF LogsFit, Fits, Ordered
<1>21. (RoundsFit(G) /\ RequestsFit(G) /\ AnswersFit(G))'
  BY <1>1, <1>11, SameAppends, AppendsFitKept DEF LogInv
\* An entry alive now is the new one, or was alive.
<1>22. ASSUME NEW t \in DOMAIN G, NEW k \in DOMAIN G[t].log, Alive(G, k, t)'
       PROVE  \/ t = u /\ k = Len(l) + 1
              \/ k \in DOMAIN H[t].log /\ Alive(H, k, t)
  <2>1. CASE k \in DOMAIN H[t].log
    BY <1>5, <1>11, <1>22, <2>1, AliveBefore
  <2>2. CASE k \notin DOMAIN H[t].log
    BY <1>1, <1>4, <1>5, <1>6, <1>7, <2>2
  <2>3. QED
    BY <2>1, <2>2
<1>23. LeadersKeep(G)'
  <2> SUFFICES ASSUME NEW t \in DOMAIN G, NEW w \in DOMAIN G, NEW k \in DOMAIN G[t].log,
                      t < w, Alive(G, k, t)'
               PROVE  Has(G[w].log, k, t)
    BY DEF LeadersKeep, Has
  <2>1. CASE t = u /\ k = Len(l) + 1
    <3>1. w \in DOMAIN H /\ w \in Nat /\ u \in Nat /\ H[w].votes \subseteq Node
      BY <1>1, <1>3, <1>5, ReignType
    <3>2. HasQuorum(Cell, H[w].votes) /\ \A v \in H[w].votes : currentTerm[v] >= w
      BY <1>3, <3>1 DEF ReignVotes, Cast
    <3>3. ASSUME NEW v \in H[w].votes PROVE Missed(G, v, k, t)'
      <4>1. v \in Node /\ currentTerm[v] \in Nat /\ currentTerm[v] > u
        <5>1. v \in Node /\ currentTerm[v] >= w
          BY <3>1, <3>2
        <5>2. currentTerm[v] \in Nat
          BY <5>1 DEF TypeOK
        <5>3. QED
          BY <2>1, <3>1, <5>1, <5>2
      <4>2. v # i
        BY <4>1, <1>1 DEF u
      <4>3. G[u].acked[v] < k
        BY <1>9a, <2>1, <4>1, <4>2
      <4>4. QED
        BY <1>1, <2>1, <4>1, <4>3 DEF Missed
    <3>4. Dead(G, k, t)'
      BY <3>1, <3>2, <3>3 DEF Dead, HasQuorum, Cell, Stable, MajoritySize
    <3>5. QED
      BY <3>4 DEF Alive
  <2>2. CASE k \in DOMAIN H[t].log /\ Alive(H, k, t)
    <3>1. Has(H[w].log, k, t)
      BY <1>3, <1>5, <2>2 DEF LeadersKeep
    <3>2. QED
      <4>1. CASE w = u
        <5>1. k \in DOMAIN l /\ l[k].term = t
          BY <1>4, <3>1, <4>1 DEF Has
        <5>2. k \in DOMAIN n /\ n[k] = l[k]
          BY <1>1, <1>6, <5>1
        <5>3. QED
          BY <1>7, <4>1, <5>1, <5>2 DEF Has
      <4>2. CASE w # u
        BY <1>5, <3>1, <4>2
      <4>3. QED
        BY <4>1, <4>2
  <2>3. QED
    BY <1>22, <2>1, <2>2
<1>24. AckersKeep(G)'
  <2> SUFFICES ASSUME NEW t \in DOMAIN G, NEW v \in Node, NEW k \in DOMAIN G[t].log,
                      k <= G[t].acked[v], Alive(G, k, t)'
               PROVE  Has(log'[v], k, t)
    BY DEF AckersKeep, Has
  <2>1. CASE t = u /\ v = i
    <3>1. Has(G[u].log, k, u)
      BY <2>1 DEF Alive, Own, Has
    <3>2. QED
      BY <1>7, <1>12, <2>1, <3>1
  <2>2. CASE ~(t = u /\ v = i)
    <3>1. G[t].acked[v] = H[t].acked[v] /\ H[t].acked[v] <= Len(H[t].log) /\ t \in DOMAIN H
      BY <1>3, <1>5, <1>7, <2>2 DEF ReignAcks
    <3>2. k \in DOMAIN H[t].log /\ Alive(H, k, t)
      BY <1>1, <1>4, <1>9, <1>22, <2>2, <3>1
    <3>3. Has(log[v], k, t)
      BY <1>3, <3>1, <3>2 DEF AckersKeep
    <3>4. QED
      BY <1>1, <1>6, <1>12, <3>3 DEF Has, l
  <2>3. QED
    BY <2>1, <2>2
<1>25. CandidatesKeep(G)'
  <2> SUFFICES ASSUME NEW j \in Node, NEW t \in DOMAIN G, NEW k \in DOMAIN G[t].log,
                      role[j] = "candidate", t < currentTerm[j], Alive(G, k, t)',
                      ~Has(log'[j], k, t), NEW v \in Voters(j)
               PROVE  Missed(G, v, k, t)'
    BY <1>1 DEF CandidatesKeep, Has, Voters
  <2>1. j # i /\ log'[j] = log[j] /\ v \in Node
    BY <1>1, <1>12, VotersType
  <2>2. CASE t = u /\ k = Len(l) + 1
    <3>1. currentTerm[v] >= currentTerm[j] /\ currentTerm[v] \in Nat /\ currentTerm[j] \in Nat
      BY <2>1, VotersAhead DEF TypeOK
    <3>2. currentTerm[v] > u
      BY <1>1, <2>2, <3>1
    <3>3. v # i
      BY <1>1, <3>2 DEF u
    <3>4. G[u].acked[v] < k
      BY <1>9a, <2>1, <2>2, <3>3
    <3>5. QED
      BY <1>1, <2>2, <3>2, <3>4 DEF Missed
  <2>3. CASE k \in DOMAIN H[t].log /\ Alive(H, k, t)
    <3>1. Missed(H, v, k, t)
      BY <1>3, <1>5, <2>1, <2>3 DEF CandidatesKeep
    <3>2. QED
      BY <1>5, <1>11, <2>1, <3>1, MissedKept
  <2>4. QED
    BY <1>22, <2>2, <2>3
<1>26. AsksFit'
  <2>1. AsksKept
    BY <1>1, SameAsks
  <2>2. \A k \in Node : role'[k] = "candidate" =>
           role[k] = "candidate" /\ currentTerm'[k] = currentTerm[k] /\ log'[k] = log[k]
    BY <1>1, <1>12
  <2>3. QED
    BY <1>3, <2>1, <2>2, AsksFitKept
<1>27. IsHistory(G)'
  BY <1>8 DEF IsHistory, Reign, Entry
<1>28. QED
  BY <1>11, <1>14, <1>15, <1>17, <1>18, <1>19, <1>20, <1>21, <1>23, <1>24, <1>25, <1>26, <1>27
  DEF LogInv

-----------------------------------------------------------------------------
(* A node accepts entries *)

AckedHistory(H, m) ==
  [t \in DOMAIN H |->
     IF t # m.term THEN H[t]
     ELSE [leader |-> H[t].leader, votes |-> H[t].votes, log |-> H[t].log,
           acked |-> [v \in Node |-> IF v = m.to /\ H[t].acked[v] < LastIndex(m)
                                       THEN LastIndex(m) ELSE H[t].acked[v]]]]

LEMMA RequestType ==
  ASSUME TypeOK, NEW m \in appendRequests
  PROVE  /\ m.to \in Node /\ m.from \in Node /\ m.slot \in Slot /\ m.term \in Nat
         /\ m.prevIndex \in Nat /\ m.entries \in Seq(Entry) /\ m.commit \in Nat
         /\ LastIndex(m) \in Nat
<1>1. m \in AppendRequest
  BY DEF TypeOK
<1>2. m.prevIndex \in Nat /\ m.entries \in Seq(Entry)
  BY <1>1 DEF AppendRequest
<1>3. Len(m.entries) \in Nat
  BY <1>2, EntryType
<1>4. LastIndex(m) \in Nat
  BY <1>2, <1>3 DEF LastIndex
<1>5. QED
  BY <1>1, <1>2, <1>4 DEF AppendRequest

\* A request that starts past the end of its round's log is refused.
LEMMA AcceptedIsCut ==
  ASSUME TypeOK, NEW H, LogInv(H), NEW m \in appendRequests,
         PrevMatches(log[m.to], m.prevIndex, m.prevTerm)
  PROVE  m.term \in DOMAIN H /\ Cut(H, m) /\ ~PastTheEnd(m)
<1> DEFINE l == log[m.to]
           p == m.prevIndex
<1>1. m.to \in Node /\ p \in Nat
  BY DEF TypeOK, AppendRequest
<1>2. l \in Seq(Entry) /\ Fits(H, l) /\ IsHistory(H)
  BY <1>1 DEF TypeOK, LogInv, LogsFit
<1>3. m.term \in DOMAIN H /\ (PastTheEnd(m) \/ Cut(H, m))
  BY DEF LogInv, RequestsFit
<1>4. ASSUME PastTheEnd(m) PROVE FALSE
  <2>1. p > 0 /\ p <= Len(l) /\ TermAt(l, p) = 0
    BY <1>4 DEF PastTheEnd, PrevMatches
  <2>2. p \in DOMAIN l /\ l[p].term = 0
    BY <1>1, <1>2, <2>1 DEF TermAt
  <2>3. 0 \in DOMAIN H
    BY <1>2, <2>2 DEF Fits
  <2>4. QED
    BY <1>2, <2>3 DEF IsHistory
<1>5. QED
  BY <1>3, <1>4

\* What the log of the node becomes: up to the end of the request it is the
\* log of the request's leader.
LEMMA AcceptedLog ==
  ASSUME TypeOK, NEW H, LogInv(H), NEW m \in appendRequests,
         PrevMatches(log[m.to], m.prevIndex, m.prevTerm),
         NEW r, r = Merge(log[m.to], m.prevIndex, m.entries)
  PROVE  LET l == log[m.to]
             n == H[m.term].log
         IN  /\ r \in Seq(Entry) /\ LastIndex(m) <= Len(r)
             /\ \A x \in 1 .. LastIndex(m) : r[x] = n[x]
             /\ \/ r = l
                \/ /\ Len(r) = LastIndex(m)
                   /\ \A k \in DOMAIN l \cap DOMAIN n : k > LastIndex(m) => l[k].term # n[k].term
<1> DEFINE l == log[m.to]
           n == H[m.term].log
           p == m.prevIndex
           es == m.entries
<1>1. m.to \in Node /\ p \in Nat /\ es \in Seq(Entry)
  BY DEF TypeOK, AppendRequest
<1>2. m.term \in DOMAIN H /\ Cut(H, m)
  BY AcceptedIsCut
<1>3. l \in Seq(Entry) /\ Fits(H, l) /\ Fits(H, n) /\ n \in Seq(Entry)
  BY <1>1, <1>2, ReignType DEF TypeOK, LogInv, LogsFit, ReignLogs
<1>4. p + Len(es) <= Len(n) /\ m.prevTerm = TermAt(n, p) /\ \A k \in DOMAIN es : es[k] = n[p + k]
  BY <1>2 DEF Cut, LastIndex
<1>5. PrevMatches(l, p, TermAt(n, p)) /\ r = Merge(l, p, es) /\ LastIndex(m) = p + Len(es)
  BY <1>4 DEF LastIndex
<1> HIDE DEF l, n, p, es
<1>6. \A k \in DOMAIN l \cap DOMAIN n :
        l[k].term = n[k].term => \A x \in 1 .. k : l[x] = n[x]
  BY <1>3, FitsAgree
<1>7. /\ r \in Seq(Entry)
      /\ p + Len(es) <= Len(r) /\ \A x \in 1 .. p + Len(es) : r[x] = n[x]
      /\ \/ r = l
         \/ /\ Len(r) = p + Len(es)
            /\ \A k \in DOMAIN l \cap DOMAIN n : k > p + Len(es) => l[k].term # n[k].term
  BY <1>1, <1>3, <1>4, <1>5, <1>6, MergeCases
<1>8. QED
  BY <1>5, <1>7 DEF l, n

\* A node loses no live entry by it: the request's leader has the entry, and
\* not after the end of the request.
LEMMA AcceptKeeps ==
  ASSUME TypeOK, NEW H, LogInv(H), NEW m \in appendRequests, m.term >= currentTerm[m.to],
         PrevMatches(log[m.to], m.prevIndex, m.prevTerm),
         NEW t \in DOMAIN H, NEW k \in DOMAIN H[t].log, Alive(H, k, t), Has(log[m.to], k, t)
  PROVE  Has(Merge(log[m.to], m.prevIndex, m.entries), k, t)
<1> DEFINE u == m.term
           j == m.to
           l == log[j]
           n == H[u].log
           r == Merge(l, m.prevIndex, m.entries)
           last == LastIndex(m)
<1>1. /\ j \in Node /\ u \in Nat /\ last \in Nat /\ currentTerm[j] \in Nat /\ u >= currentTerm[j]
      /\ Has(l, k, t)
  BY RequestType DEF TypeOK
<1>2. u \in DOMAIN H /\ OnlyAfter(n, last, u)
  BY AcceptedIsCut DEF Cut
<1>3. /\ r \in Seq(Entry) /\ last <= Len(r) /\ \A x \in 1 .. last : r[x] = n[x]
      /\ \/ r = l
         \/ \A x \in DOMAIN l \cap DOMAIN n : x > last => l[x].term # n[x].term
  BY AcceptedLog
<1>4. /\ l \in Seq(Entry) /\ n \in Seq(Entry) /\ Ordered(l, currentTerm[j])
      /\ LeadersKeep(H) /\ IsHistory(H) /\ t \in Nat
  BY <1>1, <1>2, ReignType DEF LogInv, LogsFit, TypeOK
<1> HIDE DEF u, j, l, n, r, last
<1>5. /\ DOMAIN l = 1 .. Len(l) /\ Len(l) \in Nat /\ DOMAIN n = 1 .. Len(n) /\ Len(n) \in Nat
      /\ DOMAIN r = 1 .. Len(r) /\ Len(r) \in Nat
  BY <1>3, <1>4, EntryType
<1>6. CASE r = l
  BY <1>1, <1>6 DEF r, l, j
<1>7. CASE \A x \in DOMAIN l \cap DOMAIN n : x > last => l[x].term # n[x].term
  <2>1. t <= u
    BY <1>1, <1>4 DEF Ordered, Has
  <2>2. Has(n, k, t)
    BY <1>1, <1>2, <1>4, <2>1 DEF LeadersKeep, Alive, Own, n
  <2>3. k <= last
    <3>1. CASE t = u
      BY <1>1, <1>5, <1>7, <2>2, <3>1 DEF Has
    <3>2. CASE t # u
      BY <1>1, <1>2, <1>4, <1>5, <2>1, <2>2, <3>2 DEF Has, OnlyAfter
    <3>3. QED
      BY <3>1, <3>2
  <2>4. k \in 1 .. last /\ k \in DOMAIN r
    <3>1. k \in Nat /\ k >= 1
      BY <1>5, <2>2 DEF Has
    <3>2. Len(r) \in Nat /\ last <= Len(r) /\ last \in Nat /\ DOMAIN r = 1 .. Len(r)
      BY <1>1, <1>3, <1>5
    <3>3. QED
      BY <2>3, <3>1, <3>2
  <2>5. Has(r, k, t)
    BY <1>3, <2>2, <2>4 DEF Has
  <2>6. QED
    BY <2>5 DEF r, l, j
<1>8. QED
  BY <1>3, <1>6, <1>7

LEMMA AckedGrows ==
  ASSUME TypeOK, TypeOK', NEW H, LogInv(H), NEW m \in appendRequests,
         PrevMatches(log[m.to], m.prevIndex, m.prevTerm), currentTerm'[m.to] = m.term,
         NEW G, G = AckedHistory(H, m)
  PROVE  /\ OnlyAcks(H, G)
         /\ \A t \in DOMAIN H, v \in Node :
              G[t].acked[v] = IF t = m.term /\ v = m.to /\ H[t].acked[v] < LastIndex(m)
                                THEN LastIndex(m) ELSE H[t].acked[v]
<1> DEFINE u == m.term
           j == m.to
           last == LastIndex(m)
<1>1. j \in Node /\ u \in Nat /\ last \in Nat /\ IsHistory(H)
  BY RequestType DEF LogInv
<1>2. u \in DOMAIN H
  BY AcceptedIsCut
<1>3. /\ DOMAIN G = DOMAIN H /\ \A t \in DOMAIN H : t # u => G[t] = H[t]
      /\ G[u] = [leader |-> H[u].leader, votes |-> H[u].votes, log |-> H[u].log,
                 acked |-> [v \in Node |-> IF v = j /\ H[u].acked[v] < last
                                             THEN last ELSE H[u].acked[v]]]
  BY <1>2 DEF AckedHistory
<1> HIDE DEF u, j, last
<1>4. /\ H[u].leader \in Node /\ H[u].votes \subseteq Node /\ H[u].log \in Seq(Entry)
      /\ \A v \in Node : H[u].acked[v] \in Nat
  BY <1>1, <1>2, ReignType
<1>5. /\ G[u] \in Reign
      /\ G[u].leader = H[u].leader /\ G[u].votes = H[u].votes /\ G[u].log = H[u].log
      /\ \A v \in Node : G[u].acked[v] = IF v = j /\ H[u].acked[v] < last
                                           THEN last ELSE H[u].acked[v]
  BY <1>1, <1>3, <1>4 DEF Reign
<1>6. IsHistory(G)
  <2>1. \A t \in DOMAIN G : t \in Nat \ {0} /\ G[t] \in Reign
    BY <1>1, <1>2, <1>3, <1>5 DEF IsHistory
  <2>2. G = [t \in DOMAIN G |-> G[t]]
    BY DEF AckedHistory
  <2>3. QED
    BY <2>1, <2>2 DEF IsHistory
<1>7. \A t \in DOMAIN H, v \in Node :
        G[t].acked[v] = IF t = u /\ v = j /\ H[t].acked[v] < last THEN last ELSE H[t].acked[v]
  BY <1>3, <1>5
<1>8. Grows(H, G)
  <2>1. Grows(H, H)
    BY <1>1, SameGrows
  <2>2. ASSUME NEW v \in Node
        PROVE  /\ H[u].acked[v] <= G[u].acked[v]
               /\ currentTerm'[v] > u => G[u].acked[v] = H[u].acked[v]
    BY <1>1, <1>4, <1>5 DEF u, j
  <2>3. QED
    BY <1>1, <1>3, <1>5, <1>6, <2>1, <2>2 DEF Grows
<1>9. QED
  BY <1>3, <1>5, <1>7, <1>8 DEF OnlyAcks, u, j, last

LEMMA AcceptLogs ==
  ASSUME TypeOK, TypeOK', VoteStep, VoteInv, VoteInv', NEW H, LogInv(H),
         NEW m \in appendRequests, m.term >= currentTerm[m.to],
         PrevMatches(log[m.to], m.prevIndex, m.prevTerm),
         currentTerm'[m.to] = m.term, role'[m.to] = "follower",
         log' = [log EXCEPT ![m.to] = Merge(@, m.prevIndex, m.entries)],
         RolesFall, VotersKept, AsksKept, SendsKept,
         \A a \in appendReplies' : a.success =>
           \/ a \in appendReplies
           \/ a.from = m.to /\ a.term = m.term /\ a.match = LastIndex(m),
         NEW G, G = AckedHistory(H, m)
  PROVE  LogInv(G)' /\ Grows(H, G)
<1> DEFINE u == m.term
           j == m.to
           l == log[j]
           n == H[u].log
           r == Merge(l, m.prevIndex, m.entries)
           last == LastIndex(m)
<1>1. /\ j \in Node /\ u \in Nat /\ last \in Nat /\ currentTerm[j] \in Nat /\ u >= currentTerm[j]
      /\ log \in [Node -> Seq(Entry)]
  BY RequestType DEF TypeOK
<1>2. u \in DOMAIN H /\ last <= Len(n) /\ OnlyAfter(n, last, u)
  BY AcceptedIsCut DEF Cut
<1>3. /\ r \in Seq(Entry) /\ last <= Len(r) /\ \A x \in 1 .. last : r[x] = n[x]
      /\ \/ r = l
         \/ /\ Len(r) = last
            /\ \A k \in DOMAIN l \cap DOMAIN n : k > last => l[k].term # n[k].term
  BY AcceptedLog
<1>4. log'[j] = r /\ \A i \in Node \ {j} : log'[i] = log[i]
  BY <1>1
<1>5. /\ OnlyAcks(H, G)
      /\ \A t \in DOMAIN H, v \in Node :
           G[t].acked[v] = IF t = u /\ v = j /\ H[t].acked[v] < last
                             THEN last ELSE H[t].acked[v]
  BY AckedGrows
<1> HIDE DEF u, j, l, n, r, last
<1>6. /\ IsHistory(H) /\ ReignLogs(H) /\ ReignAcks(H) /\ ReignVotes(H) /\ ReignRivals(H)
      /\ LeadersReign(H) /\ LogsFit(H) /\ LeadersKeep(H) /\ AckersKeep(H) /\ CandidatesKeep(H)
      /\ AsksFit /\ RoundsFit(H) /\ RequestsFit(H) /\ AnswersFit(H)
  BY DEF LogInv
<1>7. /\ Grows(H, G) /\ IsHistory(G) /\ DOMAIN G = DOMAIN H
      /\ \A t \in DOMAIN H : G[t].log = H[t].log /\ G[t].leader = H[t].leader
  BY <1>5 DEF OnlyAcks, Grows
<1>8. l \in Seq(Entry) /\ n \in Seq(Entry) /\ Fits(H, l) /\ Fits(H, n) /\ Ordered(n, u)
      /\ Ordered(l, currentTerm[j])
  BY <1>1, <1>2, <1>6, ReignType DEF LogsFit, ReignLogs, l, n
<1>9. /\ DOMAIN l = 1 .. Len(l) /\ Len(l) \in Nat /\ DOMAIN n = 1 .. Len(n) /\ Len(n) \in Nat
      /\ DOMAIN r = 1 .. Len(r) /\ Len(r) \in Nat
      /\ \A k \in DOMAIN l : l[k].term \in Nat
  BY <1>3, <1>8, EntryType
<1>10. Fits(G, r) /\ Ordered(r, u)
  <2>1. CASE r = l
    <3>1. Ordered(l, u)
      BY <1>1, <1>8, <1>9 DEF Ordered
    <3>2. QED
      BY <1>7, <1>8, <2>1, <3>1, FitsKept
  <2>2. CASE Len(r) = last
    <3>1. Begins(r, n)
      BY <1>2, <1>3, <1>9, <2>2 DEF Begins
    <3>2. Fits(H, r) /\ Ordered(r, u)
      BY <1>3, <1>8, <3>1, FitsPrefix, OrderedPrefix
    <3>3. QED
      BY <1>3, <1>7, <3>2, FitsKept
  <2>3. QED
    BY <1>3, <2>1, <2>2
<1>11. (ReignLogs(G) /\ ReignVotes(G) /\ ReignRivals(G) /\ LeadersKeep(G))'
  <2>1. CandidaciesNew
    BY DEF RolesFall, CandidaciesNew
  <2>2. QED
    BY <1>5, <1>6, <2>1, ReignLogsKept, ReignVotesKept, RivalsKept, LeadersKeepKept
<1>12. \A i \in Node : role'[i] # "follower" =>
         role[i] = role'[i] /\ currentTerm'[i] = currentTerm[i] /\ log'[i] = log[i]
  BY <1>4 DEF RolesFall, j
<1>13. (LeadersReign(G) /\ CandidatesKeep(G))' /\ AsksFit'
  <2>1. LeadersReign(G)'
    BY <1>5, <1>6, <1>12, LeadersKept
  <2>2. CandidatesKeep(G)'
    BY <1>5, <1>6, <1>12, CandidatesKeepKept
  <2>3. AsksFit'
    BY <1>6, <1>12, AsksFitKept
  <2>4. QED
    BY <2>1, <2>2, <2>3
<1>14. LogsFit(G)'
  <2>1. \A i \in Node : Fits(G, log'[i]) /\ Ordered(log'[i], currentTerm'[i])
    BY <1>4, <1>6, <1>7, <1>10, LogsKept DEF u, j
  <2>2. QED
    BY <2>1 DEF LogsFit, Fits, Ordered
<1>15. (RoundsFit(G) /\ RequestsFit(G))'
  BY <1>6, <1>7, SendsFitKept
<1>16. AnswersFit(G)'
  <2> SUFFICES ASSUME NEW a \in appendReplies', a.success
               PROVE  a.term \in DOMAIN G /\ a.match <= G[a.term].acked[a.from]
    BY DEF AnswersFit
  <2>1. CASE a \in appendReplies
    BY <1>6, <1>7, <2>1, AnswersFitKept
  <2>2. CASE a.from = j /\ a.term = u /\ a.match = last
    <3>1. last <= G[u].acked[j]
      <4>1. H[u].acked[j] \in Nat
        BY <1>1, <1>2, <1>6, ReignType
      <4>2. QED
        BY <1>1, <1>2, <1>5, <4>1
    <3>2. QED
      BY <1>2, <1>7, <2>2, <3>1
  <2>3. QED
    BY <2>1, <2>2 DEF u, j, last
<1>17. ReignAcks(G)'
  <2> SUFFICES ASSUME NEW t \in DOMAIN G
               PROVE  /\ G[t].acked[G[t].leader] = Len(G[t].log)
                      /\ \A v \in Node : /\ G[t].acked[v] <= Len(G[t].log)
                                         /\ G[t].acked[v] > 0 => currentTerm'[v] >= t
    BY DEF ReignAcks
  <2>1. /\ t \in DOMAIN H /\ t \in Nat /\ G[t].log = H[t].log /\ G[t].leader = H[t].leader
        /\ H[t].leader \in Node /\ H[t].acked[H[t].leader] = Len(H[t].log)
        /\ Len(H[t].log) \in Nat /\ \A v \in Node : H[t].acked[v] \in Nat
        /\ \A v \in Node : /\ H[t].acked[v] <= Len(H[t].log)
                           /\ H[t].acked[v] > 0 => currentTerm[v] >= t
    BY <1>6, <1>7, ReignType DEF ReignAcks
  <2>2. ASSUME NEW v \in Node
        PROVE  G[t].acked[v] <= Len(G[t].log) /\ (G[t].acked[v] > 0 => currentTerm'[v] >= t)
    <3>1. CASE t = u /\ v = j /\ H[t].acked[v] < last
      BY <1>1, <1>2, <1>5, <2>1, <3>1 DEF n, u, j
    <3>2. CASE ~(t = u /\ v = j /\ H[t].acked[v] < last)
      <4>1. G[t].acked[v] = H[t].acked[v]
        BY <1>5, <2>1, <3>2
      <4>2. currentTerm[v] \in Nat /\ currentTerm'[v] \in Nat /\ currentTerm[v] <= currentTerm'[v]
        BY DEF TypeOK, VoteStep
      <4>3. QED
        BY <2>1, <4>1, <4>2
    <3>3. QED
      BY <3>1, <3>2
  <2>3. G[t].acked[H[t].leader] = H[t].acked[H[t].leader]
    <3>1. t = u => last <= Len(H[t].log)
      BY <1>2 DEF n
    <3>2. QED
      BY <1>1, <1>5, <2>1, <3>1
  <2>4. QED
    BY <2>1, <2>2, <2>3
<1>18. AckersKeep(G)'
  <2> SUFFICES ASSUME NEW t \in DOMAIN G, NEW v \in Node, NEW k \in DOMAIN G[t].log,
                      k <= G[t].acked[v], Alive(G, k, t)'
               PROVE  Has(log'[v], k, t)
    BY DEF AckersKeep, Has
  <2>1. /\ t \in DOMAIN H /\ k \in DOMAIN H[t].log /\ t \in Nat
    BY <1>6, <1>7, ReignType
  <2>2. Alive(H, k, t) /\ Has(H[t].log, k, t)
    BY <1>7, <2>1, AliveBefore DEF Alive, Own
  <2>3. CASE v # j
    BY <1>4, <1>5, <1>6, <2>1, <2>2, <2>3 DEF AckersKeep
  <2>4. CASE v = j /\ t = u /\ k <= last
    <3>1. k \in DOMAIN n /\ n[k].term = u
      BY <2>2, <2>4 DEF Has, n
    <3>1a. k \in 1 .. last /\ k \in DOMAIN r
      <4>1. k \in Nat /\ k >= 1 /\ k <= last
        BY <1>9, <2>4, <3>1
      <4>2. Len(r) \in Nat /\ last <= Len(r) /\ last \in Nat /\ DOMAIN r = 1 .. Len(r)
        BY <1>1, <1>3, <1>9
      <4>3. QED
        BY <4>1, <4>2
    <3>2. QED
      BY <1>3, <1>4, <2>4, <3>1, <3>1a DEF Has
  <2>5. CASE v = j /\ ~(t = u /\ k <= last)
    <3>1. k <= H[t].acked[j]
      <4>1. H[t].acked[j] \in Nat /\ k \in Nat
        BY <1>1, <1>6, <2>1, ReignType
      <4>2. QED
        BY <1>1, <1>5, <2>1, <2>5, <4>1
    <3>2. Has(l, k, t)
      BY <1>1, <1>6, <2>1, <2>2, <3>1 DEF AckersKeep, l
    <3>3. Has(r, k, t)
      BY <2>1, <2>2, <3>2, AcceptKeeps DEF u, j, l, r
    <3>4. QED
      BY <1>4, <2>5, <3>3
  <2>6. QED
    BY <2>3, <2>4, <2>5
<1>19. IsHistory(G)'
  BY <1>7 DEF IsHistory, Reign, Entry
<1>20. QED
  BY <1>7, <1>11, <1>13, <1>14, <1>15, <1>16, <1>17, <1>18, <1>19 DEF LogInv

\* The node accepts what request m carries.
Accepts(m) ==
  m.term >= currentTerm[m.to] /\ PrevMatches(log[m.to], m.prevIndex, m.prevTerm)

LEMMA HandleAppendEntriesRoles ==
  ASSUME TypeOK, NEW m \in appendRequests, HandleAppendEntries(m)
  PROVE  RolesFall
<1> DEFINE j == m.to
<1>1. /\ currentTerm' = [currentTerm EXCEPT ![j] =
            IF m.term > currentTerm[j] THEN m.term ELSE currentTerm[j]]
      /\ role' = [role EXCEPT ![j] =
            IF m.term >= currentTerm[j] THEN "follower" ELSE role[j]]
  BY DEF HandleAppendEntries
<1>2. currentTerm \in [Node -> Nat] /\ role \in [Node -> Role] /\ m.term \in Nat /\ j \in Node
  BY RequestType DEF TypeOK
<1> HIDE DEF j
<1>3. QED
  BY <1>1, <1>2 DEF RolesFall

LEMMA RefusedLogs ==
  ASSUME TypeOK, TypeOK', VoteStep, VoteInv, VoteInv', NEW H, LogInv(H),
         NEW m \in appendRequests, HandleAppendEntries(m), ~Accepts(m)
  PROVE  LogInv(H)'
<1> DEFINE j == m.to
<1>1. /\ UNCHANGED <<round, poll, election, voteRequests, voteReplies>> /\ j \in Node
      /\ appendRequests' = appendRequests \ {m}
  BY RequestType DEF HandleAppendEntries, voting
<1>2. UNCHANGED log
  <2>1. log' = [log EXCEPT ![j] = log[j]]
    BY DEF HandleAppendEntries, Accepts
  <2>2. QED
    BY <2>1 DEF TypeOK
<1>3. RolesFall
  BY HandleAppendEntriesRoles
<1>4. \A a \in appendReplies' : a.success => a \in appendReplies
  <2> DEFINE q == [from |-> j, slot |-> m.slot, to |-> m.from, term |-> currentTerm'[j],
                   success |-> FALSE, match |-> m.prevIndex + Len(m.entries)]
  <2>1. appendReplies' \subseteq appendReplies \cup {q}
    <3>1. (m.term >= currentTerm[j] /\ PrevMatches(log[j], m.prevIndex, m.prevTerm)) = FALSE
      BY DEF Accepts
    <3>2. QED
      BY <3>1 DEF HandleAppendEntries
  <2>2. QED
    BY <2>1
<1>5. VotersKept /\ AsksKept /\ AppendsKept
  BY <1>1, <1>4, FewerVoters, SameAsks DEF AppendsKept, SendsKept
<1>6. QED
  BY <1>2, <1>3, <1>5, QuietLogs

LEMMA AcceptedLogs ==
  ASSUME TypeOK, TypeOK', VoteStep, VoteInv, VoteInv', NEW H, LogInv(H),
         NEW m \in appendRequests, HandleAppendEntries(m), Accepts(m),
         NEW G, G = AckedHistory(H, m)
  PROVE  LogInv(G)' /\ Grows(H, G)
<1> DEFINE j == m.to
<1>1. /\ UNCHANGED <<round, poll, election, voteRequests, voteReplies>> /\ j \in Node
      /\ appendRequests' = appendRequests \ {m} /\ m.term \in Nat /\ currentTerm[j] \in Nat
      /\ m.term >= currentTerm[j] /\ PrevMatches(log[j], m.prevIndex, m.prevTerm)
  BY RequestType DEF HandleAppendEntries, voting, TypeOK, Accepts
<1>2. log' = [log EXCEPT ![j] = Merge(@, m.prevIndex, m.entries)]
  BY <1>1 DEF HandleAppendEntries
<1>3. /\ RolesFall /\ role'[j] = "follower"
  BY <1>1 DEF TypeOK, HandleAppendEntries, RolesFall
<1>4. currentTerm'[j] = m.term
  <2>1. currentTerm'[j] = IF m.term > currentTerm[j] THEN m.term ELSE currentTerm[j]
    BY <1>1 DEF TypeOK, HandleAppendEntries
  <2>2. QED
    BY <1>1, <2>1
<1>5. \A a \in appendReplies' : a.success =>
        a \in appendReplies \/ (a.from = j /\ a.term = m.term /\ a.match = LastIndex(m))
  BY <1>4 DEF HandleAppendEntries, LastIndex
<1>6. VotersKept /\ AsksKept /\ SendsKept
  BY <1>1, FewerVoters, SameAsks DEF SendsKept
<1>7. QED
  BY <1>1, <1>2, <1>3, <1>4, <1>5, <1>6, AcceptLogs

\* The process crashes with the new log on disk.
LEMMA CrashAcceptedLogs ==
  ASSUME TypeOK, TypeOK', VoteStep, VoteInv, VoteInv', NEW H, LogInv(H),
         NEW m \in appendRequests, CrashInAppend(m), log' # log,
         NEW G, G = AckedHistory(H, m)
  PROVE  LogInv(G)' /\ Grows(H, G)
<1> DEFINE j == m.to
<1>1. /\ j \in Node /\ m.term >= currentTerm[j] /\ PrevMatches(log[j], m.prevIndex, m.prevTerm)
      /\ log' = [log EXCEPT ![j] = Merge(@, m.prevIndex, m.entries)] /\ Restart(j)
      /\ voteRequests' = Orphaned(voteRequests, j)
      /\ appendRequests' = Orphaned(appendRequests \ {m}, j)
      /\ currentTerm' = [currentTerm EXCEPT ![j] = m.term]
  BY RequestType DEF CrashInAppend
<1>2. /\ RolesFall /\ role'[j] = "follower" /\ currentTerm'[j] = m.term /\ VotersKept
  BY <1>1, FewerVoters DEF TypeOK, Restart, RolesFall
<1>3. AsksKept
  <2>1. \A n \in voteRequests : [n EXCEPT !.live = FALSE].live = FALSE
    BY DEF TypeOK, VoteRequest
  <2>2. \A n \in voteRequests' : n.live => n \in voteRequests
    BY <1>1, <2>1 DEF Orphaned
  <2>3. \A i \in Node : election'[i] # None => election'[i] = election[i]
    BY <1>1 DEF TypeOK, Restart
  <2>4. QED
    BY <2>2, <2>3 DEF AsksKept
<1>4. SendsKept
  <2>1. \A i \in Node, s \in Slot : round'[i][s] # None => round'[i][s] = round[i][s]
    <3>1. round \in [Node -> [Slot -> Round \cup {None}]]
      BY DEF TypeOK
    <3>2. QED
      BY <1>1, <3>1 DEF Restart
  <2>2. ASSUME NEW a \in appendRequests'
        PROVE  \E n \in appendRequests :
                 /\ a.term = n.term /\ a.prevIndex = n.prevIndex /\ a.prevTerm = n.prevTerm
                 /\ a.entries = n.entries
    <3>1. PICK n \in appendRequests : a = n \/ a = [n EXCEPT !.live = FALSE]
      BY <1>1 DEF Orphaned
    <3>2. n \in AppendRequest
      BY DEF TypeOK
    <3>3. QED
      BY <3>1, <3>2 DEF AppendRequest
  <2>3. QED
    BY <2>1, <2>2 DEF SendsKept
<1>5. appendReplies' \subseteq appendReplies
  BY <1>1 DEF Restart
<1>6. QED
  BY <1>1, <1>2, <1>3, <1>4, <1>5, AcceptLogs

-----------------------------------------------------------------------------
(* Every step *)

LEMMA InitLogs ==
  ASSUME Init
  PROVE  \E H : LogInv(H)
<1> DEFINE E == [t \in {} |-> 0]
<1>1. PICK H : H = E
  OBVIOUS
<1>2. DOMAIN H = {} /\ IsHistory(H)
  BY <1>1 DEF IsHistory
<1>3. /\ \A i \in Node : log[i] = <<>> /\ role[i] = "follower"
      /\ voteRequests = {} /\ appendRequests = {} /\ appendReplies = {}
      /\ \A i \in Node, s \in Slot : round[i][s] = None
  BY DEF Init
<1>4. LogsFit(H)
  BY <1>3 DEF LogsFit, Fits, Ordered
<1>5. LogInv(H)
  BY <1>2, <1>3, <1>4
  DEF LogInv, ReignLogs, ReignAcks, ReignVotes, ReignRivals, LeadersReign, RoundsFit,
      RequestsFit, AnswersFit, LeadersKeep, AckersKeep, CandidatesKeep, AsksFit
<1>6. QED
  BY <1>5

LEMMA NextLogs ==
  ASSUME TypeOK, TypeOK', VoteStep, VoteInv, VoteInv', NEW H, LogInv(H), [Next]_vars
  PROVE  \E G : Grows(H, G) /\ LogInv(G)'
<1>1. Grows(H, H)
  BY SameGrows DEF LogInv
<1>2. SUFFICES ASSUME ~LogInv(H)' PROVE \E G : Grows(H, G) /\ LogInv(G)'
  BY <1>1
<1>3. ASSUME NEW i \in Node, FinishElection(i), Elected(i)
      PROVE  \E G : Grows(H, G) /\ LogInv(G)'
  <2>1. PICK G : G = ElectedHistory(H, i)
    OBVIOUS
  <2>2. QED
    BY <1>3, <2>1, ElectedLogs
<1>4. ASSUME NEW i \in Node, NEW c \in Command, Append1(i, c),
             UNCHANGED <<currentTerm, votedFor, role, voting, appending>>
      PROVE  \E G : Grows(H, G) /\ LogInv(G)'
  <2>1. PICK G : G = ProposedHistory(H, i, c)
    OBVIOUS
  <2>2. QED
    BY <1>4, <2>1, ProposeLogs
<1>5. ASSUME NEW m \in appendRequests, HandleAppendEntries(m)
      PROVE  \E G : Grows(H, G) /\ LogInv(G)'
  <2>1. PICK G : G = AckedHistory(H, m)
    OBVIOUS
  <2>2. QED
    BY <1>2, <1>5, <2>1, RefusedLogs, AcceptedLogs
<1>6. ASSUME NEW m \in appendRequests, CrashInAppend(m)
      PROVE  \E G : Grows(H, G) /\ LogInv(G)'
  <2>1. PICK G : G = AckedHistory(H, m)
    OBVIOUS
  <2>2. QED
    BY <1>2, <1>6, <2>1, CrashLogs, CrashAcceptedLogs
<1>7. ASSUME NEW i \in Node,
             StartElection(i) \/ AbandonVote(i) \/ FinishElection(i) \/ Crash(i)
      PROVE  \E G : Grows(H, G) /\ LogInv(G)'
  <2>1. CASE Crash(i)
    BY <1>2, <2>1, CrashLogs DEF Crash, durable
  <2>2. QED
    BY <1>2, <1>3, <1>7, <2>1, StartElectionLogs, AbandonVoteLogs, NotElectedLogs
<1>8. ASSUME NEW m \in voteRequests, HandleRequestVote(m) \/ CrashInVote(m)
      PROVE  FALSE
  <2>1. CASE CrashInVote(m)
    BY <1>2, <2>1, CrashLogs DEF CrashInVote
  <2>2. QED
    BY <1>2, <1>8, <2>1, HandleRequestVoteLogs
<1>9. ASSUME NEW i \in Node, NEW s \in Slot,
             \/ StartRound(i, s) \/ AbandonAppend(i, s) \/ FinishRound(i, s)
             \/ \E j \in Node : AppendEntries(i, s, j)
      PROVE  FALSE
  BY <1>2, <1>9, StartRoundLogs, AbandonAppendLogs, FinishRoundLogs, AppendEntriesLogs
<1>10. ASSUME NEW i \in Node, NEW c \in Command, Propose(i, c)
       PROVE  \E G : Grows(H, G) /\ LogInv(G)'
  <2>1. UNCHANGED <<currentTerm, votedFor, role, voting, appending>> /\ Append1(i, c)
    BY <1>10 DEF Propose
  <2>2. QED
    BY <1>4, <2>1
<1>11. ASSUME NEW i \in Node, NEW p \in Proposer, NEW c \in Command, ProposeAndWait(i, p, c)
       PROVE  \E G : Grows(H, G) /\ LogInv(G)'
  <2>1. UNCHANGED <<currentTerm, votedFor, role, voting, appending>> /\ Append1(i, c)
    BY <1>11 DEF ProposeAndWait
  <2>2. QED
    BY <1>4, <2>1
<1>12. ASSUME NEW i \in Node, NEW p \in Proposer, AnswerTrue(i, p) \/ AnswerFalse(i, p)
       PROVE  FALSE
  <2>1. UNCHANGED <<log, currentTerm, role, voting, appending>>
    BY <1>12 DEF AnswerTrue, AnswerFalse, durable
  <2>2. QED
    BY <1>2, <2>1, IdleLogs
<1>13. ASSUME UNCHANGED vars PROVE FALSE
  <2>1. UNCHANGED <<log, currentTerm, role, voting, appending>>
    BY <1>13 DEF vars, durable
  <2>2. QED
    BY <1>2, <2>1, IdleLogs
<1>14. ASSUME NEW i \in Node, NEW j \in Node, RequestVote(i, j) PROVE FALSE
  BY <1>2, <1>14, RequestVoteLogs
<1>15. ASSUME NEW m \in voteReplies, HandleVoteReply(m) PROVE FALSE
  BY <1>2, <1>15, HandleVoteReplyLogs
<1>16. ASSUME NEW m \in appendReplies, HandleAppendReply(m) PROVE FALSE
  BY <1>2, <1>16, HandleAppendReplyLogs
<1>17. QED
  BY <1>5, <1>6, <1>7, <1>8, <1>9, <1>10, <1>11, <1>12, <1>13, <1>14, <1>15, <1>16 DEF Next

LogsSafe == \E H : LogInv(H)

LEMMA NextLogsSafe ==
  TypeOK /\ TypeOK' /\ VoteInv /\ VoteInv' /\ LogsSafe /\ [Next]_vars => LogsSafe'
<1> SUFFICES ASSUME TypeOK, TypeOK', VoteInv, VoteInv', LogsSafe, [Next]_vars
             PROVE  LogsSafe'
  OBVIOUS
<1>1. PICK H : LogInv(H)
  BY DEF LogsSafe
<1>2. PICK G : LogInv(G)'
  BY <1>1, NextVoteStep, NextLogs
<1>3. QED
  BY <1>2 DEF LogsSafe

LEMMA LogsInvariant == Spec => []LogsSafe
<1>1. Init => LogsSafe
  BY InitLogs DEF LogsSafe
<1>2. QED
  BY <1>1, NextLogsSafe, TypeCorrect, VoteInvariant, PTL DEF Spec

LEMMA LogsFitMatch == TypeOK /\ LogsSafe => LogMatching
<1> SUFFICES ASSUME TypeOK, LogsSafe, NEW i \in Node, NEW j \in Node,
                    NEW k \in DOMAIN log[i] \cap DOMAIN log[j],
                    log[i][k].term = log[j][k].term
             PROVE  SubSeq(log[i], 1, k) = SubSeq(log[j], 1, k)
  BY DEF LogMatching
<1>1. PICK H : LogInv(H)
  BY DEF LogsSafe
<1>2. Fits(H, log[i]) /\ Fits(H, log[j])
  BY <1>1 DEF LogInv, LogsFit
<1>3. \A x \in 1 .. k : log[i][x] = log[j][x]
  BY <1>2, FitsAgree
<1>4. log[i] \in Seq(Entry) /\ log[j] \in Seq(Entry) /\ k \in Nat
  BY EntryType DEF TypeOK
<1>5. QED
  BY <1>3, <1>4, SamePrefix

\* Logs match in every reachable state of a cell of any size, whatever is lost,
\* delayed or crashes: the merge loop of handle_append_entries may take an
\* entry of the same index and term for the same entry.
THEOREM LogsMatch == Spec => []LogMatching
BY LogsInvariant, TypeCorrect, LogsFitMatch, PTL
=============================================================================
