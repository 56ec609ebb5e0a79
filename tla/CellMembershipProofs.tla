------------------------ MODULE CellMembershipProofs ------------------------
(***************************************************************************)
(* CellMembership for every number of peers, learners, changes, lost       *)
(* calls and restarts.  A node that has not joined may elect itself and    *)
(* write a log of its own: the facts below are about the nodes that have   *)
(* joined, and hold of a node when it joins because it does so without     *)
(* leading and with an empty log, unless it usurps the cell.               *)
(*                                                                         *)
(* No history of the steps is kept, so what an entry may rest on is read   *)
(* off the votes: whoever wrote it had a majority of the founders in its   *)
(* term, and each of these has since stayed with it or gone to a later     *)
(* term (EntriesFit).  An entry of the leader's own term is followed by    *)
(* every later leader unless a majority has gone to later terms without    *)
(* acknowledging it (AcksFit), and what is committed is held by a majority *)
(* and followed by every later leader (CommitsFit).                        *)
(***************************************************************************)
EXTENDS CellMembership, VoterConfigurationProofs, SequenceTheorems

-----------------------------------------------------------------------------
(* Leaders *)

\* Until the founders' configuration is left, every node that has joined
\* counts a majority of the founders.
FoundersCount == ~moved => \A i \in Joined : member[i].config.voters = Founder

\* The voters of a leader are a majority of the founders, and none of them votes
\* for another in the leader's term.
VotersStay ==
  ~moved => \A i \in Joined : cellRole[i] = "leader" =>
    \E Q \in SUBSET Founder :
      /\ Cardinality(Q \cap Founder) >= MajoritySize(Founder)
      /\ \A x \in Q : term[x] > term[i] \/ (term[x] = term[i] /\ vote[x] = i)

CellInv ==
  /\ term \in [Peer -> Nat] /\ vote \in [Peer -> Maybe(Peer)]
  /\ cellRole \in [Peer -> {"follower", "leader"}] /\ moved \in BOOLEAN
  /\ FoundersCount /\ VotersStay /\ OneLeaderPerTerm

LEMMA JoinedPeers == Joined \in SUBSET Peer /\ Joined' \in SUBSET Peer /\ Founder \subseteq Joined
BY CellAssumption DEF Joined

LEMMA CellInitially == CellInit => CellInv
<1> SUFFICES ASSUME CellInit PROVE CellInv
  OBVIOUS
<1>1. FoundersCount
  BY CellAssumption DEF FoundersCount, CellInit, Joined, FirstMembership, Stable
<1>2. QED
  BY <1>1, JoinedPeers, CellAssumption DEF CellInit, CellInv, VotersStay, OneLeaderPerTerm, Maybe

\* Who joins in a step does not lead after it, and has no log.
JoinsEmpty ==
  \A k \in Joined' \ Joined : cellRole'[k] # "leader" /\ cellLog'[k] = <<>>

\* The history variable: what a step leaves behind when it moves nobody away
\* from the founders' configuration and nobody usurps the cell.
LEMMA CellHistory ==
  ASSUME moved \in BOOLEAN, CellNext
  PROVE  /\ moved' \in BOOLEAN /\ FoundersCount'
         /\ ~moved' => /\ ~moved /\ JoinsEmpty
                       /\ \A k \in Peer \ Joined : cellRole'[k] = "leader" => Targets(k)' = {}
<1>1. moved' = (moved \/ (\E i \in Joined' : member'[i].config.voters # Founder)
                      \/ \E i \in Peer : Usurps(i))
  BY DEF CellNext
<1>2. ASSUME ~moved', NEW k \in Peer \ Joined
      PROVE  /\ cellRole'[k] = "leader" => Targets(k)' = {}
             /\ k \in Joined' => cellRole'[k] # "leader" /\ cellLog'[k] = <<>>
  BY <1>1, <1>2 DEF Usurps
<1>3. ~moved' => JoinsEmpty
  BY <1>2, JoinedPeers DEF JoinsEmpty
<1>4. QED
  BY <1>1, <1>2, <1>3 DEF FoundersCount

\* Terms only rise, and a voter of a leader does not change its vote within
\* the leader's term: what is left to show of a step in which no node wins.
LEMMA LeadersKeepVoters ==
  ASSUME CellInv, ~moved' => ~moved /\ JoinsEmpty, term' \in [Peer -> Nat],
         \A k \in Joined \cap Joined' :
           cellRole'[k] = "leader" => cellRole[k] = "leader" /\ term'[k] = term[k],
         \A k \in Joined \cap Joined' : cellRole'[k] = "leader" =>
           \A x \in Peer : term[x] = term[k] /\ vote[x] = k => term'[x] > term[x] \/ vote'[x] = k,
         \A x \in Peer : term'[x] >= term[x]
  PROVE  VotersStay' /\ OneLeaderPerTerm'
<1> USE JoinedPeers
<1>0. ~moved' => \A k \in Joined' : cellRole'[k] = "leader" =>
                   k \in Joined /\ cellRole[k] = "leader" /\ term'[k] = term[k]
  BY DEF JoinsEmpty
<1>1. OneLeaderPerTerm'
  BY <1>0 DEF OneLeaderPerTerm, CellInv
<1>2. VotersStay'
  <2> SUFFICES ASSUME ~moved', NEW k \in Joined', cellRole'[k] = "leader"
               PROVE  \E Q \in SUBSET Founder :
                        /\ Cardinality(Q \cap Founder) >= MajoritySize(Founder)
                        /\ \A x \in Q :
                             term'[x] > term'[k] \/ (term'[x] = term'[k] /\ vote'[x] = k)
    BY DEF VotersStay
  <2>1. PICK Q \in SUBSET Founder :
           /\ Cardinality(Q \cap Founder) >= MajoritySize(Founder)
           /\ \A x \in Q : term[x] > term[k] \/ (term[x] = term[k] /\ vote[x] = k)
    BY <1>0 DEF CellInv, VotersStay
  <2>2. ASSUME NEW x \in Q
        PROVE  term'[x] > term'[k] \/ (term'[x] = term'[k] /\ vote'[x] = k)
    <3>1. /\ x \in Peer /\ term[x] \in Nat /\ term'[x] \in Nat /\ term[k] \in Nat
          /\ term'[k] = term[k] /\ term'[x] >= term[x]
      BY <1>0, CellAssumption DEF CellInv
    <3>2. CASE term[x] > term[k]
      BY <3>1, <3>2
    <3>3. CASE term[x] = term[k] /\ vote[x] = k
      <4>1. term'[x] > term[x] \/ vote'[x] = k
        <5>1. k \in Joined \cap Joined'
          BY <1>0
        <5>2. QED
          BY <3>1, <3>3, <5>1
      <4>2. QED
        BY <3>1, <3>3, <4>1
    <3>4. QED
      BY <2>1, <3>2, <3>3
  <2>3. QED
    BY <2>1, <2>2
<1>3. QED
  BY <1>1, <1>2

LEMMA CampaignKeepsCellInv ==
  ASSUME CellInv, moved' \in BOOLEAN, ~moved' => ~moved /\ JoinsEmpty,
         NEW i \in Peer, NEW Q \in SUBSET Peer, Campaign(i, Q)
  PROVE  /\ term' \in [Peer -> Nat] /\ vote' \in [Peer -> Maybe(Peer)]
         /\ cellRole' \in [Peer -> {"follower", "leader"}]
         /\ VotersStay' /\ OneLeaderPerTerm'
<1> DEFINE t == term[i] + 1
           ahead == {j \in Q : term[j] > t}
           canVote == {j \in Q : term[j] <= t /\ ~Bars(j, i)}
           voting == {j \in canVote : GrantsVote(j, i, t)}
           wins == ahead = {} /\ HasQuorum(member[i].config, voting \cup {i})
<1>1. /\ cellRole[i] # "leader" /\ Joined' = Joined
      /\ term' = [j \in Peer |->
           IF j = i THEN (IF ahead = {} THEN t ELSE term[CHOOSE k \in ahead : TRUE])
           ELSE IF j \in canVote THEN t ELSE term[j]]
      /\ vote' = [j \in Peer |->
           IF j \in voting \/ (j = i /\ ahead = {}) THEN i
           ELSE IF j = i \/ (j \in canVote /\ term[j] < t) THEN None ELSE vote[j]]
      /\ cellRole' = [j \in Peer |->
           IF j = i /\ wins THEN "leader"
           ELSE IF j \in canVote /\ term[j] < t THEN "follower" ELSE cellRole[j]]
  BY DEF Campaign, Joined
<1>2. i \notin Q
  BY DEF PeerIds, Campaign
<1>3. t \in Nat /\ t > term[i]
  BY DEF CellInv
<1>4. /\ \A j \in canVote : term[j] <= t
      /\ \A j \in voting : j \in canVote /\ (term[j] < t \/ vote[j] \in {None, i})
      /\ i \notin canVote
  BY <1>2 DEF GrantsVote
<1>5. ahead # {} => (CHOOSE k \in ahead : TRUE) \in Q /\ term[CHOOSE k \in ahead : TRUE] > t
  OBVIOUS
<1>6. term' \in [Peer -> Nat] /\ \A x \in Peer : term'[x] >= term[x]
  <2>1. ahead # {} => term[CHOOSE k \in ahead : TRUE] \in Nat
    BY <1>5 DEF CellInv
  <2>2. QED
    BY <1>1, <1>3, <1>4, <1>5, <2>1 DEF CellInv
<1>7. vote' \in [Peer -> Maybe(Peer)] /\ cellRole' \in [Peer -> {"follower", "leader"}]
  BY <1>1 DEF CellInv, Maybe
<1>8. term'[i] > term[i]
  BY <1>1, <1>3, <1>5, <1>6 DEF CellInv
<1>9. \A k \in Peer \ {i} : cellRole'[k] = "leader" => cellRole[k] = "leader" /\ term'[k] = term[k]
  <2> SUFFICES ASSUME NEW k \in Peer \ {i}, cellRole'[k] = "leader"
               PROVE  cellRole[k] = "leader" /\ term'[k] = term[k]
    OBVIOUS
  <2>1. term[k] \in Nat
    BY DEF CellInv
  <2>2. ~(k \in canVote /\ term[k] < t) /\ cellRole[k] = "leader"
    BY <1>1
  <2>3. k \in canVote => term[k] = t
    BY <2>1, <2>2, <1>3, <1>4
  <2>4. QED
    BY <1>1, <2>2, <2>3
<1>10. \A x \in Peer, k \in Peer \ {i} :
         term[x] = term[k] /\ vote[x] = k => term'[x] > term[x] \/ vote'[x] = k
  <2> SUFFICES ASSUME NEW x \in Peer, NEW k \in Peer \ {i}, vote[x] = k
               PROVE  term'[x] > term[x] \/ vote'[x] = k
    OBVIOUS
  <2>1. term[x] \in Nat /\ k # None
    BY CellAssumption DEF CellInv
  <2>2. CASE x = i
    BY <2>2, <1>8
  <2>3. CASE x # i /\ x \in canVote /\ term[x] < t
    BY <2>3, <1>1
  <2>4. CASE x # i /\ ~(x \in canVote /\ term[x] < t)
    <3>1. x \notin voting
      BY <2>1, <2>4, <1>4
    <3>2. QED
      BY <3>1, <2>4, <1>1
  <2>5. QED
    BY <2>2, <2>3, <2>4
\* Who has not joined elects itself, and does not count in the cell.
<1>11. CASE ~wins \/ i \notin Joined
  <2>1. cellRole'[i] # "leader" \/ i \notin Joined
    BY <1>1, <1>4, <1>11
  <2>2. \A k \in Joined \cap Joined' : cellRole'[k] = "leader" => k \in Peer \ {i}
    BY <2>1, JoinedPeers
  <2>3. \A k \in Joined \cap Joined' : cellRole'[k] = "leader" =>
          /\ cellRole[k] = "leader" /\ term'[k] = term[k]
          /\ \A x \in Peer : term[x] = term[k] /\ vote[x] = k => term'[x] > term[x] \/ vote'[x] = k
    BY <2>2, <1>9, <1>10
  <2>4. VotersStay' /\ OneLeaderPerTerm'
    BY <2>3, <1>6, LeadersKeepVoters
  <2>5. QED
    BY <2>4, <1>6, <1>7
<1>12. CASE wins /\ i \in Joined
  <2> USE JoinedPeers
  <2> SUFFICES ASSUME ~moved'
               PROVE  VotersStay' /\ OneLeaderPerTerm'
    BY <1>6, <1>7 DEF VotersStay, OneLeaderPerTerm
  <2> DEFINE V == (voting \cup {i}) \cap Founder
  <2>1. member[i].config.voters = Founder
    BY <1>12 DEF CellInv, FoundersCount
  <2>2. Cardinality(V \cap Founder) >= MajoritySize(Founder)
    <3>1. V \cap Founder = (voting \cup {i}) \cap member[i].config.voters
      BY <2>1
    <3>2. QED
      BY <3>1, <2>1, <1>12 DEF HasQuorum, wins
  <2>3. ahead = {}
    BY <1>12 DEF wins
  <2>4. \A x \in V : x \in Peer /\ term'[x] = t /\ vote'[x] = i
    <3>1. \A x \in voting : x \in Peer
      BY DEF voting, canVote
    <3>2. QED
      BY <3>1, <2>3, <1>1, <1>4
  <2>5. ASSUME NEW k \in Joined \ {i}, cellRole'[k] = "leader"
        PROVE  \E P \in SUBSET Founder :
                 /\ Cardinality(P \cap Founder) >= MajoritySize(Founder)
                 /\ \A x \in P : term[x] > term[k] \/ (term[x] = term[k] /\ vote[x] = k)
    BY <2>5, <1>9 DEF CellInv, VotersStay
  <2>6. ASSUME NEW k \in Joined \ {i}, cellRole'[k] = "leader"
        PROVE  term[k] # t
    <3> SUFFICES ASSUME term[k] = t PROVE FALSE
      OBVIOUS
    <3>1. PICK P \in SUBSET Founder :
            /\ Cardinality(P \cap Founder) >= MajoritySize(Founder)
            /\ \A x \in P : term[x] > term[k] \/ (term[x] = term[k] /\ vote[x] = k)
      BY <2>5, <2>6
    <3>2. P \cap V \cap Founder # {}
      BY <3>1, <2>2, MajoritiesMeet, CellAssumption
    <3>3. PICK x \in P \cap V : TRUE
      BY <3>2
    <3>4. term[x] \in Nat /\ term[k] \in Nat /\ term[i] \in Nat /\ k # None
      BY <3>3, <2>4, CellAssumption DEF CellInv
    <3>5. x # i
      BY <3>1, <3>3, <3>4, <1>3
    <3>6. x \in voting
      BY <3>3, <3>5
    <3>7. term[x] <= t /\ (term[x] < t \/ vote[x] \in {None, i})
      BY <3>6, <1>4
    <3>8. QED
      BY <3>1, <3>3, <3>4, <3>7, <1>3
  <2>7. OneLeaderPerTerm'
    <3> SUFFICES ASSUME NEW j \in Joined, NEW k \in Joined, cellRole'[j] = "leader",
                        cellRole'[k] = "leader", term'[j] = term'[k]
                 PROVE  j = k
      BY <1>1 DEF OneLeaderPerTerm
    <3>1. term'[i] = t
      BY <2>3, <1>1
    <3>2. \A l \in Joined \ {i} : cellRole'[l] = "leader" => term'[l] = term[l] /\ term[l] # t
      BY <2>6, <1>9
    <3>3. CASE j = i \/ k = i
      BY <3>1, <3>2, <3>3
    <3>4. CASE j # i /\ k # i
      BY <3>2, <3>4, <1>9 DEF CellInv, OneLeaderPerTerm
    <3>5. QED
      BY <3>3, <3>4
  <2>8. VotersStay'
    <3> SUFFICES ASSUME NEW k \in Joined, cellRole'[k] = "leader"
                 PROVE  \E P \in SUBSET Founder :
                          /\ Cardinality(P \cap Founder) >= MajoritySize(Founder)
                          /\ \A x \in P :
                               term'[x] > term'[k] \/ (term'[x] = term'[k] /\ vote'[x] = k)
      BY <1>1 DEF VotersStay
    <3>1. CASE k = i
      <4>1. term'[i] = t
        BY <2>3, <1>1
      <4>2. V \in SUBSET Founder
        OBVIOUS
      <4>3. \A x \in V : term'[x] = term'[k] /\ vote'[x] = k
        BY <2>4, <4>1, <3>1
      <4>4. QED
        BY <2>2, <4>2, <4>3
    <3>2. CASE k # i
      <4>1. PICK P \in SUBSET Founder :
              /\ Cardinality(P \cap Founder) >= MajoritySize(Founder)
              /\ \A x \in P : term[x] > term[k] \/ (term[x] = term[k] /\ vote[x] = k)
        BY <2>5, <3>2
      <4>2. term'[k] = term[k] /\ term[k] \in Nat
        BY <1>9, <3>2 DEF CellInv
      <4>3. ASSUME NEW x \in P
            PROVE  term'[x] > term'[k] \/ (term'[x] = term'[k] /\ vote'[x] = k)
        <5>1. x \in Peer /\ term[x] \in Nat /\ term'[x] \in Nat /\ term'[x] >= term[x]
          BY <1>6, CellAssumption DEF CellInv
        <5>2. term[x] = term[k] /\ vote[x] = k => term'[x] > term[x] \/ vote'[x] = k
          BY <5>1, <1>10, <3>2
        <5>3. QED
          BY <4>1, <4>2, <5>1, <5>2
      <4>4. QED
        BY <4>1, <4>3
    <3>3. QED
      BY <3>1, <3>2
  <2>9. QED
    BY <2>7, <2>8
<1>13. QED
  BY <1>11, <1>12

LEMMA SendRoundKeepsCellInv ==
  ASSUME CellInv, moved' \in BOOLEAN, ~moved' => ~moved /\ JoinsEmpty,
         NEW i \in Peer, NEW R \in SUBSET Peer, SendRound(i, R)
  PROVE  /\ term' \in [Peer -> Nat] /\ vote' \in [Peer -> Maybe(Peer)]
         /\ cellRole' \in [Peer -> {"follower", "leader"}]
         /\ VotersStay' /\ OneLeaderPerTerm'
<1> DEFINE ahead == {j \in R : term[j] > term[i]}
           told == R \ ahead
<1>1. /\ term' = [j \in Peer |->
           IF j \in told THEN term[i] ELSE IF j = i /\ ahead # {} THEN term[CHOOSE k \in ahead : TRUE]
           ELSE term[j]]
      /\ vote' = [j \in Peer |->
           IF (j \in told /\ term[j] < term[i]) \/ (j = i /\ ahead # {}) THEN None ELSE vote[j]]
      /\ cellRole' = [j \in Peer |->
           IF j \in told \/ (j = i /\ ahead # {}) THEN "follower" ELSE cellRole[j]]
  BY DEF SendRound
<1>2. i \notin R
  BY DEF SendRound, Targets
<1>3. ahead # {} =>
        /\ term[CHOOSE k \in ahead : TRUE] \in Nat
        /\ term[CHOOSE k \in ahead : TRUE] > term[i]
  BY DEF CellInv
<1>4. \A j \in told : j \in Peer /\ j # i /\ term[j] \in Nat /\ term[j] <= term[i]
  BY <1>2 DEF CellInv
<1>5. i \notin told /\ term[i] \in Nat
  BY <1>2 DEF CellInv
<1> HIDE DEF told, ahead
<1>6. term' \in [Peer -> Nat] /\ \A x \in Peer : term'[x] >= term[x]
  BY <1>1, <1>3, <1>4, <1>5 DEF CellInv
<1>7. vote' \in [Peer -> Maybe(Peer)] /\ cellRole' \in [Peer -> {"follower", "leader"}]
  BY <1>1 DEF CellInv, Maybe
<1>8. \A k \in Peer : cellRole'[k] = "leader" => cellRole[k] = "leader" /\ term'[k] = term[k]
  BY <1>1
<1>9. \A x \in Peer, k \in Peer :
        term[x] = term[k] /\ vote[x] = k => term'[x] > term[x] \/ vote'[x] = k
  <2> SUFFICES ASSUME NEW x \in Peer, NEW k \in Peer, vote[x] = k
               PROVE  term'[x] > term[x] \/ vote'[x] = k
    OBVIOUS
  <2>1. CASE x \in told /\ term[x] < term[i]
    BY <2>1, <1>1
  <2>2. CASE x = i /\ ahead # {}
    BY <2>2, <1>1, <1>3, <1>5
  <2>3. CASE ~(x \in told /\ term[x] < term[i]) /\ ~(x = i /\ ahead # {})
    BY <2>3, <1>1
  <2>4. QED
    BY <2>1, <2>2, <2>3
<1>10. \A k \in Joined \cap Joined' : cellRole'[k] = "leader" =>
         /\ cellRole[k] = "leader" /\ term'[k] = term[k]
         /\ \A x \in Peer : term[x] = term[k] /\ vote[x] = k => term'[x] > term[x] \/ vote'[x] = k
  BY <1>8, <1>9, JoinedPeers
<1>11. VotersStay' /\ OneLeaderPerTerm'
  BY <1>6, <1>10, LeadersKeepVoters
<1>12. QED
  BY <1>6, <1>7, <1>11

LEMMA CellStepKeepsInv == ASSUME CellInv, [CellNext]_cellVars PROVE CellInv'
<1>1. CASE UNCHANGED cellVars
  <2>1. UNCHANGED <<term, vote, cellRole, moved, member>> /\ Joined' = Joined
    BY <1>1 DEF cellVars, Joined
  <2>2. FoundersCount'
    BY <2>1 DEF CellInv, FoundersCount
  <2>3. VotersStay'
    BY <2>1 DEF CellInv, VotersStay
  <2>4. OneLeaderPerTerm'
    BY <2>1 DEF CellInv, OneLeaderPerTerm
  <2>5. QED
    BY <2>1, <2>2, <2>3, <2>4 DEF CellInv
<1>2. CASE CellNext
  <2>1. moved' \in BOOLEAN /\ FoundersCount' /\ (~moved' => ~moved /\ JoinsEmpty)
    BY <1>2, CellHistory DEF CellInv
  <2> DEFINE Remains == /\ term' \in [Peer -> Nat] /\ vote' \in [Peer -> Maybe(Peer)]
                     /\ cellRole' \in [Peer -> {"follower", "leader"}]
                     /\ VotersStay' /\ OneLeaderPerTerm'
  <2>2. ASSUME NEW i \in Peer, NEW Q \in SUBSET Peer, Campaign(i, Q) \/ SendRound(i, Q)
        PROVE  Remains
    BY <2>1, <2>2, CampaignKeepsCellInv, SendRoundKeepsCellInv
  <2>3. ASSUME UNCHANGED <<term, vote, cellRole>>
        PROVE  Remains
    <3>1. VotersStay' /\ OneLeaderPerTerm'
      <4>1. /\ term' \in [Peer -> Nat] /\ \A x \in Peer : term'[x] >= term[x] /\ vote'[x] = vote[x]
            /\ \A k \in Joined \cap Joined' :
                 cellRole'[k] = "leader" => cellRole[k] = "leader" /\ term'[k] = term[k]
        BY <2>3 DEF CellInv
      <4>2. QED
        BY <2>1, <4>1, LeadersKeepVoters
    <3>2. QED
      BY <2>3, <3>1 DEF CellInv
  <2>4. ASSUME NEW i \in Peer, RestartPeer(i)
        PROVE  Remains
    <3>1. UNCHANGED <<term, vote>> /\ cellRole' = [cellRole EXCEPT ![i] = "follower"]
      BY <2>4 DEF RestartPeer
    <3>2. cellRole' \in [Peer -> {"follower", "leader"}]
      BY <3>1 DEF CellInv
    <3>3. \A k \in Joined \cap Joined' : cellRole'[k] = "leader" => cellRole[k] = "leader"
      BY <3>1, JoinedPeers DEF CellInv
    <3>4. \A x \in Peer : term'[x] >= term[x]
      BY <3>1 DEF CellInv
    <3>5. VotersStay' /\ OneLeaderPerTerm'
      <4>1. term' \in [Peer -> Nat]
        BY <3>1 DEF CellInv
      <4>2. QED
        BY <2>1, <3>1, <3>3, <3>4, <4>1, LeadersKeepVoters
    <3>6. QED
      BY <3>1, <3>2, <3>5 DEF CellInv
  <2>5. ASSUME NEW i \in Peer,
               \/ \E j \in Peer \ {i} : RegisterLearner(i, j) \/ InstallMembership(i, j)
               \/ \E new \in VoterSets : ProposeJoint(i, new)
               \/ ProposeOther(i) \/ ProposeFinalize(i) \/ TrustPeer(i)
        PROVE  UNCHANGED <<term, vote, cellRole>>
    BY <2>5 DEF RegisterLearner, InstallMembership, ProposeJoint, ProposeOther, ProposeFinalize,
                TrustPeer, AppendEntry
  <2>6. Remains
    <3>1. CellStep
      BY <1>2 DEF CellNext
    <3>2. QED
      BY <3>1, <2>2, <2>3, <2>4, <2>5 DEF CellStep
  <2>7. QED
    BY <2>1, <2>6 DEF CellInv
<1>3. QED
  BY <1>1, <1>2

\* While the founders' configuration is not left and nobody usurps the cell, at
\* most one of the nodes that have joined leads a term, for every number of peers,
\* learners, changes, lost calls and restarts, whatever cells of their own the
\* joiners lead meanwhile: the voters of a leader are a majority of the founders
\* whichever joint configuration the leader counts by.
THEOREM OneLeaderThroughChanges == CellSpec => []OneLeaderPerTerm
<1>1. CellInv /\ [CellNext]_cellVars => CellInv'
  BY CellStepKeepsInv
<1>2. CellInv => OneLeaderPerTerm
  BY DEF CellInv
<1>3. QED
  BY CellInitially, <1>1, <1>2, PTL DEF CellSpec

-----------------------------------------------------------------------------
(* The logs *)

LEMMA GreatestOf ==
  ASSUME NEW n \in Nat, NEW S \in SUBSET (0 .. n), S # {}
  PROVE  \E p \in S : \A r \in S : r <= p
<1> DEFINE D == {n - p : p \in S}
<1>1. D \in SUBSET Nat /\ D # {}
  <2>1. \A p \in S : n - p \in Nat
    OBVIOUS
  <2>2. PICK p \in S : TRUE
    OBVIOUS
  <2>3. n - p \in D
    OBVIOUS
  <2>4. QED
    BY <2>1, <2>3
<1>2. PICK d \in D : \A m \in D : d <= m
  <2> HIDE DEF D
  <2>1. QED
    BY <1>1, LeastOf
<1>3. PICK p \in S : d = n - p
  OBVIOUS
<1>4. \A r \in S : r \in Int /\ p \in Int /\ n - p <= n - r
  BY <1>2, <1>3
<1>5. QED
  BY <1>4

\* Those who have joined are peers, and the founders have.
USE JoinedPeers

FounderMajority(Q) == Cardinality(Q \cap Founder) >= MajoritySize(Founder)

\* The log l has an entry of term t at k.
Has(l, k, t) == k \in DOMAIN l /\ l[k].term = t

\* The writer of e reached its term, and a majority of the founders have either
\* its vote there or a later term.
Backed(e) ==
  /\ e.term \in Nat \ {0} /\ e.by \in Peer /\ e.term <= term[e.by]
  /\ \E Q \in SUBSET Founder :
       FounderMajority(Q) /\ \A x \in Q : term[x] > e.term \/ (term[x] = e.term /\ vote[x] = e.by)

EntriesFit ==
  \A s \in Joined : \A m \in DOMAIN cellLog[s] :
    /\ Backed(cellLog[s][m]) /\ cellLog[s][m].term <= term[s]
    /\ \A n \in 1 .. m : cellLog[s][n].term <= cellLog[s][m].term

\* Log matching, as the merge loop relies on it: one term at one index, one past.
LogsMatch ==
  \A a, b \in Joined : \A p \in DOMAIN cellLog[a] \cap DOMAIN cellLog[b] :
    cellLog[a][p].term = cellLog[b][p].term => \A q \in 1 .. p : cellLog[a][q] = cellLog[b][q]

\* The entries of one term are those of one leader: they fill an interval of
\* indexes, the same in every log as far as it goes.
TermsUniform ==
  \A a, b \in Joined : \A p \in DOMAIN cellLog[a], q \in DOMAIN cellLog[b] :
    p <= q /\ cellLog[a][p].term = cellLog[b][q].term => Has(cellLog[b], p, cellLog[a][p].term)

LeaderHasOwn ==
  \A i \in Joined : cellRole[i] = "leader" =>
    /\ term[i] > 0
    /\ \A s \in Joined : \A m \in DOMAIN cellLog[s] :
         cellLog[s][m].term = term[i] => Has(cellLog[i], m, term[i])

MatchFit ==
  \A i \in Joined : cellRole[i] = "leader" => \A j \in Founder \ {i} :
    match[i][j] <= Len(cellLog[i]) /\ (match[i][j] > 0 => term[j] >= term[i])

\* Whatever is of a later term than t has the entry of term t at k: the logs
\* that hold an entry of such a term, and its leaders.
Carried(k, t) ==
  /\ \A s \in Joined : \A m \in DOMAIN cellLog[s] : cellLog[s][m].term > t => Has(cellLog[s], k, t)
  /\ \A s \in Joined : cellRole[s] = "leader" /\ term[s] > t => Has(cellLog[s], k, t)

\* The founders that hold what leader i has at k, as far as i knows
Acked(i, k) == {j \in Founder : j = i \/ match[i][j] >= k}

\* A majority has gone to later terms without acknowledging k: leader i cannot
\* commit it any more.
Blocked(i, k) ==
  \E B \in SUBSET Founder : FounderMajority(B) /\ \A v \in B : term[v] > term[i] /\ v \notin Acked(i, k)

AcksFit ==
  \A i \in Joined : cellRole[i] = "leader" => \A k \in DOMAIN cellLog[i] :
    cellLog[i][k].term = term[i] /\ ~Blocked(i, k) =>
      (\A j \in Acked(i, k) : Has(cellLog[j], k, term[i])) /\ Carried(k, term[i])

\* An entry of term t at k that no later election can leave out.
Safe(k, t) ==
  /\ \E Q \in SUBSET Founder : FounderMajority(Q) /\ \A v \in Q : Has(cellLog[v], k, t)
  /\ Carried(k, t)

CommitsFit ==
  \A i \in Joined : cellCommit[i] > 0 =>
    cellCommit[i] \in DOMAIN cellLog[i] /\ Safe(cellCommit[i], cellLog[i][cellCommit[i]].term)

LogsSound ==
  EntriesFit /\ LogsMatch /\ TermsUniform /\ LeaderHasOwn /\ MatchFit /\ AcksFit /\ CommitsFit

LogType == \E S : cellLog \in [Peer -> Seq(S)]

MembersType ==
  member = [i \in Peer |-> member[i]] /\ \A i \in Peer : "enforced" \in DOMAIN member[i]

\* A node that leads without having joined leads nobody but itself.
OwnCell == \A i \in Peer \ Joined : cellRole[i] = "leader" => Targets(i) = {}

AgreeInv ==
  /\ CellInv
  /\ ~moved => /\ LogType /\ MembersType /\ OwnCell
               /\ cellCommit \in [Peer -> Nat] /\ match \in [Peer -> [Peer -> Nat]]
               /\ LogsSound

LEMMA LogDomain ==
  ASSUME LogType, NEW s \in Peer
  PROVE  Len(cellLog[s]) \in Nat /\ DOMAIN cellLog[s] = 1 .. Len(cellLog[s])
<1>1. PICK S : cellLog \in [Peer -> Seq(S)]
  BY DEF LogType
<1>2. QED
  BY <1>1, LenProperties

LEMMA VoterInCommon ==
  ASSUME NEW P, NEW Q, FounderMajority(P), FounderMajority(Q)
  PROVE  \E v \in Founder : v \in P /\ v \in Q
BY MajoritiesMeet, CellAssumption DEF FounderMajority

\* A leader's voters: a majority of the founders that no other has in its term.
LEMMA LeaderVoters ==
  ASSUME CellInv, ~moved, NEW i \in Joined, cellRole[i] = "leader"
  PROVE  \E Q \in SUBSET Founder :
           FounderMajority(Q) /\ \A x \in Q : term[x] > term[i] \/ (term[x] = term[i] /\ vote[x] = i)
BY DEF CellInv, VotersStay, FounderMajority

\* One log is as far as another that has the entry, and follows it: it has it too.
LEMMA LogOkHas ==
  ASSUME LogType, EntriesFit, TermsUniform, NEW i \in Joined, NEW v \in Joined,
         NEW k, NEW u, LogOk(cellLog[i], cellLog[v]), Has(cellLog[v], k, u),
         \A m \in DOMAIN cellLog[i] : cellLog[i][m].term > u => Has(cellLog[i], k, u)
  PROVE  Has(cellLog[i], k, u)
<1> DEFINE n == Len(cellLog[v])
           m == Len(cellLog[i])
<1>1. /\ n \in Nat /\ DOMAIN cellLog[v] = 1 .. n
      /\ m \in Nat /\ DOMAIN cellLog[i] = 1 .. m
  BY LogDomain
<1>2. k \in 1 .. n /\ cellLog[v][k].term = u
  BY <1>1 DEF Has
<1>3. n \in 1 .. n /\ n # 0 /\ cellLog[v] # <<>>
  BY <1>1, <1>2
<1>4. /\ cellLog[v][n].term \in Nat \ {0} /\ u \in Nat \ {0}
      /\ u <= cellLog[v][n].term
  BY <1>1, <1>2, <1>3 DEF EntriesFit, Backed
<1>5. Last(cellLog[v]) = cellLog[v][n] /\ Last(cellLog[i]) = cellLog[i][m]
  BY DEF Last
<1>6. cellLog[i] # <<>>
  <2> SUFFICES ASSUME cellLog[i] = <<>> PROVE FALSE
    OBVIOUS
  <2>1. 0 > cellLog[v][n].term \/ 0 = cellLog[v][n].term
    BY <1>3, <1>5 DEF LogOk
  <2>2. QED
    BY <2>1, <1>4
<1>7. \/ cellLog[i][m].term > cellLog[v][n].term
      \/ cellLog[i][m].term = cellLog[v][n].term /\ m >= n
  BY <1>3, <1>5, <1>6 DEF LogOk
<1>8. m \in 1 .. m
  <2>1. PICK S : cellLog \in [Peer -> Seq(S)]
    BY DEF LogType
  <2>2. QED
    BY <2>1, <1>1, <1>6, EmptySeq
<1>9. cellLog[i][m].term \in Nat
  BY <1>1, <1>8 DEF EntriesFit, Backed
<1>10. CASE cellLog[i][m].term > u
  BY <1>1, <1>8, <1>10
<1>11. CASE cellLog[i][m].term <= u
  <2>1. cellLog[i][m].term = u /\ cellLog[v][n].term = u /\ k <= m
    BY <1>1, <1>2, <1>4, <1>7, <1>9, <1>11
  <2>2. QED
    BY <2>1, <1>1, <1>2, <1>8 DEF TermsUniform
<1>12. QED
  BY <1>4, <1>9, <1>10, <1>11

\* What nodes have committed under these facts is the same.
LEMMA SoundAgree ==
  ASSUME LogType, cellCommit \in [Peer -> Nat], LogsSound
  PROVE  AgreeOn(Joined)
<1> SUFFICES ASSUME NEW i \in Joined, NEW j \in Joined, cellCommit[i] <= cellCommit[j],
                    NEW k \in 1 .. cellCommit[i]
             PROVE  k \in DOMAIN cellLog[i] \cap DOMAIN cellLog[j] /\ cellLog[i][k] = cellLog[j][k]
  BY DEF AgreeOn
<1> DEFINE c == cellCommit[i]
           d == cellCommit[j]
<1>1. c \in Nat /\ d \in Nat /\ c > 0 /\ d > 0 /\ c <= d /\ k <= c /\ c \in 1 .. c
  OBVIOUS
<1>2. /\ c \in DOMAIN cellLog[i] /\ Carried(c, cellLog[i][c].term)
      /\ d \in DOMAIN cellLog[j] /\ Carried(d, cellLog[j][d].term)
  BY <1>1 DEF LogsSound, CommitsFit, Safe
<1>3. /\ DOMAIN cellLog[i] = 1 .. Len(cellLog[i]) /\ Len(cellLog[i]) \in Nat
      /\ DOMAIN cellLog[j] = 1 .. Len(cellLog[j]) /\ Len(cellLog[j]) \in Nat
  BY LogDomain
<1>4. cellLog[i][c].term \in Nat /\ cellLog[j][d].term \in Nat
  BY <1>2 DEF LogsSound, EntriesFit, Backed
<1>5. Has(cellLog[j], c, cellLog[i][c].term)
  <2>1. CASE cellLog[j][d].term > cellLog[i][c].term
    BY <2>1, <1>2 DEF Carried
  <2>2. CASE cellLog[j][d].term = cellLog[i][c].term
    BY <2>2, <1>1, <1>2 DEF LogsSound, TermsUniform
  <2>3. CASE cellLog[j][d].term < cellLog[i][c].term
    <3>1. Has(cellLog[i], d, cellLog[j][d].term)
      BY <2>3, <1>2, <1>4 DEF Carried
    <3>2. cellLog[i][c].term <= cellLog[i][d].term
      BY <3>1, <1>1 DEF LogsSound, EntriesFit, Has
    <3>3. QED
      BY <3>1, <3>2, <2>3, <1>4 DEF Has
  <2>4. QED
    BY <2>1, <2>2, <2>3, <1>4
<1>6. \A q \in 1 .. c : cellLog[i][q] = cellLog[j][q]
  BY <1>2, <1>5 DEF LogsSound, LogsMatch, Has
<1>7. k \in DOMAIN cellLog[i] /\ k \in DOMAIN cellLog[j]
  BY <1>1, <1>2, <1>3, <1>5 DEF Has
<1>8. QED
  BY <1>6, <1>7

-----------------------------------------------------------------------------
(* What a step may do to terms and votes *)

\* Terms only rise, and a vote is not changed within a term.
VotesFirm ==
  \A x \in Peer :
    term'[x] >= term[x] /\ (term'[x] = term[x] /\ vote[x] # None => vote'[x] = vote[x])

LEMMA BackedKept ==
  ASSUME term \in [Peer -> Nat], term' \in [Peer -> Nat], VotesFirm, NEW e, Backed(e)
  PROVE  Backed(e)'
<1>1. e.term \in Nat \ {0} /\ e.by \in Peer /\ e.term <= term'[e.by]
  BY DEF Backed, VotesFirm
<1>2. PICK Q \in SUBSET Founder :
        FounderMajority(Q) /\ \A x \in Q : term[x] > e.term \/ (term[x] = e.term /\ vote[x] = e.by)
  BY DEF Backed
<1>3. ASSUME NEW x \in Q PROVE term'[x] > e.term \/ (term'[x] = e.term /\ vote'[x] = e.by)
  <2>1. x \in Joined /\ term[x] \in Nat /\ term'[x] \in Nat /\ e.by # None
    BY <1>1, CellAssumption
  <2>2. QED
    BY <2>1, <1>1, <1>2 DEF VotesFirm
<1>4. QED
  BY <1>1, <1>2, <1>3 DEF Backed

\* The leaders after a step that elects nobody were leaders before it, in the
\* same term and with the same log.
LeadersStay ==
  \A l \in Joined : cellRole'[l] = "leader" =>
    cellRole[l] = "leader" /\ term'[l] = term[l] /\ cellLog'[l] = cellLog[l]

\* No new entries: every log after the step is a log from before it.
LogsTaken ==
  /\ Joined' = Joined
  /\ \A s \in Joined : \E b \in Joined : cellLog'[s] = cellLog[b] /\ term[b] <= term'[s]

LEMMA LogsTakenKeep ==
  ASSUME term \in [Peer -> Nat], term' \in [Peer -> Nat], VotesFirm, LogsTaken,
         EntriesFit, LogsMatch, TermsUniform
  PROVE  EntriesFit' /\ LogsMatch' /\ TermsUniform'
<1>0. Joined' = Joined
  BY DEF LogsTaken
<1>1. EntriesFit'
  <2> SUFFICES ASSUME NEW s \in Joined, NEW m \in DOMAIN cellLog'[s]
               PROVE  /\ Backed(cellLog[s][m])' /\ cellLog'[s][m].term <= term'[s]
                      /\ \A n \in 1 .. m : cellLog'[s][n].term <= cellLog'[s][m].term
    BY <1>0 DEF EntriesFit
  <2>1. PICK b \in Joined : cellLog'[s] = cellLog[b] /\ term[b] <= term'[s]
    BY DEF LogsTaken
  <2>2. PICK e : e = cellLog'[s][m]
    OBVIOUS
  <2>3. /\ Backed(e) /\ e.term <= term[b]
        /\ \A n \in 1 .. m : cellLog[b][n].term <= e.term
    BY <2>1, <2>2 DEF EntriesFit
  <2>4. Backed(e)'
    BY <2>3, BackedKept
  <2>5. Backed(cellLog[s][m])'
    BY <2>2, <2>4 DEF Backed
  <2>6. e.term \in Nat /\ term[b] \in Nat /\ term'[s] \in Nat
    BY <2>3 DEF Backed
  <2>7. QED
    BY <2>1, <2>2, <2>3, <2>5, <2>6
<1>2. LogsMatch'
  <2> SUFFICES ASSUME NEW a \in Joined, NEW b \in Joined,
                      NEW p \in DOMAIN cellLog'[a] \cap DOMAIN cellLog'[b],
                      cellLog'[a][p].term = cellLog'[b][p].term, NEW q \in 1 .. p
               PROVE  cellLog'[a][q] = cellLog'[b][q]
    BY <1>0 DEF LogsMatch
  <2>1. PICK c \in Joined, d \in Joined : cellLog'[a] = cellLog[c] /\ cellLog'[b] = cellLog[d]
    BY DEF LogsTaken
  <2>2. QED
    BY <2>1 DEF LogsMatch
<1>3. TermsUniform'
  BY DEF TermsUniform, LogsTaken, Has
<1>4. QED
  BY <1>1, <1>2, <1>3

LEMMA CarriedKept ==
  ASSUME LeadersStay, LogsTaken, NEW k, NEW t, Carried(k, t)
  PROVE  Carried(k, t)'
BY DEF Carried, LeadersStay, LogsTaken, Has

\* A leader whose chance is gone does not get it back.
LEMMA BlockedKept ==
  ASSUME term \in [Peer -> Nat], term' \in [Peer -> Nat], VotesFirm,
         NEW i \in Joined, NEW k, term'[i] = term[i], Blocked(i, k),
         \A j \in Founder : term[j] > term[i] /\ j \notin Acked(i, k) => j \notin Acked(i, k)'
  PROVE  Blocked(i, k)'
<1>1. PICK B \in SUBSET Founder :
        FounderMajority(B) /\ \A v \in B : term[v] > term[i] /\ v \notin Acked(i, k)
  BY DEF Blocked
<1>2. ASSUME NEW v \in B PROVE term'[v] > term'[i] /\ v \notin Acked(i, k)'
  <2>1. v \in Joined /\ v \in Founder /\ term[v] \in Nat /\ term'[v] \in Nat /\ term[i] \in Nat
    BY CellAssumption
  <2>2. QED
    BY <2>1, <1>1 DEF VotesFirm
<1>3. QED
  BY <1>1, <1>2 DEF Blocked

\* Steps that leave the terms and the logs of those who have joined alone, and
\* make none of them a leader.
LEMMA QuietSound ==
  ASSUME CellInv, LogsSound, UNCHANGED <<term, vote>>, Joined' = Joined,
         \A s \in Joined : cellLog'[s] = cellLog[s] /\ cellCommit'[s] = cellCommit[s],
         \A l \in Joined : cellRole'[l] = "leader" => cellRole[l] = "leader" /\ match'[l] = match[l]
  PROVE  LogsSound'
<1>1. VotesFirm /\ LogsTaken /\ LeadersStay /\ term \in [Peer -> Nat] /\ term' \in [Peer -> Nat]
  BY DEF VotesFirm, LogsTaken, LeadersStay, CellInv
<1>2. EntriesFit' /\ LogsMatch' /\ TermsUniform'
  BY <1>1, LogsTakenKeep DEF LogsSound
<1>3. LeaderHasOwn' /\ MatchFit'
  BY DEF LeaderHasOwn, MatchFit, LogsSound, Has
<1>4. AcksFit'
  <2> SUFFICES ASSUME NEW i \in Joined, cellRole'[i] = "leader", NEW k \in DOMAIN cellLog[i],
                      cellLog[i][k].term = term[i], ~Blocked(i, k)'
               PROVE  (\A j \in Acked(i, k)' : Has(cellLog[j], k, term[i])) /\ Carried(k, term[i])'
    BY JoinedPeers DEF AcksFit, Has, Acked
  <2>1. cellRole[i] = "leader" /\ Acked(i, k)' = Acked(i, k)
    BY DEF Acked
  <2>2. ~Blocked(i, k)
    BY <1>1, <2>1, BlockedKept
  <2>3. (\A j \in Acked(i, k) : Has(cellLog[j], k, term[i])) /\ Carried(k, term[i])
    BY <2>1, <2>2 DEF LogsSound, AcksFit
  <2>4. PICK t : t = term[i]
    OBVIOUS
  <2>5. Carried(k, t)'
    BY <1>1, <2>3, <2>4, CarriedKept
  <2>6. QED
    BY <2>1, <2>3, <2>4, <2>5
<1>5. CommitsFit'
  <2> SUFFICES ASSUME NEW i \in Joined, cellCommit[i] > 0
               PROVE  /\ cellCommit[i] \in DOMAIN cellLog[i]
                      /\ Safe(cellCommit[i], cellLog[i][cellCommit[i]].term)'
    BY DEF CommitsFit, Safe
  <2>1. PICK c, t : c = cellCommit[i] /\ t = cellLog[i][cellCommit[i]].term
    OBVIOUS
  <2>2. c \in DOMAIN cellLog[i] /\ Safe(c, t)
    BY <2>1 DEF LogsSound, CommitsFit
  <2>3. Safe(c, t)'
    BY <1>1, <2>2, CarriedKept DEF Safe
  <2>4. QED
    BY <2>1, <2>2, <2>3 DEF Safe, Carried
<1>6. QED
  BY <1>2, <1>3, <1>4, <1>5 DEF LogsSound

\* A node joins that does not lead and has no log.
LEMMA JoinSound ==
  ASSUME CellInv, LogsSound, UNCHANGED <<term, vote, cellLog, cellCommit, cellRole, match>>,
         Joined \subseteq Joined',
         \A k \in Joined' \ Joined :
           cellRole[k] # "leader" /\ DOMAIN cellLog[k] = {} /\ cellCommit[k] = 0
  PROVE  LogsSound'
<1>1. /\ \A s \in Joined' : \A m \in DOMAIN cellLog[s] : s \in Joined
      /\ \A s \in Joined' : cellRole[s] = "leader" => s \in Joined
      /\ \A s \in Joined' : cellCommit[s] > 0 => s \in Joined
  OBVIOUS
<1>2. \A e : Backed(e) => Backed(e)'
  BY DEF Backed
<1>3. EntriesFit'
  <2> SUFFICES ASSUME NEW s \in Joined', NEW m \in DOMAIN cellLog[s]
               PROVE  /\ Backed(cellLog[s][m])' /\ cellLog[s][m].term <= term[s]
                      /\ \A n \in 1 .. m : cellLog[s][n].term <= cellLog[s][m].term
    BY DEF EntriesFit
  <2>1. /\ Backed(cellLog[s][m]) /\ cellLog[s][m].term <= term[s]
        /\ \A n \in 1 .. m : cellLog[s][n].term <= cellLog[s][m].term
    BY <1>1 DEF LogsSound, EntriesFit
  <2>2. QED
    BY <2>1 DEF Backed
<1>4. LogsMatch'
  BY <1>1 DEF LogsSound, LogsMatch
<1>5. TermsUniform'
  BY <1>1 DEF LogsSound, TermsUniform, Has
<1>6. LeaderHasOwn'
  BY <1>1 DEF LogsSound, LeaderHasOwn, Has
<1>7. MatchFit'
  BY <1>1 DEF LogsSound, MatchFit
<1>8. \A k, t : Carried(k, t) => Carried(k, t)'
  BY <1>1 DEF Carried, Has
<1>9. AcksFit'
  <2> SUFFICES ASSUME NEW i \in Joined', cellRole[i] = "leader", NEW k \in DOMAIN cellLog[i],
                      cellLog[i][k].term = term[i], ~Blocked(i, k)
               PROVE  (\A j \in Acked(i, k) : Has(cellLog[j], k, term[i])) /\ Carried(k, term[i])'
    BY DEF AcksFit, Acked, Blocked, Has
  <2>1. (\A j \in Acked(i, k) : Has(cellLog[j], k, term[i])) /\ Carried(k, term[i])
    BY <1>1 DEF LogsSound, AcksFit
  <2>2. PICK t : t = term[i]
    OBVIOUS
  <2>3. Carried(k, t)'
    BY <2>1, <2>2, <1>8
  <2>4. QED
    BY <2>1, <2>2, <2>3 DEF Carried
<1>10. CommitsFit'
  <2> SUFFICES ASSUME NEW i \in Joined', cellCommit[i] > 0
               PROVE  /\ cellCommit[i] \in DOMAIN cellLog[i]
                      /\ Safe(cellCommit[i], cellLog[i][cellCommit[i]].term)'
    BY DEF CommitsFit, Safe
  <2>1. PICK c, t : c = cellCommit[i] /\ t = cellLog[i][cellCommit[i]].term
    OBVIOUS
  <2>2. c \in DOMAIN cellLog[i] /\ Safe(c, t)
    BY <1>1, <2>1 DEF LogsSound, CommitsFit
  <2>3. Carried(c, t)'
    BY <2>2, <1>8 DEF Safe
  <2>4. Safe(c, t)'
    BY <2>2, <2>3 DEF Safe, Has
  <2>5. QED
    BY <2>1, <2>2, <2>4 DEF Safe, Carried
<1>11. QED
  BY <1>3, <1>4, <1>5, <1>6, <1>7, <1>9, <1>10 DEF LogsSound

-----------------------------------------------------------------------------
(* A leader appends an entry *)

\* Leader i appends e, an entry of its own term.
Appends(i, e) ==
  /\ cellRole[i] = "leader" /\ e.term = term[i] /\ e.by = i
  /\ cellLog' = [cellLog EXCEPT ![i] = Append(@, e)]
  /\ UNCHANGED <<term, vote, cellCommit, cellRole, match>>
  /\ Joined' = Joined

LEMMA AppendedLogs ==
  ASSUME LogType, NEW i \in Peer, NEW e, cellLog' = [cellLog EXCEPT ![i] = Append(@, e)]
  PROVE  /\ LogType'
         /\ \A s \in Peer \ {i} : cellLog'[s] = cellLog[s]
         /\ Len(cellLog[i]) + 1 \notin DOMAIN cellLog[i]
         /\ DOMAIN cellLog'[i] = DOMAIN cellLog[i] \cup {Len(cellLog[i]) + 1}
         /\ \A m \in DOMAIN cellLog[i] : m < Len(cellLog[i]) + 1 /\ cellLog'[i][m] = cellLog[i][m]
         /\ cellLog'[i][Len(cellLog[i]) + 1] = e
         /\ DOMAIN cellLog[i] \subseteq Nat \ {0} /\ Len(cellLog[i]) \in Nat
<1>1. PICK S : cellLog \in [Peer -> Seq(S)]
  BY DEF LogType
<1> DEFINE T == S \cup {e}
           l == cellLog[i]
<1>2. l \in Seq(T) /\ \A s \in Peer : cellLog[s] \in Seq(T)
  BY <1>1, SeqMonotonic
<1>3. Append(l, e) \in Seq(T)
  BY <1>2
<1>4. cellLog' \in [Peer -> Seq(T)]
  BY <1>1, <1>2, <1>3
<1>5. LogType'
  BY <1>4 DEF LogType
<1>6. Len(l) \in Nat /\ DOMAIN l = 1 .. Len(l)
  BY <1>2, LenProperties
<1>7. /\ Len(Append(l, e)) = Len(l) + 1
      /\ \A m \in 1 .. Len(l) : Append(l, e)[m] = l[m]
      /\ Append(l, e)[Len(l) + 1] = e
  BY <1>2, AppendProperties
<1>8. DOMAIN Append(l, e) = 1 .. Len(l) + 1
  BY <1>3, <1>7, LenProperties
<1>9. cellLog'[i] = Append(l, e) /\ \A s \in Peer \ {i} : cellLog'[s] = cellLog[s]
  BY <1>1
<1> HIDE DEF l
<1>10. DOMAIN Append(l, e) = DOMAIN l \cup {Len(l) + 1}
  BY <1>6, <1>8
<1>11. QED
  BY <1>5, <1>6, <1>7, <1>9, <1>10 DEF l

LEMMA AppendSound ==
  ASSUME CellInv, LogType, match \in [Peer -> [Peer -> Nat]], LogsSound, ~moved,
         NEW i \in Joined, NEW e, Appends(i, e)
  PROVE  LogsSound'
<1> DEFINE n == Len(cellLog[i]) + 1
           t == term[i]
<1>1. /\ \A s \in Joined \ {i} : cellLog'[s] = cellLog[s]
      /\ n \notin DOMAIN cellLog[i]
      /\ DOMAIN cellLog'[i] = DOMAIN cellLog[i] \cup {n}
      /\ \A m \in DOMAIN cellLog[i] : m < n /\ cellLog'[i][m] = cellLog[i][m]
      /\ cellLog'[i][n] = e
      /\ DOMAIN cellLog[i] \subseteq Nat \ {0} /\ n \in Nat \ {0} /\ Len(cellLog[i]) \in Nat
  <2>1. cellLog' = [cellLog EXCEPT ![i] = Append(@, e)]
    BY DEF Appends
  <2>2. Len(cellLog[i]) \in Nat
    BY LogDomain
  <2>3. n \in Nat \ {0}
    BY <2>2
  <2>4. QED
    BY <2>1, <2>3, AppendedLogs, Zenon
<1>2. /\ UNCHANGED <<term, vote, cellCommit, cellRole, match>> /\ Joined' = Joined
      /\ cellRole[i] = "leader" /\ e.term = t /\ e.by = i
  BY DEF Appends
<1>3. t \in Nat \ {0} /\ term \in [Peer -> Nat]
  BY <1>2 DEF LogsSound, LeaderHasOwn, CellInv
<1>4. \A s \in Joined : DOMAIN cellLog[s] = 1 .. Len(cellLog[s]) /\ Len(cellLog[s]) \in Nat
  BY LogDomain
<1> HIDE DEF n
\* No log has an entry of the term where the new one goes, or after it.
<1>5. \A s \in Joined : \A m \in DOMAIN cellLog[s] : cellLog[s][m].term = t => Has(cellLog[i], m, t) /\ m < n
  <2>1. \A s \in Joined : \A m \in DOMAIN cellLog[s] : cellLog[s][m].term = t => Has(cellLog[i], m, t)
    BY <1>2 DEF LogsSound, LeaderHasOwn
  <2>2. QED
    BY <2>1, <1>1 DEF Has
<1>6. \A s \in Joined : \A k, u : Has(cellLog[s], k, u) => Has(cellLog'[s], k, u)
  BY <1>1 DEF Has
<1>7. \A s \in Joined : \A k, u :
        Has(cellLog'[s], k, u) => Has(cellLog[s], k, u) \/ (s = i /\ k = n /\ u = t)
  BY <1>1, <1>2 DEF Has
<1>8. \A s \in Joined : \A m \in DOMAIN cellLog'[s] :
        \/ m \in DOMAIN cellLog[s] /\ cellLog'[s][m] = cellLog[s][m]
        \/ s = i /\ m = n /\ cellLog'[s][m] = e
  BY <1>1
<1>9. VotesFirm
  BY <1>2, <1>3 DEF VotesFirm
<1>10. EntriesFit'
  <2>1. ASSUME NEW s \in Joined, NEW m \in DOMAIN cellLog[s], cellLog'[s][m] = cellLog[s][m]
        PROVE  /\ Backed(cellLog[s][m])' /\ cellLog'[s][m].term <= term'[s]
               /\ \A k \in 1 .. m : cellLog'[s][k].term <= cellLog'[s][m].term
    <3>1. PICK d : d = cellLog[s][m]
      OBVIOUS
    <3>2. Backed(d) /\ d.term <= term[s] /\ \A k \in 1 .. m : cellLog[s][k].term <= d.term
      BY <3>1 DEF LogsSound, EntriesFit
    <3>3. Backed(d)'
      BY <3>2, <1>2, <1>3, <1>9, BackedKept
    <3>4. \A k \in 1 .. m : cellLog'[s][k] = cellLog[s][k]
      <4>1. \A k \in 1 .. m : k \in DOMAIN cellLog[s]
        BY <1>4
      <4>2. QED
        BY <4>1, <1>1
    <3>5. QED
      BY <3>1, <3>2, <3>3, <3>4, <2>1, <1>2 DEF Backed
  <2>2. Backed(e)'
    BY <1>2, <1>3, LeaderVoters DEF Backed
  <2>3. \A k \in 1 .. n : cellLog'[i][k].term <= t
    <3> SUFFICES ASSUME NEW k \in 1 .. n, k # n PROVE cellLog'[i][k].term <= t
      BY <1>1, <1>2, <1>3
    <3>1. k \in DOMAIN cellLog[i]
      BY <1>1, <1>4 DEF n
    <3>2. QED
      BY <3>1, <1>1 DEF LogsSound, EntriesFit
  <2> SUFFICES ASSUME NEW s \in Joined, NEW m \in DOMAIN cellLog'[s]
               PROVE  /\ Backed(cellLog[s][m])' /\ cellLog'[s][m].term <= term'[s]
                      /\ \A k \in 1 .. m : cellLog'[s][k].term <= cellLog'[s][m].term
    BY <1>2 DEF EntriesFit
  <2>4. CASE m \in DOMAIN cellLog[s] /\ cellLog'[s][m] = cellLog[s][m]
    BY <2>1, <2>4
  <2>5. CASE s = i /\ m = n /\ cellLog'[s][m] = e
    BY <2>2, <2>3, <2>5, <1>2, <1>3 DEF Backed
  <2>6. QED
    BY <2>4, <2>5, <1>8
<1>11. LogsMatch'
  <2> SUFFICES ASSUME NEW a \in Joined, NEW b \in Joined,
                      NEW p \in DOMAIN cellLog'[a] \cap DOMAIN cellLog'[b],
                      cellLog'[a][p].term = cellLog'[b][p].term, NEW q \in 1 .. p
               PROVE  cellLog'[a][q] = cellLog'[b][q]
    BY <1>2 DEF LogsMatch
  <2> SUFFICES ASSUME a # b PROVE cellLog'[a][q] = cellLog'[b][q]
    OBVIOUS
  <2>1. p \in DOMAIN cellLog[a] \cap DOMAIN cellLog[b]
    <3>1. ASSUME NEW s \in Joined, s # i, p \in DOMAIN cellLog'[s], cellLog'[s][p].term = cellLog'[i][p].term
          PROVE  p # n
      <4>1. cellLog[s] = cellLog'[s]
        BY <1>1, <3>1
      <4>2. cellLog'[i][n].term = t
        BY <1>1, <1>2
      <4>3. p = n => n \in DOMAIN cellLog[s] /\ cellLog[s][n].term = t
        BY <4>1, <4>2, <3>1
      <4>4. p = n => n < n
        BY <4>3, <1>5
      <4>5. QED
        BY <4>4, <1>1
    <3>2. a = i \/ b = i => p # n
      BY <3>1
    <3>3. QED
      BY <3>2, <1>1
  <2>2. q \in DOMAIN cellLog[a] /\ q \in DOMAIN cellLog[b]
    BY <2>1, <1>4
  <2>3. \A s \in Joined : \A m \in DOMAIN cellLog[s] : cellLog'[s][m] = cellLog[s][m]
    BY <1>1
  <2>4. cellLog[a][p].term = cellLog[b][p].term
    BY <2>1, <2>3
  <2>5. cellLog[a][q] = cellLog[b][q]
    BY <2>1, <2>4 DEF LogsSound, LogsMatch
  <2>6. QED
    BY <2>2, <2>3, <2>5
<1>12. TermsUniform'
  <2> SUFFICES ASSUME NEW a \in Joined, NEW b \in Joined,
                      NEW p \in DOMAIN cellLog'[a], NEW q \in DOMAIN cellLog'[b],
                      p <= q, cellLog'[a][p].term = cellLog'[b][q].term
               PROVE  Has(cellLog'[b], p, cellLog'[a][p].term)
    BY <1>2 DEF TermsUniform
  <2>1. CASE b = i /\ q = n
    <3>1. cellLog'[a][p].term = t
      BY <2>1, <1>1, <1>2
    <3>2. Has(cellLog'[i], n, t)
      BY <1>1, <1>2 DEF Has
    <3>3. QED
      BY <2>1, <3>1, <3>2, <1>5, <1>6, <1>8
  <2>2. CASE q \in DOMAIN cellLog[b] /\ cellLog'[b][q] = cellLog[b][q]
    <3>1. CASE a = i /\ p = n /\ cellLog'[a][p] = e
      <4>1. q < n
        BY <3>1, <2>2, <1>2, <1>5
      <4>2. QED
        BY <4>1, <3>1, <2>2, <1>1, <1>4
    <3>2. CASE p \in DOMAIN cellLog[a] /\ cellLog'[a][p] = cellLog[a][p]
      BY <3>2, <2>2, <1>6 DEF LogsSound, TermsUniform
    <3>3. QED
      BY <3>1, <3>2, <1>8
  <2>3. QED
    BY <2>1, <2>2, <1>8
<1>13. LeaderHasOwn'
  <2> SUFFICES ASSUME NEW l \in Joined, cellRole[l] = "leader"
               PROVE  /\ term[l] > 0
                      /\ \A s \in Joined : \A m \in DOMAIN cellLog'[s] :
                           cellLog'[s][m].term = term[l] => Has(cellLog'[l], m, term[l])
    BY <1>2 DEF LeaderHasOwn
  <2>1. /\ term[l] > 0
        /\ \A s \in Joined : \A m \in DOMAIN cellLog[s] :
             cellLog[s][m].term = term[l] => Has(cellLog[l], m, term[l])
    BY DEF LogsSound, LeaderHasOwn
  <2>2. term[l] = t => l = i
    BY <1>2 DEF CellInv, OneLeaderPerTerm
  <2>3. Has(cellLog'[i], n, t)
    BY <1>1, <1>2 DEF Has
  <2>4. ASSUME NEW s \in Joined, NEW m \in DOMAIN cellLog'[s], cellLog'[s][m].term = term[l]
        PROVE  Has(cellLog'[l], m, term[l])
    <3>1. CASE m \in DOMAIN cellLog[s] /\ cellLog'[s][m] = cellLog[s][m]
      BY <3>1, <2>1, <2>4, <1>6
    <3>2. CASE s = i /\ m = n /\ cellLog'[s][m] = e
      BY <3>2, <2>2, <2>3, <2>4, <1>2
    <3>3. QED
      BY <3>1, <3>2, <1>8
  <2>5. QED
    BY <2>1, <2>4, <1>2
<1>14. MatchFit'
  <2> SUFFICES ASSUME NEW l \in Joined, cellRole[l] = "leader", NEW j \in Founder \ {l}
               PROVE  match[l][j] <= Len(cellLog'[l]) /\ (match[l][j] > 0 => term[j] >= term[l])
    BY <1>2 DEF MatchFit
  <2>1. match[l][j] <= Len(cellLog[l]) /\ (match[l][j] > 0 => term[j] >= term[l])
    BY DEF LogsSound, MatchFit
  <2>2. match[l][j] \in Nat /\ Len(cellLog[l]) \in Nat
    BY <1>4, CellAssumption
  <2>3. Len(cellLog'[l]) \in Nat /\ Len(cellLog'[l]) >= Len(cellLog[l])
    <3>1. CASE l = i
      <4>1. LogType'
        BY AppendedLogs DEF Appends
      <4>2. Len(cellLog'[i]) \in Nat /\ DOMAIN cellLog'[i] = 1 .. Len(cellLog'[i])
        BY <4>1, LogDomain
      <4>3. n \in DOMAIN cellLog'[i]
        BY <1>1
      <4>4. QED
        BY <3>1, <4>2, <4>3, <1>4 DEF n
    <3>2. CASE l # i
      BY <3>2, <2>2, <1>1
    <3>3. QED
      BY <3>1, <3>2
  <2>4. QED
    BY <2>1, <2>2, <2>3
<1>15. ASSUME NEW k, NEW u, Carried(k, u) PROVE Carried(k, u)'
  <2>1. ASSUME NEW s \in Joined, NEW m \in DOMAIN cellLog'[s], cellLog'[s][m].term > u
        PROVE  Has(cellLog'[s], k, u)
    <3>1. CASE m \in DOMAIN cellLog[s] /\ cellLog'[s][m] = cellLog[s][m]
      BY <3>1, <2>1, <1>6, <1>15 DEF Carried
    <3>2. CASE s = i /\ m = n /\ cellLog'[s][m] = e
      BY <3>2, <2>1, <1>2, <1>6, <1>15 DEF Carried
    <3>3. QED
      BY <3>1, <3>2, <1>8
  <2>2. \A s \in Joined : cellRole'[s] = "leader" /\ term'[s] > u => Has(cellLog'[s], k, u)
    BY <1>2, <1>6, <1>15 DEF Carried
  <2>3. QED
    BY <2>1, <2>2, <1>2 DEF Carried
<1>16. AcksFit'
  <2> SUFFICES ASSUME NEW l \in Joined, cellRole[l] = "leader", NEW k \in DOMAIN cellLog'[l],
                      cellLog'[l][k].term = term[l], ~Blocked(l, k)
               PROVE  (\A j \in Acked(l, k) : Has(cellLog'[j], k, term[l])) /\ Carried(k, term[l])'
    BY <1>2 DEF AcksFit, Acked, Blocked
  <2>1. CASE k \in DOMAIN cellLog[l] /\ cellLog'[l][k] = cellLog[l][k]
    <3>1. (\A j \in Acked(l, k) : Has(cellLog[j], k, term[l])) /\ Carried(k, term[l])
      BY <2>1 DEF LogsSound, AcksFit
    <3>2. PICK u : u = term[l]
      OBVIOUS
    <3>3. Carried(k, u)'
      BY <1>15, <3>1, <3>2
    <3>4. \A j \in Acked(l, k) : j \in Joined
      BY CellAssumption DEF Acked
    <3>5. QED
      BY <3>1, <3>2, <3>3, <3>4, <1>2, <1>6
  <2>2. CASE l = i /\ k = n
    <3>1. ASSUME NEW j \in Acked(i, n) PROVE j = i
      <4>1. CASE j # i
        <5>1. j \in Founder \ {i} /\ match[i][j] >= n
          BY <3>1, <4>1 DEF Acked
        <5>2. match[i][j] <= Len(cellLog[i]) /\ match[i][j] \in Nat
          BY <5>1, <1>2, CellAssumption DEF LogsSound, MatchFit
        <5>3. QED
          BY <5>1, <5>2, <1>1 DEF n
      <4>2. QED
        BY <4>1
    <3>2. Has(cellLog'[i], n, t)
      BY <1>1, <1>2 DEF Has
    <3>3. ASSUME NEW Q \in SUBSET Founder, FounderMajority(Q), \A x \in Q : term[x] > t
          PROVE  FALSE
      <4>1. \A x \in Q : x \notin Acked(i, n)
        BY <3>1, <3>3, <1>3
      <4>2. Blocked(i, n)
        BY <3>3, <4>1 DEF Blocked
      <4>3. QED
        BY <4>2, <2>2
    <3>4. ASSUME NEW s \in Joined, NEW m \in DOMAIN cellLog[s], cellLog[s][m].term > t
          PROVE  FALSE
      <4>1. PICK d : d = cellLog[s][m]
        OBVIOUS
      <4>2. Backed(d) /\ d.term > t
        BY <4>1, <3>4 DEF LogsSound, EntriesFit
      <4>3. PICK Q \in SUBSET Founder :
              /\ FounderMajority(Q)
              /\ \A x \in Q : term[x] > d.term \/ (term[x] = d.term /\ vote[x] = d.by)
        BY <4>2 DEF Backed
      <4>4. ASSUME NEW x \in Q PROVE term[x] > t
        <5>1. term[x] \in Nat /\ d.term \in Nat
          BY <4>2, <1>3, CellAssumption DEF Backed
        <5>2. QED
          BY <5>1, <4>2, <4>3, <1>3
      <4>5. QED
        BY <3>3, <4>3, <4>4
    <3>5. ASSUME NEW s \in Joined, cellRole[s] = "leader", term[s] > t
          PROVE  FALSE
      <4>1. PICK Q \in SUBSET Founder :
              /\ FounderMajority(Q)
              /\ \A x \in Q : term[x] > term[s] \/ (term[x] = term[s] /\ vote[x] = s)
        BY <3>5, LeaderVoters
      <4>2. ASSUME NEW x \in Q PROVE term[x] > t
        <5>1. term[x] \in Nat /\ term[s] \in Nat
          BY <1>3, CellAssumption
        <5>2. QED
          BY <5>1, <4>1, <3>5, <1>3
      <4>3. QED
        BY <3>3, <4>1, <4>2
    <3>6. \A s \in Joined : \A m \in DOMAIN cellLog'[s] : ~(cellLog'[s][m].term > t)
      BY <3>4, <1>2, <1>3, <1>8
    <3>7. PICK u : u = term[l]
      OBVIOUS
    <3>8. \A j \in Acked(l, k) : Has(cellLog'[j], k, u)
      BY <2>2, <3>1, <3>2, <3>7
    <3>9. Carried(k, u)'
      BY <2>2, <3>5, <3>6, <3>7, <1>2 DEF Carried
    <3>10. QED
      BY <3>7, <3>8, <3>9, <1>2 DEF Carried
  <2>3. QED
    BY <2>1, <2>2, <1>8
<1>17. CommitsFit'
  <2> SUFFICES ASSUME NEW s \in Joined, cellCommit[s] > 0
               PROVE  cellCommit[s] \in DOMAIN cellLog'[s]
                        /\ Safe(cellCommit[s], cellLog[s][cellCommit[s]].term)'
    BY <1>2 DEF CommitsFit
  <2>1. PICK c, u : c = cellCommit[s] /\ u = cellLog[s][c].term
    OBVIOUS
  <2>2. c \in DOMAIN cellLog[s] /\ Safe(c, u)
    BY <2>1 DEF LogsSound, CommitsFit
  <2>3. c \in DOMAIN cellLog'[s] /\ cellLog'[s][c] = cellLog[s][c]
    BY <2>2, <1>1
  <2>4. Carried(c, u)'
    BY <2>2, <1>15 DEF Safe
  <2>5. Safe(c, u)'
    BY <2>2, <2>4, <1>6, CellAssumption DEF Safe
  <2>6. QED
    BY <2>1, <2>3, <2>5, <1>2 DEF Safe, Carried
<1>18. QED
  BY <1>10, <1>11, <1>12, <1>13, <1>14, <1>16, <1>17 DEF LogsSound

-----------------------------------------------------------------------------
(* An election *)

\* Peer i runs for leader; if it wins, these are its voters and what they knew.
Elects(i) ==
  /\ UNCHANGED <<cellLog, cellCommit>> /\ Joined' = Joined /\ VotesFirm
  /\ \A l \in Joined \ {i} : cellRole'[l] = "leader" =>
       cellRole[l] = "leader" /\ term'[l] = term[l] /\ match'[l] = match[l]
  /\ i \in Joined /\ cellRole'[i] = "leader" =>
       /\ term'[i] = term[i] + 1 /\ \A j \in Founder \ {i} : match'[i][j] = 0
       /\ \E V \in SUBSET Founder :
            /\ FounderMajority(V)
            /\ \A x \in V :
                 /\ term'[x] = term'[i]
                 /\ x # i => /\ term[x] < term'[i] \/ (term[x] = term'[i] /\ vote[x] \in {None, i})
                             /\ LogOk(cellLog[i], cellLog[x])

LEMMA AtMost == ASSUME NEW a \in Nat, NEW b \in Nat, a <= b PROVE a < b \/ a = b
OBVIOUS

LEMMA CampaignElects ==
  ASSUME CellInv, ~moved, match \in [Peer -> [Peer -> Nat]], Joined' = Joined,
         term' \in [Peer -> Nat], NEW i \in Peer, NEW Q \in SUBSET Peer, Campaign(i, Q)
  PROVE  Elects(i)
<1> DEFINE t == term[i] + 1
           ahead == {j \in Q : term[j] > t}
           canVote == {j \in Q : term[j] <= t /\ ~Bars(j, i)}
           voting == {j \in canVote : GrantsVote(j, i, t)}
           wins == ahead = {} /\ HasQuorum(member[i].config, voting \cup {i})
           rival == CHOOSE k \in ahead : TRUE
<1>1. /\ cellRole[i] # "leader"
      /\ term' = [j \in Peer |->
           IF j = i THEN (IF ahead = {} THEN t ELSE term[rival])
           ELSE IF j \in canVote THEN t ELSE term[j]]
      /\ vote' = [j \in Peer |->
           IF j \in voting \/ (j = i /\ ahead = {}) THEN i
           ELSE IF j = i \/ (j \in canVote /\ term[j] < t) THEN None ELSE vote[j]]
      /\ cellRole' = [j \in Peer |->
           IF j = i /\ wins THEN "leader"
           ELSE IF j \in canVote /\ term[j] < t THEN "follower" ELSE cellRole[j]]
      /\ match' = [match EXCEPT ![i] =
           [j \in Peer |-> IF wins /\ j \in PeerIds(member[i].config, i) THEN 0 ELSE @[j]]]
      /\ UNCHANGED <<cellLog, cellCommit>>
  BY DEF Campaign
<1>2. i \notin Q
  BY DEF PeerIds, Campaign
<1>3. t \in Nat /\ t > term[i] /\ term \in [Peer -> Nat]
  BY DEF CellInv
<1>4. /\ \A j \in canVote : term[j] <= t /\ j \in Peer
      /\ \A j \in voting : /\ j \in canVote /\ (term[j] < t \/ vote[j] \in {None, i})
                           /\ LogOk(cellLog[i], cellLog[j])
      /\ i \notin canVote
  BY <1>2 DEF GrantsVote
<1>5. ahead # {} => rival \in Peer /\ term[rival] > t
  OBVIOUS
<1> HIDE DEF ahead, canVote, voting, wins, t, rival
<1>6. VotesFirm
  <2> SUFFICES ASSUME NEW x \in Peer
               PROVE  term'[x] >= term[x] /\ (term'[x] = term[x] /\ vote[x] # None => vote'[x] = vote[x])
    BY DEF VotesFirm
  <2>1. CASE x = i
    <3>1. term'[i] > term[i]
      <4>1. ahead # {} => term[rival] \in Nat
        BY <1>3, <1>5
      <4>2. term'[i] = IF ahead = {} THEN t ELSE term[rival]
        BY <1>1
      <4>3. term[i] \in Nat
        BY <1>3
      <4>4. QED
        BY <4>1, <4>2, <4>3, <1>3, <1>5
    <3>2. QED
      BY <2>1, <3>1, <1>3
  <2>2. CASE x # i /\ x \in canVote
    <3>1. term'[x] = t /\ term[x] <= t
      BY <2>2, <1>1, <1>4
    <3>2. ~(term[x] < t) /\ vote[x] # None => vote'[x] = vote[x]
      BY <2>2, <1>1, <1>4
    <3>3. QED
      BY <3>1, <3>2, <1>3
  <2>3. CASE x # i /\ x \notin canVote
    <3>1. term'[x] = term[x] /\ vote'[x] = vote[x] /\ term[x] \in Nat
      BY <2>3, <1>1, <1>3, <1>4
    <3>2. QED
      BY <3>1
  <2>4. QED
    BY <2>1, <2>2, <2>3
<1>7. ASSUME NEW l \in Peer \ {i}, cellRole'[l] = "leader"
      PROVE  cellRole[l] = "leader" /\ term'[l] = term[l] /\ match'[l] = match[l]
  <2>1. ~(l \in canVote /\ term[l] < t) /\ cellRole[l] = "leader"
    BY <1>1, <1>7
  <2>2. l \in canVote => term[l] = t
    <3> SUFFICES ASSUME l \in canVote PROVE term[l] = t
      OBVIOUS
    <3>1. term[l] \in Nat /\ t \in Nat
      BY <1>3
    <3>2. term[l] <= t /\ ~(term[l] < t)
      BY <2>1, <1>4
    <3>3. QED
      BY <3>1, <3>2, AtMost
  <2>3. term'[l] = IF l \in canVote THEN t ELSE term[l]
    BY <1>1
  <2>4. QED
    BY <2>1, <2>2, <2>3, <1>1
<1>8. ASSUME i \in Joined, cellRole'[i] = "leader"
      PROVE  /\ term'[i] = term[i] + 1 /\ \A j \in Founder \ {i} : match'[i][j] = 0
             /\ \E V \in SUBSET Founder :
                  /\ FounderMajority(V)
                  /\ \A x \in V :
                       /\ term'[x] = term'[i]
                       /\ x # i => /\ term[x] < term'[i] \/ (term[x] = term'[i] /\ vote[x] \in {None, i})
                                   /\ LogOk(cellLog[i], cellLog[x])
  <2>1. wins
    BY <1>1, <1>4, <1>8
  <2>2. ahead = {} /\ HasQuorum(member[i].config, voting \cup {i})
    BY <2>1 DEF wins
  <2>3. member[i].config.voters = Founder
    BY <1>8 DEF CellInv, FoundersCount
  <2>4. term'[i] = t
    BY <2>2, <1>1
  <2>5. \A j \in Founder \ {i} : match'[i][j] = 0
    <3>1. \A j \in Founder \ {i} : j \in Peer /\ j \in PeerIds(member[i].config, i)
      BY <2>3, CellAssumption DEF PeerIds, AllVoters
    <3>2. QED
      BY <2>1, <3>1, <1>1
  <2> DEFINE V == (voting \cup {i}) \cap Founder
  <2>6. FounderMajority(V)
    <3>1. V \cap Founder = (voting \cup {i}) \cap member[i].config.voters
      BY <2>3
    <3>2. QED
      BY <3>1, <2>2, <2>3 DEF HasQuorum, FounderMajority
  <2>7. ASSUME NEW x \in V
        PROVE  /\ term'[x] = term'[i]
               /\ x # i => /\ term[x] < term'[i] \/ (term[x] = term'[i] /\ vote[x] \in {None, i})
                           /\ LogOk(cellLog[i], cellLog[x])
    <3>1. CASE x = i
      BY <3>1
    <3>2. CASE x # i
      <4>1. x \in voting /\ x \in canVote /\ x \in Peer
        BY <3>2, <1>4
      <4>2. term'[x] = t /\ term[x] \in Nat /\ term[x] <= t
        BY <4>1, <3>2, <1>1, <1>3, <1>4
      <4>3. (term[x] < t \/ vote[x] \in {None, i}) /\ LogOk(cellLog[i], cellLog[x])
        BY <4>1, <1>4
      <4>4. t \in Nat /\ term[x] \in Nat /\ term[x] <= t
        BY <4>2, <1>3
      <4>5. term[x] < t \/ term[x] = t
        BY <4>4, AtMost
      <4>6. term'[x] = term'[i]
        BY <4>2, <2>4
      <4>7. term[x] < term'[i] \/ (term[x] = term'[i] /\ vote[x] \in {None, i})
        <5>1. CASE term[x] < t
          BY <5>1, <2>4
        <5>2. CASE ~(term[x] < t)
          BY <5>2, <4>3, <4>5, <2>4
        <5>3. QED
          BY <5>1, <5>2
      <4>8. QED
        BY <4>3, <4>6, <4>7
    <3>3. QED
      BY <3>1, <3>2
  <2>8. V \in SUBSET Founder
    OBVIOUS
  <2>9. QED
    BY <2>3, <2>4, <2>5, <2>6, <2>7, <2>8 DEF t
<1>9. QED
  BY <1>1, <1>6, <1>7, <1>8 DEF Elects

\* What the voters of the new leader i hold and all later logs follow, i has.
LEMMA ElectedHas ==
  ASSUME LogType, LogsSound, NEW i \in Joined, NEW v \in Joined, NEW k, NEW u,
         v # i => LogOk(cellLog[i], cellLog[v]), Has(cellLog[v], k, u), Carried(k, u)
  PROVE  Has(cellLog[i], k, u)
<1>1. \A m \in DOMAIN cellLog[i] : cellLog[i][m].term > u => Has(cellLog[i], k, u)
  BY DEF Carried
<1>2. CASE v = i
  BY <1>2
<1>3. CASE v # i
  BY <1>1, <1>3, LogOkHas DEF LogsSound
<1>4. QED
  BY <1>2, <1>3

\* No log has an entry of the term a leader is elected in.
LEMMA NewTermIsEmpty ==
  ASSUME CellInv, LogsSound, NEW i \in Joined, Elects(i), cellRole'[i] = "leader",
         NEW s \in Joined, NEW m \in DOMAIN cellLog[s]
  PROVE  cellLog[s][m].term # term'[i]
<1> SUFFICES ASSUME cellLog[s][m].term = term'[i] PROVE FALSE
  OBVIOUS
<1>1. PICK e : e = cellLog[s][m]
  OBVIOUS
<1>2. Backed(e) /\ e.term = term'[i] /\ term'[i] = term[i] + 1
  BY <1>1 DEF LogsSound, EntriesFit, Elects
<1>3. PICK Q \in SUBSET Founder :
        FounderMajority(Q) /\ \A x \in Q : term[x] > e.term \/ (term[x] = e.term /\ vote[x] = e.by)
  BY <1>2 DEF Backed
<1>4. PICK V \in SUBSET Founder :
        /\ FounderMajority(V)
        /\ \A x \in V : x # i => term[x] < term'[i] \/ (term[x] = term'[i] /\ vote[x] \in {None, i})
  BY DEF Elects
<1>5. PICK x \in Founder : x \in Q /\ x \in V
  BY <1>3, <1>4, VoterInCommon
<1>6. term[x] \in Nat /\ term[i] \in Nat /\ e.by # None /\ e.term <= term[e.by]
  BY <1>2, CellAssumption DEF CellInv, Backed
<1>7. x # i
  BY <1>2, <1>3, <1>5, <1>6
<1>8. vote[x] = e.by /\ vote[x] \in {None, i}
  BY <1>2, <1>3, <1>4, <1>5, <1>6, <1>7
<1>9. QED
  BY <1>2, <1>6, <1>8

LEMMA ElectionSound ==
  ASSUME CellInv, LogType, LogsSound, ~moved, term' \in [Peer -> Nat], NEW i \in Peer, Elects(i)
  PROVE  LogsSound'
<1>1. /\ UNCHANGED <<cellLog, cellCommit>> /\ Joined' = Joined /\ VotesFirm
      /\ \A l \in Joined \ {i} : cellRole'[l] = "leader" =>
           cellRole[l] = "leader" /\ term'[l] = term[l] /\ match'[l] = match[l]
  BY DEF Elects
<1>2. term \in [Peer -> Nat]
  BY DEF CellInv
<1>3. LogsTaken
  BY <1>1 DEF LogsTaken, VotesFirm
<1>4. EntriesFit' /\ LogsMatch' /\ TermsUniform'
  BY <1>1, <1>2, <1>3, LogsTakenKeep DEF LogsSound
<1>5. LeaderHasOwn'
  <2> SUFFICES ASSUME NEW l \in Joined, cellRole'[l] = "leader"
               PROVE  /\ term'[l] > 0
                      /\ \A s \in Joined : \A m \in DOMAIN cellLog[s] :
                           cellLog[s][m].term = term'[l] => Has(cellLog[l], m, term'[l])
    BY <1>1 DEF LeaderHasOwn
  <2>1. CASE l = i
    <3>1. term'[i] = term[i] + 1
      BY <2>1 DEF Elects
    <3>2. term'[i] > 0
      BY <3>1, <1>2
    <3>3. QED
      BY <2>1, <3>1, <3>2, <1>1, NewTermIsEmpty
  <2>2. CASE l # i
    BY <2>2, <1>1 DEF LogsSound, LeaderHasOwn
  <2>3. QED
    BY <2>1, <2>2
<1>6. MatchFit'
  <2> SUFFICES ASSUME NEW l \in Joined, cellRole'[l] = "leader", NEW j \in Founder \ {l}
               PROVE  match'[l][j] <= Len(cellLog[l]) /\ (match'[l][j] > 0 => term'[j] >= term'[l])
    BY <1>1 DEF MatchFit
  <2>1. CASE l = i
    <3>1. match'[i][j] = 0 /\ Len(cellLog[l]) \in Nat
      BY <2>1, LogDomain DEF Elects
    <3>2. QED
      BY <2>1, <3>1
  <2>2. CASE l # i
    <3>1. /\ match'[l] = match[l] /\ term'[l] = term[l]
          /\ match[l][j] <= Len(cellLog[l]) /\ (match[l][j] > 0 => term[j] >= term[l])
      BY <2>2, <1>1 DEF LogsSound, MatchFit
    <3>2. j \in Joined /\ term'[j] >= term[j] /\ term'[j] \in Nat /\ term[j] \in Nat /\ term[l] \in Nat
      BY <1>1, <1>2, CellAssumption DEF VotesFirm
    <3>3. QED
      BY <3>1, <3>2
  <2>3. QED
    BY <2>1, <2>2
\* What was followed is, if the new leader has it or is of no later term.
<1>7. ASSUME NEW k, NEW u, Carried(k, u),
             i \in Joined /\ cellRole'[i] = "leader" /\ term'[i] > u => Has(cellLog[i], k, u)
      PROVE  Carried(k, u)'
  BY <1>1, <1>7 DEF Carried
<1>8. AcksFit'
  <2> SUFFICES ASSUME NEW l \in Joined, cellRole'[l] = "leader", NEW k \in DOMAIN cellLog[l],
                      cellLog[l][k].term = term'[l], ~Blocked(l, k)'
               PROVE  /\ \A j \in Acked(l, k)' : Has(cellLog[j], k, term'[l])
                      /\ Carried(k, term[l])'
    BY <1>1 DEF AcksFit
  <2>1. l # i
    BY NewTermIsEmpty
  <2>2. PICK u : u = term[l]
    OBVIOUS
  <2>3. cellRole[l] = "leader" /\ term'[l] = u /\ match'[l] = match[l] /\ u \in Nat
    BY <2>1, <2>2, <1>1, <1>2
  <2>4. Acked(l, k)' = Acked(l, k)
    BY <2>3 DEF Acked
  <2>5. ~Blocked(l, k)
    BY <2>2, <2>3, <2>4, <1>1, <1>2, BlockedKept
  <2>6. (\A j \in Acked(l, k) : Has(cellLog[j], k, u)) /\ Carried(k, u)
    BY <2>2, <2>3, <2>5 DEF LogsSound, AcksFit
  <2>7. ASSUME i \in Joined, cellRole'[i] = "leader", term'[i] > u
        PROVE  Has(cellLog[i], k, u)
    <3>1. PICK V \in SUBSET Founder :
            /\ FounderMajority(V)
            /\ \A x \in V : term'[x] = term'[i] /\ (x # i => LogOk(cellLog[i], cellLog[x]))
      BY <2>7 DEF Elects
    <3>2. PICK v \in V : v \in Acked(l, k)
      <4>1. ASSUME \A v \in V : v \notin Acked(l, k) PROVE FALSE
        <5>1. \A v \in V : term'[v] > term'[l] /\ v \notin Acked(l, k)'
          BY <4>1, <3>1, <2>3, <2>4, <2>7
        <5>2. Blocked(l, k)'
          BY <3>1, <5>1 DEF Blocked
        <5>3. QED
          BY <5>2
      <4>2. QED
        BY <4>1
    <3>3. v \in Joined /\ Has(cellLog[v], k, u) /\ (v # i => LogOk(cellLog[i], cellLog[v]))
      BY <3>1, <3>2, <2>6, CellAssumption
    <3>4. QED
      BY <3>3, <2>6, <2>7, ElectedHas
  <2>8. Carried(k, u)'
    BY <2>6, <2>7, <1>7
  <2>9. QED
    BY <2>3, <2>4, <2>6, <2>8 DEF Carried
<1>9. CommitsFit'
  <2> SUFFICES ASSUME NEW s \in Joined, cellCommit[s] > 0
               PROVE  /\ cellCommit[s] \in DOMAIN cellLog[s]
                      /\ Safe(cellCommit[s], cellLog[s][cellCommit[s]].term)'
    BY <1>1 DEF CommitsFit
  <2>1. PICK c, u : c = cellCommit[s] /\ u = cellLog[s][c].term
    OBVIOUS
  <2>2. c \in DOMAIN cellLog[s] /\ Safe(c, u)
    BY <2>1 DEF LogsSound, CommitsFit
  <2>3. PICK Q \in SUBSET Founder : FounderMajority(Q) /\ \A v \in Q : Has(cellLog[v], c, u)
    BY <2>2 DEF Safe
  <2>4. ASSUME i \in Joined, cellRole'[i] = "leader", term'[i] > u
        PROVE  Has(cellLog[i], c, u)
    <3>1. PICK V \in SUBSET Founder :
            FounderMajority(V) /\ \A x \in V : x # i => LogOk(cellLog[i], cellLog[x])
      BY <2>4 DEF Elects
    <3>2. PICK v \in Founder : v \in V /\ v \in Q
      BY <3>1, <2>3, VoterInCommon
    <3>3. v \in Joined /\ Has(cellLog[v], c, u) /\ (v # i => LogOk(cellLog[i], cellLog[v])) /\ Carried(c, u)
      BY <3>1, <3>2, <2>2, <2>3, CellAssumption DEF Safe
    <3>4. QED
      BY <3>3, <2>4, ElectedHas
  <2>5. Carried(c, u)'
    BY <2>2, <2>4, <1>7 DEF Safe
  <2>6. Safe(c, u)'
    BY <2>3, <2>5, <1>1 DEF Safe
  <2>7. QED
    BY <2>1, <2>2, <2>6, <1>1 DEF Safe, Carried
<1>10. QED
  BY <1>4, <1>5, <1>6, <1>8, <1>9 DEF LogsSound

-----------------------------------------------------------------------------
(* A round of AppendEntries *)

\* Merging gives the leader's log, or leaves a log that has all of it.
LEMMA MergeTaken ==
  ASSUME NEW S, NEW own \in Seq(S), NEW sent \in Seq(S),
         \A p \in DOMAIN own \cap DOMAIN sent :
           own[p].term = sent[p].term => \A q \in 1 .. p : own[q] = sent[q]
  PROVE  \/ MergeTerms(own, sent) = sent
         \/ MergeTerms(own, sent) = own /\ \A k \in DOMAIN sent : Has(own, k, sent[k].term)
<1> DEFINE same == {p \in 0 .. Len(own) :
                      p <= Len(sent) /\ \A k \in 1 .. p : own[k].term = sent[k].term}
           p == CHOOSE q \in same : \A r \in same : r <= q
<1>1. /\ Len(own) \in Nat /\ DOMAIN own = 1 .. Len(own)
      /\ Len(sent) \in Nat /\ DOMAIN sent = 1 .. Len(sent)
  BY LenProperties
<1>2. p \in same
  <2>1. 0 \in same /\ same \in SUBSET (0 .. Len(own))
    BY <1>1
  <2> HIDE DEF same
  <2>2. \E q \in same : \A r \in same : r <= q
    BY <2>1, <1>1, GreatestOf
  <2>3. QED
    BY <2>2
<1>3. MergeTerms(own, sent) =
        IF p = Len(sent) THEN own ELSE SubSeq(own, 1, p) \o SubSeq(sent, p + 1, Len(sent))
  BY DEF MergeTerms
<1> HIDE DEF p
<1>4. p \in 0 .. Len(own) /\ p <= Len(sent) /\ \A k \in 1 .. p : own[k].term = sent[k].term
  BY <1>2
<1>5. CASE p = Len(sent)
  <2>1. \A k \in DOMAIN sent : Has(own, k, sent[k].term)
    BY <1>1, <1>4, <1>5 DEF Has
  <2>2. QED
    BY <2>1, <1>3, <1>5
<1>6. CASE p # Len(sent)
  <2>1. \A q \in 1 .. p : own[q] = sent[q]
    <3>1. CASE p = 0
      BY <3>1
    <3>2. CASE p # 0
      <4>1. p \in DOMAIN own \cap DOMAIN sent /\ p \in 1 .. p
        BY <3>2, <1>1, <1>4
      <4>2. QED
        BY <4>1, <1>4
    <3>3. QED
      BY <3>1, <3>2
  <2>2. SubSeq(own, 1, p) = SubSeq(sent, 1, p)
    <3>1. \A q \in 1 .. p : own[q] \in S /\ sent[q] \in S
      BY <1>1, <1>4, ElementOfSeq
    <3>2. p \in Int /\ p >= 0
      BY <1>1, <1>4
    <3>3. /\ SubSeq(own, 1, p) \in Seq(S) /\ Len(SubSeq(own, 1, p)) = p
          /\ \A q \in 1 .. p : SubSeq(own, 1, p)[q] = own[q]
      <4>1. /\ SubSeq(own, 1, p) \in Seq(S)
            /\ Len(SubSeq(own, 1, p)) = IF 1 <= p THEN p - 1 + 1 ELSE 0
            /\ \A q \in 1 .. p - 1 + 1 : SubSeq(own, 1, p)[q] = own[1 + q - 1]
        BY <3>1, <3>2, SubSeqProperties
      <4>2. QED
        BY <4>1, <3>2
    <3>4. /\ SubSeq(sent, 1, p) \in Seq(S) /\ Len(SubSeq(sent, 1, p)) = p
          /\ \A q \in 1 .. p : SubSeq(sent, 1, p)[q] = sent[q]
      <4>1. /\ SubSeq(sent, 1, p) \in Seq(S)
            /\ Len(SubSeq(sent, 1, p)) = IF 1 <= p THEN p - 1 + 1 ELSE 0
            /\ \A q \in 1 .. p - 1 + 1 : SubSeq(sent, 1, p)[q] = sent[1 + q - 1]
        BY <3>1, <3>2, SubSeqProperties
      <4>2. QED
        BY <4>1, <3>2
    <3>5. QED
      BY <2>1, <3>3, <3>4, SeqEqual
  <2>3. SubSeq(sent, 1, p) \o SubSeq(sent, p + 1, Len(sent)) = SubSeq(sent, 1, Len(sent))
    <3>1. 1 \in 1 .. Len(sent) + 1 /\ p \in 1 - 1 .. Len(sent) /\ Len(sent) \in p .. Len(sent)
      BY <1>1, <1>4
    <3>2. QED
      BY <3>1, ConcatAdjacentSubSeq
  <2>4. SubSeq(sent, 1, Len(sent)) = sent
    BY SubSeqFull
  <2>5. QED
    BY <2>2, <2>3, <2>4, <1>3, <1>6
<1>7. QED
  BY <1>5, <1>6

\* Merging leaves a log, no shorter than the leader's.
LEMMA MergeTyped ==
  ASSUME NEW S, NEW own \in Seq(S), NEW sent \in Seq(S)
  PROVE  MergeTerms(own, sent) \in Seq(S) /\ Len(MergeTerms(own, sent)) >= Len(sent)
<1> DEFINE same == {p \in 0 .. Len(own) :
                      p <= Len(sent) /\ \A k \in 1 .. p : own[k].term = sent[k].term}
           p == CHOOSE q \in same : \A r \in same : r <= q
<1>1. Len(own) \in Nat /\ Len(sent) \in Nat
  BY LenProperties
<1>2. p \in same
  <2>1. 0 \in same /\ same \in SUBSET (0 .. Len(own))
    BY <1>1
  <2> HIDE DEF same
  <2>2. \E q \in same : \A r \in same : r <= q
    BY <2>1, <1>1, GreatestOf
  <2>3. QED
    BY <2>2
<1>3. MergeTerms(own, sent) =
        IF p = Len(sent) THEN own ELSE SubSeq(own, 1, p) \o SubSeq(sent, p + 1, Len(sent))
  BY DEF MergeTerms
<1> HIDE DEF p
<1>4. p \in Nat /\ p <= Len(own) /\ p <= Len(sent)
  BY <1>1, <1>2
<1>5. CASE p = Len(sent)
  BY <1>1, <1>3, <1>4, <1>5
<1>6. CASE p # Len(sent)
  <2>1. /\ \A q \in 1 .. p : own[q] \in S
        /\ \A q \in p + 1 .. Len(sent) : sent[q] \in S
    <3>1. /\ \A q \in 1 .. p : q \in 1 .. Len(own)
          /\ \A q \in p + 1 .. Len(sent) : q \in 1 .. Len(sent)
      BY <1>1, <1>4
    <3>2. QED
      BY <3>1, ElementOfSeq
  <2>2. SubSeq(own, 1, p) \in Seq(S) /\ Len(SubSeq(own, 1, p)) = p
    <3>1. 1 \in Int /\ p \in Int /\ (1 <= p => p - 1 + 1 = p) /\ (~(1 <= p) => p = 0)
      BY <1>4
    <3>2. /\ SubSeq(own, 1, p) \in Seq(S)
          /\ Len(SubSeq(own, 1, p)) = IF 1 <= p THEN p - 1 + 1 ELSE 0
      BY <2>1, <3>1, SubSeqProperties
    <3>3. QED
      BY <3>1, <3>2
  <2>3. /\ SubSeq(sent, p + 1, Len(sent)) \in Seq(S)
        /\ Len(SubSeq(sent, p + 1, Len(sent))) = Len(sent) - p
    <3>1. p + 1 \in Int /\ Len(sent) \in Int /\ p + 1 <= Len(sent)
      BY <1>1, <1>4, <1>6
    <3>2. /\ SubSeq(sent, p + 1, Len(sent)) \in Seq(S)
          /\ Len(SubSeq(sent, p + 1, Len(sent))) = Len(sent) - (p + 1) + 1
      BY <2>1, <3>1, SubSeqProperties
    <3>3. QED
      BY <3>2, <1>1, <1>4
  <2>4. /\ SubSeq(own, 1, p) \o SubSeq(sent, p + 1, Len(sent)) \in Seq(S)
        /\ Len(SubSeq(own, 1, p) \o SubSeq(sent, p + 1, Len(sent))) = p + (Len(sent) - p)
    BY <2>2, <2>3, ConcatProperties
  <2>5. MergeTerms(own, sent) = SubSeq(own, 1, p) \o SubSeq(sent, p + 1, Len(sent))
    BY <1>3, <1>6
  <2>6. p + (Len(sent) - p) >= Len(sent)
    BY <1>1, <1>4
  <2>7. QED
    BY <2>4, <2>5, <2>6
<1>7. QED
  BY <1>5, <1>6

LEMMA MaxIn ==
  ASSUME NEW n \in Nat, NEW S \in SUBSET (0 .. n), S # {}
  PROVE  Max(S) \in S /\ \A r \in S : r <= Max(S)
<1>1. \E p \in S : \A r \in S : p >= r
  <2>1. PICK p \in S : \A r \in S : r <= p
    BY GreatestOf
  <2>2. \A r \in S : p >= r
    BY <2>1
  <2>3. QED
    BY <2>2
<1>2. Max(S) \in S /\ \A r \in S : Max(S) >= r
  BY <1>1 DEF Max
<1>3. QED
  BY <1>2


\* Leader i tells T of those who have joined what it has, and knows their logs
\* from the answers.
Tells(i, T) ==
  /\ cellRole[i] = "leader" /\ VotesFirm /\ Joined' = Joined
  /\ \A l \in Joined : cellRole'[l] = "leader" =>
       cellRole[l] = "leader" /\ term'[l] = term[l] /\ l \notin T
  /\ i \notin T
  /\ \A j \in T : /\ term[j] <= term[i] /\ term'[j] = term[i]
                  /\ \/ cellLog'[j] = cellLog[i]
                     \/ /\ cellLog'[j] = cellLog[j]
                        /\ \A k \in DOMAIN cellLog[i] : Has(cellLog[j], k, cellLog[i][k].term)
                  /\ cellCommit'[j] \in {cellCommit[i], cellCommit[j]}
  /\ \A j \in Joined \ T : cellLog'[j] = cellLog[j]
  /\ \A l \in Joined \ {i} : match'[l] = match[l]
  /\ \A j \in Joined : match'[i][j] = IF j \in T THEN Len(cellLog[i]) ELSE match[i][j]
  /\ \A j \in Joined \ (T \cup {i}) : cellCommit'[j] = cellCommit[j]
  /\ \/ cellCommit'[i] = cellCommit[i]
     \/ /\ cellRole'[i] = "leader" /\ cellCommit'[i] \in DOMAIN cellLog[i]
        /\ cellLog[i][cellCommit'[i]].term = term[i]
        /\ FounderMajority({i} \cup {j \in Peer : match'[i][j] >= cellCommit'[i]})

\* What all later logs follow is not lost where it is held.
LEMMA ToldHas ==
  ASSUME CellInv, LogsSound, NEW i \in Joined, NEW T \in SUBSET Joined, Tells(i, T),
         NEW v \in Joined, NEW k, NEW u, Has(cellLog[v], k, u), Carried(k, u)
  PROVE  Has(cellLog'[v], k, u)
<1>1. CASE cellLog'[v] = cellLog[v]
  BY <1>1
<1>2. CASE v \in T /\ cellLog'[v] = cellLog[i]
  <2>1. u \in Nat /\ u <= term[v] /\ term[v] \in Nat /\ term[i] \in Nat /\ term[v] <= term[i]
    BY <1>2 DEF Has, LogsSound, EntriesFit, Backed, CellInv, Tells
  <2>2. CASE u < term[i]
    BY <2>2, <1>2 DEF Carried, Tells
  <2>3. CASE u = term[i]
    <3>1. k \in DOMAIN cellLog[v] /\ cellLog[v][k].term = term[i]
      BY <2>3 DEF Has
    <3>2. Has(cellLog[i], k, term[i])
      BY <3>1 DEF LogsSound, LeaderHasOwn, Tells
    <3>3. QED
      BY <3>2, <2>3, <1>2
  <2>4. QED
    BY <2>1, <2>2, <2>3
<1>3. QED
  BY <1>1, <1>2 DEF Tells

LEMMA RoundSound ==
  ASSUME CellInv, LogType, match \in [Peer -> [Peer -> Nat]], LogsSound, ~moved,
         cellCommit \in [Peer -> Nat], term' \in [Peer -> Nat],
         NEW i \in Joined, NEW T \in SUBSET Joined, Tells(i, T)
  PROVE  LogsSound'
<1>1. /\ cellRole[i] = "leader" /\ VotesFirm /\ Joined' = Joined /\ i \notin T
      /\ \A l \in Joined : cellRole'[l] = "leader" =>
           cellRole[l] = "leader" /\ term'[l] = term[l] /\ l \notin T
      /\ \A j \in T : term[j] <= term[i] /\ term'[j] = term[i]
      /\ \A j \in Joined \ T : cellLog'[j] = cellLog[j]
      /\ \A l \in Joined \ {i} : match'[l] = match[l]
      /\ \A j \in Joined : match'[i][j] = IF j \in T THEN Len(cellLog[i]) ELSE match[i][j]
  BY DEF Tells
<1>2. /\ term \in [Peer -> Nat]
      /\ \A s \in Joined : Len(cellLog[s]) \in Nat /\ DOMAIN cellLog[s] = 1 .. Len(cellLog[s])
  BY LogDomain DEF CellInv
<1>3. LogsTaken
  <2> SUFFICES ASSUME NEW s \in Joined
               PROVE  \E b \in Joined : cellLog'[s] = cellLog[b] /\ term[b] <= term'[s]
    BY <1>1 DEF LogsTaken
  <2>1. term[s] <= term'[s]
    BY <1>1, <1>2 DEF VotesFirm
  <2>2. CASE cellLog'[s] = cellLog[s]
    BY <2>1, <2>2
  <2>3. CASE s \in T /\ cellLog'[s] = cellLog[i]
    BY <2>3, <1>1, <1>2
  <2>4. QED
    BY <2>2, <2>3 DEF Tells
<1>4. LeadersStay
  BY <1>1 DEF LeadersStay
<1>5. EntriesFit' /\ LogsMatch' /\ TermsUniform'
  BY <1>1, <1>2, <1>3, LogsTakenKeep DEF LogsSound
\* The peers told hold all the leader has.
<1>6. \A j \in T : \A k \in DOMAIN cellLog[i] : Has(cellLog'[j], k, cellLog[i][k].term)
  <2> SUFFICES ASSUME NEW j \in T, NEW k \in DOMAIN cellLog[i]
               PROVE  Has(cellLog'[j], k, cellLog[i][k].term)
    OBVIOUS
  <2>1. CASE cellLog'[j] = cellLog[i]
    BY <2>1 DEF Has
  <2>2. CASE cellLog'[j] = cellLog[j] /\ Has(cellLog[j], k, cellLog[i][k].term)
    BY <2>2
  <2>3. QED
    BY <2>1, <2>2 DEF Tells
<1>7. LeaderHasOwn'
  <2> SUFFICES ASSUME NEW l \in Joined, cellRole'[l] = "leader"
               PROVE  /\ term'[l] > 0
                      /\ \A s \in Joined : \A m \in DOMAIN cellLog'[s] :
                           cellLog'[s][m].term = term'[l] => Has(cellLog'[l], m, term'[l])
    BY <1>1 DEF LeaderHasOwn
  <2>1. cellRole[l] = "leader" /\ term'[l] = term[l] /\ cellLog'[l] = cellLog[l]
    BY <1>1
  <2>2. /\ term[l] > 0
        /\ \A s \in Joined : \A m \in DOMAIN cellLog[s] :
             cellLog[s][m].term = term[l] => Has(cellLog[l], m, term[l])
    BY <2>1 DEF LogsSound, LeaderHasOwn
  <2>3. ASSUME NEW s \in Joined, NEW m \in DOMAIN cellLog'[s], cellLog'[s][m].term = term'[l]
        PROVE  Has(cellLog'[l], m, term'[l])
    <3>1. PICK b \in Joined : cellLog'[s] = cellLog[b]
      BY <1>3 DEF LogsTaken
    <3>2. m \in DOMAIN cellLog[b] /\ cellLog[b][m].term = term[l]
      BY <2>1, <2>3, <3>1
    <3>3. QED
      BY <3>2, <2>1, <2>2
  <2>4. QED
    BY <2>1, <2>2, <2>3, <1>1
<1>8. MatchFit'
  <2> SUFFICES ASSUME NEW l \in Joined, cellRole'[l] = "leader", NEW j \in Founder \ {l}
               PROVE  match'[l][j] <= Len(cellLog'[l]) /\ (match'[l][j] > 0 => term'[j] >= term'[l])
    BY <1>1 DEF MatchFit
  <2>1. /\ cellRole[l] = "leader" /\ term'[l] = term[l] /\ cellLog'[l] = cellLog[l]
        /\ j \in Joined /\ term'[j] >= term[j] /\ term'[j] \in Nat /\ term[j] \in Nat /\ term[l] \in Nat
    BY <1>1, <1>2, CellAssumption DEF VotesFirm
  <2>2. match[l][j] <= Len(cellLog[l]) /\ (match[l][j] > 0 => term[j] >= term[l])
    BY <2>1 DEF LogsSound, MatchFit
  <2>3. CASE match'[l][j] = match[l][j]
    BY <2>1, <2>2, <2>3
  <2>4. CASE l = i /\ j \in T
    BY <2>1, <2>4, <1>1, <1>2
  <2>5. QED
    BY <2>1, <2>3, <2>4, <1>1
<1>9. ASSUME NEW k, NEW u, Carried(k, u) PROVE Carried(k, u)'
  BY <1>3, <1>4, <1>9, CarriedKept
<1>10. AcksFit'
  <2> SUFFICES ASSUME NEW l \in Joined, cellRole'[l] = "leader", NEW k \in DOMAIN cellLog'[l],
                      cellLog'[l][k].term = term'[l], ~Blocked(l, k)'
               PROVE  /\ \A j \in Acked(l, k)' : Has(cellLog'[j], k, term'[l])
                      /\ Carried(k, term[l])'
    BY <1>1 DEF AcksFit
  <2>1. PICK u : u = term[l]
    OBVIOUS
  <2>2. /\ cellRole[l] = "leader" /\ term'[l] = u /\ cellLog'[l] = cellLog[l] /\ l \notin T
        /\ k \in DOMAIN cellLog[l] /\ cellLog[l][k].term = u
    BY <2>1, <1>1
  <2>3. \A j \in Acked(l, k)' : j \in Acked(l, k) \/ (l = i /\ j \in T)
    BY <1>1, CellAssumption DEF Acked
  <2>4. ~Blocked(l, k)
    <3>1. ASSUME NEW j \in Founder, term[j] > term[l], j \notin Acked(l, k)
          PROVE  j \notin Acked(l, k)'
      <4>1. l = i => j \notin T
        BY <3>1, <1>1, <1>2, CellAssumption
      <4>2. QED
        BY <3>1, <4>1, <2>3
    <3>2. QED
      BY <3>1, <2>1, <2>2, <1>1, <1>2, BlockedKept
  <2>5. (\A j \in Acked(l, k) : Has(cellLog[j], k, u)) /\ Carried(k, u)
    BY <2>1, <2>2, <2>4 DEF LogsSound, AcksFit
  <2>6. ASSUME NEW j \in Acked(l, k)' PROVE Has(cellLog'[j], k, u)
    <3>1. CASE j \in Acked(l, k)
      <4>1. j \in Joined
        BY <3>1, CellAssumption DEF Acked
      <4>2. QED
        BY <4>1, <3>1, <2>5, ToldHas
    <3>2. CASE l = i /\ j \in T
      BY <3>2, <2>2, <1>6
    <3>3. QED
      BY <3>1, <3>2, <2>3
  <2>7. Carried(k, u)'
    BY <2>5, <1>9
  <2>8. QED
    BY <2>2, <2>6, <2>7 DEF Carried
<1>11. ASSUME NEW c, NEW u, Safe(c, u) PROVE Safe(c, u)'
  <2>1. PICK Q \in SUBSET Founder : FounderMajority(Q) /\ \A v \in Q : Has(cellLog[v], c, u)
    BY <1>11 DEF Safe
  <2>2. \A v \in Q : Has(cellLog'[v], c, u)
    BY <2>1, <1>11, ToldHas, CellAssumption DEF Safe
  <2>3. Carried(c, u)'
    BY <1>9, <1>11 DEF Safe
  <2>4. QED
    BY <2>1, <2>2, <2>3 DEF Safe
\* What was committed before the round, on the node or by the leader it hears of
<1>12. ASSUME NEW s \in Joined, NEW b \in Joined, s = b \/ (s \in T /\ b = i),
              cellCommit[b] > 0, NEW c, c = cellCommit[b]
       PROVE  c \in DOMAIN cellLog'[s] /\ \E u : u = cellLog'[s][c].term /\ Safe(c, u)'
  <2>1. PICK u : u = cellLog[b][c].term
    OBVIOUS
  <2>2. c \in DOMAIN cellLog[b] /\ Safe(c, u) /\ Has(cellLog[b], c, u)
    BY <2>1, <1>12 DEF LogsSound, CommitsFit, Has
  <2>3. Has(cellLog'[s], c, u)
    BY <2>1, <2>2, <1>6, <1>12, ToldHas DEF Safe
  <2>4. Safe(c, u)'
    BY <2>2, <1>11
  <2>5. QED
    BY <2>3, <2>4 DEF Has
<1>13. ASSUME NEW s \in Joined, cellCommit'[s] > 0, NEW c, c = cellCommit'[s]
       PROVE  c \in DOMAIN cellLog'[s] /\ \E u : u = cellLog'[s][c].term /\ Safe(c, u)'
  <2>1. CASE c = cellCommit[s]
    BY <2>1, <1>12, <1>13
  <2>2. CASE s \in T /\ c = cellCommit[i]
    BY <2>2, <1>12, <1>13
  <2>3. CASE /\ s = i /\ cellRole'[i] = "leader" /\ c \in DOMAIN cellLog[i]
             /\ cellLog[i][c].term = term[i]
             /\ FounderMajority({i} \cup {j \in Peer : match'[i][j] >= c})
    <3>1. PICK u : u = term[i]
      OBVIOUS
    <3>2. cellLog'[i] = cellLog[i] /\ term'[i] = u
      BY <2>3, <3>1, <1>1
    <3>3. FounderMajority(Acked(i, c)')
      <4>1. Acked(i, c)' \cap Founder = ({i} \cup {j \in Peer : match'[i][j] >= c}) \cap Founder
        BY CellAssumption DEF Acked
      <4>2. QED
        BY <4>1, <2>3 DEF FounderMajority
    <3>4. ~Blocked(i, c)'
      <4>1. ASSUME NEW B \in SUBSET Founder, FounderMajority(B), \A v \in B : v \notin Acked(i, c)'
            PROVE  FALSE
        BY <4>1, <3>3, VoterInCommon
      <4>2. QED
        BY <4>1 DEF Blocked
    <3>5. (\A j \in Acked(i, c)' : Has(cellLog'[j], c, u)) /\ Carried(c, term[i])'
      BY <3>1, <3>2, <3>4, <2>3, <1>1, <1>10 DEF AcksFit
    <3>6. Carried(c, u)'
      BY <3>2, <3>5 DEF Carried
    <3>7. Acked(i, c)' \in SUBSET Founder
      BY DEF Acked
    <3>8. Safe(c, u)'
      BY <3>3, <3>5, <3>6, <3>7 DEF Safe
    <3>9. QED
      BY <3>1, <3>2, <3>8, <2>3
  <2>4. QED
    <3>1. CASE s = i
      BY <3>1, <2>1, <2>3, <1>13 DEF Tells
    <3>2. CASE s \in T
      BY <3>2, <2>1, <2>2, <1>13 DEF Tells
    <3>3. CASE s \in Joined \ (T \cup {i})
      BY <3>3, <2>1, <1>13 DEF Tells
    <3>4. QED
      BY <3>1, <3>2, <3>3
<1>14. CommitsFit'
  <2> SUFFICES ASSUME NEW s \in Joined, cellCommit'[s] > 0
               PROVE  /\ cellCommit'[s] \in DOMAIN cellLog'[s]
                      /\ Safe(cellCommit[s], cellLog[s][cellCommit[s]].term)'
    BY <1>1 DEF CommitsFit
  <2>1. PICK c : c = cellCommit'[s]
    OBVIOUS
  <2>2. c \in DOMAIN cellLog'[s] /\ \E u : u = cellLog'[s][c].term /\ Safe(c, u)'
    BY <2>1, <1>13
  <2>3. PICK u : u = cellLog'[s][c].term /\ Safe(c, u)'
    BY <2>2
  <2>4. QED
    BY <2>1, <2>2, <2>3 DEF Safe, Carried
<1>15. QED
  BY <1>5, <1>7, <1>8, <1>10, <1>14 DEF LogsSound

-----------------------------------------------------------------------------
(* Replayed changes: a node that has joined does not leave *)

\* f is the run of memberships from m along the entries of l after from up to to.
IsApplied(f, m, l, from, to) ==
  f = [k \in from .. to |-> IF k = from THEN m ELSE ApplyMembership(f[k - 1], l[k])]

LEMMA AppliedExists ==
  ASSUME NEW m, NEW l, NEW from \in Nat, NEW to \in Nat, from <= to
  PROVE  \E f : IsApplied(f, m, l, from, to)
<1> DEFINE Bad == {n \in Nat : from <= n /\ ~\E f : IsApplied(f, m, l, from, n)}
<1> SUFFICES ASSUME Bad # {} PROVE FALSE
  OBVIOUS
<1>1. PICK n \in Bad : \A k \in Bad : n <= k
  BY LeastOf
<1>2. CASE n = from
  <2> DEFINE f == [k \in from .. n |-> m]
  <2>1. f = [k \in from .. n |-> IF k = from THEN m ELSE ApplyMembership(f[k - 1], l[k])]
    BY <1>2
  <2>2. IsApplied(f, m, l, from, n)
    BY <2>1 DEF IsApplied
  <2>3. QED
    BY <2>2
<1>3. CASE n > from
  <2>1. PICK f : IsApplied(f, m, l, from, n - 1)
    <3>1. n - 1 \in Nat /\ from <= n - 1 /\ ~(n <= n - 1)
      BY <1>3
    <3>2. n - 1 \notin Bad
      BY <1>1, <3>1
    <3>3. QED
      BY <3>1, <3>2
  <2>2. \A k \in from .. n - 1 : f[k] = IF k = from THEN m ELSE ApplyMembership(f[k - 1], l[k])
    BY <2>1 DEF IsApplied
  <2> DEFINE g == [k \in from .. n |-> IF k = n THEN ApplyMembership(f[n - 1], l[n]) ELSE f[k]]
  <2>3. ASSUME NEW k \in from .. n
        PROVE  g[k] = IF k = from THEN m ELSE ApplyMembership(g[k - 1], l[k])
    <3>1. CASE k = n
      <4>1. n - 1 \in from .. n /\ n - 1 # n
        BY <1>3
      <4>2. g[n - 1] = f[n - 1]
        BY <4>1
      <4>3. QED
        BY <3>1, <4>2, <1>3
    <3>2. CASE k # n /\ k = from
      <4>1. k \in from .. n - 1
        BY <3>2
      <4>2. QED
        BY <3>2, <4>1, <2>2
    <3>3. CASE k # n /\ k # from
      <4>1. k \in from .. n - 1 /\ k - 1 \in from .. n /\ k - 1 # n
        BY <3>3
      <4>2. g[k - 1] = f[k - 1] /\ g[k] = f[k]
        BY <4>1, <3>3
      <4>3. QED
        BY <3>3, <4>1, <4>2, <2>2
    <3>4. QED
      BY <3>1, <3>2, <3>3
  <2>4. IsApplied(g, m, l, from, n)
    <3>1. g = [k \in from .. n |-> g[k]]
      OBVIOUS
    <3> HIDE DEF g
    <3>2. QED
      BY <3>1, <2>3 DEF IsApplied
  <2>5. QED
    BY <2>4
<1>4. QED
  BY <1>2, <1>3

LEMMA AppliedIsRun ==
  ASSUME NEW m, NEW l, NEW from \in Nat, NEW to \in Nat, from <= to
  PROVE  \E f : IsApplied(f, m, l, from, to) /\ Applied(m, l, from, to) = f[to]
<1> DEFINE run == CHOOSE f : f = [k \in from .. to |->
                    IF k = from THEN m ELSE ApplyMembership(f[k - 1], l[k])]
<1>1. \E f : f = [k \in from .. to |-> IF k = from THEN m ELSE ApplyMembership(f[k - 1], l[k])]
  <2>1. PICK f : IsApplied(f, m, l, from, to)
    BY AppliedExists
  <2>2. f = [k \in from .. to |-> IF k = from THEN m ELSE ApplyMembership(f[k - 1], l[k])]
    BY <2>1 DEF IsApplied
  <2>3. QED
    BY <2>2
<1>2. run = [k \in from .. to |-> IF k = from THEN m ELSE ApplyMembership(run[k - 1], l[k])]
  BY <1>1
<1>3. Applied(m, l, from, to) = run[to]
  BY DEF Applied
<1> HIDE DEF run
<1>4. QED
  BY <1>2, <1>3 DEF IsApplied

\* Where nothing is committed anew, nothing is applied.
LEMMA AppliedNothing ==
  ASSUME NEW m, NEW l, NEW c \in Nat
  PROVE  Applied(m, l, c, c) = m
<1>1. PICK f : IsApplied(f, m, l, c, c) /\ Applied(m, l, c, c) = f[c]
  BY AppliedIsRun
<1>2. f[c] = m
  BY <1>1 DEF IsApplied
<1>3. QED
  BY <1>1, <1>2

LEMMA AppliedKeeps ==
  ASSUME NEW m, NEW l, NEW from \in Nat, NEW to \in Nat, from <= to, "enforced" \in DOMAIN m
  PROVE  /\ "enforced" \in DOMAIN Applied(m, l, from, to)
         /\ m.enforced => Applied(m, l, from, to).enforced
<1>1. PICK f : IsApplied(f, m, l, from, to) /\ Applied(m, l, from, to) = f[to]
  BY AppliedIsRun
<1> DEFINE Bad == {n \in from .. to : ~("enforced" \in DOMAIN f[n] /\ (m.enforced => f[n].enforced))}
<1> SUFFICES ASSUME Bad # {} PROVE FALSE
  BY <1>1
<1>2. PICK n \in Bad : \A k \in Bad : n <= k
  <2>1. Bad \in SUBSET Nat
    OBVIOUS
  <2> HIDE DEF Bad
  <2>2. QED
    BY <2>1, LeastOf
<1>3. \A k \in from .. to : f[k] = IF k = from THEN m ELSE ApplyMembership(f[k - 1], l[k])
  BY <1>1 DEF IsApplied
<1>4. n # from
  BY <1>3
<1>5. n - 1 \in from .. to /\ ~(n <= n - 1)
  BY <1>4
<1>6. "enforced" \in DOMAIN f[n - 1] /\ (m.enforced => f[n - 1].enforced)
  BY <1>2, <1>5
<1>7. f[n] = ApplyMembership(f[n - 1], l[n])
  BY <1>3, <1>4
<1> DEFINE b == f[n - 1]
           c == ApplyMembership(b, l[n])
<1>8. "enforced" \in DOMAIN c /\ (c.enforced = TRUE \/ c.enforced = b.enforced)
  <2>1. "enforced" \in DOMAIN b
    BY <1>6
  <2> HIDE DEF b
  <2>2. QED
    BY <2>1 DEF ApplyMembership
<1>9. QED
  BY <1>6, <1>7, <1>8

-----------------------------------------------------------------------------
(* The steps of the cell *)

\* How far a round brings the commit indexes
LEMMA RoundReach ==
  ASSUME LogType, cellCommit \in [Peer -> Nat], NEW i \in Peer, NEW R \in SUBSET Peer,
         NEW T \in SUBSET Peer, i \notin T,
         NEW points \in SUBSET (cellCommit[i] + 1 .. Len(cellLog[i])),
         cellCommit' = [j \in Peer |-> cellCommit'[j]],
         cellCommit'[i] = Max(points \cup {cellCommit[i]}),
         \A j \in T : cellCommit'[j] = Max({cellCommit[i], cellCommit[j]}),
         \A j \in Peer \ (T \cup {i}) : cellCommit'[j] = cellCommit[j]
  PROVE  /\ cellCommit' \in [Peer -> Nat] /\ \A j \in Peer : cellCommit[j] <= cellCommit'[j]
         /\ cellCommit'[i] \in points \cup {cellCommit[i]}
         /\ \A j \in T : cellCommit'[j] \in {cellCommit[i], cellCommit[j]}
         /\ \A j \in Peer \ (T \cup {i}) : cellCommit'[j] = cellCommit[j]
<1> DEFINE own == points \cup {cellCommit[i]}
<1>1. cellCommit[i] \in Nat /\ Len(cellLog[i]) \in Nat
  BY LogDomain
<1>2. Max(own) \in own /\ cellCommit[i] <= Max(own)
  <2>1. own \in SUBSET (0 .. cellCommit[i] + Len(cellLog[i]))
    <3>1. \A k \in points : k \in 0 .. cellCommit[i] + Len(cellLog[i])
      BY <1>1
    <3>2. cellCommit[i] \in 0 .. cellCommit[i] + Len(cellLog[i])
      BY <1>1
    <3>3. QED
      BY <3>1, <3>2
  <2>2. cellCommit[i] \in own /\ own # {} /\ cellCommit[i] + Len(cellLog[i]) \in Nat
    BY <1>1
  <2> HIDE DEF own
  <2>3. QED
    BY <2>1, <2>2, MaxIn
<1>3. Max(own) \in Nat
  <2>1. \A k \in own : k \in Nat
    BY <1>1
  <2>2. QED
    BY <2>1, <1>2
<1>4. ASSUME NEW j \in Peer
      PROVE  LET m == Max({cellCommit[i], cellCommit[j]}) IN
             m \in {cellCommit[i], cellCommit[j]} /\ m \in Nat /\ cellCommit[j] <= m
  <2> DEFINE two == {cellCommit[i], cellCommit[j]}
  <2>1. cellCommit[i] \in Nat /\ cellCommit[j] \in Nat
    OBVIOUS
  <2>2. two \in SUBSET (0 .. cellCommit[i] + cellCommit[j]) /\ cellCommit[i] + cellCommit[j] \in Nat
    BY <2>1
  <2>3. two # {} /\ cellCommit[j] \in two
    OBVIOUS
  <2>4. Max(two) \in two /\ cellCommit[j] <= Max(two)
    <3> HIDE DEF two
    <3>1. QED
      BY <2>2, <2>3, MaxIn
  <2>5. QED
    BY <2>1, <2>4
<1> HIDE DEF own
<1>5. cellCommit'[i] = Max(own)
  BY DEF own
<1>6. \A j \in Peer \ {i} : j \in T => cellCommit'[j] = Max({cellCommit[i], cellCommit[j]})
  OBVIOUS
<1>7. \A j \in Peer \ {i} : j \notin T => cellCommit'[j] = cellCommit[j]
  OBVIOUS
<1>8. ASSUME NEW j \in Peer PROVE cellCommit'[j] \in Nat /\ cellCommit[j] <= cellCommit'[j]
  <2>1. CASE j = i
    BY <2>1, <1>2, <1>3, <1>5
  <2>2. CASE j # i /\ j \in T
    BY <2>2, <1>4, <1>6
  <2>3. CASE j # i /\ j \notin T
    BY <2>3, <1>7
  <2>4. QED
    BY <2>1, <2>2, <2>3
<1>9. cellCommit' \in [Peer -> Nat]
  BY <1>8
<1>10. \A j \in T : cellCommit'[j] \in {cellCommit[i], cellCommit[j]}
  BY <1>4, <1>6
<1>11. QED
  BY <1>2, <1>5, <1>7, <1>8, <1>9, <1>10 DEF own

LEMMA SendRoundTells ==
  ASSUME AgreeInv, ~moved, JoinsEmpty, NEW i \in Peer, NEW R \in SUBSET Peer, SendRound(i, R)
  PROVE  /\ LogType' /\ MembersType' /\ Joined' = Joined
         /\ cellCommit' \in [Peer -> Nat] /\ match' \in [Peer -> [Peer -> Nat]]
         /\ i \in Joined => \E T \in SUBSET Joined : Tells(i, T)
         \* Who has not joined finds nobody to tell.
         /\ i \notin Joined =>
              /\ UNCHANGED <<term, vote>>
              /\ \A s \in Joined :
                   /\ cellLog'[s] = cellLog[s] /\ cellCommit'[s] = cellCommit[s]
                   /\ cellRole'[s] = cellRole[s] /\ match'[s] = match[s]
<1> DEFINE ahead == {j \in R : term[j] > term[i]}
           T == R \ ahead
           merged == [j \in T |-> MergeTerms(cellLog[j], cellLog[i])]
           known == [j \in Peer |-> IF j \in T THEN Len(cellLog[i]) ELSE match[i][j]]
           points == IF ahead = {} THEN CommitPoints(i, known) ELSE {}
           reach == [j \in Peer |->
             IF j = i THEN Max(points \cup {cellCommit[i]})
             ELSE IF j \in T THEN Max({cellCommit[i], cellCommit[j]}) ELSE cellCommit[j]]
           rival == CHOOSE k \in ahead : TRUE
<1>1. /\ cellRole[i] = "leader"
      /\ term' = [j \in Peer |->
           IF j \in T THEN term[i] ELSE IF j = i /\ ahead # {} THEN term[rival] ELSE term[j]]
      /\ vote' = [j \in Peer |->
           IF (j \in T /\ term[j] < term[i]) \/ (j = i /\ ahead # {}) THEN None ELSE vote[j]]
      /\ cellRole' = [j \in Peer |->
           IF j \in T \/ (j = i /\ ahead # {}) THEN "follower" ELSE cellRole[j]]
      /\ cellLog' = [j \in Peer |-> IF j \in T THEN merged[j] ELSE cellLog[j]]
      /\ match' = [match EXCEPT ![i] = known]
      /\ cellCommit' = reach
      /\ member' = [j \in Peer |->
           LET m == Applied(member[j], cellLog'[j], cellCommit[j], reach[j]) IN
           IF j = i /\ ahead = {} THEN [m EXCEPT !.retired = @ \ (T \cap member[i].retired)] ELSE m]
  BY DEF SendRound
<1>2. i \notin R
  BY DEF SendRound, Targets
<1>3. /\ term \in [Peer -> Nat] /\ cellCommit \in [Peer -> Nat] /\ match \in [Peer -> [Peer -> Nat]]
      /\ LogType /\ MembersType /\ LogsSound
      /\ cellRole \in [Peer -> {"follower", "leader"}]
  BY DEF AgreeInv, CellInv
<1>4. i \notin T /\ T \in SUBSET Peer /\ \A j \in T : term[j] <= term[i]
  BY <1>2, <1>3
<1>5. i \notin Joined => R = {} /\ T = {} /\ ahead = {}
  <2>1. R \subseteq Targets(i)
    BY DEF SendRound
  <2>2. i \notin Joined => Targets(i) = {}
    BY <1>1 DEF AgreeInv, OwnCell
  <2>3. QED
    BY <2>1, <2>2
<1>6. ahead # {} => rival \in Peer /\ term[rival] > term[i]
  OBVIOUS
<1>7. points \in SUBSET (cellCommit[i] + 1 .. Len(cellLog[i]))
  BY DEF CommitPoints
<1>8. \A k \in points : /\ ahead = {} /\ cellLog[i][k].term = term[i]
                        /\ HasQuorum(member[i].config, {i} \cup {j \in Peer : known[j] >= k})
  BY DEF CommitPoints
<1>9. known \in [Peer -> Nat] /\ \A j \in Peer : known[j] = IF j \in T THEN Len(cellLog[i]) ELSE match[i][j]
  <2>1. Len(cellLog[i]) \in Nat
    BY <1>3, LogDomain
  <2>2. QED
    BY <2>1, <1>3
<1>10. \A j \in T : merged[j] = MergeTerms(cellLog[j], cellLog[i])
  OBVIOUS
<1> HIDE DEF ahead, T, merged, known, points, rival
<1>11. /\ cellCommit' \in [Peer -> Nat] /\ \A j \in Peer : cellCommit[j] <= cellCommit'[j]
       /\ cellCommit'[i] \in points \cup {cellCommit[i]}
       /\ \A j \in T : cellCommit'[j] \in {cellCommit[i], cellCommit[j]}
       /\ \A j \in Peer \ (T \cup {i}) : cellCommit'[j] = cellCommit[j]
  <2>1. /\ cellCommit' = [j \in Peer |-> cellCommit'[j]]
        /\ cellCommit'[i] = Max(points \cup {cellCommit[i]})
        /\ \A j \in T : cellCommit'[j] = Max({cellCommit[i], cellCommit[j]})
        /\ \A j \in Peer \ (T \cup {i}) : cellCommit'[j] = cellCommit[j]
    BY <1>1, <1>4
  <2>2. LogType /\ cellCommit \in [Peer -> Nat] /\ T \in SUBSET Peer /\ i \notin T
    BY <1>3, <1>4
  <2> HIDE DEF reach
  <2>3. QED
    BY <2>1, <2>2, <1>7, RoundReach
<1>12. VotesFirm
  <2> SUFFICES ASSUME NEW x \in Peer
               PROVE  term'[x] >= term[x] /\ (term'[x] = term[x] /\ vote[x] # None => vote'[x] = vote[x])
    BY DEF VotesFirm
  <2>1. CASE x \in T
    <3>1. term'[x] = term[i] /\ term[x] <= term[i] /\ x # i
      BY <2>1, <1>1, <1>4
    <3>2. ~(term[x] < term[i]) => vote'[x] = vote[x]
      BY <2>1, <3>1, <1>1
    <3>3. term[x] \in Nat /\ term[i] \in Nat
      BY <1>3
    <3>4. QED
      BY <3>1, <3>2, <3>3
  <2>2. CASE x = i /\ ahead # {}
    <3>1. term'[i] = term[rival] /\ term[rival] \in Nat /\ term[i] \in Nat /\ term[rival] > term[i]
      BY <2>2, <1>1, <1>3, <1>4, <1>6
    <3>2. QED
      BY <2>2, <3>1
  <2>3. CASE x \notin T /\ ~(x = i /\ ahead # {})
    <3>1. term'[x] = term[x] /\ vote'[x] = vote[x] /\ term[x] \in Nat
      BY <2>3, <1>1, <1>3
    <3>2. QED
      BY <3>1
  <2>4. QED
    BY <2>1, <2>2, <2>3
<1>13. PICK S : cellLog \in [Peer -> Seq(S)]
  BY <1>3 DEF LogType
<1>14. ASSUME NEW j \in T \cap Joined, i \in Joined
       PROVE  \/ cellLog'[j] = cellLog[i]
              \/ cellLog'[j] = cellLog[j] /\ \A k \in DOMAIN cellLog[i] : Has(cellLog[j], k, cellLog[i][k].term)
  <2>1. j \in Peer /\ cellLog'[j] = MergeTerms(cellLog[j], cellLog[i])
    BY <1>1, <1>4, <1>10
  <2>2. cellLog[j] \in Seq(S) /\ cellLog[i] \in Seq(S)
    BY <2>1, <1>13
  <2>3. \A p \in DOMAIN cellLog[j] \cap DOMAIN cellLog[i] :
          cellLog[j][p].term = cellLog[i][p].term => \A q \in 1 .. p : cellLog[j][q] = cellLog[i][q]
    BY <1>3, <1>14 DEF LogsSound, LogsMatch
  <2>4. QED
    BY <2>1, <2>2, <2>3, MergeTaken
<1>15. \A j \in Peer \ T : cellLog'[j] = cellLog[j]
  BY <1>1
<1>16. ASSUME NEW j \in T
       PROVE  cellLog'[j] \in Seq(S) /\ Len(cellLog'[j]) >= Len(cellLog[i])
  <2>1. j \in Peer /\ cellLog'[j] = MergeTerms(cellLog[j], cellLog[i])
    BY <1>1, <1>4, <1>10
  <2>2. cellLog[j] \in Seq(S) /\ cellLog[i] \in Seq(S)
    BY <2>1, <1>13
  <2>3. QED
    BY <2>1, <2>2, MergeTyped
<1>17. LogType'
  <2>1. \A j \in Peer : cellLog'[j] \in Seq(S)
    <3>1. \A j \in Peer : cellLog[j] \in Seq(S)
      BY <1>13
    <3>2. QED
      BY <3>1, <1>15, <1>16
  <2>2. cellLog' \in [Peer -> Seq(S)]
    BY <2>1, <1>1
  <2>3. QED
    BY <2>2 DEF LogType
<1>18. match' \in [Peer -> [Peer -> Nat]] /\ match'[i] = known /\ \A l \in Peer \ {i} : match'[l] = match[l]
  BY <1>1, <1>3, <1>9
<1>19. ASSUME NEW j \in Peer
       PROVE  "enforced" \in DOMAIN member'[j] /\ (member[j].enforced => member'[j].enforced)
  <2>1. PICK l, c : l = cellLog'[j] /\ c = cellCommit'[j]
    OBVIOUS
  <2>2. c \in Nat /\ cellCommit[j] \in Nat /\ cellCommit[j] <= c /\ "enforced" \in DOMAIN member[j]
    BY <2>1, <1>3, <1>11 DEF MembersType
  <2> DEFINE m == Applied(member[j], l, cellCommit[j], c)
  <2>3. "enforced" \in DOMAIN m /\ (member[j].enforced => m.enforced)
    BY <2>2, AppliedKeeps
  <2>4. \/ member'[j] = m
        \/ member'[j] = [m EXCEPT !.retired = @ \ (T \cap member[i].retired)]
    BY <2>1, <1>1
  <2> HIDE DEF m
  <2>5. QED
    BY <2>3, <2>4
<1>20. MembersType' /\ Joined \subseteq Joined'
  <2>1. member' = [j \in Peer |-> member'[j]]
    BY <1>1
  <2>2. QED
    BY <2>1, <1>19 DEF MembersType, Joined
<1>21. Joined' = Joined
  <2> SUFFICES ASSUME NEW j \in Joined' \ Joined PROVE FALSE
    BY <1>20
  <2>1. j \in Peer /\ cellRole'[j] # "leader" /\ cellLog'[j] = <<>>
    BY DEF JoinsEmpty
  <2>2. j # i \/ ahead # {}
    BY <2>1, <1>1, <1>4
  <2>3. cellCommit'[j] # cellCommit[j]
    <3> SUFFICES ASSUME cellCommit'[j] = cellCommit[j] PROVE FALSE
      OBVIOUS
    <3>1. PICK l, c : l = cellLog'[j] /\ c = cellCommit'[j]
      OBVIOUS
    <3>2. member'[j] = Applied(member[j], l, c, c)
      BY <3>1, <2>1, <2>2, <1>1
    <3>3. member'[j] = member[j]
      BY <3>1, <3>2, <2>1, <1>11, AppliedNothing
    <3>4. QED
      BY <3>3 DEF Joined
  <2>4. j \in T /\ cellCommit'[j] = cellCommit[i]
    <3>1. j # i
      <4> SUFFICES ASSUME j = i PROVE FALSE
        OBVIOUS
      <4>1. points = {}
        BY <2>2 DEF points
      <4>2. QED
        BY <4>1, <2>3, <1>11
    <3>2. QED
      BY <3>1, <2>1, <2>3, <1>11
  <2>5. cellCommit[i] > 0 /\ cellCommit[i] \in Nat
    BY <2>1, <2>3, <2>4, <1>3, <1>11
  <2>6. i \in Joined
    BY <2>4, <1>1, <1>5
  <2>7. cellCommit[i] \in 1 .. Len(cellLog[i]) /\ Len(cellLog[i]) \in Nat
    BY <2>5, <2>6, <1>3, LogDomain DEF LogsSound, CommitsFit
  <2>8. Len(cellLog'[j]) >= Len(cellLog[i]) /\ Len(cellLog'[j]) = 0
    BY <2>1, <2>4, <1>16
  <2>9. QED
    BY <2>7, <2>8
<1>22. \/ cellCommit'[i] = cellCommit[i] \/ i \notin Joined
       \/ /\ cellRole'[i] = "leader" /\ cellCommit'[i] \in DOMAIN cellLog[i]
          /\ cellLog[i][cellCommit'[i]].term = term[i]
          /\ FounderMajority({i} \cup {j \in Peer : match'[i][j] >= cellCommit'[i]})
  <2> SUFFICES ASSUME cellCommit'[i] # cellCommit[i], i \in Joined
               PROVE  /\ cellRole'[i] = "leader" /\ cellCommit'[i] \in DOMAIN cellLog[i]
                      /\ cellLog[i][cellCommit'[i]].term = term[i]
                      /\ FounderMajority({i} \cup {j \in Peer : match'[i][j] >= cellCommit'[i]})
    OBVIOUS
  <2>1. PICK k \in points : k = cellCommit'[i]
    BY <1>11
  <2>2. k \in DOMAIN cellLog[i]
    <3>1. DOMAIN cellLog[i] = 1 .. Len(cellLog[i]) /\ Len(cellLog[i]) \in Nat /\ cellCommit[i] \in Nat
      BY <1>3, LogDomain
    <3>2. QED
      BY <3>1, <1>7
  <2>3. /\ ahead = {} /\ cellLog[i][k].term = term[i]
        /\ HasQuorum(member[i].config, {i} \cup {j \in Peer : known[j] >= k})
    BY <1>8
  <2>4. member[i].config.voters = Founder
    BY DEF AgreeInv, CellInv, FoundersCount
  <2>5. FounderMajority({i} \cup {j \in Peer : known[j] >= k})
    BY <2>3, <2>4 DEF HasQuorum, FounderMajority
  <2>6. cellRole'[i] = "leader"
    BY <2>3, <1>1, <1>4
  <2>7. QED
    BY <2>1, <2>2, <2>3, <2>5, <2>6, <1>18
<1>23. \A l \in Peer : cellRole'[l] = "leader" => cellRole[l] = "leader" /\ term'[l] = term[l] /\ l \notin T
  BY <1>1
<1>24. \A j \in T : term'[j] = term[i]
  BY <1>1, <1>4
<1>25. ASSUME i \in Joined PROVE Tells(i, T \cap Joined)
  <2>1. /\ \A j \in Joined \ (T \cap Joined) : j \in Peer \ T
        /\ \A j \in Joined \ ((T \cap Joined) \cup {i}) : j \in Peer \ (T \cup {i})
    OBVIOUS
  <2>2. \A j \in Joined : match'[i][j] = IF j \in T \cap Joined THEN Len(cellLog[i]) ELSE match[i][j]
    BY <1>9, <1>18
  <2>3. QED
    BY <2>1, <2>2, <1>1, <1>4, <1>11, <1>12, <1>14, <1>15, <1>18, <1>22, <1>23, <1>24, <1>25, <1>21
       DEF Tells
<1>26. ASSUME i \notin Joined
       PROVE  /\ UNCHANGED <<term, vote>>
              /\ \A s \in Joined :
                   /\ cellLog'[s] = cellLog[s] /\ cellCommit'[s] = cellCommit[s]
                   /\ cellRole'[s] = cellRole[s] /\ match'[s] = match[s]
  <2>1. T = {} /\ ahead = {}
    BY <1>26, <1>5
  <2>2. UNCHANGED <<term, vote>> /\ cellRole' = cellRole
    BY <2>1, <1>1, <1>3, <1>4 DEF AgreeInv, CellInv
  <2>3. \A s \in Joined : s \in Peer \ (T \cup {i}) /\ s \in Peer \ T /\ s \in Peer \ {i}
    BY <2>1, <1>26
  <2>4. QED
    BY <2>2, <2>3, <1>11, <1>15, <1>18
<1>27. i \in Joined => \E P \in SUBSET Joined : Tells(i, P)
  BY <1>25
<1>28. QED
  BY <1>11, <1>17, <1>18, <1>20, <1>26, <1>21, <1>27

\* What the steps keep while the founders' configuration is not left
KeepsAgreement ==
  /\ LogType' /\ MembersType' /\ Joined \subseteq Joined'
  /\ cellCommit' \in [Peer -> Nat] /\ match' \in [Peer -> [Peer -> Nat]]
  /\ LogsSound'

LEMMA CampaignKeeps ==
  ASSUME AgreeInv, ~moved, term' \in [Peer -> Nat],
         NEW i \in Peer, NEW Q \in SUBSET Peer, Campaign(i, Q)
  PROVE  KeepsAgreement
<1>1. /\ UNCHANGED <<cellLog, cellCommit, member>>
      /\ \E w : match' = [match EXCEPT ![i] = [j \in Peer |-> IF w /\ j \in PeerIds(member[i].config, i)
                                                                THEN 0 ELSE @[j]]]
  BY DEF Campaign
<1>2. LogType' /\ MembersType' /\ cellCommit' \in [Peer -> Nat] /\ Joined' = Joined
  BY <1>1 DEF AgreeInv, LogType, MembersType, Joined
<1>3. match \in [Peer -> [Peer -> Nat]] /\ LogsSound /\ CellInv /\ LogType
  BY DEF AgreeInv
<1>4. match' \in [Peer -> [Peer -> Nat]]
  BY <1>1, <1>3
<1>5. Elects(i)
  BY <1>2, <1>3, CampaignElects
<1>6. LogsSound'
  BY <1>3, <1>5, ElectionSound
<1>7. QED
  BY <1>2, <1>4, <1>6 DEF KeepsAgreement

LEMMA SendRoundKeeps ==
  ASSUME AgreeInv, ~moved, JoinsEmpty, term' \in [Peer -> Nat],
         NEW i \in Peer, NEW R \in SUBSET Peer, SendRound(i, R)
  PROVE  KeepsAgreement
<1>1. /\ LogType' /\ MembersType' /\ Joined' = Joined
      /\ cellCommit' \in [Peer -> Nat] /\ match' \in [Peer -> [Peer -> Nat]]
  BY SendRoundTells
<1>2. CASE i \in Joined
  <2>1. PICK T \in SUBSET Joined : Tells(i, T)
    BY <1>2, SendRoundTells
  <2>2. LogsSound'
    BY <2>1, <1>2, RoundSound DEF AgreeInv
  <2>3. QED
    BY <2>2, <1>1 DEF KeepsAgreement
<1>3. CASE i \notin Joined
  <2>1. /\ UNCHANGED <<term, vote>>
        /\ \A s \in Joined :
             /\ cellLog'[s] = cellLog[s] /\ cellCommit'[s] = cellCommit[s]
             /\ cellRole'[s] = cellRole[s] /\ match'[s] = match[s]
    BY <1>3, SendRoundTells
  <2>2. LogsSound'
    BY <2>1, <1>1, QuietSound DEF AgreeInv
  <2>3. QED
    BY <2>2, <1>1 DEF KeepsAgreement
<1>4. QED
  BY <1>2, <1>3

\* Who has not joined appends to a log of its own.
LEMMA AppendKeeps ==
  ASSUME AgreeInv, ~moved, MembersType', Joined' = Joined,
         NEW i \in Peer, NEW kind, NEW old, NEW new, AppendEntry(i, kind, old, new)
  PROVE  KeepsAgreement
<1>1. PICK e : e = [term |-> term[i], by |-> i, kind |-> kind, old |-> old, new |-> new]
  OBVIOUS
<1>2. /\ cellRole[i] = "leader" /\ cellLog' = [cellLog EXCEPT ![i] = Append(@, e)]
      /\ UNCHANGED <<term, vote, cellCommit, cellRole, match>>
  BY <1>1 DEF AppendEntry
<1>3. e.term = term[i] /\ e.by = i
  BY <1>1
<1>4. LogType' /\ \A s \in Peer \ {i} : cellLog'[s] = cellLog[s]
  BY <1>2, AppendedLogs DEF AgreeInv
<1>5. LogsSound'
  <2>1. CASE i \in Joined
    <3>1. Appends(i, e)
      BY <1>2, <1>3 DEF Appends
    <3>2. QED
      BY <2>1, <3>1, AppendSound DEF AgreeInv
  <2>2. CASE i \notin Joined
    <3>1. \A s \in Joined : cellLog'[s] = cellLog[s]
      BY <2>2, <1>4
    <3>2. QED
      BY <3>1, <1>2, QuietSound DEF AgreeInv
  <2>3. QED
    BY <2>1, <2>2
<1>6. QED
  BY <1>2, <1>4, <1>5 DEF KeepsAgreement, AgreeInv

\* Changes of what one node knows of the membership
LEMMA MemberSet ==
  ASSUME MembersType, NEW i \in Peer, NEW m, member' = [member EXCEPT ![i] = m],
         "enforced" \in DOMAIN m, i \in Founder \/ m.enforced = member[i].enforced
  PROVE  MembersType' /\ Joined' = Joined
<1>1. member' = [j \in Peer |-> IF j = i THEN m ELSE member[j]]
  BY DEF MembersType
<1>2. MembersType'
  BY <1>1 DEF MembersType
<1>3. QED
  BY <1>1, <1>2 DEF Joined

LEMMA QuietKeeps ==
  ASSUME AgreeInv, ~moved, MembersType', Joined' = Joined,
         UNCHANGED <<term, vote, cellLog, cellCommit, cellRole, match>>
  PROVE  KeepsAgreement
<1>1. LogsSound'
  BY QuietSound DEF AgreeInv
<1>2. QED
  BY <1>1 DEF KeepsAgreement, AgreeInv, LogType

LEMMA RestartKeeps ==
  ASSUME AgreeInv, ~moved, NEW i \in Peer, RestartPeer(i)
  PROVE  KeepsAgreement
<1>1. /\ UNCHANGED <<term, vote, cellLog, cellCommit>> /\ i \in Founder
      /\ cellRole' = [cellRole EXCEPT ![i] = "follower"]
      /\ match' = [match EXCEPT ![i] = [j \in Peer |-> 0]]
      /\ member' = [member EXCEPT ![i] = Rejoined(i)]
  BY DEF RestartPeer
<1>2. /\ LogType /\ MembersType /\ LogsSound /\ CellInv
      /\ cellCommit \in [Peer -> Nat] /\ match \in [Peer -> [Peer -> Nat]]
      /\ cellRole \in [Peer -> {"follower", "leader"}]
  BY DEF AgreeInv, CellInv
<1>3. "enforced" \in DOMAIN Rejoined(i)
  <2> DEFINE first == FirstMembership(i, trusted)
  <2>1. "enforced" \in DOMAIN first
    BY DEF FirstMembership
  <2> HIDE DEF first
  <2>2. cellCommit[i] \in Nat /\ 0 \in Nat /\ 0 <= cellCommit[i]
    BY <1>2
  <2>3. "enforced" \in DOMAIN Applied(first, cellLog[i], 0, cellCommit[i])
    BY <2>1, <2>2, AppliedKeeps
  <2>4. QED
    BY <2>3 DEF Rejoined, first
<1>4. MembersType' /\ Joined' = Joined
  BY <1>1, <1>2, <1>3, MemberSet
<1>5. match' \in [Peer -> [Peer -> Nat]]
  BY <1>1, <1>2
<1>6. \A l \in Joined : cellRole'[l] = "leader" => cellRole[l] = "leader" /\ match'[l] = match[l]
  BY <1>1, <1>2
<1>7. LogsSound'
  BY <1>1, <1>2, <1>4, <1>6, QuietSound
<1>8. QED
  BY <1>1, <1>2, <1>4, <1>5, <1>7 DEF KeepsAgreement, LogType

LEMMA AgreeInitially == CellInit => AgreeInv
<1> SUFFICES ASSUME CellInit PROVE AgreeInv
  OBVIOUS
<1>1. CellInv
  BY CellInitially
<1>2. cellLog \in [Peer -> Seq({})] /\ \A s \in Peer : DOMAIN cellLog[s] = {}
  BY EmptySeq DEF CellInit
<1>3. LogType
  BY <1>2 DEF LogType
<1>4. MembersType
  BY DEF CellInit, MembersType, FirstMembership
<1>5. EntriesFit /\ LogsMatch /\ TermsUniform
  BY <1>2 DEF EntriesFit, LogsMatch, TermsUniform
<1>6. LeaderHasOwn /\ MatchFit /\ AcksFit /\ CommitsFit
  BY DEF CellInit, LeaderHasOwn, MatchFit, AcksFit, CommitsFit
<1>7. cellCommit \in [Peer -> Nat] /\ match \in [Peer -> [Peer -> Nat]]
  BY DEF CellInit
<1>8. OwnCell
  BY DEF CellInit, OwnCell
<1>9. QED
  BY <1>1, <1>3, <1>4, <1>5, <1>6, <1>7, <1>8 DEF AgreeInv, LogsSound

LEMMA CellStepKeepsAgreement ==
  ASSUME AgreeInv, ~moved, JoinsEmpty, term' \in [Peer -> Nat], CellStep
  PROVE  KeepsAgreement
<1>1. MembersType
  BY DEF AgreeInv
<1>2. PICK i \in Peer :
        \/ \E Q \in SUBSET Peer : Campaign(i, Q) \/ SendRound(i, Q)
        \/ \E j \in Peer \ {i} : RegisterLearner(i, j) \/ InstallMembership(i, j)
        \/ \E new \in VoterSets : ProposeJoint(i, new)
        \/ ProposeOther(i) \/ ProposeFinalize(i) \/ RestartPeer(i) \/ TrustPeer(i)
  BY DEF CellStep
<1>3. ASSUME NEW Q \in SUBSET Peer, Campaign(i, Q) \/ SendRound(i, Q)
      PROVE  KeepsAgreement
  BY <1>3, CampaignKeeps, SendRoundKeeps
<1>4. ASSUME NEW j \in Peer \ {i}, RegisterLearner(i, j)
      PROVE  KeepsAgreement
  <2>1. /\ member' = [member EXCEPT ![i].learners = @ \cup {j}]
        /\ UNCHANGED <<term, vote, cellLog, cellCommit, cellRole, match>>
    BY <1>4 DEF RegisterLearner
  <2>2. PICK m : m = [member[i] EXCEPT !.learners = @ \cup {j}]
    OBVIOUS
  <2>3. member' = [member EXCEPT ![i] = m] /\ "enforced" \in DOMAIN m /\ m.enforced = member[i].enforced
    BY <2>1, <2>2, <1>1 DEF MembersType
  <2>4. MembersType' /\ Joined' = Joined
    BY <2>3, <1>1, MemberSet
  <2>5. QED
    BY <2>1, <2>4, QuietKeeps
<1>5. ASSUME NEW j \in Peer \ {i}, InstallMembership(i, j)
      PROVE  KeepsAgreement
  <2>1. /\ member' = [member EXCEPT ![i].config = member[j].config, ![i].enforced = TRUE]
        /\ UNCHANGED <<term, vote, cellLog, cellCommit, cellRole, match>>
        /\ cellCommit[i] = 0 /\ cellLog[i] = <<>>
    BY <1>5 DEF InstallMembership
  <2>2. PICK m : m = [member[i] EXCEPT !.config = member[j].config, !.enforced = TRUE]
    OBVIOUS
  <2>3. member' = [member EXCEPT ![i] = m] /\ "enforced" \in DOMAIN m /\ m.enforced
    BY <2>1, <2>2, <1>1 DEF MembersType
  <2>4. member' = [k \in Peer |-> IF k = i THEN m ELSE member[k]]
    BY <2>3, <1>1 DEF MembersType
  <2>5. MembersType' /\ Joined' = Joined \cup {i}
    BY <2>3, <2>4, <1>1 DEF MembersType, Joined
  <2>6. \A k \in Joined' \ Joined :
          cellRole[k] # "leader" /\ DOMAIN cellLog[k] = {} /\ cellCommit[k] = 0
    BY <2>1, <2>5, EmptySeq DEF JoinsEmpty
  <2>7. LogsSound'
    BY <2>1, <2>5, <2>6, JoinSound DEF AgreeInv
  <2>8. QED
    BY <2>1, <2>5, <2>7 DEF KeepsAgreement, AgreeInv, LogType
<1>6. ASSUME NEW new \in VoterSets, ProposeJoint(i, new)
      PROVE  KeepsAgreement
  <2>1. /\ AppendEntry(i, "joint", member[i].config.voters, new)
        /\ member' = [member EXCEPT ![i].pending = new]
    BY <1>6 DEF ProposeJoint
  <2>2. PICK m : m = [member[i] EXCEPT !.pending = new]
    OBVIOUS
  <2>3. member' = [member EXCEPT ![i] = m] /\ "enforced" \in DOMAIN m /\ m.enforced = member[i].enforced
    BY <2>1, <2>2, <1>1 DEF MembersType
  <2>4. MembersType' /\ Joined' = Joined
    BY <2>3, <1>1, MemberSet
  <2>5. QED
    BY <2>1, <2>4, AppendKeeps
<1>7. ASSUME UNCHANGED member
      PROVE  MembersType' /\ Joined' = Joined
  BY <1>1, <1>7 DEF MembersType, Joined
<1>8. CASE ProposeOther(i)
  BY <1>7, <1>8, AppendKeeps DEF ProposeOther
<1>9. CASE ProposeFinalize(i)
  <2>1. AppendEntry(i, "finalize", change[i].old, change[i].new) /\ UNCHANGED member
    BY <1>9 DEF ProposeFinalize
  <2>2. QED
    BY <2>1, <1>7, AppendKeeps
<1>10. CASE TrustPeer(i)
  <2>1. UNCHANGED <<term, vote, cellLog, cellCommit, cellRole, match, member>>
    BY <1>10 DEF TrustPeer
  <2>2. QED
    BY <2>1, <1>7, QuietKeeps
<1>11. QED
  BY <1>2, <1>3, <1>4, <1>5, <1>6, <1>8, <1>9, <1>10, RestartKeeps

LEMMA AgreeStep == ASSUME AgreeInv, [CellNext]_cellVars PROVE AgreeInv'
<1>1. CellInv'
  BY CellStepKeepsInv DEF AgreeInv
<1>2. CASE UNCHANGED cellVars
  <2>1. UNCHANGED <<term, vote, cellLog, cellCommit, cellRole, match, member, moved>>
    BY <1>2 DEF cellVars
  <2>2. Joined' = Joined /\ \A i \in Peer : Targets(i)' = Targets(i)
    BY <2>1 DEF Joined, Targets
  <2> SUFFICES ASSUME ~moved PROVE KeepsAgreement /\ OwnCell'
    BY <1>1, <2>1 DEF AgreeInv, KeepsAgreement
  <2>3. MembersType'
    BY <2>1 DEF AgreeInv, MembersType
  <2>4. OwnCell'
    BY <2>1, <2>2 DEF AgreeInv, OwnCell
  <2>5. QED
    BY <2>1, <2>2, <2>3, <2>4, QuietKeeps
<1>3. CASE CellNext
  <2>1. CellStep /\ term' \in [Peer -> Nat]
    BY <1>1, <1>3 DEF CellNext, CellInv
  <2>2. ~moved' => /\ ~moved /\ JoinsEmpty
                   /\ \A k \in Peer \ Joined : cellRole'[k] = "leader" => Targets(k)' = {}
    BY <1>3, CellHistory DEF AgreeInv, CellInv
  <2>3. ~moved' => KeepsAgreement
    BY <2>1, <2>2, CellStepKeepsAgreement
  <2>4. ~moved' => OwnCell'
    BY <2>2, <2>3 DEF OwnCell, KeepsAgreement
  <2>5. QED
    BY <1>1, <2>3, <2>4 DEF AgreeInv, KeepsAgreement
<1>4. QED
  BY <1>2, <1>3

\* While the founders' configuration is not left and nobody usurps the cell, no
\* two nodes that have joined have committed different entries, for every number
\* of peers, learners, terms, entries, lost calls and restarts: elections and
\* commits count the founders under every joint configuration that starts from
\* theirs, whatever cells of their own the others led before they joined.
THEOREM CommitsAgreeThroughChanges == CellSpec => []CommitsAgree
<1>1. AgreeInv /\ [CellNext]_cellVars => AgreeInv'
  BY AgreeStep
<1>2. AgreeInv => CommitsAgree
  BY SoundAgree DEF AgreeInv, CommitsAgree
<1>3. QED
  BY AgreeInitially, <1>1, <1>2, PTL DEF CellSpec
=============================================================================
