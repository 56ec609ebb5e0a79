--------------------------- MODULE CellMembership ---------------------------
(***************************************************************************)
(* raft.py: replacing voters of a cell through a joint configuration, with *)
(* learners, retired peers and restarts.                                   *)
(*                                                                         *)
(* A configuration takes effect on a node when its entry is committed      *)
(* there.  What RaftCell checks call by call is one step here: an election *)
(* or a round of AppendEntries happens as a whole and reaches any set of   *)
(* peers; the calls that only find out where two logs part are left to     *)
(* RaftCell.  After a restart a node starts from the peers in its trust    *)
(* store, the joiners approved meanwhile included, and applies the         *)
(* committed changes of its log again.  A joiner runs from its own start:  *)
(* until it is seeded it is the only voter it knows, and elects itself.    *)
(***************************************************************************)
EXTENDS Optional, VoterConfiguration, Sequences, SequencesExt, FiniteSetsExt

CONSTANTS
  Peer,
  Founder,      \* the first voters, which trust each other from the start
  VoterSets,    \* the voter sets that may be proposed
  MaxCellTerm, MaxCellLog, MaxCellCrash   \* bounds

ASSUME CellAssumption == Founder \subseteq Peer /\ IsFiniteSet(Founder) /\ None \notin Peer

VARIABLES
  \* on disk
  term, vote, cellLog, cellCommit,
  \* in memory
  cellRole, match,
  member,       \* what a node knows of the membership
  change,       \* the propose_membership_change a node is in
  cellCrashes,
  trusted,      \* the peers in the founders' trust stores
  moved         \* history: others than a majority of the founders have come to decide

cellVars == <<term, vote, cellLog, cellCommit, cellRole, match, member, change,
              cellCrashes, trusted, moved>>

CellEntry ==
  [term : Nat, by : Peer, kind : {"joint", "finalize", "other"}, old : SUBSET Peer, new : SUBSET Peer]
Change == [step : {"joint", "finalize"}, index : Nat, old : SUBSET Peer, new : SUBSET Peer]
Membership ==
  [config : [voters : SUBSET Peer, joint_voters : SUBSET Peer], enforced : BOOLEAN,
   pending : SUBSET Peer, learners : SUBSET Peer, retired : SUBSET Peer]

\* The founders, and the joiners that were seeded with a configuration.
Joined == {i \in Peer : i \in Founder \/ member[i].enforced}

CellTypeOK ==
  /\ term \in [Peer -> 0 .. MaxCellTerm] /\ vote \in [Peer -> Maybe(Peer)]
  /\ cellLog \in [Peer -> Seq(CellEntry)] /\ cellCommit \in [Peer -> Nat]
  /\ \A i \in Peer : Len(cellLog[i]) <= MaxCellLog
  /\ moved \/ \A i \in Joined : cellCommit[i] <= Len(cellLog[i])
  /\ cellRole \in [Peer -> {"follower", "leader"}]
  /\ match \in [Peer -> [Peer -> 0 .. MaxCellLog]]
  /\ member \in [Peer -> Membership]
  /\ change \in [Peer -> Maybe(Change)] /\ cellCrashes \in 0 .. MaxCellCrash
  /\ Founder \subseteq trusted /\ trusted \subseteq Peer /\ moved \in BOOLEAN

\* __init__: the voters are the node and the peers in its trust store, which is
\* empty on a node that has not joined.
FirstMembership(i, store) ==
  [config |-> Stable(IF i \in Founder THEN store ELSE {i}), enforced |-> FALSE,
   pending |-> {}, learners |-> {}, retired |-> {}]

CellInit ==
  /\ term = [i \in Peer |-> 0] /\ vote = [i \in Peer |-> None]
  /\ cellLog = [i \in Peer |-> <<>>] /\ cellCommit = [i \in Peer |-> 0]
  /\ cellRole = [i \in Peer |-> "follower"]
  /\ match = [i \in Peer |-> [j \in Peer |-> 0]]
  /\ member = [i \in Peer |-> FirstMembership(i, Founder)]
  /\ change = [i \in Peer |-> None] /\ cellCrashes = 0
  /\ trusted = Founder /\ moved = FALSE

-----------------------------------------------------------------------------
\* _apply_membership_command: a change that does not start from the node's own
\* configuration is passed over.
ApplyMembership(m, e) ==
  CASE e.kind = "joint" /\ e.old = m.config.voters ->
         [m EXCEPT !.config = Joint(e.old, e.new), !.enforced = TRUE, !.pending = {}]
    [] e.kind = "finalize" /\ m.config = Joint(e.old, e.new) ->
         [m EXCEPT !.config = Stable(e.new), !.enforced = TRUE, !.pending = {},
                   !.retired = @ \cup (e.old \ e.new), !.learners = @ \ e.new]
    [] OTHER -> m

\* The membership m after the entries of l after from up to to are committed
Applied(m, l, from, to) ==
  LET after[k \in from .. to] == IF k = from THEN m ELSE ApplyMembership(after[k - 1], l[k])
  IN  after[to]

\* The node votes and is voted for only as a voter, once a change was committed.
Bars(i, candidate) ==
  member[i].enforced /\ ~({i, candidate} \subseteq AllVoters(member[i].config))

\* Mutant of LogOk: the candidate's log is not looked at.
AnyLog(l, m) == TRUE

LogOk(l, m) ==
  LET last(s) == IF s = <<>> THEN 0 ELSE Last(s).term IN
  last(l) > last(m) \/ (last(l) = last(m) /\ Len(l) >= Len(m))

\* Mutant of GrantsVote: the vote cast in the term is not looked at.
GrantsVoteAgain(j, i, t) == LogOk(cellLog[i], cellLog[j])

\* Peer j, asked by i to vote in term t, has not voted for another in it.
GrantsVote(j, i, t) ==
  (term[j] < t \/ vote[j] \in {None, i}) /\ LogOk(cellLog[i], cellLog[j])

\* _start_election with handle_request_vote on the peers Q that are reached:
\* one that knows of a later term ends the candidacy, the others follow the
\* candidate's term and vote for it if they may.  _become_leader forgets what
\* the node knew of the logs of the voters, and of theirs only.
Campaign(i, Q) ==
  LET t == term[i] + 1
      ahead == {j \in Q : term[j] > t}
      asked == {j \in Q : term[j] <= t /\ ~Bars(j, i)}
      granted == {j \in asked : GrantsVote(j, i, t)}
      wins == ahead = {} /\ HasQuorum(member[i].config, granted \cup {i})
  IN
  /\ Q \subseteq PeerIds(member[i].config, i)
  /\ cellRole[i] # "leader" /\ term[i] < MaxCellTerm
  /\ member[i].enforced => i \in AllVoters(member[i].config)
  /\ Cardinality(ahead) <= 1
  /\ term' = [j \in Peer |->
       IF j = i THEN (IF ahead = {} THEN t ELSE term[CHOOSE k \in ahead : TRUE])
       ELSE IF j \in asked THEN t ELSE term[j]]
  /\ vote' = [j \in Peer |->
       IF j \in granted \/ (j = i /\ ahead = {}) THEN i
       ELSE IF j = i \/ (j \in asked /\ term[j] < t) THEN None ELSE vote[j]]
  /\ cellRole' = [j \in Peer |->
       IF j = i /\ wins THEN "leader"
       ELSE IF j \in asked /\ term[j] < t THEN "follower" ELSE cellRole[j]]
  /\ match' = [match EXCEPT ![i] =
       [j \in Peer |-> IF wins /\ j \in PeerIds(member[i].config, i) THEN 0 ELSE @[j]]]
  /\ UNCHANGED <<cellLog, cellCommit, member, change, cellCrashes, trusted>>

\* The peers of a round: voters, voters to be, retired ones and learners.
Targets(i) ==
  LET m == member[i] IN
  (AllVoters(m.config) \cup m.pending \cup m.retired \cup m.learners) \ {i}

\* The merge loop of handle_append_entries: entries of the same index and term
\* are taken for the same.
MergeTerms(own, sent) ==
  LET same == {p \in 0 .. Len(own) :
                 p <= Len(sent) /\ \A k \in 1 .. p : own[k].term = sent[k].term}
      p == CHOOSE q \in same : \A r \in same : r <= q
  IN IF p = Len(sent) THEN own ELSE SubSeq(own, 1, p) \o SubSeq(sent, p + 1, Len(sent))

\* _maybe_advance_commit_index: the entries of its own term that the leader may
\* commit when it knows the logs of its peers as in known
CommitPoints(i, known) ==
  {k \in cellCommit[i] + 1 .. Len(cellLog[i]) :
     /\ cellLog[i][k].term = term[i]
     /\ HasQuorum(member[i].config, {i} \cup {j \in Peer : known[j] >= k})}

\* A round of _send_heartbeats that reaches the peers R, with
\* handle_append_entries on them.  One that knows of a later term ends it, and
\* with it the leadership.
SendRound(i, R) ==
  LET ahead == {j \in R : term[j] > term[i]}
      told == R \ ahead
      merged == [j \in told |-> MergeTerms(cellLog[j], cellLog[i])]
      known == [j \in Peer |-> IF j \in told THEN Len(cellLog[i]) ELSE match[i][j]]
      points == IF ahead = {} THEN CommitPoints(i, known) ELSE {}
      reach == [j \in Peer |->
        IF j = i THEN Max(points \cup {cellCommit[i]})
        ELSE IF j \in told THEN Max({cellCommit[i], cellCommit[j]}) ELSE cellCommit[j]]
  IN
  /\ cellRole[i] = "leader" /\ R \subseteq Targets(i) /\ Cardinality(ahead) <= 1
  /\ term' = [j \in Peer |->
       IF j \in told THEN term[i] ELSE IF j = i /\ ahead # {} THEN term[CHOOSE k \in ahead : TRUE]
       ELSE term[j]]
  /\ vote' = [j \in Peer |->
       IF (j \in told /\ term[j] < term[i]) \/ (j = i /\ ahead # {}) THEN None ELSE vote[j]]
  /\ cellRole' = [j \in Peer |->
       IF j \in told \/ (j = i /\ ahead # {}) THEN "follower" ELSE cellRole[j]]
  /\ cellLog' = [j \in Peer |-> IF j \in told THEN merged[j] ELSE cellLog[j]]
  /\ match' = [match EXCEPT ![i] = known]
  /\ cellCommit' = reach
  /\ member' = [j \in Peer |->
       LET m == Applied(member[j], cellLog'[j], cellCommit[j], reach[j]) IN
       IF j = i /\ ahead = {} THEN [m EXCEPT !.retired = @ \ (told \cap member[i].retired)] ELSE m]
  /\ UNCHANGED <<change, cellCrashes, trusted>>

-----------------------------------------------------------------------------
(* Changes of the membership *)

AppendEntry(i, kind, old, new) ==
  /\ cellRole[i] = "leader" /\ Len(cellLog[i]) < MaxCellLog
  /\ cellLog' = [cellLog EXCEPT ![i] =
       Append(@, [term |-> term[i], by |-> i, kind |-> kind, old |-> old, new |-> new])]
  /\ UNCHANGED <<term, vote, cellCommit, cellRole, match, cellCrashes, trusted>>

ProposeOther(i) == AppendEntry(i, "other", {}, {}) /\ UNCHANGED <<member, change>>

\* The peers i trusts: a node nobody has approved yet trusts nobody.
PeerStore(i) == IF i \in trusted THEN trusted ELSE {i}

MayChange(i, new) ==
  /\ member[i].config.joint_voters = {} /\ member[i].pending = {}
  /\ new # member[i].config.voters

\* propose_membership_change up to its first wait
ProposeJoint(i, new) ==
  LET old == member[i].config.voters IN
  /\ MayChange(i, new) /\ new \subseteq PeerStore(i) \cup old
  /\ AppendEntry(i, "joint", old, new)
  /\ member' = [member EXCEPT ![i].pending = new]
  /\ change' = [change EXCEPT ![i] =
       [step |-> "joint", index |-> Len(cellLog[i]) + 1, old |-> old, new |-> new]]

\* The joint entry is committed: the change goes on.  A wait that ends without
\* a commit is a change that never does; what is pending stays.
ProposeFinalize(i) ==
  LET c == change[i] IN
  /\ c # None /\ c.step = "joint" /\ cellCommit[i] >= c.index
  /\ AppendEntry(i, "finalize", c.old, c.new)
  /\ change' = [change EXCEPT ![i] = [c EXCEPT !.step = "finalize", !.index = Len(cellLog[i]) + 1]]
  /\ UNCHANGED member

RegisterLearner(i, j) ==
  /\ j \in PeerStore(i) /\ j \notin (AllVoters(member[i].config) \cup member[i].learners)
  /\ member' = [member EXCEPT ![i].learners = @ \cup {j}]
  /\ UNCHANGED <<term, vote, cellLog, cellCommit, cellRole, match, change, cellCrashes, trusted>>

\* install_membership_snapshot, when a fresh node fetches the snapshot of j
InstallMembership(i, j) ==
  /\ i \in trusted \ Founder /\ j \in Founder
  /\ cellCommit[i] = 0 /\ cellLog[i] = <<>> /\ ~member[i].enforced
  /\ member' = [member EXCEPT ![i].config = member[j].config, ![i].enforced = TRUE]
  /\ UNCHANGED <<term, vote, cellLog, cellCommit, cellRole, match, change, cellCrashes, trusted>>

\* The administrator's approval of a joiner has reached the founders' stores.
TrustPeer(j) ==
  /\ j \notin trusted
  /\ trusted' = trusted \cup {j}
  /\ UNCHANGED <<term, vote, cellLog, cellCommit, cellRole, match, member, change, cellCrashes>>

\* The membership after _load_persisted_state
Rejoined(i) == Applied(FirstMembership(i, trusted), cellLog[i], 0, cellCommit[i])

RestartPeer(i) ==
  /\ cellCrashes < MaxCellCrash /\ i \in Founder
  /\ cellCrashes' = cellCrashes + 1
  /\ cellRole' = [cellRole EXCEPT ![i] = "follower"]
  /\ match' = [match EXCEPT ![i] = [j \in Peer |-> 0]]
  /\ member' = [member EXCEPT ![i] = Rejoined(i)]
  /\ change' = [change EXCEPT ![i] = None]
  /\ UNCHANGED <<term, vote, cellLog, cellCommit, trusted>>

CellStep ==
  \E i \in Peer :
    \/ \E Q \in SUBSET Peer : Campaign(i, Q) \/ SendRound(i, Q)
    \/ \E j \in Peer \ {i} : RegisterLearner(i, j) \/ InstallMembership(i, j)
    \/ \E new \in VoterSets : ProposeJoint(i, new)
    \/ ProposeOther(i) \/ ProposeFinalize(i) \/ RestartPeer(i) \/ TrustPeer(i)

\* A node that was never seeded leads peers, whose votes it does not have, or it
\* joins as the leader it made itself, or with a log of its own.
Usurps(i) ==
  /\ i \notin Joined
  /\ \/ cellRole'[i] = "leader" /\ Targets(i)' # {}
     \/ i \in Joined' /\ (cellRole'[i] = "leader" \/ cellLog'[i] # <<>>)

CellNext ==
  /\ CellStep
  /\ moved' = (moved \/ (\E i \in Joined' : member'[i].config.voters # Founder)
                     \/ \E i \in Peer : Usurps(i))

CellSpec == CellInit /\ [][CellNext]_cellVars

-----------------------------------------------------------------------------
(* Properties *)

\* While a change of the founders' configuration is prepared, committed and
\* retried, at most one node of the cell leads a term: the founders'
\* configuration and every joint one that starts from it have no two disjoint
\* quorums, though nodes act on different ones at the same time, and though a
\* joiner has led a cell of its own in the same terms.  The code does not ensure
\* that once a node counts the quorums of other voters (the change is finalized
\* there, or it has started again from a larger trust store), or once a node
\* leads in the cell by the vote it gave itself before it joined.
OneLeaderPerTerm ==
  moved \/ \A i, j \in Joined :
    cellRole[i] = "leader" /\ cellRole[j] = "leader" /\ term[i] = term[j] => i = j

\* Of any two of the nodes S, what one has committed the other holds, as far as
\* it has committed.
AgreeOn(S) ==
  \A i, j \in S : cellCommit[i] <= cellCommit[j] =>
    \A k \in 1 .. cellCommit[i] :
      k \in DOMAIN cellLog[i] \cap DOMAIN cellLog[j] /\ cellLog[i][k] = cellLog[j][k]

\* The nodes of a cell agree on what is committed while a change is prepared,
\* learners that have led themselves and written logs of their own become voters
\* of a joint configuration, and founders restart from their trust stores, as far
\* as OneLeaderPerTerm is promised.
CommitsAgree == moved \/ AgreeOn(Joined)

\* A node that has joined only receives replication until a committed change
\* makes it a voter: what it was before it joined, the leader of a cell of its
\* own included, has no part in what the cell agrees on.
JoinersAgree == AgreeOn(Joined)
=============================================================================
