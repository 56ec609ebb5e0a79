--------------------------- MODULE ComponentProofs ---------------------------
(***************************************************************************)
(* The components around the cell, the commands behind the approval gate   *)
(* and the services of a node, each by itself: what the run components     *)
(* checks on one small instance holds of every number of peers, threads,   *)
(* requests, restarts and ticks.                                           *)
(***************************************************************************)
EXTENDS CellRecovery, Federation, AgentRecords, SelfExpansion, JoinTrust, AuditChain, CognitiveCycle,
        AdminCommands, RateLimit, ModelTraining,
        VoterConfigurationProofs, SequenceTheorems

-----------------------------------------------------------------------------
(* CellRecovery *)

\* The window of failures counted against a peer lies within the silence since
\* its last answer.
WindowsWithinSilence ==
  \A p \in RecPeer : failures[p] # None =>
    /\ silence[p] # None
    /\ failures[p].count <= silence[p].count /\ silence[p].first <= failures[p].first

SilenceIsPast == \A p \in RecPeer : silence[p] # None => silence[p].first <= recNow

RecoveryInv ==
  RecoveryTypeOK /\ WindowsWithinSilence /\ SilenceIsPast /\ OnlyTheSilentAreReplaced

LEMMA RecoveryInitially == RecoveryInit => RecoveryInv
BY RecoveryAssumption
   DEF RecoveryInit, RecoveryInv, RecoveryTypeOK, WindowsWithinSilence, SilenceIsPast,
       OnlyTheSilentAreReplaced, Maybe, RecPeer

LEMMA OneMoreWindow ==
  ASSUME NEW w \in Maybe(FailureWindow), w # None => w.count < MaxFailures /\ w.first <= recNow,
         recNow \in 0 .. MaxRecNow
  PROVE  /\ OneMore(w) \in FailureWindow /\ OneMore(w).first <= recNow
         /\ OneMore(w).count = IF w = None THEN 1 ELSE w.count + 1
         /\ OneMore(w).first = IF w = None THEN recNow ELSE w.first
BY RecoveryAssumption DEF OneMore, FailureWindow, Maybe

\* A failure counted, and perhaps a plan made of it.
LEMMA FailedStep ==
  ASSUME RecoveryInv, NEW p \in RecPeer, Failed(p)
  PROVE  RecoveryInv'
<1> DEFINE w == OneMore(failures[p])
           z == OneMore(silence[p])
<1>1. /\ recNow \in 0 .. MaxRecNow /\ recNow' = recNow
      /\ failures \in [RecPeer -> Maybe(FailureWindow)]
      /\ silence \in [RecPeer -> Maybe(FailureWindow)]
  BY DEF RecoveryInv, RecoveryTypeOK, Failed
<1>2. /\ silence[p] # None => silence[p] \in FailureWindow
                              /\ silence[p].count < MaxFailures /\ silence[p].first <= recNow
      /\ failures[p] # None =>
           /\ failures[p] \in FailureWindow /\ silence[p] # None
           /\ failures[p].count <= silence[p].count /\ silence[p].first <= failures[p].first
  BY <1>1 DEF RecoveryInv, SilenceIsPast, WindowsWithinSilence, Failed, Maybe
<1>3. /\ z \in FailureWindow /\ z.first <= recNow
      /\ z.count = IF silence[p] = None THEN 1 ELSE silence[p].count + 1
      /\ z.first = IF silence[p] = None THEN recNow ELSE silence[p].first
  BY <1>1, <1>2, OneMoreWindow
<1>4. /\ w.count = IF failures[p] = None THEN 1 ELSE failures[p].count + 1
      /\ w.first = IF failures[p] = None THEN recNow ELSE failures[p].first
  BY <1>1 DEF OneMore, FailureWindow, Maybe
<1>5. w.count <= z.count /\ z.first <= w.first
  BY <1>1, <1>2, <1>3, <1>4, RecoveryAssumption DEF FailureWindow
<1>6. w \in FailureWindow
  BY <1>1, <1>2, <1>3, <1>4, <1>5, RecoveryAssumption DEF FailureWindow, OneMore
<1> HIDE DEF w, z
<1>7. /\ silence' = [silence EXCEPT ![p] = z] /\ alive' = [alive EXCEPT ![p] = FALSE]
      /\ failures' = [failures EXCEPT ![p] = w] \/ failures' = failures
      /\ voters' = voters /\ learners' = learners
  BY DEF Failed, w, z
<1>8. /\ voters \subseteq RecPeer /\ learners \subseteq RecPeer /\ planned \subseteq RecPeer
      /\ alive \in [RecPeer -> Maybe(BOOLEAN)] /\ pendingChange \in Maybe(PendingChange)
      /\ replaced \in Maybe(Replacement)
  BY DEF RecoveryInv, RecoveryTypeOK
<1>9. z # None /\ w # None
  BY <1>3, <1>6, NoWindowAssumption
<1>10. WindowsWithinSilence' /\ SilenceIsPast'
  <2>1. \A q \in RecPeer \ {p} : silence'[q] = silence[q] /\ failures'[q] = failures[q]
    BY <1>1, <1>7
  <2>2. silence'[p] = z /\ (failures'[p] = w \/ failures'[p] = failures[p])
    BY <1>1, <1>7
  <2>3. failures[p] # None =>
          failures[p].count <= z.count /\ z.first <= failures[p].first
    BY <1>2, <1>3, RecoveryAssumption DEF FailureWindow
  <2>4. ASSUME NEW q \in RecPeer, q # p
        PROVE  /\ failures'[q] # None =>
                    /\ silence'[q] # None
                    /\ failures'[q].count <= silence'[q].count
                    /\ silence'[q].first <= failures'[q].first
               /\ silence'[q] # None => silence'[q].first <= recNow'
    BY <1>1, <2>1, <2>4 DEF RecoveryInv, WindowsWithinSilence, SilenceIsPast
  <2>5. /\ failures'[p] # None =>
                    /\ silence'[p] # None
                    /\ failures'[p].count <= silence'[p].count
                    /\ silence'[p].first <= failures'[p].first
        /\ silence'[p] # None => silence'[p].first <= recNow'
    BY <1>1, <1>3, <1>5, <1>9, <2>2, <2>3
  <2>6. QED
    BY <2>4, <2>5 DEF WindowsWithinSilence, SilenceIsPast
<1>11. CASE UNCHANGED <<planned, pendingChange, replaced>>
  <2>1. RecoveryTypeOK'
    BY <1>1, <1>3, <1>6, <1>7, <1>8, <1>11 DEF RecoveryTypeOK, Maybe
  <2>2. OnlyTheSilentAreReplaced'
    BY <1>11 DEF RecoveryInv, OnlyTheSilentAreReplaced
  <2>3. QED
    BY <1>10, <2>1, <2>2 DEF RecoveryInv
<1>12. ASSUME NEW s \in ReadyStandbys(p), Suspect(w),
              planned' = planned \cup {p},
              pendingChange' = [failed |-> p, standby |-> s, waiting |-> TRUE],
              replaced' = [silent |-> silence'[p], at |-> recNow, answered |-> alive[s],
                           learner |-> s \in learners]
       PROVE  RecoveryInv'
  <2>1. s \in RecPeer /\ s \in learners /\ alive[s] = TRUE
    BY DEF ReadyStandbys, RecPeer
  <2>2. silence'[p] = z
    BY <1>1, <1>7
  <2>3. replaced' \in Replacement /\ pendingChange' \in PendingChange
    <3>1. z \in FailureWindow /\ recNow \in Nat
      BY <1>1, <1>3, RecoveryAssumption
    <3>6. alive[s] \in Maybe(BOOLEAN) /\ (s \in learners) \in BOOLEAN
      BY <2>1, Zenon DEF Maybe
    <3>2. replaced' = [silent |-> z, at |-> recNow, answered |-> alive[s],
                       learner |-> s \in learners]
      BY <1>12, <2>2
    <3>3. replaced' \in Replacement
      BY <3>6, <3>1, <3>2, Zenon DEF Replacement
    <3>4. pendingChange' \in PendingChange
      BY <1>12, <2>1, Zenon DEF PendingChange
    <3>5. QED
      BY <3>3, <3>4
  <2>4. RecoveryTypeOK'
    BY <1>1, <1>3, <1>6, <1>7, <1>8, <1>12, <2>3 DEF RecoveryTypeOK, Maybe
  <2>5. w.count >= FailureThreshold /\ recNow - w.first >= MinimumSuspect
    BY <1>12 DEF Suspect
  <2>6. z.count >= FailureThreshold /\ recNow - z.first >= MinimumSuspect
    BY <1>1, <1>3, <1>5, <1>6, <2>5, RecoveryAssumption DEF FailureWindow
  <2>7. OnlyTheSilentAreReplaced'
    BY <1>12, <2>1, <2>2, <2>6 DEF OnlyTheSilentAreReplaced
  <2>8. QED
    BY <1>10, <2>4, <2>7 DEF RecoveryInv
<1>13. QED
  BY <1>11, <1>12 DEF Failed, w

LEMMA RecoveryStep == RecoveryInv /\ [RecoveryNext]_recoveryVars => RecoveryInv'
<1> SUFFICES ASSUME RecoveryInv, [RecoveryNext]_recoveryVars PROVE RecoveryInv'
  OBVIOUS
<1> USE DEF RecoveryInv, RecoveryTypeOK, WindowsWithinSilence, SilenceIsPast,
            OnlyTheSilentAreReplaced
<1>1. CASE RecTick
  BY <1>1, RecoveryAssumption DEF RecTick, FailureWindow, Maybe
<1>2. CASE GiveUpChange
  BY <1>2 DEF GiveUpChange, PendingChange, Maybe
<1>3. CASE CommitChange
  BY <1>3 DEF CommitChange, Replace, Forget, PendingChange, Maybe
<1>4. ASSUME NEW p \in RecPeer, Answered(p) PROVE RecoveryInv'
  BY <1>4 DEF Answered, Forget, Maybe
<1>5. ASSUME NEW p \in RecPeer, Failed(p) PROVE RecoveryInv'
  BY <1>5, FailedStep
<1>6. ASSUME NEW p \in RecPeer, Admit(p) PROVE RecoveryInv'
  BY <1>6 DEF Admit
<1>7. CASE UNCHANGED recoveryVars
  BY <1>7 DEF recoveryVars
<1>8. QED
  BY <1>1, <1>2, <1>3, <1>4, <1>5, <1>6, <1>7 DEF RecoveryNext

\* However long plans are refused, given up or committed late, and whoever comes
\* back meanwhile, RecoveryPlanner proposes to replace a voter only on evidence
\* of its present silence, and only by a learner that answered last.
THEOREM ReplacesOnlyTheSilent == RecoverySpec => []OnlyTheSilentAreReplaced
<1>1. RecoveryInv => OnlyTheSilentAreReplaced
  BY DEF RecoveryInv
<1>2. QED
  BY <1>1, RecoveryInitially, RecoveryStep, PTL DEF RecoverySpec

-----------------------------------------------------------------------------
(* Federation *)

\* An advertisement in the directory was accepted while its domain had all of
\* its abilities, so none of them is given up before it runs out.
AdvertsInGrace ==
  \A k \in Domain \X CellNode : adverts[k] # None =>
    \A a \in adverts[k].abilities : adverts[k].expires <= grace[k[1]][a]

LeasesInGrace == \A l \in granted : l.expires <= grace[l.domain][l.ability]

FederationInv == FederationTypeOK /\ AdvertsInGrace /\ LeasesInGrace

LEMMA FederationInitially == FederationInit => FederationInv
BY FederationAssumption
   DEF FederationInit, FederationInv, FederationTypeOK, AdvertsInGrace, LeasesInGrace, Maybe,
       Horizon

LEMMA PublishStep ==
  ASSUME FederationInv, NEW d \in Domain, NEW n \in CellNode, NEW ad \in Advert,
         PublishAdvert(d, n, ad)
  PROVE  FederationInv'
<1> DEFINE g == [a \in Ability |-> IF a \in ad.abilities \cap allowed[d]
                                     THEN LaterOf(grace[d][a], ad.expires) ELSE grace[d][a]]
<1>1. /\ adverts' = [adverts EXCEPT ![<<d, n>>] = ad]
      /\ grace' = [grace EXCEPT ![d] = g]
      /\ fedNow' = fedNow /\ allowed' = allowed /\ granted' = granted
      /\ ad.abilities \subseteq allowed[d] /\ ad.abilities \subseteq Ability
      /\ ad.expires \in Horizon
  BY DEF PublishAdvert, Permitted, Advert
<1>2. /\ fedNow \in 0 .. MaxFedNow /\ allowed \in [Domain -> SUBSET Ability]
      /\ adverts \in [Domain \X CellNode -> Maybe(Advert)] /\ granted \subseteq FedLease
      /\ grace \in [Domain -> [Ability -> Horizon]]
  BY DEF FederationInv, FederationTypeOK
<1>3. /\ g \in [Ability -> Horizon]
      /\ \A a \in Ability : grace[d][a] <= g[a]
      /\ \A a \in ad.abilities : ad.expires <= g[a]
  BY <1>1, <1>2, FederationAssumption DEF LaterOf, Horizon
<1> HIDE DEF g
<1>4. grace' \in [Domain -> [Ability -> Horizon]] /\ grace'[d] = g
  BY <1>1, <1>2, <1>3
<1>5. \A e \in Domain, a \in Ability : grace[e][a] <= grace'[e][a]
  BY <1>1, <1>2, <1>3, <1>4, FederationAssumption DEF Horizon
<1>6. FederationTypeOK'
  BY <1>1, <1>2, <1>4 DEF FederationTypeOK, Maybe
<1>7. AdvertsInGrace'
  <2> SUFFICES ASSUME NEW k \in Domain \X CellNode, adverts'[k] # None,
                      NEW a \in adverts'[k].abilities
               PROVE  adverts'[k].expires <= grace'[k[1]][a]
    BY DEF AdvertsInGrace
  <2>1. CASE k = <<d, n>>
    BY <1>1, <1>2, <1>3, <1>4, <2>1
  <2>2. CASE k # <<d, n>>
    <3>1. adverts'[k] = adverts[k] /\ adverts[k] \in Advert /\ k[1] \in Domain
      BY <1>1, <1>2, <2>2 DEF Maybe
    <3>2. /\ a \in Ability /\ adverts[k].expires \in Horizon
          /\ adverts[k].expires <= grace[k[1]][a]
      BY <3>1 DEF FederationInv, AdvertsInGrace, Advert
    <3>3. QED
      BY <1>2, <1>4, <1>5, <3>1, <3>2, FederationAssumption DEF Horizon
  <2>3. QED
    BY <2>1, <2>2
<1>8. LeasesInGrace'
  <2> SUFFICES ASSUME NEW l \in granted PROVE l.expires <= grace'[l.domain][l.ability]
    BY <1>1 DEF LeasesInGrace
  <2>1. /\ l.domain \in Domain /\ l.ability \in Ability /\ l.expires \in Nat
        /\ l.expires <= grace[l.domain][l.ability]
    BY <1>2, FederationAssumption DEF FederationInv, LeasesInGrace, FedLease
  <2>2. QED
    BY <1>2, <1>4, <1>5, <2>1, FederationAssumption DEF Horizon
<1>9. QED
  BY <1>6, <1>7, <1>8 DEF FederationInv

LEMMA AllocateStep ==
  ASSUME FederationInv, NEW a \in Ability, NEW units \in Units, NEW seconds \in 1 .. MaxFedLease,
         Allocate(a, units, seconds)
  PROVE  FederationInv'
<1>1. /\ fedNow \in 0 .. MaxFedNow /\ allowed \in [Domain -> SUBSET Ability]
      /\ adverts \in [Domain \X CellNode -> Maybe(Advert)] /\ granted \subseteq FedLease
      /\ grace \in [Domain -> [Ability -> Horizon]]
  BY DEF FederationInv, FederationTypeOK
<1>2. /\ adverts' = Purged /\ fedNow' = fedNow /\ allowed' = allowed /\ grace' = grace
  BY DEF Allocate
<1>3. \A k \in Domain \X CellNode : Purged[k] = None \/ Purged[k] = adverts[k]
  BY DEF Purged
<1>4. Purged \in [Domain \X CellNode -> Maybe(Advert)]
  BY <1>1 DEF Purged, Maybe
<1>5. AdvertsInGrace'
  BY <1>2, <1>3 DEF FederationInv, AdvertsInGrace
<1>6. ASSUME NEW k \in CellCandidates(a, units)
      PROVE  LET e == IF Purged[k].expires < fedNow + seconds
                        THEN Purged[k].expires ELSE fedNow + seconds
                 l == [domain |-> k[1], node |-> k[2], ability |-> a, units |-> units,
                       expires |-> e]
             IN  l \in FedLease /\ l.expires <= grace[l.domain][l.ability]
  <2>1. /\ k \in Domain \X CellNode /\ Purged[k] # None /\ a \in Purged[k].abilities
    BY DEF CellCandidates
  <2>2. Purged[k] = adverts[k] /\ adverts[k] \in Advert /\ k[1] \in Domain /\ k[2] \in CellNode
    BY <1>1, <1>3, <2>1 DEF Maybe
  <2>3. Purged[k].expires \in Horizon /\ Purged[k].expires <= grace[k[1]][a]
    BY <2>1, <2>2 DEF FederationInv, AdvertsInGrace, Advert
  <2>4. QED
    BY <1>1, <2>2, <2>3, FederationAssumption DEF FedLease, Horizon
<1>7. granted' \subseteq FedLease /\ LeasesInGrace'
  <2>1. CASE granted' = granted
    BY <1>1, <1>2, <2>1 DEF FederationInv, LeasesInGrace
  <2>2. CASE granted' # granted
    BY <1>1, <1>2, <1>6, <2>2 DEF FederationInv, LeasesInGrace, Allocate
  <2>3. QED
    BY <2>1, <2>2
<1>8. QED
  BY <1>1, <1>2, <1>4, <1>5, <1>7 DEF FederationInv, FederationTypeOK

LEMMA FederationStep == FederationInv /\ [FederationNext]_federationVars => FederationInv'
<1> SUFFICES ASSUME FederationInv, [FederationNext]_federationVars PROVE FederationInv'
  OBVIOUS
<1>1. CASE FedTick
  BY <1>1, FederationAssumption
     DEF FedTick, FederationInv, FederationTypeOK, AdvertsInGrace, LeasesInGrace
<1>2. ASSUME NEW d \in Domain, NEW S \in SUBSET Ability, ApproveDomain(d, S)
      PROVE  FederationInv'
  BY <1>2 DEF ApproveDomain, FederationInv, FederationTypeOK, AdvertsInGrace, LeasesInGrace
<1>3. CASE UNCHANGED federationVars
  BY <1>3 DEF federationVars, FederationInv, FederationTypeOK, AdvertsInGrace, LeasesInGrace
<1>4. QED
  BY <1>1, <1>2, <1>3, PublishStep, AllocateStep DEF FederationNext

\* A capability taken from a domain is not leased beyond the advertisements that
\* publish accepted while the domain had it, however often domains are approved
\* again and nodes advertise.
THEOREM NarrowingHolds == FederationSpec => []NarrowingTakesEffect
<1>1. FederationInv => NarrowingTakesEffect
  BY DEF FederationInv, LeasesInGrace, NarrowingTakesEffect
<1>2. QED
  BY <1>1, FederationInitially, FederationStep, PTL DEF FederationSpec

-----------------------------------------------------------------------------
(* AgentRecords *)

\* What a call means to write back to a row that ended ends it too, and a revocation
\* always does.
CopiesEnded ==
  /\ \A x \in Caller : call[x] # None /\ call[x].id \in ended =>
       IF call[x].op \in {"state", "store", "forget"}
         THEN call[x].row.state = "terminated" ELSE call[x].row.revoked = TRUE
  /\ \A x \in Caller : call[x] # None /\ call[x].op = "revoke" => call[x].row.revoked = TRUE
  /\ \A a \in ended \cap AgentId : agentRow[a] # None
  /\ \A k \in ended \cap TokenId : tokenRow[k] # None

RowsRead ==
  \A x \in Caller : call[x] # None =>
    IF call[x].op \in {"state", "store", "forget"} THEN agentRow[call[x].id] # None
                                                    ELSE tokenRow[call[x].id] # None

RecordsInv == RecordsTypeOK /\ CopiesEnded /\ RowsRead /\ EndedAloneIsFinal

LEMMA RecordsInitially == RecordsInit => RecordsInv
BY DEF RecordsInit, RecordsInv, RecordsTypeOK, CopiesEnded, RowsRead, EndedAloneIsFinal, Maybe

\* What a call is about.
LEMMA CallTypes ==
  ASSUME RecordsTypeOK, NEW x \in Caller, call[x] # None
  PROVE  /\ call[x] \in Call
         /\ call[x].op \in {"state", "store", "forget"} =>
              call[x].id \in AgentId /\ call[x].row \in AgentRow
         /\ call[x].op \in {"revoke", "authenticate"} =>
              call[x].id \in TokenId /\ call[x].row \in TokenRow
         /\ call[x].op \in {"state", "store", "forget", "revoke", "authenticate"}
         /\ call[x].op = "authenticate" => call[x].need \in Needs
<1>1. call[x] \in Call
  BY DEF RecordsTypeOK, Maybe
<1>2. QED
  BY <1>1 DEF Call

\* A call reads a row: of an agent,
LEMMA AgentCall ==
  ASSUME RecordsInv, NEW x \in Caller, NEW a \in AgentId, NEW row \in AgentRow,
         NEW op \in {"state", "store", "forget"},
         agentRow[a] # None, a \in ended => row.state = "terminated",
         Holds(x, op, a, row, None), UNCHANGED <<agentRow, tokenRow, ended>>,
         memRow' \in [MemId -> Maybe(AgentId)], entered' \in [Caller -> Maybe(Entry)]
  PROVE  RecordsInv'
<1> DEFINE c == [op |-> op, id |-> a, row |-> row, need |-> None]
<1>1. c \in Call
  BY DEF Call
<1>2. call' = [call EXCEPT ![x] = c] /\ call \in [Caller -> Maybe(Call)]
  BY DEF Holds, RecordsInv, RecordsTypeOK
<1>3. call' \in [Caller -> Maybe(Call)]
  BY <1>1, <1>2 DEF Maybe
<1>4. \A y \in Caller : call'[y] = IF y = x THEN c ELSE call[y]
  BY <1>2
<1>5. c.op \in {"state", "store", "forget"} /\ c.id = a /\ c.row = row
  OBVIOUS
<1> HIDE DEF c
<1>6. RecordsTypeOK'
  BY <1>3 DEF RecordsInv, RecordsTypeOK
<1>7. CopiesEnded' /\ RowsRead'
  BY <1>4, <1>5 DEF RecordsInv, CopiesEnded, RowsRead
<1>8. QED
  BY <1>6, <1>7 DEF RecordsInv, EndedAloneIsFinal

\* of a token.
LEMMA TokenCall ==
  ASSUME RecordsInv, NEW x \in Caller, NEW k \in TokenId, NEW row \in TokenRow,
         NEW op, NEW need,
         (op = "revoke" /\ need = None) \/ (op = "authenticate" /\ need \in Needs),
         tokenRow[k] # None, k \notin ended, op = "revoke" => row.revoked = TRUE,
         Holds(x, op, k, row, need), UNCHANGED <<agentRow, memRow, tokenRow, entered, ended>>
  PROVE  RecordsInv'
<1> DEFINE c == [op |-> op, id |-> k, row |-> row, need |-> need]
<1>1. c \in Call
  BY DEF Call
<1>2. call' = [call EXCEPT ![x] = c] /\ call \in [Caller -> Maybe(Call)]
  BY DEF Holds, RecordsInv, RecordsTypeOK
<1>3. call' \in [Caller -> Maybe(Call)]
  BY <1>1, <1>2 DEF Maybe
<1>4. \A y \in Caller : call'[y] = IF y = x THEN c ELSE call[y]
  BY <1>2
<1>5. c.op \notin {"state", "store", "forget"} /\ c.id = k /\ c.row = row /\ c.op = op
  OBVIOUS
<1> HIDE DEF c
<1>6. RecordsTypeOK'
  BY <1>3 DEF RecordsInv, RecordsTypeOK
<1>7. CopiesEnded' /\ RowsRead'
  BY <1>4, <1>5 DEF RecordsInv, CopiesEnded, RowsRead
<1>8. QED
  BY <1>6, <1>7 DEF RecordsInv, EndedAloneIsFinal

LEMMA UpdateAgentStep ==
  ASSUME RecordsInv, NEW x \in Caller, UpdateAgent(x)
  PROVE  RecordsInv'
<1> DEFINE id == call[x].id
           row == call[x].row
<1>1. /\ id \in AgentId /\ row \in AgentRow /\ row # None /\ call[x] # None
      /\ call[x].op \in {"state", "store", "forget"}
      /\ agentRow' = [agentRow EXCEPT ![id] = row] /\ call' = [call EXCEPT ![x] = None]
      /\ UNCHANGED <<memRow, tokenRow, entered>>
      /\ ended' = ended \/ (ended' = ended \cup {id} /\ row.state = "terminated" /\ Alone(x, id))
  BY CallTypes, NoRowAssumption DEF UpdateAgent, RecordsInv
<1>2. /\ agentRow \in [AgentId -> Maybe(AgentRow)] /\ call \in [Caller -> Maybe(Call)]
      /\ memRow \in [MemId -> Maybe(AgentId)] /\ tokenRow \in [TokenId -> Maybe(TokenRow)]
      /\ entered \in [Caller -> Maybe(Entry)] /\ ended \subseteq AgentId \cup TokenId
  BY DEF RecordsInv, RecordsTypeOK
<1>3. id \in ended' => row.state = "terminated"
  BY <1>1 DEF RecordsInv, CopiesEnded
<1>4. \A y \in Caller : call'[y] # None =>
        y # x /\ call'[y] = call[y] /\ (call[y].id \in ended' => call[y].id \in ended)
  BY <1>1, <1>2 DEF Alone
<1>5. \A a \in AgentId : agentRow'[a] = IF a = id THEN row ELSE agentRow[a]
  BY <1>1, <1>2
<1> HIDE DEF id, row
<1>6. RecordsTypeOK'
  BY <1>1, <1>2 DEF RecordsTypeOK, Maybe
<1>7. \A y \in Caller : call[y] # None /\ call[y].op \in {"state", "store", "forget"} =>
        call[y].id \in AgentId
  BY CallTypes DEF RecordsInv
<1>8. ended' \cap TokenId = ended \cap TokenId /\ \A a \in ended' \cap AgentId : a \in ended \/ a = id
  BY <1>1, IdAssumption
<1>9. CopiesEnded'
  BY <1>1, <1>4, <1>5, <1>7, <1>8 DEF RecordsInv, CopiesEnded
<1>10. RowsRead'
  BY <1>1, <1>4, <1>5, <1>7 DEF RecordsInv, RowsRead
<1>11. EndedAloneIsFinal'
  BY <1>1, <1>3, <1>5, <1>8 DEF RecordsInv, EndedAloneIsFinal
<1>12. QED
  BY <1>6, <1>9, <1>10, <1>11 DEF RecordsInv

LEMMA WriteTokenStep ==
  ASSUME RecordsInv, NEW x \in Caller, call[x] # None,
         call[x].op \in {"revoke", "authenticate"}, WriteToken(x),
         \/ ended' = ended
         \/ /\ ended' = ended \cup {call[x].id} /\ Alone(x, call[x].id)
            /\ call[x].row.revoked = TRUE,
         entered' \in [Caller -> Maybe(Entry)]
  PROVE  RecordsInv'
<1> DEFINE id == call[x].id
           row == call[x].row
           new == [tokenRow[id] EXCEPT !.revoked = row.revoked]
<1>1. /\ agentRow \in [AgentId -> Maybe(AgentRow)] /\ call \in [Caller -> Maybe(Call)]
      /\ memRow \in [MemId -> Maybe(AgentId)] /\ tokenRow \in [TokenId -> Maybe(TokenRow)]
      /\ ended \subseteq AgentId \cup TokenId
  BY DEF RecordsInv, RecordsTypeOK
<1>2. /\ id \in TokenId /\ row \in TokenRow /\ tokenRow[id] # None
      /\ call' = [call EXCEPT ![x] = None] /\ UNCHANGED <<agentRow, memRow>>
      /\ tokenRow' = [tokenRow EXCEPT ![id] = new]
      /\ call[x].op \notin {"state", "store", "forget"}
  BY CallTypes DEF WriteToken, RecordsInv, RowsRead
<1>3. new \in TokenRow /\ new # None /\ new.revoked = row.revoked
  <2>1. tokenRow[id] \in TokenRow
    BY <1>1, <1>2 DEF Maybe
  <2>2. new \in TokenRow /\ new.revoked = row.revoked
    BY <1>2, <2>1 DEF TokenRow
  <2>3. QED
    BY <2>2, NoRowAssumption
<1>4. id \in ended' => row.revoked = TRUE
  BY <1>2 DEF RecordsInv, CopiesEnded
<1>5. \A y \in Caller : call'[y] # None =>
        y # x /\ call'[y] = call[y] /\ (call[y].id \in ended' => call[y].id \in ended)
  BY <1>1, <1>2 DEF Alone
<1>6. \A k \in TokenId : tokenRow'[k] = IF k = id THEN new ELSE tokenRow[k]
  BY <1>1, <1>2
<1> HIDE DEF new
<1>7. RecordsTypeOK'
  BY <1>1, <1>2, <1>3 DEF RecordsTypeOK, Maybe
<1>8. \A y \in Caller : call[y] # None /\ call[y].op \notin {"state", "store", "forget"} =>
        call[y].id \in TokenId
  BY CallTypes DEF RecordsInv
<1>9. ended' \cap AgentId = ended \cap AgentId /\ \A k \in ended' \cap TokenId : k \in ended \/ k = id
  BY <1>2, IdAssumption
<1>10. CopiesEnded'
  BY <1>2, <1>3, <1>5, <1>6, <1>8, <1>9 DEF RecordsInv, CopiesEnded
<1>11. RowsRead'
  BY <1>2, <1>3, <1>5, <1>6, <1>8 DEF RecordsInv, RowsRead
<1>12. EndedAloneIsFinal'
  BY <1>2, <1>3, <1>4, <1>6, <1>9 DEF RecordsInv, EndedAloneIsFinal
<1>13. QED
  BY <1>7, <1>10, <1>11, <1>12 DEF RecordsInv

\* A row that is new has not ended.
LEMMA NewRowStep ==
  ASSUME RecordsInv, NEW a \in AgentId, NEW P \in SUBSET Permission,
         RegisterAgent(a, P) \/ \E k \in TokenId : IssueToken(k, a, P)
  PROVE  RecordsInv'
<1>1. CASE RegisterAgent(a, P)
  <2> DEFINE row == [state |-> "created", permissions |-> P, refs |-> {}]
  <2>1. row \in AgentRow /\ row # None
    <3>1. row \in AgentRow
      BY DEF AgentRow, States
    <3>2. QED
      BY <3>1, NoRowAssumption
  <2> HIDE DEF row
  <2>2. agentRow' = [agentRow EXCEPT ![a] = row] /\ agentRow[a] = None
        /\ UNCHANGED <<memRow, tokenRow, entered, call, ended>>
    BY <1>1 DEF RegisterAgent, row
  <2>3. QED
    BY <2>1, <2>2 DEF RecordsInv, RecordsTypeOK, CopiesEnded, RowsRead, EndedAloneIsFinal, Maybe
<1>2. ASSUME NEW k \in TokenId, IssueToken(k, a, P) PROVE RecordsInv'
  <2> DEFINE row == [agent |-> a, scopes |-> P, revoked |-> FALSE]
  <2>1. row \in TokenRow /\ row # None
    <3>1. row \in TokenRow
      BY DEF TokenRow
    <3>2. QED
      BY <3>1, NoRowAssumption
  <2> HIDE DEF row
  <2>2. tokenRow' = [tokenRow EXCEPT ![k] = row] /\ tokenRow[k] = None
        /\ UNCHANGED <<agentRow, memRow, entered, call, ended>>
    BY <1>2 DEF IssueToken, row
  <2>3. QED
    BY <2>1, <2>2 DEF RecordsInv, RecordsTypeOK, CopiesEnded, RowsRead, EndedAloneIsFinal, Maybe
<1>3. QED
  BY <1>1, <1>2

\* What a call writes back that looked at a row which ended: change_state, revoke_token
\* and authenticate found it as it was before it ended.
LEMMA ReadStep ==
  ASSUME RecordsInv, NEW x \in Caller,
         \/ \E a \in AgentId, s \in States : ReadForState(x, a, s)
         \/ \E k \in TokenId : ReadForRevoke(x, k) \/ \E p \in Needs : Authenticate(x, k, p)
  PROVE  RecordsInv'
<1>1. ASSUME NEW a \in AgentId, NEW s \in States, ReadForState(x, a, s) PROVE RecordsInv'
  <2> DEFINE row == [agentRow[a] EXCEPT !.state = s]
  <2>1. agentRow[a] \in AgentRow
    BY <1>1 DEF ReadForState, RecordsInv, RecordsTypeOK, Maybe
  <2>2. row \in AgentRow
    BY <2>1 DEF AgentRow
  <2>3. a \notin ended
    BY <1>1 DEF ReadForState, Transitions, RecordsInv, EndedAloneIsFinal
  <2> HIDE DEF row
  <2>4. /\ agentRow[a] # None /\ Holds(x, "state", a, row, None)
        /\ UNCHANGED <<agentRow, memRow, tokenRow, entered, ended>>
    BY <1>1 DEF ReadForState, row
  <2>5. QED
    BY <2>2, <2>3, <2>4, AgentCall DEF RecordsInv, RecordsTypeOK
<1>2. ASSUME NEW k \in TokenId, ReadForRevoke(x, k) PROVE RecordsInv'
  <2> DEFINE row == [tokenRow[k] EXCEPT !.revoked = TRUE]
  <2>1. tokenRow[k] \in TokenRow
    BY <1>2 DEF ReadForRevoke, RecordsInv, RecordsTypeOK, Maybe
  <2>2. row \in TokenRow /\ row.revoked = TRUE
    BY <2>1 DEF TokenRow
  <2>3. k \notin ended
    BY <1>2 DEF ReadForRevoke, RecordsInv, EndedAloneIsFinal
  <2> HIDE DEF row
  <2>4. /\ tokenRow[k] # None /\ Holds(x, "revoke", k, row, None)
        /\ UNCHANGED <<agentRow, memRow, tokenRow, entered, ended>>
    BY <1>2 DEF ReadForRevoke, row
  <2>5. QED
    BY <2>2, <2>3, <2>4, TokenCall
<1>3. ASSUME NEW k \in TokenId, NEW p \in Needs, Authenticate(x, k, p) PROVE RecordsInv'
  <2>1. tokenRow[k] \in TokenRow
    BY <1>3 DEF Authenticate, RecordsInv, RecordsTypeOK, Maybe
  <2>2. k \notin ended
    BY <1>3 DEF Authenticate, RecordsInv, EndedAloneIsFinal
  <2>3. /\ tokenRow[k] # None /\ Holds(x, "authenticate", k, tokenRow[k], p)
        /\ UNCHANGED <<agentRow, memRow, tokenRow, entered, ended>>
    BY <1>3 DEF Authenticate
  <2>4. QED
    BY <2>1, <2>2, <2>3, TokenCall
<1>4. QED
  BY <1>1, <1>2, <1>3

\* The memory operations keep the state of the agent they read.
LEMMA MemoryStep ==
  ASSUME RecordsInv, NEW x \in Caller, NEW a \in AgentId, NEW m \in MemId,
         StoreRecord(x, a, m) \/ ToolStores(x, a, m) \/ ForgetRecord(x, a, m)
  PROVE  RecordsInv'
<1> DEFINE more == [agentRow[a] EXCEPT !.refs = @ \cup {m}]
           less == [agentRow[a] EXCEPT !.refs = @ \ {m}]
<1>1. agentRow[a] # None /\ agentRow[a] \in AgentRow
  BY DEF StoreRecord, ToolStores, StoreFor, ForgetRecord, Permits, RecordsInv, RecordsTypeOK, Maybe
<1>2. /\ more \in AgentRow /\ less \in AgentRow
      /\ more.state = agentRow[a].state /\ less.state = agentRow[a].state
  BY <1>1 DEF AgentRow
<1>3. a \in ended => agentRow[a].state = "terminated"
  BY DEF RecordsInv, EndedAloneIsFinal
<1>4. \/ Holds(x, "store", a, more, None)
      \/ Holds(x, "forget", a, less, None)
  BY DEF StoreRecord, ToolStores, StoreFor, ForgetRecord
<1>5. memRow' \in [MemId -> Maybe(AgentId)]
  BY DEF StoreRecord, ToolStores, StoreFor, ForgetRecord, AddRecord, DeleteRecord, RecordsInv,
         RecordsTypeOK, Maybe
<1>6. entered' \in [Caller -> Maybe(Entry)] /\ UNCHANGED <<agentRow, tokenRow, ended>>
  BY DEF StoreRecord, ToolStores, StoreFor, ForgetRecord, LetGo, RecordsInv, RecordsTypeOK, Maybe
<1> HIDE DEF more, less
<1>7. QED
  BY <1>1, <1>2, <1>3, <1>4, <1>5, <1>6, AgentCall

\* Being let in, and leaving, read no row a call could write back.
LEMMA EntryStep ==
  ASSUME RecordsInv, NEW x \in Caller,
         AnswerRequest(x) \/ \E a \in AgentId, p \in Needs : EnterWithKey(x, a, p)
  PROVE  RecordsInv'
<1>1. \A a \in AgentId, p \in Needs : [agent |-> a, need |-> p] \in Entry
  BY DEF Entry
<1>2. entered' \in [Caller -> Maybe(Entry)] /\ UNCHANGED <<agentRow, memRow, tokenRow, call, ended>>
  BY <1>1 DEF AnswerRequest, EnterWithKey, LetGo, RecordsInv, RecordsTypeOK, Maybe
<1>3. QED
  BY <1>2 DEF RecordsInv, RecordsTypeOK, CopiesEnded, RowsRead, EndedAloneIsFinal

LEMMA RecordsStep == RecordsInv /\ [RecordsNext]_recordVars => RecordsInv'
<1> SUFFICES ASSUME RecordsInv, [RecordsNext]_recordVars PROVE RecordsInv'
  OBVIOUS
<1>1. CASE UNCHANGED recordVars
  BY <1>1 DEF recordVars, RecordsInv, RecordsTypeOK, CopiesEnded, RowsRead, EndedAloneIsFinal
<1>2. ASSUME NEW x \in Caller, FinishRevoke(x) PROVE RecordsInv'
  <2>1. call[x] # None /\ call[x].op = "revoke" /\ WriteToken(x) /\ entered' = entered
    BY <1>2 DEF FinishRevoke
  <2>2. call[x].row.revoked = TRUE
    BY <2>1 DEF RecordsInv, CopiesEnded
  <2>3. ended' = ended \/ (ended' = ended \cup {call[x].id} /\ Alone(x, call[x].id))
    BY <1>2 DEF FinishRevoke
  <2>4. entered' \in [Caller -> Maybe(Entry)]
    BY <2>1 DEF RecordsInv, RecordsTypeOK
  <2>5. QED
    BY <2>1, <2>2, <2>3, <2>4, WriteTokenStep
<1>3. ASSUME NEW x \in Caller, EnterWithToken(x) PROVE RecordsInv'
  <2>1. call[x] # None /\ call[x].op = "authenticate" /\ WriteToken(x) /\ ended' = ended
    BY <1>3 DEF EnterWithToken
  <2>2. call[x].row \in TokenRow /\ call[x].need \in Needs
    BY <2>1, CallTypes DEF RecordsInv
  <2>3. [agent |-> call[x].row.agent, need |-> call[x].need] \in Entry
    BY <2>2 DEF TokenRow, Entry
  <2>4. entered' \in [Caller -> Maybe(Entry)]
    BY <1>3, <2>3 DEF EnterWithToken, RecordsInv, RecordsTypeOK, Maybe
  <2>5. QED
    BY <2>1, <2>4, WriteTokenStep
<1>4. QED
  BY <1>1, <1>2, <1>3, NewRowStep, ReadStep, MemoryStep, EntryStep, UpdateAgentStep DEF RecordsNext

(* A termination or a revocation written while no other call held a copy of the row is
   final, however many threads of the API and of the task worker read and write back
   agents, records and tokens. *)
THEOREM EndedStaysEnded == RecordsSpec => []EndedAloneIsFinal
<1>1. RecordsInv => EndedAloneIsFinal
  BY DEF RecordsInv
<1>2. QED
  BY <1>1, RecordsInitially, RecordsStep, PTL DEF RecordsSpec

-----------------------------------------------------------------------------
(* SelfExpansion *)

\* The file of a name holds code that passed every gate, of an item that was built.
CodeOnFile ==
  \A n \in SpecName : onFile[n] # None => status[onFile[n]] # "none" /\ flaws[onFile[n]] = {}

Filed(i) == specName[i] \in SpecName /\ onFile[specName[i]] # None

BuiltIsFiled ==
  \A i \in Item : status[i] \in {"built", "pending", "approved", "rejected"} => Filed(i)

ApprovalsFiled ==
  \A a \in Approver : approving[a] # None =>
    LET i == approving[a].item
    IN  i \in confirmed /\ status[i] # "none" /\ Filed(i)

BoundWasBuilt ==
  \A b \in bound : flaws[b[2]] = {} /\ status[b[2]] # "none" /\ b[1] \in confirmed

\* Nothing leads from a rejection to a binding.
TurnedDownStays ==
  \A i \in turnedDown :
    /\ status[i] \in {"rejected", "lost"}
    /\ \A a \in Approver : approving[a] # None => approving[a].item # i
    /\ \A b \in bound : b[1] # i

ExpansionInv == /\ ExpansionTypeOK /\ CodeOnFile /\ BuiltIsFiled /\ ApprovalsFiled
                /\ BoundWasBuilt /\ TurnedDownStays

LEMMA ExpansionInitially == ExpansionInit => ExpansionInv
BY ExpansionBounds
   DEF ExpansionInit, ExpansionInv, ExpansionTypeOK, CodeOnFile, BuiltIsFiled, ApprovalsFiled,
       BoundWasBuilt, TurnedDownStays, Filed, Maybe, Statuses

\* A build that passes every gate has no flaw.
LEMMA PassedHasNoFlaw ==
  ASSUME NEW f \in SUBSET Gate, Passed(f) PROVE f = {}
BY DEF Passed, Gate, HasTestCases, ReviewSucceeds, SynthesisSucceeds, StaticallySafe, SandboxPasses

LEMMA CountedBuild ==
  ASSUME ExpansionTypeOK, NEW i \in Item, MayBuild(i), CountBuild(i)
  PROVE  builds' \in 0 .. MaxBuildsPerGoal
BY ExpansionBounds DEF ExpansionTypeOK, MayBuild, CountBuild

LEMMA BuildStep ==
  ASSUME ExpansionInv, NEW i \in Item, NEW n \in SpecName, NEW f \in SUBSET Gate, Build(i, n, f)
  PROVE  ExpansionInv'
<1>1. /\ flaws \in [Item -> SUBSET Gate] /\ specName \in [Item -> Maybe(SpecName)]
      /\ onFile \in [SpecName -> Maybe(Item)] /\ status \in [Item -> Statuses]
      /\ approving \in [Approver -> Maybe([item : Item, done : BOOLEAN])]
      /\ bound \subseteq Item \X Item /\ turnedDown \subseteq Item
  BY DEF ExpansionInv, ExpansionTypeOK
<1>2. /\ status[i] = "none" /\ flaws' = [flaws EXCEPT ![i] = f]
      /\ specName' = [specName EXCEPT ![i] = n]
      /\ status' = [status EXCEPT ![i] = BuiltStatus(f)]
      /\ onFile' = IF Passed(f) THEN [onFile EXCEPT ![n] = i] ELSE onFile
      /\ UNCHANGED <<artifacts, asked, approving, bound, confirmed, turnedDown, expRestarts>>
  BY DEF Build
<1>3. BuiltStatus(f) \in {"built", "failed"} /\ (BuiltStatus(f) = "built" => Passed(f))
  BY DEF BuiltStatus
<1>4. Passed(f) => f = {}
  BY PassedHasNoFlaw
<1>5. \A j \in Item \ {i} :
        flaws'[j] = flaws[j] /\ status'[j] = status[j] /\ specName'[j] = specName[j]
  BY <1>1, <1>2
<1>6. flaws'[i] = f /\ status'[i] = BuiltStatus(f) /\ specName'[i] = n
  BY <1>1, <1>2
<1>7. i # None /\ n # None
  BY NoItemAssumption
<1>8. \A m \in SpecName :
        /\ onFile'[m] = IF Passed(f) /\ m = n THEN i ELSE onFile[m]
        /\ onFile[m] # None => onFile[m] \in Item \ {i} /\ onFile'[m] # None
  BY <1>1, <1>2, <1>7 DEF ExpansionInv, CodeOnFile, Maybe
<1>9. ExpansionTypeOK'
  <2>1. builds' \in 0 .. MaxBuildsPerGoal
    BY CountedBuild DEF Build, ExpansionInv
  <2>2. status' \in [Item -> Statuses]
    BY <1>1, <1>2, <1>3 DEF Statuses
  <2>3. onFile' \in [SpecName -> Maybe(Item)] /\ specName' \in [Item -> Maybe(SpecName)]
        /\ flaws' \in [Item -> SUBSET Gate]
    BY <1>1, <1>2 DEF Maybe
  <2>4. QED
    BY <1>2, <2>1, <2>2, <2>3 DEF ExpansionInv, ExpansionTypeOK
<1>10. CodeOnFile'
  BY <1>3, <1>4, <1>5, <1>6, <1>8 DEF ExpansionInv, CodeOnFile
<1>11. \A j \in Item \ {i} : Filed(j) => Filed(j)'
  BY <1>5, <1>8 DEF Filed
<1>12. BuiltIsFiled'
  <2>1. BuiltStatus(f) = "built" => Filed(i)'
    BY <1>3, <1>6, <1>7, <1>8 DEF Filed
  <2>2. QED
    BY <1>3, <1>5, <1>6, <1>11, <2>1 DEF ExpansionInv, BuiltIsFiled
<1>13. ApprovalsFiled'
  <2>1. \A a \in Approver : approving[a] # None => approving[a].item \in Item \ {i}
    BY <1>1, <1>2 DEF ExpansionInv, ApprovalsFiled, Maybe
  <2>2. QED
    BY <1>2, <1>5, <1>11, <2>1 DEF ExpansionInv, ApprovalsFiled, Filed
<1>14. BoundWasBuilt' /\ TurnedDownStays'
  BY <1>1, <1>2, <1>5 DEF ExpansionInv, BoundWasBuilt, TurnedDownStays
<1>15. QED
  BY <1>9, <1>10, <1>12, <1>13, <1>14 DEF ExpansionInv

\* Steps that enter, ask for or withdraw what was built.
LEMMA EnteredStep ==
  ASSUME ExpansionInv, NEW i \in Item,
         \/ DesignFails(i) \/ EnterRequest(i) \/ EnterProposal(i)
         \/ AskRequest(i) \/ AskProposal(i) \/ Withdraw(i)
  PROVE  ExpansionInv'
<1>1. CASE DesignFails(i) \/ AskRequest(i) \/ AskProposal(i) \/ Withdraw(i)
  <2>1. builds' \in 0 .. MaxBuildsPerGoal
    BY <1>1, CountedBuild
       DEF DesignFails, AskRequest, AskProposal, AskFor, Withdraw, ExpansionInv, ExpansionTypeOK
  <2>2. asked' \subseteq Item /\ UNCHANGED <<flaws, specName, onFile, status, artifacts, approving,
                                             bound, confirmed, turnedDown, expRestarts>>
    BY <1>1 DEF DesignFails, AskRequest, AskProposal, AskFor, Withdraw, ExpansionInv, ExpansionTypeOK
  <2>3. QED
    BY <2>1, <2>2 DEF ExpansionInv, ExpansionTypeOK, CodeOnFile, BuiltIsFiled, ApprovalsFiled,
                      BoundWasBuilt, TurnedDownStays, Filed
<1>2. CASE EnterRequest(i) \/ EnterProposal(i)
  <2>1. /\ status[i] = "built" /\ status' = [status EXCEPT ![i] = "pending"]
        /\ status \in [Item -> Statuses] /\ onFile \in [SpecName -> Maybe(Item)]
        /\ approving \in [Approver -> Maybe([item : Item, done : BOOLEAN])]
        /\ bound \subseteq Item \X Item /\ turnedDown \subseteq Item
        /\ UNCHANGED <<flaws, specName, onFile, builds, asked, approving, bound, confirmed,
                       turnedDown, expRestarts>>
    BY <1>2 DEF EnterRequest, EnterProposal, ExpansionInv, ExpansionTypeOK
  <2>2. \A j \in Item : status'[j] = IF j = i THEN "pending" ELSE status[j]
    BY <2>1
  <2>3. ExpansionTypeOK'
    <3>1. artifacts' \subseteq Proposal
      BY <1>2 DEF EnterRequest, EnterProposal, ExpansionInv, ExpansionTypeOK
    <3>2. status' \in [Item -> Statuses]
      BY <2>1 DEF Statuses
    <3>3. QED
      BY <2>1, <3>1, <3>2 DEF ExpansionInv, ExpansionTypeOK
  <2>4. CodeOnFile' /\ BuiltIsFiled'
    BY <2>1, <2>2 DEF ExpansionInv, CodeOnFile, BuiltIsFiled, Filed, Maybe
  <2>5. ApprovalsFiled'
    BY <2>1, <2>2 DEF ExpansionInv, ApprovalsFiled, Filed, Maybe
  <2>6. BoundWasBuilt' /\ TurnedDownStays'
    BY <2>1, <2>2 DEF ExpansionInv, BoundWasBuilt, TurnedDownStays
  <2>7. QED
    BY <2>3, <2>4, <2>5, <2>6 DEF ExpansionInv
<1>3. QED
  BY <1>1, <1>2

\* An approval in steps: what is confirmed is pending, what is bound is on file.
LEMMA ApprovalStep ==
  ASSUME ExpansionInv, NEW a \in Approver,
         \/ \E i \in Item : ApproveConfirmed(a, i) \/ ApproveDirectly(a, i)
         \/ Bind(a) \/ LoadFails(a)
  PROVE  ExpansionInv'
<1>1. /\ onFile \in [SpecName -> Maybe(Item)]
      /\ approving \in [Approver -> Maybe([item : Item, done : BOOLEAN])]
      /\ bound \subseteq Item \X Item
  BY DEF ExpansionInv, ExpansionTypeOK
<1>2. ASSUME NEW i \in Item, ApproveConfirmed(a, i) \/ ApproveDirectly(a, i) PROVE ExpansionInv'
  <2> DEFINE r == [item |-> i, done |-> FALSE]
  <2>1. r \in [item : Item, done : BOOLEAN] /\ r.item = i
    OBVIOUS
  <2>2. /\ status[i] = "pending" /\ approving' = [approving EXCEPT ![a] = r]
        /\ confirmed' = confirmed \cup {i} /\ asked' \subseteq asked
        /\ UNCHANGED <<flaws, specName, onFile, status, artifacts, builds, bound, turnedDown,
                       expRestarts>>
    BY <1>2 DEF ApproveConfirmed, ApproveDirectly, BeginApproval, Executable
  <2> HIDE DEF r
  <2>3. \A y \in Approver : approving'[y] = IF y = a THEN r ELSE approving[y]
    BY <1>1, <2>2
  <2>4. ExpansionTypeOK'
    BY <2>1, <2>2 DEF ExpansionInv, ExpansionTypeOK, Maybe
  <2>5. ApprovalsFiled'
    BY <2>1, <2>2, <2>3 DEF ExpansionInv, ApprovalsFiled, BuiltIsFiled, Filed
  <2>6. TurnedDownStays'
    BY <2>1, <2>2, <2>3 DEF ExpansionInv, TurnedDownStays
  <2>7. QED
    BY <2>2, <2>4, <2>5, <2>6
       DEF ExpansionInv, CodeOnFile, BuiltIsFiled, BoundWasBuilt, Filed
<1>3. CASE Bind(a)
  <2> DEFINE i == approving[a].item
             j == onFile[specName[i]]
             r == [approving[a] EXCEPT !.done = TRUE]
  <2>1. /\ approving[a] # None /\ bound' = bound \cup {<<i, j>>}
        /\ approving' = [approving EXCEPT ![a] = r]
        /\ UNCHANGED <<flaws, specName, onFile, status, artifacts, builds, asked, confirmed,
                       turnedDown, expRestarts>>
    BY <1>3 DEF Bind
  <2>2. approving[a] \in [item : Item, done : BOOLEAN]
    BY <1>1, <2>1 DEF Maybe
  <2>3. r \in [item : Item, done : BOOLEAN] /\ r.item = i /\ i \in Item
    BY <2>2
  <2>4. i \in confirmed /\ specName[i] \in SpecName /\ j # None
    BY <2>1 DEF ExpansionInv, ApprovalsFiled, Filed
  <2>5. j \in Item /\ flaws[j] = {} /\ status[j] # "none" /\ i \notin turnedDown
    BY <1>1, <2>1, <2>4 DEF ExpansionInv, CodeOnFile, TurnedDownStays, Maybe
  <2> HIDE DEF i, j, r
  <2>6. \A y \in Approver : approving'[y] = IF y = a THEN r ELSE approving[y]
    BY <1>1, <2>1
  <2>7. ExpansionTypeOK'
    BY <2>1, <2>3, <2>5 DEF ExpansionInv, ExpansionTypeOK, Maybe
  <2>8. \A y \in Approver : approving'[y] # None =>
          approving[y] # None /\ approving'[y].item = approving[y].item
    BY <2>1, <2>3, <2>6 DEF i
  <2>9. ApprovalsFiled'
    BY <2>1, <2>8 DEF ExpansionInv, ApprovalsFiled, Filed
  <2>10. \A b \in bound' : b \in bound \/ (b[1] = i /\ b[2] = j)
    BY <2>1
  <2>11. BoundWasBuilt' /\ TurnedDownStays'
    BY <2>1, <2>4, <2>5, <2>8, <2>10 DEF ExpansionInv, BoundWasBuilt, TurnedDownStays
  <2>12. QED
    BY <2>1, <2>7, <2>9, <2>11 DEF ExpansionInv, CodeOnFile, BuiltIsFiled, Filed
<1>4. CASE LoadFails(a)
  <2>1. /\ approving' = [approving EXCEPT ![a] = None]
        /\ UNCHANGED <<flaws, specName, onFile, status, artifacts, builds, asked, bound, confirmed,
                       turnedDown, expRestarts>>
    BY <1>4 DEF LoadFails
  <2>2. \A y \in Approver : approving'[y] # None => approving'[y] = approving[y]
    BY <1>1, <2>1
  <2>3. QED
    BY <2>1, <2>2 DEF ExpansionInv, ExpansionTypeOK, CodeOnFile, BuiltIsFiled, ApprovalsFiled,
                      BoundWasBuilt, TurnedDownStays, Filed, Maybe
<1>5. QED
  BY <1>2, <1>3, <1>4

\* An item that is decided stays filed.
LEMMA DecidedStep ==
  ASSUME ExpansionInv, NEW i \in Item, NEW s \in {"approved", "rejected"},
         status[i] # "none", Filed(i), status' = [status EXCEPT ![i] = s],
         UNCHANGED <<flaws, specName, onFile, artifacts, builds, asked, bound, confirmed, expRestarts>>,
         approving' \in [Approver -> Maybe([item : Item, done : BOOLEAN])],
         \A a \in Approver : approving'[a] # None => approving'[a] = approving[a],
         \/ turnedDown' = turnedDown /\ (s = "approved" => i \notin turnedDown)
         \/ /\ turnedDown' = turnedDown \cup {i} /\ s = "rejected"
            /\ ~\E b \in bound : b[1] = i
            /\ \A a \in Approver : approving'[a] # None => approving'[a].item # i
  PROVE  ExpansionInv'
<1>1. /\ onFile \in [SpecName -> Maybe(Item)] /\ status \in [Item -> Statuses]
      /\ approving \in [Approver -> Maybe([item : Item, done : BOOLEAN])]
      /\ bound \subseteq Item \X Item /\ turnedDown \subseteq Item
  BY DEF ExpansionInv, ExpansionTypeOK
<1>2. \A j \in Item : status'[j] = IF j = i THEN s ELSE status[j]
  BY <1>1
<1>3. ExpansionTypeOK'
  <2>1. status' \in [Item -> Statuses]
    BY <1>1 DEF Statuses
  <2>2. turnedDown' \subseteq Item
    BY <1>1
  <2>3. QED
    BY <2>1, <2>2 DEF ExpansionInv, ExpansionTypeOK
<1>4. CodeOnFile' /\ BuiltIsFiled'
  BY <1>1, <1>2 DEF ExpansionInv, CodeOnFile, BuiltIsFiled, Filed, Maybe
<1>5. ApprovalsFiled'
  BY <1>1, <1>2 DEF ExpansionInv, ApprovalsFiled, Filed, Maybe
<1>6. BoundWasBuilt'
  BY <1>1, <1>2 DEF ExpansionInv, BoundWasBuilt
<1>7. TurnedDownStays'
  BY <1>1, <1>2 DEF ExpansionInv, TurnedDownStays
<1>8. QED
  BY <1>3, <1>4, <1>5, <1>6, <1>7 DEF ExpansionInv

LEMMA DecideStep ==
  ASSUME ExpansionInv,
         \/ \E a \in Approver : FinishApproval(a)
         \/ \E i \in Item : RejectRequest(i) \/ RejectProposal(i)
  PROVE  ExpansionInv'
<1>1. approving \in [Approver -> Maybe([item : Item, done : BOOLEAN])]
  BY DEF ExpansionInv, ExpansionTypeOK
<1>2. ASSUME NEW a \in Approver, FinishApproval(a) PROVE ExpansionInv'
  <2> DEFINE i == approving[a].item
  <2>1. /\ approving[a] # None /\ status' = [status EXCEPT ![i] = "approved"]
        /\ approving' = [approving EXCEPT ![a] = None]
        /\ UNCHANGED <<flaws, specName, onFile, artifacts, builds, asked, bound, confirmed,
                       turnedDown, expRestarts>>
    BY <1>2 DEF FinishApproval
  <2>2. i \in Item /\ status[i] # "none" /\ Filed(i) /\ i \notin turnedDown
    BY <1>1, <2>1 DEF ExpansionInv, ApprovalsFiled, TurnedDownStays, Maybe
  <2>3. /\ approving' \in [Approver -> Maybe([item : Item, done : BOOLEAN])]
        /\ \A y \in Approver : approving'[y] # None => approving'[y] = approving[y]
    BY <1>1, <2>1 DEF Maybe
  <2> HIDE DEF i
  <2>4. QED
    BY <2>1, <2>2, <2>3, DecidedStep
<1>3. ASSUME NEW i \in Item, RejectRequest(i) \/ RejectProposal(i) PROVE ExpansionInv'
  <2>1. status[i] \in {"pending", "approved"} /\ Refuse(i)
    BY <1>3 DEF RejectRequest, RejectProposal
  <2>2. Filed(i) /\ status[i] # "none"
    BY <2>1 DEF ExpansionInv, BuiltIsFiled
  <2>3. QED
    BY <1>1, <2>1, <2>2, DecidedStep DEF Refuse
<1>4. QED
  BY <1>2, <1>3

LEMMA ExpansionRestartStep == ExpansionInv /\ ExpansionRestart => ExpansionInv'
<1> SUFFICES ASSUME ExpansionInv, ExpansionRestart PROVE ExpansionInv'
  OBVIOUS
<1>1. /\ onFile \in [SpecName -> Maybe(Item)] /\ status \in [Item -> Statuses]
      /\ bound \subseteq Item \X Item /\ turnedDown \subseteq Item
      /\ UNCHANGED <<flaws, specName, onFile, bound, confirmed, turnedDown>>
      /\ status' = [i \in Item |-> Reloaded(i)] /\ approving' = [a \in Approver |-> None]
      /\ artifacts' = {} /\ builds' = 0 /\ asked' = {}
  BY DEF ExpansionInv, ExpansionTypeOK, ExpansionRestart
<1>2. \A i \in Item : status'[i] = status[i] \/ (status[i] # "none" /\ status'[i] = "lost")
  BY <1>1 DEF Reloaded
<1>3. ExpansionTypeOK'
  <2>1. expRestarts' \in 0 .. MaxExpRestart /\ builds' \in 0 .. MaxBuildsPerGoal
    BY <1>1, ExpansionBounds DEF ExpansionInv, ExpansionTypeOK, ExpansionRestart
  <2>2. status' \in [Item -> Statuses]
    BY <1>1 DEF Reloaded, Statuses
  <2>3. QED
    BY <1>1, <2>1, <2>2 DEF ExpansionInv, ExpansionTypeOK, Maybe
<1>4. CodeOnFile' /\ BuiltIsFiled'
  BY <1>1, <1>2 DEF ExpansionInv, CodeOnFile, BuiltIsFiled, Filed, Maybe
<1>5. ApprovalsFiled' /\ BoundWasBuilt' /\ TurnedDownStays'
  BY <1>1, <1>2 DEF ExpansionInv, ApprovalsFiled, BoundWasBuilt, TurnedDownStays
<1>6. QED
  BY <1>3, <1>4, <1>5 DEF ExpansionInv

LEMMA ExpansionStep == ExpansionInv /\ [ExpansionNext]_expansionVars => ExpansionInv'
<1> SUFFICES ASSUME ExpansionInv, [ExpansionNext]_expansionVars PROVE ExpansionInv'
  OBVIOUS
<1>1. CASE UNCHANGED expansionVars
  BY <1>1 DEF expansionVars, ExpansionInv, ExpansionTypeOK, CodeOnFile, BuiltIsFiled,
              ApprovalsFiled, BoundWasBuilt, TurnedDownStays, Filed
<1>2. ASSUME NEW i \in Item, NEW n \in SpecName, NEW f \in {{}} \cup {{g} : g \in Gate},
             Build(i, n, f)
      PROVE  ExpansionInv'
  <2>1. f \in SUBSET Gate
    OBVIOUS
  <2>2. QED
    BY <1>2, <2>1, BuildStep
<1>3. QED
  BY <1>1, <1>2, EnteredStep, ApprovalStep, DecideStep, ExpansionRestartStep DEF ExpansionNext

\* What is bound passed every automated gate and was bound for an item that was
\* confirmed: for any number of requests, proposals, names, approving threads and
\* restarts, and though builds of one name replace each other's file.
THEOREM BindingsAreSound == ExpansionSpec => []BoundPassedTheGates
<1>1. ExpansionInv => BoundPassedTheGates
  BY DEF ExpansionInv, BoundWasBuilt, BoundPassedTheGates
<1>2. QED
  BY <1>1, ExpansionInitially, ExpansionStep, PTL DEF ExpansionSpec

\* Nothing is bound for an item whose rejection found it neither bound nor being
\* approved, whatever the threads and the ledger do with it afterwards.
THEOREM RejectionsHold == ExpansionSpec => []RejectionHolds
<1>1. ExpansionInv => RejectionHolds
  BY DEF ExpansionInv, TurnedDownStays, RejectionHolds
<1>2. QED
  BY <1>1, ExpansionInitially, ExpansionStep, PTL DEF ExpansionSpec

-----------------------------------------------------------------------------
(* JoinTrust *)

\* What the host trusts is on file and is accepted by the running TLS server.
TrustKept == trust = trustFile /\ \A j \in Joiner : trust[j] # None => trust[j] \in context

\* A request carries the certificate of the node that made it, and the joiner that
\* knows its id is that node.
RequestsOwn(rs) ==
  \A id \in JoinId : rs[id] # None =>
    /\ rs[id].cert.node = rs[id].node
    /\ \A j \in Joiner : joiner[j].id = id => rs[id].node = j

Trusted(r) == r.cert \in context /\ trust[r.node] # None

RequestsInv ==
  /\ RequestsOwn(requests) /\ RequestsOwn(requestFile)
  /\ \A id \in JoinId : requestFile[id] # None => requestFile[id].status = "pending"
  /\ \A id \in JoinId : requests[id] # None /\ requests[id].status = "approved" => Trusted(requests[id])

GrantingInv ==
  granting # None => /\ requests[granting.id] # None
                     /\ granting.granted => Trusted(requests[granting.id])

JoinersInv ==
  \A j \in Joiner :
    /\ joiner[j].phase = "waiting" => joiner[j].id # None
    /\ joiner[j].phase \in {"approved", "trusting", "joined"} => trust[j] # None
    /\ joiner[j].phase \in {"trusting", "joined"} => joiner[j].trusts
    /\ joiner[j].phase = "joined" => joiner[j].serves

JoinInv == JoinTypeOK /\ TrustKept /\ RequestsInv /\ GrantingInv /\ JoinersInv

LEMMA JoinInitially == JoinInit => JoinInv
BY JoinAssumption, NoRequestAssumption
   DEF JoinInit, JoinInv, JoinTypeOK, TrustKept, RequestsInv, RequestsOwn, GrantingInv,
       JoinersInv, Maybe, JoinerState

RequestStore == [JoinId -> Maybe(PendingJoinRequest)]

\* The same requests, with what has become of them.
SameRequests(new, old) ==
  \A id \in JoinId :
    /\ new[id] = None <=> old[id] = None
    /\ old[id] # None => new[id].node = old[id].node /\ new[id].cert = old[id].cert

LEMMA WithStatus ==
  ASSUME NEW r \in PendingJoinRequest, NEW s \in {"approved", "rejected", "expired"},
         NEW e, e = [r EXCEPT !.status = s]
  PROVE  e \in PendingJoinRequest /\ e # None /\ e.node = r.node /\ e.cert = r.cert /\ e.status = s
<1>1. e \in PendingJoinRequest
  BY DEF PendingJoinRequest
<1>2. QED
  BY <1>1, NoRequestAssumption DEF PendingJoinRequest

LEMMA ExpireKeeps ==
  ASSUME NEW rs \in RequestStore
  PROVE  /\ Expire(rs) \in RequestStore /\ SameRequests(Expire(rs), rs)
         /\ \A id \in JoinId : rs[id] # None =>
              Expire(rs)[id].status = rs[id].status
              \/ (Pending(rs[id]) /\ Expire(rs)[id].status = "expired")
<1>1. ASSUME NEW id \in JoinId
      PROVE  /\ Expire(rs)[id] \in Maybe(PendingJoinRequest) /\ (Expire(rs)[id] = None <=> rs[id] = None)
             /\ rs[id] # None =>
                  /\ Expire(rs)[id].node = rs[id].node /\ Expire(rs)[id].cert = rs[id].cert
                  /\ \/ Expire(rs)[id].status = rs[id].status
                     \/ Pending(rs[id]) /\ Expire(rs)[id].status = "expired"
  <2>1. rs[id] \in Maybe(PendingJoinRequest)
    BY DEF RequestStore
  <2>2. CASE PastTtl(rs[id])
    <3>1. Pending(rs[id]) /\ rs[id] \in PendingJoinRequest /\ rs[id] # None
      BY <2>1, <2>2 DEF PastTtl, Pending, Maybe
    <3>2. Expire(rs)[id] = [rs[id] EXCEPT !.status = "expired"]
      BY <2>2 DEF Expire
    <3>3. QED
      BY <3>1, <3>2, WithStatus DEF Maybe
  <2>3. CASE ~PastTtl(rs[id])
    BY <2>1, <2>3 DEF Expire
  <2>4. QED
    BY <2>2, <2>3
<1>2. Expire(rs) = [id \in JoinId |-> Expire(rs)[id]]
  BY DEF Expire
<1>3. Expire(rs) \in RequestStore
  BY <1>1, <1>2 DEF RequestStore
<1>4. QED
  BY <1>1, <1>3 DEF SameRequests

LEMMA MarkKeeps ==
  ASSUME requests \in RequestStore, NEW id \in JoinId, NEW s \in {"approved", "rejected"}
  PROVE  /\ Mark(id, s) \in RequestStore /\ SameRequests(Mark(id, s), requests)
         /\ \A k \in JoinId : requests[k] # None =>
              Mark(id, s)[k].status \in {requests[k].status, "expired"} \/ (k = id /\ Mark(id, s)[k].status = s)
<1> DEFINE rs == Expire(requests)
<1>1. /\ rs \in RequestStore /\ SameRequests(rs, requests)
      /\ \A k \in JoinId : requests[k] # None => rs[k].status \in {requests[k].status, "expired"}
  BY ExpireKeeps
<1> HIDE DEF rs
<1>2. CASE Pending(rs[id])
  <2>1. rs[id] \in PendingJoinRequest /\ rs[id] # None
    BY <1>1, <1>2 DEF Pending, RequestStore, Maybe
  <2> DEFINE e == [rs[id] EXCEPT !.status = s]
  <2>2. e \in PendingJoinRequest /\ e # None /\ e.node = rs[id].node /\ e.cert = rs[id].cert /\ e.status = s
    <3>1. PICK r \in PendingJoinRequest : r = rs[id]
      BY <2>1
    <3>2. e = [r EXCEPT !.status = s] /\ s \in {"approved", "rejected", "expired"}
      BY <3>1
    <3> HIDE DEF e
    <3>3. QED
      BY <3>1, <3>2, WithStatus
  <2>3. Mark(id, s) = [rs EXCEPT ![id] = e]
    BY <1>2 DEF Mark, rs
  <2> HIDE DEF e
  <2>4. \A k \in JoinId : Mark(id, s)[k] = IF k = id THEN e ELSE rs[k]
    BY <1>1, <2>3 DEF RequestStore
  <2>5. Mark(id, s) \in RequestStore
    BY <1>1, <2>2, <2>3 DEF RequestStore, Maybe
  <2>6. QED
    BY <1>1, <2>1, <2>2, <2>4, <2>5 DEF SameRequests
<1>3. CASE ~Pending(rs[id])
  BY <1>1, <1>3 DEF Mark, rs
<1>4. QED
  BY <1>2, <1>3

LEMMA SavedIsPending ==
  ASSUME NEW rs \in RequestStore
  PROVE  /\ Saved(rs) \in RequestStore
         /\ \A id \in JoinId : Saved(rs)[id] # None => Saved(rs)[id] = rs[id] /\ rs[id].status = "pending"
BY DEF Saved, Pending, RequestStore, Maybe

\* The store follows the requests it has, while the trust stays as it is.
LEMMA StoreKeeps ==
  ASSUME JoinInv, NEW rs \in RequestStore, SameRequests(rs, requests), Store(rs),
         \A id \in JoinId : rs[id] # None /\ rs[id].status = "approved" =>
            requests[id].status = "approved" \/ Trusted(requests[id]),
         \A j \in Joiner : joiner'[j].id = joiner[j].id, UNCHANGED hostTrust
  PROVE  RequestsInv' /\ requests' \in RequestStore /\ requestFile' \in RequestStore
<1>1. requests' = rs /\ requestFile' \in {requestFile, Saved(rs)} /\ trust' = trust /\ context' = context
  BY DEF Store, hostTrust
<1>2. requestFile \in RequestStore
  BY DEF JoinInv, JoinTypeOK, RequestStore
<1>3. requestFile' \in RequestStore
  BY <1>1, <1>2, SavedIsPending
<1>4. RequestsOwn(requests)'
  BY <1>1 DEF JoinInv, RequestsInv, RequestsOwn, SameRequests
<1>5. RequestsOwn(requestFile)'
  BY <1>1, <1>4, SavedIsPending DEF JoinInv, RequestsInv, RequestsOwn
<1>6. \A id \in JoinId : requestFile'[id] # None => requestFile'[id].status = "pending"
  BY <1>1, SavedIsPending DEF JoinInv, RequestsInv
<1>7. \A id \in JoinId : requests'[id] # None /\ requests'[id].status = "approved" => Trusted(requests[id])'
  BY <1>1 DEF JoinInv, RequestsInv, SameRequests, Trusted
<1>8. QED
  BY <1>1, <1>3, <1>4, <1>5, <1>6, <1>7 DEF RequestsInv

\* A joiner goes on by itself.
LEMMA OneJoiner ==
  ASSUME JoinInv, NEW j \in Joiner, NEW s \in JoinerState, joiner' = [joiner EXCEPT ![j] = s],
         s.id \in {joiner[j].id, None},
         s.phase = "waiting" => s.id # None,
         s.phase \in {"approved", "trusting", "joined"} => trust[j] # None,
         s.phase \in {"trusting", "joined"} => s.trusts, s.phase = "joined" => s.serves,
         UNCHANGED <<joinNow, requests, requestFile, hostTrust, granting>>,
         joinRestarts' \in 0 .. MaxJoinRestart, serial' \in [Joiner -> 0 .. MaxReissue]
  PROVE  JoinInv'
<1>1. joiner \in [Joiner -> JoinerState]
  BY DEF JoinInv, JoinTypeOK
<1>2. \A k \in Joiner : joiner'[k] = IF k = j THEN s ELSE joiner[k]
  BY <1>1
<1>3. JoinTypeOK' /\ TrustKept' /\ GrantingInv'
  BY DEF JoinInv, JoinTypeOK, TrustKept, GrantingInv, Trusted, hostTrust
<1>4. JoinersInv'
  BY <1>2 DEF JoinInv, JoinersInv, hostTrust
<1>5. \A k \in Joiner : joiner'[k].id = joiner[k].id \/ joiner'[k].id = None
  BY <1>2
<1>6. RequestsInv'
  BY <1>5, NoRequestAssumption DEF JoinInv, RequestsInv, RequestsOwn, Trusted, hostTrust
<1>7. QED
  BY <1>3, <1>4, <1>6 DEF JoinInv

LEMMA JoinerStep ==
  ASSUME JoinInv, NEW j \in Joiner,
         \/ GiveUpJoin(j) \/ TrustHost(j) \/ CrashInJoin(j) \/ ComposeJoiner(j) \/ Reissue(j)
         \/ \E answered \in BOOLEAN : FinishJoin(j, answered)
  PROVE  JoinInv'
<1> DEFINE r == joiner[j]
<1>1. r \in JoinerState /\ joiner \in [Joiner -> JoinerState]
  BY DEF JoinInv, JoinTypeOK
<1>2. joinRestarts' \in 0 .. MaxJoinRestart
  <2>1. \/ joinRestarts' = joinRestarts
        \/ joinRestarts < MaxJoinRestart /\ joinRestarts' = joinRestarts + 1
    BY DEF GiveUpJoin, TrustHost, CrashInJoin, ComposeJoiner, Reissue, FinishJoin, clocks
  <2>2. QED
    BY <2>1, JoinAssumption DEF JoinInv, JoinTypeOK
<1>3. serial' \in [Joiner -> 0 .. MaxReissue]
  <2>1. \/ serial' = serial
        \/ serial[j] < MaxReissue /\ serial' = [serial EXCEPT ![j] = serial[j] + 1]
    BY DEF GiveUpJoin, TrustHost, CrashInJoin, ComposeJoiner, Reissue, FinishJoin
  <2>2. QED
    BY <2>1, JoinAssumption DEF JoinInv, JoinTypeOK
<1>4. UNCHANGED <<joinNow, requests, requestFile, hostTrust, granting>>
  BY DEF GiveUpJoin, TrustHost, CrashInJoin, ComposeJoiner, Reissue, FinishJoin, clocks
<1>5. /\ r.phase \in {"approved", "trusting", "joined"} => trust[j] # None
      /\ r.phase \in {"trusting", "joined"} => r.trusts
  BY DEF JoinInv, JoinersInv
<1> SUFFICES \E s \in JoinerState :
      /\ joiner' = [joiner EXCEPT ![j] = s] /\ s.id \in {r.id, None}
      /\ s.phase = "waiting" => s.id # None
      /\ s.phase \in {"approved", "trusting", "joined"} => trust[j] # None
      /\ s.phase \in {"trusting", "joined"} => s.trusts
      /\ s.phase = "joined" => s.serves
  BY <1>2, <1>3, <1>4, OneJoiner
<1>6. CASE GiveUpJoin(j)
  <2> DEFINE s == [r EXCEPT !.phase = "failed"]
  <2>1. s \in JoinerState /\ s.id = r.id /\ s.phase = "failed"
    BY <1>1 DEF JoinerState
  <2>2. joiner' = [joiner EXCEPT ![j] = s]
    BY <1>6 DEF GiveUpJoin
  <2> HIDE DEF s
  <2>3. QED
    BY <2>1, <2>2
<1>7. CASE TrustHost(j)
  <2> DEFINE s == [r EXCEPT !.phase = "trusting", !.trusts = TRUE, !.file = "directory"]
  <2>1. s \in JoinerState /\ s.id = r.id /\ s.phase = "trusting" /\ s.trusts
    BY <1>1 DEF JoinerState
  <2>2. joiner' = [joiner EXCEPT ![j] = s] /\ r.phase = "approved"
    BY <1>7 DEF TrustHost
  <2> HIDE DEF s
  <2>3. QED
    BY <1>5, <2>1, <2>2
<1>8. CASE CrashInJoin(j)
  <2> DEFINE s == [r EXCEPT !.phase = "new", !.id = None, !.trusts = TRUE, !.serves = TRUE,
                            !.file = "trust"]
  <2>1. s \in JoinerState /\ s.id = None /\ s.phase = "new"
    BY <1>1 DEF JoinerState, Maybe
  <2>2. joiner' = [joiner EXCEPT ![j] = s]
    BY <1>8 DEF CrashInJoin
  <2> HIDE DEF s
  <2>3. QED
    BY <2>1, <2>2
<1>9. CASE ComposeJoiner(j)
  <2> DEFINE p == IF r.phase = "unusable" \/ r.file = "directory" THEN "unusable" ELSE "new"
             t == r.file = "trust"
             s == [r EXCEPT !.phase = p, !.id = None, !.trusts = t, !.serves = t]
  <2>1. p \in {"unusable", "new"} /\ t \in BOOLEAN
    OBVIOUS
  <2>2. joiner' = [joiner EXCEPT ![j] = s]
    BY <1>1, <1>9 DEF ComposeJoiner, JoinerState
  <2> HIDE DEF p, t
  <2>3. s \in JoinerState /\ s.id = None /\ s.phase = p
    BY <1>1, <2>1 DEF JoinerState, Maybe
  <2> HIDE DEF s
  <2>4. QED
    BY <2>1, <2>2, <2>3
<1>10. CASE Reissue(j)
  <2> DEFINE s == [r EXCEPT !.phase = "new", !.id = None]
  <2>1. s \in JoinerState /\ s.id = None /\ s.phase = "new"
    BY <1>1 DEF JoinerState, Maybe
  <2>2. joiner' = [joiner EXCEPT ![j] = s]
    BY <1>1, <1>10 DEF Reissue
  <2> HIDE DEF s
  <2>3. QED
    BY <2>1, <2>2
<1>11. ASSUME NEW answered \in BOOLEAN, FinishJoin(j, answered)
       PROVE  \E s \in JoinerState :
                /\ joiner' = [joiner EXCEPT ![j] = s] /\ s.id \in {r.id, None}
                /\ s.phase = "waiting" => s.id # None
                /\ s.phase \in {"approved", "trusting", "joined"} => trust[j] # None
                /\ s.phase \in {"trusting", "joined"} => s.trusts
                /\ s.phase = "joined" => s.serves
  <2> DEFINE k == Fetched(r.skills, answered)
             s == [r EXCEPT !.phase = "joined", !.serves = TRUE, !.skills = k]
  <2>1. k \subseteq Skill
    BY <1>1 DEF Fetched, TakeOver, HostSnapshot, JoinerState
  <2>2. joiner' = [joiner EXCEPT ![j] = s] /\ r.phase = "trusting"
    BY <1>1, <1>11 DEF FinishJoin, JoinerState
  <2> HIDE DEF k
  <2>3. s \in JoinerState /\ s.id = r.id /\ s.phase = "joined" /\ s.serves /\ s.trusts = r.trusts
    BY <1>1, <2>1 DEF JoinerState
  <2> HIDE DEF s
  <2>4. QED
    BY <1>5, <2>2, <2>3
<1>12. QED
  BY <1>6, <1>7, <1>8, <1>9, <1>10, <1>11

LEMMA RequestJoinStep ==
  ASSUME JoinInv, NEW j \in Joiner, NEW id \in JoinId, NEW heard \in BOOLEAN,
         RequestJoin(j, id, heard)
  PROVE  JoinInv'
<1> DEFINE c == OwnCert(j)
           q == [node |-> j, cert |-> c, status |-> "pending", at |-> joinNow]
           rs == [requests EXCEPT ![id] = q]
           s == IF heard THEN [joiner[j] EXCEPT !.phase = "waiting", !.id = id]
                         ELSE [joiner[j] EXCEPT !.phase = "failed"]
<1>1. /\ joinNow \in 0 .. MaxJoinNow /\ serial[j] \in 0 .. MaxReissue
      /\ requests \in RequestStore /\ joiner \in [Joiner -> JoinerState]
  BY DEF JoinInv, JoinTypeOK, RequestStore
<1>2. c \in Cert /\ c.node = j
  BY <1>1 DEF Cert, OwnCert
<1> HIDE DEF c
<1>3. q \in PendingJoinRequest /\ q.node = j /\ q.cert = c /\ q.status = "pending"
  BY <1>1, <1>2 DEF PendingJoinRequest
<1>4. q # None /\ id # None
  BY <1>3, NoRequestAssumption
<1>5. /\ requests[id] = None /\ \A k \in Joiner : joiner[k].id # id
      /\ Store(rs) /\ joiner' = [joiner EXCEPT ![j] = s]
      /\ UNCHANGED <<clocks, hostTrust, granting, serial>>
  BY DEF RequestJoin, TakeRequest, Created, c
<1>6. s \in JoinerState /\ s.id \in {joiner[j].id, id} /\ s.phase \in {"waiting", "failed"}
      /\ (s.phase = "waiting" => s.id = id)
  <2>1. joiner[j] \in JoinerState
    BY <1>1
  <2>2. QED
    BY <2>1 DEF JoinerState, Maybe
<1> HIDE DEF q, s
<1>7. rs \in RequestStore /\ \A k \in JoinId : rs[k] = IF k = id THEN q ELSE requests[k]
  BY <1>1, <1>3 DEF RequestStore, Maybe
<1>8. rs # requests
  BY <1>4, <1>5, <1>7
<1> HIDE DEF rs
<1>9. requests' = rs /\ requestFile' = Saved(rs)
  BY <1>5, <1>8 DEF Store
<1>10. /\ Saved(rs) \in RequestStore
       /\ \A k \in JoinId : Saved(rs)[k] # None => Saved(rs)[k] = rs[k] /\ rs[k].status = "pending"
  BY <1>7, SavedIsPending
<1>11. \A k \in Joiner : joiner'[k] = IF k = j THEN s ELSE joiner[k]
  BY <1>1, <1>5
<1>12. JoinTypeOK'
  BY <1>5, <1>6, <1>7, <1>9, <1>10 DEF JoinInv, JoinTypeOK, RequestStore, clocks, hostTrust
<1>13. TrustKept'
  BY <1>5 DEF JoinInv, TrustKept, hostTrust
<1>14. RequestsOwn(requests)'
  BY <1>2, <1>3, <1>5, <1>6, <1>7, <1>9, <1>11 DEF JoinInv, RequestsInv, RequestsOwn
<1>15. RequestsInv'
  BY <1>3, <1>5, <1>7, <1>9, <1>10, <1>14 DEF JoinInv, RequestsInv, RequestsOwn, Trusted, hostTrust
<1>16. GrantingInv'
  <2>1. granting # None => granting.id \in JoinId /\ granting.id # id
    BY <1>5 DEF JoinInv, JoinTypeOK, GrantingInv, Approving, Maybe
  <2>2. QED
    BY <1>5, <1>7, <1>9, <2>1 DEF JoinInv, GrantingInv, Trusted, hostTrust
<1>17. JoinersInv'
  BY <1>4, <1>5, <1>6, <1>11 DEF JoinInv, JoinersInv, hostTrust
<1>18. QED
  BY <1>12, <1>13, <1>15, <1>16, <1>17 DEF JoinInv

\* A request granted before the store moved on is still there.
LEMMA GrantingKept ==
  ASSUME JoinInv, NEW rs \in RequestStore, SameRequests(rs, requests), requests' = rs,
         granting' \in {granting, None}, UNCHANGED hostTrust
  PROVE  GrantingInv'
<1>1. granting # None => granting.id \in JoinId
  BY DEF JoinInv, JoinTypeOK, Approving, Maybe
<1>2. QED
  BY <1>1 DEF JoinInv, GrantingInv, SameRequests, Trusted, hostTrust

LEMMA PollStep ==
  ASSUME JoinInv, NEW j \in Joiner, Poll(j)
  PROVE  JoinInv'
<1> DEFINE rs == Expire(requests)
           answer == StatusAnswer(rs[joiner[j].id])
           p == IF answer = "approved" THEN "approved"
                ELSE IF answer = "rejected" THEN "failed" ELSE joiner[j].phase
           s == [joiner[j] EXCEPT !.phase = p]
<1>1. requests \in RequestStore /\ joiner[j] \in JoinerState /\ joiner \in [Joiner -> JoinerState]
  BY DEF JoinInv, JoinTypeOK, RequestStore
<1>2. /\ rs \in RequestStore /\ SameRequests(rs, requests)
      /\ \A id \in JoinId : requests[id] # None =>
           rs[id].status = requests[id].status \/ rs[id].status = "expired"
  BY <1>1, ExpireKeeps
<1>3. /\ joiner[j].phase = "waiting" /\ Store(rs) /\ joiner' = [joiner EXCEPT ![j] = s]
      /\ UNCHANGED <<clocks, hostTrust, granting, serial>>
  BY DEF Poll
<1>4. joiner[j].id \in JoinId
  BY <1>1, <1>3 DEF JoinInv, JoinersInv, JoinerState, Maybe
<1>5. p = "approved" => trust[j] # None
  <2>1. p = "approved" => answer = "approved"
    BY <1>3
  <2> HIDE DEF rs
  <2>2. answer = "approved" => rs[joiner[j].id] # None /\ rs[joiner[j].id].status = "approved"
    BY DEF StatusAnswer
  <2>3. answer = "approved" =>
          requests[joiner[j].id] # None /\ requests[joiner[j].id].status = "approved"
    BY <1>2, <1>4, <2>2 DEF SameRequests
  <2>4. QED
    BY <1>4, <2>1, <2>3 DEF JoinInv, RequestsInv, RequestsOwn, Trusted
<1>6. p \in {"approved", "failed", "waiting"}
  BY <1>3
<1> HIDE DEF rs, answer, p
<1>7. s \in JoinerState /\ s.id = joiner[j].id /\ s.phase = p
  BY <1>1, <1>6 DEF JoinerState
<1> HIDE DEF s
<1>8. \A k \in Joiner : joiner'[k] = IF k = j THEN s ELSE joiner[k]
  BY <1>1, <1>3
<1>9. \A id \in JoinId : rs[id] # None /\ rs[id].status = "approved" => requests[id].status = "approved"
  BY <1>2 DEF SameRequests
<1>10. RequestsInv' /\ requests' \in RequestStore /\ requestFile' \in RequestStore
  BY <1>2, <1>3, <1>7, <1>8, <1>9, StoreKeeps
<1>11. GrantingInv'
  BY <1>2, <1>3, GrantingKept DEF Store
<1>12. JoinTypeOK' /\ TrustKept'
  BY <1>3, <1>7, <1>10 DEF JoinInv, JoinTypeOK, TrustKept, RequestStore, clocks, hostTrust
<1>13. JoinersInv'
  BY <1>3, <1>4, <1>5, <1>6, <1>7, <1>8, NoRequestAssumption DEF JoinInv, JoinersInv, hostTrust
<1>14. QED
  BY <1>10, <1>11, <1>12, <1>13 DEF JoinInv

\* The host decides requests: the trust stays as it is.
LEMMA DecideRequestStep ==
  ASSUME JoinInv, NEW id \in JoinId, ExecuteApprove(id) \/ RejectPeer(id) \/ MarkApproved
  PROVE  JoinInv'
<1>1. requests \in RequestStore /\ granting \in Maybe(Approving)
  BY DEF JoinInv, JoinTypeOK, RequestStore
<1>2. UNCHANGED <<clocks, hostTrust, serial, joiner>>
  BY DEF ExecuteApprove, RejectPeer, MarkApproved
<1>3. ASSUME NEW rs \in RequestStore, SameRequests(rs, requests), Store(rs),
             \A k \in JoinId : rs[k] # None /\ rs[k].status = "approved" =>
                requests[k].status = "approved" \/ Trusted(requests[k]),
             GrantingInv', granting' \in Maybe(Approving)
      PROVE  JoinInv'
  <2>1. RequestsInv' /\ requests' \in RequestStore /\ requestFile' \in RequestStore
    BY <1>2, <1>3, StoreKeeps
  <2>2. JoinTypeOK' /\ TrustKept' /\ JoinersInv'
    BY <1>2, <1>3, <2>1 DEF JoinInv, JoinTypeOK, TrustKept, JoinersInv, RequestStore, clocks, hostTrust
  <2>3. QED
    BY <1>3, <2>1, <2>2 DEF JoinInv
<1>4. CASE ExecuteApprove(id)
  <2> DEFINE rs == Expire(requests)
             g == [id |-> id, granted |-> FALSE]
  <2>1. /\ rs \in RequestStore /\ SameRequests(rs, requests)
        /\ \A k \in JoinId : requests[k] # None =>
             rs[k].status = requests[k].status \/ rs[k].status = "expired"
    BY <1>1, ExpireKeeps
  <2>2. g \in Approving /\ g.id = id /\ ~g.granted
    BY DEF Approving
  <2> HIDE DEF rs, g
  <2>3. Store(rs) /\ requests[id] # None /\ (granting' = None \/ granting' = g)
    BY <1>4 DEF ExecuteApprove, Pending, rs, g
  <2>4. requests' = rs /\ rs[id] # None
    BY <2>1, <2>3 DEF Store, SameRequests
  <2>5. GrantingInv' /\ granting' \in Maybe(Approving)
    BY <2>2, <2>3, <2>4 DEF GrantingInv, Maybe
  <2>6. \A k \in JoinId : rs[k] # None /\ rs[k].status = "approved" => requests[k].status = "approved"
    BY <2>1 DEF SameRequests
  <2>7. QED
    BY <1>3, <2>1, <2>3, <2>5, <2>6
<1>5. CASE RejectPeer(id)
  <2> DEFINE rs == Mark(id, "rejected")
  <2>1. /\ rs \in RequestStore /\ SameRequests(rs, requests)
        /\ \A k \in JoinId : requests[k] # None => rs[k].status \in {requests[k].status, "expired", "rejected"}
    BY <1>1, MarkKeeps
  <2>2. Store(rs) /\ granting' = granting
    BY <1>5 DEF RejectPeer
  <2> HIDE DEF rs
  <2>3. GrantingInv' /\ granting' \in Maybe(Approving)
    BY <1>1, <1>2, <2>1, <2>2, GrantingKept DEF Store
  <2>4. \A k \in JoinId : rs[k] # None /\ rs[k].status = "approved" => requests[k].status = "approved"
    BY <2>1 DEF SameRequests
  <2>5. QED
    BY <1>3, <2>1, <2>2, <2>3, <2>4
<1>6. CASE MarkApproved
  <2> DEFINE g == granting.id
             rs == Mark(g, "approved")
  <2>1. granting # None /\ granting.granted /\ Store(rs) /\ granting' = None
    BY <1>6 DEF MarkApproved, MayMark
  <2>2. g \in JoinId /\ Trusted(requests[g])
    BY <1>1, <2>1 DEF JoinInv, GrantingInv, Approving, Maybe
  <2>3. /\ rs \in RequestStore /\ SameRequests(rs, requests)
        /\ \A k \in JoinId : requests[k] # None =>
             rs[k].status \in {requests[k].status, "expired"} \/ k = g
    BY <1>1, <2>2, MarkKeeps
  <2> HIDE DEF rs, g
  <2>4. GrantingInv' /\ granting' \in Maybe(Approving)
    BY <2>1 DEF GrantingInv, Maybe
  <2>5. \A k \in JoinId : rs[k] # None /\ rs[k].status = "approved" =>
          requests[k].status = "approved" \/ Trusted(requests[k])
    BY <2>2, <2>3 DEF SameRequests
  <2>6. QED
    BY <1>3, <2>1, <2>3, <2>4, <2>5
<1>7. QED
  BY <1>4, <1>5, <1>6

LEMMA GrantTrustStep == JoinInv /\ GrantTrust => JoinInv'
<1> SUFFICES ASSUME JoinInv, GrantTrust PROVE JoinInv'
  OBVIOUS
<1> DEFINE r == requests[granting.id]
           c == r.cert
           t == [trust EXCEPT ![c.node] = c]
           g == [granting EXCEPT !.granted = TRUE]
<1>1. /\ granting # None /\ trust' = t /\ trustFile' = t /\ context' = context \cup CertsOf(t)
      /\ granting' = g /\ UNCHANGED <<clocks, requests, requestFile, serial, joiner>>
  BY DEF GrantTrust, KeepTrust
<1>2. granting \in Approving /\ r # None /\ trust \in [Joiner -> Maybe(Cert)] /\ context \subseteq Cert
  BY <1>1 DEF JoinInv, JoinTypeOK, GrantingInv, Maybe
<1>3. g \in Approving /\ g.id = granting.id /\ granting.id \in JoinId
  BY <1>2 DEF Approving
<1>4. r \in PendingJoinRequest
  BY <1>2, <1>3 DEF JoinInv, JoinTypeOK, Maybe
<1>5. c \in Cert /\ c.node \in Joiner /\ c # None /\ c.node = r.node
  <2>1. c \in Cert /\ c.node = r.node
    BY <1>2, <1>3, <1>4 DEF PendingJoinRequest, JoinInv, RequestsInv, RequestsOwn
  <2>2. QED
    BY <2>1, NoRequestAssumption DEF Cert
<1> HIDE DEF c, r, g
<1>6. t \in [Joiner -> Maybe(Cert)] /\ \A j \in Joiner : t[j] = IF j = c.node THEN c ELSE trust[j]
  BY <1>2, <1>5 DEF Maybe
<1> HIDE DEF t
<1>7. /\ \A j \in Joiner : t[j] # None => t[j] \in CertsOf(t)
      /\ CertsOf(t) \subseteq Cert
  BY <1>6 DEF CertsOf, Maybe
<1>8. JoinTypeOK' /\ TrustKept'
  BY <1>1, <1>2, <1>3, <1>6, <1>7 DEF JoinInv, JoinTypeOK, TrustKept, clocks, Maybe
<1>10. RequestsInv'
  <2>1. \A id \in JoinId : requests[id] # None => requests[id].node \in Joiner
    BY DEF JoinInv, JoinTypeOK, PendingJoinRequest, Maybe
  <2>2. \A id \in JoinId : requests[id] # None /\ requests[id].status = "approved" =>
          requests[id].cert \in context' /\ trust'[requests[id].node] # None
    BY <1>1, <1>5, <1>6, <2>1 DEF JoinInv, RequestsInv, Trusted
  <2>3. QED
    BY <1>1, <2>2 DEF JoinInv, RequestsInv, RequestsOwn, Trusted
<1>11. GrantingInv'
  <2>1. c \in context' /\ trust'[r.node] # None
    BY <1>1, <1>5, <1>6, <1>7
  <2>2. QED
    BY <1>1, <1>2, <1>3, <2>1 DEF GrantingInv, Trusted, r, c
<1>12. JoinersInv'
  BY <1>1, <1>5, <1>6 DEF JoinInv, JoinersInv
<1>13. QED
  BY <1>8, <1>10, <1>11, <1>12 DEF JoinInv

\* The host starts again from its files.
LEMMA ComposeHostStep == JoinInv /\ ComposeHost => JoinInv'
<1> SUFFICES ASSUME JoinInv, ComposeHost PROVE JoinInv'
  OBVIOUS
<1> DEFINE rs == Expire(requestFile)
<1>1. /\ requestFile \in RequestStore /\ trust \in [Joiner -> Maybe(Cert)] /\ trust = trustFile
      /\ joinRestarts \in 0 .. MaxJoinRestart
  BY DEF JoinInv, JoinTypeOK, TrustKept, RequestStore
<1>2. /\ rs \in RequestStore /\ SameRequests(rs, requestFile)
      /\ \A id \in JoinId : requestFile[id] # None =>
           rs[id].status = requestFile[id].status \/ rs[id].status = "expired"
  BY <1>1, ExpireKeeps
<1>3. /\ requests' = rs /\ requestFile' = Saved(rs) /\ trust' = trust /\ trustFile' = trustFile
      /\ context' = CertsOf(trust) /\ granting' = None /\ UNCHANGED <<joinNow, serial, joiner>>
      /\ joinRestarts < MaxJoinRestart /\ joinRestarts' = joinRestarts + 1
  BY <1>1 DEF ComposeHost, LoadRequests
<1> HIDE DEF rs
<1>4. /\ Saved(rs) \in RequestStore
      /\ \A k \in JoinId : Saved(rs)[k] # None => Saved(rs)[k] = rs[k] /\ rs[k].status = "pending"
  BY <1>2, SavedIsPending
<1>5. /\ \A j \in Joiner : trust[j] # None => trust[j] \in CertsOf(trust)
      /\ CertsOf(trust) \subseteq Cert
  BY <1>1 DEF CertsOf, Maybe
<1>6. joinRestarts' \in 0 .. MaxJoinRestart
  BY <1>1, <1>3, JoinAssumption
<1>7. JoinTypeOK' /\ TrustKept'
  BY <1>1, <1>2, <1>3, <1>4, <1>5, <1>6 DEF JoinInv, JoinTypeOK, TrustKept, RequestStore, Maybe
<1>8. RequestsOwn(requests)'
  BY <1>2, <1>3 DEF JoinInv, RequestsInv, RequestsOwn, SameRequests
<1>9. \A id \in JoinId : rs[id] # None => rs[id].status # "approved"
  BY <1>2 DEF JoinInv, RequestsInv, SameRequests
<1>10. RequestsInv'
  BY <1>3, <1>4, <1>8, <1>9 DEF RequestsInv, RequestsOwn
<1>11. GrantingInv' /\ JoinersInv'
  BY <1>3 DEF JoinInv, GrantingInv, JoinersInv
<1>12. QED
  BY <1>7, <1>10, <1>11 DEF JoinInv

LEMMA JoinStep == JoinInv /\ [JoinNext]_joinVars => JoinInv'
<1> SUFFICES ASSUME JoinInv, [JoinNext]_joinVars PROVE JoinInv'
  OBVIOUS
<1>1. CASE JoinTick \/ UNCHANGED joinVars
  <2>1. UNCHANGED <<joinRestarts, requests, requestFile, trust, trustFile, context, granting,
                    serial, joiner>>
    BY <1>1 DEF JoinTick, joinVars, hostTrust
  <2>2. joinNow' \in 0 .. MaxJoinNow
    BY <1>1, JoinAssumption DEF JoinTick, joinVars, JoinInv, JoinTypeOK
  <2>3. QED
    BY <2>1, <2>2 DEF JoinInv, JoinTypeOK, TrustKept, RequestsInv, RequestsOwn, GrantingInv,
                      JoinersInv, Trusted
<1>2. CASE MarkApproved
  <2>1. granting \in Approving
    BY <1>2 DEF MarkApproved, MayMark, JoinInv, JoinTypeOK, Maybe
  <2>2. PICK id \in JoinId : TRUE
    BY <2>1 DEF Approving
  <2>3. QED
    BY <1>2, DecideRequestStep
<1>3. QED
  BY <1>1, <1>2, DecideRequestStep, RequestJoinStep, PollStep, JoinerStep, GrantTrustStep,
     ComposeHostStep DEF JoinNext

\* A poller that reads "approved" finds a TLS server that accepts its certificate,
\* whatever expires between the steps of _execute_approve and however often the
\* host restarts.
THEOREM ApprovalsAreTrusted == JoinSpec => []ApprovedMeansTrusted
<1>1. JoinInv => ApprovedMeansTrusted
  BY DEF JoinInv, TrustKept, RequestsInv, JoinersInv, Trusted, ApprovedMeansTrusted
<1>2. QED
  BY <1>1, JoinInitially, JoinStep, PTL DEF JoinSpec

\* A join that is through is mutual and outlives restarts of the host: for any
\* number of joiners, requests, restarts and certificates made anew.
THEOREM JoinsAreMutual == JoinSpec => []JoinIsMutual
<1>1. JoinInv => JoinIsMutual
  BY DEF JoinInv, TrustKept, RequestsInv, JoinersInv, Trusted, JoinIsMutual
<1>2. QED
  BY <1>1, JoinInitially, JoinStep, PTL DEF JoinSpec

-----------------------------------------------------------------------------
(* AuditChain *)

Numbered(e) == e.seq < e.hash /\ e.hash <= drafts

\* A line written without interference continues the line before it, and so the lines
\* up to the first that was overtaken are numbered from 0; one that was overtaken does not.
ChainLines ==
  \A i \in 1 .. Len(chain) :
    /\ Numbered(chain[i])
    /\ chain[i].hash \in overtaken => i # 1 /\ chain[i].prev # chain[i - 1].hash
    /\ chain[i].hash \notin overtaken => chain[i].prev = IF i = 1 THEN Genesis ELSE chain[i - 1].hash
    /\ (\A j \in 1 .. i : chain[j].hash \notin overtaken) => chain[i].seq = i - 1

\* A draft has a hash of its own; it continues the last line unless it was overtaken.
DraftHashes ==
  \A w \in Writer : drafting[w] # None =>
    /\ Numbered(drafting[w])
    /\ \A i \in 1 .. Len(chain) : chain[i].hash # drafting[w].hash
    /\ \A v \in Writer : drafting[v] # None /\ drafting[v].hash = drafting[w].hash => v = w
    /\ drafting[w].prev = Genesis \/ \E i \in 1 .. Len(chain) : drafting[w].prev = chain[i].hash

DraftLines ==
  \A w \in Writer : drafting[w] # None =>
    IF drafting[w].hash \in overtaken
    THEN Len(chain) # 0 /\ drafting[w].prev # chain[Len(chain)].hash
    ELSE /\ drafting[w].prev = IF Len(chain) = 0 THEN Genesis ELSE chain[Len(chain)].hash
         /\ drafting[w].seq = IF Len(chain) = 0 THEN 0 ELSE chain[Len(chain)].seq + 1

\* The lines have a first one that was overtaken, if any was.
FirstOvertaken ==
  \/ \A i \in 1 .. Len(chain) : chain[i].hash \notin overtaken
  \/ \E i \in 1 .. Len(chain) : /\ chain[i].hash \in overtaken
                                /\ \A j \in 1 .. i - 1 : chain[j].hash \notin overtaken

AuditInv == /\ AuditTypeOK /\ ChainLines /\ DraftHashes /\ DraftLines /\ FirstOvertaken
            /\ \A h \in overtaken : h <= drafts

LEMMA AuditInitially == AuditInit => AuditInv
<1> SUFFICES ASSUME AuditInit PROVE AuditInv
  OBVIOUS
<1>1. chain = <<>> /\ Len(chain) = 0 /\ drafts = 0 /\ overtaken = {} /\ torn = FALSE
      /\ drafting = [w \in Writer |-> None]
  BY DEF AuditInit
<1>2. AuditTypeOK
  <2>1. chain \in Seq(AuditEntry)
    BY <1>1, EmptySeq
  <2>2. drafting \in [Writer -> Maybe(AuditEntry)] /\ torn \in BOOLEAN
    BY <1>1 DEF Maybe
  <2>3. drafts \in 0 .. MaxDrafts /\ overtaken \subseteq 1 .. MaxDrafts
    BY <1>1, DraftAssumption
  <2>4. QED
    BY <2>1, <2>2, <2>3 DEF AuditTypeOK
<1>3. ChainLines /\ DraftHashes /\ DraftLines /\ FirstOvertaken
  BY <1>1 DEF ChainLines, DraftHashes, DraftLines, FirstOvertaken
<1>4. QED
  BY <1>1, <1>2, <1>3 DEF AuditInv

LEMMA DraftStep ==
  ASSUME AuditInv, NEW w \in Writer, Draft(w)
  PROVE  AuditInv'
<1> DEFINE L == Len(chain)
           e == Successor(LastEntry, drafts + 1)
<1>1. /\ chain \in Seq(AuditEntry) /\ drafting \in [Writer -> Maybe(AuditEntry)]
      /\ drafts \in 0 .. MaxDrafts /\ overtaken \subseteq 1 .. MaxDrafts /\ torn \in BOOLEAN
  BY DEF AuditInv, AuditTypeOK
<1>2. /\ drafting[w] = None /\ drafts < MaxDrafts /\ drafts' = drafts + 1
      /\ drafting' = [drafting EXCEPT ![w] = e] /\ UNCHANGED <<chain, torn, overtaken>>
  BY DEF Draft
<1>3. L \in Nat /\ \A i \in 1 .. L : chain[i] \in AuditEntry
  BY <1>1
<1>4. LastEntry = IF L = 0 THEN None ELSE chain[L]
  BY <1>1, EmptySeq DEF LastEntry
<1>5. L # 0 => LastEntry # None
  BY <1>3, <1>4, NoEntryAssumption
<1>6. /\ e.hash = drafts + 1
      /\ e.prev = IF L = 0 THEN Genesis ELSE chain[L].hash
      /\ e.seq = IF L = 0 THEN 0 ELSE chain[L].seq + 1
      /\ e = [seq |-> e.seq, prev |-> e.prev, hash |-> e.hash]
  BY <1>4, <1>5 DEF Successor
<1>7. L # 0 => chain[L].seq < chain[L].hash /\ chain[L].hash <= drafts
  BY <1>3 DEF AuditInv, ChainLines, Numbered
<1> HIDE DEF e
<1>8. e.seq \in 0 .. MaxDrafts /\ e.prev \in 0 .. MaxDrafts /\ e.hash \in 1 .. MaxDrafts
      /\ e.seq < e.hash
  <2>1. CASE L = 0
    BY <1>1, <1>2, <1>6, <2>1, DraftAssumption DEF Genesis
  <2>2. CASE L # 0
    <3>1. chain[L].seq \in 0 .. MaxDrafts /\ chain[L].hash \in 1 .. MaxDrafts
      BY <1>3, <2>2 DEF AuditEntry
    <3>2. e.seq = chain[L].seq + 1 /\ e.prev = chain[L].hash /\ e.hash = drafts + 1
      BY <1>6, <2>2
    <3>3. QED
      BY <1>1, <1>2, <1>7, <2>2, <3>1, <3>2, DraftAssumption
  <2>3. QED
    BY <2>1, <2>2
<1>9. e \in AuditEntry /\ e # None
  <2>1. e \in AuditEntry
    BY <1>6, <1>8 DEF AuditEntry
  <2>2. QED
    BY <2>1, NoEntryAssumption
<1>10. \A v \in Writer : drafting'[v] = IF v = w THEN e ELSE drafting[v]
  BY <1>1, <1>2
<1>11. \A v \in Writer : drafting[v] # None => drafting[v] \in AuditEntry
  BY <1>1 DEF Maybe
<1>12. AuditTypeOK'
  BY <1>1, <1>2, <1>9, DraftAssumption DEF AuditTypeOK, Maybe
<1>13. \A x \in AuditEntry : Numbered(x) => Numbered(x)' /\ x.hash # e.hash
  BY <1>1, <1>2, <1>6 DEF Numbered, AuditEntry
<1>14. ChainLines'
  <2>1. \A i \in 1 .. L : Numbered(chain[i]) /\ Numbered(chain[i])'
    BY <1>1, <1>2, <1>3 DEF Numbered, AuditEntry, AuditInv, ChainLines
  <2>2. QED
    BY <1>2, <2>1 DEF AuditInv, ChainLines
<1>15. DraftHashes'
  <2>1. \A i \in 1 .. L : chain[i].hash # e.hash
    BY <1>3, <1>13 DEF AuditInv, ChainLines
  <2>2. \A v \in Writer : drafting[v] # None => drafting[v].hash # e.hash
    BY <1>11, <1>13 DEF AuditInv, DraftHashes
  <2>3. \A v \in Writer : drafting'[v] # None => Numbered(drafting[v])'
    BY <1>1, <1>2, <1>6, <1>8, <1>10, <1>11 DEF Numbered, AuditEntry, AuditInv, DraftHashes
  <2>4. e.prev = Genesis \/ \E i \in 1 .. L : e.prev = chain[i].hash
    BY <1>3, <1>6
  <2>5. QED
    BY <1>2, <1>10, <2>1, <2>2, <2>3, <2>4 DEF AuditInv, DraftHashes
<1>16. e.hash \notin overtaken
  BY <1>1, <1>6 DEF AuditInv
<1>17. DraftLines'
  BY <1>2, <1>6, <1>10, <1>16 DEF AuditInv, DraftLines
<1>18. FirstOvertaken' /\ \A h \in overtaken' : h <= drafts'
  BY <1>1, <1>2 DEF AuditInv, FirstOvertaken
<1>19. QED
  BY <1>12, <1>14, <1>15, <1>17, <1>18 DEF AuditInv

LEMMA WriteLineStep ==
  ASSUME AuditInv, NEW w \in Writer, WriteLine(w)
  PROVE  AuditInv'
<1> DEFINE L == Len(chain)
           e == drafting[w]
           late == {drafting[v].hash : v \in {u \in Writer \ {w} : drafting[u] # None}}
<1>1. /\ chain \in Seq(AuditEntry) /\ drafting \in [Writer -> Maybe(AuditEntry)]
      /\ drafts \in 0 .. MaxDrafts /\ overtaken \subseteq 1 .. MaxDrafts /\ torn \in BOOLEAN
  BY DEF AuditInv, AuditTypeOK
<1>2. /\ e # None /\ chain' = Append(chain, e) /\ drafting' = [drafting EXCEPT ![w] = None]
      /\ overtaken' = overtaken \cup late /\ UNCHANGED <<torn, drafts>>
  BY DEF WriteLine
<1>3. /\ L \in Nat /\ e \in AuditEntry /\ \A i \in 1 .. L : chain[i] \in AuditEntry
      /\ \A v \in Writer : drafting[v] # None => drafting[v] \in AuditEntry
  BY <1>1, <1>2 DEF Maybe
<1>4. /\ chain' \in Seq(AuditEntry) /\ Len(chain') = L + 1 /\ chain'[L + 1] = e
      /\ \A i \in 1 .. L : chain'[i] = chain[i]
  BY <1>1, <1>2, <1>3
<1>5. \A v \in Writer : drafting'[v] # None => v # w /\ drafting'[v] = drafting[v]
  BY <1>1, <1>2
<1>6. \A h \in late : \E v \in Writer : v # w /\ drafting[v] # None /\ h = drafting[v].hash
  OBVIOUS
<1>7. \A v \in Writer : v # w /\ drafting[v] # None => drafting[v].hash \in late
  OBVIOUS
<1> HIDE DEF late
<1>8. e.hash \notin late /\ \A i \in 1 .. L : chain[i].hash \notin late
  BY <1>2, <1>6 DEF AuditInv, DraftHashes
<1>9. \A i \in 1 .. L + 1 : chain'[i].hash \in overtaken' <=> chain'[i].hash \in overtaken
  BY <1>2, <1>3, <1>4, <1>8
<1>10. AuditTypeOK'
  <2>1. late \subseteq 1 .. MaxDrafts
    BY <1>3, <1>6 DEF AuditEntry
  <2>2. QED
    BY <1>1, <1>2, <1>4, <2>1 DEF AuditTypeOK, Maybe
<1>11. \A h \in overtaken' : h <= drafts'
  BY <1>2, <1>6 DEF AuditInv, DraftHashes, Numbered
<1> HIDE DEF e
<1>12. Numbered(e) /\ (e.prev = Genesis \/ \E i \in 1 .. L : e.prev = chain[i].hash)
       /\ \A i \in 1 .. L : chain[i].hash # e.hash
  BY <1>2 DEF AuditInv, DraftHashes, e
<1>13. ChainLines'
  <2> SUFFICES ASSUME NEW i \in 1 .. L + 1
               PROVE  /\ Numbered(chain'[i])
                      /\ chain'[i].hash \in overtaken => i # 1 /\ chain'[i].prev # chain'[i - 1].hash
                      /\ chain'[i].hash \notin overtaken =>
                           chain'[i].prev = IF i = 1 THEN Genesis ELSE chain'[i - 1].hash
                      /\ (\A j \in 1 .. i : chain'[j].hash \notin overtaken) => chain'[i].seq = i - 1
    <3>1. \A i \in 1 .. L + 1 : Numbered(chain'[i]) => Numbered(chain[i])'
      BY <1>2 DEF Numbered
    <3>2. \A i \in 1 .. L + 1 : \A j \in 1 .. i :
            chain'[j].hash \in overtaken' <=> chain'[j].hash \in overtaken
      BY <1>3, <1>9
    <3>3. QED
      BY <1>4, <1>9, <3>1, <3>2 DEF ChainLines
  <2>1. CASE i \in 1 .. L
    <3>1. chain'[i] = chain[i] /\ (i # 1 => chain'[i - 1] = chain[i - 1])
          /\ \A j \in 1 .. i : chain'[j] = chain[j]
      BY <1>3, <1>4, <2>1
    <3>2. QED
      BY <2>1, <3>1 DEF AuditInv, ChainLines
  <2>2. CASE i = L + 1
    <3>1. chain'[i] = e /\ (i # 1 => chain'[i - 1] = chain[L]) /\ (i = 1 <=> L = 0)
      BY <1>3, <1>4, <2>2
    <3>2. e.hash \in overtaken => L # 0 /\ e.prev # chain[L].hash
      BY <1>2 DEF AuditInv, DraftLines, e
    <3>3. e.hash \notin overtaken => /\ e.prev = IF L = 0 THEN Genesis ELSE chain[L].hash
                                     /\ e.seq = IF L = 0 THEN 0 ELSE chain[L].seq + 1
      BY <1>2 DEF AuditInv, DraftLines, e
    <3>4. ASSUME \A j \in 1 .. i : chain'[j].hash \notin overtaken PROVE chain'[i].seq = i - 1
      <4>1. e.hash \notin overtaken /\ \A j \in 1 .. L : chain[j].hash \notin overtaken
        BY <1>3, <1>4, <2>2, <3>1, <3>4
      <4>2. L # 0 => chain[L].seq = L - 1
        BY <1>3, <4>1 DEF AuditInv, ChainLines
      <4>3. QED
        BY <1>3, <2>2, <3>1, <3>3, <4>1, <4>2
    <3>5. QED
      BY <1>12, <3>1, <3>2, <3>3, <3>4
  <2>3. QED
    BY <1>3, <2>1, <2>2
<1>14. DraftHashes'
  <2> SUFFICES ASSUME NEW v \in Writer, drafting'[v] # None
               PROVE  /\ Numbered(drafting[v])
                      /\ \A i \in 1 .. L + 1 : chain'[i].hash # drafting[v].hash
                      /\ \A u \in Writer : drafting[u] # None /\ drafting[u].hash = drafting[v].hash => u = v
                      /\ \/ drafting[v].prev = Genesis
                         \/ \E i \in 1 .. L + 1 : drafting[v].prev = chain'[i].hash
    BY <1>2, <1>4, <1>5 DEF DraftHashes, Numbered
  <2>1. v # w /\ drafting[v] # None
    BY <1>5
  <2>2. Numbered(drafting[v]) /\ (\A i \in 1 .. L : chain[i].hash # drafting[v].hash)
        /\ (\A u \in Writer : drafting[u] # None /\ drafting[u].hash = drafting[v].hash => u = v)
        /\ (drafting[v].prev = Genesis \/ \E i \in 1 .. L : drafting[v].prev = chain[i].hash)
    BY <2>1 DEF AuditInv, DraftHashes
  <2>3. e.hash # drafting[v].hash
    BY <1>2, <2>1, <2>2 DEF e
  <2>4. \A i \in 1 .. L + 1 : i \in 1 .. L \/ i = L + 1
    BY <1>3
  <2>5. 1 .. L \subseteq 1 .. L + 1
    BY <1>3
  <2>6. QED
    BY <1>4, <2>2, <2>3, <2>4, <2>5
<1>15. DraftLines'
  <2> SUFFICES ASSUME NEW v \in Writer, drafting'[v] # None
               PROVE  drafting[v].hash \in overtaken' /\ L + 1 # 0 /\ drafting[v].prev # e.hash
    BY <1>4, <1>5 DEF DraftLines
  <2>1. v # w /\ drafting[v] # None
    BY <1>5
  <2>2. drafting[v].prev = Genesis \/ \E i \in 1 .. L : drafting[v].prev = chain[i].hash
    BY <2>1 DEF AuditInv, DraftHashes
  <2>3. e.hash # Genesis
    BY <1>3 DEF AuditEntry, Genesis, e
  <2>4. QED
    BY <1>2, <1>3, <1>7, <1>12, <2>1, <2>2, <2>3
<1>16. FirstOvertaken'
  <2>1. CASE \A i \in 1 .. L : chain[i].hash \notin overtaken
    <3>1. CASE e.hash \notin overtaken
      <4>1. \A i \in 1 .. L + 1 : chain'[i].hash \notin overtaken'
        BY <1>3, <1>4, <1>9, <2>1, <3>1
      <4>2. QED
        BY <1>4, <4>1 DEF FirstOvertaken
    <3>2. CASE e.hash \in overtaken
      <4>1. L + 1 \in 1 .. L + 1 /\ chain'[L + 1].hash \in overtaken' /\ (L + 1) - 1 = L
        BY <1>2, <1>3, <1>4, <3>2
      <4>2. \A j \in 1 .. L : chain'[j].hash \notin overtaken'
        BY <1>2, <1>3, <1>4, <1>8, <2>1
      <4>3. QED
        BY <1>4, <4>1, <4>2 DEF FirstOvertaken
    <3>3. QED
      BY <3>1, <3>2
  <2>2. ASSUME NEW i \in 1 .. L, chain[i].hash \in overtaken,
               \A j \in 1 .. i - 1 : chain[j].hash \notin overtaken
        PROVE  FirstOvertaken'
    <3>1. i \in 1 .. L + 1 /\ chain'[i].hash \in overtaken'
      BY <1>2, <1>3, <1>4, <2>2
    <3>2. \A j \in 1 .. i - 1 : j \in 1 .. L /\ chain'[j].hash \notin overtaken'
      BY <1>2, <1>3, <1>4, <1>8, <2>2
    <3>3. QED
      BY <1>4, <3>1, <3>2 DEF FirstOvertaken
  <2>3. QED
    BY <2>1, <2>2 DEF AuditInv, FirstOvertaken
<1>17. QED
  BY <1>10, <1>11, <1>13, <1>14, <1>15, <1>16 DEF AuditInv

LEMMA AuditStep == AuditInv /\ [AuditNext]_auditVars => AuditInv'
<1> SUFFICES ASSUME AuditInv, [AuditNext]_auditVars PROVE AuditInv'
  OBVIOUS
<1>1. CASE AuditCrash \/ UNCHANGED auditVars
  <2>1. /\ UNCHANGED <<chain, drafts, overtaken>> /\ torn' \in BOOLEAN
        /\ drafting' = drafting \/ drafting' = [w \in Writer |-> None]
    BY <1>1 DEF AuditCrash, auditVars, AuditInv, AuditTypeOK
  <2>2. \A w \in Writer : drafting'[w] # None => drafting'[w] = drafting[w]
    BY <2>1
  <2>3. AuditTypeOK' /\ ChainLines' /\ FirstOvertaken' /\ \A h \in overtaken' : h <= drafts'
    BY <2>1 DEF AuditInv, AuditTypeOK, ChainLines, FirstOvertaken, Numbered, Maybe
  <2>4. DraftHashes' /\ DraftLines'
    BY <2>1, <2>2 DEF AuditInv, DraftHashes, DraftLines, Numbered
  <2>5. QED
    BY <2>3, <2>4 DEF AuditInv
<1>2. QED
  BY <1>1, DraftStep, WriteLineStep DEF AuditNext

(* verify_chain stops at the first line whose append was overtaken between its read of the
   last line and its write; when there is none it returns True, or fails at the torn part a
   crash left: for any number of appending threads and entries, and crashes between them. *)
THEOREM ChainBreaksAtTheOvertaken == AuditSpec => []VerifyBlamesTheOvertaken
<1>1. ASSUME AuditInv PROVE VerifyBlamesTheOvertaken
  <2> DEFINE L == Len(chain)
             Late(i) == chain[i].hash \in overtaken
             First(i) == Late(i) /\ \A j \in 1 .. i - 1 : ~Late(j)
             Stops(i) == ~Verified(i) /\ \A j \in 1 .. i - 1 : Verified(j)
  <2>1. chain \in Seq(AuditEntry) /\ L \in Nat /\ DOMAIN chain = 1 .. L
    BY <1>1 DEF AuditInv, AuditTypeOK
  <2>2. \A i \in 1 .. L : Late(i) => ~Verified(i)
    BY <1>1, <2>1 DEF AuditInv, ChainLines, Verified
  <2>3. \A i \in 1 .. L : (\A j \in 1 .. i : ~Late(j)) => Verified(i)
    <3> SUFFICES ASSUME NEW i \in 1 .. L, \A j \in 1 .. i : ~Late(j) PROVE Verified(i)
      OBVIOUS
    <3>1. ~Late(i)
      BY <2>1
    <3>2. QED
      BY <1>1, <3>1 DEF AuditInv, ChainLines, Verified
  <2>4. \A i \in 1 .. L : Stops(i) <=> First(i)
    <3> HIDE DEF Late
    <3> SUFFICES ASSUME NEW i \in 1 .. L PROVE Stops(i) <=> First(i)
      OBVIOUS
    <3>1. /\ \A j \in 1 .. i - 1 : j \in 1 .. L /\ \A k \in 1 .. j : k \in 1 .. i - 1
          /\ \A j \in 1 .. i : j \in 1 .. i - 1 \/ j = i
      BY <2>1
    <3>2. QED
      BY <2>2, <2>3, <3>1
  <2>5. \A i, k \in 1 .. L : First(i) /\ First(k) => i = k
    <3> HIDE DEF Late
    <3>1. \A i, k \in 1 .. L : i = k \/ i \in 1 .. k - 1 \/ k \in 1 .. i - 1
      BY <2>1
    <3>2. QED
      BY <3>1
  <2>6. (\A i \in 1 .. L : ~Late(i)) \/ \E i \in 1 .. L : First(i)
    BY <1>1 DEF AuditInv, FirstOvertaken
  <2>7. CASE \A i \in 1 .. L : ~Late(i)
    <3>1. \A i \in 1 .. L : Verified(i)
      <4> HIDE DEF Late
      <4>1. \A i \in 1 .. L : \A j \in 1 .. i : j \in 1 .. L
        BY <2>1
      <4>2. QED
        BY <2>3, <2>7, <4>1
    <3>2. QED
      BY <2>1, <2>7, <3>1 DEF VerifyBlamesTheOvertaken, VerifyStopsAt
  <2>8. CASE \E i \in 1 .. L : First(i)
    <3>1. (\E i \in 1 .. L : Late(i)) /\ \E i \in 1 .. L : ~Verified(i)
      BY <2>2, <2>8
    <3> DEFINE s == CHOOSE i \in 1 .. L : Stops(i)
               f == CHOOSE i \in 1 .. L : First(i)
    <3>2. s \in 1 .. L /\ First(s)
      <4> HIDE DEF First, Stops
      <4>1. \E i \in 1 .. L : Stops(i)
        BY <2>4, <2>8
      <4>2. s \in 1 .. L /\ Stops(s)
        BY <4>1
      <4>3. QED
        BY <2>4, <4>2
    <3>3. f \in 1 .. L /\ First(f)
      <4> HIDE DEF First
      <4>1. QED
        BY <2>8
    <3>4. s = f
      <4> HIDE DEF First, s, f
      <4>1. QED
        BY <2>5, <3>2, <3>3
    <3>5. VerifyStopsAt = s
      BY <2>1, <3>1 DEF VerifyStopsAt
    <3>6. VerifyBlamesTheOvertaken <=> VerifyStopsAt = f
      BY <2>1, <3>1 DEF VerifyBlamesTheOvertaken
    <3>7. QED
      BY <3>4, <3>5, <3>6
  <2>9. QED
    BY <2>6, <2>7, <2>8
<1>2. QED
  BY <1>1, AuditInitially, AuditStep, PTL DEF AuditSpec

-----------------------------------------------------------------------------
(* CognitiveCycle *)

LearningSteps == {"recorded", "half", "reviewed", "pruning"}
Lap == [step : Steps, id : Maybe(Id), ok : BOOLEAN, good : Nat, bad : Nat, stale : SUBSET Label,
        alone : BOOLEAN]

CoreShape ==
  /\ versions \in [Capability -> 0 .. MaxVersions] /\ latest \in [Capability -> Maybe(Id)]
  /\ completed \in Seq(Id) /\ failed \in Seq(Id) /\ facts \in [Id -> SUBSET Label]
  /\ cycle \in [Thread -> Lap] /\ settled \subseteq Id
  /\ \A t \in Thread : cycle[t].step # "idle" => cycle[t].id \in Id

\* What a review has counted is what was recorded, while the limit leaves nothing out.
GoodRead(c) == Len(completed) <= ReviewLimit => c.good = Runs(completed, c.id)
BadRead(c) == Len(failed) <= ReviewLimit => c.bad = Runs(failed, c.id)

\* What a thread that has learned alone so far has read is still so.
AloneReads ==
  \A t \in Thread : cycle[t].alone /\ cycle[t].step \in LearningSteps =>
    LET id == cycle[t].id
    IN  /\ \A u \in Thread : cycle[u].step \in LearningSteps /\ cycle[u].id = id => u = t
        /\ cycle[t].step # "recorded" => GoodRead(cycle[t])
        /\ cycle[t].step \in {"reviewed", "pruning"} => BadRead(cycle[t])
        /\ cycle[t].step = "pruning" => facts[id] \ cycle[t].stale \subseteq {NewLabel(t)}

\* Nobody learns about an id that is settled.
SettledAtRest ==
  \A t \in Thread : cycle[t].step \in LearningSteps => cycle[t].id \notin settled

CoreInv == CoreShape /\ AloneReads /\ SettledAtRest /\ SoloLearningSettles

\* The numbers a review reads.
LEMMA ReviewCounts ==
  ASSUME NEW s \in Seq(Id), NEW i \in Id
  PROVE  /\ Reviewed(s, i) \in Nat
         /\ Len(s) <= ReviewLimit => Reviewed(s, i) = Runs(s, i)
<1>1. DOMAIN s = 1 .. Len(s) /\ Len(s) \in Nat /\ ReviewLimit \in Nat
  BY CoreAssumption
<1>2. IsFiniteSet({k \in Newest(s) : s[k] = i})
  <2>1. {k \in Newest(s) : s[k] = i} \subseteq 1 .. Len(s)
    BY <1>1 DEF Newest
  <2>2. IsFiniteSet(1 .. Len(s))
    BY <1>1, FS_Interval
  <2>3. QED
    BY <2>1, <2>2, FS_Subset
<1>3. Len(s) <= ReviewLimit => Newest(s) = DOMAIN s
  BY <1>1 DEF Newest
<1>4. QED
  BY <1>2, <1>3, FS_CardinalityType DEF Reviewed, Runs

\* An episode of another capability changes no count.
LEMMA OtherRuns ==
  ASSUME NEW s \in Seq(Id), NEW x \in Id, NEW i \in Id \ {x}
  PROVE  Runs(Append(s, x), i) = Runs(s, i)
<1>1. {k \in DOMAIN Append(s, x) : Append(s, x)[k] = i} = {k \in DOMAIN s : s[k] = i}
  OBVIOUS
<1>2. QED
  BY <1>1 DEF Runs

LEMMA IdleLap == Idle \in Lap /\ Idle.step = "idle"
BY DEF Idle, Lap, Steps, Maybe, Label

LEMMA CoreInitially == CoreInit => CoreInv
<1> SUFFICES ASSUME CoreInit PROVE CoreInv
  OBVIOUS
<1>1. \A t \in Thread : cycle[t] = Idle
  BY DEF CoreInit
<1>2. CoreShape
  <2>1. versions \in [Capability -> 0 .. MaxVersions] /\ completed \in Seq(Id)
        /\ failed \in Seq(Id)
    BY CoreAssumption DEF CoreInit
  <2>2. QED
    BY <1>1, <2>1, IdleLap DEF CoreInit, CoreShape, Maybe
<1>3. AloneReads /\ SettledAtRest /\ SoloLearningSettles
  BY <1>1, IdleLap DEF AloneReads, SettledAtRest, SoloLearningSettles, CoreInit, LearningSteps
<1>4. QED
  BY <1>2, <1>3 DEF CoreInv

\* A step that leaves the episodes, the facts and the learning threads as they are.
LEMMA ElsewhereStep ==
  ASSUME CoreInv, UNCHANGED <<completed, failed, facts, settled>>,
         versions' \in [Capability -> 0 .. MaxVersions], latest' \in [Capability -> Maybe(Id)],
         cycle' \in [Thread -> Lap],
         \A t \in Thread : \/ cycle'[t] = cycle[t]
                           \/ cycle'[t].step = "idle"
                           \/ cycle'[t].step \in {"chosen", "ran"} /\ cycle'[t].id \in Id
  PROVE  CoreInv'
<1>1. \A t \in Thread : cycle'[t].step \in LearningSteps => cycle'[t] = cycle[t]
  BY DEF LearningSteps
<1>2. CoreShape'
  BY DEF CoreInv, CoreShape
<1>3. SettledAtRest' /\ SoloLearningSettles'
  BY <1>1 DEF CoreInv, SettledAtRest, SoloLearningSettles, WithinLimit, HistoryLabel
<1>4. AloneReads'
  BY <1>1 DEF CoreInv, AloneReads, NewLabel, GoodRead, BadRead
<1>5. QED
  BY <1>2, <1>3, <1>4 DEF CoreInv

LEMMA RegistryStep ==
  ASSUME CoreInv,
         \/ \E k \in Capability : Publish(k) \/ Unpublish(k)
         \/ RegisterHandler \/ CoreRestart \/ UNCHANGED coreVars
  PROVE  CoreInv'
<1>1. CoreShape
  BY DEF CoreInv
<1>2. versions' \in [Capability -> 0 .. MaxVersions] /\ latest' \in [Capability -> Maybe(Id)]
  <2>1. ASSUME NEW k \in Capability, Publish(k)
        PROVE  versions' \in [Capability -> 0 .. MaxVersions] /\ latest' \in [Capability -> Maybe(Id)]
    <3>1. versions[k] \in 0 .. MaxVersions /\ versions[k] < MaxVersions
      BY <1>1, <2>1 DEF CoreShape, Publish
    <3>2. versions[k] + 1 \in 1 .. MaxVersions
      BY <3>1, CoreAssumption
    <3>3. <<k, versions[k] + 1>> \in Id
      BY <3>2 DEF Id
    <3>4. QED
      BY <1>1, <2>1, <3>2, <3>3, CoreAssumption DEF CoreShape, Publish, RegisterVersion, Maybe
  <2>2. CASE \/ \E k \in Capability : Unpublish(k)
             \/ RegisterHandler \/ CoreRestart \/ UNCHANGED coreVars
    BY <1>1, <2>2 DEF CoreShape, Unpublish, RegisterHandler, CoreRestart, coreVars, Maybe
  <2>3. QED
    BY <2>1, <2>2
<1>3. UNCHANGED <<completed, failed, facts, settled>>
  BY DEF Publish, Unpublish, RegisterHandler, CoreRestart, coreVars, memoryVars
<1>4. cycle' = cycle \/ cycle' = [t \in Thread |-> Idle]
  BY DEF Publish, Unpublish, RegisterHandler, CoreRestart, coreVars
<1>5. QED
  BY <1>1, <1>2, <1>3, <1>4, IdleLap, ElsewhereStep DEF CoreShape

\* A thread that runs its plan: nothing is learned yet.
LEMMA RunStep ==
  ASSUME CoreInv, NEW t \in Thread,
         \/ \E K \in SUBSET Capability : ChoosePlan(t, K)
         \/ Execute(t) \/ ExecutorRaises(t) \/ NothingToLearn(t)
  PROVE  CoreInv'
<1>1. CoreShape /\ cycle \in [Thread -> Lap]
  BY DEF CoreInv, CoreShape
<1>2. UNCHANGED <<completed, failed, facts, settled, versions, latest>>
  BY DEF ChoosePlan, Execute, ExecutorRaises, NothingToLearn, registryVars, memoryVars
<1>3. \E r \in Lap : /\ cycle' = [cycle EXCEPT ![t] = r]
                     /\ r.step = "idle" \/ (r.step \in {"chosen", "ran"} /\ r.id \in Id)
  <2>1. ASSUME NEW K \in SUBSET Capability, ChoosePlan(t, K)
        PROVE  \E r \in Lap : /\ cycle' = [cycle EXCEPT ![t] = r]
                              /\ r.step = "idle" \/ (r.step \in {"chosen", "ran"} /\ r.id \in Id)
    <3>1. PICK id \in Best(Candidates(K)) :
            cycle' = [cycle EXCEPT ![t] = [Idle EXCEPT !.step = "chosen", !.id = id]]
      BY <2>1 DEF ChoosePlan
    <3>2. id \in Id
      BY <1>1, <3>1 DEF Best, Candidates, Discovered, CoreShape, Maybe
    <3> DEFINE r == [Idle EXCEPT !.step = "chosen", !.id = id]
    <3>3. r \in Lap /\ r.step = "chosen" /\ r.id = id
      BY <3>2, IdleLap DEF Lap, Steps, Maybe
    <3> HIDE DEF r
    <3>4. QED
      BY <3>1, <3>2, <3>3 DEF r
  <2>2. CASE Execute(t)
    <3>1. PICK ok \in BOOLEAN : cycle' = [cycle EXCEPT ![t].step = "ran", ![t].ok = ok]
      BY <2>2 DEF Execute
    <3> DEFINE r == [cycle[t] EXCEPT !.step = "ran", !.ok = ok]
    <3>2. cycle' = [cycle EXCEPT ![t] = r]
      BY <1>1, <3>1
    <3>3. cycle[t] \in Lap /\ cycle[t].id \in Id
      BY <1>1, <2>2 DEF CoreShape, Execute
    <3>4. r \in Lap /\ r.step = "ran" /\ r.id = cycle[t].id
      BY <3>3 DEF Lap, Steps
    <3> HIDE DEF r
    <3>5. QED
      BY <3>2, <3>3, <3>4
  <2>3. CASE ExecutorRaises(t) \/ NothingToLearn(t)
    BY <2>3, IdleLap DEF ExecutorRaises, NothingToLearn, EndCycle
  <2>4. QED
    BY <2>1, <2>2, <2>3
<1>4. PICK r \in Lap : /\ cycle' = [cycle EXCEPT ![t] = r]
                       /\ r.step = "idle" \/ (r.step \in {"chosen", "ran"} /\ r.id \in Id)
  BY <1>3
<1>5. cycle' \in [Thread -> Lap] /\ \A u \in Thread : cycle'[u] = IF u = t THEN r ELSE cycle[u]
  BY <1>1, <1>4
<1>6. QED
  BY <1>1, <1>2, <1>4, <1>5, ElsewhereStep DEF CoreShape

LEMMA RecordOutcomeStep ==
  ASSUME CoreInv, NEW t \in Thread, RecordOutcome(t)
  PROVE  CoreInv'
<1> DEFINE id == cycle[t].id
           a == Learning(id) = {}
           r == [cycle[t] EXCEPT !.step = "recorded", !.alone = a]
<1>1. CoreShape /\ cycle[t] \in Lap /\ id \in Id /\ cycle[t].step = "ran"
  BY DEF CoreInv, CoreShape, RecordOutcome
<1>2. /\ RecordEpisode(id, cycle[t].ok) /\ settled' = settled \ {id}
      /\ cycle' = [u \in Thread |-> IF u = t THEN r ELSE
                     IF u \in Learning(id) THEN [cycle[u] EXCEPT !.alone = FALSE] ELSE cycle[u]]
      /\ UNCHANGED <<versions, latest, facts>>
  BY DEF RecordOutcome, registryVars
<1>3. a \in BOOLEAN
  OBVIOUS
<1>4. \A u \in Thread : u \in Learning(id) <=> cycle[u].step \in LearningSteps /\ cycle[u].id = id
  BY DEF Learning, LearningSteps
<1>5. a => \A u \in Thread : ~(cycle[u].step \in LearningSteps /\ cycle[u].id = id)
  BY <1>4
<1> HIDE DEF a
<1>6. r \in Lap /\ r.step = "recorded" /\ r.alone = a /\ r.id = id
  BY <1>1, <1>3 DEF Lap, Steps
<1> HIDE DEF r
<1>7. \A u \in Thread : cycle'[u] =
        IF u = t THEN r ELSE IF u \in Learning(id) THEN [cycle[u] EXCEPT !.alone = FALSE] ELSE cycle[u]
  BY <1>2
<1>8. \A u \in Thread \ {t} :
        /\ cycle'[u] \in Lap /\ cycle'[u].step = cycle[u].step /\ cycle'[u].id = cycle[u].id
        /\ cycle'[u].alone => cycle'[u] = cycle[u] /\ u \notin Learning(id)
  <2> SUFFICES ASSUME NEW u \in Thread \ {t}
               PROVE  /\ cycle'[u] \in Lap /\ cycle'[u].step = cycle[u].step
                      /\ cycle'[u].id = cycle[u].id
                      /\ cycle'[u].alone => cycle'[u] = cycle[u] /\ u \notin Learning(id)
    OBVIOUS
  <2>1. cycle[u] \in Lap
    BY <1>1 DEF CoreShape
  <2>2. CASE u \in Learning(id)
    <3>1. cycle'[u] = [cycle[u] EXCEPT !.alone = FALSE]
      BY <1>7, <2>2
    <3>2. QED
      BY <2>1, <3>1 DEF Lap
  <2>3. CASE u \notin Learning(id)
    BY <1>7, <2>1, <2>3
  <2>4. QED
    BY <2>2, <2>3
<1>9. /\ completed' \in Seq(Id) /\ failed' \in Seq(Id)
      /\ Len(completed') <= ReviewLimit => Len(completed) <= ReviewLimit
      /\ Len(failed') <= ReviewLimit => Len(failed) <= ReviewLimit
      /\ \A i \in Id \ {id} : /\ Runs(completed', i) = Runs(completed, i)
                             /\ Runs(failed', i) = Runs(failed, i)
  <2>1. completed \in Seq(Id) /\ failed \in Seq(Id) /\ id \in Id /\ ReviewLimit \in Nat
    BY <1>1, CoreAssumption DEF CoreShape
  <2>2. /\ completed' = completed \/ completed' = Append(completed, id)
        /\ failed' = failed \/ failed' = Append(failed, id)
    BY <1>2 DEF RecordEpisode
  <2>3. /\ completed' \in Seq(Id) /\ failed' \in Seq(Id)
        /\ Len(completed') <= ReviewLimit => Len(completed) <= ReviewLimit
        /\ Len(failed') <= ReviewLimit => Len(failed) <= ReviewLimit
    <3>1. ASSUME NEW q \in Seq(Id)
          PROVE  /\ Append(q, id) \in Seq(Id)
                 /\ Len(Append(q, id)) <= ReviewLimit => Len(q) <= ReviewLimit
      <4>1. Len(q) \in Nat /\ Len(Append(q, id)) = Len(q) + 1
        BY <2>1
      <4>2. QED
        BY <2>1, <4>1
    <3>2. QED
      BY <2>1, <2>2, <3>1
  <2>4. ASSUME NEW i \in Id \ {id}
        PROVE  Runs(completed', i) = Runs(completed, i) /\ Runs(failed', i) = Runs(failed, i)
    BY <2>1, <2>2, OtherRuns
  <2>5. QED
    BY <2>3, <2>4
<1>10. CoreShape'
  <2>1. cycle' \in [Thread -> Lap]
    BY <1>2, <1>6, <1>7, <1>8
  <2>2. \A u \in Thread : cycle'[u].step # "idle" => cycle'[u].id \in Id
    BY <1>1, <1>6, <1>7, <1>8 DEF CoreShape
  <2>3. QED
    BY <1>1, <1>2, <1>9, <2>1, <2>2 DEF CoreShape
<1>11. SettledAtRest'
  <2> SUFFICES ASSUME NEW u \in Thread, cycle'[u].step \in LearningSteps
               PROVE  cycle'[u].id \notin settled'
    BY DEF SettledAtRest
  <2>1. u = t => cycle'[u].id = id
    BY <1>6, <1>7
  <2>2. u # t => cycle[u].step \in LearningSteps /\ cycle'[u].id = cycle[u].id
    BY <1>8
  <2>3. QED
    BY <1>2, <2>1, <2>2 DEF CoreInv, SettledAtRest
<1>12. SoloLearningSettles'
  <2> SUFFICES ASSUME NEW i \in settled'
               PROVE  \E l \in Label : facts'[i] = {l} /\ (WithinLimit' => l = HistoryLabel(i)')
    BY DEF SoloLearningSettles
  <2>1. i \in settled /\ i \in Id \ {id}
    BY <1>1, <1>2 DEF CoreShape
  <2>2. (WithinLimit' => WithinLimit) /\ HistoryLabel(i)' = HistoryLabel(i)
    BY <1>9, <2>1 DEF WithinLimit, HistoryLabel
  <2>3. QED
    BY <1>2, <2>1, <2>2 DEF CoreInv, SoloLearningSettles
<1>13. AloneReads'
  <2> SUFFICES ASSUME NEW u \in Thread, cycle'[u].alone, cycle'[u].step \in LearningSteps
               PROVE  /\ \A v \in Thread : cycle'[v].step \in LearningSteps
                                           /\ cycle'[v].id = cycle'[u].id => v = u
                      /\ cycle'[u].step # "recorded" => GoodRead(cycle[u])'
                      /\ cycle'[u].step \in {"reviewed", "pruning"} => BadRead(cycle[u])'
                      /\ cycle'[u].step = "pruning" =>
                           facts[cycle'[u].id] \ cycle'[u].stale
                             \subseteq {Classify(cycle'[u].good, cycle'[u].bad)}
    BY <1>2 DEF AloneReads, NewLabel
  <2>1. CASE u = t
    <3>1. cycle'[u] = r /\ a
      BY <1>6, <1>7, <2>1
    <3>2. \A v \in Thread \ {t} : ~(cycle'[v].step \in LearningSteps /\ cycle'[v].id = id)
      BY <1>5, <1>8, <3>1
    <3>3. QED
      BY <1>6, <2>1, <3>1, <3>2
  <2>2. CASE u # t
    <3>1. cycle'[u] = cycle[u] /\ u \notin Learning(id)
      BY <1>8, <2>2
    <3>2. cycle[u].alone /\ cycle[u].step \in LearningSteps /\ cycle[u].id # id /\ cycle[u].id \in Id
      BY <1>1, <1>4, <3>1 DEF CoreShape, LearningSteps
    <3>3. \A v \in Thread : cycle'[v].step \in LearningSteps /\ cycle'[v].id = cycle[u].id => v = u
      <4>1. \A v \in Thread : cycle[v].step \in LearningSteps /\ cycle[v].id = cycle[u].id => v = u
        BY <3>2 DEF CoreInv, AloneReads
      <4>2. QED
        BY <1>6, <1>7, <1>8, <3>2, <4>1
    <3>4. (GoodRead(cycle[u]) => GoodRead(cycle[u])') /\ (BadRead(cycle[u]) => BadRead(cycle[u])')
      BY <1>9, <3>1, <3>2 DEF GoodRead, BadRead
    <3>5. QED
      BY <3>1, <3>2, <3>3, <3>4 DEF CoreInv, AloneReads, NewLabel
  <2>3. QED
    BY <2>1, <2>2
<1>14. QED
  BY <1>10, <1>11, <1>12, <1>13 DEF CoreInv

\* One call of the learning of a thread: what it reads, and what it makes of the facts
\* about its capability.
LEMMA LearnStep ==
  ASSUME CoreInv, NEW t \in Thread, cycle[t].step \in LearningSteps, NEW r \in Lap,
         cycle' = [cycle EXCEPT ![t] = r], r.id = cycle[t].id, r.alone = cycle[t].alone,
         r.step \in LearningSteps \ {"recorded"}, NEW F \in SUBSET Label,
         facts' = [facts EXCEPT ![r.id] = F],
         UNCHANGED <<completed, failed, settled, versions, latest>>,
         r.alone => /\ GoodRead(r)
                    /\ r.step \in {"reviewed", "pruning"} => BadRead(r)
                    /\ r.step = "pruning" => F \ r.stale \subseteq {Classify(r.good, r.bad)}
  PROVE  CoreInv'
<1>1. CoreShape /\ r.id \in Id
  BY DEF CoreInv, CoreShape, LearningSteps
<1>2. /\ \A u \in Thread : cycle'[u] = IF u = t THEN r ELSE cycle[u]
      /\ \A i \in Id : facts'[i] = IF i = r.id THEN F ELSE facts[i]
  BY <1>1 DEF CoreShape
<1>3. \A u \in Thread : /\ cycle'[u].step \in LearningSteps <=> cycle[u].step \in LearningSteps
                        /\ cycle'[u].id = cycle[u].id /\ cycle'[u].alone = cycle[u].alone
  BY <1>2
<1>4. CoreShape'
  <2>1. cycle' \in [Thread -> Lap] /\ facts' \in [Id -> SUBSET Label]
    BY <1>1 DEF CoreShape
  <2>2. \A u \in Thread : cycle'[u].step # "idle" => cycle'[u].id \in Id
    BY <1>1, <1>2 DEF CoreShape
  <2>3. QED
    BY <1>1, <2>1, <2>2 DEF CoreShape
<1>5. SettledAtRest'
  BY <1>3 DEF CoreInv, SettledAtRest
<1>6. SoloLearningSettles'
  <2>1. r.id \notin settled
    BY DEF CoreInv, SettledAtRest
  <2>2. QED
    BY <1>1, <1>2, <2>1 DEF CoreInv, CoreShape, SoloLearningSettles, WithinLimit, HistoryLabel
<1>7. AloneReads'
  <2> SUFFICES ASSUME NEW u \in Thread, cycle'[u].alone, cycle'[u].step \in LearningSteps
               PROVE  /\ \A v \in Thread : cycle'[v].step \in LearningSteps
                                           /\ cycle'[v].id = cycle'[u].id => v = u
                      /\ cycle'[u].step # "recorded" => GoodRead(cycle[u])'
                      /\ cycle'[u].step \in {"reviewed", "pruning"} => BadRead(cycle[u])'
                      /\ cycle'[u].step = "pruning" =>
                           facts'[cycle'[u].id] \ cycle'[u].stale
                             \subseteq {Classify(cycle'[u].good, cycle'[u].bad)}
    BY DEF AloneReads, NewLabel, GoodRead, BadRead
  <2>1. \A v \in Thread : cycle'[v].step \in LearningSteps /\ cycle'[v].id = cycle'[u].id => v = u
    BY <1>3 DEF CoreInv, AloneReads
  <2>2. CASE u = t
    BY <1>1, <1>2, <2>1, <2>2 DEF GoodRead, BadRead
  <2>3. CASE u # t
    <3>1. cycle'[u] = cycle[u] /\ cycle[u].id # r.id /\ cycle[u].id \in Id
      BY <1>1, <1>2, <2>1, <2>3 DEF CoreShape, LearningSteps
    <3>2. QED
      BY <1>2, <2>1, <3>1 DEF CoreInv, AloneReads, NewLabel, GoodRead, BadRead
  <2>4. QED
    BY <2>2, <2>3
<1>8. QED
  BY <1>4, <1>5, <1>6, <1>7 DEF CoreInv

LEMMA ReviewStep ==
  ASSUME CoreInv, NEW t \in Thread,
         ReviewCompleted(t) \/ ReviewFailed(t) \/ QueryLabels(t) \/ RemoveLabel(t)
  PROVE  CoreInv'
<1> DEFINE c == cycle[t]
           id == c.id
           n == NewLabel(t)
<1>1. CoreShape /\ c \in Lap /\ c.step \in LearningSteps /\ cycle \in [Thread -> Lap]
  BY DEF CoreInv, CoreShape, LearningSteps, ReviewCompleted, ReviewFailed, QueryLabels, RemoveLabel
<1>2. id \in Id /\ facts[id] \in SUBSET Label /\ facts = [facts EXCEPT ![id] = facts[id]]
  BY <1>1 DEF CoreShape, LearningSteps
<1>11. /\ Reviewed(completed, id) \in Nat /\ Reviewed(failed, id) \in Nat
       /\ Len(completed) <= ReviewLimit => Reviewed(completed, id) = Runs(completed, id)
       /\ Len(failed) <= ReviewLimit => Reviewed(failed, id) = Runs(failed, id)
  BY <1>1, <1>2, ReviewCounts DEF CoreShape
<1>3. UNCHANGED <<completed, failed, settled, versions, latest>>
  BY DEF ReviewCompleted, ReviewFailed, QueryLabels, RemoveLabel, registryVars, memoryVars
<1>4. c.alone => /\ c.step # "recorded" => GoodRead(c)
                 /\ c.step \in {"reviewed", "pruning"} => BadRead(c)
                 /\ c.step = "pruning" => facts[id] \ c.stale \subseteq {n}
  BY <1>1 DEF CoreInv, AloneReads
<1>5. n = Classify(c.good, c.bad)
  BY DEF NewLabel
<1>6. CASE ReviewCompleted(t)
  <2> DEFINE r == [c EXCEPT !.step = "half", !.good = Reviewed(completed, id)]
  <2>1. /\ r \in Lap /\ r.id = id /\ r.alone = c.alone /\ r.step = "half" /\ GoodRead(r)
        /\ r.step \in LearningSteps \ {"recorded"}
    BY <1>1, <1>11 DEF Lap, Steps, LearningSteps, GoodRead
  <2>2. cycle' = [cycle EXCEPT ![t] = r] /\ facts' = facts
    BY <1>1, <1>6 DEF ReviewCompleted, memoryVars
  <2> HIDE DEF r
  <2>3. QED
    BY <1>1, <1>2, <1>3, <2>1, <2>2, LearnStep
<1>7. CASE ReviewFailed(t)
  <2> DEFINE r == [c EXCEPT !.step = "reviewed", !.bad = Reviewed(failed, id)]
  <2>1. /\ r \in Lap /\ r.id = id /\ r.alone = c.alone /\ r.step = "reviewed" /\ BadRead(r)
        /\ (GoodRead(c) => GoodRead(r)) /\ r.step \in LearningSteps \ {"recorded"}
    BY <1>1, <1>11 DEF Lap, Steps, LearningSteps, GoodRead, BadRead
  <2>2. cycle' = [cycle EXCEPT ![t] = r] /\ facts' = facts /\ c.step = "half"
    BY <1>1, <1>7 DEF ReviewFailed, memoryVars
  <2> HIDE DEF r
  <2>3. QED
    BY <1>1, <1>2, <1>3, <1>4, <2>1, <2>2, LearnStep
<1>8. CASE QueryLabels(t)
  <2> DEFINE r == [c EXCEPT !.step = "pruning", !.stale = StaleLabels(t)]
  <2>1. StaleLabels(t) = facts[id] \ {n}
    BY DEF StaleLabels
  <2>2. /\ r \in Lap /\ r.id = id /\ r.alone = c.alone /\ r.step = "pruning" /\ r.bad = c.bad
        /\ r.good = c.good /\ r.step \in LearningSteps \ {"recorded"} /\ r.stale = facts[id] \ {n}
    BY <1>1, <1>2, <2>1 DEF Lap, Steps, LearningSteps
  <2>3. cycle' = [cycle EXCEPT ![t] = r] /\ facts' = facts /\ c.step = "reviewed"
    BY <1>1, <1>8 DEF QueryLabels, memoryVars
  <2> HIDE DEF r, n
  <2>4. facts[id] \ r.stale \subseteq {Classify(r.good, r.bad)}
    BY <1>5, <2>2
  <2>5. (GoodRead(c) => GoodRead(r)) /\ (BadRead(c) => BadRead(r))
    BY <2>2 DEF GoodRead, BadRead
  <2>6. QED
    BY <1>1, <1>2, <1>3, <1>4, <2>2, <2>3, <2>4, <2>5, LearnStep
<1>9. CASE RemoveLabel(t)
  <2>1. PICK l \in c.stale : RemoveFact(id, l) /\ cycle' = [cycle EXCEPT ![t].stale = @ \ {l}]
    BY <1>9 DEF RemoveLabel
  <2> DEFINE r == [c EXCEPT !.stale = c.stale \ {l}]
             F == facts[id] \ {l}
  <2>2. /\ r \in Lap /\ r.id = id /\ r.alone = c.alone /\ r.step = c.step /\ r.bad = c.bad
        /\ r.good = c.good /\ r.stale = c.stale \ {l}
    BY <1>1 DEF Lap
  <2>3. cycle' = [cycle EXCEPT ![t] = r] /\ facts' = [facts EXCEPT ![id] = F] /\ c.step = "pruning"
        /\ F \in SUBSET Label
    BY <1>1, <1>2, <1>9, <2>1 DEF RemoveLabel, RemoveFact
  <2>4. r.step \in LearningSteps \ {"recorded"}
    BY <2>2, <2>3 DEF LearningSteps
  <2> HIDE DEF r, n
  <2>5. c.alone => F \ r.stale \subseteq {Classify(r.good, r.bad)}
    BY <1>4, <1>5, <2>2, <2>3
  <2>6. (GoodRead(c) => GoodRead(r)) /\ (BadRead(c) => BadRead(r))
    BY <2>2 DEF GoodRead, BadRead
  <2> HIDE DEF F
  <2>7. QED
    BY <1>1, <1>3, <1>4, <2>2, <2>3, <2>4, <2>5, <2>6, LearnStep
<1>10. QED
  BY <1>6, <1>7, <1>8, <1>9

LEMMA AddLabelStep ==
  ASSUME CoreInv, NEW t \in Thread, AddLabel(t)
  PROVE  CoreInv'
<1> DEFINE c == cycle[t]
           id == c.id
           n == NewLabel(t)
<1>1. CoreShape /\ c \in Lap /\ c.step = "pruning" /\ c.stale = {} /\ id \in Id
      /\ cycle \in [Thread -> Lap]
  BY DEF CoreInv, CoreShape, AddLabel
<1>2. /\ facts' = [facts EXCEPT ![id] = facts[id] \cup {n}] /\ cycle' = [cycle EXCEPT ![t] = Idle]
      /\ settled' = IF c.alone THEN settled \cup {id} ELSE settled
      /\ UNCHANGED <<versions, latest, completed, failed>>
  BY <1>1 DEF AddLabel, AddFact, EndCycle, registryVars, CoreShape
<1>3. n \in Label /\ n = Classify(c.good, c.bad)
  BY DEF NewLabel, Classify, Label
<1>4. c.alone => /\ \A u \in Thread : cycle[u].step \in LearningSteps /\ cycle[u].id = id => u = t
                 /\ WithinLimit => n = HistoryLabel(id)
                 /\ facts[id] \cup {n} = {n}
  BY <1>1, <1>3 DEF CoreInv, AloneReads, LearningSteps, GoodRead, BadRead, WithinLimit, HistoryLabel
<1>5. id \notin settled
  BY <1>1 DEF CoreInv, SettledAtRest, LearningSteps
<1> HIDE DEF n
<1>6. /\ \A u \in Thread : cycle'[u] = IF u = t THEN Idle ELSE cycle[u]
      /\ \A i \in Id : facts'[i] = IF i = id THEN facts[id] \cup {n} ELSE facts[i]
  BY <1>1, <1>2 DEF CoreShape
<1>7. \A u \in Thread : cycle'[u].step \in LearningSteps => u # t /\ cycle'[u] = cycle[u]
  BY <1>6, IdleLap DEF LearningSteps
<1>8. CoreShape'
  BY <1>1, <1>2, <1>3, <1>6, IdleLap DEF CoreShape
<1>9. SettledAtRest'
  BY <1>2, <1>4, <1>7 DEF CoreInv, SettledAtRest
<1>10. SoloLearningSettles'
  <2> SUFFICES ASSUME NEW i \in settled'
               PROVE  \E l \in Label : facts'[i] = {l} /\ (WithinLimit' => l = HistoryLabel(i)')
    BY DEF SoloLearningSettles
  <2>1. (WithinLimit' <=> WithinLimit) /\ HistoryLabel(i)' = HistoryLabel(i)
    BY <1>2 DEF WithinLimit, HistoryLabel
  <2>2. \E l \in Label : facts'[i] = {l} /\ (WithinLimit => l = HistoryLabel(i))
    <3>1. i \in Id
      BY <1>1, <1>2 DEF CoreShape
    <3>2. CASE i = id
      BY <1>2, <1>3, <1>4, <1>5, <1>6, <3>1, <3>2
    <3>3. CASE i # id
      BY <1>2, <1>6, <3>1, <3>3 DEF CoreInv, SoloLearningSettles
    <3>4. QED
      BY <3>2, <3>3
  <2>3. QED
    BY <2>1, <2>2
<1>11. AloneReads'
  <2> SUFFICES ASSUME NEW u \in Thread, cycle'[u].alone, cycle'[u].step \in LearningSteps
               PROVE  /\ \A v \in Thread : cycle'[v].step \in LearningSteps
                                           /\ cycle'[v].id = cycle'[u].id => v = u
                      /\ cycle'[u].step # "recorded" => GoodRead(cycle[u])'
                      /\ cycle'[u].step \in {"reviewed", "pruning"} => BadRead(cycle[u])'
                      /\ cycle'[u].step = "pruning" =>
                           facts'[cycle'[u].id] \ cycle'[u].stale
                             \subseteq {Classify(cycle'[u].good, cycle'[u].bad)}
    BY <1>2 DEF AloneReads, NewLabel, GoodRead, BadRead
  <2>1. u # t /\ cycle'[u] = cycle[u] /\ cycle[u].id \in Id
    BY <1>1, <1>7 DEF CoreShape, LearningSteps
  <2>2. cycle[u].id # id
    BY <1>1, <2>1 DEF CoreInv, AloneReads, LearningSteps
  <2>3. QED
    BY <1>2, <1>6, <1>7, <2>1, <2>2 DEF CoreInv, AloneReads, NewLabel, GoodRead, BadRead
<1>12. QED
  BY <1>8, <1>9, <1>10, <1>11 DEF CoreInv

LEMMA CoreStep == CoreInv /\ [CoreNext]_coreVars => CoreInv'
BY RegistryStep, RunStep, RecordOutcomeStep, ReviewStep, AddLabelStep DEF CoreNext

(* A learning that no other of the same capability overlapped leaves one reliability fact,
   the one the whole history deserves while no review has met its limit of episodes, for
   any number of capabilities, threads, goals and restarts: the facts that overlapping
   cycles or a crash inside extract left are pruned by the first learning that is alone. *)
THEOREM LearningAloneSettles == CoreSpec => []SoloLearningSettles
<1>1. CoreInv => SoloLearningSettles
  BY DEF CoreInv
<1>2. QED
  BY <1>1, CoreInitially, CoreStep, PTL DEF CoreSpec

-----------------------------------------------------------------------------
(* ApprovalGate: the store *)

\* expire_due changes nothing but pending records, and those only to expired.
LEMMA ExpireDueType ==
  ASSUME record \in [Approval -> Status]
  PROVE  /\ ExpireDue(record) \in [Approval -> Status]
         /\ \A a \in Approval :
              \/ ExpireDue(record)[a] = record[a] /\ ~(a \in due /\ record[a] = "pending")
              \/ record[a] = "pending" /\ a \in due /\ ExpireDue(record)[a] = "expired"
BY DEF ExpireDue, Status, Closed

-----------------------------------------------------------------------------
(* ApprovalGate: the gate alone, whatever the callbacks do *)

LEMMA GateInitInv == GateInit => GateInv
BY ApprovalAssumption DEF GateInit, GateInv, GateTypeOK, Status, InvokedIsConfirmed,
   PendingIsAnswerable, CallbacksMatch, Confirmed

LEMMA GateNextInv == GateInv /\ [GateNext]_gate => GateInv'
<1> SUFFICES ASSUME GateInv, [GateNext]_gate PROVE GateInv'
  OBVIOUS
<1> USE ApprovalAssumption
<1>0. GateTypeOK /\ InvokedIsConfirmed /\ PendingIsAnswerable /\ CallbacksMatch
  BY DEF GateInv
<1>e. /\ ExpireDue(record) \in [Approval -> Status]
      /\ \A a \in Approval :
           \/ ExpireDue(record)[a] = record[a] /\ ~(a \in due /\ record[a] = "pending")
           \/ record[a] = "pending" /\ a \in due /\ ExpireDue(record)[a] = "expired"
  BY <1>0, ExpireDueType DEF GateTypeOK
<1>1. ASSUME NEW c \in Chat, NEW a \in Approval, RequestApproval(a, c) PROVE GateInv'
  BY <1>0, <1>1, <1>e DEF RequestApproval, GateInv, GateTypeOK, InvokedIsConfirmed,
     PendingIsAnswerable, CallbacksMatch, Confirmed, Status, Closed
<1>2. ASSUME NEW c \in Chat, NEW a \in Approval, RespondInVain(c, a) PROVE GateInv'
  BY <1>0, <1>2, <1>e DEF RespondInVain, GateInv, GateTypeOK, InvokedIsConfirmed,
     PendingIsAnswerable, CallbacksMatch, Confirmed, Status, Closed
<1>3. ASSUME NEW c \in Chat, NEW a \in Approval, Approve(c, a) PROVE GateInv'
  <2>1. record[a] = "pending" /\ ExpireDue(record)[a] = "pending"
    BY <1>0, <1>3, <1>e DEF Approve, Answerable, CallbacksMatch
  <2>2. /\ doing' = a /\ invoked' = [invoked EXCEPT ![a] = @ + 1]
        /\ callbacks' = callbacks \ {a}
        /\ record' = Transition(ExpireDue(record), a, "executing", {"pending"})
        /\ UNCHANGED <<owner, due, crashes>>
    BY <1>0, <1>3, <2>1 DEF Approve, GateTypeOK
  <2>3. record' = [ExpireDue(record) EXCEPT ![a] = "executing"]
    BY <2>1, <2>2, <1>e DEF Transition
  <2>4. QED
    BY <1>0, <1>e, <2>1, <2>2, <2>3 DEF GateInv, GateTypeOK, InvokedIsConfirmed,
       PendingIsAnswerable, CallbacksMatch, Confirmed, Status, Closed
<1>4. ASSUME NEW c \in Chat, NEW a \in Approval, Reject(c, a) PROVE GateInv'
  <2>1. ExpireDue(record)[a] = "pending"
    BY <1>0, <1>4, <1>e DEF Reject, Answerable, CallbacksMatch
  <2>2. record' = [ExpireDue(record) EXCEPT ![a] = "rejected"]
    BY <1>4, <2>1, <1>e DEF Reject, Transition
  <2>3. QED
    BY <1>0, <1>4, <1>e, <2>1, <2>2 DEF Reject, Answerable, GateInv, GateTypeOK,
       InvokedIsConfirmed, PendingIsAnswerable, CallbacksMatch, Confirmed, Status, Closed
<1>5. ASSUME NEW result \in {"approved", "failed"}, Return(result) PROVE GateInv'
  <2>1. record' = [record EXCEPT ![doing] = result] /\ doing \in Approval
    BY <1>0, <1>5 DEF Return, Transition, CallbacksMatch, GateTypeOK
  <2>2. QED
    BY <1>0, <1>5, <2>1 DEF Return, GateInv, GateTypeOK, InvokedIsConfirmed,
       PendingIsAnswerable, CallbacksMatch, Confirmed, Status, Closed
<1>6. ASSUME NEW a \in Approval, Lapse(a) PROVE GateInv'
  BY <1>0, <1>6 DEF Lapse, GateInv, GateTypeOK, InvokedIsConfirmed,
     PendingIsAnswerable, CallbacksMatch
<1>7. CASE CrashGate
  BY <1>0, <1>7 DEF CrashGate, Cancelled, GateInv, GateTypeOK, InvokedIsConfirmed,
     PendingIsAnswerable, CallbacksMatch, Confirmed, Status, Closed
<1>8. CASE UNCHANGED gate
  BY <1>0, <1>8 DEF gate, GateInv, GateTypeOK, InvokedIsConfirmed,
     PendingIsAnswerable, CallbacksMatch
<1>9. QED
  BY <1>1, <1>2, <1>3, <1>4, <1>5, <1>6, <1>7, <1>8 DEF GateNext

\* A step of the gate changes no closed record and takes back no confirmed one.
LEMMA GateStepFinal ==
  ASSUME GateTypeOK, [GateNext]_gate, NEW a \in Approval
  PROVE  /\ record[a] \in Closed => record'[a] = record[a]
         /\ record[a] \in Confirmed => record'[a] \in Confirmed
<1>e. \A b \in Approval : record[b] # "pending" => ExpireDue(record)[b] = record[b]
  BY ExpireDueType DEF GateTypeOK
<1>f. DOMAIN ExpireDue(record) = Approval /\ DOMAIN record = Approval
  BY DEF ExpireDue, GateTypeOK
<1> USE DEF Closed, Confirmed
<1>1. ASSUME NEW c \in Chat, NEW b \in Approval,
             RequestApproval(b, c) \/ RespondInVain(c, b) \/ Approve(c, b) \/ Reject(c, b)
      PROVE  /\ record[a] \in Closed => record'[a] = record[a]
             /\ record[a] \in Confirmed => record'[a] \in Confirmed
  BY <1>1, <1>e, <1>f DEF RequestApproval, RespondInVain, Approve, Reject, Transition
<1>2. ASSUME NEW result \in {"approved", "failed"}, Return(result)
      PROVE  /\ record[a] \in Closed => record'[a] = record[a]
             /\ record[a] \in Confirmed => record'[a] \in Confirmed
  BY <1>2 DEF Return, Transition
<1>3. QED
  BY <1>1, <1>2 DEF GateNext, gate, Lapse, CrashGate, Cancelled

\* The inductive invariant of the gate, whatever its callbacks do.
THEOREM GateInvariant == GateSpec => []GateInv
BY GateInitInv, GateNextInv, PTL DEF GateSpec

\* A callback runs once for each confirmed approval and for no other, and a
\* pending record can be answered: for every use of the gate.
THEOREM GateSafe == GateSpec => [](InvokedIsConfirmed /\ PendingIsAnswerable)
BY GateInvariant, PTL DEF GateInv

\* Decisions are final, for every use of the gate.
THEOREM GateFinal == GateSpec => DecisionIsFinal
<1>1. GateInv /\ [GateNext]_gate =>
        [\A a \in Approval :
           /\ record[a] \in Closed => record'[a] = record[a]
           /\ record[a] \in Confirmed => record'[a] \in Confirmed]_gate
  BY GateStepFinal DEF GateInv
<1>2. QED
  BY <1>1, GateInvariant, PTL DEF GateSpec, DecisionIsFinal

-----------------------------------------------------------------------------
(* AdminCommands: the commands behind the gate *)

\* A callback that has still to act, by where it is.
Before == {"approve", "consume", "create", "destroy", "claim", "issue"}

LEMMA StepUsesGate == [Next]_vars => [GateNext]_gate
<1> SUFFICES ASSUME [Next]_vars PROVE [GateNext]_gate
  OBVIOUS
<1>1. ASSUME NEW c \in Chat, NEW a \in Approval, Message(c, a) PROVE [GateNext]_gate
  BY <1>1 DEF Message, DeployNode, DestroyNode, RequestPairing, Run, Ask, GateNext
<1>2. CASE Callback
  BY <1>2 DEF Callback, ApprovePurchase, ConsumePurchase, CreateInstance, DestroyInstance,
     CheckClaim, IssueKey, DeliverKey, Goes, End, GateNext
<1>3. ASSUME NEW a \in Approval, Clock(a) \/ ApiThread(a) PROVE [GateNext]_gate
  BY <1>3 DEF Clock, ApiThread, LapsePurchase, LapsePairing, SeeDue, ExpireSeen, GateNext
<1>4. QED
  BY <1>1, <1>2, <1>3 DEF Next, ConfigureCloud, Crash, GateNext, vars

\* No command changes an approval but through the gate: what is proved of
\* GateSpec holds of the commands together.
THEOREM CommandsUseGate == Spec => GateSpec
<1>1. Init => GateInit
  BY DEF Init
<1>2. QED
  BY <1>1, StepUsesGate, PTL DEF Spec, GateSpec

\* The inductive invariant for effects: one that happened belongs to a
\* confirmed approval, and a callback that has still to act has had none.
EffectsInv ==
  /\ effects \in [Approval -> Nat]
  /\ EffectsAreApproved
  /\ doing # None /\ step \in Before => effects[doing] = 0

LEMMA EffectsInit == Init => EffectsInv
BY DEF Init, CallbackInit, GateInit, EffectsInv, EffectsAreApproved

LEMMA EffectsNext == GateInv /\ EffectsInv /\ [Next]_vars => EffectsInv'
<1> SUFFICES ASSUME GateInv, EffectsInv, [Next]_vars PROVE EffectsInv'
  OBVIOUS
<1> USE ApprovalAssumption
<1>0. GateTypeOK /\ InvokedIsConfirmed /\ CallbacksMatch
  BY DEF GateInv
<1>1. \A a \in Approval : record[a] \in Confirmed => record'[a] \in Confirmed
  BY <1>0, StepUsesGate, GateStepFinal
<1>2. ASSUME effects' = effects, doing' = None \/ (doing' = doing /\ step' = step)
      PROVE  EffectsInv'
  BY <1>1, <1>2 DEF EffectsInv, EffectsAreApproved
<1>3. ASSUME NEW to, NEW n \in {0, 1}, NEW from \in Before \cup {"deliver"}, Goes(from, to, n),
             n = 1 => from \in Before /\ to \notin Before,
             from = "deliver" => to \notin Before
      PROVE  EffectsInv'
  <2>1. /\ doing \in Approval /\ doing' = doing /\ record' = record
        /\ effects' = [effects EXCEPT ![doing] = @ + n] /\ step' = to /\ step = from
    BY <1>0, <1>3 DEF Goes, GateTypeOK, gate
  <2>2. record[doing] \in Confirmed
    BY <1>0, <2>1 DEF CallbacksMatch, Confirmed
  <2>3. CASE from \in Before
    BY <1>3, <2>1, <2>2, <2>3 DEF EffectsInv, EffectsAreApproved
  <2>4. CASE from = "deliver"
    BY <1>3, <2>1, <2>2, <2>4 DEF EffectsInv, EffectsAreApproved, Before
  <2>5. QED
    BY <2>3, <2>4
<1>4. ASSUME NEW c \in Chat, NEW a \in Approval, Message(c, a) PROVE EffectsInv'
  <2>1. CASE Run(c, a)
    <3>1. record[a] = "pending" /\ effects' = effects
      BY <1>0, <2>1 DEF Run, Approve, Answerable, CallbacksMatch
    <3>2. effects[a] = 0 /\ (doing' = None \/ doing' = a)
      BY <2>1, <3>1 DEF Run, Approve, EffectsInv, EffectsAreApproved, Confirmed
    <3>3. QED
      BY <1>1, <3>1, <3>2 DEF EffectsInv, EffectsAreApproved
  <2>2. CASE ~Run(c, a)
    <3>1. effects' = effects /\ doing' = doing /\ step' = step
      BY <1>4, <2>2 DEF Message, DeployNode, DestroyNode, RequestPairing, Ask, RequestApproval,
         Reject, RespondInVain, gate, callback
    <3>2. QED
      BY <3>1, <1>2
  <2>3. QED
    BY <2>1, <2>2
<1>5. CASE Callback
  <2>1. CASE ApprovePurchase \/ ConsumePurchase
    BY <1>3, <2>1 DEF ApprovePurchase, ConsumePurchase, Before
  <2>2. CASE CreateInstance \/ DestroyInstance
    BY <1>3, <2>2 DEF CreateInstance, DestroyInstance, Before
  <2>3. CASE CheckClaim \/ IssueKey \/ DeliverKey
    BY <1>3, <2>3 DEF CheckClaim, IssueKey, DeliverKey, Before
  <2>4. CASE End
    BY <1>2, <2>4 DEF End, Return
  <2>5. QED
    BY <1>5, <2>1, <2>2, <2>3, <2>4 DEF Callback
<1>6. ASSUME NEW a \in Approval, Clock(a) \/ ApiThread(a) PROVE EffectsInv'
  BY <1>2, <1>6 DEF Clock, ApiThread, Lapse, LapsePurchase, LapsePairing, SeeDue, ExpireSeen,
     gate, callback
<1>7. CASE (ConfigureCloud /\ UNCHANGED pairings) \/ UNCHANGED vars
  BY <1>2, <1>7 DEF ConfigureCloud, vars, gate, callback
<1>8. CASE Crash
  BY <1>2, <1>8 DEF Crash, CrashGate
<1>9. QED
  BY <1>4, <1>5, <1>6, <1>7, <1>8 DEF Next

\* Nobody is charged, loses a node or gets a key without an approval that the
\* store shows as executed, nor twice for one, for any configuration.
THEOREM EffectsApproved == Spec => []EffectsAreApproved
<1>1. Spec => []GateInv
  BY CommandsUseGate, GateInvariant, PTL
<1>2. Spec => []EffectsInv
  BY <1>1, EffectsInit, EffectsNext, PTL DEF Spec
<1>3. EffectsInv => EffectsAreApproved
  BY DEF EffectsInv
<1>4. QED
  BY <1>2, <1>3, PTL

\* The same of the store's promises, for the commands together.
THEOREM CommandsSafe ==
  Spec => [](InvokedIsConfirmed /\ PendingIsAnswerable) /\ DecisionIsFinal
BY CommandsUseGate, GateSafe, GateFinal, PTL

-----------------------------------------------------------------------------
(* RateLimit *)

\* What is counted for a client, h, are the last of the requests g it got
\* through, and those before are outdated at time m.
Follows(h, g, m) ==
  /\ Len(h) <= Len(g)
  /\ \A k \in 1 .. Len(h) : h[k] = g[Len(g) - Len(h) + k].at
  /\ \A k \in 1 .. Len(g) - Len(h) : g[k].at + Window < m

RateInv ==
  /\ clock \in Times /\ newest \in Times /\ asking \in [Asker -> Maybe(Asking)]
  /\ hits \in [Client -> Seq(Times)] /\ grants \in [Client -> Seq(Grant)]
  /\ \A c \in Client \ dropped : Follows(hits[c], grants[c], newest)
  /\ WindowHolds

LEMMA RateTimes == Times \subseteq Nat /\ Window \in Nat /\ MaxRequests \in Nat \ {0}
BY RateAssumption DEF Times

\* The while loops of allow and _cleanup_locked forget a first part of the
\* window, all of it outdated.
LEMMA RecentIsRest ==
  ASSUME NEW ts \in Seq(Times), NEW moment \in Times
  PROVE  \E n \in 1 .. Len(ts) + 1 :
           /\ Recent(ts, moment) = SubSeq(ts, n, Len(ts))
           /\ \A i \in 1 .. n - 1 : Outdated(ts[i], moment)
<1> DEFINE Stops == {n \in 1 .. Len(ts) + 1 : n \in DOMAIN ts => ~Outdated(ts[n], moment)}
<1>1. Len(ts) \in Nat /\ DOMAIN ts = 1 .. Len(ts)
  OBVIOUS
<1>2. Len(ts) + 1 \in Stops /\ Stops \in SUBSET Nat
  BY <1>1
<1>3. PICK n \in Stops : \A m \in Stops : n <= m
  BY <1>2, LeastOf
<1>4. \A i \in 1 .. n - 1 : Outdated(ts[i], moment)
  <2> SUFFICES ASSUME NEW i \in 1 .. n - 1, ~Outdated(ts[i], moment) PROVE FALSE
    OBVIOUS
  <2>1. i \in Stops
    BY <1>1
  <2>2. QED
    BY <2>1, <1>1, <1>3
<1>5. \E k \in 1 .. Len(ts) + 1 :
        /\ \A i \in 1 .. k - 1 : Outdated(ts[i], moment)
        /\ k \in DOMAIN ts => ~Outdated(ts[k], moment)
  BY <1>3, <1>4
<1>6. QED
  BY <1>5 DEF Recent

LEMMA RecentFollows ==
  ASSUME NEW h \in Seq(Times), NEW g \in Seq(Grant), NEW m \in Times, NEW moment \in Times,
         NEW m2 \in Times, m <= m2, moment <= m2, Follows(h, g, m)
  PROVE  Recent(h, moment) \in Seq(Times) /\ Follows(Recent(h, moment), g, m2) /\ Follows(h, g, m2)
<1>1. PICK n \in 1 .. Len(h) + 1 :
        /\ Recent(h, moment) = SubSeq(h, n, Len(h))
        /\ \A i \in 1 .. n - 1 : Outdated(h[i], moment)
  BY RecentIsRest
<1> DEFINE r == SubSeq(h, n, Len(h))
           d == Len(g) - Len(h)
<1>2. Len(h) \in Nat /\ Len(g) \in Nat /\ d \in Nat /\ n \in Nat \ {0} /\ n <= Len(h) + 1
  BY DEF Follows
<1>3. r \in Seq(Times) /\ Len(r) = Len(h) + 1 - n /\ \A k \in 1 .. Len(r) : r[k] = h[n + k - 1]
  BY <1>2
<1>4. \A k \in 1 .. Len(g) : g[k].at \in Nat
  <2>1. \A k \in 1 .. Len(g) : g[k] \in Grant
    OBVIOUS
  <2>2. QED
    BY <2>1, RateTimes DEF Grant
<1>5. \A k \in 1 .. d : g[k].at + Window < m2
  <2> SUFFICES ASSUME NEW k \in 1 .. d PROVE g[k].at + Window < m2
    OBVIOUS
  <2>1. g[k].at + Window < m /\ k \in 1 .. Len(g)
    BY <1>2 DEF Follows
  <2>2. QED
    BY <2>1, <1>4, RateTimes
<1>6. Follows(h, g, m2)
  BY <1>5 DEF Follows
<1>7. \A k \in 1 .. Len(r) : r[k] = g[Len(g) - Len(r) + k].at
  <2> SUFFICES ASSUME NEW k \in 1 .. Len(r) PROVE r[k] = g[Len(g) - Len(r) + k].at
    OBVIOUS
  <2>1. n + k - 1 \in 1 .. Len(h) /\ d + (n + k - 1) = Len(g) - Len(r) + k
    BY <1>2, <1>3
  <2>2. h[n + k - 1] = g[d + (n + k - 1)].at
    BY <2>1 DEF Follows
  <2>3. QED
    BY <2>1, <2>2, <1>3
<1>8. \A k \in 1 .. Len(g) - Len(r) : g[k].at + Window < m2
  <2> SUFFICES ASSUME NEW k \in 1 .. Len(g) - Len(r) PROVE g[k].at + Window < m2
    OBVIOUS
  <2>1. CASE k <= d
    BY <2>1, <1>2, <1>3, <1>5
  <2>2. CASE k > d
    <3>1. k - d \in 1 .. n - 1 /\ k - d \in 1 .. Len(h) /\ d + (k - d) = k /\ k \in 1 .. Len(g)
      BY <2>2, <1>2, <1>3
    <3>2. h[k - d] = g[k].at
      BY <3>1 DEF Follows
    <3>3. g[k].at + Window < moment
      BY <3>1, <3>2, <1>1 DEF Outdated
    <3>4. QED
      BY <3>1, <3>3, <1>4, RateTimes
  <2>3. QED
    BY <2>1, <2>2, <1>2, <1>3
<1>9. QED
  BY <1>1, <1>2, <1>3, <1>6, <1>7, <1>8 DEF Follows

\* A cleanup leaves the windows of clients that it does not evict as they follow
\* from the requests let through.
LEMMA KeptFollows ==
  ASSUME RateInv, NEW moment \in Times, NEW m2 \in Times, newest <= m2, moment <= m2,
         NEW c \in Client, c \notin dropped, Due(moment) => c \notin Evicted(moment)
  PROVE  Kept(c, moment) \in Seq(Times) /\ Follows(Kept(c, moment), grants[c], m2)
<1>1. /\ hits[c] \in Seq(Times) /\ grants[c] \in Seq(Grant) /\ newest \in Times
      /\ Follows(hits[c], grants[c], newest)
  BY DEF RateInv
<1>2. /\ Recent(hits[c], moment) \in Seq(Times)
      /\ Follows(Recent(hits[c], moment), grants[c], m2) /\ Follows(hits[c], grants[c], m2)
  BY <1>1, RecentFollows
<1>3. QED
  BY <1>1, <1>2 DEF Kept

LEMMA KeptTypes ==
  ASSUME RateInv, NEW moment \in Times, NEW c \in Client
  PROVE  /\ Kept(c, moment) \in Seq(Times)
         /\ Recent(Kept(c, moment), moment) \in Seq(Times)
<1>1. \A ts \in Seq(Times) : Recent(ts, moment) \in Seq(Times)
  <2> SUFFICES ASSUME NEW ts \in Seq(Times) PROVE Recent(ts, moment) \in Seq(Times)
    OBVIOUS
  <2>1. PICK n \in 1 .. Len(ts) + 1 : Recent(ts, moment) = SubSeq(ts, n, Len(ts))
    BY RecentIsRest
  <2>2. QED
    BY <2>1
<1>2. Kept(c, moment) \in Seq(Times)
  BY <1>1 DEF Kept, RateInv
<1>3. QED
  BY <1>1, <1>2

LEMMA RateInitially == RateInit => RateInv
<1> SUFFICES ASSUME RateInit PROVE RateInv
  OBVIOUS
<1>1. 0 \in Times /\ Len(<<>>) = 0 /\ DOMAIN <<>> = {}
  BY RateAssumption DEF Times
<1>2. \A c \in Client : hits[c] = <<>> /\ grants[c] = <<>>
  BY DEF RateInit
<1>3. \A c \in Client \ dropped : Follows(hits[c], grants[c], newest)
  <2>1. Len(<<>>) <= Len(<<>>) /\ 1 .. Len(<<>>) = {} /\ 1 .. Len(<<>>) - Len(<<>>) = {}
    BY <1>1
  <2>2. Follows(<<>>, <<>>, newest)
    BY <2>1 DEF Follows
  <2>3. QED
    BY <2>2, <1>2
<1>4. WindowHolds
  BY <1>1, <1>2 DEF WindowHolds
<1>5. QED
  BY <1>1, <1>3, <1>4 DEF RateInit, RateInv, Maybe

LEMMA AllowStep == ASSUME RateInv, NEW a \in Asker, Allow(a) PROVE RateInv'
<1> DEFINE c == asking[a].client
           moment == asking[a].now
           window == Recent(Kept(c, moment), moment)
           passes == Len(window) < MaxRequests
           entry == [at |-> moment, late |-> moment < newest]
<1>1. c \in Client /\ moment \in Times /\ asking' \in [Asker -> Maybe(Asking)]
  BY DEF Allow, RateInv, Maybe, Asking
<1>2. /\ clock' = clock /\ newest' = (IF moment > newest THEN moment ELSE newest)
      /\ hits' = [d \in Client |->
           IF d # c THEN Kept(d, moment) ELSE IF passes THEN Append(window, moment) ELSE window]
      /\ grants' = IF passes THEN [grants EXCEPT ![c] = Append(@, entry)] ELSE grants
      /\ dropped' = IF Due(moment) THEN dropped \cup Evicted(moment) ELSE dropped
  BY DEF Allow
<1>3. newest \in Times /\ newest' \in Times /\ newest <= newest' /\ moment <= newest'
  <2>1. newest \in Times
    BY DEF RateInv
  <2>2. newest \in Nat /\ moment \in Nat
    BY <2>1, <1>1, RateTimes
  <2>3. QED
    BY <2>1, <2>2, <1>1, <1>2
<1>4. window \in Seq(Times) /\ \A d \in Client : Kept(d, moment) \in Seq(Times)
  BY <1>1, KeptTypes
<1>5. entry \in Grant
  BY <1>1 DEF Grant
<1> HIDE DEF c, moment, window, entry
<1>6. hits' \in [Client -> Seq(Times)]
  <2>1. Append(window, moment) \in Seq(Times)
    BY <1>1, <1>4
  <2>2. QED
    BY <2>1, <1>2, <1>4
<1>7. grants' \in [Client -> Seq(Grant)]
  <2>1. grants \in [Client -> Seq(Grant)]
    BY DEF RateInv
  <2>2. Append(grants[c], entry) \in Seq(Grant)
    BY <2>1, <1>1, <1>5
  <2>3. QED
    BY <2>1, <2>2, <1>2
<1>8. \A d \in Client \ dropped' :
        d \notin dropped /\ Kept(d, moment) \in Seq(Times) /\ Follows(Kept(d, moment), grants[d], newest')
  BY <1>1, <1>2, <1>3, KeptFollows
<1>9. c \notin dropped' => Follows(window, grants[c], newest')
  <2> SUFFICES ASSUME c \notin dropped' PROVE Follows(window, grants[c], newest')
    OBVIOUS
  <2>1. /\ Kept(c, moment) \in Seq(Times) /\ Follows(Kept(c, moment), grants[c], newest')
        /\ grants[c] \in Seq(Grant)
    BY <1>1, <1>8 DEF RateInv
  <2>2. newest' <= newest'
    BY <1>3, RateTimes
  <2>3. QED
    BY <2>1, <2>2, <1>1, <1>3, RecentFollows DEF window
<1>10. ASSUME NEW d \in Client \ dropped' PROVE Follows(hits'[d], grants'[d], newest')
  <2>1. CASE d # c
    BY <2>1, <1>2, <1>8, <1>10 DEF RateInv
  <2>2. CASE d = c /\ ~passes
    BY <2>2, <1>2, <1>9
  <2>3. CASE d = c /\ passes
    <3> DEFINE h == window
               g == grants[c]
    <3>1. h \in Seq(Times) /\ g \in Seq(Grant) /\ Follows(h, g, newest') /\ moment \in Times
      BY <2>3, <1>1, <1>4, <1>9 DEF RateInv
    <3>2. hits'[d] = Append(h, moment) /\ grants'[d] = Append(g, entry) /\ entry.at = moment
      BY <2>3, <1>1, <1>2 DEF RateInv, entry
    <3> HIDE DEF h, g
    <3>3. /\ Len(Append(h, moment)) = Len(h) + 1 /\ Len(Append(g, entry)) = Len(g) + 1
          /\ Len(h) \in Nat /\ Len(g) \in Nat /\ Len(h) <= Len(g)
      BY <3>1 DEF Follows
    <3>4. ASSUME NEW k \in 1 .. Len(h) + 1
          PROVE  Append(h, moment)[k] = Append(g, entry)[Len(g) - Len(h) + k].at
      <4>1. CASE k = Len(h) + 1
        <5>1. Append(h, moment)[k] = moment /\ Append(g, entry)[Len(g) + 1] = entry
          BY <4>1, <3>1
        <5>2. Len(g) - Len(h) + k = Len(g) + 1
          BY <4>1, <3>3
        <5>3. QED
          BY <5>1, <5>2, <3>2
      <4>2. CASE k <= Len(h)
        <5>1. k \in 1 .. Len(h) /\ Len(g) - Len(h) + k \in 1 .. Len(g)
          BY <4>2, <3>3
        <5>2. h[k] = g[Len(g) - Len(h) + k].at
          BY <5>1, <3>1 DEF Follows
        <5>3. QED
          BY <5>1, <5>2, <3>1
      <4>3. QED
        BY <4>1, <4>2, <3>3
    <3>5. ASSUME NEW k \in 1 .. Len(g) - Len(h)
          PROVE  Append(g, entry)[k].at + Window < newest'
      <4>1. k \in 1 .. Len(g)
        BY <3>3
      <4>2. g[k].at + Window < newest'
        BY <3>1 DEF Follows
      <4>3. QED
        BY <4>1, <4>2, <3>1
    <3>6. /\ Len(Append(h, moment)) <= Len(Append(g, entry))
          /\ Len(Append(g, entry)) - Len(Append(h, moment)) = Len(g) - Len(h)
          /\ 1 .. Len(Append(h, moment)) = 1 .. Len(h) + 1
      BY <3>3
    <3>7. Follows(Append(h, moment), Append(g, entry), newest')
      BY <3>4, <3>5, <3>6, Zenon DEF Follows
    <3>8. QED
      BY <3>2, <3>7
  <2>4. QED
    BY <2>1, <2>2, <2>3
<1>11. WindowHolds'
  <2> SUFFICES ASSUME NEW d \in Client \ dropped', NEW n \in DOMAIN grants'[d], ~grants'[d][n].late
               PROVE  Cardinality(InWindow(d, n)') <= MaxRequests
    BY DEF WindowHolds
  <2>1. d \in Client /\ d \notin dropped /\ grants[d] \in Seq(Grant) /\ grants'[d] \in Seq(Grant)
    BY <1>7, <1>8 DEF RateInv
  <2>2. CASE n \in DOMAIN grants[d]
    <3>1. \A k \in 1 .. n : grants'[d][k] = grants[d][k]
      <4>1. grants'[d] \in {grants[d], Append(grants[d], entry)}
        BY <1>2, <2>1 DEF RateInv
      <4>2. \A k \in 1 .. n : k \in 1 .. Len(grants[d])
        BY <2>1, <2>2
      <4>3. QED
        BY <4>1, <4>2, <2>1
    <3>2. n \in 1 .. n
      BY <2>1, <2>2
    <3>3. InWindow(d, n)' = InWindow(d, n)
      BY <3>1, <3>2 DEF InWindow
    <3>4. QED
      BY <2>1, <2>2, <3>1, <3>2, <3>3 DEF RateInv, WindowHolds
  <2>3. CASE n \notin DOMAIN grants[d]
    <3>1. d = c /\ passes /\ grants'[d] = Append(grants[d], entry) /\ n = Len(grants[d]) + 1
      <4>1. d = c /\ passes /\ grants'[d] = Append(grants[d], entry)
        BY <2>1, <2>3, <1>2 DEF RateInv
      <4>2. QED
        BY <4>1, <2>1, <2>3
    <3> DEFINE g == grants[d]
               first == Len(g) - Len(window) + 1
    <3>2. g \in Seq(Grant) /\ Follows(window, g, newest')
      BY <2>1, <3>1, <1>9
    <3>3. /\ Len(g) \in Nat /\ Len(window) \in Nat /\ Len(window) <= Len(g)
          /\ first \in Nat \ {0} /\ n - first + 1 = Len(window) + 1 /\ n \in Nat /\ n >= first
      BY <3>1, <3>2, <1>4 DEF Follows
    <3>4. grants'[d][n] = entry /\ \A k \in 1 .. Len(g) : grants'[d][k] = g[k]
      BY <3>1, <3>2
    <3>5. newest' = moment /\ grants'[d][n].at = moment
      <4>1. ~(moment < newest)
        <5>1. entry.late = (moment < newest)
          BY DEF entry
        <5>2. QED
          BY <5>1, <3>4, Zenon
      <4>2. moment \in Nat /\ newest \in Nat
        BY <1>1, <1>3, RateTimes
      <4>3. QED
        BY <4>1, <4>2, <3>4, <1>2 DEF entry
    <3>6. InWindow(d, n)' \subseteq first .. n
      <4> SUFFICES ASSUME NEW i \in 1 .. n, grants'[d][i].at + Window >= moment, i < first PROVE FALSE
        BY <3>3, <3>5 DEF InWindow
      <4>1. i \in 1 .. Len(g) - Len(window) /\ i \in 1 .. Len(g)
        BY <3>3
      <4>2. g[i].at + Window < moment /\ grants'[d][i] = g[i]
        BY <4>1, <3>2, <3>4, <3>5 DEF Follows
      <4>3. g[i].at \in Nat /\ moment \in Nat /\ Window \in Nat
        <5>1. g[i] \in Grant
          BY <4>1, <3>2
        <5>2. QED
          BY <5>1, <1>1, RateTimes DEF Grant
      <4>4. QED
        BY <4>2, <4>3
    <3>7. IsFiniteSet(first .. n) /\ Cardinality(first .. n) = Len(window) + 1
      <4>1. first \in Int /\ n \in Int /\ ~(first > n)
        BY <3>3
      <4>2. QED
        BY <4>1, <3>3, FS_Interval
    <3>8. /\ Cardinality(InWindow(d, n)') <= Len(window) + 1
          /\ Cardinality(InWindow(d, n)') \in Nat
      BY <3>6, <3>7, FS_Subset, FS_CardinalityType
    <3>9. QED
      BY <3>1, <3>3, <3>8, RateTimes
  <2>4. QED
    BY <2>2, <2>3
<1>12. QED
  BY <1>1, <1>2, <1>3, <1>6, <1>7, <1>10, <1>11 DEF RateInv

LEMMA RateStep == ASSUME RateInv, [RateNext]_rateVars PROVE RateInv'
<1>1. CASE UNCHANGED <<hits, grants, newest, dropped>> /\ asking' \in [Asker -> Maybe(Asking)]
           /\ clock' \in Times
  BY <1>1 DEF RateInv, WindowHolds, InWindow
<1>2. ASSUME Advance \/ UNCHANGED rateVars PROVE RateInv'
  <2>1. clock' \in Times
    BY <1>2, RateAssumption DEF Advance, rateVars, RateInv, Times
  <2>2. QED
    BY <1>1, <1>2, <2>1 DEF Advance, rateVars, RateInv
<1>3. ASSUME NEW a \in Asker, NEW c \in Client, ReadClock(a, c) PROVE RateInv'
  <2>1. [client |-> c, now |-> clock] \in Asking
    BY DEF RateInv, Asking
  <2>2. asking' \in [Asker -> Maybe(Asking)]
    BY <1>3, <2>1 DEF ReadClock, RateInv, Maybe
  <2>3. QED
    BY <1>1, <1>3, <2>2 DEF ReadClock, RateInv
<1>4. QED
  BY <1>2, <1>3, AllowStep DEF RateNext

(* A request that nothing overtook at the lock is let through only as one of at most
   max_requests in the window before it, for any number of clients and threads, any
   limits and any order in which the threads get the lock. *)
THEOREM WindowsHold == RateSpec => []WindowHolds
<1>1. RateInv => WindowHolds
  BY DEF RateInv
<1>2. QED
  BY <1>1, RateInitially, RateStep, PTL DEF RateSpec

-----------------------------------------------------------------------------
(* ModelTraining *)

Once(s) == \A i, j \in DOMAIN s : s[i] = s[j] /\ s[i] # None => i = j

\* What is in the file is known, so a harvest passes it over, before and after
\* a restart.
TrainingInv ==
  /\ history \in Seq(Episode) /\ \A i, j \in DOMAIN history : history[i] = history[j] => i = j
  /\ lines \in Seq(Maybe(Episode)) /\ \A i \in DOMAIN lines : lines[i] \in known \cup {None}
  /\ known \subseteq Episode /\ Once(lines)

\* The greatest of a finite set of natural numbers
LEMMA GreatestOf ==
  ASSUME NEW N \in Nat, NEW S \in SUBSET (1 .. N), S # {}
  PROVE  \E n \in S : \A m \in S : m <= n
<1> DEFINE Bounds == {b \in 0 .. N : \A m \in S : m <= b}
<1>1. N \in Bounds /\ Bounds \in SUBSET Nat
  OBVIOUS
<1>2. PICK b \in Bounds : \A x \in Bounds : b <= x
  BY <1>1, LeastOf
<1>3. b \in S
  <2> SUFFICES ASSUME b \notin S PROVE FALSE
    OBVIOUS
  <2>1. PICK m \in S : TRUE
    OBVIOUS
  <2>2. b \in Nat /\ b # 0
    BY <2>1
  <2>3. b - 1 \in Bounds
    BY <2>2
  <2>4. QED
    BY <1>2, <2>2, <2>3
<1>4. QED
  BY <1>3

\* A finite set of positions has a j-th greatest for every j up to its size.
LEMMA NthGreatest ==
  ASSUME NEW N \in Nat, NEW S \in SUBSET (1 .. N), NEW j \in 1 .. Cardinality(S)
  PROVE  \E i \in S : Cardinality({k \in S : k > i}) = j - 1
<1> DEFINE Above(i) == {k \in S : k > i}
           Bad == {n \in 1 .. Cardinality(S) : \A i \in S : Cardinality(Above(i)) # n - 1}
<1>0. IsFiniteSet(S) /\ Cardinality(S) \in Nat
  <2>1. IsFiniteSet(1 .. N)
    BY FS_Interval
  <2>2. QED
    BY <2>1, FS_Subset, FS_CardinalityType
<1> SUFFICES ASSUME Bad # {} PROVE FALSE
  BY <1>0
<1>1. PICK n \in Bad : \A m \in Bad : n <= m
  <2>1. Bad \in SUBSET Nat
    BY <1>0
  <2>2. QED
    BY <2>1, LeastOf
<1>2. /\ n \in Nat /\ n >= 1 /\ n <= Cardinality(S)
      /\ \A i \in S : Cardinality(Above(i)) # n - 1
      /\ \A m \in 1 .. Cardinality(S) : m < n => \E i \in S : Cardinality(Above(i)) = m - 1
  <2>1. n \in 1 .. Cardinality(S) /\ \A i \in S : Cardinality(Above(i)) # n - 1
    OBVIOUS
  <2>2. ASSUME NEW m \in 1 .. Cardinality(S), m < n
        PROVE  \E i \in S : Cardinality(Above(i)) = m - 1
    <3>1. m \notin Bad
      BY <2>1, <2>2, <1>0, <1>1
    <3>2. QED
      BY <3>1
  <2>3. QED
    BY <2>1, <2>2, <1>0
<1>3. \A i \in S : i \in Nat /\ IsFiniteSet(Above(i)) /\ Cardinality(Above(i)) \in Nat
  BY <1>0, FS_Subset, FS_CardinalityType
<1> HIDE DEF Bad
<1>4. CASE n = 1
  <2>1. S # {}
    BY <1>0, <1>2, FS_EmptySet
  <2>2. PICK i \in S : \A m \in S : m <= i
    BY <2>1, GreatestOf
  <2>3. \A m \in S : ~(m > i)
    BY <2>2, <1>3
  <2>4. Above(i) = {}
    BY <2>3
  <2>5. Cardinality(Above(i)) = n - 1
    BY <2>4, <1>4, FS_EmptySet
  <2>6. QED
    BY <2>5, <1>2
<1>5. CASE n > 1
  <2>1. PICK i \in S : Cardinality(Above(i)) = (n - 1) - 1
    <3>1. n - 1 \in 1 .. Cardinality(S) /\ n - 1 < n
      BY <1>0, <1>2, <1>5
    <3>2. QED
      BY <3>1, <1>2
  <2> DEFINE Below == {k \in S : k < i}
             Rest == Above(i) \cup {i}
  <2>2. Cardinality(Rest) = n - 1
    <3>1. i \notin Above(i)
      BY <1>3
    <3>2. Cardinality(Rest) = Cardinality(Above(i)) + 1
      BY <3>1, <1>3, FS_AddElement
    <3>3. QED
      BY <3>2, <2>1, <1>2
  <2>3. Below # {}
    <3> SUFFICES ASSUME Below = {} PROVE FALSE
      OBVIOUS
    <3>1. \A k \in S : k > i \/ k = i
      BY <1>3
    <3>2. S = Rest
      BY <3>1
    <3>3. QED
      BY <3>2, <2>2, <1>2
  <2>4. PICK b \in Below : \A m \in Below : m <= b
    <3>1. Below \in SUBSET (1 .. N)
      OBVIOUS
    <3>2. QED
      BY <3>1, <2>3, GreatestOf
  <2>5. Above(b) = Rest
    <3>1. \A k \in S : k > b <=> (k > i \/ k = i)
      <4> SUFFICES ASSUME NEW k \in S PROVE k > b <=> (k > i \/ k = i)
        OBVIOUS
      <4>1. k \in Nat /\ i \in Nat /\ b \in Nat /\ b < i
        BY <1>3
      <4>2. k < i => k <= b
        BY <2>4
      <4>3. QED
        BY <4>1, <4>2
    <3>2. QED
      BY <3>1
  <2>6. b \in S /\ Cardinality(Above(b)) = n - 1
    BY <2>2, <2>5
  <2>7. QED
    BY <2>6, <1>2
<1>6. QED
  BY <1>2, <1>4, <1>5

\* harvest offers each episode once, and none whose id is known.
LEMMA UnharvestedIsNew ==
  ASSUME TrainingInv
  PROVE  /\ Unharvested \in Seq(Episode)
         /\ \A j \in DOMAIN Unharvested : Unharvested[j] \notin known
         /\ \A i, j \in DOMAIN Unharvested : Unharvested[i] = Unharvested[j] => i = j
<1> DEFINE size == Len(history)
           recent == {i \in 1 .. size : i > size - HarvestLimit /\ history[i] \notin known}
           N == Cardinality(recent)
           pick(j) == CHOOSE i \in recent : Cardinality({k \in recent : k > i}) = j - 1
<1>1. size \in Nat /\ DOMAIN history = 1 .. size /\ recent \in SUBSET (1 .. size)
  BY DEF TrainingInv
<1>2. N \in Nat
  <2>1. IsFiniteSet(1 .. size)
    BY <1>1, FS_Interval
  <2>2. QED
    BY <2>1, <1>1, FS_Subset, FS_CardinalityType
<1>3. Unharvested = [j \in 1 .. N |-> history[pick(j)]]
  BY DEF Unharvested
<1>4. ASSUME NEW j \in 1 .. N
      PROVE  pick(j) \in recent /\ Cardinality({k \in recent : k > pick(j)}) = j - 1
  <2>1. \E i \in recent : Cardinality({k \in recent : k > i}) = j - 1
    <3> HIDE DEF recent
    <3>1. QED
      BY <1>1, NthGreatest
  <2> HIDE DEF recent
  <2>2. QED
    BY <2>1
<1>5. \A j \in 1 .. N : history[pick(j)] \in Episode /\ history[pick(j)] \notin known
  <2> SUFFICES ASSUME NEW j \in 1 .. N
               PROVE  history[pick(j)] \in Episode /\ history[pick(j)] \notin known
    OBVIOUS
  <2>1. pick(j) \in recent
    BY <1>4
  <2> HIDE DEF pick
  <2>2. QED
    BY <2>1, <1>1 DEF TrainingInv
<1>6. \A i, j \in 1 .. N : history[pick(i)] = history[pick(j)] => i = j
  <2> SUFFICES ASSUME NEW i \in 1 .. N, NEW j \in 1 .. N, history[pick(i)] = history[pick(j)]
               PROVE  i = j
    OBVIOUS
  <2>1. /\ pick(i) \in recent /\ Cardinality({k \in recent : k > pick(i)}) = i - 1
        /\ pick(j) \in recent /\ Cardinality({k \in recent : k > pick(j)}) = j - 1
    BY <1>4
  <2>2. pick(i) \in DOMAIN history /\ pick(j) \in DOMAIN history
    BY <2>1, <1>1
  <2>3. pick(i) = pick(j)
    BY <2>2 DEF TrainingInv
  <2> HIDE DEF pick, recent
  <2>4. i - 1 = j - 1
    BY <2>1, <2>3
  <2>5. QED
    BY <2>4, <1>2
<1> HIDE DEF pick, recent, N
<1>7. DOMAIN Unharvested = 1 .. N /\ \A j \in 1 .. N : Unharvested[j] = history[pick(j)]
  BY <1>3
<1>8. Unharvested \in Seq(Episode)
  BY <1>2, <1>3, <1>5
<1>9. QED
  BY <1>5, <1>6, <1>7, <1>8

\* Writing new examples, the first of them perhaps glued to a line cut short,
\* leaves each episode in the file once.
LEMMA WrittenOnce ==
  ASSUME TrainingInv, NEW s \in Seq(Episode),
         \A j \in DOMAIN s : s[j] \notin known,
         \A i, j \in DOMAIN s : s[i] = s[j] => i = j
  PROVE  /\ Written(s) \in Seq(Maybe(Episode)) /\ Once(Written(s))
         /\ \A i \in DOMAIN Written(s) : Written(s)[i] \in known \cup {s[j] : j \in DOMAIN s} \cup {None}
<1>1. PICK t \in Seq(Maybe(Episode)) :
        /\ Written(s) = lines \o t /\ Len(t) = Len(s)
        /\ \A i \in 1 .. Len(t) : t[i] \in {s[i], None}
  <2>1. CASE cut /\ s # <<>>
    <3> DEFINE t == <<None>> \o Tail(s)
    <3>1. /\ Tail(s) \in Seq(Episode) /\ Len(Tail(s)) = Len(s) - 1 /\ Len(s) \in Nat /\ Len(s) > 0
          /\ \A i \in 1 .. Len(s) - 1 : Tail(s)[i] = s[i + 1]
      BY <2>1
    <3>2. Tail(s) \in Seq(Maybe(Episode)) /\ <<None>> \in Seq(Maybe(Episode))
      <4>1. Maybe(Episode) = Episode \cup {None}
        BY DEF Maybe
      <4>2. \A x \in Seq(Episode) : x \in Seq(Episode \cup {None})
        OBVIOUS
      <4>3. <<None>> \in Seq(Episode \cup {None})
        OBVIOUS
      <4>4. QED
        BY <4>1, <4>2, <4>3, <3>1
    <3>3. t \in Seq(Maybe(Episode)) /\ Len(t) = Len(s)
      BY <3>1, <3>2
    <3>4. \A i \in 1 .. Len(t) : t[i] \in {s[i], None}
      <4> SUFFICES ASSUME NEW i \in 1 .. Len(s) PROVE t[i] \in {s[i], None}
        BY <3>3
      <4>1. CASE i = 1
        BY <4>1, <3>2
      <4>2. CASE i > 1
        <5>1. t[i] = Tail(s)[i - 1] /\ i - 1 \in 1 .. Len(s) - 1
          BY <4>2, <3>1, <3>2
        <5>2. QED
          BY <5>1, <3>1
      <4>3. QED
        BY <4>1, <4>2
    <3>5. Written(s) = lines \o t
      <4>1. Written(s) = lines \o <<None>> \o Tail(s)
        BY <2>1 DEF Written
      <4>2. QED
        BY <4>1, <3>2 DEF TrainingInv
    <3>6. QED
      BY <3>3, <3>4, <3>5
  <2>2. CASE ~(cut /\ s # <<>>)
    <3>1. Written(s) = lines \o s
      BY <2>2 DEF Written
    <3>2. s \in Seq(Maybe(Episode))
      BY DEF Maybe
    <3>3. QED
      BY <3>1, <3>2
  <2>3. QED
    BY <2>1, <2>2
<1> DEFINE L == Len(lines)
           w == lines \o t
<1>2. lines \in Seq(Maybe(Episode)) /\ L \in Nat /\ Len(t) \in Nat /\ DOMAIN s = 1 .. Len(t)
  BY <1>1 DEF TrainingInv
<1>3. /\ w \in Seq(Maybe(Episode)) /\ DOMAIN w = 1 .. L + Len(t)
      /\ \A i \in 1 .. L : w[i] = lines[i]
      /\ \A i \in L + 1 .. L + Len(t) : w[i] = t[i - L]
  <2>1. w \in Seq(Maybe(Episode)) /\ Len(w) = L + Len(t)
    BY <1>2, ConcatProperties
  <2>2. /\ \A i \in 1 .. L : w[i] = lines[i]
        /\ \A i \in 1 .. Len(t) : w[i + L] = t[i]
    BY <1>2
  <2>3. \A i \in L + 1 .. L + Len(t) : i - L \in 1 .. Len(t) /\ (i - L) + L = i
    BY <1>2
  <2> HIDE DEF w, L
  <2>4. QED
    BY <2>1, <2>2, <2>3
<1>4. \A i \in 1 .. L : i \in DOMAIN lines /\ lines[i] \in known \cup {None}
  BY <1>2 DEF TrainingInv
<1> HIDE DEF w, L
<1>5. \A i \in L + 1 .. L + Len(t) : i - L \in DOMAIN s /\ w[i] \in {s[i - L], None}
  <2> SUFFICES ASSUME NEW i \in L + 1 .. L + Len(t)
               PROVE  i - L \in DOMAIN s /\ w[i] \in {s[i - L], None}
    OBVIOUS
  <2>1. i - L \in 1 .. Len(t)
    BY <1>2
  <2>2. QED
    BY <2>1, <1>1, <1>2, <1>3
<1>6. \A i \in DOMAIN w : i \in 1 .. L \/ i \in L + 1 .. L + Len(t)
  BY <1>2, <1>3
<1>7. Once(w)
  <2> SUFFICES ASSUME NEW i \in DOMAIN w, NEW j \in DOMAIN w, w[i] = w[j], w[i] # None
               PROVE  i = j
    BY DEF Once
  <2>1. CASE i \in 1 .. L /\ j \in 1 .. L
    BY <2>1, <1>3, <1>4 DEF TrainingInv, Once
  <2>2. CASE i \in L + 1 .. L + Len(t) /\ j \in L + 1 .. L + Len(t)
    <3>1. s[i - L] = s[j - L] /\ i - L \in DOMAIN s /\ j - L \in DOMAIN s
      BY <2>2, <1>5
    <3>2. i - L = j - L
      BY <3>1
    <3>3. QED
      BY <3>2, <2>2, <1>2
  <2>3. CASE i \in 1 .. L /\ j \in L + 1 .. L + Len(t)
    <3>1. w[i] \in known /\ w[j] \notin known
      BY <2>3, <1>3, <1>4, <1>5
    <3>2. QED
      BY <3>1
  <2>4. CASE j \in 1 .. L /\ i \in L + 1 .. L + Len(t)
    <3>1. w[j] \in known /\ w[i] \notin known
      BY <2>4, <1>3, <1>4, <1>5
    <3>2. QED
      BY <3>1
  <2>5. QED
    BY <1>6, <2>1, <2>2, <2>3, <2>4
<1>8. \A i \in DOMAIN w : w[i] \in known \cup {s[j] : j \in DOMAIN s} \cup {None}
  BY <1>3, <1>4, <1>5, <1>6
<1>9. Written(s) = w
  BY <1>1 DEF w
<1>10. QED
  BY <1>3, <1>7, <1>8, <1>9

LEMMA TrainingInitially == TrainingInit => TrainingInv
BY DEF TrainingInit, TrainingInv, Once

\* A start of the store knows what stands in the file it finds.
LEMMA ReloadStep ==
  ASSUME TrainingInv, NEW l \in Seq(Maybe(Episode)), Once(l), NEW c, NEW file, Reload(l, c, file)
  PROVE  TrainingInv'
<1>1. lines' = l /\ known' = {e \in Episode : Occurs(e, l)} /\ history' = history
  BY DEF Reload, KnownAfterLoad
<1>2. \A i \in DOMAIN l : l[i] \in {e \in Episode : Occurs(e, l)} \cup {None}
  <2> SUFFICES ASSUME NEW i \in DOMAIN l, l[i] # None PROVE l[i] \in Episode /\ Occurs(l[i], l)
    OBVIOUS
  <2>1. l[i] \in Maybe(Episode)
    OBVIOUS
  <2>2. QED
    BY <2>1 DEF Maybe, Occurs
<1>3. QED
  BY <1>1, <1>2 DEF TrainingInv

LEMMA TrainingStep == ASSUME TrainingInv, [TrainingNext]_trainingVars PROVE TrainingInv'
<1> DEFINE New == Unharvested
           Ids == {New[j] : j \in DOMAIN New}
<1>1. /\ New \in Seq(Episode) /\ \A j \in DOMAIN New : New[j] \notin known
      /\ \A i, j \in DOMAIN New : New[i] = New[j] => i = j
  BY UnharvestedIsNew
<1>2. Ids \subseteq Episode
  BY <1>1
<1> HIDE DEF New
<1>3. ASSUME UNCHANGED <<history, lines, known>> PROVE TrainingInv'
  BY <1>3 DEF TrainingInv
<1>4. ASSUME NEW e \in Episode, CompleteGoal(e) PROVE TrainingInv'
  <2>1. /\ history' = Append(history, e) /\ UNCHANGED <<lines, known>>
        /\ \A i \in DOMAIN history : history[i] # e
    BY <1>4 DEF CompleteGoal, Occurs
  <2>2. history \in Seq(Episode) /\ \A i, j \in DOMAIN history : history[i] = history[j] => i = j
    BY DEF TrainingInv
  <2>3. history' \in Seq(Episode) /\ \A i, j \in DOMAIN history' : history'[i] = history'[j] => i = j
    BY <2>1, <2>2
  <2>4. QED
    BY <2>1, <2>3 DEF TrainingInv
<1>5. ASSUME Harvest PROVE TrainingInv'
  <2>1. lines' = Written(New) /\ known' = known \cup Ids /\ history' = history
    BY <1>5 DEF Harvest, New
  <2>2. /\ Written(New) \in Seq(Maybe(Episode)) /\ Once(Written(New))
        /\ \A i \in DOMAIN Written(New) : Written(New)[i] \in known \cup Ids \cup {None}
    BY <1>1, WrittenOnce
  <2>3. QED
    BY <2>1, <2>2, <1>2 DEF TrainingInv
<1>6. ASSUME HarvestFails PROVE TrainingInv'
  <2>1. known' = known \cup Ids /\ UNCHANGED <<history, lines>>
    BY <1>6 DEF HarvestFails, New
  <2>2. QED
    BY <2>1, <1>2 DEF TrainingInv
<1>7. ASSUME CrashTraining \/ CrashInSetActive PROVE TrainingInv'
  BY <1>7, ReloadStep DEF CrashTraining, CrashInSetActive, TrainingInv
<1>8. ASSUME CrashInHarvest PROVE TrainingInv'
  <2>1. PICK n \in 0 .. Len(New) - 1 : Reload(Written(SubSeq(New, 1, n)), TRUE, activeFile)
    BY <1>8 DEF CrashInHarvest, New
  <2> DEFINE s == SubSeq(New, 1, n)
  <2>2. /\ s \in Seq(Episode) /\ DOMAIN s = 1 .. n
        /\ \A i \in 1 .. n : s[i] = New[i] /\ i \in DOMAIN New
    BY <1>1
  <2>3. /\ \A j \in DOMAIN s : s[j] \notin known
        /\ \A i, j \in DOMAIN s : s[i] = s[j] => i = j
    BY <2>2, <1>1
  <2> HIDE DEF s
  <2>4. Written(s) \in Seq(Maybe(Episode)) /\ Once(Written(s))
    BY <2>2, <2>3, WrittenOnce
  <2>5. Reload(Written(s), TRUE, activeFile)
    BY <2>1 DEF s
  <2>6. QED
    BY <2>4, <2>5, ReloadStep
<1>9. ASSUME \/ BuildModel \/ NotifyIfNewlyReady \/ AskPromotion \/ CancelPromotion
             \/ ExecutePromote \/ Demote \/ UNCHANGED trainingVars
      PROVE  UNCHANGED <<history, lines, known>>
  BY <1>9 DEF BuildModel, NotifyIfNewlyReady, AskPromotion, CancelPromotion, ExecutePromote, Demote,
              trainingVars
<1>10. QED
  BY <1>3, <1>4, <1>5, <1>6, <1>7, <1>8, <1>9 DEF TrainingNext

(* No episode is in the training file twice, for any number of episodes, harvests,
   failed writes and crashes: what is in the file is known to the store, in the running
   process and after every restart. *)
THEOREM EpisodesOnce == TrainingSpec => []EachEpisodeOnce
<1>1. TrainingInv => EachEpisodeOnce
  BY DEF TrainingInv, Once, EachEpisodeOnce
<1>2. QED
  BY <1>1, TrainingInitially, TrainingStep, PTL DEF TrainingSpec
=============================================================================
