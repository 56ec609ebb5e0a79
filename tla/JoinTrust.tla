----------------------------- MODULE JoinTrust ------------------------------
(***************************************************************************)
(* How a node joins a cell: the request it posts (bootstrap_client.py,     *)
(* bootstrap_server.py), the store of pending requests (join_requests.py), *)
(* the administrator's approval that grants mTLS trust (trust_store.py,    *)
(* cluster_telegram_commands.py), the joiner's polling, and what it takes  *)
(* over from the host once the trust is mutual (mtls_join_client.py,       *)
(* snapshot.py, peer_directory.py), with node_runtime.py composing and     *)
(* restarting both sides.                                                  *)
(*                                                                         *)
(* There is one host.  Commands and approved callbacks run on its one      *)
(* Telegram polling thread, requests and polls on threads of their own.    *)
(***************************************************************************)
EXTENDS Optional, Naturals, FiniteSets

CONSTANTS
  Joiner, JoinId,
  Skill,          \* capabilities and facts of the host
  MaxAge,         \* max_age_seconds of a request, in ticks
  MaxJoinNow,     \* bound: the clock stops here
  MaxJoinRestart, \* bound: restarts of either side
  MaxReissue      \* bound: new certificates of a joiner

ASSUME JoinAssumption == {MaxAge, MaxJoinNow, MaxJoinRestart, MaxReissue} \subseteq Nat

VARIABLES
  joinNow, joinRestarts,
  \* the host
  requests,     \* PendingJoinStore._requests
  requestFile,  \* its file: the requests pending when it was last written
  trust,        \* TrustStore._peers: the certificate trusted for a node
  trustFile,    \* its file
  context,      \* the certificates the running TLS server accepts
  granting,     \* the approved callback that is running
  \* the joiners
  serial,       \* the current certificate of a joiner
  joiner

joinVars == <<joinNow, joinRestarts, requests, requestFile, trust, trustFile, context,
              granting, serial, joiner>>

Cert == [node : Joiner, serial : 0 .. MaxReissue]
PendingJoinRequest ==
  [node : Joiner, cert : Cert, status : {"pending", "approved", "rejected", "expired"},
   at : 0 .. MaxJoinNow]
Approving == [id : JoinId, granted : BOOLEAN]
ASSUME NoRequestAssumption ==
  None \notin JoinId \cup Cert \cup PendingJoinRequest \cup Approving

\* phase of join_cluster; whether the host is trusted and accepted by the joiner's own
\* running TLS server, the file peers.json (written by the trust store and by the peer
\* directory), and what was taken over
JoinerState ==
  [phase : {"new", "waiting", "approved", "trusting", "joined", "failed", "unusable"},
   id : Maybe(JoinId), trusts : BOOLEAN, serves : BOOLEAN,
   file : {"none", "trust", "directory"}, skills : SUBSET Skill]

JoinTypeOK ==
  /\ joinNow \in 0 .. MaxJoinNow /\ joinRestarts \in 0 .. MaxJoinRestart
  /\ requests \in [JoinId -> Maybe(PendingJoinRequest)] /\ requestFile \in [JoinId -> Maybe(PendingJoinRequest)]
  /\ trust \in [Joiner -> Maybe(Cert)] /\ trustFile \in [Joiner -> Maybe(Cert)]
  /\ context \subseteq Cert /\ granting \in Maybe(Approving)
  /\ serial \in [Joiner -> 0 .. MaxReissue] /\ joiner \in [Joiner -> JoinerState]

JoinInit ==
  /\ joinNow = 0 /\ joinRestarts = 0
  /\ requests = [id \in JoinId |-> None] /\ requestFile = requests
  /\ trust = [j \in Joiner |-> None] /\ trustFile = trust
  /\ context = {} /\ granting = None
  /\ serial = [j \in Joiner |-> 0]
  /\ joiner = [j \in Joiner |->
       [phase |-> "new", id |-> None, trusts |-> FALSE, serves |-> FALSE, file |-> "none",
        skills |-> {}]]

hostTrust == <<trust, trustFile, context>>
clocks == <<joinNow, joinRestarts>>

-----------------------------------------------------------------------------
(* The store of pending requests *)

Pending(r) == r # None /\ r.status = "pending"

\* _expire_due
PastTtl(r) == Pending(r) /\ joinNow - r.at > MaxAge
Expire(rs) == [id \in JoinId |-> IF PastTtl(rs[id]) THEN [rs[id] EXCEPT !.status = "expired"] ELSE rs[id]]

\* _persist
Saved(rs) == [id \in JoinId |-> IF Pending(rs[id]) THEN rs[id] ELSE None]

\* The store becomes rs and its file follows, as after every change of it.
Store(rs) == requests' = rs /\ requestFile' = IF rs = requests THEN requestFile ELSE Saved(rs)

\* mark_approved and mark_rejected
Mark(id, status) ==
  LET rs == Expire(requests) IN
  IF Pending(rs[id]) THEN [rs EXCEPT ![id].status = status] ELSE rs

-----------------------------------------------------------------------------
(* Requests and polls *)

\* own_identity_payload: the certificate a joiner has
OwnCert(j) == [node |-> j, serial |-> serial[j]]

\* create
Created(j, id) ==
  [requests EXCEPT ![id] = [node |-> j, cert |-> OwnCert(j), status |-> "pending", at |-> joinNow]]

\* do_POST: every request gets an id of its own
TakeRequest(j, id) ==
  /\ requests[id] = None
  /\ \A k \in Joiner : joiner[k].id # id
  /\ Store(Created(j, id))

\* request_join.  When the answer is lost the request stays with the host, and the
\* joiner does not know its id.
RequestJoin(j, id, heard) ==
  /\ joiner[j].phase = "new"
  /\ TakeRequest(j, id)
  /\ joiner' = [joiner EXCEPT ![j] =
       IF heard THEN [@ EXCEPT !.phase = "waiting", !.id = id] ELSE [@ EXCEPT !.phase = "failed"]]
  /\ UNCHANGED <<clocks, hostTrust, granting, serial>>

\* do_GET
StatusAnswer(r) == IF r = None THEN "unknown" ELSE r.status

\* One poll: what the joiner makes of the answer.  A request the store does not know,
\* or that has expired, leaves the joiner polling.
Poll(j) ==
  LET rs == Expire(requests)
      answer == StatusAnswer(rs[joiner[j].id])
  IN
  /\ joiner[j].phase = "waiting"
  /\ Store(rs)
  /\ joiner' = [joiner EXCEPT ![j].phase =
       IF answer = "approved" THEN "approved" ELSE IF answer = "rejected" THEN "failed" ELSE @]
  /\ <<requests, joiner>>' # <<requests, joiner>>
  /\ UNCHANGED <<clocks, hostTrust, granting, serial>>

\* max_wait_seconds have passed, or the host cannot be reached.
GiveUpJoin(j) ==
  /\ joiner[j].phase = "waiting"
  /\ joiner' = [joiner EXCEPT ![j].phase = "failed"]
  /\ UNCHANGED <<clocks, requests, requestFile, hostTrust, granting, serial>>

-----------------------------------------------------------------------------
(* The administrator *)

\* add_peer refuses another certificate for a node it knows.
AcceptsCert(c) == trust[c.node] \in {None, c}

\* _execute_approve up to its check; an unacceptable certificate ends it in an
\* exception.
ExecuteApprove(id) ==
  LET rs == Expire(requests) IN
  /\ granting = None /\ Pending(requests[id])
  /\ Store(rs)
  /\ granting' = IF Pending(rs[id]) /\ AcceptsCert(rs[id].cert)
                    THEN [id |-> id, granted |-> FALSE] ELSE None
  /\ <<requests, granting>>' # <<requests, granting>>
  /\ UNCHANGED <<clocks, hostTrust, serial, joiner>>

\* Mutant of KeepTrust: save is left out.
KeepTrustInMemory(t) == trust' = t /\ UNCHANGED trustFile

\* add_peer and save
KeepTrust(t) == trust' = t /\ trustFile' = t

CertsOf(t) == {t[j] : j \in Joiner} \ {None}

\* add_peer, save, build_trust_bundle and refresh_trust
GrantTrust ==
  /\ granting # None /\ ~granting.granted
  /\ LET c == requests[granting.id].cert IN
     /\ KeepTrust([trust EXCEPT ![c.node] = c])
     /\ context' = context \cup CertsOf(trust')
  /\ granting' = [granting EXCEPT !.granted = TRUE]
  /\ UNCHANGED <<clocks, requests, requestFile, serial, joiner>>

\* Mutant of MayMark: the request is marked before the trust is granted.
MayMarkAtOnce == granting # None

\* Trust is granted in full before the request is marked.
MayMark == granting # None /\ granting.granted

\* The rest of _execute_approve: mark_approved
MarkApproved ==
  /\ MayMark
  /\ Store(Mark(granting.id, "approved"))
  /\ granting' = None
  /\ UNCHANGED <<clocks, hostTrust, serial, joiner>>

\* _cmd_reject_peer
RejectPeer(id) ==
  /\ granting = None /\ Pending(requests[id])
  /\ Store(Mark(id, "rejected"))
  /\ UNCHANGED <<clocks, hostTrust, granting, serial, joiner>>

-----------------------------------------------------------------------------
(* The joiner goes on *)

\* join after the approval: the host is trusted and saved, then register_node
\* writes the peer directory to the same file.
TrustHost(j) ==
  /\ joiner[j].phase = "approved"
  /\ joiner' = [joiner EXCEPT ![j] =
       [@ EXCEPT !.phase = "trusting", !.trusts = TRUE, !.file = "directory"]]
  /\ UNCHANGED <<clocks, requests, requestFile, hostTrust, granting, serial>>

\* The host's TLS server lets a joiner's request through to its handler.
Served(j) == OwnCert(j) \in context

\* build_capability_snapshot and build_semantic_snapshot: all there is
HostSnapshot == Skill

\* apply_capability_snapshot and apply_semantic_snapshot: cached under their own names
TakeOver(skills, snapshot) == skills \cup snapshot

\* fetch_and_apply_snapshot: no answer counts as an empty one
Fetched(skills, answered) == IF answered THEN TakeOver(skills, HostSnapshot) ELSE skills

\* The rest of join and join_cluster: the joiner's own server accepts the host from now on.
FinishJoin(j, answered) ==
  /\ joiner[j].phase = "trusting"
  /\ answered => Served(j)
  /\ joiner' = [joiner EXCEPT ![j] =
       [@ EXCEPT !.phase = "joined", !.serves = TRUE,
                 !.skills = Fetched(joiner[j].skills, answered)]]
  /\ UNCHANGED <<clocks, requests, requestFile, hostTrust, granting, serial>>

\* The process ends between the two writes of peers.json.
CrashInJoin(j) ==
  /\ joiner[j].phase = "approved" /\ joinRestarts < MaxJoinRestart
  /\ joinRestarts' = joinRestarts + 1
  /\ joiner' = [joiner EXCEPT ![j] =
       [@ EXCEPT !.phase = "new", !.id = None, !.trusts = TRUE, !.serves = TRUE, !.file = "trust"]]
  /\ UNCHANGED <<joinNow, requests, requestFile, hostTrust, granting, serial>>

\* compose_node on a joiner.  TrustStore reads whatever peers.json holds, and
\* build_trust_bundle cannot make a bundle of the peer directory's.
ComposeJoiner(j) ==
  /\ joiner[j].phase # "new" /\ joinRestarts < MaxJoinRestart
  /\ joinRestarts' = joinRestarts + 1
  /\ joiner' = [joiner EXCEPT ![j] =
       [@ EXCEPT !.phase = IF joiner[j].phase = "unusable" \/ joiner[j].file = "directory"
                             THEN "unusable" ELSE "new",
                 !.id = None, !.trusts = joiner[j].file = "trust",
                 !.serves = joiner[j].file = "trust"]]
  /\ UNCHANGED <<joinNow, requests, requestFile, hostTrust, granting, serial>>

\* A joiner whose transport directory is gone makes itself a new certificate.
Reissue(j) ==
  /\ joiner[j].phase \in {"new", "failed"} /\ serial[j] < MaxReissue
  /\ serial' = [serial EXCEPT ![j] = @ + 1]
  /\ joiner' = [joiner EXCEPT ![j].phase = "new", ![j].id = None]
  /\ UNCHANGED <<clocks, requests, requestFile, hostTrust, granting>>

\* _load keeps the requests still pending.
LoadRequests == requests' = Expire(requestFile) /\ requestFile' = Saved(requests')

\* compose_node and start_node on the host
ComposeHost ==
  /\ joinRestarts < MaxJoinRestart
  /\ joinRestarts' = joinRestarts + 1
  /\ LoadRequests
  /\ trust' = trustFile /\ context' = CertsOf(trustFile)
  /\ granting' = None
  /\ UNCHANGED <<joinNow, trustFile, serial, joiner>>

JoinTick ==
  /\ joinNow < MaxJoinNow
  /\ joinNow' = joinNow + 1
  /\ UNCHANGED <<joinRestarts, requests, requestFile, hostTrust, granting, serial, joiner>>

JoinNext ==
  \/ JoinTick \/ ComposeHost \/ GrantTrust \/ MarkApproved
  \/ \E id \in JoinId :
       \/ ExecuteApprove(id) \/ RejectPeer(id)
       \/ \E j \in Joiner, heard \in BOOLEAN : RequestJoin(j, id, heard)
  \/ \E j \in Joiner :
       \/ Poll(j) \/ GiveUpJoin(j) \/ TrustHost(j) \/ CrashInJoin(j) \/ ComposeJoiner(j) \/ Reissue(j)
       \/ \E answered \in BOOLEAN : FinishJoin(j, answered)

JoinSpec == JoinInit /\ [][JoinNext]_joinVars

-----------------------------------------------------------------------------
(* Properties *)

\* A poller that reads "approved" connects at once: by then the running TLS
\* server accepts its certificate, whatever expires or is answered meanwhile.
ApprovedMeansTrusted ==
  \A id \in JoinId :
    requests[id] # None /\ requests[id].status = "approved" => requests[id].cert \in context

\* Once a join is through, each side's running TLS server accepts the other, and the
\* host goes on doing so when it restarts with the certificate it approved.
JoinIsMutual ==
  \A j \in Joiner : joiner[j].phase = "joined" =>
    /\ joiner[j].trusts /\ joiner[j].serves
    /\ trust[j] # None
    /\ trust[j] \in context
=============================================================================
