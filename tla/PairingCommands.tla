-------------------------- MODULE PairingCommands ---------------------------
(***************************************************************************)
(* control_plane_telegram_commands.py and ControlPlanePairingStore.  The   *)
(* store has no lock: while the polling thread creates and claims, API     *)
(* threads (verify_user_key) run expire_due, which looks at a status and   *)
(* later overwrites it.  A pairing has the id of its approval.             *)
(***************************************************************************)
EXTENDS AdminCallbacks

VARIABLES
  pairing,  \* the status of a pairing (on disk)
  pairDue,  \* the pairings whose expires_at has passed
  seen      \* the pairings an API thread has seen pending and due, and will expire

pairings == <<pairing, pairDue, seen>>

PairingStatus == {"none", "pending", "active", "expired"}
PairingJob == [kind : {"pair"}]

PairingTypeOK ==
  /\ pairing \in [Approval -> PairingStatus]
  /\ pairDue \subseteq Approval
  /\ seen \subseteq Approval

PairingInit ==
  /\ pairing = [a \in Approval |-> "none"]
  /\ pairDue = {}
  /\ seen = {}

\* expire_due on the polling thread
ExpirePairings ==
  [a \in Approval |-> IF a \in pairDue /\ pairing[a] = "pending" THEN "expired" ELSE pairing[a]]

\* /pair_control_plane: the claim is created, and the approval is asked for
\* unless posting the claim's hash to the panel raises.
RequestPairing(a, c) ==
  /\ Fresh(a)
  /\ pairing' = [ExpirePairings EXCEPT ![a] = "pending"]
  /\ \/ Ask(a, c, [kind |-> "pair"])
     \/ job' = [job EXCEPT ![a] = [kind |-> "pair"]] /\ UNCHANGED <<gate, step, effects>>
  /\ UNCHANGED <<pairDue, seen>>

\* consume_claim_and_issue_key up to its test, which raises or goes on
CheckClaim ==
  /\ doing # None
  /\ pairing' = ExpirePairings
  /\ \/ ExpirePairings[doing] = "pending" /\ Goes("claim", "issue", 0)
     \/ ExpirePairings[doing] # "pending" /\ Goes("claim", "raises", 0)
  /\ UNCHANGED <<pairDue, seen>>

\* and from there on: the status is not looked at again
IssueKey ==
  /\ Goes("issue", "deliver", 1)
  /\ pairing' = [pairing EXCEPT ![doing] = "active"]
  /\ UNCHANGED <<pairDue, seen>>

\* Posting the key to the panel succeeds or raises.
DeliverKey ==
  /\ Goes("deliver", "returns", 0) \/ Goes("deliver", "raises", 0)
  /\ UNCHANGED pairings

\* expires_at of a pairing passes.
LapsePairing(a) ==
  /\ pairing[a] # "none" /\ a \notin pairDue
  /\ pairDue' = pairDue \cup {a}
  /\ UNCHANGED <<gate, callback, pairing, seen>>

\* The two halves of expire_due on an API thread
SeeDue(a) ==
  /\ pairing[a] = "pending" /\ a \in pairDue /\ a \notin seen
  /\ seen' = seen \cup {a}
  /\ UNCHANGED <<gate, callback, pairing, pairDue>>

ExpireSeen(a) ==
  /\ a \in seen
  /\ seen' = seen \ {a}
  /\ pairing' = [pairing EXCEPT ![a] = "expired"]
  /\ UNCHANGED <<gate, callback, pairDue>>

CrashPairing ==
  /\ seen' = {}
  /\ UNCHANGED <<pairing, pairDue>>
=============================================================================
