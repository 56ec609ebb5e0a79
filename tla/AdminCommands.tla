--------------------------- MODULE AdminCommands ----------------------------
(* The administrator's commands together, behind one approval gate. *)
EXTENDS CloudCommands, PairingCommands

vars == <<gate, callback, cloud, pairings>>

TypeOK ==
  /\ GateTypeOK /\ CloudTypeOK /\ PairingTypeOK
  /\ job \in [Approval -> CloudJob \cup PairingJob \cup {None}]
  /\ step \in {None, "approve", "consume", "create", "destroy", "claim", "issue", "deliver",
               "returns", "raises"}
  /\ effects \in [Approval -> Nat]

Init == GateInit /\ CallbackInit /\ CloudInit /\ PairingInit

\* A message of chat c about approval a
Message(c, a) ==
  \/ DeployNode(a, c) /\ UNCHANGED pairings
  \/ DestroyNode(a, c) /\ UNCHANGED pairings
  \/ RequestPairing(a, c) /\ UNCHANGED cloud
  \/ Run(c, a) /\ UNCHANGED <<cloud, pairings>>
  \/ Reject(c, a) /\ CancelDeploy(a) /\ UNCHANGED <<callback, pairings>>
  \/ RespondInVain(c, a) /\ UNCHANGED <<callback, cloud, pairings>>

\* The next step of the running callback
Callback ==
  \/ (ApprovePurchase \/ ConsumePurchase \/ CreateInstance \/ DestroyInstance) /\ UNCHANGED pairings
  \/ (CheckClaim \/ IssueKey \/ DeliverKey) /\ UNCHANGED cloud
  \/ End /\ UNCHANGED <<cloud, pairings>>

Clock(a) ==
  \/ Lapse(a) /\ UNCHANGED <<callback, cloud, pairings>>
  \/ LapsePurchase(a) /\ UNCHANGED pairings
  \/ LapsePairing(a) /\ UNCHANGED cloud

ApiThread(a) == (SeeDue(a) \/ ExpireSeen(a)) /\ UNCHANGED cloud

Crash ==
  /\ CrashGate /\ CrashCloud /\ CrashPairing
  /\ step' = None
  /\ UNCHANGED <<job, effects>>

Next ==
  \/ \E c \in Chat, a \in Approval : Message(c, a)
  \/ ConfigureCloud /\ UNCHANGED pairings
  \/ Callback
  \/ \E a \in Approval : Clock(a) \/ ApiThread(a)
  \/ Crash

Spec == Init /\ [][Next]_vars
=============================================================================
