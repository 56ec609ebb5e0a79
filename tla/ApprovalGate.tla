---------------------------- MODULE ApprovalGate ----------------------------
(***************************************************************************)
(* The approval gate of telegram_service.py over FileApprovalStore: what   *)
(* every sensitive command of an administrator's chat goes through.        *)
(*                                                                         *)
(* One thread, the polling worker's, handles all messages one after the    *)
(* other, so a handler is one action; only a confirmed callback takes      *)
(* several steps (doing), since the process can stop inside it.  After a   *)
(* restart Telegram delivers again what was handled and not confirmed; a   *)
(* message delivered twice is the same here as one sent twice, and any     *)
(* message may come at any time.  Time is left out: an approval's TTL ends *)
(* at some moment (due).                                                   *)
(*                                                                         *)
(* Chats that are not administrators' are refused before any handler.      *)
(***************************************************************************)
EXTENDS Optional, Naturals, FiniteSets

CONSTANTS
  Approval,   \* approval ids, each a fresh uuid
  Chat,       \* the administrators' chats
  MaxCrash    \* bound: how many crashes a behaviour has

ASSUME ApprovalAssumption == None \notin Approval /\ None \notin Chat /\ MaxCrash \in Nat

VARIABLES
  record,     \* the status of an approval in the store (on disk)
  owner,      \* requested_by_chat_id
  callbacks,  \* the keys of _pending_approvals (in memory)
  due,        \* the approvals whose expires_at has passed
  doing,      \* the approval whose on_approve is running
  invoked,    \* how often on_approve of an approval was called (history)
  crashes

gate == <<record, owner, callbacks, due, doing, invoked, crashes>>

\* The statuses of which nothing comes any more, and those of an approval confirmed.
Closed == {"rejected", "expired", "cancelled_restart", "approved", "failed"}
Confirmed == {"executing", "approved", "failed"}
Status == {"none", "pending", "executing"} \cup Closed

GateTypeOK ==
  /\ record \in [Approval -> Status]
  /\ owner \in [Approval -> Chat \cup {None}]
  /\ callbacks \subseteq Approval
  /\ due \subseteq Approval
  /\ doing \in Approval \cup {None}
  /\ invoked \in [Approval -> Nat]
  /\ crashes \in Nat

GateInit ==
  /\ record = [a \in Approval |-> "none"]
  /\ owner = [a \in Approval |-> None]
  /\ callbacks = {}
  /\ due = {}
  /\ doing = None
  /\ invoked = [a \in Approval |-> 0]
  /\ crashes = 0

-----------------------------------------------------------------------------
(* FileApprovalStore; every change is saved before the method returns. *)

\* Mutant of ExpireDue: the status is not looked at.
ExpireAllDue(r) == [a \in Approval |-> IF a \in due /\ r[a] # "none" THEN "expired" ELSE r[a]]

\* expire_due
ExpireDue(r) ==
  [a \in Approval |-> IF a \in due /\ r[a] = "pending" THEN "expired" ELSE r[a]]

\* transition, from one of the statuses in allowed
Transition(r, a, status, allowed) ==
  [b \in Approval |-> IF b = a /\ r[b] \in allowed THEN status ELSE r[b]]

\* Mutant of Cancelled: nothing is cancelled.
CancelledNothing(r) == r

\* Mutant of Cancelled: what was executing is cancelled too.
CancelledUnfinished(r) ==
  [a \in Approval |-> IF r[a] \in {"pending", "executing"} THEN "cancelled_restart" ELSE r[a]]

\* cancel_unrecoverable_after_restart
Cancelled(r) ==
  [a \in Approval |-> IF r[a] = "pending" THEN "cancelled_restart" ELSE r[a]]

-----------------------------------------------------------------------------
(* TelegramService *)

\* request_approval, with an id that was never used
RequestApproval(a, c) ==
  /\ doing = None /\ record[a] = "none"
  /\ record' = [ExpireDue(record) EXCEPT ![a] = "pending"]
  /\ owner' = [owner EXCEPT ![a] = c]
  /\ callbacks' = callbacks \cup {a}
  /\ UNCHANGED <<due, doing, invoked, crashes>>

\* _handle_approval_response finds no callback, an expired one, or one of
\* another chat: nothing runs, an expired callback is dropped.
RespondInVain(c, a) ==
  /\ doing = None
  /\ a \notin callbacks \/ a \in due \/ owner[a] # c
  /\ record' = ExpireDue(record)
  /\ callbacks' = callbacks \ (due \cap {a})
  /\ UNCHANGED <<owner, due, doing, invoked, crashes>>

\* The answer is in time and from the chat that asked.
Answerable(c, a) == doing = None /\ a \in callbacks \ due /\ owner[a] = c

\* /approve: the callback runs only if the record was still pending.
Approve(c, a) ==
  LET r == ExpireDue(record) IN
  /\ Answerable(c, a)
  /\ callbacks' = callbacks \ {a}
  /\ record' = Transition(r, a, "executing", {"pending"})
  /\ doing' = IF r[a] = "pending" THEN a ELSE None
  /\ invoked' = [invoked EXCEPT ![a] = IF r[a] = "pending" THEN @ + 1 ELSE @]
  /\ UNCHANGED <<owner, due, crashes>>

\* /reject; on_reject runs to its end within the handler.
Reject(c, a) ==
  /\ Answerable(c, a)
  /\ callbacks' = callbacks \ {a}
  /\ record' = Transition(ExpireDue(record), a, "rejected", {"pending"})
  /\ UNCHANGED <<owner, due, doing, invoked, crashes>>

\* on_approve returns, or raises.
Return(status) ==
  /\ doing # None
  /\ record' = Transition(record, doing, status, {"executing"})
  /\ doing' = None
  /\ UNCHANGED <<owner, callbacks, due, invoked, crashes>>

\* expires_at of an approval passes.
Lapse(a) ==
  /\ record[a] # "none" /\ a \notin due
  /\ due' = due \cup {a}
  /\ UNCHANGED <<record, owner, callbacks, doing, invoked, crashes>>

\* The process ends and starts again.
CrashGate ==
  /\ crashes < MaxCrash
  /\ crashes' = crashes + 1
  /\ callbacks' = {}
  /\ doing' = None
  /\ record' = Cancelled(record)
  /\ UNCHANGED <<owner, due, invoked>>

\* The gate alone, whatever the callbacks do.
GateNext ==
  \/ \E c \in Chat, a \in Approval :
       RequestApproval(a, c) \/ RespondInVain(c, a) \/ Approve(c, a) \/ Reject(c, a)
  \/ \E a \in Approval : Lapse(a)
  \/ Return("approved") \/ Return("failed")
  \/ CrashGate

GateSpec == GateInit /\ [][GateNext]_gate

-----------------------------------------------------------------------------
(* Properties *)

\* The store tells what happened: on_approve was called exactly for the
\* approvals whose record is executing, approved or failed, and once for
\* each, whatever expired, was answered twice or crashed in between.
InvokedIsConfirmed ==
  \A a \in Approval : invoked[a] = IF record[a] \in Confirmed THEN 1 ELSE 0

\* An approval the store shows as pending can still be answered: its callback
\* exists, so a restart leaves no pending record behind.
PendingIsAnswerable == \A a \in Approval : record[a] = "pending" => a \in callbacks

\* A decision is final: no later expiry, answer or restart changes a closed
\* record, nor takes back a confirmed one.
DecisionIsFinal ==
  [][\A a \in Approval :
       /\ record[a] \in Closed => record'[a] = record[a]
       /\ record[a] \in Confirmed => record'[a] \in Confirmed]_gate

(***************************************************************************)
(* The inductive invariant: a callback in memory belongs to a record that  *)
(* is pending or has expired unnoticed, and the one running to a record    *)
(* that is executing.                                                      *)
(***************************************************************************)
CallbacksMatch ==
  /\ \A a \in callbacks : record[a] = "pending" \/ (record[a] = "expired" /\ a \in due)
  /\ doing # None => record[doing] = "executing"
  /\ doing \notin callbacks

GateInv == GateTypeOK /\ InvokedIsConfirmed /\ PendingIsAnswerable /\ CallbacksMatch
=============================================================================
