--------------------------- MODULE AdminCallbacks ---------------------------
(***************************************************************************)
(* What the administrative commands have in common: each asks the          *)
(* ApprovalGate with a job, the on_approve callback works through its      *)
(* steps on the polling thread and then returns or raises.                 *)
(***************************************************************************)
EXTENDS ApprovalGate

VARIABLES
  job,      \* what an approval was asked for
  step,     \* where the running callback is
  effects   \* what an approval's callback did to the world: how often (history)

callback == <<job, step, effects>>

\* The step each kind of callback begins with.
FirstStep == [deploy |-> "approve", destroy |-> "destroy", pair |-> "claim"]

CallbackInit ==
  /\ job = [a \in Approval |-> None]
  /\ step = None
  /\ effects = [a \in Approval |-> 0]

\* A command is handled, with a new id, when no callback is running.
Fresh(a) == doing = None /\ job[a] = None

\* The command ends by asking for the approval of its job.
Ask(a, c, j) ==
  /\ Fresh(a)
  /\ RequestApproval(a, c)
  /\ job' = [job EXCEPT ![a] = j]
  /\ UNCHANGED <<step, effects>>

Run(c, a) ==
  /\ Approve(c, a)
  /\ step' = IF doing' = None THEN None ELSE FirstStep[job[a].kind]
  /\ UNCHANGED <<job, effects>>

\* The running callback goes from one step to the next and does n things.
Goes(from, to, n) ==
  /\ doing # None /\ step = from
  /\ step' = to
  /\ effects' = [effects EXCEPT ![doing] = @ + n]
  /\ UNCHANGED <<gate, job>>

End ==
  /\ \/ step = "returns" /\ Return("approved")
     \/ step = "raises" /\ Return("failed")
  /\ step' = None
  /\ UNCHANGED <<job, effects>>

\* Every effect was approved, and happened once: whoever was charged, lost a
\* node or got a key finds an approval whose record says that it was executed.
EffectsAreApproved ==
  \A a \in Approval :
    /\ effects[a] <= 1
    /\ effects[a] > 0 => record[a] \in Confirmed
=============================================================================
