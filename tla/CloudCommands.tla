--------------------------- MODULE CloudCommands ----------------------------
(***************************************************************************)
(* cloud_telegram_commands.py, deployment_manager.py and the purchase gate *)
(* of hosting_governance.py (in memory, as the container builds it).       *)
(*                                                                         *)
(* An instance is known by the approval that created it.  The provider is  *)
(* external: a call can fail before or after it had its effect, and the    *)
(* price of a size is 0 when it cannot be read.  Every exception of the    *)
(* callbacks is caught inside them.                                        *)
(***************************************************************************)
EXTENDS AdminCallbacks, FiniteSetsExt

CONSTANTS
  Size,     \* sizes of instances
  Price,    \* what a size costs a month
  Config    \* the configurations an administrator gives: [size, max, cap]

ASSUME PriceAssumption == Price \in [Size -> Nat]
ASSUME ConfigAssumption ==
  Config \subseteq [size : Size, max : Nat, cap : Nat] /\ None \notin Config \cup Size

VARIABLES
  config,   \* of the CloudDeploymentManager (in memory)
  auth,     \* the state of the purchase authorization of an approval (in memory)
  authDue,  \* the authorizations whose expires_at has passed
  running   \* the instances at the provider, with their size

cloud == <<config, auth, authDue, running>>

AuthState == {"none", "requested", "approved", "consumed", "cancelled"}
CloudJob ==
  [kind : {"deploy"}, size : Size] \cup [kind : {"destroy"}, target : Approval]

CloudTypeOK ==
  /\ config \in Config \cup {None}
  /\ auth \in [Approval -> AuthState]
  /\ authDue \subseteq Approval
  /\ running \in [Approval -> Size \cup {None}]

CloudInit ==
  /\ config = None
  /\ auth = [a \in Approval |-> "none"]
  /\ authDue = {}
  /\ running = [a \in Approval |-> None]

Instances == {a \in Approval : running[a] # None}
Spend == MapThenSumSet(LAMBDA a : Price[running[a]], Instances)

-----------------------------------------------------------------------------
(* Commands *)

\* /configure_cloud: a new manager, with the same purchase gate.
ConfigureCloud ==
  /\ doing = None
  /\ config' \in Config
  /\ UNCHANGED <<gate, callback, auth, authDue, running>>

\* propose_new_instance does not raise.
WithinLimits(cost) ==
  Cardinality(Instances) < config.max /\ Spend + cost <= config.cap

\* /deploy_node: proposal, offer and authorization, then the approval.
DeployNode(a, c) ==
  /\ config # None
  /\ \E cost \in {0, Price[config.size]} :
       /\ WithinLimits(cost)
       /\ Ask(a, c, [kind |-> "deploy", size |-> config.size])
  /\ auth' = [auth EXCEPT ![a] = "requested"]
  /\ UNCHANGED <<config, authDue, running>>

\* /destroy_node with the id of an instance there is (when it is approved, was)
DestroyNode(a, c) ==
  /\ config # None
  /\ \E b \in Instances : Ask(a, c, [kind |-> "destroy", target |-> b])
  /\ UNCHANGED cloud

-----------------------------------------------------------------------------
(* Callbacks *)

\* _assert_current, for an authorization and its own offer
Current(a, state) == auth[a] = state /\ a \notin authDue

\* approve and consume of the purchase gate; they raise when the authorization
\* is no longer current, and the callback tells the chat and returns.
ApprovePurchase ==
  \/ /\ doing # None /\ Current(doing, "requested")
     /\ Goes("approve", "consume", 0)
     /\ auth' = [auth EXCEPT ![doing] = "approved"]
     /\ UNCHANGED <<config, authDue, running>>
  \/ /\ doing # None /\ ~Current(doing, "requested")
     /\ Goes("approve", "returns", 0)
     /\ UNCHANGED cloud

ConsumePurchase ==
  \/ /\ doing # None /\ Current(doing, "approved")
     /\ Goes("consume", "create", 0)
     /\ auth' = [auth EXCEPT ![doing] = "consumed"]
     /\ UNCHANGED <<config, authDue, running>>
  \/ /\ doing # None /\ ~Current(doing, "approved")
     /\ Goes("consume", "returns", 0)
     /\ UNCHANGED cloud

\* Mutant of CreateInstance: a call that raised is made again.
CreateInstanceRetrying ==
  /\ step = "create"
  /\ \/ /\ Goes("create", "returns", 1) \/ (effects[doing] < 2 /\ Goes("create", "create", 1))
        /\ running' = [running EXCEPT ![doing] = config.size]
     \/ Goes("create", "returns", 0) /\ UNCHANGED running
  /\ UNCHANGED <<config, auth, authDue>>

\* create_instance with the configuration of now, once, whether or not it raises
CreateInstance ==
  /\ \/ Goes("create", "returns", 1) /\ running' = [running EXCEPT ![doing] = config.size]
     \/ Goes("create", "returns", 0) /\ UNCHANGED running
  /\ UNCHANGED <<config, auth, authDue>>

\* _execute_destroy
DestroyInstance ==
  /\ \/ /\ Goes("destroy", "returns", 1)
        /\ running' = [running EXCEPT ![job[doing].target] = None]
     \/ Goes("destroy", "returns", 0) /\ UNCHANGED running
  /\ UNCHANGED <<config, auth, authDue>>

\* on_reject: _cancel_deploy; an authorization already closed stays as it is
CancelDeploy(a) ==
  /\ auth' = [auth EXCEPT ![a] = IF @ = "requested" THEN "cancelled" ELSE @]
  /\ UNCHANGED <<config, authDue, running>>

\* expires_at of an authorization passes; its TTL is not the approval's.
LapsePurchase(a) ==
  /\ auth[a] # "none" /\ a \notin authDue
  /\ authDue' = authDue \cup {a}
  /\ UNCHANGED <<gate, callback, config, auth, running>>

CrashCloud ==
  /\ config' = None
  /\ auth' = [a \in Approval |-> "none"]
  /\ UNCHANGED <<authDue, running>>

-----------------------------------------------------------------------------
(* Properties *)

\* What runs at the provider stays within the limits of some configuration an
\* administrator has given: max_instances and budget_cap_usd_per_month, which
\* "the system cannot exceed" (provider_base.py).
LimitsHold ==
  \E k \in Config : Cardinality(Instances) <= k.max /\ Spend <= k.cap

\* What is created is what the administrator reviewed: the provider is not
\* reached unless the authorization "matches the full reviewed offer".
CreatedAsReviewed ==
  \A a \in Approval : running[a] # None => running[a] = job[a].size
=============================================================================
