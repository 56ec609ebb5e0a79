----------------------------- MODULE SelfExpansion -----------------------------
(***************************************************************************)
(* Capabilities the system writes for itself.  CapabilityEvolutionService  *)
(* (requests, in memory) and AutonomySupervisor (proposals, in a ledger on *)
(* file) build through one AgentBuilder, which leaves the code in a file   *)
(* named after the specification, and bind through one binder, which loads *)
(* that file when a human has approved.  Requests are decided on the       *)
(* Telegram thread, proposals there and on the threads of the API.         *)
(***************************************************************************)
EXTENDS Optional, Naturals, FiniteSets

CONSTANTS
  Request,           \* capability-evolution requests
  Proposal,          \* autonomy proposals, all of one goal
  SpecName,
  Approver,          \* threads that may run an approval
  MaxBuildsPerGoal,  \* AutonomyPolicy.max_agent_builds_per_goal
  MaxExpRestart      \* bound: restarts

Item == Request \cup Proposal
Gate == {"cases", "review", "synthesis", "static", "sandbox"}

ASSUME ExpansionAssumption == Request \cap Proposal = {}
ASSUME NoItemAssumption == None \notin Item \cup SpecName \cup [item : Item, done : BOOLEAN]
ASSUME ExpansionBounds == {MaxBuildsPerGoal, MaxExpRestart} \subseteq Nat

VARIABLES
  flaws,        \* what the gates find wrong with the code of an item
  specName,     \* AgentSpec.name
  onFile,       \* whose code is in output_dir/<name>.py
  status,       \* of the request or the proposal
  artifacts,    \* AutonomySupervisor._build_artifacts
  builds,       \* AutonomySupervisor._builds_by_goal, of the goal
  asked,        \* the confirmation is pending at the approval gate
  approving,    \* the item a thread has found pending and whether it is bound
  bound,        \* <<item, whose code>>: bindings made
  confirmed,    \* history: items a human or the policy confirmed
  turnedDown,   \* history: items rejected while pending, not bound and not being approved
  expRestarts

expansionVars == <<flaws, specName, onFile, status, artifacts, builds, asked, approving, bound,
                   confirmed, turnedDown, expRestarts>>

Statuses == {"none", "built", "pending", "approved", "rejected", "failed", "lost"}

ExpansionTypeOK ==
  /\ flaws \in [Item -> SUBSET Gate] /\ specName \in [Item -> Maybe(SpecName)]
  /\ onFile \in [SpecName -> Maybe(Item)] /\ status \in [Item -> Statuses]
  /\ artifacts \subseteq Proposal /\ builds \in 0 .. MaxBuildsPerGoal
  /\ asked \subseteq Item
  /\ approving \in [Approver -> Maybe([item : Item, done : BOOLEAN])]
  /\ bound \subseteq Item \X Item
  /\ confirmed \subseteq Item /\ turnedDown \subseteq Item /\ expRestarts \in 0 .. MaxExpRestart

ExpansionInit ==
  /\ flaws = [i \in Item |-> {}] /\ specName = [i \in Item |-> None]
  /\ onFile = [n \in SpecName |-> None] /\ status = [i \in Item |-> "none"]
  /\ artifacts = {} /\ builds = 0 /\ asked = {}
  /\ approving = [a \in Approver |-> None]
  /\ bound = {} /\ confirmed = {} /\ turnedDown = {} /\ expRestarts = 0

------------------------------------------------------------------------------
(* Building *)

HasTestCases(f) == "cases" \notin f
ReviewSucceeds(f) == "review" \notin f
SynthesisSucceeds(f) == "synthesis" \notin f
StaticallySafe(f) == "static" \notin f
SandboxPasses(f) == "sandbox" \notin f

\* Mutant of Passed: a build is approved before the sandbox has run.
PassedUntried(f) ==
  /\ HasTestCases(f) /\ ReviewSucceeds(f) /\ SynthesisSucceeds(f) /\ StaticallySafe(f)

\* AgentBuilder.build: the gates in their order, each of which may reject
Passed(f) ==
  /\ HasTestCases(f) /\ ReviewSucceeds(f) /\ SynthesisSucceeds(f)
  /\ StaticallySafe(f) /\ SandboxPasses(f)

\* Mutant of MayBuild: one build more than the policy allows.
MayBuildOneMore(i) == i \in Proposal => builds <= MaxBuildsPerGoal

\* _handle_capability_gap: the limit of the policy, and the build counted before the
\* design, so that a design that raises uses it up
MayBuild(i) == i \in Proposal => builds < MaxBuildsPerGoal
CountBuild(i) == builds' = IF i \in Proposal THEN builds + 1 ELSE builds

\* design raises: the model's answer is no usable draft
DesignFails(i) ==
  /\ i \in Proposal /\ status[i] = "none" /\ MayBuild(i)
  /\ CountBuild(i)
  /\ UNCHANGED <<flaws, specName, onFile, status, artifacts, asked, approving, bound, confirmed,
                 turnedDown, expRestarts>>

\* _new_proposal, and the result propose_capability looks at
BuiltStatus(f) == IF Passed(f) THEN "built" ELSE "failed"

\* build, which writes the file of the name last.  A failed request is dropped, a
\* failed proposal is recorded as such.
Build(i, n, f) ==
  /\ status[i] = "none" /\ MayBuild(i)
  /\ CountBuild(i)
  /\ flaws' = [flaws EXCEPT ![i] = f]
  /\ specName' = [specName EXCEPT ![i] = n]
  /\ onFile' = IF Passed(f) THEN [onFile EXCEPT ![n] = i] ELSE onFile
  /\ status' = [status EXCEPT ![i] = BuiltStatus(f)]
  /\ UNCHANGED <<artifacts, asked, approving, bound, confirmed, turnedDown, expRestarts>>

\* propose_capability: the request is created and the administrators are told
EnterRequest(i) ==
  /\ i \in Request /\ status[i] = "built"
  /\ status' = [status EXCEPT ![i] = "pending"]
  /\ UNCHANGED <<flaws, specName, onFile, artifacts, builds, asked, approving, bound, confirmed,
                 turnedDown, expRestarts>>

\* The ledger's record, and the artifact kept for the approval
EnterProposal(i) ==
  /\ i \in Proposal /\ status[i] = "built"
  /\ status' = [status EXCEPT ![i] = "pending"]
  /\ artifacts' = artifacts \cup {i}
  /\ UNCHANGED <<flaws, specName, onFile, builds, asked, approving, bound, confirmed, turnedDown,
                 expRestarts>>

------------------------------------------------------------------------------
(* Deciding *)

\* The confirmation is asked for, of the administrator who wants the approval
AskFor(i) ==
  /\ i \notin asked
  /\ asked' = asked \cup {i}
  /\ UNCHANGED <<flaws, specName, onFile, status, artifacts, builds, approving, bound, confirmed,
                 turnedDown, expRestarts>>

\* /approve_capability
AskRequest(i) == i \in Request /\ status[i] = "pending" /\ AskFor(i)

\* /autonomy_approve, of any proposal the ledger has
AskProposal(i) ==
  /\ i \in Proposal /\ status[i] \in {"pending", "approved", "rejected", "failed"}
  /\ AskFor(i)

\* The confirmation is refused or expires
Withdraw(i) ==
  /\ i \in asked
  /\ asked' = asked \ {i}
  /\ UNCHANGED <<flaws, specName, onFile, status, artifacts, builds, approving, bound, confirmed,
                 turnedDown, expRestarts>>

\* Mutant of Executable: what was pending when the confirmation was asked for is.
ExecutableOnceAsked(i) == status[i] \in {"pending", "rejected"}

\* The check _execute_approve and approve make again before they bind
Executable(i) == status[i] = "pending" /\ (i \in Proposal => i \in artifacts)

\* _execute_approve and approve up to bind
BeginApproval(a, i) ==
  /\ approving[a] = None
  /\ Executable(i)
  /\ approving' = [approving EXCEPT ![a] = [item |-> i, done |-> FALSE]]
  /\ confirmed' = confirmed \cup {i}
  /\ UNCHANGED <<flaws, specName, onFile, status, artifacts, builds, bound, turnedDown, expRestarts>>

\* The confirmation arrives
ApproveConfirmed(a, i) ==
  /\ i \in asked
  /\ asked' = asked \ {i}
  /\ BeginApproval(a, i)

\* The API, or the policy for a low risk, approves a proposal
ApproveDirectly(a, i) == i \in Proposal /\ BeginApproval(a, i) /\ UNCHANGED asked

\* bind: the file of the name is loaded and published
Bind(a) ==
  /\ approving[a] # None
  /\ ~approving[a].done
  /\ LET i == approving[a].item
     IN bound' = bound \cup {<<i, onFile[specName[i]]>>}
  /\ approving' = [approving EXCEPT ![a].done = TRUE]
  /\ UNCHANGED <<flaws, specName, onFile, status, artifacts, builds, asked, confirmed, turnedDown,
                 expRestarts>>

\* bind raises while it loads the module
LoadFails(a) ==
  /\ approving[a] # None
  /\ ~approving[a].done
  /\ approving' = [approving EXCEPT ![a] = None]
  /\ UNCHANGED <<flaws, specName, onFile, status, artifacts, builds, asked, bound, confirmed,
                 turnedDown, expRestarts>>

\* mark_approved, or the status and the ledger's update
FinishApproval(a) ==
  /\ approving[a] # None
  /\ approving[a].done
  /\ status' = [status EXCEPT ![approving[a].item] = "approved"]
  /\ approving' = [approving EXCEPT ![a] = None]
  /\ UNCHANGED <<flaws, specName, onFile, artifacts, builds, asked, bound, confirmed, turnedDown,
                 expRestarts>>

Refuse(i) ==
  /\ status' = [status EXCEPT ![i] = "rejected"]
  /\ turnedDown' = IF /\ status[i] = "pending" /\ ~\E b \in bound : b[1] = i
                      /\ \A a \in Approver : approving[a] # None => approving[a].item # i
                   THEN turnedDown \cup {i} ELSE turnedDown
  /\ UNCHANGED <<flaws, specName, onFile, artifacts, builds, asked, approving, bound, confirmed,
                 expRestarts>>

\* /reject_capability, which does not look at the status
RejectRequest(i) == i \in Request /\ status[i] \in {"pending", "approved"} /\ Refuse(i)

\* reject of a proposal, from Telegram or the API
RejectProposal(i) == i \in Proposal /\ status[i] = "pending" /\ Refuse(i)

\* What the ledger's file and PendingCapabilityStore give back after a restart
Reloaded(i) ==
  IF status[i] = "built" \/ (i \in Request /\ status[i] # "none") THEN "lost" ELSE status[i]

\* The requests, the artifacts and the build counts are gone, and so is a build
\* that was not entered; the ledger and the files are not.
ExpansionRestart ==
  /\ expRestarts < MaxExpRestart
  /\ expRestarts' = expRestarts + 1
  /\ status' = [i \in Item |-> Reloaded(i)]
  /\ artifacts' = {} /\ builds' = 0 /\ asked' = {}
  /\ approving' = [a \in Approver |-> None]
  /\ UNCHANGED <<flaws, specName, onFile, bound, confirmed, turnedDown>>

ExpansionNext ==
  \/ \E i \in Item, n \in SpecName, f \in {{}} \cup {{g} : g \in Gate} : Build(i, n, f)
  \/ \E i \in Item : \/ DesignFails(i) \/ EnterRequest(i) \/ EnterProposal(i)
                     \/ AskRequest(i) \/ AskProposal(i) \/ Withdraw(i)
                     \/ RejectRequest(i) \/ RejectProposal(i)
  \/ \E a \in Approver : \/ \E i \in Item : ApproveConfirmed(a, i) \/ ApproveDirectly(a, i)
                         \/ Bind(a) \/ LoadFails(a) \/ FinishApproval(a)
  \/ ExpansionRestart

ExpansionSpec == ExpansionInit /\ [][ExpansionNext]_expansionVars

------------------------------------------------------------------------------
\* Whatever is bound has passed every automated gate, and was bound for an item
\* that was confirmed, although the file may have been rewritten by a later build
\* since (AgentBuilder.build writes the file only after the last gate).
BoundPassedTheGates == \A b \in bound : flaws[b[2]] = {} /\ b[1] \in confirmed

\* A rejection of a pending item that is not bound and with no approval under way is
\* final: a confirmation asked for before it binds nothing (the second status check, in
\* _execute_approve and in approve).
RejectionHolds == \A b \in bound : b[1] \notin turnedDown
================================================================================
