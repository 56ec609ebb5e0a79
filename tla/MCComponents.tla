---------------------------- MODULE MCComponents ----------------------------
(***************************************************************************)
(* Small instances of the administrator's commands, of the components      *)
(* around a cell and of the services of a node, checked side by side.      *)
(* They share no state in the model, so each behaviour moves the one       *)
(* component that focus names, from its own initial state; their product   *)
(* would only repeat the same states.                                      *)
(***************************************************************************)
EXTENDS MCAdminCommands, MCCellMembership, JoinTrust, CellRecovery, Federation,
        AuditChain, CognitiveCycle, SelfExpansion, ModelTraining, RateLimit, AgentRecords

VARIABLE focus

\* Capabilities of equal priority: the reliability learned decides between them.
EqualScore == [k \in Capability |-> 0]

MemoryPermissions == {"read:memory", "write:memory"}

allVars == <<vars, cellVars, joinVars, recoveryVars, federationVars,
             auditVars, coreVars, expansionVars, trainingVars, rateVars, recordVars>>

ComponentsInit ==
  /\ focus \in {"admin", "membership", "join", "recovery", "federation", "audit",
                "cognition", "expansion", "training", "rate", "records"}
  /\ Init /\ CellInit /\ JoinInit /\ RecoveryInit /\ FederationInit
  /\ AuditInit /\ CoreInit /\ ExpansionInit /\ TrainingInit /\ RateInit /\ RecordsInit

\* The component that focus names takes a step.
ComponentsNext ==
  /\ UNCHANGED focus
  /\ \/ /\ focus = "admin" /\ Next
        /\ UNCHANGED <<cellVars, joinVars, recoveryVars, federationVars,
                       auditVars, coreVars, expansionVars, trainingVars, rateVars, recordVars>>
     \/ /\ focus = "membership" /\ CellNext
        /\ UNCHANGED <<vars, joinVars, recoveryVars, federationVars,
                       auditVars, coreVars, expansionVars, trainingVars, rateVars, recordVars>>
     \/ /\ focus = "join" /\ JoinNext
        /\ UNCHANGED <<vars, cellVars, recoveryVars, federationVars, auditVars,
                       coreVars, expansionVars, trainingVars, rateVars, recordVars>>
     \/ /\ focus = "recovery" /\ RecoveryNext
        /\ UNCHANGED <<vars, cellVars, joinVars, federationVars, auditVars,
                       coreVars, expansionVars, trainingVars, rateVars, recordVars>>
     \/ /\ focus = "federation" /\ FederationNext
        /\ UNCHANGED <<vars, cellVars, joinVars, recoveryVars, auditVars,
                       coreVars, expansionVars, trainingVars, rateVars, recordVars>>
     \/ /\ focus = "audit" /\ AuditNext
        /\ UNCHANGED <<vars, cellVars, joinVars, recoveryVars, federationVars,
                       coreVars, expansionVars, trainingVars, rateVars, recordVars>>
     \/ /\ focus = "cognition" /\ CoreNext
        /\ UNCHANGED <<vars, cellVars, joinVars, recoveryVars, federationVars,
                       auditVars, expansionVars, trainingVars, rateVars, recordVars>>
     \/ /\ focus = "expansion" /\ ExpansionNext
        /\ UNCHANGED <<vars, cellVars, joinVars, recoveryVars, federationVars,
                       auditVars, coreVars, trainingVars, rateVars, recordVars>>
     \/ /\ focus = "training" /\ TrainingNext
        /\ UNCHANGED <<vars, cellVars, joinVars, recoveryVars, federationVars,
                       auditVars, coreVars, expansionVars, rateVars, recordVars>>
     \/ /\ focus = "rate" /\ RateNext
        /\ UNCHANGED <<vars, cellVars, joinVars, recoveryVars, federationVars,
                       auditVars, coreVars, expansionVars, trainingVars, recordVars>>
     \/ /\ focus = "records" /\ RecordsNext
        /\ UNCHANGED <<vars, cellVars, joinVars, recoveryVars, federationVars,
                       auditVars, coreVars, expansionVars, trainingVars, rateVars>>

ComponentsSpec == ComponentsInit /\ [][ComponentsNext]_<<focus, allVars>>

\* The variables of the component that moves keep their types: among others, no
\* more agents are built for a goal than AutonomySupervisor's limit.
ComponentsTypeOK ==
  /\ focus = "admin" => TypeOK
  /\ focus = "membership" => CellTypeOK
  /\ focus = "join" => JoinTypeOK
  /\ focus = "recovery" => RecoveryTypeOK
  /\ focus = "federation" => FederationTypeOK
  /\ focus = "audit" => AuditTypeOK
  /\ focus = "cognition" => CoreTypeOK
  /\ focus = "expansion" => ExpansionTypeOK
  /\ focus = "training" => TrainingTypeOK
  /\ focus = "rate" => RateTypeOK
  /\ focus = "records" => RecordsTypeOK
=============================================================================
