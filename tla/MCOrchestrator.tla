--------------------------- MODULE MCOrchestrator ---------------------------
(* Small instances of Orchestrator. *)
EXTENDS Orchestrator, TLC

TaskSymmetry == Permutations(Task)
Symmetry == TaskSymmetry \cup Permutations(Worker)
=============================================================================
