SPECIFICATION Spec
CONSTANTS
  Node = {n1, n2, n3}
  Command = {c1}
  RunLoop = RunLoop
  None = None
  Proposer = {p1}
  MaxTerm = 2
  MaxLog = 1
  MaxCrash = 1
  MaxOrphan = 1
  MaxBusy = 1
SYMMETRY NodeSymmetry
VIEW SteadyState
CONSTRAINT OrphansAlone
CHECK_DEADLOCK FALSE
INVARIANTS TypeOK ElectionSafety CommittedAgree AckedWhileLeadingIsCommitted
PROPERTY VoteIsStable
