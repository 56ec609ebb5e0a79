SPECIFICATION Spec
CONSTANTS
  Node = {n1, n2, n3}
  Command = {c1}
  RunLoop = RunLoop
  None = None
  Proposer = {}
  MaxTerm = 4
  MaxLog = 2
  MaxCrash = 0
  MaxOrphan = 0
  MaxBusy = 1
SYMMETRY NodeSymmetry
VIEW LiveState
CHECK_DEADLOCK FALSE
INVARIANTS LogMatching LeaderCompleteness
PROPERTY ImplementsAgreedLog
