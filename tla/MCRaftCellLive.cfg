SPECIFICATION Spec
CONSTANTS
  Node = {n1, n2, n3}
  Command = {c1}
  RunLoop = RunLoop
  None = None
  Proposer = {}
  MaxTerm = 2
  MaxLog = 2
  MaxCrash = 0
  MaxOrphan = 0
  MaxBusy = 1
VIEW LiveState
CHECK_DEADLOCK FALSE
PROPERTY LeaderReplicates
