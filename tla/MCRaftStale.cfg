SPECIFICATION Spec
CONSTANTS
  Node = {n1, n2, n3}
  Command = {c1}
  RunLoop = RunLoop
  None = None
  Proposer = {p1}
  MaxTerm = 5
  MaxLog = 2
  MaxCrash = 0
  MaxOrphan = 0
  MaxBusy = 2
  first = n1
  second = n3
CONSTRAINT Steered
VIEW LiveState
CHECK_DEADLOCK FALSE
INVARIANT CommittedByMajority
