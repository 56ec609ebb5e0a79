SPECIFICATION Spec
CONSTANTS
  Node = {n1, n2, n3}
  Command = {c1}
  RunLoop = RunLoop
  None = None
  Proposer = {p1}
  MaxTerm = 2
  MaxLog = 1
  MaxCrash = 0
  MaxOrphan = 0
  MaxBusy = 2
SYMMETRY NodeSymmetry
VIEW AnsweredState
CHECK_DEADLOCK FALSE
INVARIANT AckedIsCommitted
