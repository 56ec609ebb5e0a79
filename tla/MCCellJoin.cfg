SPECIFICATION CellSpec
CONSTANTS
  None = None
  Peer = {pa, pb, pc}
  Founder = {pa, pb}
  VoterSets <- NoVoterSets
  MaxCellTerm = 2
  MaxCellLog = 1
  MaxCellCrash = 0
CHECK_DEADLOCK FALSE
INVARIANT JoinersAgree
