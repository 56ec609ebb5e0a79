SPECIFICATION Spec
CONSTANTS
  Task = {t1, t2}
  MaxRetry = 0
  Worker = {w1, w2}
  Client = {c1}
  Requested = {}
  None = None
  MaxQueued = 1
  MaxCrash = 0
SYMMETRY Symmetry
CHECK_DEADLOCK FALSE
INVARIANT AnnouncedIsStored
