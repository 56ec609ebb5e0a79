SPECIFICATION WorkSpec
CONSTANTS
  None = None
  Member = {m1, m2}
  TaskId = {d1}
  Subject = {s1}
  Lease = 1
  MaxNow = 1
  MaxEntries = 3
  MaxReign = 2
  MaxRestart = 1
  MaxSnapshots = 0
  Job = {j1, j2, j3}
  Deaf = {j1}
  PoolSize = 2
  Task = {t1, t2, t3}
  MaxRetry = 1
  Worker = {w1}
  Client = {c1}
  Requested = {}
  MaxQueued = 1
  MaxCrash = 0
CHECK_DEADLOCK FALSE
INVARIANTS WorkTypeOK AnnouncedIsStored
PROPERTIES ExpiredLeasesEnd EveryJobAnswered Terminates
