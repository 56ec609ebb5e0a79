SPECIFICATION WorkSafe
CONSTANTS
  None = None
  Member = {m1, m2}
  TaskId = {d1}
  Subject = {}
  Lease = 0
  MaxNow = 0
  MaxEntries = 3
  MaxReign = 2
  MaxRestart = 1
  MaxSnapshots = 1
  Job = {j1}
  Deaf = {}
  PoolSize = 1
  Task = {t1, t2, t3}
  MaxRetry = 0
  Worker = {w1, w2}
  Client = {c1}
  Requested = {"fail"}
  MaxQueued = 1
  MaxCrash = 1
SYMMETRY Alike
VIEW WithoutHistory
CHECK_DEADLOCK FALSE
INVARIANTS
  TypeOK
  StoredIsAcyclic
  DependenciesRespected
  FailureCascades
  NothingForgotten
  ReplicasConverge
  CoordinatorActsOnCommits
PROPERTY HandsOverAgreed
