SPECIFICATION ComponentsSpec
CONSTANTS
  None = None
  Approval = {ap1, ap2}
  Chat = {ch1, ch2}
  MaxCrash = 1
  small = small
  large = large
  Size = {small, large}
  Price <- Prices
  Config <- One
  Peer = {pa, pb, pc}
  Founder = {pa, pb}
  VoterSets <- ReplacedVoters
  MaxCellTerm = 2
  MaxCellLog = 2
  MaxCellCrash = 1
  Joiner = {j1, j2}
  JoinId = {q1, q2}
  Skill = {l1}
  MaxAge = 1
  MaxJoinNow = 2
  MaxJoinRestart = 1
  MaxReissue = 1
  Voter = {v1, v2}
  Standby = {s1}
  FailureThreshold = 2
  MinimumSuspect = 1
  MaxRecNow = 2
  MaxFailures = 3
  Domain = {d1}
  CellNode = {n1, n2}
  Ability = {b1, b2}
  MaxFedNow = 1
  MaxFedLease = 2
  MaxGranted = 1
  Writer = {w1, w2, w3}
  MaxDrafts = 4
  Capability = {k1, k2}
  Thread = {t1, t2}
  Score <- EqualScore
  ReviewLimit = 2
  MaxVersions = 1
  MaxGoals = 3
  MaxRestarts = 1
  MaxOpen = 3
  Request = {r1}
  Proposal = {p1, p2}
  SpecName = {f1}
  Approver = {u1, u2}
  MaxBuildsPerGoal = 1
  MaxExpRestart = 1
  Episode = {e1, e2, e3}
  HarvestLimit = 2
  MinExamples = 2
  MaxCrashes = 2
  Client = {c1, c2}
  Asker = {x1, x2}
  MaxRequests = 1
  Window = 2
  MaxKeys = 1
  CleanupInterval = 2
  MaxTime = 4
  AgentId = {a1}
  MemId = {m1}
  TokenId = {g1}
  Caller = {x1, x2}
  Permission <- MemoryPermissions
CONSTRAINT FirstChange
SYMMETRY Alike
CHECK_DEADLOCK FALSE
INVARIANTS
  ComponentsTypeOK
  InvokedIsConfirmed
  PendingIsAnswerable
  EffectsAreApproved
  OneLeaderPerTerm
  CommitsAgree
  ApprovedMeansTrusted
  JoinIsMutual
  OnlyTheSilentAreReplaced
  NarrowingTakesEffect
  VerifyBlamesTheOvertaken
  SoloLearningSettles
  BoundPassedTheGates
  RejectionHolds
  EachEpisodeOnce
  WindowHolds
  EndedAloneIsFinal
PROPERTY DecisionIsFinal
