SPECIFICATION MCFairSpec
CONSTANTS
  r1 = r1  r2 = r2  s1 = s1  s2 = s2  s3 = s3  s4 = s4  j1 = j1  m1 = m1
  Parts = {"lock", "job", "sync", "library"}
  Replicas = {r1, r2}
  Sessions = {s1, s2, s3, s4}
  PoolOf <- MCPoolOf
  None = none
  MaxFaults = 3
  SNs = {d1}
  Jobs = {j1}
  Owner <- MCOwner
  Events <- MCEvents
  Marks <- MCMarks
  Workers = {w1, w2}
  MaxFlips = 2
  MaxJobFaults = 1
  Publishers = {p1, p2}
  Asks <- MCAsks
  Recommendations <- MCRecommendations
  DiffMaxCount = 0
  ForceFullBehind = 1
  MaxVersion = 3
  SyncVersions = 2
  RecoMarks = 3
  MaxLost = 1
  Rounds = {p1, p2}
  Recos = {m1}
  Power <- MCPower
  Official = {8, 10}
  MinSamples = 2
  MinDistinctSN = 2
  MaxPerDeviceDay = 2
  GoodPct = 80
  TopN = 1
  TopPct = 50
  SafetyMinAbs = 1
  MaxMoves = 5
  MaxRecoFaults = 1
  Codes = {c1}
  Users = {u1, u2}
  MaxScans = 2
  Threshold = 1
  Window = 2
  Reminders = {1, 2, 3}
  Unsent = {3}
  Orders = {"o1", "o2"}
  MaxTime = 3
  MaxCalls = 4
  NumDevices = 2
  Busy = {1}
  Models = {m1, m2}
  Rated = 2
  OverPenalty = 10
  Cooldown = 2
  FuseNum = 3
  FuseDen = 10
  MaxNow = 3
  MaxUpsets = 1
  MaxOverlaps = 1
  MaxRoundFaults = 1
  Backfill = 2
  RatedVolume = 3
  MaxHour = 5
INVARIANTS LockNotLeaked OverlapNeedsLostSession StrandedMarkRaced  ClientInSync
PROPERTIES TaskRunsAgain PurgeNeedsWithdrawal WithdrawnIsForgotten ClientCatchesUp
CHECK_DEADLOCK FALSE
