SPECIFICATION FairSpec
CONSTANTS
  d1 = d1  d2 = d2
  Devices = {d1, d2}
  LastStage = 2
  Samplings <- MCSamplings
  Admins = {a1, a2}
  Dispatchers = {p1}
  MaxBatches = 2
  MaxTasks = 2
  MaxRequests = 2
  MinSamples = 2  MinAbsFail = 2  FuseNum = 1  FuseDen = 2
INVARIANTS CountedOnce FuseHolds 
PROPERTY NoTaskHangs
CHECK_DEADLOCK FALSE
