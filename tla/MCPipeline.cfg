CONSTANTS
  Streams <- MCStreams
  StreamLen = 3
  BatchSize = 2
  Flushers = {f1, f2}
  FaultKinds = {"td", "redis", "dlq", "ackwait", "acklost", "crash", "stop"}
  MaxFaults = 2
SPECIFICATION FairSpec
INVARIANTS LossOnlyThroughOrphanedKey OldShadowRaced
PROPERTY EventuallyAcked
CHECK_DEADLOCK FALSE
