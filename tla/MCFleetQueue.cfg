SPECIFICATION FairSpec
CONSTANTS
  Items = {"i1", "i2"}
  SNs = {"s1"}
  Schedulers = {"p1", "p2"}
  MaxRetry = 1
  MaxClaims = 3
INVARIANT HeardStartStands
PROPERTY ApprovedIsSettled
CHECK_DEADLOCK FALSE
