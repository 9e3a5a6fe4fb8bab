SPECIFICATION Spec
CONSTANTS
  Items = {"i1"}
  SNs = {"s1", "s2"}
  Schedulers = {"p1"}
  MaxRetry = 2
  MaxClaims = 2
INVARIANT StartedAtMostOnce
CHECK_DEADLOCK FALSE
