SPECIFICATION Spec
CONSTANTS
  e1 = e1  e2 = e2  e3 = e3  p1 = p1  p2 = p2
  Workers = {w1}
  Rec = rec
  None = none
  Events = {e1, e2, e3}
  Safety = {e1, e2}
  Pair <- MCPair
  Ts <- MCTs
  SquelchTTL = 1  EscalateAfter = 0  Window = 2  Tolerance = 0
  MaxTime = 2  MaxFaults = 1  MaxAlarms = 2
INVARIANT AckedEventAccounted
PROPERTIES AlarmHistory RoundRepairs
CHECK_DEADLOCK FALSE
