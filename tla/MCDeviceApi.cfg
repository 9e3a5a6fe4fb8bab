SPECIFICATION MCSpec
CONSTANTS
  Cmds = {"c1"}
  Grants = {"g1", "g2"}
  GrantTTL = 2
  Window = 1
  MaxTime = 3
  Patchers = {p1, p2}
  Loaders = {l1}
  MaxEdits = 3
INVARIANTS AuditBeforeCommand AlarmsExplained StaleDeviceRaced
PROPERTIES BypassNoticed DesiredConverges
CHECK_DEADLOCK FALSE
