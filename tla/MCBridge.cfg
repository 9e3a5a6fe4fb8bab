CONSTANTS
  Msgs = {m1, m2}
  Handlers = {h1, h2}
  Window = 1
  MaxExits = 1
  MaxDiskErrs = 1
  Conns = {c1, c2}
  Threshold = 2
  OpenFor = 2
  MaxOutages = 1
SPECIFICATION MCSpec
INVARIANTS  WindowSound
PROPERTIES  StopsUnlessLate
CHECK_DEADLOCK FALSE
