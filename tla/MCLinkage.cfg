SPECIFICATION FairSpec
CONSTANTS
  Procs = {p1, p2}
  Leader = p1
  MaxUpsets = 2
PROPERTY LinkageConverges
CHECK_DEADLOCK FALSE
