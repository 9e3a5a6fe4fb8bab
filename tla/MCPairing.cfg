SPECIFICATION FairSpec
CONSTANTS
  Hosts = {h1, h2}
  Accs = {a1}
  Users = {u1, u2}
  Requests = {q1, q2}
  Moving = {a1}
  MaxMoves = 1
  MaxFaults = 1
PROPERTY CrossOwnerStops
CHECK_DEADLOCK FALSE
