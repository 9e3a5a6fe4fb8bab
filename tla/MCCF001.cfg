SPECIFICATION Spec
CONSTANTS
  Requests = {r1, r2}
  Orders = {o1, o2}
  Digests = {d1, d2}
  Nonces = {n1, n2, n3}
  None = none
  SeqMod = 3
  Deltas = {0, 1}
  MaxQuota = 2
  MaxFaults = 1
SYMMETRY Symm
INVARIANT QuotaExact
PROPERTY ImplementsActivation
CHECK_DEADLOCK FALSE
