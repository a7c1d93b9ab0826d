SPECIFICATION Spec
CONSTANTS
  IPs = {ip1}
  Requests = {r1, r2, r3}
  Cost = 3
  Rate = 1
  Burst = 2
  IdleLimit = 6
  Second = 2
  NULL = NULL
  MaxTime = 10
  MaxCleanups = 2
INVARIANTS TypeOK ExcessIsBounded RetryAfterSuffices
SYMMETRY Symmetry
CHECK_DEADLOCK FALSE
