SPECIFICATION Spec
CONSTANTS
  IPs = {ip1}
  Requests = {r1, r2}
  Cost = 3
  Rate = 1
  Burst = 2
  IdleLimit = 6
  Second = 2
  NULL = NULL
  MaxTime = 9
  MaxCleanups = 1
INVARIANT EnforcesTokenBucket
SYMMETRY Symmetry
CHECK_DEADLOCK FALSE
