SPECIFICATION Spec
CONSTANTS
  Upper = Upper
  lower = lower
  other = other
  base = base
  Requests = {r1, r2}
  Emails <- TwoSpellings
  Lower <- Lowered
  Bases <- OneBase
  BaseOf <- BaseOfAll
  MaxSuffix = 1
  Demo <- NoDemo
  MaxRows = 2
  Passwords = {p1}
  MaxUsers = 1
  MaxSessions = 1
  MaxResets = 1
  MaxFaults = 0
INVARIANT ResetsAreSingleUse
SYMMETRY Symmetry
CHECK_DEADLOCK FALSE
