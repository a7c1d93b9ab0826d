SPECIFICATION Spec
CONSTANTS
  Upper = Upper
  lower = lower
  other = other
  base = base
  Requests = {r1, r2}
  Emails <- ThreeAddresses
  Lower <- Lowered
  Bases <- OneBase
  BaseOf <- BaseOfAll
  MaxSuffix = 2
  Demo <- DemoAddress
  MaxRows = 3
  Passwords = {p1}
  MaxUsers = 3
  MaxSessions = 2
  MaxResets = 1
  MaxFaults = 1
INVARIANTS EmailsUnique SlugSharingIsBounded ResetUsesAreBounded DeletedStaysDeleted SessionsGoFirst
SYMMETRY Symmetry
CHECK_DEADLOCK FALSE
