SPECIFICATION Spec
CONSTANTS
  OldUsers = {o1, o2}
  Users = {u1, u2}
  Weeks = 2
  Span = 2
  MaxTicks = 2
  MaxFaults = 1
  MaxRequests = 1
  MaxLives = 2
INVARIANTS RequestsHaveTheStore SchemaBeforeService OpenGivesUpOnlyOnFaults BackfillIsComplete MailsAreBounded NoMondayMissed NobodyIsForgotten
SYMMETRY Symmetry
CHECK_DEADLOCK FALSE
