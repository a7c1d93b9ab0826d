SPECIFICATION Spec
CONSTANTS
  cpu = cpu
  mem = mem
  NULL = NULL
  Checks <- OneCheck
  Readings <- TwoReadings
  Warning <- WarningOne
  Critical <- CriticalByMetric
  Cooldown = 1
  AIEnabled = FALSE
  MaxChanges = 2
  MaxRestarts = 1
  MaxFaults = 0
INVARIANT AnnouncedAlertHasItsRow
