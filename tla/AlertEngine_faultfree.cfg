SPECIFICATION Spec
CONSTANTS
  cpu = cpu
  mem = mem
  NULL = NULL
  Checks <- TwoChecks
  Readings <- TwoReadings
  Warning <- WarningOne
  Critical <- CriticalByMetric
  Cooldown = 1
  AIEnabled = TRUE
  MaxChanges = 3
  MaxRestarts = 0
  MaxFaults = 0
INVARIANTS TypeOK TablesMirrorEngine TablesAgree StoredWhenAnnounced NotificationOrder
PROPERTY RefinesLifecycle
