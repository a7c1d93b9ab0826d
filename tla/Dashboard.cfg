SPECIFICATION FairDashboardSpec
CONSTANTS
  cpu = cpu
  NULL = NULL
  Checks <- OneCheck
  Readings <- TwoReadings
  Warning <- WarningOne
  Critical <- CriticalTwo
  Cooldown = 1
  AIEnabled = TRUE
  MaxChanges = 3
  MaxRestarts = 1
  MaxFaults = 0
  MaxConnections = 2
INVARIANT PageErrsOnlyByLosses
PROPERTY PageFollowsMetrics
