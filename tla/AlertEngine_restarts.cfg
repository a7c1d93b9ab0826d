SPECIFICATION FairSpec
CONSTANTS
  cpu = cpu
  mem = mem
  NULL = NULL
  Checks <- OneCheck
  Readings <- TwoReadings
  Warning <- WarningOne
  Critical <- CriticalByMetric
  Cooldown = 2
  AIEnabled = TRUE
  MaxChanges = 4
  MaxRestarts = 1
  MaxFaults = 2
INVARIANT CooldownRespected
PROPERTIES ResolvedIncidentStaysResolved AlertRowsKeepTheirIdentity SustainedBreachIsOpen SustainedRecoveryIsResolved EveryAlertIsAnswered
