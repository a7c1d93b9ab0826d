SPECIFICATION Spec
CONSTANTS
  new = new
  old = old
  Monitors <- TwoMonitors
  Enabled <- OnlyNew
  InitialTables <- FewTables
  Week = 1
  Month = 3
  PageSize = 2
  Start = 7
  MaxNow = 8
  MaxFaults = 1
INVARIANTS ReportsAgreeWithThemselves BarsAreWhole WeeksAreComparable PagesPartitionIncidents
CHECK_DEADLOCK FALSE
