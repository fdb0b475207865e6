SPECIFICATION Spec
CONSTANTS
  NakLimit = 3
  RetryLimit = 2
  MaxReports = 4
  MaxLosses = 3
  MaxPlugs = 2
PROPERTIES
  DeliversReports
  PollEnds
  ReportsArrive
