SPECIFICATION FairSpec
CONSTANTS
  Routers = {1, 2, 3, 4}
  Links <- Paw
  Requests <- LongPath
  MaxLosses = 1
  Metric <- mcMetric
  Far = 1000
INVARIANTS LspsLead RepairLeads LabelsProtected AllSetUp
PROPERTIES SettingUpEnds
CHECK_DEADLOCK FALSE
