SPECIFICATION Spec
CONSTANTS
  Routers = {1, 2, 3}
  Links <- Triangle
  FreshUp <- FreshLine
  Flaps <- mcFlaps
  Prompt = TRUE
  Metric <- mcMetric
  Far = 1000
INVARIANTS TypeOK OwnNewest SeqAgreement RoutesLead
CHECK_DEADLOCK FALSE
