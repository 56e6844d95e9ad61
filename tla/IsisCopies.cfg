SPECIFICATION Spec
CONSTANTS
  Routers = {1, 2, 3}
  Links <- Triangle
  FreshUp <- NoFresh
  Flaps <- mcFlaps
  Prompt = TRUE
  Metric <- mcMetric
  Far = 1000
INVARIANTS CopiesCurrent
CHECK_DEADLOCK FALSE
