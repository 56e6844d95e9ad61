SPECIFICATION Spec
CONSTANTS
  e1 = e1  e2 = e2  lo = lo
  None = None
  Interfaces = {e1, e2, lo}
  Local <- mcLocal
  Network <- mcNetwork
  Loopback = lo
  Prefixes <- mcPrefixes
  Default <- mcDefault
  Labels <- mcLabels
  StaticRoutes <- mcStaticRoutes
  BgpRoutes <- mcBgpRoutes
  IsisTables <- mcIsisTables
  LspRoutes <- mcLspRoutes
  LabelRoutes <- mcLabelRoutes
  Bypasses <- mcBypasses
  MaxMoves = 2
  Orderly = TRUE
INVARIANTS TypeOK FibCurrent LongestPrefixWins LearnedOverLiveLinks BypassTakesOver
CHECK_DEADLOCK FALSE
