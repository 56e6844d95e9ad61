SPECIFICATION Spec
CONSTANTS
  a1 = a1
  a2 = a2
  b1 = b1
  s0 = s0
  s1 = s1
  s2 = s2
  None = None
  Hosts = {a1, a2, b1}
  Switches = {s0, s1, s2}
  Pings = {p1, p2}
  Nbr <- LineNbr
  Attach <- LineAttach
  Toward <- LineToward
  Trunks <- LineTrunks
  MaxFlaps = 1
SYMMETRY PingSymmetry
INVARIANTS PathsLeadHome UnicastKnown
PROPERTIES EchoServiceSpec
CHECK_DEADLOCK FALSE
