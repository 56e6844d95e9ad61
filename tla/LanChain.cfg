SPECIFICATION FairSpec
CONSTANTS
  a1 = a1
  a2 = a2
  b1 = b1
  s0 = s0
  s1 = s1
  s2 = s2
  None = None
  Hosts = {a1, a2, b1}
  Switches = {s1, s2}
  Pings = {p1, p2}
  Nbr <- ChainNbr
  Attach <- ChainAttach
  Toward <- ChainToward
  Trunks = {}
  MaxFlaps = 0
INVARIANTS TypeOK OnePlace QueueIsAwaited
PROPERTIES EveryPingAnswered
CHECK_DEADLOCK FALSE
