SPECIFICATION FairSpec
CONSTANTS
  r1 = r1
  r2 = r2
  h = h
  None = None
  Bare = Bare
  Routers = {r1, r2}
  Servers = {h}
  Switches = {}
  NPorts <- mcPorts
  Order <- mcOrder
  Clusters <- mcClusters
  Homes <- mcHomes
  Kept = {r2}
  Latency = 1
  Hello = 2
  Jitter = 0
  MaxLinks = 2
  MaxSchedules = 1
  Ticks = {2}
INVARIANTS AddressesPaired PeersRunIsis NeverLate
PROPERTIES RunsLost RunEnds
CHECK_DEADLOCK FALSE
