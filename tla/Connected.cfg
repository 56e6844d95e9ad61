SPECIFICATION Spec
CONSTANTS
  h = h  r = r  i1 = i1  i2 = i2  j1 = j1  a1 = a1  a2 = a2  b1 = b1
  None = None
  Hosts = {h}
  Routers = {r}
  Interfaces = {i1, i2, j1}
  Owner <- mcOwner
  Links <- mcLinks
  Addresses = {a1, a2, b1}
  Network <- mcNetwork
  HostPrefix <- mcHostPrefix
  Prefixes <- mcPrefixes
  MaxCommands <- mcMaxCommands
  MaxAddresses = 2
INVARIANTS ExactRoutes EndsFollow UpMeansRouted
CHECK_DEADLOCK FALSE
