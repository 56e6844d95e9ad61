SPECIFICATION FairSpec
CONSTANTS
  s1 = s1
  s2 = s2
  h = h
  c1 = c1
  None = None
  Clients = {c1, c2, c3}
  Servers = {s1}
  Fixed = {s1, h}
  Static <- OneServer
  Addrs = {1, 2, 3, 4, 10, 11, 12}
  Pool <- ThreeFrom1
  Prompt = TRUE
  MaxStarts <- Once
  MaxLosses = 0
INVARIANTS NoSharedAddress AppliedIsLeased
PROPERTIES AddressServiceSpec EveryClientConfigured
CHECK_DEADLOCK FALSE
