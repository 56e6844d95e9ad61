SPECIFICATION Spec
CONSTANTS
  s1 = s1
  s2 = s2
  h = h
  c1 = c1
  None = None
  Clients = {c1, c2}
  Servers = {s1}
  Fixed = {s1}
  Static <- JustServer
  Addrs = {1, 2, 3, 4, 10, 11, 12}
  Pool <- ThreeFrom1
  Prompt = FALSE
  MaxStarts <- Twice
  MaxLosses = 1
SYMMETRY ClientSymmetry
INVARIANTS TypeOK PoolConsistent
PROPERTIES LeaseKept
CHECK_DEADLOCK FALSE
