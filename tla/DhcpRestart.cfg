SPECIFICATION Spec
CONSTANTS
  c1 = c1
  c2 = c2
  c3 = c3
  h1 = h1
  h2 = h2
  h3 = h3
  Client = {c1, c2, c3}
  Host = {h1, h2, h3}
  HostOf <- MCHostOf
  Mac = {m1, m2}
  Xid = x
  IP_RANGE_START = 100
  IP_RANGE_END = 100
  Reliable = FALSE
  Stranger = {}
  MaxRestarts = 1
INVARIANT TypeOK
INVARIANT UniqueAddress
INVARIANT ClaimsBacked
PROPERTY ImplementsRegistry
