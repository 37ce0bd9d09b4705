SPECIFICATION FairSpec
CONSTANTS
  c1 = c1
  c2 = c2
  c3 = c3
  h1 = h1
  h2 = h2
  h3 = h3
  Client = {c1, c2, c3}
  Host = {h1, h2, h3}
  HostOf <- MCHostOf
  Mac = {m1, m2, m3}
  Xid = x
  IP_RANGE_START = 100
  IP_RANGE_END = 102
  Reliable = TRUE
  Stranger = {h3}
  MaxRestarts = 0
INVARIANT NoReplyWithoutAddress
PROPERTY ClientIsServed
CHECK_DEADLOCK FALSE
