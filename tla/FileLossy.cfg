SPECIFICATION Spec
CONSTANTS
  t1 = t1
  t2 = t2
  t3 = t3
  e1 = e1
  e2 = e2
  e3 = e3
  Transfer = {t1, t2, t3}
  Endpoint = {e1, e2, e3}
  EndpointOf <- MCDistinct
  Total <- MCWithEmpty
  Timely = FALSE
  MAX_RETRIES = 3
  packet_loss_count = 1
  Missing = Missing
  DiskMayFail = TRUE
  MaxRestarts = 1
INVARIANT IInv
INVARIANT PassedIsSent
 
 
 
CHECK_DEADLOCK FALSE
