SPECIFICATION FairSpec
CONSTANTS
  t1 = t1
  t2 = t2
  t3 = t3
  e1 = e1
  e2 = e2
  e3 = e3
  Transfer = {t1, t2, t3}
  Endpoint = {e1, e2, e3}
  EndpointOf <- MCReused
  Total <- MCGrowing
  Timely = FALSE
  MAX_RETRIES = 3
  packet_loss_count = 0
  Missing = Missing
  DiskMayFail = FALSE
  MaxRestarts = 1
INVARIANT TypeOK
PROPERTY SenderTerminates
CHECK_DEADLOCK FALSE
