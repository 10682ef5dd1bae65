\* Hosts that restart and are flushed; the lock in Redis outlives a claim.
SPECIFICATION FairMasterSpec
CONSTANTS
  None = None
  h1 = h1
  h2 = h2
  t1 = t1
  t2 = t2
  Host = {h1, h2}
  Thread = {t1, t2}
  HostOf <- OneEach
  MaxRetries = 1
  MaxDisturbances = 2
  Slow = FALSE
INVARIANTS
  OneMaster

  
