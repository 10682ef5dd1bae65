SPECIFICATION FairSpec
CONSTANTS
  h1 = h1
  h2 = h2
  t1 = t1
  t2 = t2
  t3 = t3
  Host = {h1, h2}
  Master = h1
  Thread = {t1, t2, t3}
  HostOf <- HostsOfThreads
  Writer <- Writers
  NCells = 3
  Chunk <- Apart
  CellsPerPage = 2
  Styles = {"set", "offset", "ptr", "offsetPtr", "mask", "append"}
  MaxWrites = 2
  MaxCalls <- CallBound
  MaxFaults <- FaultBound
INVARIANTS
  UnsentWillBePushed
  ChunksAreRuns
PROPERTIES
  
  PushesOwnWrites
  
CHECK_DEADLOCK FALSE
