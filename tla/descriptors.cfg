SPECIFICATION Spec
CONSTANTS
  Tree <- HostTree
  Dirs = {"r", "d1", "sr", "d2", "d3"}
  Files = {"f1", "f2", "f3"}
  Programs <- SixPrograms
  Buffers = {3, 6, 12}
  HostFds = 8
  MaxCalls = 2
INVARIANTS
  OpensItsFile
  ListingComplete
  OutputIsOwn
PROPERTIES
  WritesByRight
CHECK_DEADLOCK FALSE
