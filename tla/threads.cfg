SPECIFICATION FairSpec
CONSTANTS
  Ptr = {"p", "q"}
  Mutex = {"m"}
  PoolSize = 2
  StackTops <- TwoStacks
  Styles <- AllStyles
  MaxCalls = 2
  MaxThreads = 3
  MaxLocks = 3
INVARIANTS
  JoinMatches
  
  ThreadsEndWithCall
  MutexExclusive

  
CHECK_DEADLOCK FALSE
