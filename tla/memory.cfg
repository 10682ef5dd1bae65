SPECIFICATION Spec
CONSTANTS
  Host = {"a", "b"}
  Origin = "a"
  InitPages = 1
  MaxPages = 14
  StackSize = 2
  GuardSize = 2
  ThreadPoolSize = 1
  DynMemorySize = 4
  DynStackSize = 2
  MainTable <- Table
  MainExports <- Exported
  MainGlobals <- MainData
  Libs <- AllLibs
  Segments <- State
  ZygoteFunctions = {"none", "grow", "trim", "plain"}
  Programs <- AllPrograms
  MaxCalls = 2
  MaxOps = 4
INVARIANTS
  
  ResetComplete
  
  FunctionPointersValid

  
