\* Two hosts with a core each, calls submitted anywhere, one of them a thread.
SPECIFICATION Spec
CONSTANTS
  NoExec = NoExec
  h1 = h1
  h2 = h2
  h3 = h3
  e1 = e1
  e2 = e2
  e3 = e3
  f1 = f1
  f2 = f2
  c1 = c1
  c2 = c2
  c3 = c3
  c4 = c4
  Host = {h1, h2}
  Func = {f1}
  Call = {c1, c2, c3, c4}
  Exec = {e1, e2}
  HostOf <- TwoHosts
  FuncOf <- SameFunc
  Cores <- OneCore
  Batch <- Singles
  ThreadBatch <- OneThread
  Invalid = {}
  CallMayFail = TRUE
  RpcMayFail = FALSE
INVARIANTS
  NoDispatchCycle
  InFlightExact
CHECK_DEADLOCK FALSE
