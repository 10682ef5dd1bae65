\* Fair runs with calls and RPCs that fail, and a function that does not exist.
SPECIFICATION FairSpec
CONSTANTS
  NoExec = NoExec
  h1 = h1
  h2 = h2
  h3 = h3
  e1 = e1
  e2 = e2
  e3 = e3
  f1 = f1
  f2 = f2
  c1 = c1
  c2 = c2
  c3 = c3
  c4 = c4
  Host = {h1, h2}
  Func = {f1, f2}
  Call = {c1, c2, c3}
  Exec = {e1, e2, e3}
  HostOf <- TwoOnFirst
  FuncOf <- TwoFuncs
  Cores <- OneCore
  Batch <- Singles
  ThreadBatch = {}
  Invalid = {f2}
  CallMayFail = TRUE
  RpcMayFail = TRUE
INVARIANTS
  FaasletExact
  SingleCallOnce
PROPERTIES
  AnsweredOrStranded
CHECK_DEADLOCK FALSE
