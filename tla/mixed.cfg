\* FCGI: a concurrent F and one that is not share an R; malloc, restCap and pthread_create vary.
SPECIFICATION Spec
CONSTANTS
  Null = Null
  f1 = f1
  f2 = f2
  r1 = r1
  r2 = r2
  Inst = {i1, i2, i3}
  Task = {t1, t2, t3}
  Addr = {a1, a2, a3}
  Func = {f1, f2}
  Res = {r1}
  Limit <- MixedLimit
  ResOf <- SameR
  UninitCaps <- Garbage
  StaleHash = {Null}
  Fcgi = TRUE
  CreateMayFail = TRUE
SYMMETRY Symmetric
INVARIANTS
  CapAccounting
  WakeUpExact
PROPERTIES
  ImplementsService
