\* Fair runs of a concurrent F and one that is not, each on an R of its own.
SPECIFICATION FairSpec
CONSTANTS
  Null = Null
  f1 = f1
  f2 = f2
  r1 = r1
  r2 = r2
  Inst = {i1, i2, i3}
  Task = {t1, t2, t3}
  Addr = {a1, a2, a3}
  Func = {f1, f2}
  Res = {r1, r2}
  Limit <- MixedLimit
  ResOf <- TwoR
  UninitCaps = {0}
  StaleHash = {Null}
  Fcgi = FALSE
  CreateMayFail = FALSE
PROPERTIES
  BusyDrains
  ServedOrStranded
