\* One concurrent F with limit 4, restCap starting at 0.
SPECIFICATION Spec
CONSTANTS
  Null = Null
  f1 = f1
  f2 = f2
  r1 = r1
  r2 = r2
  Inst = {i1, i2, i3, i4, i5, i6, i7}
  Task = {t1, t2}
  Addr = {a1, a2, a3, a4, a5, a6, a7}
  Func = {f1}
  Res = {r1}
  Limit <- Limit4
  ResOf <- OneR
  UninitCaps = {0}
  StaleHash = {Null}
  Fcgi = FALSE
  CreateMayFail = FALSE
INVARIANTS
  PlacedOnce
