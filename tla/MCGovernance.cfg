SPECIFICATION Spec
CONSTANTS
  t1 = t1
  t2 = t2
  d1 = d1
  s1 = s1
  Tenants = {t1, t2}
  Documents = {d1}
  Sessions = {s1}
  Keys = {}
  Backups = {b1}
  Owner <- Owners
  Ops = {o1, o2}
  MaxHolds = 2
  None = None
SYMMETRY OpsAlike
INVARIANTS TypeOK DsarTruthful
PROPERTIES HeldSinceArrival
CHECK_DEADLOCK FALSE
