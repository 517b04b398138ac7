SPECIFICATION Spec
CONSTANTS
  Regions = {r1, r2, r3}
  Writable = {r1, r2}
  Calls = {c1, c2}
  PromoteTokens = {p1, p2}
  RollbackTokens = {b1}
  FreezeOnUnhealthy = TRUE
  None = None
INVARIANT ContainmentHolds
SYMMETRY Symmetry
CHECK_DEADLOCK FALSE
