SPECIFICATION Spec
CONSTANTS
  k1 = k1
  k2 = k2
  tenant = tenant
  ApiKeys = {k1, k2}
  Tenant = tenant
  Rate <- Rates
  Burst <- Bursts
  Cost = 2
  Absent = absent
  Keys = {k1}
  reader = reader
  admin = admin
  KeyRoles = {reader, admin}
  Instances = {i1, i2}
  Admissions = {c1, c2}
  AuthTtl = 2
  EntTtl = 2
  Latency = 1
  Nothing = none
  d1 = d1
  x1 = x1
  x2 = x2
  p1 = p1
  p2 = p2
  Conditions <- Condition
  Contexts = {x1, x2}
  MaxDepth = 4
  Policies = {p1, p2}
  Global = {p2}
  Before <- Earlier
  Payloads <- Bodies
  Updates <- Patches
  Editors = {e1, e2}
  Documents = {d1}
  Callers <- People
  Grants <- Asked
  Deployments <- Settings
  Null = null
  j1 = j1
  Jobs = {j1, j2}
  Drills = {c1, c2}
  Prunes = {i1, i2}
  Scopes = {tenant, nil}
  Nil = nil
  Dumps = {full}
  Signature = signature
  MaxBreakdowns = 1
  Operators = {e1, e2}
  Cooldown = 2
  Step = 2
  Replicas = {1, 2, 3}
  Profile <- OneToTwo
  MaxActions = 3
  MaxClock = 2
SYMMETRY Alike
INVARIANTS RateKept StaleBounded DecisionsAgree WildcardsGuarded RowsTellFiles ReadyIsEarned SpacedApplies BoundsKept
CHECK_DEADLOCK FALSE
