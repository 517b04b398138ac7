SPECIFICATION MCSpec
CONSTANTS
  Parts = {"run", "sla"}
  Clients = {c1, c2}
  Instances = {i1, i2}
  Limit = 1
  DayLimit = 2
  MonthLimit = 3
  Budget = 2
  Tenants <- TenantKinds
  Threshold = 2
  Trials = 2
  OpenTicks = 2
  Ttl = 4
  MaxCuts = 1
  None = None
  Servers = {i1, i2}
  Callers = {i1, i2}
  Server <- OneEach
  Trigger = 2
  Routes = {"run", "ingest"}
  Policies = {"degrade", "shed"}
INVARIANTS TypeOK PermitsAccounted QuotaKept OvershootBounded
PROPERTIES BreakerRecovers Recovers
CHECK_DEADLOCK FALSE
