------------------------------ MODULE RunProofs ------------------------------
(***************************************************************************)
(* Proofs about RunPipeline and the circuit breaker it composes, for any   *)
(* number of clients, instances and permits, any limits and any budget.    *)
(***************************************************************************)
EXTENDS RunPipeline, TLAPS, FiniteSetTheorems

\* The phases of a request that holds a permit, and of one that is a run the
\* guardrail has looked at.
Holding == {"checks", "snapshot", "insert", "persist", "early", "stream",
            "retrieve", "generate", "answer", "final"}
Looked  == {"snapshot", "insert", "persist", "stream", "retrieve", "generate",
            "answer", "final"}

\* A request has no permit before the gate and one from there until it closes, of
\* the instance it is at; only the guardrail's decision is ever capped.
RequestInv(r) ==
  /\ r.phase \in {"idle", "month", "gate"} => r.lease = None
  /\ r.phase \in Holding => r.lease # None
  /\ r.lease # None => r.lease[1] = r.at
  /\ r.phase \notin {"snapshot", "insert", "close"} => ~r.capped

\* A request that waits for the month's counter alone has its day's row, and the
\* count it has read is still there.
LockInv ==
  /\ \A c \in Clients : At(c, "month") => client[c].count = used[client[c].day]
  /\ \A c, d \in Clients :
       At(c, "month") /\ At(d, "month") /\ client[c].day = client[d].day => c = d

\* A budget of one run admits none.
BudgetInv ==
  /\ OvershootBounded
  /\ tenant.governed /\ Budget = 1 => Admitted = {}

\* A caller of the breaker that takes a trial has loaded one that had some left.
TrialInv ==
  \A c \in Clients : link[c].step \in {"transition", "trial"} => link[c].mem.trials < Trials

IInv ==
  /\ TypeOK
  /\ \A c \in Clients : RequestInv(client[c])
  /\ PermitsAccounted
  /\ LockInv /\ QuotaKept
  /\ BudgetInv
  /\ TrialInv

-----------------------------------------------------------------------------
\* Lemmas about the operators that the actions are built from.

\* The fields of a request.
LEMMA Fields ==
  ASSUME NEW r \in Request
  PROVE  /\ r.phase \in Phases
         /\ r.at \in Instances \cup {None}
         /\ r.lease \in Permits \cup {None}
         /\ r.day \in Days
         /\ r.count \in Nat
         /\ r.capped \in BOOLEAN
BY DEF Request

\* Assigning a client's request keeps those of the others.
LEMMA AssignClient ==
  ASSUME client \in [Clients -> Request], NEW c \in Clients, NEW r \in Request,
         client' = [client EXCEPT ![c] = r]
  PROVE  /\ client' \in [Clients -> Request]
         /\ client'[c] = r
         /\ \A d \in Clients \ {c} : client'[d] = client[d]
OBVIOUS

\* A request that goes to another phase keeps everything else.
LEMMA GotoStep ==
  ASSUME client \in [Clients -> Request], NEW c \in Clients, NEW p \in Phases, Goto(c, p)
  PROVE  /\ client' \in [Clients -> Request]
         /\ client'[c].phase = p
         /\ client'[c].at = client[c].at
         /\ client'[c].lease = client[c].lease
         /\ client'[c].capped = client[c].capped
         /\ \A d \in Clients \ {c} : client'[d] = client[d]
<1>1. client[c] \in Request
  OBVIOUS
<1>2. [client[c] EXCEPT !.phase = p] \in Request
  BY <1>1 DEF Request
<1>3. client' = [client EXCEPT ![c] = [client[c] EXCEPT !.phase = p]]
  BY DEF Goto
<1>4. /\ client' \in [Clients -> Request]
      /\ client'[c] = [client[c] EXCEPT !.phase = p]
      /\ \A d \in Clients \ {c} : client'[d] = client[d]
  BY <1>2, <1>3, AssignClient
<1> QED
  BY <1>1, <1>4 DEF Request

\* A client without a request.
LEMMA IdleType == Idle \in Request
BY DEF Idle, Request, Phases, Days

\* A request that ends.
LEMMA EndStep ==
  ASSUME client \in [Clients -> Request], NEW c \in Clients, End(c)
  PROVE  /\ client' \in [Clients -> Request]
         /\ client'[c] = Idle
         /\ \A d \in Clients \ {c} : client'[d] = client[d]
BY IdleType, AssignClient DEF End

\* The permits are finitely many.
LEMMA PermitsFinite == IsFiniteSet(Permits) /\ Cardinality(Permits) \in Nat
<1>1. IsFiniteSet(1..Limit)
  BY FS_Interval, RunAssumption
<1>2. IsFiniteSet(Instances \X (1..Limit))
  BY <1>1, FS_Product, RunAssumption
<1> QED
  BY <1>2, FS_CardinalityType DEF Permits

\* The runs admitted by some requests.
AdmittedOf(cl) == {c \in Clients : cl[c].phase \in Looked /\ ~cl[c].capped}

\* Admitted is that of the clients' requests.
LEMMA AdmittedSame == Admitted = AdmittedOf(client) /\ Admitted' = AdmittedOf(client')
BY DEF Admitted, AdmittedOf, Looked

\* The admitted runs are as many as the permits they hold, at most.
LEMMA AdmittedBound ==
  ASSUME NEW cl \in [Clients -> Request],
         \A c \in Clients : cl[c].phase \in Holding => cl[c].lease # None,
         \A c, d \in Clients : cl[c].lease # None /\ cl[c].lease = cl[d].lease => c = d
  PROVE  /\ IsFiniteSet(AdmittedOf(cl))
         /\ Cardinality(AdmittedOf(cl)) \in Nat
         /\ Cardinality(AdmittedOf(cl)) <= Cardinality(Permits)
<1> DEFINE S == AdmittedOf(cl)
           f == [c \in S |-> cl[c].lease]
<1>1. S \subseteq Clients
  BY DEF AdmittedOf
<1>2. IsFiniteSet(S) /\ Cardinality(S) \in Nat
  BY <1>1, FS_Subset, FS_CardinalityType, RunAssumption
<1>3. ASSUME NEW c \in S
      PROVE  cl[c].lease \in Permits /\ cl[c].lease # None
  <2>1. c \in Clients /\ cl[c].phase \in Holding
    BY DEF AdmittedOf, Looked, Holding
  <2> QED
    BY <2>1, Fields
<1>4. f \in [S -> Permits]
  BY <1>3
<1>5. ASSUME NEW c \in S, NEW d \in S, f[c] = f[d]
      PROVE  c = d
  BY <1>1, <1>3, <1>5
<1> HIDE DEF S, f
<1>6. ~(Cardinality(Permits) < Cardinality(S))
  BY <1>2, <1>4, <1>5, PermitsFinite, FS_PigeonHole
<1> QED
  BY <1>2, <1>6, PermitsFinite DEF S

-----------------------------------------------------------------------------
\* The permits.

PermitInv == /\ \A c \in Clients : RequestInv(client[c])
             /\ PermitsAccounted

\* Two requests never hold the same permit.
LEMMA LeasesDiffer ==
  ASSUME TypeOK, PermitsAccounted
  PROVE  /\ \A c, d \in Clients :
              client[c].lease # None /\ client[c].lease = client[d].lease => c = d
         /\ \A c \in Clients : client[c].lease # None =>
              client[c].lease \in Permits \ (free \cup leaked)
<1>1. \A c \in Clients : client[c].lease # None => client[c].lease \in Permits
  BY Fields DEF TypeOK
<1> QED
  BY <1>1 DEF PermitsAccounted

\* A request that keeps its permit, or has none.
LEMMA PermitKept ==
  ASSUME TypeOK, PermitInv, NEW c \in Clients,
         client' \in [Clients -> Request],
         \A d \in Clients \ {c} : client'[d] = client[d],
         client'[c].lease = client[c].lease, RequestInv(client'[c]),
         free' = free, leaked' = leaked
  PROVE  PermitInv'
<1>1. \A d \in Clients : client'[d].lease = client[d].lease
  OBVIOUS
<1>2. PermitsAccounted'
  BY <1>1 DEF PermitInv, PermitsAccounted
<1>3. \A d \in Clients : RequestInv(client'[d])
  BY DEF PermitInv
<1> QED
  BY <1>2, <1>3 DEF PermitInv, RequestInv

\* A request that takes a free permit.
LEMMA PermitTaken ==
  ASSUME TypeOK, PermitInv, NEW c \in Clients, NEW p \in free,
         client' \in [Clients -> Request],
         \A d \in Clients \ {c} : client'[d] = client[d],
         client[c].lease = None, client'[c].lease = p, RequestInv(client'[c]),
         free' = free \ {p}, leaked' = leaked
  PROVE  PermitInv'
<1>1. p \in Permits /\ p # None
  BY RunAssumption DEF TypeOK
<1>2. \A d \in Clients : client[d].lease # p
  BY <1>1 DEF PermitInv, PermitsAccounted
<1>3. ASSUME NEW q \in Permits
      PROVE  LET holders == {d \in Clients : client'[d].lease = q}
             IN /\ \A d, e \in holders : d = e
                /\ (q \in free') = (holders = {} /\ q \notin leaked')
                /\ q \in leaked' => holders = {}
  <2>1. CASE q = p
    <3>1. {d \in Clients : client'[d].lease = p} = {c}
      BY <1>2
    <3>2. p \notin leaked
      BY <1>1 DEF PermitInv, PermitsAccounted
    <3> QED
      BY <2>1, <3>1, <3>2
  <2>2. CASE q # p
    <3>1. {d \in Clients : client'[d].lease = q} = {d \in Clients : client[d].lease = q}
      BY <2>2, RunAssumption
    <3> QED
      BY <2>2, <3>1 DEF PermitInv, PermitsAccounted
  <2> QED
    BY <2>1, <2>2
<1>4. PermitsAccounted'
  BY <1>3 DEF PermitsAccounted
<1>5. \A d \in Clients : RequestInv(client'[d])
  BY DEF PermitInv
<1> QED
  BY <1>4, <1>5 DEF PermitInv, RequestInv

\* A request that gives its permit back, to the semaphore or to nobody.
LEMMA PermitGiven ==
  ASSUME TypeOK, PermitInv, NEW c \in Clients,
         client' \in [Clients -> Request],
         \A d \in Clients \ {c} : client'[d] = client[d],
         client'[c].lease = None, RequestInv(client'[c]),
         \/ free' = Free(c) /\ leaked' = leaked
         \/ /\ client[c].lease # None
            /\ free' = free /\ leaked' = leaked \cup {client[c].lease}
  PROVE  PermitInv'
<1>1. ASSUME NEW q \in Permits
      PROVE  LET holders == {d \in Clients : client'[d].lease = q}
             IN /\ \A d, e \in holders : d = e
                /\ (q \in free') = (holders = {} /\ q \notin leaked')
                /\ q \in leaked' => holders = {}
  <2> DEFINE was == {d \in Clients : client[d].lease = q}
             now == {d \in Clients : client'[d].lease = q}
  <2>1. q # None
    BY RunAssumption
  <2>2. /\ \A d, e \in was : d = e
        /\ (q \in free) = (was = {} /\ q \notin leaked)
        /\ q \in leaked => was = {}
    BY DEF PermitInv, PermitsAccounted
  <2>3. CASE client[c].lease = q
    <3>1. was = {c} /\ now = {}
      BY <2>1, <2>2, <2>3
    <3> QED
      BY <2>1, <2>2, <2>3, <3>1 DEF Free
  <2>4. CASE client[c].lease # q
    <3>1. now = was
      BY <2>1, <2>4
    <3>2. (q \in free') = (q \in free) /\ (q \in leaked') = (q \in leaked)
      BY <2>4 DEF Free
    <3> QED
      BY <2>2, <3>1, <3>2
  <2> QED
    BY <2>3, <2>4
<1>2. PermitsAccounted'
  BY <1>1 DEF PermitsAccounted
<1>3. \A d \in Clients : RequestInv(client'[d])
  BY DEF PermitInv
<1> QED
  BY <1>2, <1>3 DEF PermitInv, RequestInv

-----------------------------------------------------------------------------
\* The quota.

CountInv == LockInv /\ QuotaKept

\* A request that is not, or no longer, between its two counters.
LEMMA CountKept ==
  ASSUME TypeOK, CountInv, NEW c \in Clients,
         \A d \in Clients \ {c} : client'[d] = client[d],
         client'[c].phase # "month" \/ client'[c] = client[c],
         used' = used, month' = month
  PROVE  CountInv'
<1>1. \A d \in Clients : At(d, "month")' => At(d, "month") /\ client'[d] = client[d]
  BY DEF At
<1>2. LockInv'
  BY <1>1 DEF CountInv, LockInv, At
<1> QED
  BY <1>2 DEF CountInv, QuotaKept

\* A request that locks the row of its day, which no other has locked.
LEMMA CountLocked ==
  ASSUME TypeOK, CountInv, NEW c \in Clients,
         \A d \in Clients \ {c} : client'[d] = client[d],
         \A e \in Clients : ~(At(e, "month") /\ client[e].day = client'[c].day),
         client'[c].count = used[client'[c].day],
         used' = used, month' = month
  PROVE  CountInv'
<1>1. \A d \in Clients \ {c} : At(d, "month")' <=> At(d, "month")
  BY DEF At
<1>2. LockInv'
  <2>1. ASSUME NEW d \in Clients, At(d, "month")'
        PROVE  client'[d].count = used'[client'[d].day]
    BY <1>1, <2>1 DEF CountInv, LockInv
  <2>2. ASSUME NEW d \in Clients, NEW e \in Clients, At(d, "month")', At(e, "month")',
               client'[d].day = client'[e].day
        PROVE  d = e
    <3>1. CASE d # c /\ e # c
      BY <1>1, <2>2, <3>1 DEF CountInv, LockInv
    <3>2. CASE d = c \/ e = c
      BY <1>1, <2>2, <3>2
    <3> QED
      BY <3>1, <3>2
  <2> QED
    BY <2>1, <2>2 DEF LockInv
<1> QED
  BY <1>2 DEF CountInv, QuotaKept

\* A request that counts in both rows what it has read under the day's lock.
LEMMA CountConsumed ==
  ASSUME TypeOK, CountInv, NEW c \in Clients, At(c, "month"), ~OverLimit(c),
         \A d \in Clients \ {c} : client'[d] = client[d],
         client'[c].phase # "month",
         used' = [used EXCEPT ![client[c].day] = client[c].count + 1],
         month' = month + 1
  PROVE  CountInv' /\ used' \in [Days -> Nat] /\ month' \in Nat
<1>1. client[c].day \in Days /\ client[c].count \in Nat
  BY Fields DEF TypeOK
<1>2. client[c].count = used[client[c].day]
  BY DEF CountInv, LockInv
<1>3. /\ used' \in [Days -> Nat]
      /\ used'[client[c].day] = used[client[c].day] + 1
      /\ \A d \in Days \ {client[c].day} : used'[d] = used[d]
      /\ month' \in Nat
  BY <1>1, <1>2 DEF TypeOK
<1>4. LockInv'
  <2>1. \A d \in Clients : At(d, "month")' => /\ At(d, "month") /\ d # c
                                              /\ client'[d] = client[d]
    BY DEF At
  <2>2. ASSUME NEW d \in Clients, At(d, "month")'
        PROVE  client'[d].count = used'[client'[d].day]
    <3>1. client[d].day # client[c].day /\ client[d].day \in Days
      BY <2>1, <2>2, Fields DEF CountInv, LockInv, TypeOK
    <3> QED
      BY <1>3, <2>1, <2>2, <3>1 DEF CountInv, LockInv
  <2>3. ASSUME NEW d \in Clients, NEW e \in Clients, At(d, "month")', At(e, "month")',
               client'[d].day = client'[e].day
        PROVE  d = e
    BY <2>1, <2>3 DEF CountInv, LockInv
  <2> QED
    BY <2>2, <2>3 DEF LockInv
<1>5. used[client[c].day] + 1 <= DayLimit /\ month + 1 <= MonthLimit
  BY <1>1, <1>2, RunAssumption DEF OverLimit, TypeOK
<1>6. QuotaKept'
  <2>1. month' = used'[1] + used'[2]
    BY <1>1, <1>3 DEF CountInv, QuotaKept, TypeOK, Days
  <2>2. ASSUME NEW d \in Days
        PROVE  used'[d] <= DayLimit
    BY <1>3, <1>5 DEF CountInv, QuotaKept
  <2> QED
    BY <1>5, <2>1, <2>2 DEF QuotaKept
<1> QED
  BY <1>3, <1>4, <1>6 DEF CountInv

-----------------------------------------------------------------------------
\* The budget.

\* A request that admits no further run, while nothing is spent.
LEMMA BudgetKept ==
  ASSUME TypeOK, BudgetInv, NEW c \in Clients,
         client' \in [Clients -> Request],
         \A d \in Clients \ {c} : client'[d] = client[d],
         \/ ~tenant.governed
         \/ client'[c].phase \notin Looked
         \/ client'[c].capped
         \/ client[c].phase \in Looked /\ ~client[c].capped,
         spend' = spend, tenant' = tenant
  PROVE  BudgetInv'
<1>1. CASE ~tenant.governed
  BY <1>1 DEF BudgetInv, OvershootBounded
<1>2. CASE tenant.governed
  <2>1. Admitted' \subseteq Admitted
    BY <1>2, AdmittedSame DEF AdmittedOf
  <2>2. IsFiniteSet(Admitted)
    BY FS_Subset, RunAssumption DEF Admitted
  <2>3. /\ IsFiniteSet(Admitted')
        /\ Cardinality(Admitted') <= Cardinality(Admitted)
        /\ Cardinality(Admitted) \in Nat /\ Cardinality(Admitted') \in Nat
    BY <2>1, <2>2, FS_Subset, FS_CardinalityType
  <2> QED
    BY <1>2, <2>1, <2>3, PermitsFinite, RunAssumption DEF BudgetInv, OvershootBounded, TypeOK
<1> QED
  BY <1>1, <1>2

\* A run that the guardrail admits: all that are admitted hold a permit each.
LEMMA BudgetEvaluated ==
  ASSUME TypeOK, BudgetInv, tenant.governed, ~Capped,
         client' \in [Clients -> Request], PermitInv', TypeOK',
         spend' = spend, tenant' = tenant
  PROVE  BudgetInv'
<1>1. /\ Cardinality(Admitted') \in Nat
      /\ Cardinality(Admitted') <= Cardinality(Permits)
  <2>1. \A d \in Clients : client'[d].phase \in Holding => client'[d].lease # None
    BY DEF PermitInv, RequestInv
  <2>2. \A d \in Clients : client'[d].lease # None => client'[d].lease \in Permits
    BY Fields
  <2>3. \A d, e \in Clients :
          client'[d].lease # None /\ client'[d].lease = client'[e].lease => d = e
    BY <2>2 DEF PermitInv, PermitsAccounted
  <2> QED
    BY <2>1, <2>3, AdmittedBound, AdmittedSame
<1>2. spend + 1 < Budget
  BY RunAssumption DEF Capped, TypeOK
<1> QED
  BY <1>1, <1>2, PermitsFinite, RunAssumption DEF BudgetInv, OvershootBounded, TypeOK

\* A run that is metered is admitted no more.
LEMMA BudgetMetered ==
  ASSUME TypeOK, BudgetInv, NEW c \in Clients,
         client' \in [Clients -> Request],
         \A d \in Clients \ {c} : client'[d] = client[d],
         client[c].phase \in Looked, ~client[c].capped,
         client'[c].phase \notin Looked,
         spend' \in {spend, spend + 1}, tenant' = tenant
  PROVE  BudgetInv' /\ spend' \in Nat
<1>1. Admitted' = Admitted \ {c} /\ c \in Admitted
  BY AdmittedSame DEF AdmittedOf
<1>2. IsFiniteSet(Admitted) /\ Cardinality(Admitted) \in Nat
  BY FS_Subset, FS_CardinalityType, RunAssumption DEF Admitted
<1>3. Cardinality(Admitted') = Cardinality(Admitted) - 1
  BY <1>1, <1>2, FS_RemoveElement
<1>4. Cardinality(Admitted') \in Nat
  BY <1>1, <1>2, FS_RemoveElement, FS_CardinalityType
<1> QED
  BY <1>1, <1>2, <1>3, <1>4, PermitsFinite, RunAssumption DEF BudgetInv, OvershootBounded, TypeOK

-----------------------------------------------------------------------------
\* The circuit breaker.

BreakerInv == Breaker!BreakerTypeOK /\ TrialInv

Hashes == [is : Breaker!State, ttl : 1..Ttl \cup {None}]
Links  == [step : Breaker!Steps, mem : Breaker!State]

\* The fields of a breaker's state.
LEMMA StateFields ==
  ASSUME NEW st \in Breaker!State
  PROVE  /\ st.state \in {"closed", "open", "half_open"}
         /\ st.failures \in 0..Threshold
         /\ st.opened \in [by : Instances \cup {None}, age : 0..OpenTicks]
         /\ st.opened.by \in Instances \cup {None}
         /\ st.opened.age \in 0..OpenTicks
         /\ st.trials \in 0..Trials
BY DEF Breaker!State

\* The states that callers save.
LEMMA FreshType ==
  ASSUME NEW s \in {"closed", "open", "half_open"}
  PROVE  Breaker!Fresh(s) \in Breaker!State /\ Breaker!Fresh(s).trials = 0
BY RunAssumption DEF Breaker!Fresh, Breaker!Never, Breaker!State

\* A closed breaker.
LEMMA ClosedType == Breaker!Closed \in Breaker!State
BY FreshType DEF Breaker!Closed

\* A breaker that instance i has just opened.
LEMMA OpenedType ==
  ASSUME NEW i \in Instances \cup {None}
  PROVE  Breaker!OpenedBy(i) \in Breaker!State
<1>1. Breaker!Fresh("open") \in Breaker!State
  BY FreshType
<1>2. [by |-> i, age |-> 0] \in [by : Instances \cup {None}, age : 0..OpenTicks]
  BY RunAssumption
<1> QED
  BY <1>1, <1>2 DEF Breaker!OpenedBy, Breaker!State

\* A failure is counted below the threshold, or opens the breaker.
LEMMA FailedType ==
  ASSUME NEW st \in Breaker!State, NEW i \in Instances \cup {None}
  PROVE  Breaker!Failed(st, i) \in Breaker!State
<1>1. CASE st.state = "half_open" \/ st.failures + 1 >= Threshold
  BY <1>1, OpenedType DEF Breaker!Failed
<1>2. CASE ~(st.state = "half_open" \/ st.failures + 1 >= Threshold)
  <2>1. st.failures + 1 \in 0..Threshold
    BY <1>2, StateFields, RunAssumption
  <2>2. [st EXCEPT !.failures = st.failures + 1] \in Breaker!State
    BY <2>1 DEF Breaker!State
  <2> QED
    BY <1>2, <2>2 DEF Breaker!Failed
<1> QED
  BY <1>1, <1>2

\* A trial taken of those left.
LEMMA TrialType ==
  ASSUME NEW st \in Breaker!State, st.trials < Trials
  PROVE  [st EXCEPT !.trials = @ + 1] \in Breaker!State
<1>1. st.trials + 1 \in 0..Trials
  BY StateFields, RunAssumption
<1> QED
  BY <1>1 DEF Breaker!State

\* Time that passes changes the age alone.
LEMMA AgedType ==
  ASSUME NEW st \in Breaker!State
  PROVE  Breaker!Aged(st) \in Breaker!State /\ Breaker!Aged(st).trials = st.trials
<1>1. CASE st.opened.by = None \/ st.opened.age = OpenTicks
  BY <1>1 DEF Breaker!Aged
<1>2. CASE ~(st.opened.by = None \/ st.opened.age = OpenTicks)
  <2>1. st.opened.age + 1 \in 0..OpenTicks
    BY <1>2, StateFields, RunAssumption
  <2>2. [st.opened EXCEPT !.age = st.opened.age + 1]
          \in [by : Instances \cup {None}, age : 0..OpenTicks]
    BY <2>1, StateFields
  <2>3. Breaker!Aged(st) = [st EXCEPT !.opened = [st.opened EXCEPT !.age = st.opened.age + 1]]
    BY <1>2 DEF Breaker!Aged
  <2> QED
    BY <2>2, <2>3 DEF Breaker!State
<1> QED
  BY <1>1, <1>2

\* What a caller loads.
LEMMA LoadedType ==
  ASSUME Breaker!BreakerTypeOK
  PROVE  Breaker!Loaded \in Breaker!State
<1>1. hash \in Hashes \cup {None}
  BY DEF Breaker!BreakerTypeOK, Hashes
<1>2. hash # None => hash.is \in Breaker!State
  BY <1>1 DEF Hashes
<1> QED
  BY <1>2, ClosedType DEF Breaker!Loaded

\* A save leaves a hash that expires.
LEMMA SaveStep ==
  ASSUME NEW st \in Breaker!State, Breaker!Save(st)
  PROVE  hash' \in Hashes
<1>1. Ttl \in 1..Ttl
  BY RunAssumption
<1> QED
  BY <1>1 DEF Breaker!Save, Hashes

\* A save cut short leaves the time to live that was there.
LEMMA SaveCutStep ==
  ASSUME Breaker!BreakerTypeOK, NEW st \in Breaker!State, Breaker!SaveCut(st)
  PROVE  hash' \in Hashes /\ cuts' \in 0..MaxCuts
<1>1. cuts' \in 0..MaxCuts
  BY RunAssumption DEF Breaker!SaveCut, Breaker!BreakerTypeOK
<1>2. hash # None => hash.ttl \in 1..Ttl \cup {None}
  <2>1. hash \in Hashes \cup {None}
    BY DEF Breaker!BreakerTypeOK, Hashes
  <2> QED
    BY <2>1 DEF Hashes
<1> QED
  BY <1>1, <1>2 DEF Breaker!SaveCut, Hashes

\* A caller that turns to another step; one that takes a trial has some left.
LEMMA TurnStep ==
  ASSUME BreakerInv, NEW c \in Clients, NEW s \in Breaker!Steps, NEW st \in Breaker!State,
         Breaker!Turn(c, s, st),
         s \in {"transition", "trial"} => st.trials < Trials,
         hash' = hash \/ hash' \in Hashes, cuts' \in 0..MaxCuts
  PROVE  BreakerInv'
<1>1. /\ link' \in [Clients -> Links]
      /\ link'[c] = [step |-> s, mem |-> st]
      /\ \A d \in Clients \ {c} : link'[d] = link[d]
  <2>1. [step |-> s, mem |-> st] \in Links
    BY DEF Links
  <2> QED
    BY <2>1 DEF BreakerInv, Breaker!BreakerTypeOK, Breaker!Turn, Links
<1>2. TrialInv'
  BY <1>1 DEF BreakerInv, TrialInv
<1>3. Breaker!BreakerTypeOK'
  BY <1>1 DEF BreakerInv, Breaker!BreakerTypeOK, Links, Hashes
<1> QED
  BY <1>2, <1>3 DEF BreakerInv

\* A caller that leaves the breaker.
LEMMA LeaveStep ==
  ASSUME BreakerInv, NEW c \in Clients, Breaker!Leave(c),
         hash' = hash \/ hash' \in Hashes, cuts' \in 0..MaxCuts
  PROVE  BreakerInv'
<1>1. "idle" \in Breaker!Steps
  BY DEF Breaker!Steps
<1>2. Breaker!Turn(c, "idle", Breaker!Closed)
  BY DEF Breaker!Turn, Breaker!Leave, Breaker!Rest
<1> QED
  BY <1>1, <1>2, ClosedType, TurnStep

\* The steps of a caller.
LEMMA CallerSteps ==
  ASSUME BreakerInv, NEW c \in Clients, NEW i \in Instances \cup {None},
         \/ Breaker!Pass(c) \/ Breaker!Reopen(c, i) \/ Breaker!HalfOpen(c)
         \/ Breaker!FindTrial(c) \/ Breaker!TakeTrial(c) \/ Breaker!Refuse(c, i)
         \/ Breaker!RecordSuccess(c) \/ Breaker!LoadFailure(c) \/ Breaker!RecordFailure(c, i)
         \/ Breaker!Abandon(c) \/ Breaker!CutOff(c, i)
  PROVE  BreakerInv'
<1>1. /\ cuts \in 0..MaxCuts
      /\ link[c].mem \in Breaker!State /\ Breaker!Loaded \in Breaker!State
      /\ link[c].step \in {"transition", "trial"} => link[c].mem.trials < Trials
  BY LoadedType DEF BreakerInv, Breaker!BreakerTypeOK, TrialInv
<1>2. {"idle", "transition", "trial", "calling", "failing"} = Breaker!Steps
  BY DEF Breaker!Steps
<1>3. CASE Breaker!Pass(c)
  BY <1>1, <1>2, <1>3, ClosedType, TurnStep DEF Breaker!Pass
<1>4. CASE Breaker!Reopen(c, i)
  <2>1. Breaker!Fresh("half_open") \in Breaker!State /\ Breaker!Fresh("half_open").trials < Trials
    BY FreshType, RunAssumption
  <2> QED
    BY <1>1, <1>2, <1>4, <2>1, TurnStep DEF Breaker!Reopen
<1>5. CASE Breaker!HalfOpen(c)
  <2>1. hash' \in Hashes
    BY <1>1, <1>5, SaveStep DEF Breaker!HalfOpen
  <2> QED
    BY <1>1, <1>2, <1>5, <2>1, TurnStep DEF Breaker!HalfOpen
<1>6. CASE Breaker!FindTrial(c)
  BY <1>1, <1>2, <1>6, TurnStep DEF Breaker!FindTrial
<1>7. CASE Breaker!TakeTrial(c)
  <2>1. [link[c].mem EXCEPT !.trials = @ + 1] \in Breaker!State
    BY <1>1, <1>7, TrialType DEF Breaker!TakeTrial
  <2>2. hash' \in Hashes
    BY <1>7, <2>1, SaveStep DEF Breaker!TakeTrial
  <2> QED
    BY <1>1, <1>2, <1>7, <2>2, ClosedType, TurnStep DEF Breaker!TakeTrial
<1>8. CASE Breaker!Refuse(c, i)
  BY <1>8 DEF Breaker!Refuse, Breaker!Refused, BreakerInv, Breaker!BreakerTypeOK, TrialInv
<1>9. CASE Breaker!RecordSuccess(c)
  <2>1. hash' \in Hashes
    BY <1>9, ClosedType, SaveStep DEF Breaker!RecordSuccess
  <2> QED
    BY <1>1, <1>9, <2>1, LeaveStep DEF Breaker!RecordSuccess
<1>10. CASE Breaker!LoadFailure(c)
  BY <1>1, <1>2, <1>10, TurnStep DEF Breaker!LoadFailure
<1>11. CASE Breaker!RecordFailure(c, i)
  <2>1. hash' \in Hashes
    BY <1>1, <1>11, FailedType, SaveStep DEF Breaker!RecordFailure
  <2> QED
    BY <1>1, <1>11, <2>1, LeaveStep DEF Breaker!RecordFailure
<1>12. CASE Breaker!Abandon(c)
  BY <1>1, <1>12, LeaveStep DEF Breaker!Abandon
<1>13. CASE Breaker!CutOff(c, i)
  <2>1. Breaker!BreakerTypeOK /\ Breaker!Leave(c)
    BY <1>13 DEF BreakerInv, Breaker!CutOff
  <2>2. PICK st \in Breaker!State : Breaker!SaveCut(st)
    <3>1. link[c].step = "trial" => [link[c].mem EXCEPT !.trials = @ + 1] \in Breaker!State
      BY <1>1, TrialType
    <3> QED
      BY <1>1, <1>13, <3>1, ClosedType, FailedType DEF Breaker!CutOff
  <2> QED
    BY <2>1, <2>2, SaveCutStep, LeaveStep
<1> QED
  BY <1>3, <1>4, <1>5, <1>6, <1>7, <1>8, <1>9, <1>10, <1>11, <1>12, <1>13

\* Time passes for the hash and for what callers have loaded.
LEMMA TickStep ==
  ASSUME BreakerInv, Breaker!Tick
  PROVE  BreakerInv'
<1>1. hash' \in Hashes \cup {None}
  <2>1. hash \in Hashes \cup {None}
    BY DEF BreakerInv, Breaker!BreakerTypeOK, Hashes
  <2>2. CASE hash = None \/ hash.ttl = 1
    BY <2>2 DEF Breaker!Tick
  <2>3. CASE hash # None /\ hash.ttl # 1
    <3>1. Breaker!Aged(hash.is) \in Breaker!State
      BY <2>1, <2>3, AgedType DEF Hashes
    <3>2. (IF hash.ttl = None THEN None ELSE hash.ttl - 1) \in 1..Ttl \cup {None}
      BY <2>1, <2>3, RunAssumption DEF Hashes
    <3> QED
      BY <2>3, <3>1, <3>2 DEF Breaker!Tick, Hashes
  <2> QED
    BY <2>2, <2>3
<1>2. ASSUME NEW c \in Clients
      PROVE  /\ link'[c] \in Links
             /\ link'[c].step = link[c].step
             /\ link'[c].mem.trials = link[c].mem.trials
  <2>1. link[c] \in Links
    BY DEF BreakerInv, Breaker!BreakerTypeOK, Links
  <2>2. /\ Breaker!Aged(link[c].mem) \in Breaker!State
        /\ Breaker!Aged(link[c].mem).trials = link[c].mem.trials
    BY <2>1, AgedType DEF Links
  <2>3. link'[c] = [link[c] EXCEPT !.mem = Breaker!Aged(link[c].mem)]
    BY DEF Breaker!Tick
  <2> QED
    BY <2>1, <2>2, <2>3 DEF Links
<1>3. link' \in [Clients -> Links]
  BY <1>2 DEF Breaker!Tick
<1>4. Breaker!BreakerTypeOK'
  BY <1>1, <1>3 DEF BreakerInv, Breaker!BreakerTypeOK, Breaker!Tick, Hashes, Links
<1>5. TrialInv'
  BY <1>2 DEF BreakerInv, TrialInv
<1> QED
  BY <1>4, <1>5 DEF BreakerInv

-----------------------------------------------------------------------------
\* The actions.

\* The parts of the invariant.
LEMMA Parts == /\ IInv <=> TypeOK /\ PermitInv /\ CountInv /\ BudgetInv /\ BreakerInv
               /\ IInv' <=> (TypeOK /\ PermitInv /\ CountInv /\ BudgetInv /\ BreakerInv)'
BY DEF IInv, PermitInv, CountInv, BreakerInv, TypeOK

\* A request that goes on with its permit, before or after the guardrail.
LEMMA Moving ==
  ASSUME IInv, NEW c \in Clients, NEW p \in Phases, Goto(c, p), BreakerInv',
         client[c].phase \in Holding,
         \/ p \in Holding \/ p = "close",
         client[c].capped => p \in {"insert", "close"},
         p \in Looked => client[c].phase \in Looked \/ ~tenant.governed,
         UNCHANGED <<tenant, counters, spend, permits>>, snapshot' \in BOOLEAN
  PROVE  IInv'
<1>1. TypeOK /\ PermitInv /\ CountInv /\ BudgetInv
  BY Parts
<1>2. /\ client' \in [Clients -> Request]
      /\ client'[c].phase = p
      /\ client'[c].at = client[c].at
      /\ client'[c].lease = client[c].lease
      /\ client'[c].capped = client[c].capped
      /\ \A d \in Clients \ {c} : client'[d] = client[d]
  BY <1>1, GotoStep DEF TypeOK
<1>3. TypeOK'
  BY <1>1, <1>2 DEF TypeOK, counters, permits, BreakerInv
<1>4. PermitInv'
  <2>1. RequestInv(client[c])
    BY <1>1 DEF PermitInv
  <2>2. RequestInv(client'[c])
    BY <1>2, <2>1 DEF RequestInv, Holding
  <2> QED
    BY <1>1, <1>2, <2>2, PermitKept DEF permits
<1>5. CountInv'
  <2>1. p # "month"
    BY DEF Holding
  <2> QED
    BY <1>1, <1>2, <2>1, CountKept DEF counters
<1>6. BudgetInv'
  BY <1>1, <1>2, BudgetKept
<1> QED
  BY <1>3, <1>4, <1>5, <1>6, Parts

\* A request that ends, its permit given back to its semaphore or to nobody.
LEMMA Leaving ==
  ASSUME IInv, NEW c \in Clients, End(c),
         \/ free' = Free(c) /\ leaked' = leaked
         \/ /\ client[c].lease # None
            /\ free' = free /\ leaked' = leaked \cup {client[c].lease},
         UNCHANGED <<tenant, counters, costs, bvars>>
  PROVE  IInv'
<1>1. TypeOK /\ PermitInv /\ CountInv /\ BudgetInv /\ BreakerInv
  BY Parts
<1>2. /\ client' \in [Clients -> Request]
      /\ client'[c] = Idle
      /\ \A d \in Clients \ {c} : client'[d] = client[d]
  BY <1>1, EndStep DEF TypeOK
<1>3. BreakerInv'
  BY <1>1 DEF BreakerInv, Breaker!BreakerTypeOK, TrialInv, bvars
<1>4. client[c].lease \in Permits \cup {None}
  BY <1>1, Fields DEF TypeOK
<1>5. free' \subseteq Permits /\ leaked' \subseteq Permits
  BY <1>1, <1>4 DEF Free, TypeOK
<1>6. TypeOK'
  BY <1>1, <1>2, <1>3, <1>5 DEF TypeOK, counters, costs, BreakerInv
<1>7. PermitInv'
  <2>1. RequestInv(client'[c]) /\ client'[c].lease = None
    BY <1>2 DEF RequestInv, Idle, Holding
  <2> QED
    BY <1>1, <1>2, <2>1, PermitGiven
<1>8. CountInv'
  BY <1>1, <1>2, CountKept DEF Idle, counters
<1>9. BudgetInv'
  BY <1>1, <1>2, BudgetKept DEF Idle, Looked, costs
<1> QED
  BY <1>3, <1>6, <1>7, <1>8, <1>9, Parts

\* A request that arrives, locks its day's row, counts, or takes or gives back a
\* permit, before or after the runs that the budget is about.
LEMMA Assigning ==
  ASSUME IInv, NEW c \in Clients, NEW r \in Request, client' = [client EXCEPT ![c] = r],
         PermitInv', CountInv',
         used' \in [Days -> Nat], month' \in Nat,
         free' \subseteq Permits, leaked' = leaked,
         r.phase \notin Looked,
         UNCHANGED <<tenant, today, costs, bvars>>
  PROVE  IInv'
<1>1. TypeOK /\ BudgetInv /\ BreakerInv
  BY Parts
<1>2. /\ client' \in [Clients -> Request]
      /\ client'[c] = r
      /\ \A d \in Clients \ {c} : client'[d] = client[d]
  BY <1>1, AssignClient DEF TypeOK
<1>3. BreakerInv'
  BY <1>1 DEF BreakerInv, Breaker!BreakerTypeOK, TrialInv, bvars
<1>4. TypeOK'
  BY <1>1, <1>2, <1>3 DEF TypeOK, costs, BreakerInv
<1>5. BudgetInv'
  BY <1>1, <1>2, BudgetKept DEF costs
<1> QED
  BY <1>3, <1>4, <1>5, Parts

\* A request that arrives, of a tenant with limits or without.
LEMMA ArriveSteps ==
  ASSUME IInv, NEW c \in Clients, NEW i \in Instances,
         ArriveUnlimited(c, i) \/ \E d \in Days : Arrive(c, i, d)
  PROVE  IInv'
<1>1. TypeOK /\ PermitInv /\ CountInv
  BY Parts
<1>2. client[c].lease = None /\ At(c, "idle")
  BY <1>1 DEF Arrive, ArriveUnlimited, At, PermitInv, RequestInv
<1>3. CASE ArriveUnlimited(c, i)
  <2> DEFINE r == [Idle EXCEPT !.phase = "gate", !.at = i]
  <2>1. /\ r \in Request /\ r.phase = "gate" /\ r.lease = None /\ ~r.capped
    BY IdleType DEF Idle, Request, Phases
  <2>2. client' = [client EXCEPT ![c] = r]
    BY <1>3 DEF ArriveUnlimited
  <2> HIDE DEF r
  <2>3. /\ client' \in [Clients -> Request]
        /\ client'[c] = r
        /\ \A d \in Clients \ {c} : client'[d] = client[d]
    BY <1>1, <2>1, <2>2, AssignClient DEF TypeOK
  <2>4. RequestInv(client'[c])
    BY <2>1, <2>3 DEF RequestInv, Holding
  <2>5. PermitInv'
    BY <1>1, <1>2, <1>3, <2>1, <2>3, <2>4, PermitKept DEF ArriveUnlimited, permits
  <2>6. CountInv'
    BY <1>1, <1>3, <2>1, <2>3, CountKept DEF ArriveUnlimited, counters
  <2>7. r.phase \notin Looked
    BY <2>1 DEF Looked
  <2> QED
    BY <1>1, <1>3, <2>1, <2>2, <2>5, <2>6, <2>7, Assigning
       DEF ArriveUnlimited, TypeOK, counters, permits
<1>4. ASSUME NEW d \in Days, Arrive(c, i, d)
      PROVE  IInv'
  <2> DEFINE r == [Idle EXCEPT !.phase = "month", !.at = i, !.day = d, !.count = used[d]]
  <2>1. used[d] \in Nat
    BY <1>1 DEF TypeOK
  <2>2. /\ r \in Request /\ r.phase = "month" /\ r.lease = None /\ ~r.capped
        /\ r.day = d /\ r.count = used[d]
    BY <2>1, IdleType DEF Idle, Request, Phases
  <2>3. client' = [client EXCEPT ![c] = r]
    BY <1>4 DEF Arrive, LockDay
  <2> HIDE DEF r
  <2>4. /\ client' \in [Clients -> Request]
        /\ client'[c] = r
        /\ \A e \in Clients \ {c} : client'[e] = client[e]
    BY <1>1, <2>2, <2>3, AssignClient DEF TypeOK
  <2>5. RequestInv(client'[c])
    BY <2>2, <2>4 DEF RequestInv, Holding
  <2>6. PermitInv'
    BY <1>1, <1>2, <1>4, <2>2, <2>4, <2>5, PermitKept DEF Arrive, permits
  <2>7. CountInv'
    <3>1. \A e \in Clients : ~(At(e, "month") /\ client[e].day = client'[c].day)
      <4>1. \A e \in Clients : ~(At(e, "month") /\ client[e].day = d)
        BY <1>4 DEF Arrive, LockDay
      <4>2. client'[c].day = d
        BY <2>2, <2>4
      <4> QED
        BY <4>1, <4>2
    <3>2. client'[c].count = used[client'[c].day]
      BY <2>2, <2>4
    <3> QED
      BY <1>1, <1>4, <2>4, <3>1, <3>2, CountLocked DEF Arrive, counters
  <2>8. r.phase \notin Looked
    BY <2>2 DEF Looked
  <2> QED
    BY <1>1, <1>4, <2>2, <2>3, <2>6, <2>7, <2>8, Assigning
       DEF Arrive, TypeOK, counters, permits
<1> QED
  BY <1>3, <1>4

\* A request whose day and month are below their limits counts in both.
LEMMA ConsumeStep ==
  ASSUME IInv, NEW c \in Clients, ConsumeQuota(c)
  PROVE  IInv'
<1> DEFINE r == [client[c] EXCEPT !.phase = "gate", !.day = 1, !.count = 0]
<1>1. TypeOK /\ PermitInv /\ CountInv
  BY Parts
<1>2. /\ client[c] \in Request /\ client[c].phase = "month"
      /\ RequestInv(client[c])
  BY <1>1 DEF ConsumeQuota, At, TypeOK, PermitInv
<1>3. /\ r \in Request /\ r.phase = "gate" /\ r.lease = client[c].lease
      /\ r.at = client[c].at /\ r.capped = client[c].capped
  BY <1>2 DEF Request, Phases, Days
<1>4. client' = [client EXCEPT ![c] = r]
  BY DEF ConsumeQuota
<1> HIDE DEF r
<1>5. /\ client' \in [Clients -> Request]
      /\ client'[c] = r
      /\ \A d \in Clients \ {c} : client'[d] = client[d]
  BY <1>1, <1>3, <1>4, AssignClient DEF TypeOK
<1>6. RequestInv(client'[c])
  BY <1>2, <1>3, <1>5 DEF RequestInv, Holding
<1>7. PermitInv'
  BY <1>1, <1>3, <1>5, <1>6, PermitKept DEF ConsumeQuota, permits
<1>8. CountInv' /\ used' \in [Days -> Nat] /\ month' \in Nat
  BY <1>1, <1>3, <1>5, CountConsumed DEF ConsumeQuota
<1>9. r.phase \notin Looked
  BY <1>3 DEF Looked
<1> QED
  BY <1>1, <1>3, <1>4, <1>7, <1>8, <1>9, Assigning DEF ConsumeQuota, TypeOK, permits

\* A request that finds its instance's bulkhead open.
LEMMA AcquireStep ==
  ASSUME IInv, NEW c \in Clients, NEW p \in Permits, Acquire(c, p)
  PROVE  IInv'
<1> DEFINE r == [client[c] EXCEPT !.phase = "checks", !.lease = p]
<1>1. TypeOK /\ PermitInv /\ CountInv
  BY Parts
<1>2. /\ client[c] \in Request /\ client[c].phase = "gate"
      /\ RequestInv(client[c])
      /\ p \in free /\ p[1] = client[c].at
  BY <1>1 DEF Acquire, At, TypeOK, PermitInv
<1>3. /\ r \in Request /\ r.phase = "checks" /\ r.lease = p
      /\ r.at = client[c].at /\ r.capped = client[c].capped
  BY <1>2 DEF Request, Phases
<1>4. client' = [client EXCEPT ![c] = r]
  BY DEF Acquire
<1> HIDE DEF r
<1>5. /\ client' \in [Clients -> Request]
      /\ client'[c] = r
      /\ \A d \in Clients \ {c} : client'[d] = client[d]
  BY <1>1, <1>3, <1>4, AssignClient DEF TypeOK
<1>6. RequestInv(client'[c]) /\ client[c].lease = None
  BY <1>2, <1>3, <1>5, RunAssumption DEF RequestInv, Holding
<1>7. PermitInv'
  BY <1>1, <1>2, <1>3, <1>5, <1>6, PermitTaken DEF Acquire
<1>8. CountInv'
  BY <1>1, <1>3, <1>5, CountKept DEF Acquire, counters
<1>9. r.phase \notin Looked
  BY <1>3 DEF Looked
<1> QED
  BY <1>1, <1>3, <1>4, <1>7, <1>8, <1>9, Assigning DEF Acquire, TypeOK, counters

\* A run that could not be persisted: its stream releases before its task does.
LEMMA FinishEarlyStep ==
  ASSUME IInv, NEW c \in Clients, FinishEarly(c)
  PROVE  IInv'
<1> DEFINE r == [client[c] EXCEPT !.phase = "close", !.lease = None]
<1>1. TypeOK /\ PermitInv /\ CountInv
  BY Parts
<1>2. client[c] \in Request
  BY <1>1 DEF TypeOK
<1>3. /\ r \in Request /\ r.phase = "close" /\ r.lease = None
  BY <1>2 DEF Request, Phases
<1>4. client' = [client EXCEPT ![c] = r]
  BY DEF FinishEarly
<1> HIDE DEF r
<1>5. /\ client' \in [Clients -> Request]
      /\ client'[c] = r
      /\ \A d \in Clients \ {c} : client'[d] = client[d]
  BY <1>1, <1>3, <1>4, AssignClient DEF TypeOK
<1>6. RequestInv(client'[c])
  BY <1>3, <1>5 DEF RequestInv, Holding
<1>7. PermitInv'
  BY <1>1, <1>3, <1>5, <1>6, PermitGiven DEF FinishEarly
<1>8. CountInv'
  BY <1>1, <1>3, <1>5, CountKept DEF FinishEarly, counters
<1>9. r.phase \notin Looked
  BY <1>3 DEF Looked
<1>10. free' \subseteq Permits
  BY <1>1, <1>2, Fields DEF FinishEarly, Free, TypeOK
<1> QED
  BY <1>1, <1>3, <1>4, <1>7, <1>8, <1>9, <1>10, Assigning DEF FinishEarly, TypeOK, counters

\* The guardrail admits a run or caps it.
LEMMA EvaluateStep ==
  ASSUME IInv, NEW c \in Clients, EvaluateBudget(c)
  PROVE  IInv'
<1> DEFINE r == [client[c] EXCEPT !.phase = "snapshot", !.capped = Capped]
<1>1. TypeOK /\ PermitInv /\ CountInv /\ BudgetInv /\ BreakerInv
  BY Parts
<1>2. /\ client[c] \in Request /\ client[c].phase = "checks"
      /\ RequestInv(client[c]) /\ tenant.governed
  BY <1>1 DEF EvaluateBudget, At, TypeOK, PermitInv
<1>3. /\ r \in Request /\ r.phase = "snapshot" /\ r.lease = client[c].lease
      /\ r.at = client[c].at /\ r.capped = Capped
  <2>1. Capped \in BOOLEAN
    BY DEF Capped
  <2> QED
    BY <1>2, <2>1 DEF Request, Phases
<1>4. client' = [client EXCEPT ![c] = r]
  BY DEF EvaluateBudget
<1> HIDE DEF r
<1>5. /\ client' \in [Clients -> Request]
      /\ client'[c] = r
      /\ \A d \in Clients \ {c} : client'[d] = client[d]
  BY <1>1, <1>3, <1>4, AssignClient DEF TypeOK
<1>6. BreakerInv'
  BY <1>1 DEF EvaluateBudget, BreakerInv, Breaker!BreakerTypeOK, TrialInv, bvars
<1>7. TypeOK'
  BY <1>1, <1>5, <1>6 DEF EvaluateBudget, TypeOK, counters, costs, permits, BreakerInv
<1>8. RequestInv(client'[c])
  BY <1>2, <1>3, <1>5 DEF RequestInv, Holding
<1>9. PermitInv'
  BY <1>1, <1>3, <1>5, <1>8, PermitKept DEF EvaluateBudget, permits
<1>10. CountInv'
  BY <1>1, <1>3, <1>5, CountKept DEF EvaluateBudget, counters
<1>11. BudgetInv'
  <2>1. CASE Capped
    BY <1>1, <1>3, <1>5, <2>1, BudgetKept DEF EvaluateBudget, costs
  <2>2. CASE ~Capped
    BY <1>1, <1>2, <1>5, <1>7, <1>9, <2>2, BudgetEvaluated DEF EvaluateBudget, costs
  <2> QED
    BY <2>1, <2>2
<1> QED
  BY <1>6, <1>7, <1>9, <1>10, <1>11, Parts

\* A run that is metered.
LEMMA MeterStep ==
  ASSUME IInv, NEW c \in Clients, Meter(c)
  PROVE  IInv'
<1>1. TypeOK /\ PermitInv /\ CountInv /\ BudgetInv /\ BreakerInv
  BY Parts
<1>2. /\ client' \in [Clients -> Request]
      /\ client'[c].phase = "close"
      /\ client'[c].at = client[c].at
      /\ client'[c].lease = client[c].lease
      /\ client'[c].capped = client[c].capped
      /\ \A d \in Clients \ {c} : client'[d] = client[d]
  BY <1>1, GotoStep DEF Meter, TypeOK, Phases
<1>3. client[c].phase = "final" /\ RequestInv(client[c])
  BY <1>1 DEF Meter, At, PermitInv
<1>4. ~client[c].capped
  BY <1>3 DEF RequestInv
<1>5. BreakerInv'
  BY <1>1 DEF Meter, BreakerInv, Breaker!BreakerTypeOK, TrialInv, bvars
<1>6. BudgetInv' /\ spend' \in Nat
  <2>1. spend' \in {spend, spend + 1} /\ tenant' = tenant
    BY DEF Meter
  <2>2. client[c].phase \in Looked /\ client'[c].phase \notin Looked
    BY <1>2, <1>3 DEF Looked
  <2> QED
    BY <1>1, <1>2, <1>4, <2>1, <2>2, BudgetMetered
<1>7. TypeOK'
  BY <1>1, <1>2, <1>5, <1>6 DEF Meter, TypeOK, counters, permits, BreakerInv
<1>8. RequestInv(client'[c])
  BY <1>2, <1>3 DEF RequestInv, Holding
<1>9. PermitInv'
  BY <1>1, <1>2, <1>8, PermitKept DEF Meter, permits
<1>10. CountInv'
  BY <1>1, <1>2, CountKept DEF Meter, counters
<1> QED
  BY <1>5, <1>6, <1>7, <1>9, <1>10, Parts

\* Requests that end.
LEMMA EndSteps ==
  ASSUME IInv, NEW c \in Clients,
         QuotaRefuses(c) \/ TurnAway(c) \/ Refuse(c) \/ Raise(c) \/ Close(c)
  PROVE  IInv'
<1>1. RequestInv(client[c])
  BY Parts DEF PermitInv
<1>2. CASE QuotaRefuses(c) \/ TurnAway(c)
  <2>1. client[c].lease = None
    BY <1>1, <1>2 DEF QuotaRefuses, TurnAway, At, RequestInv
  <2> QED
    BY <1>2, <2>1, Leaving DEF QuotaRefuses, TurnAway, Free, permits
<1>3. CASE Refuse(c) \/ Close(c)
  BY <1>3, Leaving DEF Refuse, Close
<1>4. CASE Raise(c)
  <2>1. client[c].lease # None
    BY <1>1, <1>4 DEF Raise, RequestInv, Holding
  <2> QED
    BY <1>4, <2>1, Leaving DEF Raise, Leak
<1> QED
  BY <1>2, <1>3, <1>4

\* Requests that go on and have nothing to do with the breaker.
LEMMA PlainSteps ==
  ASSUME IInv, NEW c \in Clients,
         \/ Shed(c) \/ SkipBudget(c) \/ UpdateSnapshot(c) \/ MissSnapshot(c)
         \/ InsertSnapshot(c) \/ Persist(c) \/ PersistFails(c) \/ StartAgent(c)
         \/ Generate(c) \/ StoreAnswer(c)
  PROVE  IInv'
<1>1. TypeOK /\ RequestInv(client[c]) /\ BreakerInv
  BY Parts DEF PermitInv
<1>2. UNCHANGED bvars /\ UNCHANGED <<tenant, counters, spend, permits>> /\ snapshot' \in BOOLEAN
  BY <1>1 DEF Shed, SkipBudget, UpdateSnapshot, MissSnapshot, InsertSnapshot, Persist,
     PersistFails, StartAgent, Generate, StoreAnswer, costs, TypeOK
<1>3. BreakerInv'
  BY <1>1, <1>2 DEF BreakerInv, Breaker!BreakerTypeOK, TrialInv, bvars
<1>4. Phases = Holding \cup {"idle", "month", "gate", "close"}
  BY DEF Phases, Holding
<1>5. CASE Shed(c)
  BY <1>2, <1>3, <1>4, <1>5, Moving DEF Shed, At, Holding, Looked
<1>6. CASE SkipBudget(c)
  <2>1. ~client[c].capped
    BY <1>1, <1>6 DEF SkipBudget, At, RequestInv
  <2> QED
    BY <1>2, <1>3, <1>4, <1>6, <2>1, Moving DEF SkipBudget, At, Holding, Looked
<1>7. CASE UpdateSnapshot(c) \/ InsertSnapshot(c)
  <2>1. /\ Decided(c) \in {"close", "persist"}
        /\ client[c].capped => Decided(c) = "close"
    BY DEF Decided
  <2>2. client[c].phase \in {"snapshot", "insert"} /\ Goto(c, Decided(c))
    BY <1>7 DEF UpdateSnapshot, InsertSnapshot, At
  <2> QED
    BY <1>2, <1>3, <1>4, <2>1, <2>2, Moving DEF Holding, Looked
<1>8. CASE MissSnapshot(c)
  BY <1>2, <1>3, <1>4, <1>8, Moving DEF MissSnapshot, At, Holding, Looked
<1>9. CASE Persist(c) \/ PersistFails(c) \/ StartAgent(c) \/ Generate(c) \/ StoreAnswer(c)
  <2>1. PICK p \in (Looked \cup {"early", "close"}) : Goto(c, p)
    BY <1>9 DEF Persist, PersistFails, StartAgent, Generate, StoreAnswer, Looked
  <2>2. client[c].phase \in {"persist", "stream", "generate", "answer"}
    BY <1>9 DEF Persist, PersistFails, StartAgent, Generate, StoreAnswer, At
  <2>3. ~client[c].capped
    BY <1>1, <2>2 DEF RequestInv
  <2>4. p \in Phases /\ (p \in Holding \/ p = "close")
    BY DEF Looked, Holding, Phases
  <2>5. client[c].phase \in Holding /\ client[c].phase \in Looked
    BY <2>2 DEF Looked, Holding
  <2> QED
    BY <1>2, <1>3, <2>1, <2>3, <2>4, <2>5, Moving
<1> QED
  BY <1>5, <1>6, <1>7, <1>8, <1>9

\* Requests that retrieve behind the breaker, and clients that go away.
LEMMA BreakerSteps ==
  ASSUME IInv, NEW c \in Clients,
         BeforeCall(c) \/ RetrievalRefused(c) \/ Retrieved(c) \/ RetrievalFails(c) \/ Disconnect(c)
  PROVE  IInv'
<1>1. TypeOK /\ RequestInv(client[c]) /\ BreakerInv
  BY Parts DEF PermitInv
<1>2. client[c].at \in Instances \cup {None}
  BY <1>1, Fields DEF TypeOK
<1>3. BreakerInv'
  BY <1>1, <1>2, CallerSteps
     DEF BeforeCall, RetrievalRefused, Retrieved, RetrievalFails, Disconnect
<1>4. CASE BeforeCall(c)
  <2>1. UNCHANGED <<tenant, counters, costs, permits, client>>
    BY <1>4 DEF BeforeCall
  <2>2. TypeOK'
    BY <1>1, <1>3, <2>1 DEF TypeOK, counters, costs, permits, BreakerInv
  <2>3. PermitInv'
    BY <2>1, Parts DEF PermitInv, PermitsAccounted, RequestInv, permits
  <2>4. CountInv'
    BY <2>1, Parts DEF CountInv, LockInv, QuotaKept, At, counters
  <2>5. BudgetInv'
    BY <2>1, Parts DEF BudgetInv, OvershootBounded, Admitted, costs
  <2> QED
    BY <1>3, <2>2, <2>3, <2>4, <2>5, Parts
<1>5. CASE RetrievalRefused(c) \/ Retrieved(c) \/ RetrievalFails(c) \/ Disconnect(c)
  <2>1. PICK p \in {"generate", "close"} : Goto(c, p)
    BY <1>5 DEF RetrievalRefused, Retrieved, RetrievalFails, Disconnect
  <2>2. client[c].phase \in {"stream", "retrieve", "generate", "answer", "final"}
    BY <1>5 DEF RetrievalRefused, Retrieved, RetrievalFails, Disconnect, At
  <2>3. ~client[c].capped
    BY <1>1, <2>2 DEF RequestInv
  <2>4. UNCHANGED <<tenant, counters, costs, permits>> /\ snapshot' \in BOOLEAN
    BY <1>1, <1>5 DEF RetrievalRefused, Retrieved, RetrievalFails, Disconnect, costs, TypeOK
  <2>5. p \in Phases /\ (p \in Holding \/ p = "close")
    BY DEF Holding, Phases
  <2>6. client[c].phase \in Holding /\ client[c].phase \in Looked
    BY <2>2 DEF Looked, Holding
  <2> QED
    BY <1>3, <2>1, <2>3, <2>4, <2>5, <2>6, Moving DEF costs
<1> QED
  BY <1>4, <1>5

\* An instance that restarts ends its requests and has all its permits again.
LEMMA RestartStep ==
  ASSUME IInv, NEW i \in Instances, Restart(i)
  PROVE  IInv'
<1> DEFINE lost == {c \in Clients : client[c].at = i}
           mine == {p \in Permits : p[1] = i}
<1>1. TypeOK /\ PermitInv /\ CountInv /\ BudgetInv /\ BreakerInv
  BY Parts
<1>2. /\ client' = [c \in Clients |-> IF c \in lost THEN Idle ELSE client[c]]
      /\ link' = [c \in Clients |-> IF c \in lost THEN Breaker!Rest ELSE link[c]]
      /\ free' = free \cup mine /\ leaked' = leaked \ mine
      /\ UNCHANGED <<tenant, counters, costs, hash, cuts>>
  BY DEF Restart
<1>3. client' \in [Clients -> Request]
  BY <1>1, <1>2, IdleType DEF TypeOK
<1>4. BreakerInv'
  <2>1. Breaker!Rest \in Links /\ Breaker!Rest.step = "idle"
    BY ClosedType DEF Breaker!Rest, Links, Breaker!Steps
  <2>2. link' \in [Clients -> Links]
    BY <1>1, <1>2, <2>1 DEF BreakerInv, Breaker!BreakerTypeOK, Links
  <2>3. TrialInv'
    BY <1>1, <1>2, <2>1 DEF BreakerInv, TrialInv
  <2> QED
    BY <1>1, <1>2, <2>2, <2>3 DEF BreakerInv, Breaker!BreakerTypeOK, Links
<1>5. TypeOK'
  BY <1>1, <1>2, <1>3, <1>4 DEF TypeOK, counters, costs, BreakerInv
<1>6. \A c \in Clients : RequestInv(client'[c])
  BY <1>1, <1>2 DEF PermitInv, RequestInv, Idle, Holding
<1>7. PermitsAccounted'
  <2> SUFFICES ASSUME NEW p \in Permits
               PROVE  LET holders == {c \in Clients : client'[c].lease = p}
                      IN /\ \A c, d \in holders : c = d
                         /\ (p \in free') = (holders = {} /\ p \notin leaked')
                         /\ p \in leaked' => holders = {}
    BY DEF PermitsAccounted
  <2> DEFINE was == {c \in Clients : client[c].lease = p}
             now == {c \in Clients : client'[c].lease = p}
  <2>1. p # None /\ Idle.lease = None
    BY RunAssumption DEF Idle
  <2>2. /\ \A c, d \in was : c = d
        /\ (p \in free) = (was = {} /\ p \notin leaked)
        /\ p \in leaked => was = {}
    BY <1>1 DEF PermitInv, PermitsAccounted
  <2>3. \A c \in was : client[c].at = p[1]
    BY <1>1, <2>1 DEF PermitInv, RequestInv
  <2>4. CASE p[1] = i
    <3>1. now = {}
      BY <1>2, <2>1, <2>3, <2>4
    <3> QED
      BY <1>2, <2>4, <3>1
  <2>5. CASE p[1] # i
    <3>1. now = was
      BY <1>2, <2>1, <2>3, <2>5
    <3>2. (p \in free') = (p \in free) /\ (p \in leaked') = (p \in leaked)
      BY <1>2, <2>5
    <3> QED
      BY <2>2, <3>1, <3>2
  <2> QED
    BY <2>4, <2>5
<1>8. LockInv' /\ QuotaKept'
  <2>1. \A c \in Clients : At(c, "month")' => At(c, "month") /\ client'[c] = client[c]
    BY <1>2 DEF At, Idle
  <2> QED
    BY <1>1, <1>2, <2>1 DEF CountInv, LockInv, QuotaKept, counters
<1>9. BudgetInv'
  <2>1. Admitted' \subseteq Admitted
    BY <1>2, AdmittedSame DEF AdmittedOf, Idle, Looked
  <2>2. IsFiniteSet(Admitted)
    BY FS_Subset, RunAssumption DEF Admitted
  <2>3. /\ IsFiniteSet(Admitted')
        /\ Cardinality(Admitted') <= Cardinality(Admitted)
        /\ Cardinality(Admitted) \in Nat /\ Cardinality(Admitted') \in Nat
    BY <2>1, <2>2, FS_Subset, FS_CardinalityType
  <2> QED
    BY <1>1, <1>2, <2>1, <2>3, PermitsFinite, RunAssumption
       DEF BudgetInv, OvershootBounded, TypeOK, costs
<1> QED
  BY <1>4, <1>5, <1>6, <1>7, <1>8, <1>9, Parts DEF PermitInv, CountInv

\* A new month starts at nothing, and what is admitted holds a permit each.
LEMMA NewMonthStep ==
  ASSUME IInv, NewMonth
  PROVE  IInv'
<1>1. TypeOK /\ PermitInv /\ CountInv /\ BudgetInv /\ BreakerInv
  BY Parts
<1>2. /\ today' = 1 /\ used' = [d \in Days |-> 0] /\ month' = 0 /\ spend' = 0
      /\ snapshot' = FALSE
      /\ UNCHANGED <<tenant, free, leaked, client, hash, link, cuts>>
      /\ \A c \in Clients : ~At(c, "month")
  BY DEF NewMonth, permits, bvars, At
<1>3. BreakerInv'
  BY <1>1, <1>2 DEF BreakerInv, Breaker!BreakerTypeOK, TrialInv
<1>4. TypeOK'
  BY <1>1, <1>2, <1>3 DEF TypeOK, BreakerInv, Days
<1>5. PermitInv'
  BY <1>1, <1>2 DEF PermitInv, PermitsAccounted, RequestInv
<1>6. CountInv'
  <2>1. LockInv'
    BY <1>2 DEF LockInv, At
  <2>2. QuotaKept'
    BY <1>2, RunAssumption DEF QuotaKept, Days
  <2> QED
    BY <2>1, <2>2 DEF CountInv
<1>7. BudgetInv'
  <2>1. /\ Cardinality(Admitted) \in Nat
        /\ Cardinality(Admitted) <= Cardinality(Permits)
    <3>1. \A c \in Clients : client[c].phase \in Holding => client[c].lease # None
      BY <1>1 DEF PermitInv, RequestInv
    <3>2. client \in [Clients -> Request]
      BY <1>1 DEF TypeOK
    <3> QED
      BY <1>1, <3>1, <3>2, LeasesDiffer, AdmittedBound, AdmittedSame DEF PermitInv
  <2>2. Admitted' = Admitted
    BY <1>2 DEF Admitted
  <2>3. Budget = 1 /\ tenant.governed => Cardinality(Admitted) = 0
    BY <1>1, FS_EmptySet DEF BudgetInv
  <2> QED
    BY <1>1, <1>2, <2>1, <2>2, <2>3, PermitsFinite, RunAssumption
       DEF BudgetInv, OvershootBounded
<1> QED
  BY <1>3, <1>4, <1>5, <1>6, <1>7, Parts

\* A new day, and a tick of the breaker's clock, disturb nobody else.
LEMMA ClockSteps ==
  ASSUME IInv, NewDay \/ Tick \/ UNCHANGED vars
  PROVE  IInv'
<1>1. TypeOK /\ PermitInv /\ CountInv /\ BudgetInv /\ BreakerInv
  BY Parts
<1>2. /\ UNCHANGED <<tenant, used, month, spend, snapshot, free, leaked, client>>
      /\ today' \in Days
  BY <1>1 DEF NewDay, Tick, vars, counters, costs, permits, Days, TypeOK
<1>3. BreakerInv'
  <2>1. CASE UNCHANGED <<hash, link, cuts>>
    BY <1>1, <2>1 DEF BreakerInv, Breaker!BreakerTypeOK, TrialInv
  <2>2. CASE Tick
    BY <1>1, <2>2, TickStep DEF Tick
  <2> QED
    BY <2>1, <2>2 DEF NewDay, vars, bvars
<1>4. TypeOK'
  BY <1>1, <1>2, <1>3 DEF TypeOK, BreakerInv
<1>5. PermitInv'
  BY <1>1, <1>2 DEF PermitInv, PermitsAccounted, RequestInv
<1>6. CountInv'
  BY <1>1, <1>2 DEF CountInv, LockInv, QuotaKept, At
<1>7. BudgetInv'
  BY <1>1, <1>2 DEF BudgetInv, OvershootBounded, Admitted
<1> QED
  BY <1>3, <1>4, <1>5, <1>6, <1>7, Parts

-----------------------------------------------------------------------------
\* The invariant holds at first.
LEMMA InitInv == Init => IInv
<1> SUFFICES ASSUME Init PROVE IInv
  OBVIOUS
<1>1. /\ client = [c \in Clients |-> Idle] /\ Idle \in Request
      /\ Idle.phase = "idle" /\ Idle.lease = None /\ ~Idle.capped
  BY IdleType DEF Init, Idle
<1>2. BreakerInv
  <2>1. Breaker!Rest \in Links /\ Breaker!Rest.step = "idle"
    BY ClosedType DEF Breaker!Rest, Links, Breaker!Steps
  <2>2. link = [c \in Clients |-> Breaker!Rest] /\ hash = None /\ cuts = 0
    BY DEF Init, Breaker!BreakerInit
  <2> QED
    BY <2>1, <2>2, RunAssumption DEF BreakerInv, Breaker!BreakerTypeOK, TrialInv, Links
<1>3. TypeOK
  BY <1>1, <1>2, RunAssumption DEF Init, TypeOK, BreakerInv, Days
<1>4. PermitInv
  <2>1. \A c \in Clients : RequestInv(client[c])
    BY <1>1 DEF RequestInv, Holding
  <2>2. PermitsAccounted
    BY <1>1, RunAssumption DEF Init, PermitsAccounted
  <2> QED
    BY <2>1, <2>2 DEF PermitInv
<1>5. CountInv
  <2>1. LockInv
    BY <1>1 DEF LockInv, At
  <2>2. QuotaKept
    BY RunAssumption DEF Init, QuotaKept, Days
  <2> QED
    BY <2>1, <2>2 DEF CountInv
<1>6. BudgetInv
  <2>1. Admitted = {}
    BY <1>1, AdmittedSame DEF AdmittedOf, Looked
  <2> QED
    BY <2>1, FS_EmptySet, RunAssumption DEF Init, BudgetInv, OvershootBounded
<1> QED
  BY <1>2, <1>3, <1>4, <1>5, <1>6, Parts

\* Every step preserves it.
LEMMA NextInv == IInv /\ [Next]_vars => IInv'
<1> SUFFICES ASSUME IInv, [Next]_vars PROVE IInv'
  OBVIOUS
<1>1. ASSUME NEW c \in Clients, Handle(c)
      PROVE  IInv'
  BY <1>1, ArriveSteps, ConsumeStep, AcquireStep, FinishEarlyStep, EvaluateStep, MeterStep,
     EndSteps, PlainSteps, BreakerSteps DEF Handle
<1> QED
  BY <1>1, RestartStep, NewMonthStep, ClockSteps DEF Next

\* The inductive invariant, for all clients, instances, limits and budgets.
THEOREM Inductive == Spec => []IInv
BY InitInv, NextInv, PTL DEF Spec

\* Every variable keeps its type: the breaker never counts more failures than its
\* threshold nor more trials than it allows, whatever its callers had loaded.
THEOREM TypeCorrect == Spec => []TypeOK
<1>1. IInv => TypeOK
  BY DEF IInv
<1> QED
  BY <1>1, Inductive, PTL

\* A permit is free, or held by one request, or lost by an exception.
THEOREM PermitsAreAccounted == Spec => []PermitsAccounted
<1>1. IInv => PermitsAccounted
  BY DEF IInv
<1> QED
  BY <1>1, Inductive, PTL

\* No increment of a counter is lost and no limit is passed.
THEOREM QuotaIsKept == Spec => []QuotaKept
<1>1. IInv => QuotaKept
  BY DEF IInv
<1> QED
  BY <1>1, Inductive, PTL

\* The budget is overshot by less than the bulkheads admit at a time.
THEOREM OvershootIsBounded == Spec => []OvershootBounded
<1>1. IInv => OvershootBounded
  BY DEF IInv, BudgetInv
<1> QED
  BY <1>1, Inductive, PTL

===============================================================================
