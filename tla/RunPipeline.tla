---------------------------- MODULE RunPipeline ----------------------------
(***************************************************************************)
(* POST /run (apps/api/routes/run.py) with what it passes on its way: the  *)
(* quota counters (services/quota.py), the run bulkhead                    *)
(* (services/resilience.py), the budget guardrail and its snapshot         *)
(* (services/costs), the first transaction, the agent with an external     *)
(* retriever behind a circuit breaker (module CircuitBreaker), the second  *)
(* transaction and the metering of its cost.                               *)
(*                                                                         *)
(* Clients of one tenant send requests one after the other to any API      *)
(* instance.  A bulkhead lives in the memory of its instance; the rest is  *)
(* in PostgreSQL or Redis.  An action is a stretch of the handler between  *)
(* two awaits that others can notice.                                      *)
(*                                                                         *)
(* A permit of a semaphore is a value here, so that what became of each    *)
(* can be told.  Costs are counted in whole runs.                          *)
(***************************************************************************)
EXTENDS Naturals, FiniteSets

CONSTANTS
  Clients,     \* clients of the tenant, one request at a time each
  Instances,   \* API instances
  Limit,       \* run_bulkhead_max_concurrency, per instance
  DayLimit,    \* daily_requests_limit of the plan
  MonthLimit,  \* monthly_requests_limit
  Budget,      \* the tenant's monthly budget; its hard cap blocks
  Tenants,     \* configurations to consider, see Configuration
  Threshold, Trials, OpenTicks, Ttl, MaxCuts,  \* of CircuitBreaker
  None

\* governed: the tenant has a plan with limits and a budget.  Without them the
\* counters are still kept, but nothing compares them.
\* external: its corpus is retrieved from Bedrock or Vertex.
Configuration == [governed : BOOLEAN, external : BOOLEAN]

Permits == Instances \X (1..Limit)
Days    == {1, 2}  \* two days of a month

ASSUME RunAssumption ==
  /\ IsFiniteSet(Clients) /\ IsFiniteSet(Instances)
  /\ Limit \in Nat /\ DayLimit \in Nat /\ MonthLimit \in Nat
  /\ Budget \in Nat \ {0}
  /\ Tenants \subseteq Configuration
  /\ None \notin Instances \cup Permits
  /\ Threshold \in Nat \ {0} /\ Trials \in Nat \ {0}
  /\ OpenTicks \in Nat \ {0} /\ Ttl \in Nat /\ OpenTicks < Ttl
  /\ MaxCuts \in Nat

VARIABLES
  tenant,    \* the configuration; Init picks it and it stays
  today,     \* the current day
  used,      \* usage_counters of the days
  month,     \* usage_counter of the month
  spend,     \* the month's cost events
  snapshot,  \* whether tenant_budget_snapshots has the month's row
  free,      \* permits in the semaphores
  leaked,    \* (history) permits whose handler raised without releasing them
  client,    \* each client's request
  hash, link, cuts  \* of CircuitBreaker

Breaker == INSTANCE CircuitBreaker WITH Callers <- Clients

vars == <<tenant, today, used, month, spend, snapshot, free, leaked, client,
          hash, link, cuts>>

counters == <<today, used, month>>
costs    == <<spend, snapshot>>
permits  == <<free, leaked>>
bvars    == <<hash, link, cuts>>

Phases == {"idle", "month", "gate", "checks", "snapshot", "insert", "persist",
           "early", "stream", "retrieve", "generate", "answer", "final", "close"}

\* at: the instance; lease: the permit; day, count: the day's counter this
\* request has locked and what it read; capped: the guardrail's decision.
Request == [phase : Phases, at : Instances \cup {None},
            lease : Permits \cup {None}, day : Days, count : Nat,
            capped : BOOLEAN]

Idle == [phase |-> "idle", at |-> None, lease |-> None, day |-> 1, count |-> 0,
         capped |-> FALSE]

Init ==
  /\ tenant \in Tenants
  /\ today = 1
  /\ used = [d \in Days |-> 0]
  /\ month = 0
  /\ spend = 0
  /\ snapshot = FALSE
  /\ free = Permits
  /\ leaked = {}
  /\ client = [c \in Clients |-> Idle]
  /\ Breaker!BreakerInit

At(c, p)   == client[c].phase = p
Goto(c, p) == client' = [client EXCEPT ![c].phase = p]
End(c)     == client' = [client EXCEPT ![c] = Idle]

-----------------------------------------------------------------------------
\* Quota: a request of day d (now was read just before) locks that day's row ...

\* (Mutant of LockDay: the counter is read without FOR UPDATE.)
ReadDay(c, i, d) ==
  client' = [client EXCEPT ![c] = [Idle EXCEPT !.phase = "month", !.at = i,
                                               !.day = d, !.count = used[d]]]

LockDay(c, i, d) ==
  /\ \A e \in Clients : ~(At(e, "month") /\ client[e].day = d)
  /\ client' = [client EXCEPT ![c] = [Idle EXCEPT !.phase = "month", !.at = i,
                                                  !.day = d, !.count = used[d]]]

Arrive(c, i, d) ==
  /\ At(c, "idle")
  /\ tenant.governed
  /\ d \in {today, 1}
  /\ LockDay(c, i, d)
  /\ UNCHANGED <<tenant, counters, costs, permits, bvars>>

\* ... then the month's, and commits both counters ...
OverLimit(c) == client[c].count + 1 > DayLimit \/ month + 1 > MonthLimit

ConsumeQuota(c) ==
  /\ At(c, "month")
  /\ ~OverLimit(c)
  /\ used' = [used EXCEPT ![client[c].day] = client[c].count + 1]
  /\ month' = month + 1
  /\ client' = [client EXCEPT ![c] = [@ EXCEPT !.phase = "gate", !.day = 1, !.count = 0]]
  /\ UNCHANGED <<tenant, today, costs, permits, bvars>>

\* ... or answers 402 and leaves them alone.
QuotaRefuses(c) ==
  /\ At(c, "month")
  /\ OverLimit(c)
  /\ End(c)
  /\ UNCHANGED <<tenant, counters, costs, permits, bvars>>

\* Without limits the counters never matter.
ArriveUnlimited(c, i) ==
  /\ At(c, "idle")
  /\ ~tenant.governed
  /\ client' = [client EXCEPT ![c] = [Idle EXCEPT !.phase = "gate", !.at = i]]
  /\ UNCHANGED <<tenant, counters, costs, permits, bvars>>

-----------------------------------------------------------------------------
\* Bulkhead.acquire; everything before it (kill switch, resume) and a saturated
\* bulkhead turn the request away with nothing to give back.
Acquire(c, p) ==
  /\ At(c, "gate")
  /\ p \in free /\ p[1] = client[c].at
  /\ free' = free \ {p}
  /\ client' = [client EXCEPT ![c] = [@ EXCEPT !.phase = "checks", !.lease = p]]
  /\ UNCHANGED <<tenant, counters, costs, leaked, bvars>>

TurnAway(c) ==
  /\ At(c, "gate")
  /\ End(c)
  /\ UNCHANGED <<tenant, counters, costs, permits, bvars>>

\* BulkheadLease.release: the permit goes back once, whoever calls it how often.
Free(c) == IF client[c].lease = None THEN free ELSE free \cup {client[c].lease}

\* _release_and_raise: an HTTPException of the checks (corpus policy, provider
\* and speech entitlements, kill switches, canaries).
Refuse(c) ==
  /\ client[c].phase \in {"checks", "persist"}
  /\ free' = Free(c)
  /\ End(c)
  /\ UNCHANGED <<tenant, counters, costs, leaked, bvars>>

\* Load shedding, by the operator or by SLA evaluation, answers with a stream
\* that releases in the background.
Shed(c) ==
  /\ At(c, "checks")
  /\ Goto(c, "close")
  /\ UNCHANGED <<tenant, counters, costs, permits, bvars>>

\* Any other exception before the response exists (a statement or a Redis command
\* fails, the provider is misconfigured) becomes a 500.  Nothing releases the lease.
Leak(c) ==
  /\ leaked' = leaked \cup {client[c].lease}
  /\ End(c)
  /\ UNCHANGED free

Raise(c) ==
  /\ client[c].phase \in {"checks", "snapshot", "insert", "persist", "stream"}
  /\ Leak(c)
  /\ UNCHANGED <<tenant, counters, costs, bvars>>

-----------------------------------------------------------------------------
\* Budget guardrail: the month's spend is read and compared ...

\* (Mutant of Capped: a run that just reaches the budget may start.)
CappedAbove == spend + 1 > Budget

Capped == spend + 1 >= Budget

EvaluateBudget(c) ==
  /\ At(c, "checks")
  /\ tenant.governed
  /\ client' = [client EXCEPT ![c] = [@ EXCEPT !.phase = "snapshot", !.capped = Capped]]
  /\ UNCHANGED <<tenant, counters, costs, permits, bvars>>

SkipBudget(c) ==
  /\ At(c, "checks")
  /\ ~tenant.governed
  /\ Goto(c, "persist")
  /\ UNCHANGED <<tenant, counters, costs, permits, bvars>>

\* ... and the month's snapshot is updated, or inserted when none was found.
Decided(c) == IF client[c].capped THEN "close" ELSE "persist"

UpdateSnapshot(c) ==
  /\ At(c, "snapshot")
  /\ snapshot
  /\ Goto(c, Decided(c))
  /\ UNCHANGED <<tenant, counters, costs, permits, bvars>>

MissSnapshot(c) ==
  /\ At(c, "snapshot")
  /\ ~snapshot
  /\ Goto(c, "insert")
  /\ UNCHANGED <<tenant, counters, costs, permits, bvars>>

InsertSnapshot(c) ==
  /\ At(c, "insert")
  /\ ~snapshot
  /\ snapshot' = TRUE
  /\ Goto(c, Decided(c))
  /\ UNCHANGED <<tenant, counters, spend, permits, bvars>>

-----------------------------------------------------------------------------
\* TX #1: session and user message.
Persist(c) ==
  /\ At(c, "persist")
  /\ Goto(c, "stream")
  /\ UNCHANGED <<tenant, counters, costs, permits, bvars>>

PersistFails(c) ==
  /\ At(c, "persist")
  /\ Goto(c, "early")
  /\ UNCHANGED <<tenant, counters, costs, permits, bvars>>

\* (Mutant of FinishEarly: release forgets that it released.)
FinishEarlyForgetful(c) ==
  /\ At(c, "early")
  /\ free' = Free(c)
  /\ Goto(c, "close")
  /\ UNCHANGED <<tenant, counters, costs, leaked, bvars>>

\* early_error_stream releases when its generator ends; the response's background
\* task releases again.
FinishEarly(c) ==
  /\ At(c, "early")
  /\ free' = Free(c)
  /\ client' = [client EXCEPT ![c] = [@ EXCEPT !.phase = "close", !.lease = None]]
  /\ UNCHANGED <<tenant, counters, costs, leaked, bvars>>

\* The agent starts: history, then retrieval, external or not.
StartAgent(c) ==
  /\ At(c, "stream")
  /\ Goto(c, IF tenant.external THEN "retrieve" ELSE "generate")
  /\ UNCHANGED <<tenant, counters, costs, permits, bvars>>

\* External retrieval behind the breaker.
BeforeCall(c) ==
  /\ At(c, "retrieve")
  /\ \/ Breaker!Pass(c)
     \/ Breaker!Reopen(c, client[c].at)
     \/ Breaker!HalfOpen(c)
     \/ Breaker!FindTrial(c)
     \/ Breaker!TakeTrial(c)
     \/ Breaker!LoadFailure(c)
  /\ UNCHANGED <<tenant, counters, costs, permits, client>>

RetrievalRefused(c) ==
  /\ At(c, "retrieve")
  /\ Breaker!Refuse(c, client[c].at)
  /\ Goto(c, "close")
  /\ UNCHANGED <<tenant, counters, costs, permits>>

Retrieved(c) ==
  /\ At(c, "retrieve")
  /\ Breaker!RecordSuccess(c)
  /\ Goto(c, "generate")
  /\ UNCHANGED <<tenant, counters, costs, permits>>

RetrievalFails(c) ==
  /\ At(c, "retrieve")
  /\ Breaker!RecordFailure(c, client[c].at)
  /\ Goto(c, "close")
  /\ UNCHANGED <<tenant, counters, costs, permits>>

\* The model streams its answer, or the agent fails: error and done events.
Generate(c) ==
  /\ At(c, "generate")
  /\ \E p \in {"answer", "close"} : Goto(c, p)
  /\ UNCHANGED <<tenant, counters, costs, permits, bvars>>

\* TX #2: assistant message and checkpoint, then message.final.
StoreAnswer(c) ==
  /\ At(c, "answer")
  /\ \E p \in {"final", "close"} : Goto(c, p)
  /\ UNCHANGED <<tenant, counters, costs, permits, bvars>>

\* _record_run_cost_events.  A failing write is swallowed.
Meter(c) ==
  /\ At(c, "final")
  /\ spend' \in IF tenant.governed THEN {spend, spend + 1} ELSE {spend}
  /\ Goto(c, "close")
  /\ UNCHANGED <<tenant, counters, snapshot, permits, bvars>>

\* The client goes away: the stream ends where it is and cancels the agent.
Disconnect(c) ==
  /\ client[c].phase \in {"stream", "retrieve", "generate", "answer", "final"}
  /\ \/ Breaker!Abandon(c)
     \/ Breaker!CutOff(c, client[c].at)
  /\ Goto(c, "close")
  /\ UNCHANGED <<tenant, counters, costs, permits>>

\* The response is complete: its background task releases the lease.
Close(c) ==
  /\ At(c, "close")
  /\ free' = Free(c)
  /\ End(c)
  /\ UNCHANGED <<tenant, counters, costs, leaked, bvars>>

-----------------------------------------------------------------------------
\* An instance dies and is started again, with a full semaphore.
Restart(i) ==
  LET lost == {c \in Clients : client[c].at = i}
      mine == {p \in Permits : p[1] = i}
  IN /\ client' = [c \in Clients |-> IF c \in lost THEN Idle ELSE client[c]]
     /\ link' = [c \in Clients |-> IF c \in lost THEN Breaker!Rest ELSE link[c]]
     /\ free' = free \cup mine
     /\ leaked' = leaked \ mine
     /\ UNCHANGED <<tenant, counters, costs, hash, cuts>>

\* The calendar.  A request between its two counters, or between the snapshot it
\* missed and its insert, is put before the new month: the rows it still writes
\* are read by nobody afterwards.
NewDay ==
  /\ tenant.governed
  /\ today = 1
  /\ today' = 2
  /\ UNCHANGED <<tenant, used, month, costs, permits, client, bvars>>

NewMonth ==
  /\ today = 2
  /\ \A c \in Clients : client[c].phase \notin {"month", "snapshot", "insert"}
  /\ today' = 1
  /\ used' = [d \in Days |-> 0]
  /\ month' = 0
  /\ spend' = 0
  /\ snapshot' = FALSE
  /\ UNCHANGED <<tenant, permits, client, bvars>>

Tick ==
  /\ Breaker!Tick
  /\ UNCHANGED <<tenant, counters, costs, permits, client>>

-----------------------------------------------------------------------------
Handle(c) ==
  \/ \E i \in Instances, d \in Days : Arrive(c, i, d)
  \/ \E i \in Instances : ArriveUnlimited(c, i)
  \/ ConsumeQuota(c)
  \/ QuotaRefuses(c)
  \/ \E p \in Permits : Acquire(c, p)
  \/ TurnAway(c)
  \/ Refuse(c)
  \/ Shed(c)
  \/ Raise(c)
  \/ EvaluateBudget(c)
  \/ SkipBudget(c)
  \/ UpdateSnapshot(c)
  \/ MissSnapshot(c)
  \/ InsertSnapshot(c)
  \/ Persist(c)
  \/ PersistFails(c)
  \/ FinishEarly(c)
  \/ StartAgent(c)
  \/ BeforeCall(c)
  \/ RetrievalRefused(c)
  \/ Retrieved(c)
  \/ RetrievalFails(c)
  \/ Generate(c)
  \/ StoreAnswer(c)
  \/ Meter(c)
  \/ Disconnect(c)
  \/ Close(c)

Next ==
  \/ \E c \in Clients : Handle(c)
  \/ \E i \in Instances : Restart(i)
  \/ NewDay
  \/ NewMonth
  \/ Tick

Spec == Init /\ [][Next]_vars

\* Redis lets time pass; no client, handler or operator has to do anything.
FairSpec == Spec /\ WF_vars(Tick)

-----------------------------------------------------------------------------
TypeOK ==
  /\ tenant \in Configuration
  /\ today \in Days
  /\ used \in [Days -> Nat]
  /\ month \in Nat
  /\ spend \in Nat
  /\ snapshot \in BOOLEAN
  /\ free \subseteq Permits
  /\ leaked \subseteq Permits
  /\ client \in [Clients -> Request]
  /\ Breaker!BreakerTypeOK

\* resilience.py "avoid double-releasing" and run.py "ensure bulkhead capacity is
\* released": a permit is in its semaphore, or one request in progress holds it, or
\* an exception nobody handled lost it; never two of these, and never none.
PermitsAccounted ==
  \A p \in Permits :
    LET holders == {c \in Clients : client[c].lease = p}
    IN /\ \A c, d \in holders : c = d
       /\ (p \in free) = (holders = {} /\ p \notin leaked)
       /\ p \in leaked => holders = {}

\* quota.py "enforce per-tenant quotas and increment counters atomically": the
\* month's counter is the sum of its days', no increment is lost and no limit
\* passed, with the day's row read one lock before both are written.
QuotaKept ==
  /\ month = used[1] + used[2]
  /\ \A d \in Days : used[d] <= DayLimit
  /\ month <= MonthLimit

\* A run that passed the guardrail and is not metered yet.
Admitted == {c \in Clients : /\ client[c].phase \in {"snapshot", "insert", "persist",
                               "stream", "retrieve", "generate", "answer", "final"}
                             /\ ~client[c].capped}

\* budget_guardrails.py "evaluate budgets before expensive operations": the spend
\* is compared before a run and increased after it, so the hard cap can be overshot,
\* but by no more than the bulkheads admit at a time.
OvershootBounded ==
  tenant.governed =>
    \/ spend + Cardinality(Admitted) < Budget
    \/ spend + Cardinality(Admitted) + 1 < Budget + Cardinality(Permits)

\* Whether the hash expires by itself: one written by a caller cut off before its
\* EXPIRE, on a key that had just expired, does not, and may refuse for ever.
Expires == hash # None /\ hash.ttl # None

\* resilience.py "temporarily unavailable": while its hash expires the breaker
\* refuses no instance for ever, whatever callers died or left without reporting
\* and however far apart the instances' clocks are; a refusal prolongs nothing.
BreakerRecovers ==
  \A i \in Instances :
    (Breaker!Refusing(i) /\ Expires) ~> ~(Breaker!Refusing(i) /\ Expires)
=============================================================================
