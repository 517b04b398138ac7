# NexusRAG: formal models

TLA+ models of the concurrent core of NexusRAG, the TLC runs that check them on
small instances, and TLAPS proofs of what matters most for every instance.
Paths are relative to the repository.

Contents: [system](#1-the-system) · [models](#2-the-models) ·
[runs](#3-the-runs) · [what the runs found](#4-disagreements-between-code-and-documentation) ·
[fairness](#5-fairness) · [proofs](#6-the-proofs) ·
[left out](#7-what-is-not-modelled) · [plan](#8-plan) · [how to run](#9-how-to-run)

## 1. The system

NexusRAG is a FastAPI service with PostgreSQL, Redis and arq workers, deployed
in several regions. Everything below is reached by several API instances and
worker processes at once; a process may die between any two transactions.

| Component | Code (under `nexusrag/`) | State | Correct when | Module |
|---|---|---|---|---|
| **Failover control plane** | `services/failover.py`, `routes/ops.py` | one row of `failover_cluster_state`, `failover_tokens`, `failover_events`, a Redis lease | with Redis up, an atomic register of primary and epoch; tokens spent once; the freeze holds until verification | `Failover`, `EpochRegister`, `FailoverRefinement` |
| **Notification delivery** | `services/operability/notifications.py`, `workers/`, `apps/notify_receiver` | `notification_jobs`, attempts, dead letters, the arq queue, the receiver's dedupe table | one request at a time, complete history, receiver handles a job once, every job settles | `NotificationDelivery` |
| **Document ingestion** | `routes/documents.py`, `services/ingest/*` | `documents`, `chunks`, the stored text, the queue | the index is what the row says, progress never claimed without a job, reindexing keeps a document searchable | `Ingestion` |
| **Key rotation, blobs** | `services/crypto/service.py`, `routes/crypto_admin.py` | `tenant_keys`, `key_rotation_jobs`, `encrypted_blobs`, ciphertext files | every blob is readable with a key that exists, a retired key is empty, a rotation ends | `KeyRotation` |
| **Run pipeline, bulkhead, quota, budget** | `routes/run.py`, `services/quota.py`, `services/costs/*`, `services/resilience.py` | semaphores, `usage_counters`, cost events, budget snapshot | no permit is lost or doubled but as stated, no hard cap is passed, a budget's overshoot is bounded | `RunPipeline` |
| **Circuit breaker** | `services/resilience.py` | one Redis hash an integration | it does not refuse for ever | `CircuitBreaker` |
| **SLA engine, load shedding** | `services/sla/signals.py`, `evaluator.py` | `sla_measurements`, samples of each instance | a breach passes when its cause does | `SlaEngine` |
| **Autoscaling** | `services/sla/autoscaling.py`, `routes/sla_admin.py` | profile, `autoscaling_actions` | changes are a cooldown apart, results within bounds | `Autoscaling` |
| **Governance** | `services/governance.py` | `legal_holds`, retention and DSAR rows, the content itself | a hold stops every erasure that looks for it, records tell what was erased | `Governance` |
| **Alerts, incidents, operator actions, idempotency** | `services/operability/*`, `services/idempotency.py` | `ops_incidents`, `operator_actions`, `idempotency_records`, a Redis lock and flags | one open incident a class, one effect a key, answers agree with rows | `Operability` |
| **Identity** | `routes/scim.py`, `sso.py`, `identity_admin.py`, `services/auth/*` | `tenant_users`, SCIM groups, memberships | roles follow bound groups, a disabled user stays disabled | `Identity` |
| **Rate limiting** | `apps/api/rate_limit.py` | token buckets in Redis | exactly the configured rate, nothing charged for a refusal | `TokenBucket` |
| **Principal and entitlement caches** | `apps/api/deps.py`, `services/entitlements.py` | dictionaries in each instance | staleness is bounded | `AccessCaches` |
| **Authorization** | `services/authz/*`, `routes/authz_admin.py` | policies, document permissions | decision, listing and simulation agree with what conditions mean | `Authorization` |
| **Backups and drills** | `services/backup.py`, `services/maintenance.py`, `routes/ops.py` | `backup_jobs`, `restore_drills`, directories | a row tells its files, readiness is earned | `Backups` |
| Platform keyring | `services/security/keyring.py` | `platform_keys` | one active key for a purpose | - |
| Compliance, audit, telemetry | `services/compliance/*`, `services/audit.py` | append-only rows | no decision reads them | - |
| Persistence | `domain/models.py`, migrations | constraints | | in the modules that rely on them |

How they interact:

* The write gate of failover (`enforce_write_gate`) stands in front of every
  mutating route, ingestion's included. The operator action `freeze_writes` and
  the admin route both end in `set_write_freeze`.
* A request passes authentication (`AccessCaches`), the rate limiter
  (`TokenBucket`), then for `/run` the entitlement, the quota, the SLA engine, the
  bulkhead and the budget guardrail in the order of `RunPipeline`, whose retrieval
  goes through the breaker; for a document the decision of `Authorization`.
  What became of a run is a sample of the SLA engine, which decides about
  the next.
* The background evaluator opens incidents; each open or resolve creates
  notification jobs through `_create_notification_jobs`. The rollout switch
  `kill.notifications` is read on every entry to the delivery pipeline.
* The document routes pass idempotency, the quota and the ingest bulkhead before
  they write the row and enqueue a job; the arq worker process runs ingestion.
* Audio storage, backup manifests and DSAR exports store blobs through
  `store_encrypted_blob` while a rotate request, which runs its job inside its own
  handler, re-encrypts them.
* Retention, DSAR, deletion of documents and two different prunes of backups
  erase what legal holds are about; they share only the table of holds.
* PostgreSQL row locks, `SKIP LOCKED`, unique constraints and SQLAlchemy's
  write-what-changed flush connect transactions of one component that never
  see each other in the code.

The behaviours that are hard to test are listed, each at its line, under
`hazards` in `PROJECT.json`. The ones that shaped the models:

* the row lock of a failover transition is given up half way (by the commit
  that spends the token), the rest runs on a copy of the row;
* the Redis lease may be missing, may expire, and is released in two commands;
* a worker claims a notification job in one transaction, reloads it in a second
  and delivers it in a third, while retry-now requests write its status unlocked;
* every message and response between worker and receiver may be lost;
* a document handler empties the file before the row changes, the queue learns
  of the job after the row, and an attempt reads all three at different times;
* arq delivers a job again after a crash, and drops it after its last try;
* a rotation overwrites a blob's file before it commits the row that describes it,
  and never looks again at the job row that pause, resume and cancel change;
* the breaker's hash is loaded and saved by separate commands, its TTL by a third;
* the month's spend is compared before a run and increased after it;
* the SLA engine counts the requests it refuses as failures of the route;
* holds are read once and content is erased much later, over many commits;
* a call that recomputes roles works on groups and users it loaded before others
  changed them;
* what may be authenticated is remembered by every instance for itself;
* a prune removes files before it commits the rows that list them.

## 2. The models

An action is one database transaction, Redis or queue command, file operation,
or HTTP exchange: the steps that other processes can see between. SQLAlchemy's
sessions run with `expire_on_commit` off where the code says so, hence handlers
carry the row as they loaded it, and a commit writes only the columns that
differ from that copy (`Written`, `Begin`, `Described`, `Assigned`, `CommitPatch`,
`PatchProfile`). A variable marked as history records something for a property to
speak of; no guard reads it.
Requests that are refused without effect are left out, as stutters.

### `Failover`: the control plane

| State | Code |
|---|---|
| `row` | `failover_cluster_state`: `active_primary_region`, `epoch`, `cooldown_until` in the future, `freeze_writes`, `metadata_json["previous_primary"]` |
| `lock` | the Redis key of `acquire_failover_lock` |
| `rowLock` | who has the row `FOR UPDATE` |
| `tok` | `failover_tokens`: unissued (or expired), issued, used |
| `settled` | calls whose event is terminal (a promotion sent again is answered from it) |
| `call` | for each operator call, where its handler stands and its locals |
| `redis` | an assumption, picked by `Init`: `reliable` (every lock command succeeds, a lease outlives its call) or `faulty` |

A promotion is `PromoteRegion` → `ReadState` → `SelectToken` → `ConsumeToken` →
`FreezeWrites` → `PrecheckPasses` → `Promote` → `CompletePromotion` →
`ReleaseCheck` → `ReleaseDelete`, with a refusal, a `DatabaseError` or a `Crash`
possible after each; a rollback branches after the token. `SetWriteFreeze` and
`AdmitWrite` take no lease and interleave anywhere. `hold`, `served`, `uses` and
`moved` are history: an operator's standing freeze, the epoch and region of the last
admitted write, how often a token was spent, and which tokens are the
`approval_token_id` of an event that moved the primary.

### `EpochRegister`, `FailoverRefinement`: what failover promises

The register has a primary, an epoch, a cooldown, the number of approvals spent
and the last write let through; each of its steps is atomic (`Pay`, `Transfer`,
`Cool`, `Serve`), and a transfer needs an approval for each epoch. With Redis
`reliable` the cluster row is such a register (`ImplementsRegister`), although a
transition takes eight commits and works on a copy of the row. Without Redis the
mapping is a constant but for `paid`: only that tokens are spent one by one is left.

### `NotificationDelivery`: jobs, workers, scheduler, receiver

| State | Code |
|---|---|
| `status`, `due`, `old`, `count` | a `notification_jobs` row: `status`, `next_attempt_at`, age, `attempt_count` |
| `attempts`, `dead` | `notification_attempts` (numbers), `notification_dead_letters` |
| `queue` | jobs with a message in arq |
| `paused` | `kill.notifications` |
| `worker` | each `process_notification_job`: claim, claimed, loaded, posting, answered |
| `retry` | a `retry_notification_job_now` between its read and its commit |
| `seen`, `processed` | the receiver's dedupe table; how often it handled a job for real |

The open attempt's insert keeps `FOR KEY SHARE` on the job's row, which the
claim's `SKIP LOCKED` skips (`Locked`); together with the unique attempt number
(`BeginAttempt`) that is what keeps two requests for one job apart, not the claim
alone. `raced` records jobs whose status a retry-now request overwrote without
having read it; the properties that fail for them say so. `noop` has the jobs
whose destination is a `noop://` one: `DeliverNowhere` succeeds without a receiver.

### `Ingestion`: one document

| State | Code |
|---|---|
| `doc` | `documents`: `status`, `last_job_id` |
| `file` | the stored text: which write it came from, or emptied and not written |
| `chunks` | committed chunks, by the job that inserted them and the text they were cut from |
| `handler` | each write, reindex or delete request, with the row as it loaded it |
| `job` | each request's arq message and its `job_try` |
| `worker` | each attempt: read text, load row, begin, clear, commit, mark, ack |

`disturbed` and `lost` are history: whether requests raced (one acted on a stale
read or on a document another was still working on, or left a file without its
row), and whether a job ended without a word in the row. `Searchable` and
`ReadableThroughout` say what holds while there was no race; `ProgressBacked`
holds under any. Without the exception for `disturbed` they fail (section 4).

### `KeyRotation`: the keys and blobs of one tenant

| State | Code |
|---|---|
| `key` | `tenant_keys`: the status of each version, by version |
| `row` | `encrypted_blobs`: key and envelope (wrapped data key, nonce, tag, checksum) of each blob |
| `file` | the ciphertext file of an audio blob, by the envelope it fits |
| `job` | `key_rotation_jobs.status` |
| `run` | each rotate request: where its handler stands, its batch and its counters |
| `store` | each blob's `store_encrypted_blob`: key read, file written, row inserted |

A rotation is `BeginRotate` (or `ForceRotate` → `CancelSeen`) → `LoadFrom` →
`LoadActive` → `Rotate` → `CheckJobs` → `InsertJob` → `Start` → `CountItems`, then
batches of `SelectBatch`, items and `CommitBatch` until `NoneLeft`, and `Finish` →
`Retire`. An item's `Decrypt`, its `Reencrypt` (the file is overwritten) and the
`CommitBatch` that makes the row follow are three steps; a KMS call
(`DecryptFails`) or a write (`WriteFails`) may fail and the loop goes on, the
handler may `Die` anywhere. `CommitJob` writes `paused`, `queued` or `failed` at
any time: pause, resume and cancel decide by the status they loaded, a job was in
each deciding status at some time or may have been, and nothing orders the load
and the commit with the runner.

An envelope stands for the encryption it came from: the original one, or that of
a request. File blobs have names of their own (`uuid4` in `audio/storage.py`), so
each is stored once. `crossed`, `late` and `spoiled` are history: two runs were at
work at once (or one began for a key that was replaced by then), a blob was
stored under a key that was replaced meanwhile, a file was written and its row
never followed. `DataKept`, which ignores them, is refuted.

### `CircuitBreaker` and `RunPipeline`: `POST /run`

| State | Code |
|---|---|
| `hash`, `cuts` | the breaker's Redis hash with its remaining TTL; callers cut between `HSET` and `EXPIRE` |
| `link` | each caller between the load and the save of a breaker, with the state it loaded |
| `used`, `month` | `usage_counters` of two days and of the month |
| `spend`, `snapshot` | the month's cost events in whole runs; the row of `tenant_budget_snapshots` |
| `free` | the permits in the semaphores of the instances' bulkheads |
| `client` | each request: its phase, instance, permit, locked day, the guardrail's answer |
| `tenant` | the configuration, picked by `Init`: `governed` (plan with limits, budget that blocks), `external` (Bedrock or Vertex) |

A request is `Arrive` (locks the day's row) → `ConsumeQuota` (locks the month's,
commits both) → `Acquire` → `Shed` or `EvaluateBudget` → `UpdateSnapshot` or
`MissSnapshot`, `InsertSnapshot` → `Persist` → `StartAgent` → `BeforeCall`,
`Retrieved` or `RetrievalFails` → `Generate` → `StoreAnswer` → `Meter` → `Close`.
Each stretch may `Raise`, `Disconnect` or end early; whether the permit goes back is decided
by the exit the code takes. `leaked` is history: permits whose handler raised
outside the blocks that release them. The breaker's `Elapsed` leaves open what an
instance other than the writer makes of `opened_at`, a reading of the monotonic
clock of another host.

### `SlaEngine`: measurement, decision, shedding

| State | Code |
|---|---|
| `samples` | each instance's samples of the current and the last minute: was any bad |
| `rows` | `sla_measurements`, newest first, by age and whether the minute was bad |
| `policy`, `forced` | the effective policy's verdict on a breach; the operators' forced shed |
| `visit` | each request, from the decision it was given to the row it writes |

`Enter` decides by the latest `Trigger` rows, `Serve`, `ShedRun` and `ShedIngest`
sample what became of the request (a shed run as an error, a shed ingest not at
all), and `Write` overwrites the minute's row with what this instance has seen.
`trouble` stands for the cause of a breach: while it lasts requests may be slow, fail or
go unrecorded and instances may restart.

### `Autoscaling`: one profile

`actions` are the rows of `autoscaling_actions`, each with the time, whether it
was executed, whether it was a hold, and (`seen`) how many there were when its
request read the latest one. `ReadLatest` → `RecordAction` is a request,
`LoadProfile` → `PatchProfile` a patch; nothing locks anything between the two.
`crossed` is history: the *last* patch was committed over one its author had not
seen. Two such patches do put the bounds out of order, so `BoundsKept` excepts that
state, and only that: a later patch by itself is checked against all columns.

### `Governance`: holds against erasures

| State | Code |
|---|---|
| `holds` | `legal_holds` that are active and not expired |
| `kept` | the pieces of documents (row, chunks, file), sessions, keys and backup sets that exist |
| `job`, `status` | `backup_jobs.status`; the status of each retention run or DSAR request |
| `op` | each erasing operation: its phase, the holds it loaded, what it changed and did not commit |

Retention: `StartRetention` → `ReadHolds` → `EraseRows` → `RemoveBackup`s →
`CommitSkips` → `FinishRetention`, or `RetentionFails`. Prune: `StartPrune` →
`ReadScopes` → `RemoveBackup`s → `FinishPrune`. DSAR: `SubmitDsar` → `RunDsar` →
`PolicyRejects` or `HoldRejects` or `FindNoHold` → `ApplyDsar`. Deletion:
`DeleteDocument` → `CheckDelete` → `LoadDocument` → `DeleteRows` → `Unlink`.
`CreateHold` and `EndHold` (released or expired) may happen between any two, and so
may a `Crash`. History: `since` has the holds in force without a break since the
operation arrived, `did` whether it erased anything. `Considers` says which
holds each operation looks for at all, which is less than the runbooks promise
(section 7).

### `Operability`: evaluator, incidents, operator actions

| State | Code |
|---|---|
| `lock`, `expiries` | the evaluator's Redis lock by holder; how often its TTL ended |
| `incidents` | `ops_incidents` of one dedupe key, oldest first |
| `row`, `writer` | status of each `operator_actions` row; who inserted it and has not committed |
| `reply` | `idempotency_records` |
| `call` | each evaluator cycle, alert or request for an action |

An evaluation is `StartCycle` or `Trigger` → `FindRules` → `CommitEvent` →
`Lookup` → `OpenIncident` or `UpdateIncident` → `Unlock` → `DeleteLock`; an action is
`Request` → `Replay` or `NoReplay` → `FindAction` → `InsertAction` (the unique key
makes a second one wait or fail) → `Freeze` (commits by the way) or `SetFlag` →
`CommitAction` or `RecordFailure` → `StoreReply`. `beside` (incidents opened between
the look-up and the opening), `by` (what last opened the incident: a cycle, a request's
alert or an operator) and `undone` (an effect whose row was lost) are history: they
name the ways in which duplicates do arise. `OnePerClass` does not excuse the
check-then-insert between two cycles, which is what the lock is for, unless the lock
has expired.

### `Identity`: users, groups, roles

| State | Code |
|---|---|
| `user`, `groups`, `member` | `tenant_users` (role, status), `scim_groups`, `scim_group_memberships` |
| `call` | each SCIM call or login: what it loaded, its uncommitted changes, the users whose role it has yet to recompute |

A call is `Load...` → `Sync` (memberships; waits for rows others have changed) →
`Recompute` for each user concerned → `Commit`, at `READ COMMITTED`; administrators
`SetRole` and `SetStatus` at any moment. Only columns that differ from what was
loaded are written (`Assigned`, `Written`). `alone` and `loose` are history: users
no other call touched since a call's load; users whose role was last written by
a call that was overtaken, by an administrator, or that lost a group without a
recomputation.

### `TokenBucket`: the rate limiter

`hashes` are the Redis hashes: tokens, and how long ago they were counted; `Admit`
and `Refuse` are one run of the Lua script over the buckets of key and tenant, `Elapse`
a tick in which a hash may expire. `credit` is history: a bucket nobody forgets.

### `AccessCaches`: principals and entitlements

`granted`, `plan` and `override` are the database, `principals` and `entitlements`
the dictionaries of each instance with the time their entries have left, `lookups` the requests
between a miss and its store. `MissPrincipal` → `ReadKey` → `PutPrincipal` and
`MissEntitlement` → `ReadPlan` → `ReadOverrides` → `StoreEntitlement` interleave with
`Regrant` (a revocation, a role change, an expiry), `AssignPlan`, `PatchOverride`,
`Tick` and `Restart`. `held` and `effective` are history: for how long a key had had
each role, and the feature each value.

### `Authorization`: conditions, decisions, patches

Pure definitions translate the code's evaluation: `Depth`, `Accepted`, `Evaluate`
(recursive functions over conditions; `Outcome` is one call of `evaluate_condition`, with
`"invalid"` for its exception, `Settled` Python's `all` and `any`), `Decide`,
`AclAllows`, `Authorized`, `Filtered`, `Simulate`. They are compared with reference
definitions that say what a condition means as a set of contexts (`Meaning`, `Promised`).
The state is `policies`, `permissions` and `edits`, the calls of `patch_policy`,
`enable_policy` and `disable_policy` (`LoadPatch`, which checks the scope, and
`LoadToggle`, which does not) between their load and their commit. `mixed` is history:
policies whose *last* change of scope was committed over another one made since its load;
a change of scope by itself takes the policy out again, any other change leaves it.

### `Backups`: jobs, prune, drills, readiness

| State | Code |
|---|---|
| `backup` | `backup_jobs` rows and where each job's task is |
| `folder` | the files in a job's directory; its manifest absent, torn or whole |
| `age` | whether the manifest, and the row too, are past the retention |
| `drill`, `prune` | `restore_drills` rows and their tasks; the prunes under way |

A job is `CreateJob` → `StartJob` → `Dump`s → `OpenManifest` → `WriteManifest` →
`SignManifest` → `VerifyBackup` → `MarkJob`; a prune `BeginPrune` → for each
directory `VisitFolder`, `LoadForPrune`, `RemoveFile`s, `RemoveManifest`,
`MarkPruned` → `CommitPrune`; a drill `TriggerDrill` or `ScheduleDrill` →
`OpenDrill` → `CheckFile`s → `ReadAgain` → `RecordDrill`. Any task may die, any file
operation fail (`breakdowns` bounds them). `abandoned` is history: jobs whose
removal was begun by a prune that never committed.

## 3. The runs

| Run | Instance | Distinct states | Checks |
|---|---|---|---|
| `failover` | 2 calls (sent again without limit), 2 writable regions and 1 standby, 2 promote and 1 rollback token | 1.4 million | `TokenSpentOnce`, `FrozenUntilVerified`, `TransitionsPaid`, `ImplementsRegister` |
| `failover_containment` | the same | | refutes `ContainmentHolds` |
| `notify` | 1 job for a receiver or nowhere, 2 workers, 3 attempts, 2 crashes, fairness | 239 thousand | `SingleFlight`, `HandledOnce`, `DeadLettered`, `SettledForGood`, `Settles` |
| `ingest` | 2 requests over a document absent or ingested before, 2 workers, 2 tries, 2 faults, fairness | 1.2 million | `Searchable`, `ProgressBacked`, `ReadableThroughout`, `Settles` |
| `rotation` | 2 rotate requests, 1 blob in a file or in a row (stored before or meanwhile), 1 fault, fairness | 1.3 million | `Intact`, `RetiredEmpty`, `RotationEnds` |
| `rotation_twice` | 2 requests, both blobs, no faults | | refutes `DataKept` |
| `runs` | 2 clients, 2 instances with 1 permit each, day limit 2, month limit 3, budget 2; breaker with threshold 2, 2 trials, open for 2 ticks, TTL 4, 1 cut; or: 2 instances with 1 request each under the SLA engine, trigger 2; fairness | 245 thousand | `TypeOK`, `PermitsAccounted`, `QuotaKept`, `OvershootBounded`, `BreakerRecovers`, `Recovers` |
| `sla_shed` | the second part with the shedding policy | | refutes `SheddingEnds` |
| `governance` | 2 tenants, a document, a session, a backup set, 2 operations, 2 holds at a time | 1.8 million | `TypeOK`, `DsarTruthful`, `HeldSinceArrival` |
| `operability` | 3 calls, a freeze and a Redis action, 1 expiry of the lock | 1.9 million | `CyclesBounded`, `OnePerClass`, `RetriesHarmless`, `AnswersAgree` |
| `identity` | 1 user, 2 groups bound to different roles, 2 calls at a time | 1.8 million | `TypeOK`, `RolesFollowGroups`, `StaysDisabled` |
| `services` | one part at a time: 2 keys and a tenant; 1 key, 2 roles, 2 instances, 2 lookups, TTLs of 2; 2 policies, 10 conditions, 2 editors; 2 backup jobs, 2 drills, 2 prunes, 1 breakdown; 2 requests or patches of a profile, 3 actions | 552 thousand | `RateKept`, `StaleBounded`, `DecisionsAgree`, `WildcardsGuarded`, `RowsTellFiles`, `ReadyIsEarned`, `SpacedApplies`, `BoundsKept` |

What the passing runs show:

* **Failover.** While Redis is up the control plane is an atomic register: one
  approval an epoch, no move within a cooldown, writes let through in the order
  of epochs by the primary of each. A token is spent once *even without Redis*,
  because the row lock taken before the token is looked up is given up only by the
  commit that marks it; and with or without Redis, every move of primary or epoch is
made by a call with a token of its own, of its purpose, that has made no other move,
although the move commits up to four transactions after the token, and requests are
sent again. The automatic freeze stands until verification
  unless an operator lifts it.
* **Notifications.** Retry-now requests and duplicate messages can make a job
  claimable that a worker already has. Still no two requests for it overlap,
  its history has no gap, and the receiver handles it once. What does break
  is bounded by `raced`: an overwritten status may take a job out of `dlq` or
  past its attempt limit, and nothing else does. Settling needs only the
  scheduler's messages.
* **Ingestion.** Crashes, retries and redelivery of a finished job leave the
  index as the row says, because the delete and the insert of the chunks share a
  transaction. A document is never shown in progress without a job or a
  handler behind it, unless a job was lost.
* **Key rotation.** A cancelled or paused run works on to its end and harms
  nothing by it. File and row of a blob disagree only within a batch, or for good
  after a death or a failed write between the two; until two runs overlap,
  nothing else does it, and a key is retired only when it is empty but for blobs
  that were being stored across the rotation. A run ends unless its file
  is spoiled: such a blob stays under the old key, every pass selects it again and
  fails, and the loop has no other exit.
* **Runs.** The day's row lock, taken before the month's counter is read, is
  enough for both limits and their sum. The unlocked guardrail is overshot by less
  than one run for each permit. Permits are lost only by exceptions that no block
  handles. Callers that die or leave while they hold the breaker's trials do not
  stop it for longer than its TTL, which no refusal prolongs.
* **SLA.** Whatever order instances overwrite each other's rows in, a breach is
  forgotten for good once its cause is over and the policy does not shed.
* **Governance.** No operation erases what a hold it looks for has kept since the
  operation arrived, though each reads the holds only once; a hold placed later
  may lose the race. A request recorded as completed has erased its targets, and
  one recorded as anything but completed or running has erased nothing.
* **Operability.** Cycles overlap no more often than the lock expired under one,
  although its release may delete another's lock. Two unresolved incidents
  of a class come from overlapping openings or from reopening, and from two
  overlapping cycles only once the lock has expired; two effects of a
  key only from a failure or death before the row's commit; whatever
  answers were given agree with the row.
* **Identity.** A role follows the groups unless calls overlapped over the user, or
  one of the stated writers came last; stale data never enables a disabled user.
* **Access.** Lazily refilled and expiring buckets charge exactly as one that is
  never forgotten. A revoked key is honoured for less than its TTL and one
  lookup; plan and override are read apart and never give a value that did not
  hold within the TTL. The order of evaluation, its stops and its errors decide as
  the meaning of the conditions says, a listing keeps what a single decision
  allows, and a wildcard policy needs the setting unless the last patch of its scope
  overlapped another.
* **Upkeep.** A backup that says `succeeded` has its files until its retention ends,
  and afterwards lags only behind a prune; a tenant told to be ready has a passed
  drill and a complete latest backup. Two scaling changes are a cooldown apart
  unless the requests overlapped or a hold came between.

**Bounds.** Two calls are needed for any race between transitions and suffice
for the pairwise ones; each call may be sent again under its id, so longer
histories occur with two. Three tokens allow two promotions and a rollback,
after which no transition passes; they bound the epoch. Three regions give a
target that fails verification and two that do not. Two workers let one crash and
clash on an attempt number with another after a retry-now request, and
three attempts have a first, a middle and a last. Jobs share nothing but
workers, so one job suffices. One prior ingest and two requests give every
overlap of write, reindex and delete with each other and with either's job.
Two rotate requests give two overlapping runs, a rotation during another's run,
and a forced one that cancels the other; the blob is selected again in a later pass
when it failed or came late. `MaxCrashes`, `MaxFaults`, `MaxCuts`,
`MaxBreakdowns` and `MaxExpiries` bound deaths, failing calls and expiries, each by
the number that lets one fall into the recovery from another or into each party of a
race. Two instances with a permit each have a request turned away by one
and let in by the other; limits of 2 and 3 make the day's the binding one on the
first day and the month's on the second. A threshold and trials of 2 have a failure
that does not open the breaker and a trial beside another. Three calls give
operability a race and a late third (a lock deleted under its holder, a retry of a
retry). One user in two groups has each role a group can give or take. In `services`
two jobs are an old backup and its successor, which does not age; with two prunes
there is one drill, with two drills one prune, and then only drills break down; ten
conditions have one for each operator, for each way to be refused, and for each
order of a slip and what settles the answer. `MaxActions` (3) has a change, a hold and a change.
Where a behaviour exercises one part at a time (`runs`, `services`) the parts
share no state, so that interleaving them could show nothing else.

Symmetry is used only in runs without fairness, over calls, tokens of one purpose,
writable regions, operations, instances and editors, none of which the modules tell apart.
In `services` drills are named like calls, prunes like instances and operators
like editors, so that one set of permutations serves every part.

Deadlock is not checked: each of the systems may come to rest (tokens used up,
jobs settled, requests answered) with nothing left to do.

Every property of a passing run has a mutant in `PROJECT.json`: a definition
with a plausible slip (a lock without `NX`, a plain `SELECT`, a dropped cooldown
check, a scheduler that forgets `retrying`, a lifetime counted from the store, a
separately committed delete...) under which TLC refutes it. Mutated forms stand next
to what they mutate and are marked as such; no specification uses them.

## 4. Disagreements between code and documentation

1. **`failover_containment`.** The runbook on split-brain mitigation has the
   operator keep writes frozen until a promotion is verified. A promotion that
   its precheck refuses lifts the freeze (`failover.py:872`), the operator's too.
2. **`rotation_twice`.** `docs/runbooks/key-rotation-execution.md:20` says a
   rotation does not delete data, and line 21 that one job per tenant is enforced.
   The check (`crypto/service.py:370`) takes no lock and no constraint backs it.
   Two requests rotate twice and re-encrypt the same file; one writes the file
   last, the other commits the row last, and no key decrypts the blob any more.
3. **`sla_shed`.** A run is refused "due to sustained SLA breach"
   (`routes/run.py:640`), and `docs/runbooks/load-shedding-playbook.md:38` expects the
   status to return to healthy. A refused run is sampled as an error
   (`run.py:268`, `signals.py:93`), a refused ingest not at all
   (`documents.py:309`), and the latest rows never age: shedding keeps itself up.
   Switching the policy away from shedding, as `sla-breach-response.md:25` advises,
   does end it (`Recovers`).

Others that the models exhibit, without a run of their own:

* Without Redis two failovers overlap, each writing from its own copy of the row
  (`failover.py:503` against `README.md:813`, "Redis lock + DB row lock").
* A worker that dies after its claim (`notifications.py:714`) leaves the job
  `delivering`, which nothing looks for again (against at-least-once in
  `README.md:1645`). `Settles` names such a job as `Stranded`.
* Two overlapping overwrites of raw text pass the unlocked status check
  (`documents.py:878`) and leave the chunks in the index twice (against
  `README.md:562`).
* Prunes ignore the holds of tenants, and `scripts/backup_prune.py` all holds
  (`maintenance.py:137` against `docs/runbooks/legal-hold-procedure.md:4`); a DSAR request
  of a whole tenant ignores the holds of its documents, sessions and keys.
* An evaluation that records a hold for the cooldown restarts nothing and ends it:
  evaluate, then apply, passes (`autoscaling.py:91` against the comment above it).
* An exception between `Acquire` and the stream leaks the permit, against the comment at
  `run.py:479`.

## 5. Fairness

Safety properties assume none. `notify` assumes weak fairness of a worker's own
steps (an event loop runs its tasks, every request has a timeout), of consuming
a message in the queue, of the scheduler (`_scheduler_loop` catches every
exception and never ends, and reaches Redis in the end), and of time passing.
`ingest` assumes it of a started handler, of an attempt, of arq polling and of
arq discarding exhausted jobs. `rotation` assumes it of a rotate request
that is under way (a coroutine of the event loop) and of nobody else; its
bound on faults says that the KMS comes back in the end. `runs` assumes for the
breaker that time passes (`Tick`), nothing of its callers; for the SLA engine that
minutes end and that clients go on calling and their handlers run.
Nothing is assumed of operators: no one need lift `kill.notifications`
(`Settles` is conditional on `<>[]~paused`), retry a job, change a policy or send a request.
Crashes and faults are bounded, or for the SLA engine confined to the time of
`trouble`, so they cannot go on for ever.

## 6. The proofs

TLAPS proves the following for all values of the constants that satisfy the assumption
of the theorem's module. The assumptions (`FailoverAssumption`, `DeliveryAssumption`,
`IngestionAssumption`, `RotationAssumption`, `RunAssumption`, `GovernanceAssumption`,
`OperabilityAssumption`, `IdentityAssumption`, `AutoscalingAssumption`,
`BackupAssumption`, `BucketAssumption`, `CacheAssumption`, `AuthzAssumption`) say that
limits, rates and times are numbers, some of them positive, that `None` and the like are
distinct from the rest, and that blobs, clients, instances, jobs and drills are finitely many.
`AuthzAssumption` says what JSON bodies are: a condition is a finite tree (of any
conditions, one has no part among them), and bodies have the types of the request models.
TLC evaluates each on its run. No bound on calls, workers, jobs, regions, requests, holds, users,
instances, policies or times remains; those the models put on counters (`MaxCrashes`, ...)
are arbitrary numbers.

| Theorem | States |
|---|---|
| `FailoverProofs!TypeCorrect` | `Spec => []TypeOK` |
| `FailoverProofs!Exclusion` | `Spec => []LockedExclusion` |
| `FailoverProofs!OneTimeTokens` | `Spec => []TokenSpentOnce` |
| `FailoverProofs!FencedTransitions` | `Spec => EpochFencing` |
| `FailoverProofs!PaidTransitions` | `Spec => TransitionsPaid` |
| `FailoverProofs!WritesInOrder` | `Spec => ServedInOrder` |
| `FailoverProofs!FreezeKept` | `Spec => []FrozenUntilVerified` |
| `FailoverProofs!Implementation` | `Spec => ImplementsRegister`, that is `Register!Spec` |
| `NotificationProofs!TypeCorrect` | `Spec => []TypeOK` |
| `NotificationProofs!OneRequestAtATime` | `Spec => []SingleFlight` |
| `NotificationProofs!HistoryComplete` | `Spec => []AttemptLedger` |
| `NotificationProofs!ReceiverDedupes` | `Spec => []HandledOnce` |
| `NotificationProofs!DeadLettersAgree` | `Spec => []DeadLettered` |
| `NotificationProofs!SettledStays` | `Spec => SettledForGood` |
| `IngestionProofs!TypeCorrect` | `Spec => []TypeOK` |
| `IngestionProofs!NoDocumentForgotten` | `Spec => []ProgressBacked` |
| `IngestionProofs!IndexAgrees` | `Spec => []Searchable` |
| `IngestionProofs!NeverUnsearchable` | `Spec => ReadableThroughout` |
| `KeyRotationProofs!TypeCorrect` | `Spec => []TypeOK` |
| `KeyRotationProofs!NewestIsActive` | `Spec => []NewestActive` |
| `KeyRotationProofs!BlobsIntact` | `Spec => []Intact` |
| `KeyRotationProofs!RetiredKeysEmpty` | `Spec => []RetiredEmpty` |
| `RunProofs!TypeCorrect` | `Spec => []TypeOK` |
| `RunProofs!PermitsAreAccounted` | `Spec => []PermitsAccounted` |
| `RunProofs!QuotaIsKept` | `Spec => []QuotaKept` |
| `RunProofs!OvershootIsBounded` | `Spec => []OvershootBounded` |
| `GovernanceProofs!TypeCorrect` | `Spec => []TypeOK` |
| `GovernanceProofs!DsarRecordsTell` | `Spec => []DsarTruthful` |
| `GovernanceProofs!HoldsProtect` | `Spec => HeldSinceArrival` |
| `OperationsProofs!TypeCorrect` | `Spec => []TypeOK` |
| `OperationsProofs!CyclesAreBounded` | `Spec => []CyclesBounded` |
| `OperationsProofs!IncidentsAreExplained` | `Spec => []OnePerClass` |
| `OperationsProofs!RetriesAreHarmless` | `Spec => []RetriesHarmless` |
| `OperationsProofs!AnswersStay` | `Spec => []AnswersAgree` |
| `OperationsProofs!ScalingTypeCorrect` | `AutoscalingSpec => []AutoscalingTypeOK` |
| `OperationsProofs!AppliesAreSpaced` | `AutoscalingSpec => []SpacedApplies` |
| `OperationsProofs!BoundsAreKept` | `AutoscalingSpec => []BoundsKept` |
| `OperationsProofs!BackupTypeCorrect` | `BackupSpec => []BackupTypeOK` |
| `OperationsProofs!RowsAreTrue` | `BackupSpec => []RowsTellFiles` |
| `OperationsProofs!ReadyMeansDrilled` | `BackupSpec => []ReadyIsEarned` |
| `AccessProofs!IdentityTypeCorrect` | `Spec => []TypeOK` |
| `AccessProofs!RolesAreTheGroups` | `Spec => []RolesFollowGroups` |
| `AccessProofs!DisabledStaysDisabled` | `Spec => StaysDisabled` |
| `AccessProofs!BucketTypeCorrect` | `BucketSpec => []BucketTypeOK` |
| `AccessProofs!RateIsKept` | `BucketSpec => []RateKept` |
| `AccessProofs!CacheTypeCorrect` | `CacheSpec => []CacheTypeOK` |
| `AccessProofs!StalenessIsBounded` | `CacheSpec => []StaleBounded` |
| `AccessProofs!AuthzTypeCorrect` | `AuthzSpec => []AuthzTypeOK` |
| `AccessProofs!WildcardsAreGuarded` | `AuthzSpec => []WildcardsGuarded` |
| `AccessProofs!DecisionsFollowMeaning` | `AuthzSpec => []DecisionsAgree` |
| `AccessProofs!ListingsAgree` | `Authorized(caller, d, action, x) <=> d \in Filtered(caller, action, x)` |

`Spec` is that of the module the file is about: `RunPipeline`, `Governance`,
`Operability` in `OperationsProofs`, `Identity` in `AccessProofs`. `ListingsAgree`
holds in any state; of the others hardly one is inductive. Each specification has an inductive
invariant (`IInv`, or `ScalingInv`, `BackupInv`, `IdentityInv`, `BucketInv`, `CacheInv`,
`AuthzInv`, `RowsInv`), and lemmas show that each action preserves each part of it. What is
proved of the operators and helpers on the way is stated as lemmas
(`UsedFinite`, `StepPays`, `CeilingLeast`, `LatestIs`, `Recursion`, ...).

* **Failover.** `LeaseInv`: with Redis reliable a running call is leased and the
  key holds its id. Exclusion follows. `TokenInv`: a call between reading
  the row and committing its token holds `rowLock`, a token about to be spent is
  not used yet, and a token was used once exactly if it is marked used. Its
  weight is in `SelectToken`: the looked-up token cannot be used by someone
  else, since nobody else can be at that point. `CoherentInv`: with Redis
  reliable the copy of a call that has yet to move the primary agrees with the
  row in what it will write, so `Promote` and `Rollback` raise the row's
  epoch, not that of an old copy, and outside the cooldown.
* **What failover promises.** `PaidInv` counts: the row's epoch, and that of a copy
  whose call has yet to spend its token, is at most one more than the used tokens;
  once the call has spent it, at most their number, so that it may move the primary.
  `ServedInv` bounds the last admitted write by the row. `StepShape` sorts the steps
  of the control plane by what they do to the row (move it, pay, admit a write,
  leave it alone), once for the refinement and for the order of writes: `Init`
  maps to `Init`, each shape to a step of `EpochRegister` or a stutter.
  `PurseInv` needs no Redis: from the commit of its token to its move a call has a
  used token of its purpose, which is in no event yet and no other such call's; hence
  `PaidTransitions`.
  `FrozenInv` follows the automatic freeze through the commits of its promotion.
* **Notifications.** `FlightInv` ties each open attempt to its number:
  `AttemptLedger`, a loaded count never ahead of the row's (`CountInv`), and
  `SingleFlight`. They need each other: two open attempts would have to carry
  different numbers, one of them recorded or beyond the count. `SeenInv`: what was
  answered with success was seen. `OwnedInv` says of jobs outside `raced` that a
  worker past its claim is the only one and its job is `delivering`; dead
  letters and settled jobs follow.
* **Ingestion.** `LinkInv` ties workers to jobs and jobs to handlers; `BackedInv`
  is `ProgressBacked` with what a settled row lacks; `ReadInv` bounds what an
  attempt may have read; `UndisturbedInv` says that as long as requests did not
  race, at most one is active, the row names it or it is about to, and its
  attempt works on the stored text and has deleted all chunks there are.
* **Key rotation.** `KeysInv`: versions have no gap, and the key a handler, a row
  or a store names exists; a handler's old key is older than its new one, so what
  it retires is never the newest. `BatchInv`: a runner touches stored blobs only,
  hence never a file between its write and its row's insert, and stages nothing
  between batches. `AloneInv`: unless `crossed`, at most one handler is between
  start and end, its new key is not retired, the files it has staged hold its own
  ciphertext, and when it comes to `Finish` only late blobs are under its old key.
  The first part is what makes the others inductive: any other runner could move
  a blob back under the old key, or write the file.

* **Runs.** `RequestInv` ties the permit a request holds to its phase. `LockInv`: of
  those between their two counters each is alone on its day, and the day's count it read
  is still there; so no increment is lost, although the month's row is read later.
  `PermitsAccounted` partitions the permits into free, held and leaked ones; no two requests hold the
  same (`LeasesDiffer`), so those past the guardrail are no more than the permits,
  which bounds the overshoot. `TrialInv`: what a caller of the breaker loaded had a
  trial left when it takes one, so whatever it saves over is of its type.
* **Governance.** `CoverInv`: a retention run or prune past its look-up has seen every hold in
  force since it arrived; a request or deletion past its check has none such that it
  considers. What is removed is no target of those, hence `HeldSinceArrival`, which speaks
  of steps. `TruthInv` with `RequestInv`: a request not over has erased nothing, and
  only the commit that erases its targets makes it completed.
* **Operability.** `LockInv` counts: cycles under way are at most the expiries, and one more if the
  lock is held. A release that deletes another's lock frees it while that one runs,
  but the releasing cycle's own lock had expired first, and that expiry is counted.
  `FoundInv`: a call about to open an incident has found every earlier one
  resolved, opened beside it, or reopened since; with two cycles at it, the lock has
  expired (`TwoCycles`). `ActionInv`, `KeyInv`, `AloneInv`: one call at a time is
  between a row's insert and its commit, and an effect elsewhere has a row, or is `undone`.
* **Autoscaling.** `ActionsInv` says of every action that it was `Spaced` from the changes it had
  seen, `RequestInv` the same of a request not recorded: only the *latest* action
  was looked at, so that a hold after a change, which is what `SpacedApplies` excepts, has
  to be carried along.
* **Backups.** `JobInv`: files of a finished job are missing only past its retention, and only
  while a prune has it marked or in hand, or had; `PruneInv` has what a prune
  marked. `DrillInv`: what a finished job lacks never comes back, so a drill whose backup
  was not whole at its start has a missing file still to check, or has failed. Completion
  times are bounded, so that a latest backup exists (`LatestIs`).
* **Identity.** `LoadInv` and `ToDoInv`: a user in `alone` is as the call loaded it, and those
  whose membership it will change are in its list. `RoleInv`: once recomputed, such a
  user's role is the highest of the memberships the call will leave (`View`), with
  its own uncommitted ones; the rest is that commits of two calls over one user
  make one of them not `alone`.
* **Rate limiting.** `BucketInv` equates the level read from a hash with the ideal bucket; a hash that
  expired had been idle for a time in which any bucket fills (`TtlFills`). The
  answer's `Retry-After` is the least time that suffices (`RetryExact`), from what rounding
  up a quotient gives (`CeilingLeast`).
* **Caches.** `CacheInv`: what is cached was true at most as long ago as its lifetime has run, plus,
  for principals, what the lookup took. The plan that a lookup read may be older
  than the override it reads next: `LookupInv` claims nothing of it while an override decides.
* **Authorization.** `AuthzInv`: a patch of the scope under way was checked against what it read, so only one
  committed over another scope can make both columns a star. `DecisionsAgree` needs what `Evaluate` computes for
  every condition. Its defining equation is not for free: a recursive function
  is what satisfies it, if anything does. `Recursion` shows that something does, as the
  union of partial solutions on sets of conditions closed under parts, from
  `AuthzAssumption`; `Structural` is induction over conditions, stated for a set
  instead of a predicate. By them evaluation answers `"true"` only of
  contexts in the meaning, `"false"` only outside, and `"invalid"` only with a malformed
  part (`EvaluationIsFaithful`), although `all` and `any` stop early. `DecideIsSound` and
  `DecideIsComplete` carry that over to any number of ordered policies, `RowsInv` to
  every reachable state.

Every invariant and action property of the passing runs is a theorem. Type correctness of the
first four components and of `Operability`, `LockedExclusion`, `EpochFencing`, `ServedInOrder`,
`AttemptLedger` and `NewestActive`, and the types of the parts of
`services`, are proved and therefore in no run's list.

Only model-checked: liveness (`Settles` of both pipelines, `RotationEnds`, `BreakerRecovers`,
`Recovers`), which rests on fairness and `ENABLED` and is out of the prover's reach, and the three refuted
claims, which are false. `SlaEngine` has liveness alone, hence no theorem. Depth of a
condition (`Depth`, `Structured`, `Accepted`) decides what may be stored, and no theorem
needs it: decisions are right for any condition.

## 7. What is not modelled

Of the modelled components:

* *Failover*: creation of the cluster row on first use (`failover.py:212`: two first
  uses at a time, one of which fails); reading readiness, lag and the peers' signals (any
  answer is possible); the Redis cache of the row that only status routes read;
  event rows beyond their status; metadata other than `previous_primary`. A write counts as
  admitted at the instant the gate reads the row. The two commits of a failed
  verification write the same columns and are one step.
* *Notifications*: routing of incidents to destinations, signatures, headers and
  payloads, the length of a backoff, dedupe of jobs at creation (jobs
  without an incident have a null in their unique key and are never duplicates),
  pruning of history, destination administration.
* *Ingestion*: the inline execution mode (`queue.py:168`, which takes two permits of one
  bulkhead); the idempotency replay in front of a handler; extraction, chunking and
  embedding (a text gives its chunks, an empty one gives none); lock waits between
  two attempts, over-approximated by letting them commit in either order; more
  than one document, since they share nothing but the worker pool.
* *Key rotation*: a tenant's first key; what wrapping, nonces and checksums
  compute (an envelope fits a file or does not, which is what the authenticated
  decryption tells); `crypto_fail_mode = open`; a second store of one blob's name;
  the content of blobs in rows, which changes with its envelope in one commit.
  Rows that failed stay in the runner's session as it loaded them; that can
  matter only once `crossed`, and a row is taken as the database has it.
* *Runs*: prompts, answers, events, checkpoints and audio; `retry_async` (a retried call is
  a call); the write-through canary; the ingest bulkhead; forecasts and the
  pricing of a run. `BreakerRecovers` is conditional: a caller cut between `HSET` and
  `EXPIRE` on a key that has just expired leaves a hash without TTL, which can
  refuse for ever.
* *SLA*: incidents (check, then insert: two evaluations can open two; no decision reads
  them), the five-minute rows, a window other than a minute (its rows are then never read,
  and the status stays "warning"), saturation, which nothing measures.
* *Autoscaling*: changes of `cooldown_seconds`; requests and patches at a time;
  replicas and signals are whatever the caller says. The order of the bounds is
  lost by two overlapping patches (`crossed`), until the next patch.
* *Governance*: the policy engine beyond allow and reject, exports, what anonymising
  leaves (chunk texts; files stay on disk after retention and DSAR), audit rows and
  corpora as pieces. Which holds an operation looks for at all is in `Considers`,
  taken from the code and narrower than the documents: a property
  that took the documents' word would fail at once, without any race. `rmtree` ignores
  its errors, a failed retention run keeps what it committed, one that dies has removed
  files whose rows still say `succeeded` (no property speaks of these rows here), a DSAR request that
  dies stays pending or running.
* *Operability*: the metrics rules are computed from (any alert may fire); timeline
  texts; notification routes. A flag action is recorded completed though Redis
  refused (its helper swallows the error), which the model has as a
  completed action that was not applied; an acknowledgement after a resolution reopens an
  incident; an expired record blocks the storing of a new reply until it is pruned.
* *Identity*: creation of groups and changes of `external_subject`; OIDC state and nonce
  (read, then deleted, so usable twice); SSO sessions, which nothing revokes;
  `ScimIdentity.active`, which no administrator's call changes. A user who loses its
  last bound group keeps its role (`RolesFollowGroups` speaks of users in bound groups).
* *Rate limiting*: clocks that differ between instances, loss of Redis or of its data.
* *Caches*: `Latency`, the time from a lookup's first read to its store, is an assumption on
  the deployment. A key's `expires_at` is one of the changes the cache does
  not see. A stale entitlement may be stored right after an invalidation, and only
  the instance that served a change drops its entry.
* *Authorization*: the comparison operators (a comparison holds in a set of contexts);
  decisions about corpora, traces, `authz_abac_enabled` off. Granting a permission
  that has expired returns the expired row.
* *Backups*: the restore into a database (an operator's script), encryption of manifests,
  checksums beyond a file being there. A torn manifest stops every later prune,
  artifacts of failed jobs are never pruned, a drill that dies stays the running one,
  and readiness takes anybody's last drill: the properties say so or are
  silent on it.
* Audit events, metrics and costs elsewhere: nothing modelled reads them.

Not modelled at all: rollout percentages (a hash of tenant and feature, no state); the
platform keyring (`services/security/keyring.py`: two rotations at a time leave two
active keys against `scripts/rotate_platform_key.py:22`, but nothing in the program
reads these keys back); compliance, audit and telemetry, which only report; the
table definitions, whose constraints are part of the modules that rely on them; the
generated SDK and the frontend, which are clients. These last make up most of the
repository's lines.

## 8. Plan

What can be modelled with a decision behind it is modelled, and what can be proved of the
properties is proved. What would add to that:

1. Abstract specifications beside `EpochRegister`: a delivery that is attempted, then settled,
   for `NotificationDelivery`; a permit pool for `RunPipeline`. The invariants above
   have the content of the step lemmas such refinements need.
2. `SlaEngine`: that rows are in the order of their minutes, one a minute, and that
   without trouble and shedding the bad ones are followed by good ones only: the safety
   part of `Recovers`. `Upserted` filters sequences, for which the library has no theorems.
3. Creation of API keys under their limits, SSO sessions, and ingestion's inline mode,
   listed in section 7.

## 9. How to run

    tlc -workers 2 -config MCFailover.cfg MCFailover
    tlc -workers 2 -config MCSlaShedding.cfg MCRunPipeline

    tlapm AccessProofs.tla

Each row of section 3 is a `.cfg` of its own. `ingest`, `rotation`, `identity` and
`services` take three to four minutes, the other passing runs one to two and a half,
those that refute a property seconds. `OperationsProofs` takes three to four minutes to
prove, the others less. `PROJECT.json` lists runs, mutants, the
map from definitions to source lines, findings and hazards.
