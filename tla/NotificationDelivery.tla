------------------------ MODULE NotificationDelivery ------------------------
(***************************************************************************)
(* Delivery of incident notifications: services/operability/               *)
(* notifications.py, its ARQ worker workers/notification_worker.py, and    *)
(* the reference receiver apps/notify_receiver.                            *)
(*                                                                         *)
(* The notification_jobs rows are the truth.  An ARQ message only tells a  *)
(* worker to look at a job; it may be lost, and the scheduler of the       *)
(* worker process sends another for every job that is due.  A worker runs  *)
(* one attempt as three transactions (claim; attempt row and outcome) with *)
(* the HTTP request in the middle of the second.                           *)
(***************************************************************************)
EXTENDS Naturals, FiniteSets

CONSTANTS
  Jobs,         \* notification_jobs ids, the X-Notification-Id of every request
  Workers,      \* tasks of the ARQ worker processes
  MaxAttempts,  \* NOTIFY_MAX_ATTEMPTS
  MaxCrashes,   \* bound on worker deaths
  None

ASSUME DeliveryAssumption ==
  /\ MaxAttempts \in Nat \ {0}
  /\ MaxCrashes \in Nat
  /\ None \notin Jobs

VARIABLES
  noop,       \* jobs whose destination starts with noop://
  status,     \* notification_jobs.status
  due,        \* next_attempt_at <= now
  old,        \* created_at is more than NOTIFY_MAX_AGE_SECONDS ago
  count,      \* notification_jobs.attempt_count
  attempts,   \* the attempt numbers in notification_attempts, committed
  dead,       \* jobs with a row in notification_dead_letters
  queue,      \* jobs with a message in the ARQ queue
  paused,     \* kill.notifications
  worker,     \* the locals of process_notification_job in each worker
  retry,      \* the status that a running retry-now request read, or None
  seen,       \* receiver_seen_notifications
  \* History variables, read by properties only (crashes bounds Crash).
  processed,  \* how often the receiver recorded a job as not a duplicate
  raced,      \* jobs whose status changed under a retry-now request
  crashes

vars == <<noop, status, due, old, count, attempts, dead, queue, paused, worker, retry,
          seen, processed, raced, crashes>>

Ready   == {"queued", "retrying"}                    \* _READY_STATUSES
Settled == {"delivered", "dlq"}
Status  == Ready \cup Settled \cup {"absent", "delivering"}

\* phase "claim": before _claim_notification_job; "claimed": after its commit;
\* "loaded": after the refresh that follows; "posting": the attempt row is flushed
\* and the request under way; "answered": the outcome is known and not committed.
\* count and mem are the job's attempt_count and status as the refresh loaded them.
WorkerState ==
  [phase : {"idle", "claim", "claimed", "loaded", "posting", "answered"},
   job : Jobs \cup {None}, count : Nat, mem : Status \cup {None},
   answer : {"none", "ok", "4xx", "failed"}]

Idle == [phase |-> "idle", job |-> None, count |-> 0, mem |-> None,
         answer |-> "none"]

-----------------------------------------------------------------------------
\* An open attempt: its row is inserted, its transaction not yet committed.  The
\* foreign key keeps FOR KEY SHARE on the job's row, which SKIP LOCKED skips.
Open(w, j) == worker[w].phase \in {"posting", "answered"} /\ worker[w].job = j

Locked(j) == \E w \in Workers : Open(w, j)

\* The status column after worker w commits its job with status new: a flush
\* leaves out a column whose in-memory value did not change.
Written(w, new) ==
  IF worker[w].mem = new THEN status
  ELSE [status EXCEPT ![worker[w].job] = new]

Stop(w) == worker' = [worker EXCEPT ![w] = Idle]

\* An enqueue is best effort: the message may not make it.
MayEnqueue(j) == queue' \in {queue, queue \cup {j}}

Init ==
  /\ noop \in SUBSET Jobs
  /\ status = [j \in Jobs |-> "absent"]
  /\ due = [j \in Jobs |-> FALSE]
  /\ old = [j \in Jobs |-> FALSE]
  /\ count = [j \in Jobs |-> 0]
  /\ attempts = [j \in Jobs |-> {}]
  /\ dead = {}
  /\ queue = {}
  /\ paused = FALSE
  /\ worker = [w \in Workers |-> Idle]
  /\ retry = [j \in Jobs |-> None]
  /\ seen = {}
  /\ processed = [j \in Jobs |-> 0]
  /\ raced = {}
  /\ crashes = 0

\* _create_notification_jobs: one job per resolved destination.  A duplicate in
\* its dedupe window violates the unique constraint and leaves nothing behind.
\* replay_dead_letter is no different: it creates a job with a dedupe key of its
\* own from the payload of a dead letter, which it leaves alone.
CreateJob(j) ==
  /\ ~paused
  /\ status[j] = "absent"
  /\ status' = [status EXCEPT ![j] = "queued"]
  /\ due' = [due EXCEPT ![j] = TRUE]
  /\ MayEnqueue(j)
  /\ UNCHANGED <<noop, old, count, attempts, dead, paused, worker, retry, seen,
                 processed, raced, crashes>>

\* (Mutant of EnqueueDue: it looks for status "queued" only.)
EnqueueDueQueued(j) ==
  /\ ~paused
  /\ status[j] = "queued"
  /\ due[j]
  /\ ~Locked(j)
  /\ j \notin queue
  /\ queue' = queue \cup {j}
  /\ UNCHANGED <<noop, status, due, old, count, attempts, dead, paused, worker, retry,
                 seen, processed, raced, crashes>>

\* enqueue_due_notification_jobs, run by the scheduler loop: a message for a job
\* that is ready, due and not locked.  (It waits until updated_at is stale; how
\* long is not modelled.)
EnqueueDue(j) ==
  /\ ~paused
  /\ status[j] \in Ready
  /\ due[j]
  /\ ~Locked(j)
  /\ j \notin queue
  /\ queue' = queue \cup {j}
  /\ UNCHANGED <<noop, status, due, old, count, attempts, dead, paused, worker, retry,
                 seen, processed, raced, crashes>>

-----------------------------------------------------------------------------
\* process_notification_job.

\* A worker takes a message and asks the kill switch first.  While it is on the
\* message is used up and the job stays as it is.
Receive(w, j) ==
  /\ worker[w].phase = "idle"
  /\ j \in queue
  /\ queue' = queue \ {j}
  /\ worker' = IF paused THEN worker
               ELSE [worker EXCEPT ![w] = [Idle EXCEPT !.phase = "claim", !.job = j]]
  /\ UNCHANGED <<noop, status, due, old, count, attempts, dead, paused, retry, seen,
                 processed, raced, crashes>>

\* (Mutant of Claim: the job is found by its id alone.)
ClaimAny(w) ==
  LET j == worker[w].job
  IN /\ worker[w].phase = "claim"
     /\ ~Locked(j)
     /\ status' = [status EXCEPT ![j] = "delivering"]
     /\ worker' = [worker EXCEPT ![w].phase = "claimed"]
     /\ UNCHANGED <<noop, due, old, count, attempts, dead, queue, paused, retry, seen,
                    processed, raced, crashes>>

\* _claim_notification_job: SELECT ... FOR UPDATE SKIP LOCKED, then commit.
Claim(w) ==
  LET j == worker[w].job
  IN /\ worker[w].phase = "claim"
     /\ status[j] \in Ready
     /\ due[j]
     /\ ~Locked(j)
     /\ status' = [status EXCEPT ![j] = "delivering"]
     /\ worker' = [worker EXCEPT ![w].phase = "claimed"]
     /\ UNCHANGED <<noop, due, old, count, attempts, dead, queue, paused, retry, seen,
                    processed, raced, crashes>>

\* session.refresh(row), a transaction of its own.
Refresh(w) ==
  LET j == worker[w].job
  IN /\ worker[w].phase = "claimed"
     /\ worker' = [worker EXCEPT ![w].phase = "loaded", ![w].count = count[j],
                                 ![w].mem = status[j]]
     /\ UNCHANGED <<noop, status, due, old, count, attempts, dead, queue, paused,
                    retry, seen, processed, raced, crashes>>

\* Not ready, not due, or locked: the message was for nothing.
ClaimNothing(w) ==
  LET j == worker[w].job
  IN /\ worker[w].phase = "claim"
     /\ status[j] \notin Ready \/ ~due[j] \/ Locked(j)
     /\ Stop(w)
     /\ UNCHANGED <<noop, status, due, old, count, attempts, dead, queue, paused,
                    retry, seen, processed, raced, crashes>>

\* The worker commits the move of its job to the dead-letter table.  A second
\* row for the job violates the unique constraint: everything rolls back, and
\* the exception ends the task.
BuryJob(w) ==
  LET j == worker[w].job
  IN IF j \in dead
       THEN UNCHANGED <<status, due, dead>>
       ELSE /\ status' = Written(w, "dlq")
            /\ due' = [due EXCEPT ![j] = TRUE]
            /\ dead' = dead \cup {j}

\* A job past its maximum age is dead-lettered instead of sent.
ExpireJob(w) ==
  /\ worker[w].phase = "loaded"
  /\ old[worker[w].job]
  /\ BuryJob(w)
  /\ Stop(w)
  /\ UNCHANGED <<noop, old, count, attempts, queue, paused, retry, seen, processed,
                 raced, crashes>>

\* (Mutants of BeginAttempt: no unique constraint on job and number; commit
\* instead of flush.)
BeginAttemptTwice(w) ==
  /\ worker[w].phase = "loaded"
  /\ ~old[worker[w].job]
  /\ worker' = [worker EXCEPT ![w].phase = "posting"]
  /\ UNCHANGED <<noop, status, due, old, count, attempts, dead, queue, paused, retry,
                 seen, processed, raced, crashes>>

BeginAttemptCommitted(w) ==
  LET j  == worker[w].job
      no == worker[w].count + 1
  IN /\ worker[w].phase = "loaded"
     /\ ~old[j]
     /\ no \notin attempts[j]
     /\ attempts' = [attempts EXCEPT ![j] = @ \cup {no}]
     /\ worker' = [worker EXCEPT ![w].phase = "posting"]
     /\ UNCHANGED <<noop, status, due, old, count, dead, queue, paused, retry, seen,
                    processed, raced, crashes>>

\* session.flush() of the attempt row.  It waits for an open attempt of the same
\* number, and fails on a committed one, which ends the task.
BeginAttempt(w) ==
  LET j  == worker[w].job
      no == worker[w].count + 1
  IN /\ worker[w].phase = "loaded"
     /\ ~old[j]
     /\ \A v \in Workers : Open(v, j) => worker[v].count + 1 # no
     /\ IF no \in attempts[j] THEN Stop(w)
        ELSE worker' = [worker EXCEPT ![w].phase = "posting"]
     /\ UNCHANGED <<noop, status, due, old, count, attempts, dead, queue, paused,
                    retry, seen, processed, raced, crashes>>

-----------------------------------------------------------------------------
\* _deliver: the request and the receiver's webhook handler.

Answer(w, a) ==
  /\ worker[w].phase = "posting"
  /\ worker' = [worker EXCEPT ![w].phase = "answered", ![w].answer = a]

\* A destination noop:// succeeds at once: there is no request and no receiver.
DeliverNowhere(w) ==
  /\ worker[w].job \in noop
  /\ Answer(w, "ok")
  /\ UNCHANGED <<noop, status, due, old, count, attempts, dead, queue, paused, retry,
                 seen, processed, raced, crashes>>

\* No connection, a 5xx, or a 4xx for bad headers or a bad signature: the
\* receiver has not come to mark_seen.
Refuse(w, a) ==
  /\ Answer(w, a)
  /\ UNCHANGED <<noop, status, due, old, count, attempts, dead, queue, paused, retry,
                 seen, processed, raced, crashes>>

\* (Mutant of Accept: mark_seen does not tell whether it inserted.)
AcceptAgain(w, a) ==
  LET j == worker[w].job
  IN /\ Answer(w, a)
     /\ seen' = seen \cup {j}
     /\ processed' = [processed EXCEPT ![j] = @ + 1]
     /\ UNCHANGED <<noop, status, due, old, count, attempts, dead, queue, paused,
                    retry, raced, crashes>>

\* mark_seen and record_receipt; the response arrives, or is lost on its way.
Accept(w, a) ==
  LET j == worker[w].job
  IN /\ Answer(w, a)
     /\ seen' = seen \cup {j}
     /\ processed' = IF j \in seen THEN processed
                     ELSE [processed EXCEPT ![j] = @ + 1]
     /\ UNCHANGED <<noop, status, due, old, count, attempts, dead, queue, paused,
                    retry, raced, crashes>>

\* The receiver dies between the two: the request fails, and when it is sent
\* again it is taken for a duplicate.
ReceiverDies(w) ==
  /\ Answer(w, "failed")
  /\ seen' = seen \cup {worker[w].job}
  /\ UNCHANGED <<noop, status, due, old, count, attempts, dead, queue, paused, retry,
                 processed, raced, crashes>>

-----------------------------------------------------------------------------
\* The commit that records the outcome of attempt no of job j.
Recorded(j, no) ==
  /\ count' = [count EXCEPT ![j] = no]
  /\ attempts' = [attempts EXCEPT ![j] = @ \cup {no}]

RecordSuccess(w) ==
  LET j == worker[w].job
  IN /\ worker[w].phase = "answered"
     /\ worker[w].answer = "ok"
     /\ Recorded(j, worker[w].count + 1)
     /\ status' = Written(w, "delivered")
     /\ due' = [due EXCEPT ![j] = TRUE]
     /\ Stop(w)
     /\ UNCHANGED <<noop, old, dead, queue, paused, retry, seen, processed, raced,
                    crashes>>

\* (Mutant of ScheduleRetry: one attempt too many.)
ScheduleRetryOnceMore(w) ==
  LET j  == worker[w].job
      no == worker[w].count + 1
  IN /\ worker[w].phase = "answered"
     /\ worker[w].answer = "failed"
     /\ no <= MaxAttempts
     /\ Recorded(j, no)
     /\ status' = Written(w, "retrying")
     /\ due' = [due EXCEPT ![j] = FALSE]
     /\ Stop(w)
     /\ UNCHANGED <<noop, old, dead, queue, paused, retry, seen, processed, raced,
                    crashes>>

\* A failed attempt that may be repeated.  The deferred ARQ message sent after
\* the commit turns up when the delay is over: see BackoffElapses.
ScheduleRetry(w) ==
  LET j  == worker[w].job
      no == worker[w].count + 1
  IN /\ worker[w].phase = "answered"
     /\ worker[w].answer = "failed"
     /\ no < MaxAttempts
     /\ Recorded(j, no)
     /\ status' = Written(w, "retrying")
     /\ due' = [due EXCEPT ![j] = FALSE]
     /\ Stop(w)
     /\ UNCHANGED <<noop, old, dead, queue, paused, retry, seen, processed, raced,
                    crashes>>

\* A failed attempt that may not.
GiveUp(w) ==
  LET j  == worker[w].job
      no == worker[w].count + 1
  IN /\ worker[w].phase = "answered"
     /\ worker[w].answer = "4xx" \/ (worker[w].answer = "failed" /\ no >= MaxAttempts)
     /\ BuryJob(w)
     /\ IF j \in dead THEN UNCHANGED <<count, attempts>> ELSE Recorded(j, no)
     /\ Stop(w)
     /\ UNCHANGED <<noop, old, queue, paused, retry, seen, processed, raced, crashes>>

\* The worker dies.  Its open transaction is rolled back; ARQ may hand its
\* message to another worker.
Crash(w) ==
  /\ crashes < MaxCrashes
  /\ worker[w].phase # "idle"
  /\ crashes' = crashes + 1
  /\ MayEnqueue(worker[w].job)
  /\ Stop(w)
  /\ UNCHANGED <<noop, status, due, old, count, attempts, dead, paused, retry, seen,
                 processed, raced>>

-----------------------------------------------------------------------------
\* Time.
BackoffElapses(j) ==
  /\ status[j] \in Ready
  /\ ~due[j]
  /\ due' = [due EXCEPT ![j] = TRUE]
  /\ MayEnqueue(j)
  /\ UNCHANGED <<noop, status, old, count, attempts, dead, paused, worker, retry, seen,
                 processed, raced, crashes>>

GrowOld(j) ==
  /\ status[j] # "absent"
  /\ ~old[j]
  /\ old' = [old EXCEPT ![j] = TRUE]
  /\ UNCHANGED <<noop, status, due, count, attempts, dead, queue, paused, worker,
                 retry, seen, processed, raced, crashes>>

\* Operators.
TogglePause ==
  /\ paused' = ~paused
  /\ UNCHANGED <<noop, status, due, old, count, attempts, dead, queue, worker, retry,
                 seen, processed, raced, crashes>>

\* retry_notification_job_now loads the row without a lock and checks it ...
RetryNow(j) ==
  /\ ~paused
  /\ retry[j] = None
  /\ status[j] \in Ready
  /\ retry' = [retry EXCEPT ![j] = status[j]]
  /\ UNCHANGED <<noop, status, due, old, count, attempts, dead, queue, paused, worker,
                 seen, processed, raced, crashes>>

\* ... and commits next_attempt_at and, if it read another one, status "queued".
CommitRetry(j) ==
  /\ retry[j] # None
  /\ status' = IF retry[j] = "queued" THEN status
               ELSE [status EXCEPT ![j] = "queued"]
  /\ due' = [due EXCEPT ![j] = TRUE]
  /\ raced' = IF status'[j] = status[j] \/ status[j] = retry[j] THEN raced
              ELSE raced \cup {j}
  /\ retry' = [retry EXCEPT ![j] = None]
  /\ MayEnqueue(j)
  /\ UNCHANGED <<noop, old, count, attempts, dead, paused, worker, seen, processed,
                 crashes>>

-----------------------------------------------------------------------------
Exchange(w) ==
  \/ DeliverNowhere(w)
  \/ /\ worker[w].job \notin noop
     /\ \/ \E a \in {"failed", "4xx"} : Refuse(w, a)
        \/ \E a \in {"ok", "failed"} : Accept(w, a)
        \/ ReceiverDies(w)

\* The steps of a worker that has taken a message.
Work(w) ==
  \/ Claim(w)
  \/ ClaimNothing(w)
  \/ Refresh(w)
  \/ ExpireJob(w)
  \/ BeginAttempt(w)
  \/ Exchange(w)
  \/ RecordSuccess(w)
  \/ ScheduleRetry(w)
  \/ GiveUp(w)

Next ==
  \/ \E j \in Jobs : CreateJob(j)
  \/ \E j \in Jobs : EnqueueDue(j)
  \/ \E w \in Workers, j \in Jobs : Receive(w, j)
  \/ \E w \in Workers : Work(w)
  \/ \E w \in Workers : Crash(w)
  \/ \E j \in Jobs : BackoffElapses(j)
  \/ \E j \in Jobs : GrowOld(j)
  \/ TogglePause
  \/ \E j \in Jobs : RetryNow(j)
  \/ \E j \in Jobs : CommitRetry(j)

Spec == Init /\ [][Next]_vars

\* Workers keep running, messages get consumed, the scheduler loop never ends
\* (it catches every exception) and reaches Redis in the end, and time passes.
\* Nothing is assumed of operators.
Fairness ==
  /\ \A w \in Workers : WF_vars(Work(w))
  /\ \A j \in Jobs : /\ WF_vars(\E w \in Workers : Receive(w, j))
                     /\ WF_vars(EnqueueDue(j))
                     /\ WF_vars(BackoffElapses(j))

FairSpec == Spec /\ Fairness

-----------------------------------------------------------------------------
TypeOK ==
  /\ noop \subseteq Jobs
  /\ status \in [Jobs -> Status]
  /\ due \in [Jobs -> BOOLEAN]
  /\ old \in [Jobs -> BOOLEAN]
  /\ count \in [Jobs -> Nat]
  /\ attempts \in [Jobs -> SUBSET Nat]
  /\ dead \subseteq Jobs
  /\ queue \subseteq Jobs
  /\ paused \in BOOLEAN
  /\ worker \in [Workers -> WorkerState]
  /\ retry \in [Jobs -> Ready \cup {None}]
  /\ seen \subseteq Jobs
  /\ processed \in [Jobs -> Nat]
  /\ raced \subseteq Jobs
  /\ crashes \in Nat

\* "Only one worker can transition a ready job into delivering at a time": no two
\* requests for a job are ever under way together, although a retry-now request
\* can make a job claimable while a worker has it.
SingleFlight ==
  \A v, w \in Workers, j \in Jobs : Open(v, j) /\ Open(w, j) => v = w

\* "Immutable attempt history": the recorded attempts of a job are numbered from
\* one to its attempt_count without a gap, whichever workers crashed or clashed.
AttemptLedger == \A j \in Jobs : attempts[j] = 1..count[j]

\* "Receivers should dedupe": however often a job is sent, the receiver handles
\* it once, and a job that has one is only called delivered when the receiver knows it.
HandledOnce ==
  \A j \in Jobs : /\ processed[j] <= 1
                  /\ status[j] = "delivered" => j \in seen \cup noop

\* A job is in status dlq exactly when it has a dead letter, and it never took
\* more than MaxAttempts attempts, unless a retry-now request wrote over a status
\* it had not read.
DeadLettered ==
  \A j \in Jobs :
    /\ status[j] = "dlq" => j \in dead
    /\ j \notin raced => (j \in dead => status[j] = "dlq") /\ count[j] <= MaxAttempts

\* Once a job is settled it stays so, and keeps its attempts, unless a retry-now
\* request wrote over a status it had not read.
SettledForGood ==
  [][\A j \in Jobs : status[j] \in Settled /\ j \notin raced'
       => status'[j] = status[j] /\ attempts'[j] = attempts[j]]_vars

\* A job that a worker took and nobody works on.
Stranded(j) ==
  /\ status[j] = "delivering"
  /\ \A w \in Workers : worker[w].phase \in {"idle", "claim"} \/ worker[w].job # j

\* "Rely on due-job requeue fallback": unless delivery is paused for ever, a
\* ready job is delivered, dead-lettered or stranded, though every message but
\* those of the scheduler may be lost.
Settles ==
  <>[]~paused =>
    \A j \in Jobs : status[j] \in Ready ~> status[j] \in Settled \/ Stranded(j)
=============================================================================
