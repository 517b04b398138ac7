------------------------- MODULE NotificationProofs -------------------------
(***************************************************************************)
(* Proofs about NotificationDelivery, for any number of jobs and workers.  *)
(***************************************************************************)
EXTENDS NotificationDelivery, TLAPS

\* Workers that have claimed job j and not let go of it.
Holds(w, j) ==
  worker[w].phase \in {"claimed", "loaded", "posting", "answered"} /\ worker[w].job = j

\* A worker that is not idle has a job.
JobInv == \A w \in Workers : worker[w].phase # "idle" => worker[w].job \in Jobs

\* What a worker loaded of attempt_count is at most out of date, and is the truth
\* while its attempt is open.
CountInv ==
  \A w \in Workers, j \in Jobs :
    /\ Holds(w, j) /\ worker[w].phase # "claimed" => worker[w].count <= count[j]
    /\ Open(w, j) => worker[w].count = count[j]

\* The receiver's side.
SeenInv ==
  /\ \A j \in Jobs : /\ processed[j] <= 1
                     /\ j \notin seen => processed[j] = 0
                     /\ status[j] = "delivered" => j \in seen \cup noop
  /\ \A w \in Workers : worker[w].phase = "answered" /\ worker[w].answer = "ok"
       => worker[w].job \in seen \cup noop

\* What holds of a job that no retry-now request wrote over: whoever holds it is
\* alone, and its status says whether it may be attempted again.
Owned(j) ==
  /\ \A w \in Workers : Holds(w, j) =>
       /\ status[j] = "delivering"
       /\ worker[w].phase # "claimed" => worker[w].mem = "delivering"
  /\ \A v, w \in Workers : Holds(v, j) /\ Holds(w, j) => v = w
  /\ j \in dead <=> status[j] = "dlq"
  /\ count[j] <= MaxAttempts
  /\ status[j] \notin Settled => count[j] < MaxAttempts

OwnedInv ==
  /\ \A j \in Jobs : status[j] = "dlq" => j \in dead
  /\ \A j \in Jobs \ raced : Owned(j)

FlightInv == AttemptLedger /\ CountInv /\ SingleFlight

LEMMA IdleType == Idle \in WorkerState
  BY DEF Idle, WorkerState, Status

\* A worker that moves on keeps its type.
LEMMA StepType ==
  ASSUME NEW s \in WorkerState
  PROVE  /\ [s EXCEPT !.phase = "claimed"] \in WorkerState
         /\ [s EXCEPT !.phase = "posting"] \in WorkerState
         /\ \A n \in Nat, m \in Status :
              [s EXCEPT !.phase = "loaded", !.count = n, !.mem = m] \in WorkerState
         /\ \A a \in {"ok", "4xx", "failed"} :
              [s EXCEPT !.phase = "answered", !.answer = a] \in WorkerState
  BY DEF WorkerState

LEMMA ReceiveType ==
  ASSUME NEW j \in Jobs
  PROVE  [Idle EXCEPT !.phase = "claim", !.job = j] \in WorkerState
  BY DEF Idle, WorkerState, Status

LEMMA WrittenType ==
  ASSUME TypeOK, NEW w \in Workers, NEW new \in Status
  PROVE  Written(w, new) \in [Jobs -> Status]
  BY DEF TypeOK, Written

\* The destination of a job is the one it was created with.
LEMMA NoopFixed == [Next]_vars => noop' = noop
<1> SUFFICES ASSUME [Next]_vars PROVE noop' = noop
  OBVIOUS
<1>1. ASSUME NEW w \in Workers, Work(w) PROVE noop' = noop
  BY <1>1 DEF Work, Claim, ClaimNothing, Refresh, ExpireJob, BeginAttempt, Exchange,
              DeliverNowhere, Refuse, Accept, ReceiverDies, RecordSuccess, ScheduleRetry, GiveUp
<1> QED
  BY <1>1 DEF Next, CreateJob, EnqueueDue, Receive, Crash, BackoffElapses, GrowOld,
              TogglePause, RetryNow, CommitRetry, vars

LEMMA NextJob == TypeOK /\ JobInv /\ [Next]_vars => JobInv'
<1> SUFFICES ASSUME TypeOK, JobInv, [Next]_vars PROVE JobInv'
  OBVIOUS
<1> USE DEF TypeOK, JobInv
<1>1. CASE UNCHANGED worker
  BY <1>1
<1>2. ASSUME NEW w \in Workers, Stop(w) PROVE JobInv'
  BY <1>2 DEF Stop, Idle
<1>3. ASSUME NEW w \in Workers, NEW j \in Jobs, Receive(w, j) PROVE JobInv'
  BY <1>3 DEF Receive, Idle
<1>4. ASSUME NEW w \in Workers, worker[w].phase # "idle",
             worker'[w].job = worker[w].job,
             \A v \in Workers \ {w} : worker'[v] = worker[v]
      PROVE  JobInv'
  BY <1>4
<1>5. ASSUME NEW w \in Workers, Work(w) PROVE JobInv'
  <2>0. worker[w] \in WorkerState
    OBVIOUS
  <2>1. CASE Claim(w) \/ Refresh(w)
    BY <1>4, <2>0, <2>1 DEF Claim, Refresh, WorkerState
  <2>2. CASE BeginAttempt(w)
    BY <1>2, <1>4, <2>0, <2>2 DEF BeginAttempt, WorkerState
  <2>3. CASE Exchange(w)
    <3>1. PICK a \in {"ok", "4xx", "failed"} : Answer(w, a)
      BY <2>3 DEF Exchange, DeliverNowhere, Refuse, Accept, ReceiverDies
    <3>2. QED
      BY <1>4, <2>0, <3>1 DEF Answer, WorkerState
  <2>4. QED
    BY <1>2, <1>5, <2>1, <2>2, <2>3
       DEF Work, ClaimNothing, ExpireJob, RecordSuccess, ScheduleRetry, GiveUp
<1>6. QED
  BY <1>1, <1>2, <1>3, <1>5
     DEF Next, CreateJob, EnqueueDue, Crash, BackoffElapses, GrowOld,
         TogglePause, RetryNow, CommitRetry, vars

LEMMA NextType == TypeOK /\ JobInv /\ [Next]_vars => TypeOK'
<1> SUFFICES ASSUME TypeOK, JobInv, [Next]_vars PROVE TypeOK'
  OBVIOUS
<1> USE DEF TypeOK, Ready, Settled
<1>1. ASSUME NEW j \in Jobs, CreateJob(j) \/ EnqueueDue(j) \/ BackoffElapses(j)
      PROVE  TypeOK'
  BY <1>1 DEF CreateJob, EnqueueDue, BackoffElapses, MayEnqueue, Status
<1>2. ASSUME NEW w \in Workers, NEW j \in Jobs, Receive(w, j) PROVE TypeOK'
  BY <1>2, ReceiveType DEF Receive
<1>3. ASSUME NEW w \in Workers, Work(w) PROVE TypeOK'
  <2> DEFINE s == worker[w]
             j == s.job
  <2>0. /\ s \in WorkerState /\ s.count \in Nat
        /\ Written(w, "delivered") \in [Jobs -> Status]
        /\ Written(w, "retrying") \in [Jobs -> Status]
        /\ Written(w, "dlq") \in [Jobs -> Status]
    BY WrittenType DEF WorkerState, Status
  <2>1. ASSUME s.phase # "idle" PROVE j \in Jobs
    BY <2>1 DEF JobInv
  <2>2. CASE Claim(w)
    BY <2>0, <2>1, <2>2, StepType DEF Claim, Status
  <2>3. CASE ClaimNothing(w)
    BY <2>3, IdleType DEF ClaimNothing, Stop
  <2>4. CASE Refresh(w)
    BY <2>0, <2>1, <2>4, StepType DEF Refresh
  <2>5. CASE ExpireJob(w)
    <3>1. j \in Jobs
      BY <2>1, <2>5 DEF ExpireJob
    <3>2. worker' \in [Workers -> WorkerState]
      BY <2>5, IdleType DEF ExpireJob, Stop
    <3>3. /\ status' \in [Jobs -> Status] /\ due' \in [Jobs -> BOOLEAN]
          /\ dead' \subseteq Jobs
      <4>1. \/ UNCHANGED <<status, due, dead>>
            \/ /\ status' = Written(w, "dlq") /\ dead' = dead \cup {j}
               /\ due' = [due EXCEPT ![j] = TRUE]
        BY <2>5 DEF ExpireJob, BuryJob
      <4>2. QED
        BY <2>0, <3>1, <4>1
    <3>4. QED
      BY <2>5, <3>2, <3>3 DEF ExpireJob
  <2>6. CASE BeginAttempt(w)
    BY <2>0, <2>6, StepType, IdleType DEF BeginAttempt, Stop
  <2>7. ASSUME NEW a \in {"failed", "4xx"}, Refuse(w, a) PROVE TypeOK'
    BY <2>0, <2>7, StepType DEF Refuse, Answer
  <2>8. ASSUME NEW a \in {"ok", "failed"}, Accept(w, a) PROVE TypeOK'
    <3>1. worker' \in [Workers -> WorkerState]
      BY <2>0, <2>8, StepType DEF Accept, Answer
    <3>2. j \in Jobs
      BY <2>1, <2>8 DEF Accept, Answer
    <3>3. processed' \in [Jobs -> Nat] /\ seen' \subseteq Jobs
      BY <2>8, <3>2 DEF Accept
    <3>4. QED
      BY <2>8, <3>1, <3>3 DEF Accept
  <2>9. CASE ReceiverDies(w) \/ DeliverNowhere(w)
    BY <2>0, <2>1, <2>9, StepType DEF ReceiverDies, DeliverNowhere, Answer
  <2>10. ASSUME Recorded(j, s.count + 1), s.phase # "idle"
         PROVE  /\ count' \in [Jobs -> Nat]
                /\ attempts' \in [Jobs -> SUBSET Nat]
    BY <2>0, <2>1, <2>10 DEF Recorded
  <2>11. CASE RecordSuccess(w)
    BY <2>0, <2>10, <2>11, IdleType DEF RecordSuccess, Stop
  <2>12. CASE ScheduleRetry(w)
    BY <2>0, <2>10, <2>12, IdleType DEF ScheduleRetry, Stop
  <2>13. CASE GiveUp(w)
    BY <2>0, <2>1, <2>10, <2>13, IdleType DEF GiveUp, BuryJob, Stop
  <2>14. QED
    BY <1>3, <2>2, <2>3, <2>4, <2>5, <2>6, <2>7, <2>8, <2>9, <2>11, <2>12, <2>13
       DEF Work, Exchange
<1>4. ASSUME NEW w \in Workers, Crash(w) PROVE TypeOK'
  BY <1>4, IdleType DEF Crash, Stop, MayEnqueue, JobInv
<1>5. ASSUME NEW j \in Jobs, GrowOld(j) \/ RetryNow(j) PROVE TypeOK'
  BY <1>5 DEF GrowOld, RetryNow
<1>6. CASE TogglePause
  BY <1>6 DEF TogglePause
<1>7. ASSUME NEW j \in Jobs, CommitRetry(j) PROVE TypeOK'
  BY <1>7 DEF CommitRetry, MayEnqueue, Status
<1>8. CASE UNCHANGED vars
  BY <1>8 DEF vars
<1>9. QED
  BY <1>1, <1>2, <1>3, <1>4, <1>5, <1>6, <1>7, <1>8 DEF Next

-----------------------------------------------------------------------------
\* A request under way excludes every other for its job: it can only start while
\* its number is the next one, and while it lasts nothing else counts.
LEMMA NextFlight ==
  TypeOK /\ JobInv /\ FlightInv /\ [Next]_vars => FlightInv'
<1> SUFFICES ASSUME TypeOK, JobInv, FlightInv, [Next]_vars PROVE FlightInv'
  OBVIOUS
<1> USE DEF FlightInv, AttemptLedger, CountInv, SingleFlight, Holds, Open
<1>0. /\ worker \in [Workers -> WorkerState]
      /\ count \in [Jobs -> Nat]
      /\ attempts \in [Jobs -> SUBSET Nat]
  BY DEF TypeOK
<1>1. CASE UNCHANGED <<worker, count, attempts>>
  BY <1>1
\* A worker that lets go of its job, or has only just claimed it.
<1>2. ASSUME NEW w \in Workers, UNCHANGED <<count, attempts>>,
             worker'[w].phase \in {"idle", "claim", "claimed"},
             \A v \in Workers \ {w} : worker'[v] = worker[v]
      PROVE  FlightInv'
  BY <1>2
<1>3. ASSUME NEW w \in Workers, Stop(w), UNCHANGED <<count, attempts>>
      PROVE  FlightInv'
  BY <1>0, <1>2, <1>3 DEF Stop, Idle
<1>4. ASSUME NEW w \in Workers, NEW j \in Jobs, Receive(w, j)
      PROVE  FlightInv'
  BY <1>0, <1>1, <1>2, <1>4 DEF Receive, Idle
<1>5. ASSUME NEW w \in Workers, Work(w) PROVE FlightInv'
  <2>0. worker[w] \in WorkerState
    BY <1>0
  <2> DEFINE j == worker[w].job
  <2>1. CASE Claim(w)
    BY <1>0, <1>2, <2>0, <2>1 DEF Claim, WorkerState
  <2>2. CASE Refresh(w)
    <3>1. /\ j \in Jobs
          /\ worker'[w].phase = "loaded" /\ worker'[w].job = j
          /\ worker'[w].count = count[j]
          /\ \A v \in Workers \ {w} : worker'[v] = worker[v]
      BY <1>0, <2>0, <2>2 DEF Refresh, WorkerState, JobInv
    <3>2. UNCHANGED <<count, attempts>>
      BY <2>2 DEF Refresh
    <3>3. QED
      BY <1>0, <3>1, <3>2
  <2>3. CASE BeginAttempt(w)
    <3>1. CASE worker[w].count + 1 \in attempts[j]
      BY <1>3, <2>3, <3>1 DEF BeginAttempt
    <3>2. CASE worker[w].count + 1 \notin attempts[j]
      <4>1. /\ j \in Jobs
            /\ worker'[w].phase = "posting" /\ worker'[w].job = j
            /\ worker'[w].count = worker[w].count
            /\ \A v \in Workers \ {w} : worker'[v] = worker[v]
        BY <1>0, <2>0, <2>3, <3>2 DEF BeginAttempt, WorkerState, JobInv
      <4>2. worker[w].count \in Nat /\ count[j] \in Nat
        BY <1>0, <2>0, <4>1 DEF WorkerState
      <4>3. worker[w].count <= count[j]
        BY <2>3, <4>1 DEF BeginAttempt
      <4>4. worker[w].count = count[j]
        BY <3>2, <4>1, <4>2, <4>3
      <4>5. ASSUME NEW v \in Workers, Open(v, j) PROVE FALSE
        BY <2>3, <4>1, <4>4, <4>5 DEF BeginAttempt
      <4>6. UNCHANGED <<count, attempts>>
        BY <2>3 DEF BeginAttempt
      <4>7. QED
        <5>1. AttemptLedger'
          BY <4>6
        <5>2. SingleFlight'
          BY <4>1, <4>5
        <5>3. CountInv'
          BY <4>1, <4>4, <4>3, <4>6
        <5>4. QED
          BY <5>1, <5>2, <5>3
    <3>3. QED
      BY <3>1, <3>2
  <2>4. CASE Exchange(w)
    <3>1. /\ worker[w].phase = "posting" /\ worker'[w].phase = "answered"
          /\ worker'[w].job = j /\ worker'[w].count = worker[w].count
          /\ \A v \in Workers \ {w} : worker'[v] = worker[v]
      BY <1>0, <2>0, <2>4
         DEF Exchange, DeliverNowhere, Refuse, Accept, ReceiverDies, Answer, WorkerState
    <3>2. UNCHANGED <<count, attempts>>
      BY <2>4 DEF Exchange, DeliverNowhere, Refuse, Accept, ReceiverDies
    <3>3. QED
      BY <3>1, <3>2
  <2>5. ASSUME worker[w].phase = "answered", Stop(w),
               Recorded(j, worker[w].count + 1)
        PROVE  FlightInv'
    <3>1. j \in Jobs /\ worker[w].count = count[j]
      BY <2>5 DEF JobInv
    <3>2. /\ worker'[w].phase = "idle"
          /\ \A v \in Workers \ {w} : worker'[v] = worker[v]
      BY <1>0, <2>5 DEF Stop, Idle
    <3>3. /\ count[j] \in Nat /\ count'[j] = count[j] + 1
          /\ attempts'[j] = (1..count[j]) \cup {count[j] + 1}
          /\ \A i \in Jobs \ {j} : count'[i] = count[i] /\ attempts'[i] = attempts[i]
      BY <1>0, <2>5, <3>1 DEF Recorded
    <3>4. AttemptLedger'
      <4>1. \A n \in Nat : (1..n) \cup {n + 1} = 1..(n + 1)
        OBVIOUS
      <4>2. attempts'[j] = 1..count'[j]
        BY <3>3, <4>1
      <4>3. QED
        BY <3>3, <4>2
    <3>5. \A v \in Workers \ {w} : ~Open(v, j)
      BY <2>5, <3>1
    <3>6. ASSUME NEW v \in Workers, NEW i \in Jobs
          PROVE  /\ Holds(v, i)' /\ worker'[v].phase # "claimed"
                        => worker'[v].count <= count'[i]
                 /\ Open(v, i)' => worker'[v].count = count'[i]
      <4>1. CASE v = w
        BY <3>2, <4>1
      <4>2. CASE v # w /\ i # j
        BY <3>2, <3>3, <4>2
      <4>3. CASE v # w /\ i = j
        <5>1. worker[v].count \in Nat
          BY <1>0 DEF WorkerState
        <5>2. QED
          BY <3>2, <3>3, <3>5, <4>3, <5>1
      <4>4. QED
        BY <4>1, <4>2, <4>3
    <3>7. SingleFlight'
      BY <3>2
    <3>8. QED
      BY <3>4, <3>6, <3>7
  <2>6. QED
    BY <1>3, <1>5, <2>1, <2>2, <2>3, <2>4, <2>5
       DEF Work, ClaimNothing, ExpireJob, RecordSuccess, ScheduleRetry, GiveUp
<1>6. ASSUME NEW w \in Workers, Crash(w) PROVE FlightInv'
  BY <1>3, <1>6 DEF Crash
<1>7. QED
  BY <1>1, <1>4, <1>5, <1>6
     DEF Next, CreateJob, EnqueueDue, BackoffElapses, GrowOld, TogglePause,
         RetryNow, CommitRetry, vars

\* The receiver's table of seen ids decides who is a duplicate.
LEMMA NextSeen == TypeOK /\ JobInv /\ SeenInv /\ [Next]_vars => SeenInv'
<1> SUFFICES ASSUME TypeOK, JobInv, SeenInv, [Next]_vars PROVE SeenInv'
  OBVIOUS
<1> USE DEF SeenInv
<1>0. /\ worker \in [Workers -> WorkerState] /\ status \in [Jobs -> Status]
      /\ processed \in [Jobs -> Nat] /\ noop' = noop
  BY NoopFixed DEF TypeOK
<1>1. ASSUME UNCHANGED <<seen, processed>>,
             \A j \in Jobs : status'[j] = "delivered" => status[j] = "delivered",
             \A w \in Workers : worker'[w] = worker[w] \/ worker'[w].answer # "ok"
      PROVE  SeenInv'
  BY <1>0, <1>1
<1>2. ASSUME NEW w \in Workers, Stop(w), UNCHANGED <<seen, processed>>,
             \A j \in Jobs : status'[j] = "delivered" => status[j] = "delivered"
      PROVE  SeenInv'
  BY <1>0, <1>2 DEF Stop, Idle
<1>3. ASSUME NEW j \in Jobs, CreateJob(j) \/ CommitRetry(j) PROVE SeenInv'
  BY <1>0, <1>1, <1>3 DEF CreateJob, CommitRetry
<1>4. ASSUME NEW w \in Workers, NEW j \in Jobs, Receive(w, j) PROVE SeenInv'
  BY <1>0, <1>1, <1>4 DEF Receive, Idle
<1>5. ASSUME NEW w \in Workers, Work(w) PROVE SeenInv'
  <2>0. worker[w] \in WorkerState
    BY <1>0
  <2> DEFINE j == worker[w].job
  <2>1. CASE Claim(w) \/ Refresh(w) \/ BeginAttempt(w)
    <3>1. \/ Stop(w)
          \/ /\ worker'[w].phase \in {"claimed", "loaded", "posting"}
             /\ \A v \in Workers \ {w} : worker'[v] = worker[v]
      BY <1>0, <2>0, <2>1 DEF Claim, Refresh, BeginAttempt, WorkerState
    <3>2. /\ UNCHANGED <<seen, processed>>
          /\ \A i \in Jobs : status'[i] = "delivered" => status[i] = "delivered"
      BY <1>0, <2>1 DEF Claim, Refresh, BeginAttempt
    <3>3. QED
      BY <1>0, <1>2, <3>1, <3>2
  <2>2. CASE Exchange(w)
    <3>1. /\ j \in Jobs /\ UNCHANGED status
          /\ worker'[w].job = j
          /\ \A v \in Workers \ {w} : worker'[v] = worker[v]
      BY <1>0, <2>0, <2>2
         DEF Exchange, DeliverNowhere, Refuse, Accept, ReceiverDies, Answer, WorkerState, JobInv
    <3>2. \/ /\ worker'[w].answer # "ok" \/ j \in seen'
             /\ seen' = seen \cup {j}
             /\ \/ processed' = processed
                \/ j \notin seen /\ processed' = [processed EXCEPT ![j] = @ + 1]
          \/ (worker'[w].answer # "ok" \/ j \in noop) /\ UNCHANGED <<seen, processed>>
      BY <1>0, <2>0, <2>2
         DEF Exchange, DeliverNowhere, Refuse, Accept, ReceiverDies, Answer, WorkerState
    <3>3. QED
      BY <1>0, <3>1, <3>2
  <2>3. CASE RecordSuccess(w)
    <3>1. /\ j \in seen \cup noop
          /\ \A i \in Jobs : status'[i] = "delivered" => status[i] = "delivered" \/ i = j
      BY <1>0, <2>3 DEF RecordSuccess, Written
    <3>2. /\ UNCHANGED <<seen, processed>>
          /\ \A v \in Workers : worker'[v] = worker[v] \/ worker'[v].phase = "idle"
      BY <1>0, <2>3 DEF RecordSuccess, Stop, Idle
    <3>3. QED
      BY <1>0, <3>1, <3>2
  <2>4. CASE ClaimNothing(w) \/ ExpireJob(w) \/ ScheduleRetry(w) \/ GiveUp(w)
    <3>1. \A i \in Jobs : status'[i] = "delivered" => status[i] = "delivered"
      BY <1>0, <2>4
         DEF ClaimNothing, ExpireJob, ScheduleRetry, GiveUp, BuryJob, Written
    <3>2. QED
      BY <1>2, <2>4, <3>1 DEF ClaimNothing, ExpireJob, ScheduleRetry, GiveUp
  <2>5. QED
    BY <1>5, <2>1, <2>2, <2>3, <2>4 DEF Work
<1>6. ASSUME NEW w \in Workers, Crash(w) PROVE SeenInv'
  BY <1>2, <1>6 DEF Crash
<1>7. CASE UNCHANGED <<status, worker, seen, processed>>
  BY <1>0, <1>7
<1>8. QED
  BY <1>3, <1>4, <1>5, <1>6, <1>7
     DEF Next, EnqueueDue, BackoffElapses, GrowOld, TogglePause, RetryNow, vars

\* Only a retry-now request can take a job from under a worker.
LEMMA NextOwned ==
  TypeOK /\ JobInv /\ FlightInv /\ OwnedInv /\ [Next]_vars => OwnedInv'
<1> SUFFICES ASSUME TypeOK, JobInv, FlightInv, OwnedInv, [Next]_vars
             PROVE  OwnedInv'
  OBVIOUS
<1>0. /\ worker \in [Workers -> WorkerState] /\ status \in [Jobs -> Status]
      /\ count \in [Jobs -> Nat] /\ MaxAttempts \in Nat \ {0}
  BY DeliveryAssumption DEF TypeOK
<1>1. \A j \in Jobs : status[j] = "dlq" => j \in dead
  BY DEF OwnedInv
<1>2. ASSUME NEW j \in Jobs, j \notin raced PROVE Owned(j)
  BY <1>2 DEF OwnedInv
<1> USE DEF Holds, Ready, Settled
\* Steps that leave the rows alone and give no worker a job.
<1>3. ASSUME UNCHANGED <<status, count, dead, raced>>,
             \A w \in Workers :
               \/ worker'[w].phase \in {"idle", "claim"}
               \/ /\ worker[w].phase \in {"claimed", "loaded", "posting", "answered"}
                  /\ worker'[w].job = worker[w].job
                  /\ worker'[w].phase # "claimed" =>
                       \/ worker[w].phase # "claimed" /\ worker'[w].mem = worker[w].mem
                       \/ worker'[w].mem = status[worker[w].job]
      PROVE  OwnedInv'
  <2>1. ASSUME NEW j \in Jobs, j \notin raced PROVE Owned(j)'
    <3>1. Owned(j)
      BY <1>2, <2>1
    <3>2. \A w \in Workers : Holds(w, j)' => Holds(w, j)
      BY <1>3
    <3>3. ASSUME NEW w \in Workers, Holds(w, j)'
          PROVE  /\ status[j] = "delivering"
                 /\ worker'[w].phase # "claimed" => worker'[w].mem = "delivering"
      BY <1>3, <3>1, <3>2, <3>3 DEF Owned
    <3>4. QED
      BY <1>3, <3>1, <3>2, <3>3 DEF Owned
  <2>2. QED
    BY <1>1, <1>3, <2>1 DEF OwnedInv
<1>4. CASE UNCHANGED <<status, count, dead, raced, worker>>
  BY <1>1, <1>2, <1>4 DEF OwnedInv, Owned
<1>5. ASSUME NEW i \in Jobs, CreateJob(i) PROVE OwnedInv'
  <2>1. ASSUME NEW j \in Jobs, j \notin raced PROVE Owned(j)'
    BY <1>0, <1>2, <1>5, <2>1 DEF CreateJob, Owned
  <2>2. QED
    BY <1>0, <1>1, <1>5, <2>1 DEF CreateJob, OwnedInv
<1>6. ASSUME NEW w \in Workers, NEW i \in Jobs, Receive(w, i) PROVE OwnedInv'
  <2>1. CASE paused
    BY <1>4, <1>6, <2>1 DEF Receive
  <2>2. CASE ~paused
    <3>1. worker'[w].phase = "claim" /\ \A v \in Workers \ {w} : worker'[v] = worker[v]
      BY <1>0, <1>6, <2>2 DEF Receive, Idle
    <3>2. UNCHANGED <<status, count, dead, raced>>
      BY <1>6 DEF Receive
    <3>3. QED
      <4>1. ASSUME NEW j \in Jobs, j \notin raced PROVE Owned(j)'
        BY <1>2, <3>1, <3>2, <4>1 DEF Owned
      <4>2. QED
        BY <1>1, <3>2, <4>1 DEF OwnedInv
  <2>3. QED
    BY <2>1, <2>2
<1>7. ASSUME NEW w \in Workers, Stop(w), UNCHANGED <<status, count, dead, raced>>
      PROVE  OwnedInv'
  <2>1. /\ worker'[w].phase = "idle"
        /\ \A v \in Workers \ {w} : worker'[v] = worker[v]
    BY <1>0, <1>7 DEF Stop, Idle
  <2>2. ASSUME NEW j \in Jobs, j \notin raced PROVE Owned(j)'
    BY <1>2, <1>7, <2>1, <2>2 DEF Owned
  <2>3. QED
    BY <1>1, <1>7, <2>2 DEF OwnedInv
<1>8. ASSUME NEW w \in Workers, Work(w) PROVE OwnedInv'
  <2> DEFINE i == worker[w].job
  <2>0. worker[w] \in WorkerState
    BY <1>0
  <2>1. CASE Claim(w)
    <3>1. /\ i \in Jobs /\ status[i] \in Ready
          /\ worker'[w].phase = "claimed" /\ worker'[w].job = i
          /\ worker[w].phase = "claim"
          /\ \A v \in Workers \ {w} : worker'[v] = worker[v]
          /\ status' = [status EXCEPT ![i] = "delivering"]
          /\ UNCHANGED <<count, dead, raced>>
      BY <1>0, <2>0, <2>1 DEF Claim, WorkerState, JobInv
    <3>2. ASSUME NEW j \in Jobs, j \notin raced PROVE Owned(j)'
      BY <1>0, <1>2, <3>1, <3>2 DEF Owned
    <3>3. QED
      BY <1>0, <1>1, <3>1, <3>2 DEF OwnedInv
  <2>2. CASE Refresh(w) \/ Exchange(w) \/ BeginAttempt(w)
    <3>1. UNCHANGED <<status, count, dead, raced>>
      BY <2>2 DEF Refresh, BeginAttempt, Exchange, DeliverNowhere, Refuse, Accept, ReceiverDies
    <3>2. CASE Stop(w)
      BY <1>7, <3>1, <3>2
    <3>3. CASE ~Stop(w)
      <4>1. /\ worker[w].phase \in {"claimed", "loaded", "posting"}
            /\ worker'[w].job = i
            /\ worker'[w].phase \in {"loaded", "posting", "answered"}
            /\ \/ worker[w].phase # "claimed" /\ worker'[w].mem = worker[w].mem
               \/ worker'[w].mem = status[i]
            /\ \A v \in Workers \ {w} : worker'[v] = worker[v]
        BY <1>0, <2>0, <2>2, <3>3
           DEF Refresh, BeginAttempt, Exchange, DeliverNowhere, Refuse, Accept, ReceiverDies,
               Answer, WorkerState
      <4>2. ASSUME NEW j \in Jobs, j \notin raced PROVE Owned(j)'
        <5>1. Owned(j)
          BY <1>2, <4>2
        <5>2. \A v \in Workers : Holds(v, j)' <=> Holds(v, j)
          BY <4>1
        <5>3. ASSUME NEW v \in Workers, Holds(v, j)', worker'[v].phase # "claimed"
              PROVE  worker'[v].mem = "delivering"
          BY <4>1, <5>1, <5>2, <5>3 DEF Owned
        <5>4. QED
          BY <3>1, <5>1, <5>2, <5>3 DEF Owned
      <4>3. QED
        BY <1>1, <3>1, <4>2 DEF OwnedInv
    <3>4. QED
      BY <3>2, <3>3
  \* A worker that commits an outcome held its job alone and lets go of it.
  <2>3. ASSUME NEW new \in {"delivered", "retrying", "dlq"},
               worker[w].phase \in {"loaded", "answered"},
               status' = Written(w, new), Stop(w), UNCHANGED raced,
               dead' = IF new = "dlq" THEN dead \cup {i} ELSE dead,
               \/ UNCHANGED count
               \/ /\ worker[w].phase = "answered"
                  /\ count' = [count EXCEPT ![i] = worker[w].count + 1],
               new = "retrying" => /\ worker[w].phase = "answered"
                                   /\ worker[w].count + 1 < MaxAttempts
                                   /\ count' = [count EXCEPT ![i] = worker[w].count + 1]
        PROVE  OwnedInv'
    <3>0. i \in Jobs
      BY <2>3 DEF JobInv
    <3>1. /\ worker'[w].phase = "idle"
          /\ \A v \in Workers \ {w} : worker'[v] = worker[v]
      BY <1>0, <2>3 DEF Stop, Idle
    <3>2. ASSUME NEW j \in Jobs, j \notin raced, j # i PROVE Owned(j)'
      <4>1. /\ status'[j] = status[j] /\ count'[j] = count[j]
            /\ j \in dead' <=> j \in dead
        BY <1>0, <2>3, <3>2 DEF Written
      <4>2. QED
        BY <1>2, <3>1, <3>2, <4>1 DEF Owned
    <3>3. ASSUME NEW j \in Jobs, j \notin raced, j = i PROVE Owned(j)'
      <4>1. /\ Owned(j) /\ Holds(w, j)
        BY <1>2, <2>3, <3>0, <3>3
      <4>2. status[j] = "delivering" /\ worker[w].mem = "delivering"
        BY <2>3, <4>1 DEF Owned
      <4>3. status'[j] = new
        BY <1>0, <2>3, <3>3, <4>2 DEF Written
      <4>4. j \notin dead /\ count[j] < MaxAttempts /\ count[j] \in Nat
        BY <1>0, <3>0, <4>1, <4>2 DEF Owned
      <4>5. worker[w].phase = "answered" => worker[w].count = count[j]
        BY <3>3 DEF FlightInv, CountInv, Open
      <4>6. count'[j] <= MaxAttempts /\ (new = "retrying" => count'[j] < MaxAttempts)
        BY <1>0, <2>3, <3>3, <4>4, <4>5
      <4>7. \A v \in Workers : ~Holds(v, j)'
        BY <3>1, <4>1 DEF Owned
      <4>8. j \in dead' <=> status'[j] = "dlq"
        BY <2>3, <3>3, <4>3, <4>4
      <4>9. QED
        BY <4>3, <4>6, <4>7, <4>8 DEF Owned
    <3>4. \A j \in Jobs : status'[j] = "dlq" => j \in dead'
      BY <1>0, <1>1, <2>3 DEF Written
    <3>5. QED
      BY <2>3, <3>2, <3>3, <3>4 DEF OwnedInv
  <2>4. CASE RecordSuccess(w)
    BY <2>3, <2>4 DEF RecordSuccess, Recorded
  <2>5. CASE ScheduleRetry(w)
    BY <2>3, <2>5 DEF ScheduleRetry, Recorded
  <2>6. CASE (ExpireJob(w) \/ GiveUp(w)) /\ i \in dead
    BY <1>7, <2>6 DEF ExpireJob, GiveUp, BuryJob
  <2>7. CASE (ExpireJob(w) \/ GiveUp(w)) /\ i \notin dead
    BY <2>3, <2>7 DEF ExpireJob, GiveUp, BuryJob, Recorded
  <2>8. CASE ClaimNothing(w)
    BY <1>7, <2>8 DEF ClaimNothing
  <2>9. QED
    BY <1>8, <2>1, <2>2, <2>4, <2>5, <2>6, <2>7, <2>8 DEF Work
<1>9. ASSUME NEW w \in Workers, Crash(w) PROVE OwnedInv'
  BY <1>7, <1>9 DEF Crash
<1>10. ASSUME NEW i \in Jobs, CommitRetry(i) PROVE OwnedInv'
  <2>1. /\ retry[i] \in Ready /\ UNCHANGED <<worker, count, dead>>
        /\ \A j \in Jobs \ {i} : status'[j] = status[j]
        /\ status'[i] = status[i] \/ (status'[i] = "queued" /\ retry[i] = "retrying")
        /\ raced' = IF status'[i] = status[i] \/ status[i] = retry[i] THEN raced
                    ELSE raced \cup {i}
    BY <1>0, <1>10 DEF CommitRetry, TypeOK
  <2>2. ASSUME NEW j \in Jobs, j \notin raced' PROVE Owned(j)'
    <3>1. Owned(j)
      BY <1>2, <2>1, <2>2
    <3>2. CASE status'[j] = status[j]
      BY <2>1, <3>1, <3>2 DEF Owned
    <3>3. CASE status'[j] # status[j]
      <4>1. status'[j] = "queued" /\ status[j] = "retrying"
        BY <2>1, <2>2, <3>3
      <4>2. QED
        BY <2>1, <3>1, <4>1 DEF Owned
    <3>4. QED
      BY <3>2, <3>3
  <2>3. \A j \in Jobs : status'[j] = "dlq" => j \in dead'
    BY <1>1, <2>1
  <2>4. QED
    BY <2>2, <2>3 DEF OwnedInv
<1>11. QED
  BY <1>4, <1>5, <1>6, <1>8, <1>9, <1>10
     DEF Next, EnqueueDue, BackoffElapses, GrowOld, TogglePause, RetryNow, vars

-----------------------------------------------------------------------------
IInv == TypeOK /\ JobInv /\ FlightInv /\ SeenInv /\ OwnedInv

LEMMA InitInv == Init => IInv
<1> SUFFICES ASSUME Init PROVE IInv
  OBVIOUS
<1>1. TypeOK
  BY IdleType DEF Init, TypeOK, Status, Ready
<1>2. JobInv /\ SeenInv
  BY DEF Init, JobInv, SeenInv, Idle
<1>3. FlightInv
  <2>1. 1..0 = {}
    OBVIOUS
  <2>2. QED
    BY <2>1 DEF Init, FlightInv, AttemptLedger, CountInv, SingleFlight, Open,
                Holds, Idle
<1>4. OwnedInv
  BY DeliveryAssumption DEF Init, OwnedInv, Owned, Holds, Idle
<1>5. QED
  BY <1>1, <1>2, <1>3, <1>4 DEF IInv

LEMMA Inductive == Spec => []IInv
<1>1. IInv /\ [Next]_vars => IInv'
  BY NextType, NextJob, NextFlight, NextSeen, NextOwned DEF IInv
<1>2. QED
  BY <1>1, InitInv, PTL DEF Spec

\* Every reachable state of the notification tables and workers is well typed.
THEOREM TypeCorrect == Spec => []TypeOK
  BY Inductive, PTL DEF IInv

\* No two requests for one job are ever under way, for any number of workers,
\* lost or repeated messages, crashes, and retry-now requests at any moment.
THEOREM OneRequestAtATime == Spec => []SingleFlight
<1>1. IInv => SingleFlight
  BY DEF IInv, FlightInv
<1>2. QED
  BY <1>1, Inductive, PTL

\* The attempt history of a job has no gap and agrees with its counter.
THEOREM HistoryComplete == Spec => []AttemptLedger
<1>1. IInv => AttemptLedger
  BY DEF IInv, FlightInv
<1>2. QED
  BY <1>1, Inductive, PTL

\* The receiver handles a job once, and what is called delivered it has seen.
THEOREM ReceiverDedupes == Spec => []HandledOnce
<1>1. IInv => HandledOnce
  BY DEF IInv, SeenInv, HandledOnce
<1>2. QED
  BY <1>1, Inductive, PTL

\* The dead-letter table and the status column agree, and the attempt limit
\* holds, for every job that no retry-now request wrote over.
THEOREM DeadLettersAgree == Spec => []DeadLettered
<1>1. IInv => DeadLettered
  BY DEF IInv, OwnedInv, Owned, DeadLettered
<1>2. QED
  BY <1>1, Inductive, PTL

\* The step relation that SettledForGood states.
StaysSettled ==
  \A j \in Jobs : status[j] \in Settled /\ j \notin raced'
    => status'[j] = status[j] /\ attempts'[j] = attempts[j]

LEMMA StepSettled == IInv /\ [Next]_vars => StaysSettled
<1> SUFFICES ASSUME IInv, [Next]_vars, NEW j \in Jobs, status[j] \in Settled,
                    j \notin raced'
             PROVE  status'[j] = status[j] /\ attempts'[j] = attempts[j]
  BY DEF StaysSettled
<1>0. /\ status \in [Jobs -> Status] /\ attempts \in [Jobs -> SUBSET Nat]
      /\ retry \in [Jobs -> Ready \cup {None}]
  BY DEF IInv, TypeOK
<1>1. ASSUME j \notin raced PROVE \A w \in Workers : ~Holds(w, j)
  BY <1>1 DEF IInv, OwnedInv, Owned, Settled
<1> USE DEF Ready, Settled
<1>2. CASE UNCHANGED <<status, attempts>>
  BY <1>2
<1>3. ASSUME NEW i \in Jobs, CreateJob(i)
      PROVE  status'[j] = status[j] /\ attempts'[j] = attempts[j]
  BY <1>0, <1>3 DEF CreateJob
<1>4. ASSUME NEW w \in Workers, Work(w)
      PROVE  status'[j] = status[j] /\ attempts'[j] = attempts[j]
  <2>1. j \notin raced
    BY <1>4
       DEF Work, Claim, ClaimNothing, Refresh, ExpireJob, BeginAttempt,
           Exchange, DeliverNowhere, Refuse, Accept, ReceiverDies, RecordSuccess,
           ScheduleRetry, GiveUp
  <2>2. CASE Claim(w)
    BY <1>0, <2>2 DEF Claim
  <2>3. CASE ExpireJob(w) \/ RecordSuccess(w) \/ ScheduleRetry(w) \/ GiveUp(w)
    <3>1. worker[w].job # j
      BY <1>1, <2>1, <2>3
         DEF Holds, ExpireJob, RecordSuccess, ScheduleRetry, GiveUp
    <3>2. QED
      BY <1>0, <2>3, <3>1
         DEF ExpireJob, RecordSuccess, ScheduleRetry, GiveUp, BuryJob, Written,
             Recorded
  <2>4. QED
    BY <1>2, <1>4, <2>2, <2>3
       DEF Work, ClaimNothing, Refresh, BeginAttempt, Exchange, DeliverNowhere, Refuse, Accept,
           ReceiverDies
<1>5. ASSUME NEW i \in Jobs, CommitRetry(i)
      PROVE  status'[j] = status[j] /\ attempts'[j] = attempts[j]
  <2>1. CASE i # j
    BY <1>0, <1>5, <2>1 DEF CommitRetry
  <2>2. CASE i = j
    BY <1>0, <1>5, <2>2 DEF CommitRetry
  <2>3. QED
    BY <2>1, <2>2
<1>6. QED
  BY <1>2, <1>3, <1>4, <1>5
     DEF Next, EnqueueDue, Receive, Crash, BackoffElapses, GrowOld, TogglePause,
         RetryNow, vars

\* A settled job is settled for good, for every job that no retry-now request
\* wrote over.
THEOREM SettledStays == Spec => SettledForGood
<1>1. IInv /\ [Next]_vars => [StaysSettled]_vars
  BY StepSettled
<1>2. [][StaysSettled]_vars <=> SettledForGood
  BY PTL DEF StaysSettled, SettledForGood
<1>3. QED
  BY <1>1, <1>2, Inductive, PTL DEF Spec

=============================================================================
