--------------------------- MODULE IngestionProofs ---------------------------
(***************************************************************************)
(* Proofs about Ingestion, for any number of requests, workers, attempts   *)
(* and faults.                                                             *)
(***************************************************************************)
EXTENDS Ingestion, TLAPS

\* An attempt has a job of its own, which arq has marked as running, and a
\* handler that has not come to its enqueue has no job.
LinkInv ==
  /\ \A w \in Workers : worker[w].phase # "idle" =>
       worker[w].job \in Requests /\ job[worker[w].job].place = "running"
  /\ \A v, w \in Workers :
       worker[v].phase # "idle" /\ worker[w].phase # "idle"
         /\ worker[v].job = worker[w].job => v = w
  /\ \A r \in Requests :
       handler[r].phase \in {"new", "admitted", "storing", "stored", "enqueue", "unlink"}
         => job[r].place = "none"

\* What an attempt has read by the phase it is in.
ReadInv ==
  \A w \in Workers :
    /\ worker[w].phase \in {"load", "begin", "clear", "commit"} => worker[w].text # None
    /\ worker[w].phase = "begin" => worker[w].mem # None

LEMMA IdleType == Idle \in WorkerState
  BY DEF Idle, WorkerState

\* A handler that moves on keeps its type, and so does an attempt.
LEMMA PhaseType ==
  ASSUME NEW h \in HandlerState
  PROVE  \A p \in {"storing", "stored", "enqueue", "failing", "unlink", "done"} :
           [h EXCEPT !.phase = p] \in HandlerState
  BY DEF HandlerState

LEMMA StepType ==
  ASSUME NEW s \in WorkerState
  PROVE  /\ \A p \in {"clear", "mark", "ack"} : [s EXCEPT !.phase = p] \in WorkerState
         /\ \A t \in Texts : [s EXCEPT !.phase = "load", !.text = t] \in WorkerState
         /\ \A m \in Row \cup {None}, p \in {"begin", "ack"} :
              [s EXCEPT !.phase = p, !.mem = m] \in WorkerState
         /\ \A g \in SUBSET Generation :
              [s EXCEPT !.phase = "commit", !.gone = g] \in WorkerState
  BY DEF WorkerState

LEMMA TakenType ==
  ASSUME NEW r \in Requests
  PROVE  [Idle EXCEPT !.phase = "read", !.job = r] \in WorkerState
  BY DEF Idle, WorkerState

LEMMA PlaceType ==
  ASSUME TypeOK, NEW r \in Requests
  PROVE  \A p \in {"queued", "over"} :
           [job EXCEPT ![r].place = p] \in [Requests -> Message]
  BY DEF TypeOK, Message

LEMMA MadeType ==
  ASSUME TypeOK, LinkInv, ReadInv, NEW w \in Workers, worker[w].phase = "commit"
  PROVE  Made(w) \subseteq Generation
<1>1. worker[w] \in WorkerState
  BY DEF TypeOK
<1>2. worker[w].job \in Ids /\ worker[w].text \in Ids \cup {Empty}
  BY <1>1 DEF LinkInv, ReadInv, WorkerState, Ids, Texts
<1>3. QED
  BY <1>2 DEF Made, Generation

\* A step of an attempt that goes on changes the worker's own state and keeps
\* its job.
LEMMA NextMine ==
  ASSUME TypeOK, NEW w \in Workers,
         \/ ReadText(w) \/ LoadRow(w) \/ Begin(w) \/ Clear(w) \/ StoreChunks(w)
         \/ MarkFailed(w)
  PROVE  /\ worker[w].phase # "idle" /\ job' = job /\ handler' = handler
         /\ \E n \in WorkerState : worker' = [worker EXCEPT ![w] = n]
                                 /\ n.job = worker[w].job
<1>1. worker[w] \in WorkerState /\ file \in Texts \cup {None} /\ doc \in Row \cup {None}
      /\ chunks \subseteq Generation
  BY DEF TypeOK
<1>2. CASE ReadText(w) /\ file # None
  <2>1. worker' = [worker EXCEPT ![w] = [worker[w] EXCEPT !.phase = "load", !.text = file]]
    BY <1>2 DEF ReadText
  <2>2. [worker[w] EXCEPT !.phase = "load", !.text = file] \in WorkerState
    BY <1>1, <1>2, StepType
  <2>3. QED
    BY <1>1, <1>2, <2>1, <2>2 DEF ReadText, WorkerState
<1>3. CASE LoadRow(w)
  <2>1. PICK p \in {"begin", "ack"} :
          worker' = [worker EXCEPT ![w] = [worker[w] EXCEPT !.phase = p, !.mem = doc]]
    BY <1>3 DEF LoadRow
  <2>2. [worker[w] EXCEPT !.phase = p, !.mem = doc] \in WorkerState
    BY <1>1, StepType
  <2>3. QED
    BY <1>1, <1>3, <2>1, <2>2 DEF LoadRow, WorkerState
<1>4. CASE Clear(w)
  <2>1. worker' = [worker EXCEPT ![w] = [worker[w] EXCEPT !.phase = "commit", !.gone = chunks]]
    BY <1>4 DEF Clear
  <2>2. [worker[w] EXCEPT !.phase = "commit", !.gone = chunks] \in WorkerState
    BY <1>1, StepType
  <2>3. QED
    BY <1>1, <1>4, <2>1, <2>2 DEF Clear, WorkerState
<1>5. CASE (ReadText(w) /\ file = None) \/ Begin(w) \/ StoreChunks(w) \/ MarkFailed(w)
  <2>1. PICK p \in {"clear", "mark", "ack"} :
          worker' = [worker EXCEPT ![w] = [worker[w] EXCEPT !.phase = p]]
    BY <1>5 DEF ReadText, Begin, StoreChunks, MarkFailed, Step
  <2>2. [worker[w] EXCEPT !.phase = p] \in WorkerState
    BY <1>1, StepType
  <2>3. QED
    BY <1>1, <1>5, <2>1, <2>2 DEF ReadText, Begin, StoreChunks, MarkFailed, WorkerState
<1>6. QED
  BY <1>2, <1>3, <1>4, <1>5

\* A worker that lets go of its job, whatever becomes of the message.
LEMMA Released ==
  ASSUME TypeOK, LinkInv, NEW w \in Workers, worker[w].phase # "idle",
         NEW p \in {"queued", "over"},
         job' = [job EXCEPT ![worker[w].job].place = p],
         worker' = [worker EXCEPT ![w] = Idle], handler' = handler
  PROVE  LinkInv'
<1>1. \A v \in Workers : worker'[v].phase # "idle" => v # w /\ worker'[v] = worker[v]
  BY DEF TypeOK, Idle
<1>2. \A v \in Workers : worker'[v].phase # "idle" => worker[v].job # worker[w].job
  BY <1>1 DEF LinkInv
<1>3. \A r \in Requests \ {worker[w].job} : job'[r] = job[r]
  BY DEF TypeOK
<1>4. job[worker[w].job].place = "running" /\ worker[w].job \in Requests
  BY DEF LinkInv
<1>5. QED
  BY <1>1, <1>2, <1>3, <1>4 DEF LinkInv

LEMMA NextRead == TypeOK /\ ReadInv /\ [Next]_vars => ReadInv'
<1> SUFFICES ASSUME TypeOK, ReadInv, [Next]_vars PROVE ReadInv'
  OBVIOUS
<1> USE DEF TypeOK, ReadInv
<1>1. CASE UNCHANGED worker
  BY <1>1
<1>2. ASSUME NEW w \in Workers, Attempt(w) \/ Crash(w) \/ Abort(w)
                                \/ \E r \in Requests : Take(w, r)
      PROVE  ReadInv'
  <2>1. file \in Texts \cup {None} /\ doc \in Row \cup {None} /\ None \notin Texts
    BY IngestionAssumption DEF Texts, Ids
  <2>2. worker[w] \in WorkerState
    OBVIOUS
  <2>3. CASE ReadText(w)
    <3>1. \/ worker' = [worker EXCEPT ![w].phase = "mark"]
          \/ /\ file \in Texts
             /\ worker' = [worker EXCEPT ![w] = [@ EXCEPT !.phase = "load", !.text = file]]
      BY <2>1, <2>3 DEF ReadText, Step
    <3>2. /\ \A v \in Workers \ {w} : worker'[v] = worker[v]
          /\ \/ worker'[w].phase = "mark"
             \/ worker'[w].phase = "load" /\ worker'[w].text # None
      <4>1. worker \in [Workers -> WorkerState]
        OBVIOUS
      <4>2. CASE worker' = [worker EXCEPT ![w].phase = "mark"]
        BY <4>1, <4>2 DEF WorkerState
      <4>3. CASE /\ file \in Texts
                 /\ worker' = [worker EXCEPT ![w] = [@ EXCEPT !.phase = "load", !.text = file]]
        BY <2>1, <4>1, <4>3 DEF WorkerState
      <4>4. QED
        BY <3>1, <4>2, <4>3
    <3>3. QED
      BY <3>2
  <2>4. CASE LoadRow(w)
    BY <2>1, <2>2, <2>4 DEF LoadRow, WorkerState
  <2>5. CASE Begin(w) \/ StoreChunks(w) \/ MarkFailed(w)
    BY <2>2, <2>5 DEF Begin, StoreChunks, MarkFailed, Step, WorkerState
  <2>6. CASE Clear(w)
    BY <2>2, <2>6 DEF Clear, WorkerState
  <2>7. CASE AttemptFails(w) \/ Ack(w) \/ Crash(w) \/ Abort(w)
    BY <2>2, <2>7 DEF AttemptFails, Ack, Crash, Abort, Step, WorkerState, Idle
  <2>8. CASE \E r \in Requests : Take(w, r)
    BY <2>8 DEF Take, Idle
  <2>9. QED
    BY <1>2, <2>3, <2>4, <2>5, <2>6, <2>7, <2>8 DEF Attempt
<1>3. QED
  BY <1>1, <1>2
     DEF Next, vars, Admit, Proceed, HandlerDies, Drop, OpenText, WriteText,
         CommitQueued, CommitRefused, Enqueue, EnqueueFails, AnswerUnavailable,
         DeleteRows, Unlink

LEMMA NextLink == TypeOK /\ LinkInv /\ [Next]_vars => LinkInv'
<1> SUFFICES ASSUME TypeOK, LinkInv, [Next]_vars PROVE LinkInv'
  OBVIOUS
<1> USE DEF TypeOK, LinkInv
<1>1. ASSUME NEW r \in Requests, Proceed(r) \/ HandlerDies(r) \/ Drop(r)
                                 \/ \E k \in Kinds : Admit(r, k)
      PROVE  LinkInv'
  <2>1. handler[r] \in HandlerState /\ job[r] \in Message
    OBVIOUS
  <2>2. CASE Enqueue(r) \/ EnqueueFails(r)
    <3>1. /\ handler[r].phase = "enqueue" /\ job[r].place = "none"
          /\ worker' = worker
          /\ \E p \in {"done", "failing"} : handler' = [handler EXCEPT ![r].phase = p]
          /\ job' = job \/ job' = [job EXCEPT ![r].place = "queued"]
      BY <2>1, <2>2 DEF Enqueue, EnqueueFails, Phase
    <3>0. /\ handler'[r].phase \in {"done", "failing"}
          /\ \A q \in Requests \ {r} : handler'[q] = handler[q] /\ job'[q] = job[q]
      BY <2>1, <3>1 DEF HandlerState
    <3>2. \A w \in Workers : worker[w].phase # "idle" => worker[w].job # r
      BY <3>1
    <3>3. QED
      BY <3>0, <3>1, <3>2
  <2>3. CASE Drop(r)
    BY <2>1, <2>3 DEF Drop, Message, HandlerState
  <2>4. CASE \E k \in Kinds : Admit(r, k)
    BY <2>1, <2>4 DEF Admit
  <2>5. CASE OpenText(r) \/ WriteText(r) \/ CommitQueued(r) \/ CommitRefused(r)
             \/ AnswerUnavailable(r) \/ DeleteRows(r) \/ Unlink(r) \/ HandlerDies(r)
    BY <2>1, <2>5
       DEF OpenText, WriteText, CommitQueued, CommitRefused, AnswerUnavailable,
           DeleteRows, Unlink, HandlerDies, Phase, HandlerState, Ready
  <2>6. QED
    BY <1>1, <2>2, <2>3, <2>4, <2>5 DEF Proceed
<1>2. ASSUME NEW w \in Workers, Attempt(w) \/ Crash(w) \/ Abort(w)
                                \/ \E r \in Requests : Take(w, r)
      PROVE  LinkInv'
  <2>1. worker[w] \in WorkerState
    OBVIOUS
  <2>2. CASE ReadText(w) \/ LoadRow(w) \/ Begin(w) \/ Clear(w) \/ StoreChunks(w)
             \/ MarkFailed(w)
    <3>1. /\ worker[w].phase # "idle" /\ job' = job /\ handler' = handler
          /\ \E n \in WorkerState : worker' = [worker EXCEPT ![w] = n]
                                  /\ n.job = worker[w].job
      BY <2>1, <2>2, NextMine
    <3>2. \A v \in Workers :
            /\ worker'[v].job = worker[v].job
            /\ worker'[v].phase # "idle" => worker[v].phase # "idle"
      BY <3>1
    <3>3. QED
      BY <3>1, <3>2
  <2>3. CASE Ack(w) \/ Crash(w) \/ Abort(w)
    BY <2>1, <2>3, Released DEF Ack, Crash, Abort
  <2>4. CASE AttemptFails(w)
    <3>1. worker[w].phase # "idle" /\ handler' = handler
      BY <2>4 DEF AttemptFails
    <3>2. CASE job[worker[w].job].tries < MaxTries
      BY <2>4, <3>1, <3>2, Released DEF AttemptFails, Requeued
    <3>3. CASE Step(w, "mark") /\ UNCHANGED job
      <4>1. \A v \in Workers :
              /\ worker'[v].job = worker[v].job
              /\ worker'[v].phase # "idle" => worker[v].phase # "idle"
        BY <2>1, <3>1, <3>3 DEF Step, WorkerState
      <4>2. QED
        BY <3>1, <3>3, <4>1
    <3>4. QED
      BY <2>4, <3>2, <3>3 DEF AttemptFails
  <2>5. ASSUME NEW r \in Requests, Take(w, r) PROVE LinkInv'
    BY <2>5 DEF Take, Startable, Idle, Message
  <2>6. QED
    BY <1>2, <2>2, <2>3, <2>4, <2>5 DEF Attempt
<1>3. CASE UNCHANGED vars
  BY <1>3 DEF vars
<1>4. QED
  BY <1>1, <1>2, <1>3 DEF Next

LEMMA NextType == TypeOK /\ LinkInv /\ ReadInv /\ [Next]_vars => TypeOK'
<1> SUFFICES ASSUME TypeOK, LinkInv, ReadInv, [Next]_vars PROVE TypeOK'
  OBVIOUS
<1>0. /\ doc \in Row \cup {None} /\ file \in Texts \cup {None}
      /\ chunks \subseteq Generation /\ handler \in [Requests -> HandlerState]
      /\ job \in [Requests -> Message] /\ worker \in [Workers -> WorkerState]
      /\ faults \in 0..MaxFaults /\ disturbed \in BOOLEAN /\ lost \in BOOLEAN
  BY DEF TypeOK
<1>a. Fault => faults' \in 0..MaxFaults
  BY <1>0, IngestionAssumption DEF Fault
<1>b. Requests \subseteq Ids /\ Requests \subseteq Texts /\ Empty \in Texts
  BY DEF Ids, Texts
<1>1. ASSUME NEW r \in Requests, Proceed(r) \/ HandlerDies(r) \/ Drop(r)
                                 \/ \E k \in Kinds : Admit(r, k)
      PROVE  TypeOK'
  <2>1. ASSUME NEW p \in {"storing", "stored", "enqueue", "failing", "unlink", "done"},
               Phase(r, p)
        PROVE  handler' \in [Requests -> HandlerState]
    <3>1. [handler[r] EXCEPT !.phase = p] \in HandlerState
      BY <1>0, PhaseType
    <3>2. QED
      BY <1>0, <2>1, <3>1 DEF Phase
  <2>2. \A b \in BOOLEAN : Disturb(b) => disturbed' \in BOOLEAN
    BY <1>0 DEF Disturb
  <2>3. CASE OpenText(r) \/ WriteText(r)
    BY <1>0, <1>b, <2>1, <2>3 DEF TypeOK, OpenText, WriteText, Disturb
  <2>4. CASE CommitQueued(r) \/ AnswerUnavailable(r)
    <3>1. handler' \in [Requests -> HandlerState]
      BY <2>1, <2>4 DEF CommitQueued, AnswerUnavailable
    <3>2. doc' \in Row \cup {None}
      BY <1>0, <1>b, <2>4 DEF CommitQueued, AnswerUnavailable, Unqueued, Row
    <3>3. QED
      BY <1>0, <2>4, <3>1, <3>2 DEF TypeOK, CommitQueued, AnswerUnavailable, Disturb
  <2>5. CASE CommitRefused(r) \/ HandlerDies(r)
    BY <1>0, <1>a, <2>1, <2>5 DEF TypeOK, CommitRefused, HandlerDies, Disturb
  <2>6. CASE Enqueue(r) \/ EnqueueFails(r)
    BY <1>0, <1>a, <2>1, <2>6, PlaceType DEF TypeOK, Enqueue, EnqueueFails
  <2>7. CASE DeleteRows(r) \/ Unlink(r)
    BY <1>0, <2>1, <2>7 DEF TypeOK, DeleteRows, Unlink, Disturb
  <2>8. CASE Drop(r)
    BY <1>0, <2>8, PlaceType DEF TypeOK, Drop
  <2>9. ASSUME NEW k \in Kinds, Admit(r, k) PROVE TypeOK'
    BY <1>0, <2>9 DEF TypeOK, Admit, HandlerState
  <2>10. QED
    BY <1>1, <2>3, <2>4, <2>5, <2>6, <2>7, <2>8, <2>9 DEF Proceed
<1>2. ASSUME NEW w \in Workers, Attempt(w) \/ Crash(w) \/ Abort(w)
                                \/ \E r \in Requests : Take(w, r)
      PROVE  TypeOK'
  <2>1. worker[w] \in WorkerState
    BY <1>0
  <2>2. worker[w].phase # "idle" => worker[w].job \in Requests
    BY DEF LinkInv
  <2>3. \A p \in {"clear", "mark", "ack"} :
          Step(w, p) => worker' \in [Workers -> WorkerState]
    BY <1>0, <2>1, StepType DEF Step
  <2>4. CASE ReadText(w) \/ LoadRow(w) \/ Clear(w)
    <3>1. \E n \in WorkerState : worker' = [worker EXCEPT ![w] = n]
      BY <1>0, <2>1, <2>4, NextMine DEF TypeOK
    <3>2. QED
      BY <1>0, <2>4, <3>1 DEF TypeOK, ReadText, LoadRow, Clear
  <2>5. CASE Begin(w) \/ MarkFailed(w)
    BY <1>0, <1>b, <2>1, <2>2, <2>3, <2>5 DEF TypeOK, Begin, MarkFailed, Row
  <2>6. CASE StoreChunks(w)
    <3>1. chunks' \subseteq Generation
      BY <1>0, <2>6, MadeType DEF StoreChunks, Remaining
    <3>2. doc' \in Row
      BY <1>0, <2>6 DEF StoreChunks, Row
    <3>3. QED
      BY <1>0, <2>3, <2>6, <3>1, <3>2 DEF TypeOK, StoreChunks
  <2>7. CASE Ack(w) \/ Crash(w) \/ Abort(w)
    <3>1. job' \in [Requests -> Message]
      BY <2>2, <2>7, PlaceType DEF TypeOK, Ack, Crash, Abort
    <3>2. worker' \in [Workers -> WorkerState]
      BY <1>0, <2>7, IdleType DEF Ack, Crash, Abort
    <3>3. QED
      BY <1>0, <1>a, <2>7, <3>1, <3>2 DEF TypeOK, Ack, Crash, Abort
  <2>8. CASE AttemptFails(w)
    BY <1>0, <1>a, <2>2, <2>3, <2>8, IdleType, PlaceType
       DEF TypeOK, AttemptFails, Requeued
  <2>9. ASSUME NEW r \in Requests, Take(w, r) PROVE TypeOK'
    <3>1. [place |-> "running", tries |-> job[r].tries + 1] \in Message
      BY <1>0, <2>9, IngestionAssumption DEF Take, Startable, Message
    <3>2. QED
      BY <1>0, <2>9, <3>1, TakenType DEF TypeOK, Take
  <2>10. QED
    BY <1>2, <2>4, <2>5, <2>6, <2>7, <2>8, <2>9 DEF Attempt
<1>3. CASE UNCHANGED vars
  BY <1>3 DEF TypeOK, vars
<1>4. QED
  BY <1>1, <1>2, <1>3 DEF Next

-----------------------------------------------------------------------------
\* Whose turn it is to bring a document in progress to an outcome.
Backer(r) ==
  \/ handler[r].phase \in {"enqueue", "failing"}
  \/ job[r].place = "queued"
  \/ \E w \in Workers : worker[w].job = r /\ worker[w].phase \notin {"idle", "ack"}

BackedInv == InProgress /\ ~lost => \E r \in Requests : Backer(r)

LEMMA PhaseStep ==
  ASSUME TypeOK, NEW r \in Requests, NEW p, Phase(r, p)
  PROVE  handler'[r].phase = p /\ \A q \in Requests \ {r} : handler'[q] = handler[q]
  BY DEF TypeOK, Phase, HandlerState

\* What a step of a worker does to the workers: it is the only one to change.
LEMMA OthersKeep ==
  ASSUME TypeOK, NEW w \in Workers, Attempt(w) \/ Crash(w) \/ Abort(w)
  PROVE  \A v \in Workers \ {w} : worker'[v] = worker[v]
<1>1. CASE AttemptFails(w) \/ Ack(w) \/ Crash(w) \/ Abort(w)
  BY <1>1 DEF TypeOK, AttemptFails, Ack, Crash, Abort, Step
<1>2. CASE \/ ReadText(w) \/ LoadRow(w) \/ Begin(w) \/ Clear(w) \/ StoreChunks(w)
           \/ MarkFailed(w)
  BY <1>2, NextMine DEF TypeOK
<1>3. QED
  BY <1>1, <1>2 DEF Attempt

LEMMA NextBacked == TypeOK /\ LinkInv /\ BackedInv /\ [Next]_vars => BackedInv'
<1> SUFFICES ASSUME TypeOK, LinkInv, BackedInv, [Next]_vars, InProgress', ~lost'
             PROVE  \E r \in Requests : Backer(r)'
  BY DEF BackedInv
<1>0. /\ handler \in [Requests -> HandlerState] /\ job \in [Requests -> Message]
      /\ worker \in [Workers -> WorkerState]
  BY DEF TypeOK
<1>1. ASSUME NEW r \in Requests, Proceed(r) \/ HandlerDies(r) \/ Drop(r)
                                 \/ \E k \in Kinds : Admit(r, k)
      PROVE  \E q \in Requests : Backer(q)'
  <2>1. CASE CommitQueued(r) \/ EnqueueFails(r)
    BY <2>1, PhaseStep DEF CommitQueued, EnqueueFails, Backer
  <2>2. CASE Enqueue(r)
    BY <1>0, <2>2 DEF Enqueue, Backer, Message
  <2>3. CASE AnswerUnavailable(r) \/ DeleteRows(r)
    BY <2>3 DEF AnswerUnavailable, Unqueued, DeleteRows, InProgress
  <2>4. CASE Drop(r)
    BY <2>4 DEF Drop
  <2>5. CASE OpenText(r) \/ WriteText(r) \/ CommitRefused(r) \/ Unlink(r)
             \/ HandlerDies(r) \/ \E k \in Kinds : Admit(r, k)
    <3>1. /\ handler[r].phase \notin {"enqueue", "failing"}
          /\ \A q \in Requests \ {r} : handler'[q] = handler[q]
          /\ UNCHANGED <<job, worker, doc>> /\ ~lost
      <4>1. CASE OpenText(r) \/ WriteText(r) \/ CommitRefused(r) \/ Unlink(r)
        BY <4>1, PhaseStep DEF OpenText, WriteText, CommitRefused, Unlink, Ready
      <4>2. CASE HandlerDies(r)
        BY <4>2, PhaseStep DEF HandlerDies
      <4>3. CASE \E k \in Kinds : Admit(r, k)
        BY <1>0, <4>3 DEF Admit
      <4>4. QED
        BY <2>5, <4>1, <4>2, <4>3
    <3>2. QED
      BY <3>1 DEF BackedInv, InProgress, Backer
  <2>6. QED
    BY <1>1, <2>1, <2>2, <2>3, <2>4, <2>5 DEF Proceed
<1>2. ASSUME NEW w \in Workers, NEW r \in Requests, Take(w, r)
      PROVE  \E q \in Requests : Backer(q)'
  <2>1. worker'[w].job = r /\ worker'[w].phase = "read"
    BY <1>0, <1>2 DEF Take, Idle
  <2>2. QED
    BY <2>1 DEF Backer
<1>3. ASSUME NEW w \in Workers, Attempt(w) \/ Crash(w) \/ Abort(w)
      PROVE  \E q \in Requests : Backer(q)'
  <2>1. worker[w].phase # "idle" /\ worker[w].job \in Requests
    BY <1>3
       DEF LinkInv, Attempt, ReadText, LoadRow, Begin, Clear, StoreChunks,
           AttemptFails, MarkFailed, Ack, Crash, Abort
  <2>2. CASE StoreChunks(w) \/ MarkFailed(w) \/ Abort(w)
    BY <1>0, <2>2 DEF StoreChunks, MarkFailed, Abort, InProgress, TypeOK, Row
  <2>3. CASE ReadText(w) \/ LoadRow(w) \/ Begin(w) \/ Clear(w)
    <3>1. worker'[w].job = worker[w].job /\ worker'[w].phase \notin {"idle", "ack"}
      <4>1. CASE ReadText(w)
        BY <1>0, <4>1 DEF ReadText, Step, WorkerState
      <4>2. CASE LoadRow(w)
        BY <1>0, <4>2 DEF LoadRow, WorkerState, InProgress
      <4>3. CASE Begin(w) \/ Clear(w)
        BY <1>0, <4>3 DEF Begin, Clear, Step, WorkerState
      <4>4. QED
        BY <2>3, <4>1, <4>2, <4>3
    <3>2. QED
      BY <2>1, <3>1 DEF Backer
  <2>4. CASE AttemptFails(w)
    <3>1. CASE job[worker[w].job].tries < MaxTries
      <4>1. job'[worker[w].job].place = "queued"
        BY <1>0, <2>1, <2>4, <3>1 DEF AttemptFails, Requeued, Message
      <4>2. QED
        BY <2>1, <4>1 DEF Backer
    <3>2. CASE Step(w, "mark")
      <4>1. worker'[w].job = worker[w].job /\ worker'[w].phase = "mark"
        BY <1>0, <3>2 DEF Step, WorkerState
      <4>2. QED
        BY <2>1, <4>1 DEF Backer
    <3>3. QED
      BY <2>4, <3>1, <3>2 DEF AttemptFails
  <2>5. CASE Crash(w)
    <3>1. job'[worker[w].job].place = "queued"
      BY <1>0, <2>1, <2>5 DEF Crash, Message
    <3>2. QED
      BY <2>1, <3>1 DEF Backer
  <2>6. CASE Ack(w)
    <3>1. PICK q \in Requests : Backer(q)
      BY <2>6 DEF Ack, BackedInv, InProgress
    <3>2. job[q].place = "queued" => q # worker[w].job
      BY <2>1 DEF LinkInv
    <3>3. job[q].place = "queued" => job'[q].place = "queued"
      BY <1>0, <2>6, <3>2 DEF Ack
    <3>4. QED
      BY <2>6, <3>1, <3>3, OthersKeep, <1>3 DEF Ack, Backer
  <2>7. QED
    BY <1>3, <2>2, <2>3, <2>4, <2>5, <2>6 DEF Attempt
<1>4. CASE UNCHANGED vars
  BY <1>4 DEF vars, BackedInv, InProgress, Backer
<1>5. QED
  BY <1>1, <1>2, <1>3, <1>4 DEF Next

-----------------------------------------------------------------------------
\* While no request has disturbed another: one of them at most is active, and
\* the row names the one that queued a job; the stored text is whole unless it
\* is being written; an attempt works on the text now stored and replaces every
\* chunk; and the chunks of a succeeded document are those of its job.
Undisturbed ==
  /\ \A q, r \in Requests : Active(q) /\ Active(r) => q = r
  /\ \A r \in Requests :
       /\ (\/ handler[r].phase \in {"enqueue", "failing"}
           \/ job[r].place \in {"queued", "running"}) => doc # None /\ doc.job = r
       /\ handler[r].phase = "unlink" => doc = None
  /\ file = Empty => \E r \in Requests : handler[r].phase = "storing"
  /\ \A w \in Workers :
       /\ worker[w].phase \in {"load", "begin", "clear", "commit"} => worker[w].text = file
       /\ worker[w].phase = "commit" => worker[w].gone = chunks
  /\ Searchable

UndisturbedInv == ~disturbed => Undisturbed

\* A worker that has a job makes that request active, and its handler is not
\* before its enqueue.
LEMMA AtWork ==
  ASSUME LinkInv, NEW w \in Workers, worker[w].phase # "idle"
  PROVE  /\ worker[w].job \in Requests /\ Active(worker[w].job)
         /\ handler[worker[w].job].phase
              \notin {"new", "admitted", "storing", "stored", "enqueue", "unlink"}
  BY DEF LinkInv, Active

\* A request that finds no other active and has no job yet: no worker is at work.
LEMMA NobodyWorks ==
  ASSUME LinkInv, NEW r \in Requests, ~Busy(r),
         handler[r].phase \in {"admitted", "storing", "stored", "enqueue", "unlink"}
  PROVE  /\ \A w \in Workers : worker[w].phase = "idle"
         /\ \A q \in Requests \ {r} : ~Active(q)
         /\ job[r].place = "none"
  BY AtWork DEF LinkInv, Busy

LEMMA RowIsThere ==
  ASSUME NEW d \in Row PROVE d # None
  BY IngestionAssumption

\* A handler that stops, not between its file and its row.
LEMMA Retired ==
  ASSUME Undisturbed, ~disturbed, NEW r \in Requests, handler'[r].phase = "done",
         handler[r].phase \notin {"storing", "stored", "unlink"},
         \A q \in Requests \ {r} : handler'[q] = handler[q],
         UNCHANGED <<doc, file, chunks, job, worker>>
  PROVE  Undisturbed'
<1>1. \A q \in Requests : Active(q)' => Active(q)
  BY DEF Active
<1>2. Searchable'
  BY DEF Undisturbed, Searchable
<1>3. QED
  BY <1>1, <1>2 DEF Undisturbed

\* The steps of handlers, taken while nothing is disturbed.
LEMMA HandlerUndisturbed ==
  ASSUME TypeOK, LinkInv, Undisturbed, ~disturbed, ~disturbed',
         NEW r \in Requests, Proceed(r) \/ HandlerDies(r)
  PROVE  Undisturbed'
<1>0. /\ handler \in [Requests -> HandlerState] /\ job \in [Requests -> Message]
      /\ worker \in [Workers -> WorkerState]
  BY DEF TypeOK
<1>1. CASE OpenText(r)
  <2>1. ~Busy(r) /\ handler[r].phase = "admitted"
    BY <1>1 DEF OpenText, Disturb, Racing
  <2>2. /\ \A w \in Workers : worker[w].phase = "idle"
        /\ \A q \in Requests \ {r} : ~Active(q)
        /\ job[r].place = "none"
    BY <2>1, NobodyWorks
  <2>3. /\ handler'[r].phase = "storing"
        /\ \A q \in Requests \ {r} : handler'[q] = handler[q]
        /\ UNCHANGED <<doc, chunks, job, worker>>
    BY <1>1, PhaseStep DEF OpenText
  <2>4. Searchable'
    BY <2>3 DEF Undisturbed, Searchable
  <2>5. QED
    BY <2>2, <2>3, <2>4 DEF Undisturbed, Active
<1>2. CASE WriteText(r)
  <2>1. handler[r].phase = "storing" /\ Active(r)
    BY <1>2 DEF WriteText, Active
  <2>2. ~Busy(r)
    BY <2>1 DEF Undisturbed, Busy
  <2>3. /\ \A w \in Workers : worker[w].phase = "idle"
        /\ \A q \in Requests \ {r} : ~Active(q)
        /\ job[r].place = "none"
    BY <2>1, <2>2, NobodyWorks
  <2>4. /\ handler'[r].phase = "stored" /\ file' = r
        /\ \A q \in Requests \ {r} : handler'[q] = handler[q]
        /\ UNCHANGED <<doc, chunks, job, worker>>
    BY <1>2, PhaseStep DEF WriteText
  <2>5. Searchable'
    <3>1. (doc # None /\ doc.status = "succeeded") =>
            \E g \in Generation : chunks = {g} /\ g.job = doc.job
      BY DEF Undisturbed, Searchable
    <3>2. \E q \in Requests : handler'[q].phase \in {"storing", "stored"}
      BY <2>4
    <3>3. doc' = doc /\ chunks' = chunks
      BY <2>4
    <3>4. QED
      BY <3>1, <3>2, <3>3 DEF Searchable
  <2>6. file' # Empty
    BY <2>4, IngestionAssumption DEF Ids
  <2>7. QED
    BY <2>3, <2>4, <2>5, <2>6 DEF Undisturbed, Active
<1>3. CASE CommitQueued(r)
  <2>1. ~Busy(r) /\ handler[r].phase \in {"stored", "admitted"}
    BY <1>3 DEF CommitQueued, Ready, Disturb, Racing
  <2>2. /\ \A w \in Workers : worker[w].phase = "idle"
        /\ \A q \in Requests \ {r} : ~Active(q)
        /\ job[r].place = "none"
    BY <2>1, NobodyWorks
  <2>3. /\ handler'[r].phase = "enqueue"
        /\ \A q \in Requests \ {r} : handler'[q] = handler[q]
        /\ doc' = [status |-> "queued", job |-> r]
        /\ UNCHANGED <<file, chunks, job, worker>>
    BY <1>3, PhaseStep DEF CommitQueued
  <2>4. Searchable'
    BY <2>3 DEF Searchable
  <2>5. file # Empty
    BY <2>1, <2>2 DEF Undisturbed, Active
  <2>6. doc' # None
    <3>1. [status |-> "queued", job |-> r] \in Row
      BY DEF Row, Ids
    <3>2. QED
      BY <2>3, <3>1, RowIsThere
  <2>7. QED
    BY <2>2, <2>3, <2>4, <2>5, <2>6 DEF Undisturbed, Active
<1>4. CASE CommitRefused(r)
  <2>1. handler[r].phase = "admitted"
    BY <1>4 DEF CommitRefused, Ready, Disturb
  <2>2. /\ handler'[r].phase = "done"
        /\ \A q \in Requests \ {r} : handler'[q] = handler[q]
        /\ UNCHANGED <<doc, file, chunks, job, worker>>
    BY <1>4, PhaseStep DEF CommitRefused
  <2>3. QED
    BY <2>1, <2>2, Retired
<1>5. CASE Enqueue(r) \/ EnqueueFails(r)
  <2>1. handler[r].phase = "enqueue" /\ Active(r)
    BY <1>5 DEF Enqueue, EnqueueFails, Active
  <2>2. ~Busy(r)
    BY <2>1 DEF Undisturbed, Busy
  <2>3. /\ handler'[r].phase \in {"done", "failing"}
        /\ \A q \in Requests \ {r} : handler'[q] = handler[q] /\ job'[q] = job[q]
        /\ UNCHANGED <<doc, file, chunks, worker>>
    BY <1>0, <1>5, PhaseStep DEF Enqueue, EnqueueFails
  <2>4. \A q \in Requests \ {r} : ~Active(q)
    BY <2>2 DEF Busy
  <2>5. Searchable'
    BY <2>1, <2>3 DEF Undisturbed, Searchable
  <2>6. QED
    BY <2>1, <2>3, <2>4, <2>5 DEF Undisturbed, Active
<1>6. CASE AnswerUnavailable(r)
  <2>1. handler[r].phase = "failing" /\ Active(r)
    BY <1>6 DEF AnswerUnavailable, Active
  <2>2. \A q \in Requests \ {r} : ~Active(q)
    BY <2>1 DEF Undisturbed
  <2>3. doc # None /\ doc.job = r
    BY <2>1 DEF Undisturbed
  <2>4. doc' = [status |-> "failed", job |-> r]
    BY <1>6, <2>3 DEF AnswerUnavailable, Unqueued
  <2>5. doc' # None
    <3>1. [status |-> "failed", job |-> r] \in Row
      BY DEF Row, Ids
    <3>2. QED
      BY <2>4, <3>1, RowIsThere
  <2>6. /\ handler'[r].phase = "done"
        /\ \A q \in Requests \ {r} : handler'[q] = handler[q]
        /\ UNCHANGED <<file, chunks, job, worker>>
    BY <1>6, PhaseStep DEF AnswerUnavailable
  <2>7. Searchable'
    BY <2>4 DEF Searchable
  <2>8. QED
    BY <2>1, <2>2, <2>4, <2>5, <2>6, <2>7 DEF Undisturbed, Active
<1>7. CASE DeleteRows(r)
  <2>1. ~Busy(r) /\ handler[r].phase = "admitted"
    BY <1>7 DEF DeleteRows, Disturb, Racing
  <2>2. /\ \A w \in Workers : worker[w].phase = "idle"
        /\ \A q \in Requests \ {r} : ~Active(q)
        /\ job[r].place = "none"
    BY <2>1, NobodyWorks
  <2>3. /\ handler'[r].phase = "unlink" /\ doc' = None
        /\ \A q \in Requests \ {r} : handler'[q] = handler[q]
        /\ UNCHANGED <<file, job, worker>>
    BY <1>7, PhaseStep DEF DeleteRows
  <2>4. Searchable'
    BY <2>3 DEF Searchable
  <2>5. QED
    BY <2>1, <2>2, <2>3, <2>4 DEF Undisturbed, Active
<1>8. CASE Unlink(r)
  <2>1. /\ handler[r].phase = "unlink" /\ ~Busy(r) /\ doc = None
    BY <1>8 DEF Unlink, Disturb
  <2>2. /\ \A w \in Workers : worker[w].phase = "idle"
        /\ \A q \in Requests \ {r} : ~Active(q)
        /\ job[r].place = "none"
    BY <2>1, NobodyWorks
  <2>3. /\ handler'[r].phase = "done" /\ file' = None
        /\ \A q \in Requests \ {r} : handler'[q] = handler[q]
        /\ UNCHANGED <<doc, chunks, job, worker>>
    BY <1>8, PhaseStep DEF Unlink
  <2>4. Searchable'
    BY <2>1, <2>3 DEF Searchable
  <2>5. file' # Empty
    BY <2>3, IngestionAssumption
  <2>6. QED
    BY <2>2, <2>3, <2>4, <2>5 DEF Undisturbed, Active
<1>9. CASE HandlerDies(r)
  <2>1. handler[r].phase \notin {"storing", "stored", "unlink"}
    BY <1>9 DEF HandlerDies, Disturb
  <2>2. /\ handler'[r].phase = "done"
        /\ \A q \in Requests \ {r} : handler'[q] = handler[q]
        /\ UNCHANGED <<doc, file, chunks, job, worker>>
    BY <1>9, PhaseStep DEF HandlerDies
  <2>3. QED
    BY <2>1, <2>2, Retired
<1>10. QED
  BY <1>1, <1>2, <1>3, <1>4, <1>5, <1>6, <1>7, <1>8, <1>9 DEF Proceed

\* The steps of workers and of arq, taken while nothing is disturbed.
LEMMA WorkerUndisturbed ==
  ASSUME TypeOK, LinkInv, ReadInv, Undisturbed, ~disturbed, ~disturbed',
         NEW w \in Workers, Attempt(w) \/ Crash(w) \/ Abort(w)
  PROVE  Undisturbed'
<1>0. /\ handler \in [Requests -> HandlerState] /\ job \in [Requests -> Message]
      /\ worker \in [Workers -> WorkerState] /\ worker[w] \in WorkerState
  BY DEF TypeOK
<1>1. worker[w].phase # "idle"
  BY DEF Attempt, ReadText, LoadRow, Begin, Clear, StoreChunks, AttemptFails,
         MarkFailed, Ack, Crash, Abort
<1> DEFINE r == worker[w].job
<1>2. /\ r \in Requests /\ Active(r) /\ job[r].place = "running"
      /\ handler[r].phase \notin {"new", "admitted", "storing", "stored", "enqueue", "unlink"}
  BY <1>1, AtWork DEF LinkInv
<1>3. /\ \A q \in Requests \ {r} : ~Active(q)
      /\ \A v \in Workers \ {w} : worker[v].phase = "idle"
  <2>1. \A q \in Requests \ {r} : ~Active(q)
    BY <1>2 DEF Undisturbed
  <2>2. QED
    BY <1>1, <1>2, <2>1, AtWork DEF LinkInv
<1>4. doc # None /\ doc.job = r /\ doc \in Row
  BY <1>2 DEF Undisturbed, TypeOK
<1>5. \A v \in Workers \ {w} : worker'[v] = worker[v]
  BY OthersKeep
<1>6. handler' = handler /\ file' = file
  BY DEF Attempt, ReadText, LoadRow, Begin, Clear, StoreChunks, AttemptFails,
         MarkFailed, Ack, Crash, Abort
<1>7. file # Empty
  BY <1>2, <1>3 DEF Undisturbed, Active
<1> HIDE DEF r
<1>8. CASE ReadText(w) \/ LoadRow(w) \/ Clear(w)
  <2>1. UNCHANGED <<doc, chunks, job>>
    BY <1>8 DEF ReadText, LoadRow, Clear
  <2>2. /\ worker'[w].phase \in {"load", "begin", "clear", "commit"} => worker'[w].text = file
        /\ worker'[w].phase = "commit" => worker'[w].gone = chunks
    <3>1. CASE ReadText(w) /\ file = None
      BY <1>0, <3>1 DEF ReadText, Step, WorkerState
    <3>2. CASE ReadText(w) /\ file # None
      BY <1>0, <3>2 DEF ReadText, WorkerState
    <3>3. CASE LoadRow(w)
      BY <1>0, <3>3 DEF LoadRow, WorkerState, Undisturbed
    <3>4. CASE Clear(w)
      BY <1>0, <3>4 DEF Clear, WorkerState, Undisturbed
    <3>5. QED
      BY <1>8, <3>1, <3>2, <3>3, <3>4
  <2>3. Searchable'
    BY <1>6, <2>1 DEF Undisturbed, Searchable
  <2>4. QED
    BY <1>3, <1>5, <1>6, <2>1, <2>2, <2>3 DEF Undisturbed, Active
<1>9. CASE Begin(w)
  <2>1. /\ doc'.job = r /\ doc' \in Row
        /\ doc'.status \in {doc.status, "processing"}
        /\ UNCHANGED <<chunks, job>>
    BY <1>2, <1>4, <1>9 DEF Begin, Row, Ids, r
  <2>2. worker'[w].phase = "clear" /\ worker'[w].text = file
    BY <1>0, <1>9 DEF Begin, Step, WorkerState, Undisturbed
  <2>3. Searchable'
    BY <1>4, <1>6, <2>1 DEF Undisturbed, Searchable
  <2>4. doc' # None
    BY <2>1, RowIsThere
  <2>5. QED
    BY <1>2, <1>3, <1>5, <1>6, <2>1, <2>2, <2>3, <2>4 DEF Undisturbed, Active
<1>10. CASE StoreChunks(w)
  <2>1. /\ worker[w].phase = "commit" /\ worker[w].text = file /\ worker[w].gone = chunks
    BY <1>10 DEF StoreChunks, Undisturbed
  <2>2. chunks' = {[job |-> r, text |-> file]}
    BY <1>7, <1>10, <2>1 DEF StoreChunks, Remaining, Made, r
  <2>3. Made(w) \subseteq Generation /\ Made(w) = {[job |-> r, text |-> file]}
    BY <1>7, <2>1, MadeType DEF Made, r
  <2>4. /\ doc' \in Row /\ doc'.job = r /\ job' = job
        /\ worker'[w].phase = "ack"
    BY <1>0, <1>4, <1>10 DEF StoreChunks, Step, WorkerState, Row
  <2>5. Searchable'
    BY <1>6, <2>2, <2>3, <2>4 DEF Searchable
  <2>6. doc' # None
    BY <2>4, RowIsThere
  <2>7. QED
    BY <1>2, <1>3, <1>5, <1>6, <2>4, <2>5, <2>6 DEF Undisturbed, Active
<1>11. CASE MarkFailed(w)
  <2>1. doc' = [status |-> "failed", job |-> r] /\ job' = job /\ chunks' = chunks
    BY <1>4, <1>11 DEF MarkFailed, r
  <2>2. doc' # None
    <3>1. [status |-> "failed", job |-> r] \in Row
      BY <1>2 DEF Row, Ids
    <3>2. QED
      BY <2>1, <3>1, RowIsThere
  <2>3. worker'[w].phase = "ack"
    BY <1>0, <1>11 DEF MarkFailed, Step, WorkerState
  <2>4. Searchable'
    BY <2>1 DEF Searchable
  <2>5. QED
    BY <1>2, <1>3, <1>5, <1>6, <2>1, <2>2, <2>3, <2>4 DEF Undisturbed, Active
<1>12. CASE AttemptFails(w) \/ Ack(w) \/ Crash(w) \/ Abort(w)
  <2>1. UNCHANGED <<doc, chunks>> /\ worker'[w].phase \in {"idle", "mark"}
    BY <1>0, <1>12 DEF AttemptFails, Ack, Crash, Abort, Step, Idle, WorkerState
  <2>2. \A q \in Requests \ {r} : job'[q] = job[q]
    BY <1>0, <1>12 DEF AttemptFails, Requeued, Ack, Crash, Abort, r
  <2>3. Searchable'
    BY <1>6, <2>1 DEF Undisturbed, Searchable
  <2>4. QED
    BY <1>3, <1>4, <1>5, <1>6, <2>1, <2>2, <2>3 DEF Undisturbed, Active
<1>13. QED
  BY <1>8, <1>9, <1>10, <1>11, <1>12 DEF Attempt

LEMMA NextUndisturbed ==
  TypeOK /\ LinkInv /\ ReadInv /\ UndisturbedInv /\ [Next]_vars => UndisturbedInv'
<1> SUFFICES ASSUME TypeOK, LinkInv, ReadInv, UndisturbedInv, [Next]_vars, ~disturbed'
             PROVE  Undisturbed'
  BY DEF UndisturbedInv
<1>0. /\ handler \in [Requests -> HandlerState] /\ job \in [Requests -> Message]
      /\ worker \in [Workers -> WorkerState]
  BY DEF TypeOK
<1>1. ~disturbed
  BY DEF Next, vars, Proceed, Attempt, OpenText, WriteText, CommitQueued,
         CommitRefused, Enqueue, EnqueueFails, AnswerUnavailable, DeleteRows,
         Unlink, HandlerDies, Disturb, Admit, Take, Drop, ReadText, LoadRow,
         Begin, Clear, StoreChunks, AttemptFails, MarkFailed, Ack, Crash, Abort
<1>2. Undisturbed
  BY <1>1 DEF UndisturbedInv
<1>3. ASSUME NEW r \in Requests, NEW k \in Kinds, Admit(r, k) PROVE Undisturbed'
  <2>1. /\ handler[r].phase = "new" /\ handler'[r].phase = "admitted"
        /\ \A q \in Requests \ {r} : handler'[q] = handler[q]
        /\ UNCHANGED <<doc, file, chunks, job, worker>>
    BY <1>0, <1>3 DEF Admit
  <2>2. Searchable'
    BY <1>1, <1>2, <2>1 DEF Undisturbed, Searchable
  <2>3. QED
    BY <1>2, <2>1, <2>2 DEF Undisturbed, Active
<1>4. ASSUME NEW r \in Requests, Drop(r) PROVE Undisturbed'
  <2>1. /\ job'[r].place = "over"
        /\ \A q \in Requests \ {r} : job'[q] = job[q]
        /\ UNCHANGED <<doc, file, chunks, handler, worker>>
    BY <1>0, <1>4 DEF Drop, Message
  <2>2. Searchable'
    BY <1>1, <1>2, <2>1 DEF Undisturbed, Searchable
  <2>3. QED
    BY <1>2, <2>1, <2>2 DEF Undisturbed, Active
<1>5. ASSUME NEW w \in Workers, NEW r \in Requests, Take(w, r) PROVE Undisturbed'
  <2>1. /\ job[r].place = "queued"
        /\ \A q \in Requests \ {r} : job'[q] = job[q]
        /\ worker'[w].phase = "read"
        /\ \A v \in Workers \ {w} : worker'[v] = worker[v]
        /\ UNCHANGED <<doc, file, chunks, handler>>
    BY <1>0, <1>5 DEF Take, Startable, Idle
  <2>2. Searchable'
    BY <1>1, <1>2, <2>1 DEF Undisturbed, Searchable
  <2>3. QED
    BY <1>2, <2>1, <2>2 DEF Undisturbed, Active
<1>6. CASE UNCHANGED vars
  BY <1>2, <1>6 DEF vars, Undisturbed, Searchable, Active
<1>7. QED
  BY <1>1, <1>2, <1>3, <1>4, <1>5, <1>6, HandlerUndisturbed, WorkerUndisturbed DEF Next

-----------------------------------------------------------------------------
IInv == TypeOK /\ LinkInv /\ ReadInv /\ BackedInv /\ UndisturbedInv

LEMMA InitInv == Init => IInv
<1> SUFFICES ASSUME Init PROVE IInv
  OBVIOUS
<1>1. /\ handler = [r \in Requests |-> [phase |-> "new", kind |-> "write", seen |-> None]]
      /\ job = [r \in Requests |-> [place |-> "none", tries |-> 0]]
      /\ worker = [w \in Workers |-> Idle]
      /\ faults = 0 /\ disturbed = FALSE /\ lost = FALSE
  BY DEF Init
<1>2. /\ doc \in Row \cup {None} /\ file \in Texts \cup {None} /\ chunks \subseteq Generation
      /\ ~InProgress /\ file # Empty
      /\ doc # None => [job |-> First, text |-> First] \in Generation /\ doc.job = First
                       /\ file = First /\ chunks = {[job |-> First, text |-> First]}
  BY IngestionAssumption DEF Init, Row, Texts, Ids, Generation, InProgress
<1>3. TypeOK
  <2>1. 0 \in 0..MaxTries /\ 0 \in 0..MaxFaults
    BY IngestionAssumption
  <2>2. QED
    BY <1>1, <1>2, <2>1, IdleType DEF TypeOK, HandlerState, Message, Kinds
<1>4. LinkInv /\ ReadInv
  BY <1>1 DEF LinkInv, ReadInv, Idle
<1>5. BackedInv
  BY <1>2 DEF BackedInv
<1>6. UndisturbedInv
  <2>1. Searchable
    BY <1>2 DEF Searchable
  <2>2. QED
    BY <1>1, <1>2, <2>1 DEF UndisturbedInv, Undisturbed, Active, Idle
<1>7. QED
  BY <1>3, <1>4, <1>5, <1>6 DEF IInv

LEMMA Inductive == Spec => []IInv
<1>1. IInv /\ [Next]_vars => IInv'
  BY NextType, NextLink, NextRead, NextBacked, NextUndisturbed DEF IInv
<1>2. QED
  BY <1>1, InitInv, PTL DEF Spec

\* Every reachable state of the row, the file, the queue, the handlers and the
\* workers is well typed, and no job is tried more than MaxTries times.
THEOREM TypeCorrect == Spec => []TypeOK
  BY Inductive, PTL DEF IInv

\* A document in progress has somebody to bring it to an outcome, under every
\* race of requests, unless a job was lost.
THEOREM NoDocumentForgotten == Spec => []ProgressBacked
<1>1. IInv => ProgressBacked
  BY DEF IInv, BackedInv, Backer, LinkInv, ProgressBacked
<1>2. QED
  BY <1>1, Inductive, PTL

\* For requests that do not disturb one another, any number of crashes, retries
\* and redeliveries leaves a succeeded document with exactly its job's chunks.
THEOREM IndexAgrees == Spec => []Searchable
<1>1. IInv => Searchable
  BY DEF IInv, UndisturbedInv, Undisturbed, Searchable
<1>2. QED
  BY <1>1, Inductive, PTL

\* The step relation that ReadableThroughout states.
StaysReadable == (chunks # {} /\ chunks' = {}) => (doc' = None \/ disturbed')

LEMMA StepReadable == IInv /\ [Next]_vars => StaysReadable
<1> SUFFICES ASSUME IInv, [Next]_vars, chunks # {}, chunks' = {}, ~disturbed', doc' # None
             PROVE  FALSE
  BY DEF StaysReadable
<1>1. ASSUME NEW w \in Workers, StoreChunks(w) PROVE FALSE
  <2>1. ~disturbed /\ disturbed' = disturbed
    BY <1>1 DEF StoreChunks, IInv, TypeOK
  <2>2. Undisturbed'
    BY <2>1, NextUndisturbed DEF IInv, UndisturbedInv
  <2>3. doc'.status = "succeeded"
    BY <1>1 DEF StoreChunks, IInv, TypeOK, Row
  <2>4. QED
    BY <2>2, <2>3 DEF Undisturbed, Searchable
<1>2. QED
  BY <1>1
     DEF Next, vars, Proceed, Attempt, OpenText, WriteText, CommitQueued,
         CommitRefused, Enqueue, EnqueueFails, AnswerUnavailable, DeleteRows,
         Unlink, HandlerDies, Admit, Take, Drop, ReadText, LoadRow, Begin, Clear,
         AttemptFails, MarkFailed, Ack, Crash, Abort

\* Reindexing never takes a document out of search.
THEOREM NeverUnsearchable == Spec => ReadableThroughout
<1>1. IInv /\ [Next]_vars => [StaysReadable]_vars
  BY StepReadable
<1>2. [][StaysReadable]_vars <=> ReadableThroughout
  BY PTL DEF StaysReadable, ReadableThroughout
<1>3. QED
  BY <1>1, <1>2, Inductive, PTL DEF Spec
=============================================================================
