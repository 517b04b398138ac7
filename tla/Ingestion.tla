------------------------------ MODULE Ingestion ------------------------------
(***************************************************************************)
(* The life of one document: the write, reindex and delete handlers of     *)
(* apps/api/routes/documents.py, the arq queue between the API and the     *)
(* workers, and the ingestion attempt of services/ingest.                  *)
(*                                                                         *)
(* Every request has an id, which is also the id of the job it enqueues.   *)
(* The document row, its chunks and its stored text file are shared by all *)
(* of them; the row and the chunks are transactional, the file is not.     *)
(* An action is one transaction, one file operation or one queue command.  *)
(***************************************************************************)
EXTENDS Naturals, FiniteSets

CONSTANTS
  Requests,   \* request ids
  First,      \* the request that ingested the document before the model starts
  Workers,    \* ingestion workers, each running one job at a time
  MaxTries,   \* ingest_max_retries, both the code's and arq's max_tries
  MaxFaults,  \* bound on crashes and failing calls
  Empty,      \* the content of a file that was opened for writing, not written
  None

Ids == Requests \cup {First}

\* status and last_job_id of the row.
Row == [status : {"queued", "processing", "succeeded", "failed"}, job : Ids]

ASSUME IngestionAssumption ==
  /\ MaxTries \in Nat \ {0}
  /\ MaxFaults \in Nat
  /\ Empty \notin Ids \cup {None}
  /\ None \notin Ids \cup Row
  /\ First \notin Requests

VARIABLES
  doc,        \* the documents row, or None
  file,       \* the stored text: the write it came from, Empty, or None
  chunks,     \* the committed chunks, one element for each job that inserted some
  handler,    \* the local state of each request's handler
  job,        \* the arq message of each request, with its job_try counter
  worker,     \* the local state of each worker's attempt
  faults,     \* crashes and failing calls so far
  \* History variables, read by properties only.
  disturbed,  \* a request acted on a stale read, on a document that another
              \* request or job was still working on, or left an unpaired file
  lost        \* a job ended, or never started, without a word in the row

vars == <<doc, file, chunks, handler, job, worker, faults, disturbed, lost>>

Texts == Ids \cup {Empty}
Kinds == {"write", "reindex", "delete"}

InProgress == doc # None /\ doc.status \in {"queued", "processing"}

\* seen is the row as the handler loaded it.
HandlerState ==
  [phase : {"new", "admitted", "storing", "stored", "enqueue", "failing",
            "unlink", "done"},
   kind : Kinds, seen : Row \cup {None}]

\* A message is in the queue, with a worker, or absent (before and after).
Message == [place : {"none", "queued", "running", "over"}, tries : 0..MaxTries]

Generation == [job : Ids, text : Ids]

\* text is what the attempt read, mem the row its session loaded, gone the
\* chunks its uncommitted transaction has deleted.
WorkerState ==
  [phase : {"idle", "read", "load", "begin", "clear", "commit", "mark", "ack"},
   job : Requests \cup {None}, text : Texts \cup {None},
   mem : Row \cup {None}, gone : SUBSET Generation]

Idle == [phase |-> "idle", job |-> None, text |-> None, mem |-> None, gone |-> {}]

-----------------------------------------------------------------------------
\* Before: no document, or one that was ingested.
Init ==
  /\ \/ doc = None /\ file = None /\ chunks = {}
     \/ /\ doc = [status |-> "succeeded", job |-> First]
        /\ file = First
        /\ chunks = {[job |-> First, text |-> First]}
  /\ handler = [r \in Requests |-> [phase |-> "new", kind |-> "write", seen |-> None]]
  /\ job = [r \in Requests |-> [place |-> "none", tries |-> 0]]
  /\ worker = [w \in Workers |-> Idle]
  /\ faults = 0
  /\ disturbed = FALSE
  /\ lost = FALSE

\* A crash, or a call that fails, within the bound.
Fault == faults < MaxFaults /\ faults' = faults + 1

Phase(r, p) == handler' = [handler EXCEPT ![r].phase = p]
Step(w, p)  == worker' = [worker EXCEPT ![w].phase = p]

\* r is changing the document, or still has a job for it; and someone else is.
Active(r) ==
  \/ handler[r].phase \notin {"new", "admitted", "done"}
  \/ job[r].place \in {"queued", "running"}

Busy(r) == \E q \in Requests \ {r} : Active(q)

Disturb(b) == disturbed' = (disturbed \/ b)

\* What r loaded no longer holds, or r is not alone.
Racing(r) == doc # handler[r].seen \/ Busy(r)

\* No open transaction of an attempt holds row locks on chunks it deleted.
ChunksFree ==
  \A w \in Workers : worker[w].phase = "commit" => worker[w].gone \cap chunks = {}

-----------------------------------------------------------------------------
\* A handler loads the row and lets the request pass.  Every other request is
\* answered at once (200 for a write to a document in progress or one without
\* overwrite, 404, 409) and changes nothing, so it is no step of the model.
Admit(r, k) ==
  /\ handler[r].phase = "new"
  /\ ~InProgress
  /\ k # "write" => doc # None
  /\ handler' = [handler EXCEPT ![r] = [phase |-> "admitted", kind |-> k, seen |-> doc]]
  /\ UNCHANGED <<doc, file, chunks, job, worker, faults, disturbed, lost>>

\* write_text_to_storage opens the file, which empties it, and writes it, all
\* before the row says anything of the new text.
OpenText(r) ==
  /\ handler[r].phase = "admitted" /\ handler[r].kind = "write"
  /\ file' = Empty
  /\ Phase(r, "storing")
  /\ Disturb(Racing(r))
  /\ UNCHANGED <<doc, chunks, job, worker, faults, lost>>

WriteText(r) ==
  /\ handler[r].phase = "storing"
  /\ file' = r
  /\ Phase(r, "stored")
  /\ UNCHANGED <<doc, chunks, job, worker, faults, disturbed, lost>>

Ready(r) ==
  \/ handler[r].phase = "stored"
  \/ handler[r].phase = "admitted" /\ handler[r].kind = "reindex"

\* The row is inserted or updated: queued, with this request as its job.  A
\* settled status was loaded, so the status column is always written.
CommitQueued(r) ==
  /\ Ready(r)
  /\ (handler[r].seen = None) <=> (doc = None)
  /\ doc' = [status |-> "queued", job |-> r]
  /\ Phase(r, "enqueue")
  /\ Disturb(Racing(r))
  /\ UNCHANGED <<file, chunks, job, worker, faults, lost>>

\* Someone else created the row (IntegrityError) or deleted it (StaleDataError),
\* or the database fails, also under a delete: 500, and a text stays stored.
CommitRefused(r) ==
  /\ \/ Ready(r) /\ ~((handler[r].seen = None) <=> (doc = None)) /\ UNCHANGED faults
     \/ Ready(r) /\ Fault
     \/ handler[r].phase = "admitted" /\ handler[r].kind = "delete" /\ Fault
  /\ Phase(r, "done")
  /\ Disturb(handler[r].phase = "stored")
  /\ UNCHANGED <<doc, file, chunks, job, worker, lost>>

Enqueue(r) ==
  /\ handler[r].phase = "enqueue"
  /\ job' = [job EXCEPT ![r].place = "queued"]
  /\ Phase(r, "done")
  /\ UNCHANGED <<doc, file, chunks, worker, faults, disturbed, lost>>

\* The enqueue raises, before Redis stored the message or after.
EnqueueFails(r) ==
  /\ handler[r].phase = "enqueue"
  /\ Fault
  /\ \/ UNCHANGED job
     \/ job' = [job EXCEPT ![r].place = "queued"]
  /\ Phase(r, "failing")
  /\ UNCHANGED <<doc, file, chunks, worker, disturbed, lost>>

\* (Mutant of Unqueued: the 503 is answered, the row is left alone.)
UnqueuedSilently(r) == doc

\* The row after update_status of _enqueue_or_fail.  The handler of an update
\* still holds its loaded copy, whose last_job_id is r: only the status is
\* written.  That of an insert has dropped it and loads the row again.
Unqueued(r) ==
  IF doc = None THEN None
  ELSE [status |-> "failed", job |-> IF handler[r].seen = None THEN r ELSE doc.job]

AnswerUnavailable(r) ==
  /\ handler[r].phase = "failing"
  /\ doc' = Unqueued(r)
  /\ Phase(r, "done")
  /\ UNCHANGED <<file, chunks, job, worker, faults, disturbed, lost>>

\* One transaction removes chunks and row, whatever the row says by now.  Had
\* it to wait for an attempt's row locks, it would meet the new chunks at the
\* row's foreign key, and be refused.
DeleteRows(r) ==
  /\ handler[r].phase = "admitted" /\ handler[r].kind = "delete"
  /\ ChunksFree
  /\ doc' = None
  /\ chunks' = {}
  /\ Phase(r, "unlink")
  /\ Disturb(Racing(r))
  /\ UNCHANGED <<file, job, worker, faults, lost>>

Unlink(r) ==
  /\ handler[r].phase = "unlink"
  /\ file' = None
  /\ Phase(r, "done")
  /\ Disturb(doc # None \/ Busy(r))
  /\ UNCHANGED <<doc, chunks, job, worker, faults, lost>>

\* The API instance dies: nothing of the handler is left but what it wrote.
HandlerDies(r) ==
  /\ handler[r].phase \notin {"new", "done"}
  /\ Fault
  /\ Phase(r, "done")
  /\ Disturb(handler[r].phase \in {"storing", "stored", "unlink"})
  /\ lost' = (lost \/ handler[r].phase \in {"enqueue", "failing"})
  /\ UNCHANGED <<doc, file, chunks, job, worker>>

-----------------------------------------------------------------------------
Startable(r) == job[r].place = "queued" /\ job[r].tries < MaxTries

\* arq hands a job to an idle worker and counts the attempt.
Take(w, r) ==
  /\ worker[w].phase = "idle"
  /\ Startable(r)
  /\ job' = [job EXCEPT ![r] = [place |-> "running", tries |-> @.tries + 1]]
  /\ worker' = [worker EXCEPT ![w] = [Idle EXCEPT !.phase = "read", !.job = r]]
  /\ UNCHANGED <<doc, file, chunks, handler, faults, disturbed, lost>>

\* arq discards a job whose worker died on the last attempt.
Drop(r) ==
  /\ job[r].place = "queued" /\ job[r].tries >= MaxTries
  /\ job' = [job EXCEPT ![r].place = "over"]
  /\ lost' = TRUE
  /\ UNCHANGED <<doc, file, chunks, handler, worker, faults, disturbed>>

\* A missing file is final (FileNotFoundError is not retryable).
ReadText(w) ==
  /\ worker[w].phase = "read"
  /\ IF file = None
       THEN Step(w, "mark")
       ELSE worker' = [worker EXCEPT ![w] = [@ EXCEPT !.phase = "load", !.text = file]]
  /\ UNCHANGED <<doc, file, chunks, handler, job, faults, disturbed, lost>>

\* ingest_document returns 0 when there is no row.
LoadRow(w) ==
  /\ worker[w].phase = "load"
  /\ worker' = [worker EXCEPT ![w] =
       [@ EXCEPT !.phase = IF doc = None THEN "ack" ELSE "begin", !.mem = doc]]
  /\ UNCHANGED <<doc, file, chunks, handler, job, faults, disturbed, lost>>

\* The first commit of _ingest_with_session: a column is written only if it
\* differs from the loaded row.
Begin(w) ==
  /\ worker[w].phase = "begin" /\ doc # None
  /\ LET mem == worker[w].mem
     IN doc' = [status |-> IF mem.status = "processing" THEN doc.status
                                                        ELSE "processing",
                job    |-> IF mem.job = worker[w].job THEN doc.job
                                                      ELSE worker[w].job]
  /\ Step(w, "clear")
  /\ UNCHANGED <<file, chunks, handler, job, faults, disturbed, lost>>

\* (Mutant of Clear: the delete is committed on its own.)
ClearCommitted(w) ==
  /\ worker[w].phase = "clear"
  /\ chunks' = {}
  /\ worker' = [worker EXCEPT ![w] = [@ EXCEPT !.phase = "commit", !.gone = {}]]
  /\ UNCHANGED <<doc, file, handler, job, faults, disturbed, lost>>

\* The transaction that stores the chunks first deletes those its snapshot
\* shows.  It then waits for another that deleted some of them, without looking
\* again; the model lets the two commit in either order, which ends the same.
Clear(w) ==
  /\ worker[w].phase = "clear"
  /\ worker' = [worker EXCEPT ![w] = [@ EXCEPT !.phase = "commit", !.gone = chunks]]
  /\ UNCHANGED <<doc, file, chunks, handler, job, faults, disturbed, lost>>

\* The chunks made of the text that was read: none, of an empty text.
Made(w) ==
  IF worker[w].text = Empty THEN {}
  ELSE {[job |-> worker[w].job, text |-> worker[w].text]}

\* (Mutant of Remaining: the attempt keeps what it found.)
RemainingAll(w) == chunks

Remaining(w) == chunks \ worker[w].gone

StoreChunks(w) ==
  /\ worker[w].phase = "commit" /\ doc # None
  /\ chunks' = Remaining(w) \cup Made(w)
  /\ doc' = [doc EXCEPT !.status = "succeeded"]
  /\ Step(w, "ack")
  /\ UNCHANGED <<file, handler, job, faults, disturbed, lost>>

\* (Mutant of Requeued: a retry is raised, the message is gone.)
RequeuedNot(r) == [job EXCEPT ![r].place = "over"]

Requeued(r) == [job EXCEPT ![r].place = "queued"]

\* An attempt fails and is rolled back: the row is gone (StaleDataError, foreign
\* key) or a call failed.  Retry while attempts are left, else mark and finish.
AttemptFails(w) ==
  /\ \/ worker[w].phase \in {"begin", "commit"} /\ doc = None /\ UNCHANGED faults
     \/ worker[w].phase \in {"read", "load", "begin", "clear", "commit"} /\ Fault
  /\ IF job[worker[w].job].tries < MaxTries
       THEN /\ job' = Requeued(worker[w].job)
            /\ worker' = [worker EXCEPT ![w] = Idle]
       ELSE Step(w, "mark") /\ UNCHANGED job
  /\ UNCHANGED <<doc, file, chunks, handler, disturbed, lost>>

\* _mark_document_failed writes over whatever the row says, in its own session.
MarkFailed(w) ==
  /\ worker[w].phase = "mark"
  /\ doc' = IF doc = None THEN None ELSE [status |-> "failed", job |-> worker[w].job]
  /\ Step(w, "ack")
  /\ UNCHANGED <<file, chunks, handler, job, faults, disturbed, lost>>

Ack(w) ==
  /\ worker[w].phase = "ack"
  /\ job' = [job EXCEPT ![worker[w].job].place = "over"]
  /\ worker' = [worker EXCEPT ![w] = Idle]
  /\ UNCHANGED <<doc, file, chunks, handler, faults, disturbed, lost>>

\* The worker dies and arq delivers the job again, even one that had succeeded.
Crash(w) ==
  /\ worker[w].phase # "idle"
  /\ Fault
  /\ job' = [job EXCEPT ![worker[w].job].place = "queued"]
  /\ worker' = [worker EXCEPT ![w] = Idle]
  /\ UNCHANGED <<doc, file, chunks, handler, disturbed, lost>>

\* arq cancels an attempt that takes too long, which no handler of Exception
\* sees, or _mark_document_failed itself raises: the job ends as it is.
Abort(w) ==
  /\ worker[w].phase \notin {"idle", "ack"}
  /\ Fault
  /\ job' = [job EXCEPT ![worker[w].job].place = "over"]
  /\ worker' = [worker EXCEPT ![w] = Idle]
  /\ lost' = TRUE
  /\ UNCHANGED <<doc, file, chunks, handler, disturbed>>

-----------------------------------------------------------------------------
\* What a handler, once it started, does until it answers.
Proceed(r) ==
  \/ OpenText(r) \/ WriteText(r) \/ CommitQueued(r) \/ CommitRefused(r)
  \/ Enqueue(r) \/ EnqueueFails(r) \/ AnswerUnavailable(r)
  \/ DeleteRows(r) \/ Unlink(r)

\* What a worker does with the job it has.
Attempt(w) ==
  \/ ReadText(w) \/ LoadRow(w) \/ Begin(w) \/ Clear(w) \/ StoreChunks(w)
  \/ AttemptFails(w) \/ MarkFailed(w) \/ Ack(w)

Next ==
  \/ \E r \in Requests : (\E k \in Kinds : Admit(r, k)) \/ Proceed(r)
                         \/ HandlerDies(r) \/ Drop(r)
  \/ \E w \in Workers : (\E r \in Requests : Take(w, r)) \/ Attempt(w)
                        \/ Crash(w) \/ Abort(w)

Spec == Init /\ [][Next]_vars

\* The event loops run every handler and attempt they started, and arq polls
\* its queue.  Nothing makes a client send a request.
Fairness ==
  /\ \A r \in Requests : WF_vars(Proceed(r)) /\ WF_vars(Drop(r))
  /\ \A w \in Workers : WF_vars(Attempt(w)) /\ WF_vars(\E r \in Requests : Take(w, r))

FairSpec == Spec /\ Fairness

-----------------------------------------------------------------------------
\* Every variable has its type, and no job is tried more often than allowed.
TypeOK ==
  /\ doc \in Row \cup {None}
  /\ file \in Texts \cup {None}
  /\ chunks \subseteq Generation
  /\ handler \in [Requests -> HandlerState]
  /\ job \in [Requests -> Message]
  /\ worker \in [Workers -> WorkerState]
  /\ faults \in 0..MaxFaults
  /\ disturbed \in BOOLEAN
  /\ lost \in BOOLEAN

\* What is searched is what the row says: while requests for the document come
\* one after the other, a succeeded document has exactly the chunks of its last
\* job, cut from the text now stored (unless a write is about to requeue it),
\* however often attempts crashed, failed, were retried or delivered again on
\* the way.
Searchable ==
  (doc # None /\ doc.status = "succeeded" /\ ~disturbed) =>
    \E g \in Generation :
      /\ chunks = {g}
      /\ g.job = doc.job
      /\ g.text = file \/ \E r \in Requests : handler[r].phase \in {"storing", "stored"}

\* A document shown as queued or processing is on its way: a job for it is
\* queued or running, or a handler is about to enqueue one, unless a crash, a
\* timeout or a dropped job left it behind.  This holds under any races.
ProgressBacked ==
  (InProgress /\ ~lost) =>
    \E r \in Requests :
      \/ job[r].place \in {"queued", "running"}
      \/ handler[r].phase \in {"enqueue", "failing"}

\* Reindexing never takes a document out of search: its chunks vanish only with
\* the document, or where a racing write left an empty file to be read.
ReadableThroughout ==
  [][(chunks # {} /\ chunks' = {}) => (doc' = None \/ disturbed')]_vars

\* A document in progress gets an outcome, unless its job was lost.
Settles == InProgress ~> (~InProgress \/ lost)
=============================================================================
