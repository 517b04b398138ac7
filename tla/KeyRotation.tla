----------------------------- MODULE KeyRotation -----------------------------
(***************************************************************************)
(* Rotation of a tenant's key: services/crypto/service.py and its admin    *)
(* routes, apps/api/routes/crypto_admin.py.                                *)
(*                                                                         *)
(* A rotate request adds a key version and then, in the same handler, runs *)
(* a job that re-encrypts every blob of the old version.  Blobs are rows;  *)
(* the ciphertext of audio is a file, written in place before the commit   *)
(* that makes the row describe it.  The runner holds its job as it loaded  *)
(* it and reads no status again, so pause, resume and cancel only reach    *)
(* the row.  An action is one transaction or one file operation.           *)
(***************************************************************************)
EXTENDS Naturals, Sequences, FiniteSets

CONSTANTS
  Requests,     \* rotate requests; the id also names the job it creates
  FileBlobs,    \* blobs whose ciphertext is a file (resource type audio)
  InlineBlobs,  \* blobs whose ciphertext is a column of the row
  BatchSize,    \* crypto_reencrypt_batch_size
  MaxFaults,    \* bound on dying handlers and failing KMS or file calls
  Original,     \* the envelope a blob was stored with
  Garbage,      \* the content of a file whose write failed
  None

Blobs     == FileBlobs \cup InlineBlobs
Envelopes == Requests \cup {Original}

ASSUME RotationAssumption ==
  /\ FileBlobs \cap InlineBlobs = {}
  /\ IsFiniteSet(Blobs)
  /\ BatchSize \in Nat \ {0}
  /\ MaxFaults \in Nat
  /\ Garbage \notin Envelopes \cup {None}
  /\ Original \notin Requests
  /\ None \notin Envelopes \cup Blobs

VARIABLES
  key,      \* tenant_keys: the status of each version, by version
  row,      \* encrypted_blobs: key and envelope of each blob, or None
  file,     \* the ciphertext file of each FileBlob, by the envelope it fits
  job,      \* the status of each key_rotation_jobs row
  run,      \* the local state of each rotate request's handler
  store,    \* the local state of each blob's store_encrypted_blob
  faults,
  \* History variables, read by properties only.
  crossed,  \* a run began while another was at work, or towards a key that was
            \* no longer active by then
  late,     \* blobs stored under a key that was no longer active by then
  spoiled   \* blobs whose file was written and whose row was left behind

vars == <<key, row, file, job, run, store, faults, crossed, late, spoiled>>

Versions == Nat \ {0}
InProgress == {"queued", "running", "paused"}        \* _rotation_status_active
Over       == {"completed", "failed"}
JobStatus  == {"none"} \cup InProgress \cup Over

Row == [key : Versions, env : Envelopes]

\* A row of the batch as the runner loaded it.
Item == [blob : Blobs, env : Envelopes]

\* Where a handler is between starting its job and the end of it.
Working == {"count", "select", "batch", "write", "finish", "retire"}

Phases == Working \cup {"new", "cancel", "from", "active", "rotate", "check",
                        "insert", "start", "done"}

\* seen is the job a forced request found; todo and item are what is left of
\* the batch and what was decrypted; staged are the blobs that are changed in
\* memory and not committed; failed is failed_items > 0.
RunState ==
  [phase : Phases, seen : Requests \cup {None}, from : Nat, to : Nat,
   todo : SUBSET Item, item : Item \cup {None}, staged : SUBSET Blobs,
   total : Nat, processed : Nat, failed : BOOLEAN]

New == [phase |-> "new", seen |-> None, from |-> 0, to |-> 0, todo |-> {},
        item |-> None, staged |-> {}, total |-> 0, processed |-> 0,
        failed |-> FALSE]

Done == [New EXCEPT !.phase = "done"]

StoreState == [phase : {"new", "keyed", "written", "done"}, key : Nat]

\* The tenant has a key (the runbook's precondition).  A blob is there or not.
Init ==
  /\ key = <<"active">>
  /\ row \in [Blobs -> {None, [key |-> 1, env |-> Original]}]
  /\ file = [b \in FileBlobs |-> IF row[b] = None THEN None ELSE Original]
  /\ job = [q \in Requests |-> "none"]
  /\ run = [q \in Requests |-> New]
  /\ store = [b \in Blobs |-> [phase |-> IF row[b] = None THEN "new" ELSE "done",
                               key |-> 0]]
  /\ faults = 0
  /\ crossed = FALSE
  /\ late = {}
  /\ spoiled = {}

Goto(q, p) == run' = [run EXCEPT ![q].phase = p]
End(q) == run' = [run EXCEPT ![q] = Done]
Become(p, s) == job' = [job EXCEPT ![p] = s]

Fault == faults < MaxFaults /\ faults' = faults + 1

JobInProgress == \E p \in Requests : job[p] \in InProgress

\* What get_active_key finds.  (It always finds one; see NewestActive.)
IsActive(v) ==
  /\ v \in DOMAIN key /\ key[v] = "active"
  /\ \A u \in DOMAIN key : key[u] = "active" => u <= v

Under(v) == {b \in Blobs : row[b] # None /\ row[b].key = v}

-----------------------------------------------------------------------------
\* rotate_tenant_key.  With a job in progress a request is refused (409: no
\* step), unless it is forced.
BeginRotate(q) ==
  /\ run[q].phase = "new"
  /\ ~JobInProgress
  /\ Goto(q, "from")
  /\ UNCHANGED <<key, row, file, job, store, faults, crossed, late, spoiled>>

ForceRotate(q, p) ==
  /\ run[q].phase = "new"
  /\ job[p] \in InProgress
  /\ run' = [run EXCEPT ![q] = [@ EXCEPT !.phase = "cancel", !.seen = p]]
  /\ UNCHANGED <<key, row, file, job, store, faults, crossed, late, spoiled>>

\* cancel_rotation_job on the row it loaded, which was in progress.
CancelSeen(q) ==
  /\ run[q].phase = "cancel"
  /\ Become(run[q].seen, "failed")
  /\ run' = [run EXCEPT ![q] = [@ EXCEPT !.phase = "from", !.seen = None]]
  /\ UNCHANGED <<key, row, file, store, faults, crossed, late, spoiled>>

\* The handler's own get_active_key, for the job ...
LoadFrom(q, v) ==
  /\ run[q].phase = "from"
  /\ IsActive(v)
  /\ run' = [run EXCEPT ![q] = [@ EXCEPT !.phase = "active", !.from = v]]
  /\ UNCHANGED <<key, row, file, job, store, faults, crossed, late, spoiled>>

\* ... and that of rotate_key, for the next version.
LoadActive(q, v) ==
  /\ run[q].phase = "active"
  /\ IsActive(v)
  /\ run' = [run EXCEPT ![q] = [@ EXCEPT !.phase = "rotate", !.to = v + 1]]
  /\ UNCHANGED <<key, row, file, job, store, faults, crossed, late, spoiled>>

\* (Mutant of Rotate: versions are not unique, the insert of a second key of
\* the same version succeeds as one more.)
RotateTwice(q, reencrypt) ==
  /\ run[q].phase = "rotate"
  /\ key' = Append([key EXCEPT ![run[q].to - 1] = "retiring"], "active")
  /\ IF reencrypt THEN Goto(q, "check") ELSE End(q)
  /\ UNCHANGED <<row, file, job, store, faults, crossed, late, spoiled>>

\* The new version is inserted and the old one set to retiring, in one
\* transaction.
Rotate(q, reencrypt) ==
  /\ run[q].phase = "rotate"
  /\ run[q].to = Len(key) + 1
  /\ key' = Append([key EXCEPT ![run[q].to - 1] = "retiring"], "active")
  /\ IF reencrypt THEN Goto(q, "check") ELSE End(q)
  /\ UNCHANGED <<row, file, job, store, faults, crossed, late, spoiled>>

\* The version exists: uq_tenant_keys_version refuses it.
RotateRefused(q) ==
  /\ run[q].phase = "rotate"
  /\ run[q].to <= Len(key)
  /\ End(q)
  /\ UNCHANGED <<key, row, file, job, store, faults, crossed, late, spoiled>>

\* create_rotation_job looks for a job in progress (409, although the key has
\* been rotated) ...
CheckJobs(q) ==
  /\ run[q].phase = "check"
  /\ IF JobInProgress THEN End(q) ELSE Goto(q, "insert")
  /\ UNCHANGED <<key, row, file, job, store, faults, crossed, late, spoiled>>

\* ... and inserts its own; no constraint backs the check.
InsertJob(q) ==
  /\ run[q].phase = "insert"
  /\ Become(q, "queued")
  /\ Goto(q, "start")
  /\ UNCHANGED <<key, row, file, store, faults, crossed, late, spoiled>>

-----------------------------------------------------------------------------
\* run_rotation_job.  The copy it holds says queued, whatever the row says by
\* now: running is written.
Start(q) ==
  /\ run[q].phase = "start"
  /\ Become(q, "running")
  /\ Goto(q, "count")
  /\ crossed' = (\/ crossed
                 \/ \E p \in Requests : run[p].phase \in Working
                 \/ key[run[q].to] # "active")
  /\ UNCHANGED <<key, row, file, store, faults, late, spoiled>>

\* It was paused or cancelled between the insert and the read that follows it.
StartRefused(q) ==
  /\ run[q].phase = "start"
  /\ job[q] \in {"paused", "failed"}
  /\ End(q)
  /\ UNCHANGED <<key, row, file, job, store, faults, crossed, late, spoiled>>

CountItems(q) ==
  /\ run[q].phase = "count"
  /\ run' = [run EXCEPT ![q] = [@ EXCEPT !.phase = "select",
                                         !.total = Cardinality(Under(run[q].from))]]
  /\ UNCHANGED <<key, row, file, job, store, faults, crossed, late, spoiled>>

Loaded(bs) == {[blob |-> b, env |-> row[b].env] : b \in bs}

\* (Mutant of SelectBatch: only full batches are taken, the tail is left.)
SelectFullBatch(q, bs) ==
  /\ run[q].phase = "select"
  /\ bs \subseteq Under(run[q].from)
  /\ Cardinality(bs) = BatchSize
  /\ run' = [run EXCEPT ![q] = [@ EXCEPT !.phase = "batch", !.todo = Loaded(bs)]]
  /\ UNCHANGED <<key, row, file, job, store, faults, crossed, late, spoiled>>

\* The next batch, of any rows: the order of their ids is left open.
SelectBatch(q, bs) ==
  /\ run[q].phase = "select"
  /\ bs \subseteq Under(run[q].from)
  /\ bs # {}
  /\ bs = Under(run[q].from) \/ Cardinality(bs) = BatchSize
  /\ Cardinality(bs) <= BatchSize
  /\ run' = [run EXCEPT ![q] = [@ EXCEPT !.phase = "batch", !.todo = Loaded(bs)]]
  /\ UNCHANGED <<key, row, file, job, store, faults, crossed, late, spoiled>>

NoneLeft(q) ==
  /\ run[q].phase = "select"
  /\ Under(run[q].from) = {}
  /\ Goto(q, "finish")
  /\ UNCHANGED <<key, row, file, job, store, faults, crossed, late, spoiled>>

\* A blob whose ciphertext is in the row is decrypted and encrypted in memory.
ReencryptInline(q, i) ==
  /\ run[q].phase = "batch"
  /\ i \in run[q].todo /\ i.blob \in InlineBlobs
  /\ run' = [run EXCEPT ![q] = [@ EXCEPT !.todo = run[q].todo \ {i},
                                         !.staged = run[q].staged \cup {i.blob},
                                         !.processed = run[q].processed + 1]]
  /\ UNCHANGED <<key, row, file, job, store, faults, crossed, late, spoiled>>

\* decrypt_blob reads the file; it fits the loaded envelope or it does not.
Decrypt(q, i) ==
  /\ run[q].phase = "batch"
  /\ i \in run[q].todo /\ i.blob \in FileBlobs
  /\ run' = [run EXCEPT ![q] =
       IF file[i.blob] = i.env
       THEN [@ EXCEPT !.phase = "write", !.todo = run[q].todo \ {i}, !.item = i]
       ELSE [@ EXCEPT !.todo = run[q].todo \ {i}, !.failed = TRUE]]
  /\ UNCHANGED <<key, row, file, job, store, faults, crossed, late, spoiled>>

\* An item fails for want of the KMS; the loop goes on.
DecryptFails(q, i) ==
  /\ run[q].phase = "batch"
  /\ i \in run[q].todo
  /\ Fault
  /\ run' = [run EXCEPT ![q] = [@ EXCEPT !.todo = run[q].todo \ {i}, !.failed = TRUE]]
  /\ UNCHANGED <<key, row, file, job, store, crossed, late, spoiled>>

\* The new ciphertext goes over the old one in the file ...
Reencrypt(q) ==
  LET b == run[q].item.blob
  IN /\ run[q].phase = "write"
     /\ file' = [file EXCEPT ![b] = q]
     /\ run' = [run EXCEPT ![q] = [@ EXCEPT !.phase = "batch", !.item = None,
                                            !.staged = run[q].staged \cup {b},
                                            !.processed = run[q].processed + 1]]
     /\ UNCHANGED <<key, row, job, store, faults, crossed, late, spoiled>>

\* ... or the write fails after the file was truncated, and the loop goes on.
WriteFails(q) ==
  LET b == run[q].item.blob
  IN /\ run[q].phase = "write"
     /\ Fault
     /\ file' = [file EXCEPT ![b] = Garbage]
     /\ spoiled' = spoiled \cup {b}
     /\ run' = [run EXCEPT ![q] = [@ EXCEPT !.phase = "batch", !.item = None,
                                            !.failed = TRUE]]
     /\ UNCHANGED <<key, row, job, store, crossed, late>>

\* (Mutant of Described: the envelope is left out.)
DescribedKeyOnly(q) ==
  [b \in Blobs |-> IF b \in run[q].staged THEN [row[b] EXCEPT !.key = run[q].to]
                                          ELSE row[b]]

\* The rows after runner q committed its batch: every changed column of every
\* staged blob, over whatever another runner committed.
Described(q) ==
  [b \in Blobs |-> IF b \in run[q].staged THEN [key |-> run[q].to, env |-> q]
                                          ELSE row[b]]

CommitBatch(q) ==
  /\ run[q].phase = "batch"
  /\ run[q].todo = {}
  /\ row' = Described(q)
  /\ run' = [run EXCEPT ![q] = [@ EXCEPT !.phase = "select", !.staged = {}]]
  /\ UNCHANGED <<key, file, job, store, faults, crossed, late, spoiled>>

\* The copy says running: whatever the row says by now is written over.
Finish(q) ==
  LET failed == run[q].failed /\ run[q].processed < run[q].total
  IN /\ run[q].phase = "finish"
     /\ Become(q, IF failed THEN "failed" ELSE "completed")
     /\ IF failed THEN End(q) ELSE Goto(q, "retire")
     /\ UNCHANGED <<key, row, file, store, faults, crossed, late, spoiled>>

\* (Mutant of Retire: with the old key, all that came before it.)
RetireOlder(q) ==
  /\ run[q].phase = "retire"
  /\ key' = [v \in DOMAIN key |-> IF v <= run[q].from THEN "retired" ELSE key[v]]
  /\ End(q)
  /\ UNCHANGED <<row, file, job, store, faults, crossed, late, spoiled>>

Retire(q) ==
  /\ run[q].phase = "retire"
  /\ key' = [key EXCEPT ![run[q].from] = "retired"]
  /\ End(q)
  /\ UNCHANGED <<row, file, job, store, faults, crossed, late, spoiled>>

\* The instance dies or the database fails: what was not committed is gone, the
\* files stay as they are, and so does the job's row.
Die(q) ==
  /\ run[q].phase \notin {"new", "done"}
  /\ Fault
  /\ spoiled' = spoiled \cup (run[q].staged \cap FileBlobs)
  /\ End(q)
  /\ UNCHANGED <<key, row, file, job, store, crossed, late>>

-----------------------------------------------------------------------------
\* The pause, resume and cancel routes load a job, decide by the status they
\* loaded and commit theirs.  Every job was in progress once, and may have been
\* paused; the request may have loaded it then, so it is one step, at any time.
CommitJob(p, status) ==
  /\ job[p] # "none"
  /\ status \in {"paused", "queued", "failed"}
  /\ Become(p, status)
  /\ UNCHANGED <<key, row, file, run, store, faults, crossed, late, spoiled>>

-----------------------------------------------------------------------------
\* store_encrypted_blob reads the active key, ...
LoadStoreKey(b, v) ==
  /\ store[b].phase = "new"
  /\ IsActive(v)
  /\ store' = [store EXCEPT ![b] = [phase |-> "keyed", key |-> v]]
  /\ UNCHANGED <<key, row, file, job, run, faults, crossed, late, spoiled>>

\* ... writes the ciphertext file if the blob has one, ...
WriteFile(b) ==
  /\ store[b].phase = "keyed"
  /\ b \in FileBlobs
  /\ file' = [file EXCEPT ![b] = Original]
  /\ store' = [store EXCEPT ![b].phase = "written"]
  /\ UNCHANGED <<key, row, job, run, faults, crossed, late, spoiled>>

\* ... and inserts the row.
StoreBlob(b) ==
  /\ store[b].phase = IF b \in FileBlobs THEN "written" ELSE "keyed"
  /\ row' = [row EXCEPT ![b] = [key |-> store[b].key, env |-> Original]]
  /\ late' = IF key[store[b].key] = "active" THEN late ELSE late \cup {b}
  /\ store' = [store EXCEPT ![b].phase = "done"]
  /\ UNCHANGED <<key, file, job, run, faults, crossed, spoiled>>

-----------------------------------------------------------------------------
\* The steps a rotate request takes by itself once it is under way.
Advance(q) ==
  \/ CancelSeen(q)
  \/ \E v \in DOMAIN key : LoadFrom(q, v) \/ LoadActive(q, v)
  \/ \E reencrypt \in BOOLEAN : Rotate(q, reencrypt)
  \/ RotateRefused(q) \/ CheckJobs(q) \/ InsertJob(q) \/ Start(q)
  \/ StartRefused(q) \/ CountItems(q)
  \/ \E bs \in SUBSET Blobs : SelectBatch(q, bs)
  \/ NoneLeft(q)
  \/ \E i \in run[q].todo : ReencryptInline(q, i) \/ Decrypt(q, i) \/ DecryptFails(q, i)
  \/ Reencrypt(q) \/ WriteFails(q) \/ CommitBatch(q) \/ Finish(q) \/ Retire(q)

Next ==
  \/ \E q \in Requests : BeginRotate(q) \/ (\E p \in Requests : ForceRotate(q, p))
                         \/ Advance(q) \/ Die(q)
  \/ \E p \in Requests, status \in InProgress \cup Over : CommitJob(p, status)
  \/ \E b \in Blobs : (\E v \in DOMAIN key : LoadStoreKey(b, v))
                      \/ WriteFile(b) \/ StoreBlob(b)

Spec == Init /\ [][Next]_vars

\* A handler that is under way goes on; nothing is assumed of anyone else.
FairSpec == Spec /\ \A q \in Requests : WF_vars(Advance(q))

-----------------------------------------------------------------------------
TypeOK ==
  /\ key \in Seq({"active", "retiring", "retired"})
  /\ row \in [Blobs -> Row \cup {None}]
  /\ file \in [FileBlobs -> Envelopes \cup {Garbage, None}]
  /\ job \in [Requests -> JobStatus]
  /\ run \in [Requests -> RunState]
  /\ store \in [Blobs -> StoreState]
  /\ faults \in 0..MaxFaults
  /\ crossed \in BOOLEAN
  /\ late \subseteq Blobs
  /\ spoiled \subseteq FileBlobs

\* "Verify new key is active and old key is retired": the active key of a
\* tenant is its newest and no other, however rotations, cancelled and dying
\* runs and late retirements interleave.
NewestActive == \A v \in DOMAIN key : key[v] = "active" <=> v = Len(key)

Readable(b) == file[b] = row[b].env

\* A stored blob can be decrypted unless a run has its file ahead of its row at
\* this moment, a run was struck down or failed just then, or two runs were at
\* work at once.
Intact ==
  \A b \in FileBlobs : row[b] # None /\ ~Readable(b) =>
    \/ \E q \in Requests : b \in run[q].staged
    \/ b \in spoiled
    \/ crossed

\* A retired key has nothing left under it, but for blobs of requests that read
\* it before the rotation and inserted after, or if two runs were at work.
RetiredEmpty ==
  \A b \in Blobs : row[b] # None /\ key[row[b].key] = "retired" => b \in late \/ crossed

\* A rotation comes to an end, whatever pause, resume and cancel do, unless a
\* file is spoiled or two runs were at work.
RotationEnds ==
  \A q \in Requests : run[q].phase \in Working
    ~> run[q].phase \notin Working \/ spoiled # {} \/ crossed

\* Runbook key-rotation-execution "Rotation does not delete data; it re-encrypts
\* envelope payloads": when no rotation is under way, every blob can be read.
DataKept ==
  (\A q \in Requests : run[q].phase \in {"new", "done"}) =>
    \A b \in FileBlobs : row[b] # None => Readable(b)
=============================================================================
