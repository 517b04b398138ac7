----------------------------- MODULE Governance -----------------------------
(***************************************************************************)
(* Legal holds against everything that erases content: retention runs and  *)
(* data subject requests (services/governance.py), document deletion       *)
(* (apps/api/routes/documents.py) and the pruning of backups               *)
(* (services/maintenance.py, services/backup.py).                          *)
(*                                                                         *)
(* All of them look for holds first and erase later, in other transactions *)
(* or on the file system, while holds are placed, released and expire.     *)
(* Deleted and anonymized content are both erased here.                    *)
(***************************************************************************)
EXTENDS Naturals, FiniteSets

CONSTANTS
  Tenants, Documents, Sessions, Keys, Backups,
  Owner,     \* the tenant of each document, session and API key
  Ops,       \* requests and maintenance tasks that erase
  MaxHolds,  \* bound on the holds in force at a time
  None       \* no subject: a hold or a request of the whole tenant

Owned    == Documents \cup Sessions \cup Keys
Subjects == Owned \cup Backups

ASSUME GovernanceAssumption ==
  /\ Owner \in [Owned -> Tenants]
  /\ Backups \cap Owned = {}
  /\ None \notin Subjects
  /\ MaxHolds \in Nat

\* What can be erased of a subject.  A backup set holds data of every tenant.
Parts(x) == CASE x \in Documents -> {"row", "chunks", "file"}
              [] x \in Sessions  -> {"messages", "checkpoints"}
              [] x \in Keys      -> {"key"}
              [] OTHER           -> {"files"}
PartNames == {"row", "chunks", "file", "messages", "checkpoints", "key", "files"}
Piece     == Subjects \X PartNames
Pieces    == {p \in Piece : p[2] \in Parts(p[1])}
Expiring  == {p \in Pieces : p[2] \in {"row", "chunks", "messages", "checkpoints"}}

\* Legal holds.  scope None holds the tenant; a backup set may be held by any
\* tenant, everything else by its owner.
Hold == {h \in [tenant : Tenants, scope : Subjects \cup {None}] :
           h.scope \in Owned => h.tenant = Owner[h.scope]}

VARIABLES
  holds,   \* holds that are active and not expired
  kept,    \* pieces whose content is still there
  job,     \* backup_jobs.status
  status,  \* status of the retention run or DSAR request each op recorded
  op,      \* the local state of each op's handler
  since,   \* (history) holds in force without a break since an op in progress arrived
  did      \* (history) whether each op erased anything

vars == <<holds, kept, job, status, op, since, did>>

Phases == {"idle", "pending", "policy", "holds", "rows", "files", "report",
           "check", "load", "apply", "unlink", "over"}

\* mode anonymize only matters for a DSAR request of a tenant.  seen: the holds a
\* retention or prune loaded; rows, marks: what it changed and did not commit yet.
OpState == [phase : Phases, kind : {"none", "retention", "dsar", "delete", "prune"},
            tenant : Tenants \cup {None}, subject : Subjects \cup {None},
            anonymize : BOOLEAN, seen : SUBSET Hold, rows : SUBSET Piece,
            marks : SUBSET Backups]

New(k, t, s, p) ==
  [phase |-> p, kind |-> k, tenant |-> t, subject |-> s, anonymize |-> FALSE,
   seen |-> {}, rows |-> {}, marks |-> {}]

Init ==
  /\ holds = {}
  /\ kept = Pieces
  /\ job = [b \in Backups |-> "succeeded"]
  /\ status = [o \in Ops |-> "none"]
  /\ op = [o \in Ops |-> New("none", None, None, "idle")]
  /\ since = [o \in Ops |-> {}]
  /\ did = [o \in Ops |-> FALSE]

\* _hold_matches_scope: does h stop an operation on s (None: on the tenant)?
Matches(h, s) == h.scope = None \/ h.scope = s

\* list_active_legal_holds.
ActiveHolds(t) == {h \in holds : h.tenant = t}

At(o, k, p) == op[o].kind = k /\ op[o].phase = p
Goto(o, p)  == op' = [op EXCEPT ![o].phase = p]

\* The handler ends.  Of a DSAR request its row says what was asked for.
Request(rec) == [New(rec.kind, rec.tenant, rec.subject, "over")
                   EXCEPT !.anonymize = rec.anonymize]
Done(o) ==
  /\ op' = [op EXCEPT ![o] = IF @.kind = "dsar" THEN Request(@)
                             ELSE New("none", None, None, "over")]
  /\ since' = [since EXCEPT ![o] = {}]

Erase(o, ps) ==
  /\ kept' = kept \ ps
  /\ did' = [did EXCEPT ![o] = @ \/ ps \cap kept # {}]

Record(o, s) == status' = [status EXCEPT ![o] = s]

Arrive(o, rec) ==
  /\ op[o].phase = "idle"
  /\ op' = [op EXCEPT ![o] = rec]
  /\ since' = [since EXCEPT ![o] = holds]
  /\ UNCHANGED <<holds, kept, job, did>>

-----------------------------------------------------------------------------
\* Holds.
CreateHold(h) ==
  /\ h \notin holds
  /\ Cardinality(holds) < MaxHolds
  /\ holds' = holds \cup {h}
  /\ UNCHANGED <<kept, job, status, op, since, did>>

\* release_legal_hold, or expires_at passes.
EndHold(h) ==
  /\ h \in holds
  /\ holds' = holds \ {h}
  /\ since' = [o \in Ops |-> since[o] \ {h}]
  /\ UNCHANGED <<kept, job, status, op, did>>

-----------------------------------------------------------------------------
\* run_retention_for_tenant.
StartRetention(o, t) ==
  /\ Arrive(o, New("retention", t, None, "holds"))
  /\ Record(o, "running")

ReadHolds(o) ==
  /\ At(o, "retention", "holds")
  /\ op' = [op EXCEPT ![o] = [@ EXCEPT !.phase = "rows", !.seen = ActiveHolds(op[o].tenant)]]
  /\ UNCHANGED <<holds, kept, job, status, since, did>>

\* (Mutant of Spared: checkpoints of a held session are not spared.)
SparedMessages(o, p) ==
  /\ p[2] # "checkpoints"
  /\ \E h \in op[o].seen : Matches(h, p[1])

Spared(o, p) == \E h \in op[o].seen : Matches(h, p[1])

\* _process_messages, _process_checkpoints, _process_documents: expired is what the
\* policy's TTLs reach (a document with its chunks; files stay on disk).
EraseRows(o, expired) ==
  /\ At(o, "retention", "rows")
  /\ \A p \in expired : Owner[p[1]] = op[o].tenant
  /\ \A d \in Documents : <<d, "row">> \in expired <=> <<d, "chunks">> \in expired
  /\ op' = [op EXCEPT ![o] = [@ EXCEPT !.phase = "files",
                                       !.rows = {p \in expired : ~Spared(o, p)}]]
  /\ UNCHANGED <<holds, kept, job, status, since, did>>

\* _process_backups and prune_backups remove an expired set at once, ignoring
\* errors, and mark its job in the session.
RemoveBackup(o, b) ==
  /\ op[o].phase = "files"
  /\ ~Spared(o, <<b, "files">>)
  /\ <<b, "files">> \in kept
  /\ b \notin op[o].marks
  /\ \/ Erase(o, {<<b, "files">>})
     \/ UNCHANGED <<kept, did>>
  /\ op' = [op EXCEPT ![o].marks = @ \cup {b}]
  /\ UNCHANGED <<holds, job, status, since>>

\* (Mutant of Marked: a status that jobs do not have.)
MarkedDeleted(o) == [b \in Backups |-> IF b \in op[o].marks THEN "deleted" ELSE job[b]]

Marked(o) == [b \in Backups |-> IF b \in op[o].marks THEN "pruned" ELSE job[b]]

\* The event of a skipped category commits the session before the run is over ...
CommitSkips(o) ==
  /\ At(o, "retention", "files")
  /\ op[o].seen # {}
  /\ Erase(o, op[o].rows)
  /\ job' = Marked(o)
  /\ Goto(o, "report")
  /\ UNCHANGED <<holds, status, since>>

\* ... and with it, or without any, the last commit reports it completed.
FinishRetention(o) ==
  /\ op[o].kind = "retention" /\ op[o].phase \in {"files", "report"}
  /\ Erase(o, op[o].rows)
  /\ job' = Marked(o)
  /\ Record(o, "completed")
  /\ Done(o)
  /\ UNCHANGED <<holds>>

\* An error of the file system commits what was done so far, with status failed.
\* After one of the database nothing can be committed any more (see Crash).
RetentionFails(o) ==
  /\ op[o].kind = "retention" /\ op[o].phase = "files"
  /\ Erase(o, op[o].rows)
  /\ job' = Marked(o)
  /\ Record(o, "failed")
  /\ Done(o)
  /\ UNCHANGED <<holds>>

-----------------------------------------------------------------------------
\* backup_prune_retention looks at backup_set holds alone, those of all tenants.
StartPrune(o) ==
  /\ Arrive(o, New("prune", None, None, "holds"))
  /\ UNCHANGED status

ReadScopes(o) ==
  /\ At(o, "prune", "holds")
  /\ op' = [op EXCEPT ![o] = [@ EXCEPT !.phase = "files",
                                       !.seen = {h \in holds : h.scope \in Backups}]]
  /\ UNCHANGED <<holds, kept, job, status, since, did>>

FinishPrune(o) ==
  /\ At(o, "prune", "files")
  /\ job' = Marked(o)
  /\ Done(o)
  /\ UNCHANGED <<holds, kept, status, did>>

-----------------------------------------------------------------------------
\* submit_dsar_request, delete or anonymize, of subject s (None: the tenant).
SubmitDsar(o, t, s, anonymize) ==
  /\ s \in Owned => Owner[s] = t
  /\ anonymize => s = None
  /\ Arrive(o, [New("dsar", t, s, "pending") EXCEPT !.anonymize = anonymize])
  /\ Record(o, "pending")

RunDsar(o) ==
  /\ At(o, "dsar", "pending")
  /\ Record(o, "running")
  /\ Goto(o, "policy")
  /\ UNCHANGED <<holds, kept, job, since, did>>

\* The policy engine denies it, or wants an approval nobody can give.
PolicyRejects(o) ==
  /\ At(o, "dsar", "policy")
  /\ Record(o, "rejected")
  /\ Done(o)
  /\ UNCHANGED <<holds, kept, job, did>>

\* find_applicable_legal_hold.
Held(o) == \E h \in ActiveHolds(op[o].tenant) : Matches(h, op[o].subject)

HoldRejects(o) ==
  /\ At(o, "dsar", "policy")
  /\ Held(o)
  /\ Record(o, "rejected")
  /\ Done(o)
  /\ UNCHANGED <<holds, kept, job, did>>

FindNoHold(o) ==
  /\ At(o, "dsar", "policy")
  /\ ~Held(o)
  /\ Goto(o, "apply")
  /\ UNCHANGED <<holds, kept, job, status, since, did>>

\* _apply_dsar_destructive_action.  Files are left on disk, and anonymizing a
\* tenant leaves the text of its chunks.
Targets(rec) ==
  {p \in Pieces :
     /\ p[1] \in Owned /\ Owner[p[1]] = rec.tenant
     /\ rec.subject \in {None, p[1]}
     /\ p[2] # "file"
     /\ ~(rec.subject = None /\ rec.anonymize /\ p[2] = "chunks")}

\* (Mutant of ApplyDsar: completed is committed before the deletions.)
ApplyDsarLater(o) ==
  /\ At(o, "dsar", "apply")
  /\ status[o] = "running"
  /\ Record(o, "completed")
  /\ UNCHANGED <<holds, kept, job, op, since, did>>

ApplyDsar(o) ==
  /\ At(o, "dsar", "apply")
  /\ Erase(o, Targets(op[o]))
  /\ Record(o, "completed")
  /\ Done(o)
  /\ UNCHANGED <<holds, job>>

\* The policy engine fails.
DsarFails(o) ==
  /\ At(o, "dsar", "policy")
  /\ Record(o, "failed")
  /\ Done(o)
  /\ UNCHANGED <<holds, kept, job, did>>

-----------------------------------------------------------------------------
\* delete_document: enforce_no_legal_hold, a while later the document, then the
\* deletion, then its file.
DeleteDocument(o, d) ==
  /\ Arrive(o, New("delete", Owner[d], d, "check"))
  /\ UNCHANGED status

CheckDelete(o) ==
  /\ At(o, "delete", "check")
  /\ \/ Held(o) /\ Done(o)
     \/ ~Held(o) /\ Goto(o, "load") /\ UNCHANGED since
  /\ UNCHANGED <<holds, kept, job, status, did>>

\* storage_path is gone with the row, or when the row was anonymized.
LoadDocument(o) ==
  /\ At(o, "delete", "load")
  /\ op' = [op EXCEPT ![o] = [@ EXCEPT !.phase = "apply",
              !.rows = IF <<op[o].subject, "row">> \in kept
                       THEN {<<op[o].subject, "file">>} ELSE {}]]
  /\ UNCHANGED <<holds, kept, job, status, since, did>>

DeleteRows(o) ==
  /\ At(o, "delete", "apply")
  /\ Erase(o, {op[o].subject} \X {"row", "chunks"})
  /\ Goto(o, "unlink")
  /\ UNCHANGED <<holds, job, status, since>>

Unlink(o) ==
  /\ At(o, "delete", "unlink")
  /\ \/ Erase(o, op[o].rows)
     \/ UNCHANGED <<kept, did>>
  /\ Done(o)
  /\ UNCHANGED <<holds, job, status>>

\* The instance dies, another check of the handler refuses, or a statement fails,
\* after which its session can commit nothing: what is not committed is gone, and
\* a record keeps its last status.
Crash(o) ==
  /\ op[o].phase \notin {"idle", "over"}
  /\ Done(o)
  /\ UNCHANGED <<holds, kept, job, status, did>>

-----------------------------------------------------------------------------
Work(o) ==
  \/ \E t \in Tenants : StartRetention(o, t)
  \/ ReadHolds(o)
  \/ \E expired \in SUBSET Expiring : EraseRows(o, expired)
  \/ \E b \in Backups : RemoveBackup(o, b)
  \/ CommitSkips(o)
  \/ FinishRetention(o)
  \/ RetentionFails(o)
  \/ StartPrune(o)
  \/ ReadScopes(o)
  \/ FinishPrune(o)
  \/ \E t \in Tenants, s \in Owned \cup {None}, a \in BOOLEAN : SubmitDsar(o, t, s, a)
  \/ RunDsar(o)
  \/ PolicyRejects(o)
  \/ HoldRejects(o)
  \/ FindNoHold(o)
  \/ ApplyDsar(o)
  \/ DsarFails(o)
  \/ \E d \in Documents : DeleteDocument(o, d)
  \/ CheckDelete(o)
  \/ LoadDocument(o)
  \/ DeleteRows(o)
  \/ Unlink(o)
  \/ Crash(o)

Next ==
  \/ \E h \in Hold : CreateHold(h)
  \/ \E h \in Hold : EndHold(h)
  \/ \E o \in Ops : Work(o)

Spec == Init /\ [][Next]_vars

-----------------------------------------------------------------------------
TypeOK ==
  /\ holds \subseteq Hold
  /\ kept \subseteq Pieces
  /\ job \in [Backups -> {"succeeded", "pruned"}]
  /\ status \in [Ops -> {"none", "pending", "running", "completed", "rejected", "failed"}]
  /\ op \in [Ops -> OpState]
  /\ since \in [Ops -> SUBSET holds]
  /\ did \in [Ops -> BOOLEAN]

\* What a hold is meant to keep.
Protected(h) ==
  {p \in Pieces : \/ h.scope = p[1]
                  \/ h.scope = None /\ (p[1] \in Backups \/ Owner[p[1]] = h.tenant)}

\* The holds that an operation's code takes into account.  A DSAR request of a whole
\* tenant ignores the holds of its documents, sessions and keys, a prune ignores the
\* holds of tenants, and a retention run those that other tenants have on backups,
\* although runbook legal-hold-procedure says that a hold prevents "retention, backup
\* prune, and DSAR destructive workflows from deleting held data".
Considers(rec, h) ==
  CASE rec.kind = "prune"     -> h.scope \in Backups
    [] rec.kind = "retention" -> h.tenant = rec.tenant
    [] OTHER                  -> h.tenant = rec.tenant /\ Matches(h, rec.subject)

\* README "active legal holds supersede retention deletion and DSAR destructive
\* requests", as far as the code goes: although every operation reads the holds
\* once and erases much later, none erases what a hold it considers has kept in
\* force, without a break, since the operation arrived.
HeldSinceArrival ==
  [][\A o \in Ops : op'[o] # op[o] => \A p \in kept \ kept' : \A h \in since[o] :
       Considers(op[o], h) => p \notin Protected(h)]_vars

\* Runbook dsar-handling "verify report_json ... for final evidence": a request
\* recorded completed has erased all it aims at, for good, and one recorded pending,
\* rejected or failed nothing, whatever crashed or was erased meanwhile.
DsarTruthful ==
  \A o \in Ops : op[o].kind = "dsar" =>
    /\ status[o] = "completed" /\ op[o].phase = "over" =>
         Targets(op[o]) \cap kept = {}
    /\ status[o] \in {"pending", "rejected", "failed"} => ~did[o]
=============================================================================
