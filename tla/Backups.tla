------------------------------- MODULE Backups -------------------------------
(***************************************************************************)
(* Backups, their pruning and restore drills (services/backup.py, the      *)
(* routes in apps/api/routes/ops.py, the tasks in services/maintenance.py).*)
(*                                                                         *)
(* A backup is a row and a directory: dumps, then a manifest that lists    *)
(* them, then a signature.  A prune walks the directories, removes those   *)
(* whose manifest is past the retention and marks their rows, which it     *)
(* commits at the very end.  A drill validates the files of a backup and   *)
(* records a row; readiness is computed from the rows alone.  Nothing      *)
(* locks anything, and each may die anywhere.  A step is a commit or one   *)
(* file operation.  Legal holds on backups are in Governance.              *)
(***************************************************************************)
EXTENDS Naturals, FiniteSets

CONSTANTS
    Jobs,           \* ids of backup_jobs
    Drills,         \* restore drills, triggered or scheduled
    Prunes,         \* prunes, each of which may run again and again
    Scopes,         \* tenant_scope of a job: tenants, and Nil for scheduled ones
    Dumps,          \* the artifacts there are (db_full, schema, metadata)
    Signature,      \* the signature's file
    MaxBreakdowns,  \* bound on processes that die and file operations that fail
    Nil

ASSUME BackupAssumption ==
    /\ Signature \notin Dumps
    /\ Nil \in Scopes /\ Nil \notin Jobs
    /\ IsFiniteSet(Jobs) /\ IsFiniteSet(Drills)
    /\ MaxBreakdowns \in Nat

VARIABLES
    backup,     \* [Jobs -> row, and where its task is]
    folder,     \* [Jobs -> the files in the job's directory, and its manifest]
    age,        \* [Jobs -> 0, 1 past the cutoff by its manifest, 2 by its row too]
    drill,      \* [Drills -> row, and where its task is]
    prune,      \* [Prunes -> where it is]
    breakdowns,
    abandoned   \* history: jobs whose removal was begun by a prune that never committed

backupVars == <<backup, folder, age, drill, prune, breakdowns, abandoned>>

(* The files validate_manifest looks for; dumps are those of the job's     *)
(* backup_type, the ones the manifest lists.                               *)
Listed(j) == backup[j].dumps \cup {Signature}
Complete(j) == folder[j].manifest = "whole" /\ Listed(j) \subseteq folder[j].files
Emptied == [files |-> {}, manifest |-> "absent"]

(* The first row of "ORDER BY completed_at DESC", null when there is none. *)
Latest(js) == IF js = {} THEN Nil
              ELSE CHOOSE j \in js : \A k \in js : backup[k].at <= backup[j].at
Succeeded == {j \in Jobs : backup[j].status = "succeeded"}
LatestOf(tenant) == Latest({j \in Succeeded : backup[j].scope = tenant})

(* A completed_at later than those there are.                              *)
After(rows) == 1 + Cardinality({i \in DOMAIN rows : rows[i].at > 0})

(* What is left of a drill that is over.                                   *)
Over(d) == [drill[d] EXCEPT !.task = "done", !.target = Nil, !.todo = {}, !.ok = TRUE]

Unborn == [status |-> "none", scope |-> Nil, dumps |-> {}, at |-> 0, task |-> "new"]
Taken(scope) == [status |-> "succeeded", scope |-> scope, dumps |-> Dumps, at |-> 1, task |-> "done"]

(* There may be a backup already.                                          *)
BackupInit ==
    /\ \/ backup = [j \in Jobs |-> Unborn]
       \/ \E j \in Jobs, scope \in Scopes :
            backup = [k \in Jobs |-> IF k = j THEN Taken(scope) ELSE Unborn]
    /\ folder = [j \in Jobs |-> IF backup[j] = Unborn THEN Emptied
                                ELSE [files |-> Dumps \cup {Signature}, manifest |-> "whole"]]
    /\ age = [j \in Jobs |-> 0]
    /\ drill = [d \in Drills |-> [status |-> "none", at |-> 0, task |-> "new", target |-> Nil,
                                  todo |-> {}, ok |-> TRUE, whole |-> FALSE]]
    /\ prune = [p \in Prunes |-> [at |-> "idle", todo |-> {}, job |-> Nil, marked |-> {}]]
    /\ breakdowns = 0
    /\ abandoned = {}

Breakdown == breakdowns < MaxBreakdowns /\ breakdowns' = breakdowns + 1

-----------------------------------------------------------------------------
(* create_backup_job, by the route or the scheduler.                       *)
CreateJob(j, scope, dumps) ==
    /\ backup[j].task = "new"
    /\ backup' = [backup EXCEPT ![j] = [@ EXCEPT !.status = "queued", !.scope = scope,
                                                 !.dumps = dumps, !.task = "queued"]]
    /\ UNCHANGED <<folder, age, drill, prune, breakdowns, abandoned>>

TaskGoes(j, from, to) == backup[j].task = from /\ backup' = [backup EXCEPT ![j].task = to]

StartJob(j) ==
    /\ backup[j].task = "queued"
    /\ backup' = [backup EXCEPT ![j] = [@ EXCEPT !.status = "running", !.task = "dump"]]
    /\ UNCHANGED <<folder, age, drill, prune, breakdowns, abandoned>>

(* create_backup_artifacts: the dumps, ...                                 *)
Dump(j, f) ==
    /\ backup[j].task = "dump"
    /\ f \in backup[j].dumps \ folder[j].files
    /\ folder' = [folder EXCEPT ![j].files = @ \cup {f}]
    /\ UNCHANGED <<backup, age, drill, prune, breakdowns, abandoned>>

(* ... the manifest, which write_text creates empty ...                    *)
OpenManifest(j) ==
    /\ backup[j].dumps \subseteq folder[j].files
    /\ TaskGoes(j, "dump", "manifest")
    /\ folder' = [folder EXCEPT ![j].manifest = "torn"]
    /\ UNCHANGED <<age, drill, prune, breakdowns, abandoned>>

(* ... and fills, ...                                                      *)
WriteManifest(j) ==
    /\ TaskGoes(j, "manifest", "sign")
    /\ folder' = [folder EXCEPT ![j].manifest = "whole"]
    /\ UNCHANGED <<age, drill, prune, breakdowns, abandoned>>

(* ... the signature, ...                                                  *)
SignManifest(j) ==
    /\ TaskGoes(j, "sign", "verify")
    /\ folder' = [folder EXCEPT ![j].files = @ \cup {Signature}]
    /\ UNCHANGED <<age, drill, prune, breakdowns, abandoned>>

(* ... and the check of it all (backup_verify_on_create).                  *)
VerifyBackup(j) ==
    /\ TaskGoes(j, "verify", IF Complete(j) THEN "mark" ELSE "fail")
    /\ UNCHANGED <<folder, age, drill, prune, breakdowns, abandoned>>

(* A dump or a write raises: what is there stays.                          *)
BackupFails(j) ==
    /\ Breakdown
    /\ backup[j].task \in {"dump", "manifest", "sign"}
    /\ backup' = [backup EXCEPT ![j].task = "fail"]
    /\ UNCHANGED <<folder, age, drill, prune, abandoned>>

(* update_backup_job.                                                      *)
MarkJob(j) ==
    /\ backup[j].task \in {"mark", "fail"}
    /\ backup' = [backup EXCEPT ![j] =
         IF backup[j].task = "mark"
         THEN [@ EXCEPT !.status = "succeeded", !.at = After(backup), !.task = "done"]
         ELSE [@ EXCEPT !.status = "failed", !.task = "done"]]
    /\ UNCHANGED <<folder, age, drill, prune, breakdowns, abandoned>>

(* The process dies, and the row keeps its status.                         *)
JobDies(j) ==
    /\ Breakdown
    /\ backup[j].task \notin {"new", "done"}
    /\ backup' = [backup EXCEPT ![j].task = "done"]
    /\ UNCHANGED <<folder, age, drill, prune, abandoned>>

(* The manifest passes the retention, then the row, completed a little     *)
(* later.  No backup takes that long.                                      *)
Grow(j) ==
    /\ backup[j].task = "done"
    /\ age[j] < 2
    /\ age' = [age EXCEPT ![j] = @ + 1]
    /\ UNCHANGED <<backup, folder, drill, prune, breakdowns, abandoned>>
-----------------------------------------------------------------------------
(* prune_backups: the directories it will visit, ...                       *)
BeginPrune(p) ==
    /\ prune[p].at = "idle"
    /\ \E j \in Jobs : folder[j] # Emptied
    /\ prune' = [prune EXCEPT ![p] = [@ EXCEPT !.at = "scan",
                                               !.todo = {j \in Jobs : folder[j] # Emptied}]]
    /\ UNCHANGED <<backup, folder, age, drill, breakdowns, abandoned>>

(* ... one after the other: the manifest is found, or it is not ...        *)
VisitFolder(p, j) ==
    /\ prune[p].at = "scan"
    /\ j \in prune[p].todo
    /\ prune' = [prune EXCEPT ![p] =
         IF folder[j].manifest = "absent" THEN [@ EXCEPT !.todo = prune[p].todo \ {j}]
         ELSE [@ EXCEPT !.todo = prune[p].todo \ {j}, !.job = j, !.at = "load"]]
    /\ UNCHANGED <<backup, folder, age, drill, breakdowns, abandoned>>

PruneEnds(p) ==
    prune' = [prune EXCEPT ![p] = [at |-> "idle", todo |-> {}, job |-> Nil, marked |-> {}]]

(* (Mutant of LoadForPrune: created_at is not compared with the cutoff.)   *)
LoadAnyForPrune(p) ==
    LET j == prune[p].job
    IN  /\ prune[p].at = "load"
        /\ folder[j].manifest = "whole"
        /\ prune' = [prune EXCEPT ![p].at = "remove"]
        /\ UNCHANGED <<backup, folder, age, drill, breakdowns, abandoned>>

(* ... and read: a fresh one is passed over, ...                           *)
LoadForPrune(p) ==
    LET j == prune[p].job
    IN  /\ prune[p].at = "load"
        /\ folder[j].manifest = "whole"
        /\ prune' = [prune EXCEPT ![p] = IF age[j] = 0 THEN [@ EXCEPT !.at = "scan", !.job = Nil]
                                         ELSE [@ EXCEPT !.at = "remove"]]
        /\ UNCHANGED <<backup, folder, age, drill, breakdowns, abandoned>>

(* ... and one that is torn, or gone meanwhile, raises: what the prune had *)
(* marked is not committed.                                                *)
PruneRaises(p) ==
    /\ prune[p].at = "load"
    /\ folder[prune[p].job].manifest # "whole"
    /\ abandoned' = abandoned \cup prune[p].marked
    /\ PruneEnds(p)
    /\ UNCHANGED <<backup, folder, age, drill, breakdowns>>

(* rmtree, file by file, in the order of the directory.                    *)
RemoveFile(p, f) ==
    LET j == prune[p].job
    IN  /\ prune[p].at = "remove"
        /\ f \in folder[j].files
        /\ folder' = [folder EXCEPT ![j].files = @ \ {f}]
        /\ UNCHANGED <<backup, age, drill, prune, breakdowns, abandoned>>

RemoveManifest(p) ==
    LET j == prune[p].job
    IN  /\ prune[p].at = "remove"
        /\ folder[j].manifest # "absent"
        /\ folder' = [folder EXCEPT ![j].manifest = "absent"]
        /\ UNCHANGED <<backup, age, drill, prune, breakdowns, abandoned>>

(* The directory is gone, or rmtree gave up on it (ignore_errors): the row *)
(* is marked, in memory.                                                   *)
MarkPruned(p) ==
    LET j == prune[p].job
    IN  /\ prune[p].at = "remove"
        /\ \/ folder[j] = Emptied /\ UNCHANGED breakdowns
           \/ folder[j] # Emptied /\ Breakdown
        /\ prune' = [prune EXCEPT ![p] = [@ EXCEPT !.at = "scan", !.job = Nil,
                                                   !.marked = prune[p].marked \cup {j}]]
        /\ abandoned' = IF folder[j] = Emptied THEN abandoned ELSE abandoned \cup {j}
        /\ UNCHANGED <<backup, folder, age, drill>>

(* The walk is over: the marks are committed.                              *)
CommitPrune(p) ==
    /\ prune[p].at = "scan"
    /\ prune[p].todo = {}
    /\ backup' = [j \in Jobs |-> IF j \in prune[p].marked
                                THEN [backup[j] EXCEPT !.status = "pruned"] ELSE backup[j]]
    /\ PruneEnds(p)
    /\ UNCHANGED <<folder, age, drill, breakdowns, abandoned>>

PruneDies(p) ==
    /\ Breakdown
    /\ prune[p].at # "idle"
    /\ abandoned' = abandoned \cup prune[p].marked
                       \cup IF prune[p].at = "remove" THEN {prune[p].job} ELSE {}
    /\ PruneEnds(p)
    /\ UNCHANGED <<backup, folder, age, drill>>
-----------------------------------------------------------------------------
(* dr_restore_drill: a drill of the latest backup of the tenant, with a    *)
(* row from the start.                                                     *)
TriggerDrill(d, tenant) ==
    /\ drill[d].task = "new"
    /\ LatestOf(tenant) # Nil
    /\ drill' = [drill EXCEPT ![d] = [@ EXCEPT !.status = "running", !.task = "open",
                                              !.target = LatestOf(tenant)]]
    /\ UNCHANGED <<backup, folder, age, prune, breakdowns, abandoned>>

(* restore_drill_scheduled: of the latest of all, with a row at the end.   *)
ScheduleDrill(d) ==
    /\ drill[d].task = "new"
    /\ Latest(Succeeded) # Nil
    /\ drill' = [drill EXCEPT ![d] = [@ EXCEPT !.task = "open", !.target = Latest(Succeeded)]]
    /\ UNCHANGED <<backup, folder, age, prune, breakdowns, abandoned>>

(* validate_manifest: the manifest is read, ...                            *)
OpenDrill(d) ==
    LET j == drill[d].target
    IN  /\ drill[d].task = "open"
        /\ drill' = [drill EXCEPT ![d] =
             IF folder[j].manifest = "whole"
             THEN [@ EXCEPT !.task = "check", !.todo = Listed(j), !.whole = Complete(j)]
             ELSE [@ EXCEPT !.task = "record", !.target = Nil, !.ok = FALSE]]
        /\ UNCHANGED <<backup, folder, age, prune, breakdowns, abandoned>>

(* (Mutant of CheckFile: a missing artifact is passed over.)               *)
CheckFileThere(d, f) ==
    /\ drill[d].task = "check"
    /\ f \in drill[d].todo
    /\ drill' = [drill EXCEPT ![d] = [@ EXCEPT !.todo = drill[d].todo \ {f}]]
    /\ UNCHANGED <<backup, folder, age, prune, breakdowns, abandoned>>

(* ... and the files one by one; all that is missing is reported.          *)
CheckFile(d, f) ==
    /\ drill[d].task = "check"
    /\ f \in drill[d].todo
    /\ drill' = [drill EXCEPT ![d] =
         [@ EXCEPT !.todo = drill[d].todo \ {f},
                   !.ok = drill[d].ok /\ f \in folder[drill[d].target].files]]
    /\ UNCHANGED <<backup, folder, age, prune, breakdowns, abandoned>>

(* restore_from_manifest reads the manifest of a valid backup once more: if*)
(* it went meanwhile that raises, and a row that says running stays.       *)
ReadAgain(d) ==
    /\ drill[d].task = "check"
    /\ drill[d].todo = {}
    /\ drill' = [drill EXCEPT ![d] =
         IF drill[d].ok /\ folder[drill[d].target].manifest # "whole" THEN Over(d)
         ELSE [@ EXCEPT !.task = "record", !.target = Nil]]
    /\ UNCHANGED <<backup, folder, age, prune, breakdowns, abandoned>>

(* update_restore_drill, or create_restore_drill for a scheduled one.      *)
RecordDrill(d) ==
    /\ drill[d].task = "record"
    /\ drill' = [drill EXCEPT ![d] =
         [Over(d) EXCEPT !.status = IF drill[d].ok THEN "passed" ELSE "failed", !.at = After(drill)]]
    /\ UNCHANGED <<backup, folder, age, prune, breakdowns, abandoned>>

DrillDies(d) ==
    /\ Breakdown
    /\ drill[d].task \notin {"new", "done"}
    /\ drill' = [drill EXCEPT ![d] = Over(d)]
    /\ UNCHANGED <<backup, folder, age, prune, abandoned>>

(* dr_readiness: the drill it looks at is anybody's; PostgreSQL orders     *)
(* nulls first, so one with no completed_at, if there is any.              *)
Recorded == {d \in Drills : drill[d].status # "none"}
Running == {d \in Recorded : drill[d].status = "running"}
LastDrills == IF Running # {} THEN Running
              ELSE {d \in Recorded : \A e \in Recorded : drill[e].at <= drill[d].at}
Ready(tenant) ==
    LET j == LatestOf(tenant)
    IN  /\ j # Nil /\ age[j] < 2
        /\ \E d \in LastDrills : drill[d].status = "passed"

BackupNext ==
    \/ \E j \in Jobs :
         \/ \E scope \in Scopes, dumps \in (SUBSET Dumps) \ {{}} : CreateJob(j, scope, dumps)
         \/ StartJob(j) \/ (\E f \in Dumps : Dump(j, f)) \/ OpenManifest(j) \/ WriteManifest(j)
         \/ SignManifest(j) \/ VerifyBackup(j) \/ BackupFails(j) \/ MarkJob(j) \/ JobDies(j)
         \/ Grow(j)
    \/ \E p \in Prunes :
         \/ BeginPrune(p) \/ (\E j \in Jobs : VisitFolder(p, j)) \/ LoadForPrune(p)
         \/ PruneRaises(p) \/ (\E f \in Dumps \cup {Signature} : RemoveFile(p, f))
         \/ RemoveManifest(p) \/ MarkPruned(p) \/ CommitPrune(p) \/ PruneDies(p)
    \/ \E d \in Drills :
         \/ \E tenant \in Scopes \ {Nil} : TriggerDrill(d, tenant)
         \/ ScheduleDrill(d) \/ OpenDrill(d)
         \/ \E f \in drill[d].todo : CheckFile(d, f)
         \/ ReadAgain(d) \/ RecordDrill(d) \/ DrillDies(d)

BackupSpec == BackupInit /\ [][BackupNext]_backupVars
-----------------------------------------------------------------------------
(* A backup whose row says succeeded has all its files, until its manifest *)
(* is past the retention; from then on the row lags behind the files while *)
(* a prune is at it, and for ever if that prune is cut short by its own    *)
(* death or by another directory it cannot read.  One whose row says       *)
(* pruned has none left, unless rmtree gave up on it.                      *)
(* Source: services/backup.py:505-624, 957-1006.                           *)
RowsTellFiles ==
    \A j \in Jobs :
        /\ backup[j].status = "succeeded" /\ ~Complete(j) =>
             /\ age[j] > 0
             /\ \/ j \in abandoned
                \/ \E p \in Prunes : \/ j \in prune[p].marked
                                     \/ prune[p].at = "remove" /\ prune[p].job = j
        /\ backup[j].status = "pruned" /\ folder[j] # Emptied => j \in abandoned

(* A tenant is told that it is ready for a disaster only if no drill is    *)
(* under way, the last one passed over files that were all there when it   *)
(* began, and the tenant's latest backup is all there, or so old that a    *)
(* prune may be taking it, in the moment before its row is too.  (That it  *)
(* was this backup the drill has validated is not so.)                     *)
(* Source: apps/api/routes/ops.py:769-834, services/backup.py:627-690.     *)
ReadyIsEarned ==
    \A tenant \in Scopes \ {Nil} : Ready(tenant) =>
        /\ \A d \in Drills : drill[d].status # "running"
        /\ \E d \in Drills : /\ drill[d].status = "passed" /\ drill[d].whole
                            /\ \A e \in Drills : drill[e].at <= drill[d].at
        /\ Complete(LatestOf(tenant)) \/ age[LatestOf(tenant)] = 1

JobTasks == {"new", "queued", "dump", "manifest", "sign", "verify", "mark", "fail", "done"}
BackupRow ==
    [status : {"none", "queued", "running", "succeeded", "failed", "pruned"}, scope : Scopes,
     dumps : SUBSET Dumps, at : Nat, task : JobTasks]
Files == Dumps \cup {Signature}
Directory == [files : SUBSET Files, manifest : {"absent", "torn", "whole"}]
DrillState ==
    [status : {"none", "running", "passed", "failed"}, at : Nat,
     task : {"new", "open", "check", "record", "done"}, target : Jobs \cup {Nil},
     todo : SUBSET Files, ok : BOOLEAN, whole : BOOLEAN]
PruneState ==
    [at : {"idle", "scan", "load", "remove"}, todo : SUBSET Jobs, job : Jobs \cup {Nil},
     marked : SUBSET Jobs]

BackupTypeOK ==
    /\ backup \in [Jobs -> BackupRow] /\ folder \in [Jobs -> Directory]
    /\ age \in [Jobs -> 0 .. 2]
    /\ drill \in [Drills -> DrillState] /\ prune \in [Prunes -> PruneState]
    /\ breakdowns \in 0 .. MaxBreakdowns /\ abandoned \subseteq Jobs
=============================================================================
