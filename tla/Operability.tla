---------------------------- MODULE Operability ----------------------------
(***************************************************************************)
(* Alerts, incidents and operator actions (services/operability), with the *)
(* replay of idempotent requests (services/idempotency.py) that operator   *)
(* actions pass first.                                                     *)
(*                                                                         *)
(* A call is a cycle of the background evaluator, an evaluation asked for  *)
(* through the API or raised by the run path, or the request of an         *)
(* operator action.  It runs once; whoever retries makes another call.     *)
(* Alerts are those of one rule of one tenant, whose incidents have the    *)
(* same dedupe_key.                                                        *)
(***************************************************************************)
EXTENDS Naturals, Sequences, FiniteSets

CONSTANTS
  Calls,
  Keys,        \* operator actions asked for, by their Idempotency-Key
  Freezes,     \* those of type freeze_writes; the others write to Redis
  MaxExpiries, \* bound on the expiries of the evaluator lock
  None

Severities == 1..2
Unresolved == {"open", "acknowledged", "assigned"}
Outcomes   == {"running", "completed", "failed"}

ASSUME OperabilityAssumption ==
  /\ IsFiniteSet(Calls)
  /\ Freezes \subseteq Keys
  /\ MaxExpiries \in Nat
  /\ None \notin Calls \cup Keys \cup Outcomes

VARIABLES
  lock,       \* Redis: the call whose token holds the evaluator lock, or None
  expiries,   \* times its TTL ended so far
  seeded,     \* whether the tenant's default rules exist
  incidents,  \* ops_incidents of the rule, oldest first
  row,        \* status of each operator_actions row, or None
  writer,     \* the call whose insert of the row is not committed, or None
  reply,      \* idempotency_records: the answer kept for each key
  call        \* each call's progress

vars == <<lock, expiries, seeded, incidents, row, writer, reply, call>>

alerting == <<lock, expiries, seeded, incidents>>
acting   == <<row, writer, reply>>

\* beside: (history) incidents opened since the lookup this one was opened on.
\* by: (history) who opened it, a cycle of the evaluator or a request, or that an operator
\* took it back out of resolved.
Incident == [status : Unresolved \cup {"resolved"}, severity : Severities,
             beside : SUBSET Nat, by : {"cycle", "request", "operator"}]

Reply == [answer : Outcomes, live : BOOLEAN]

Evaluating == {"rules", "seed", "event", "lookup", "open", "update", "unlock"}
Acting     == {"check", "find", "insert", "effect", "commit", "failed", "store"}

\* severity, known: of the alert, and of the incident as it was loaded.
\* found: the incident to update, or how many there were at the lookup.
\* applied: whether the action took effect; undone: (history) whether it did and
\* its row was lost.
Call == [phase : {"idle", "delete", "over"} \cup Evaluating \cup Acting,
         kind : {"none", "cycle", "trigger", "action"},
         severity : Severities, known : Severities, found : Nat,
         key : Keys \cup {None}, answer : Outcomes \cup {None},
         applied : BOOLEAN, undone : BOOLEAN]

NotYet == [phase |-> "idle", kind |-> "none", severity |-> 1, known |-> 1, found |-> 0,
           key |-> None, answer |-> None, applied |-> FALSE, undone |-> FALSE]

Init ==
  /\ lock = None /\ expiries = 0
  /\ seeded = FALSE
  /\ incidents = <<>>
  /\ row = [k \in Keys |-> None]
  /\ writer = [k \in Keys |-> None]
  /\ reply = [k \in Keys |-> None]
  /\ call = [c \in Calls |-> NotYet]

At(c, p)   == call[c].phase = p
Goto(c, p) == call' = [call EXCEPT ![c].phase = p]

\* What is left of a call when it is over, and of an evaluation but for its lock.
Rest(rec) == [NotYet EXCEPT !.phase = "over", !.key = rec.key, !.answer = rec.answer,
                            !.applied = rec.applied, !.undone = rec.undone]
End(c)     == call' = [call EXCEPT ![c] = Rest(@)]
Finish(c)  == call' = [call EXCEPT ![c] = [Rest(@) EXCEPT !.phase = "unlock", !.kind = call[c].kind]]

-----------------------------------------------------------------------------
\* run_background_evaluator_cycle: SET NX EX, or the cycle is skipped.

\* (Mutant of LockFree: SET without NX.)
LockAlways == TRUE

LockFree == lock = None

StartCycle(c) ==
  /\ At(c, "idle")
  /\ LockFree
  /\ lock' = c
  /\ call' = [call EXCEPT ![c] = [@ EXCEPT !.phase = "rules", !.kind = "cycle"]]
  /\ UNCHANGED <<expiries, seeded, incidents, acting>>

SkipCycle(c) ==
  /\ At(c, "idle")
  /\ ~LockFree
  /\ End(c)
  /\ UNCHANGED <<alerting, acting>>

\* trigger_runtime_alert, or an evaluation through the API: no lock.
Trigger(c) ==
  /\ At(c, "idle")
  /\ call' = [call EXCEPT ![c] = [@ EXCEPT !.phase = "rules", !.kind = "trigger"]]
  /\ UNCHANGED <<alerting, acting>>

\* ensure_default_alert_rules counts the rules and inserts them if there are none;
\* whoever comes second fails on their primary keys.
FindRules(c) ==
  /\ At(c, "rules")
  /\ Goto(c, IF seeded THEN "event" ELSE "seed")
  /\ UNCHANGED <<alerting, acting>>

SeedRules(c) ==
  /\ At(c, "seed")
  /\ ~seeded
  /\ seeded' = TRUE
  /\ Goto(c, "event")
  /\ UNCHANGED <<lock, expiries, incidents, acting>>

\* That, or any other exception, ends the call but for the release of its lock.
EvaluationFails(c) ==
  /\ call[c].phase \in Evaluating \ {"unlock"}
  /\ Finish(c)
  /\ UNCHANGED <<alerting, acting>>

\* The AlertEvent is committed, triggered with severity s ...
CommitEvent(c, s) ==
  /\ At(c, "event")
  /\ call' = [call EXCEPT ![c] = [@ EXCEPT !.phase = "lookup", !.severity = s]]
  /\ UNCHANGED <<alerting, acting>>

\* ... or suppressed.
Suppress(c) ==
  /\ At(c, "event")
  /\ Finish(c)
  /\ UNCHANGED <<alerting, acting>>

\* open_incident_for_alert: the newest unresolved incident of the dedupe key ...

Open == {i \in DOMAIN incidents : incidents[i].status \in Unresolved}

Lookup(c) ==
  /\ At(c, "lookup")
  /\ \/ \E i \in Open :
          /\ \A j \in Open : j <= i
          /\ call' = [call EXCEPT ![c] = [@ EXCEPT !.phase = "update", !.found = i,
                                                   !.known = incidents[i].severity]]
     \/ /\ Open = {}
        /\ call' = [call EXCEPT ![c] = [@ EXCEPT !.phase = "open", !.found = Len(incidents)]]
  /\ UNCHANGED <<alerting, acting>>

\* ... is updated, its severity only if the alert's is higher than what was loaded ...
UpdateIncident(c) ==
  /\ At(c, "update")
  /\ incidents' = IF call[c].severity > call[c].known
                  THEN [incidents EXCEPT ![call[c].found].severity = call[c].severity]
                  ELSE incidents
  /\ Finish(c)
  /\ UNCHANGED <<lock, expiries, seeded, acting>>

\* ... or one is opened.  No constraint keeps another call from doing the same.
OpenIncident(c) ==
  /\ At(c, "open")
  /\ incidents' = Append(incidents,
                    [status |-> "open", severity |-> call[c].severity,
                     beside |-> call[c].found + 1 .. Len(incidents),
                     by |-> IF call[c].kind = "cycle" THEN "cycle" ELSE "request"])
  /\ Finish(c)
  /\ UNCHANGED <<lock, expiries, seeded, acting>>

\* release_evaluator_lock compares the token it gets, then deletes the key.
Unlock(c) ==
  /\ At(c, "unlock")
  /\ IF call[c].kind = "cycle" /\ lock = c THEN Goto(c, "delete") ELSE End(c)
  /\ UNCHANGED <<alerting, acting>>

DeleteLock(c) ==
  /\ At(c, "delete")
  /\ lock' = None
  /\ End(c)
  /\ UNCHANGED <<expiries, seeded, incidents, acting>>

\* The lock is never renewed: a long cycle, or a dead one, loses it.
Expire ==
  /\ lock # None
  /\ expiries < MaxExpiries
  /\ lock' = None
  /\ expiries' = expiries + 1
  /\ UNCHANGED <<seeded, incidents, acting, call>>

\* acknowledge_, assign_ and resolve_incident write their status whatever it was.
Handle(i, s) ==
  /\ s \in {"acknowledged", "assigned", "resolved"}
  /\ incidents[i].status # s
  /\ incidents' = [incidents EXCEPT ![i] =
                     [@ EXCEPT !.status = s,
                               !.by = IF incidents[i].status = "resolved" THEN "operator"
                                      ELSE incidents[i].by]]
  /\ UNCHANGED <<lock, expiries, seeded, acting, call>>

-----------------------------------------------------------------------------
\* _dispatch_operator_action, an endpoint of operability_admin.py.
Request(c, k) ==
  /\ At(c, "idle")
  /\ call' = [call EXCEPT ![c] = [@ EXCEPT !.phase = "check", !.kind = "action", !.key = k]]
  /\ UNCHANGED <<alerting, acting>>

Answer(c, a) == call' = [call EXCEPT ![c] = [@ EXCEPT !.phase = "store", !.answer = a]]

Replayable(k) == reply[k] # None /\ reply[k].live

\* check_idempotency.
Replay(c) ==
  /\ At(c, "check")
  /\ Replayable(call[c].key)
  /\ call' = [call EXCEPT ![c] = [Rest(@) EXCEPT !.answer = reply[call[c].key].answer]]
  /\ UNCHANGED <<alerting, acting>>

NoReplay(c) ==
  /\ At(c, "check")
  /\ ~Replayable(call[c].key)
  /\ Goto(c, "find")
  /\ UNCHANGED <<alerting, acting>>

\* apply_operator_action: a row that is there is the answer.
FindAction(c) ==
  /\ At(c, "find")
  /\ LET k == call[c].key
     IN IF row[k] # None THEN Answer(c, row[k]) ELSE Goto(c, "insert")
  /\ UNCHANGED <<alerting, acting>>

\* Its insert waits for another one of the key, and fails if that was committed.

\* (Mutant of Insertable: operator_actions without its unique constraint.)
InsertableAlways(k) == TRUE

Insertable(k) == writer[k] = None /\ row[k] = None

InsertAction(c) ==
  /\ At(c, "insert")
  /\ Insertable(call[c].key)
  /\ writer' = [writer EXCEPT ![call[c].key] = c]
  /\ Goto(c, "effect")
  /\ UNCHANGED <<alerting, row, reply>>

InsertRefused(c) ==
  /\ call[c].phase \in {"insert", "failed"}
  /\ row[call[c].key] # None
  /\ End(c)
  /\ UNCHANGED <<alerting, acting>>

\* set_write_freeze commits the freeze and with it the row, still running.
Freeze(c) ==
  /\ At(c, "effect")
  /\ call[c].key \in Freezes
  /\ row' = [row EXCEPT ![call[c].key] = "running"]
  /\ writer' = [writer EXCEPT ![call[c].key] = None]
  /\ call' = [call EXCEPT ![c] = [@ EXCEPT !.phase = "commit", !.applied = TRUE]]
  /\ UNCHANGED <<alerting, reply>>

\* The others write to Redis, or not: without Redis, in another region or without the
\* writer lease they do nothing, and are completed all the same.
SetFlag(c, done) ==
  /\ At(c, "effect")
  /\ call[c].key \notin Freezes
  /\ call' = [call EXCEPT ![c] = [@ EXCEPT !.phase = "commit", !.applied = done]]
  /\ UNCHANGED <<alerting, acting>>

CommitAction(c) ==
  /\ At(c, "commit")
  /\ row' = [row EXCEPT ![call[c].key] = "completed"]
  /\ writer' = [writer EXCEPT ![call[c].key] = None]
  /\ Answer(c, "completed")
  /\ UNCHANGED <<alerting, reply>>

\* What was not committed is rolled back.
Dropped(c) ==
  [k \in Keys |-> IF writer[k] = c THEN None ELSE writer[k]]
Undone(c) == call[c].applied /\ call[c].key # None /\ writer[call[c].key] = c

ActionFails(c) ==
  /\ call[c].phase \in {"effect", "commit"}
  /\ writer' = Dropped(c)
  /\ call' = [call EXCEPT ![c] = [@ EXCEPT !.phase = "failed", !.undone = Undone(c)]]
  /\ UNCHANGED <<alerting, row, reply>>

\* (Mutant of RecordFailure: the failed row replaces the one that is there.)
RecordFailureAnyway(c) ==
  /\ At(c, "failed")
  /\ row' = [row EXCEPT ![call[c].key] = "failed"]
  /\ Answer(c, "failed")
  /\ UNCHANGED <<alerting, writer, reply>>

\* A row with the same key is inserted as failed; see InsertRefused.
RecordFailure(c) ==
  /\ At(c, "failed")
  /\ Insertable(call[c].key)
  /\ row' = [row EXCEPT ![call[c].key] = "failed"]
  /\ Answer(c, "failed")
  /\ UNCHANGED <<alerting, writer, reply>>

\* store_idempotency_response: a record of the key, expired or not, or an error,
\* keeps the answer from being stored; nobody is told.
StoreReply(c) ==
  /\ At(c, "store")
  /\ \/ /\ reply[call[c].key] = None
        /\ reply' = [reply EXCEPT ![call[c].key] = [answer |-> call[c].answer, live |-> TRUE]]
     \/ UNCHANGED reply
  /\ End(c)
  /\ UNCHANGED <<alerting, row, writer>>

\* expires_at passes; maintenance prunes.
ReplyExpires(k) ==
  /\ Replayable(k)
  /\ reply' = [reply EXCEPT ![k].live = FALSE]
  /\ UNCHANGED <<alerting, row, writer, call>>

PruneReply(k) ==
  /\ reply[k] # None /\ ~reply[k].live
  /\ reply' = [reply EXCEPT ![k] = None]
  /\ UNCHANGED <<alerting, row, writer, call>>

\* The process dies, or another exception reaches the top: 500.
Crash(c) ==
  /\ call[c].phase \notin {"idle", "over"}
  /\ writer' = Dropped(c)
  /\ call' = [call EXCEPT ![c] = [Rest(@) EXCEPT !.undone = call[c].undone \/ Undone(c)]]
  /\ UNCHANGED <<alerting, row, reply>>

-----------------------------------------------------------------------------
Evaluate(c) ==
  \/ StartCycle(c)
  \/ SkipCycle(c)
  \/ Trigger(c)
  \/ FindRules(c)
  \/ SeedRules(c)
  \/ EvaluationFails(c)
  \/ \E s \in Severities : CommitEvent(c, s)
  \/ Suppress(c)
  \/ Lookup(c)
  \/ UpdateIncident(c)
  \/ OpenIncident(c)
  \/ Unlock(c)
  \/ DeleteLock(c)

Act(c) ==
  \/ \E k \in Keys : Request(c, k)
  \/ Replay(c)
  \/ NoReplay(c)
  \/ FindAction(c)
  \/ InsertAction(c)
  \/ InsertRefused(c)
  \/ Freeze(c)
  \/ \E done \in BOOLEAN : SetFlag(c, done)
  \/ CommitAction(c)
  \/ ActionFails(c)
  \/ RecordFailure(c)
  \/ StoreReply(c)

Next ==
  \/ \E c \in Calls : Evaluate(c) \/ Act(c) \/ Crash(c)
  \/ Expire
  \/ \E i \in DOMAIN incidents, s \in Unresolved \cup {"resolved"} : Handle(i, s)
  \/ \E k \in Keys : ReplyExpires(k) \/ PruneReply(k)

Spec == Init /\ [][Next]_vars

-----------------------------------------------------------------------------
TypeOK ==
  /\ lock \in Calls \cup {None}
  /\ expiries \in 0..MaxExpiries
  /\ seeded \in BOOLEAN
  /\ incidents \in Seq(Incident)
  /\ row \in [Keys -> Outcomes \cup {None}]
  /\ writer \in [Keys -> Calls \cup {None}]
  /\ reply \in [Keys -> Reply \cup {None}]
  /\ call \in [Calls -> Call]

\* worker.py "so only one worker evaluates and opens incidents per interval", as far
\* as it goes: cycles run at the same time no more often than the lock expired under
\* one, although its release may delete the lock of another.
Cycles == {c \in Calls : call[c].kind = "cycle" /\ call[c].phase \in Evaluating}

CyclesBounded == Cardinality(Cycles) <= 1 + expiries

\* models.py "keep one active incident record per issue class", as far as it goes: of
\* two unresolved incidents of a dedupe key, one was reopened by an operator after it had
\* been resolved, or one was opened while the other's opening was under way.  The lock is
\* what keeps cycles from that: they do it to each other only once it has expired.
OnePerClass ==
  \A i, j \in Open :
    i < j => \/ /\ i \in incidents[j].beside
                /\ incidents[i].by = "cycle" /\ incidents[j].by = "cycle" => expiries > 0
             \/ "operator" \in {incidents[i].by, incidents[j].by}

\* actions.py "retries remain side-effect free": of two calls with a key that both took
\* effect, one failed or died before its row was committed.
RetriesHarmless ==
  \A c, d \in Calls :
    /\ c # d /\ call[c].key = call[d].key
    /\ call[c].applied /\ call[d].applied
    => call[c].undone \/ call[d].undone

\* models.py "deterministic replay safety": every answer that calls an action completed
\* or failed, replayed or not, agrees with its row, now and for ever.
AnswersAgree ==
  \A c \in Calls : call[c].answer \in {"completed", "failed"} => row[call[c].key] = call[c].answer
=============================================================================
