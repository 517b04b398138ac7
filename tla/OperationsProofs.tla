--------------------------- MODULE OperationsProofs ---------------------------
(***************************************************************************)
(* Proofs about what operators run: Operability, for any number of calls,  *)
(* keys and incidents; Autoscaling, for any profile, step and clock; and   *)
(* Backups, for any jobs, prunes and drills.                               *)
(***************************************************************************)
EXTENDS Operability, Autoscaling, Backups, TLAPS, FiniteSetTheorems, WellFoundedInduction

\* The cycles that run or are about to delete the lock.
Active == {c \in Calls : call[c].kind = "cycle" /\ call[c].phase \in Evaluating \cup {"delete"}}

\* Each of them, but for the one whose lock is there, has seen the lock expire.
LockInv == Cardinality(Active) <= expiries + IF lock = None THEN 0 ELSE 1

\* A call that is to update an incident has found one; one that is to open one has
\* found none: whatever is unresolved of those that were there has been reopened, and
\* what cycles opened since is no concern of a cycle while the lock has not expired.
FoundInv(c) ==
  /\ call[c].phase = "delete" => call[c].kind = "cycle"
  /\ call[c].phase = "update" => call[c].found \in DOMAIN incidents
  /\ call[c].phase = "open" =>
       /\ call[c].found <= Len(incidents)
       /\ \A i \in 1..call[c].found :
            incidents[i].status = "resolved" \/ incidents[i].by = "operator"
       /\ \A i \in (call[c].found + 1)..Len(incidents) :
            call[c].kind = "cycle" /\ incidents[i].by = "cycle" => expiries > 0

EvalInv == LockInv /\ OnePerClass /\ \A c \in Calls : FoundInv(c)

\* An action that has not been applied says so, one at its effect holds the row of
\* its key, and one at its commit does, or has committed it with a freeze.
ActionInv(c) ==
  /\ call[c].phase \in Acting => call[c].key \in Keys
  /\ call[c].answer # None \/ call[c].applied => call[c].key \in Keys
  /\ call[c].phase \notin {"store", "over"} => call[c].answer = None
  /\ call[c].phase = "store" => call[c].answer # None
  /\ call[c].phase \notin {"commit", "failed", "store", "over"} => ~call[c].applied
  /\ call[c].phase \notin {"failed", "store", "over"} => ~call[c].undone
  /\ call[c].phase = "effect" => writer[call[c].key] = c
  /\ call[c].phase = "commit" => writer[call[c].key] = c \/ row[call[c].key] = "running"
  /\ call[c].applied /\ ~call[c].undone => row[call[c].key] # None \/ writer[call[c].key] = c

\* Whoever inserts a row is at work on it, and nothing of the row is committed; an
\* answer that is kept agrees with the row.
KeyInv(k) ==
  /\ writer[k] # None => /\ call[writer[k]].key = k
                         /\ call[writer[k]].phase \in {"effect", "commit"}
                         /\ row[k] = None
  /\ reply[k] # None /\ reply[k].answer \in {"completed", "failed"} => row[k] = reply[k].answer

\* At most one call at a time is between the insert of a row and its commit.
AloneInv ==
  \A c, d \in Calls :
    /\ call[c].phase \in {"effect", "commit"} /\ call[d].phase \in {"effect", "commit"}
    /\ call[c].key = call[d].key
    => c = d

ActInv ==
  /\ \A c \in Calls : ActionInv(c)
  /\ \A k \in Keys : KeyInv(k)
  /\ AloneInv /\ RetriesHarmless /\ AnswersAgree

IInv == TypeOK /\ EvalInv /\ ActInv

\* What a step of call c leaves alone, and what it keeps of its request.
Others(c) == \A d \in Calls \ {c} : call'[d] = call[d]

Keeps(c) == /\ call'[c].key = call[c].key /\ call'[c].answer = call[c].answer
            /\ call'[c].applied = call[c].applied /\ call'[c].undone = call[c].undone

-----------------------------------------------------------------------------
\* Lemmas about the operators that the actions are built from.

\* The fields of a call.
LEMMA Fields ==
  ASSUME NEW r \in Call
  PROVE  /\ r.phase \in {"idle", "delete", "over"} \cup Evaluating \cup Acting
         /\ r.kind \in {"none", "cycle", "trigger", "action"}
         /\ r.severity \in Severities /\ r.known \in Severities /\ r.found \in Nat
         /\ r.key \in Keys \cup {None} /\ r.answer \in Outcomes \cup {None}
         /\ r.applied \in BOOLEAN /\ r.undone \in BOOLEAN
BY DEF Call

\* Assigning a call keeps the others.
LEMMA AssignCall ==
  ASSUME call \in [Calls -> Call], NEW c \in Calls, NEW r \in Call,
         call' = [call EXCEPT ![c] = r]
  PROVE  call' \in [Calls -> Call] /\ call'[c] = r /\ Others(c)
BY DEF Others

\* Going to another phase keeps everything else.
LEMMA GotoStep ==
  ASSUME call \in [Calls -> Call], NEW c \in Calls,
         NEW p \in {"idle", "delete", "over"} \cup Evaluating \cup Acting, Goto(c, p)
  PROVE  /\ call' \in [Calls -> Call] /\ Others(c) /\ Keeps(c)
         /\ call'[c].phase = p /\ call'[c].kind = call[c].kind
         /\ call'[c].found = call[c].found
<1> DEFINE r == [call[c] EXCEPT !.phase = p]
<1>1. call[c] \in Call
  OBVIOUS
<1>2. r \in Call
  BY <1>1 DEF Call
<1>3. /\ r.key = call[c].key /\ r.answer = call[c].answer /\ r.applied = call[c].applied
      /\ r.undone = call[c].undone /\ r.phase = p /\ r.kind = call[c].kind
      /\ r.found = call[c].found
  BY <1>1 DEF Call
<1>4. call' = [call EXCEPT ![c] = r]
  BY DEF Goto
<1> HIDE DEF r
<1> QED
  BY <1>2, <1>3, <1>4, AssignCall DEF Keeps

\* What is left of a call that is over.
LEMMA RestFields ==
  ASSUME NEW s \in Call
  PROVE  /\ Rest(s) \in Call
         /\ Rest(s).phase = "over" /\ Rest(s).kind = "none"
         /\ Rest(s).key = s.key /\ Rest(s).answer = s.answer
         /\ Rest(s).applied = s.applied /\ Rest(s).undone = s.undone
<1>1. NotYet \in Call
  BY DEF NotYet, Call, Severities
<1>2. NotYet.kind = "none"
  BY DEF NotYet
<1> QED
  BY <1>1, <1>2, Fields DEF Rest, Call

\* A call that ends.
LEMMA EndStep ==
  ASSUME call \in [Calls -> Call], NEW c \in Calls, End(c)
  PROVE  /\ call' \in [Calls -> Call] /\ Others(c) /\ Keeps(c)
         /\ call'[c].phase = "over" /\ call'[c].kind = "none"
<1>1. call[c] \in Call
  OBVIOUS
<1>2. call' = [call EXCEPT ![c] = Rest(call[c])]
  BY DEF End
<1> QED
  BY <1>1, <1>2, RestFields, AssignCall DEF Keeps

\* An evaluation that has only its lock to release.
LEMMA FinishStep ==
  ASSUME call \in [Calls -> Call], NEW c \in Calls, Finish(c)
  PROVE  /\ call' \in [Calls -> Call] /\ Others(c) /\ Keeps(c)
         /\ call'[c].phase = "unlock" /\ call'[c].kind = call[c].kind
<1> DEFINE s == Rest(call[c])
           r == [s EXCEPT !.phase = "unlock", !.kind = call[c].kind]
<1>1. call[c] \in Call
  OBVIOUS
<1>2. /\ s \in Call /\ s.key = call[c].key /\ s.answer = call[c].answer
      /\ s.applied = call[c].applied /\ s.undone = call[c].undone
  BY <1>1, RestFields
<1>3. call' = [call EXCEPT ![c] = r]
  BY DEF Finish
<1> HIDE DEF s
<1>4. r \in Call
  BY <1>1, <1>2, Fields DEF Call, Evaluating
<1>5. /\ r.key = s.key /\ r.answer = s.answer /\ r.applied = s.applied /\ r.undone = s.undone
      /\ r.phase = "unlock" /\ r.kind = call[c].kind
  BY <1>2 DEF Call
<1> HIDE DEF r
<1> QED
  BY <1>2, <1>3, <1>4, <1>5, AssignCall DEF Keeps

\* An action that has its answer.
LEMMA AnswerStep ==
  ASSUME call \in [Calls -> Call], NEW c \in Calls, NEW a \in Outcomes \cup {None}, Answer(c, a)
  PROVE  /\ call' \in [Calls -> Call] /\ Others(c)
         /\ call'[c].phase = "store" /\ call'[c].kind = call[c].kind
         /\ call'[c].answer = a /\ call'[c].key = call[c].key
         /\ call'[c].applied = call[c].applied /\ call'[c].undone = call[c].undone
<1> DEFINE r == [call[c] EXCEPT !.phase = "store", !.answer = a]
<1>1. call[c] \in Call
  OBVIOUS
<1>2. r \in Call
  BY <1>1 DEF Call, Acting
<1>3. /\ r.key = call[c].key /\ r.answer = a /\ r.applied = call[c].applied
      /\ r.undone = call[c].undone /\ r.phase = "store" /\ r.kind = call[c].kind
  BY <1>1 DEF Call
<1>4. call' = [call EXCEPT ![c] = r]
  BY DEF Answer
<1> HIDE DEF r
<1> QED
  BY <1>2, <1>3, <1>4, AssignCall

-----------------------------------------------------------------------------
\* Lemmas about the cycles.

\* There are finitely many.
LEMMA ActiveFinite == IsFiniteSet(Active) /\ Cardinality(Active) \in Nat
BY OperabilityAssumption, FS_Subset, FS_CardinalityType DEF Active

\* The same after a step.
LEMMA ActiveFiniteNext == IsFiniteSet(Active') /\ Cardinality(Active') \in Nat
BY OperabilityAssumption, FS_Subset, FS_CardinalityType DEF Active

\* With no more cycles and the same lock, there is nothing to account for.
LEMMA NoMoreCycles ==
  ASSUME TypeOK, LockInv, UNCHANGED <<lock, expiries>>, Active' \subseteq Active
  PROVE  LockInv'
<1>1. Cardinality(Active') <= Cardinality(Active)
  BY ActiveFinite, FS_Subset
<1>2. lock' = lock /\ expiries' = expiries /\ expiries \in Nat
  BY DEF TypeOK
<1> QED
  BY <1>1, <1>2, ActiveFinite, ActiveFiniteNext DEF LockInv

\* A step of a call that is no cycle afterwards, or was one, makes none.
LEMMA CyclesOfOthers ==
  ASSUME NEW c \in Calls, Others(c),
         \/ call'[c].kind # "cycle"
         \/ call'[c].phase \notin Evaluating \cup {"delete"}
         \/ call[c].kind = "cycle" /\ call[c].phase \in Evaluating \cup {"delete"}
  PROVE  Active' \subseteq Active
BY DEF Active, Others

\* Two cycles run at a time only once the lock has expired.
LEMMA TwoCycles ==
  ASSUME TypeOK, LockInv, NEW c \in Active, NEW d \in Active, c # d
  PROVE  expiries > 0
<1>1. expiries \in Nat /\ Cardinality(Active) <= expiries + 1
  BY ActiveFinite DEF TypeOK, LockInv
<1>2. IsFiniteSet(Active \ {c}) /\ Cardinality(Active \ {c}) = Cardinality(Active) - 1
  BY ActiveFinite, FS_RemoveElement
<1>3. Cardinality(Active \ {c}) # 0
  BY <1>2, FS_EmptySet
<1>4. Cardinality(Active \ {c}) \in Nat
  BY <1>2, FS_CardinalityType
<1> QED
  BY <1>1, <1>2, <1>3, <1>4, ActiveFinite

\* Incidents that are there stay, and one that is resolved or reopened can only be
\* unresolved again as reopened.
LEMMA FoundStays ==
  ASSUME TypeOK, incidents' \in Seq(Incident), Len(incidents) <= Len(incidents'),
         \A i \in 1..Len(incidents) :
           incidents[i].status = "resolved" \/ incidents[i].by = "operator"
             => incidents'[i].status = "resolved" \/ incidents'[i].by = "operator",
         \A i \in 1..Len(incidents) :
           incidents'[i].by = "cycle" => incidents[i].by = "cycle",
         expiries' = expiries,
         NEW d \in Calls, FoundInv(d), call'[d] = call[d],
         \A i \in (Len(incidents) + 1)..Len(incidents') :
           call[d].phase = "open" /\ call[d].kind = "cycle" /\ incidents'[i].by = "cycle"
             => expiries > 0
  PROVE  FoundInv(d)'
<1>1. Len(incidents) \in Nat /\ Len(incidents') \in Nat
      /\ DOMAIN incidents = 1..Len(incidents) /\ DOMAIN incidents' = 1..Len(incidents')
  BY DEF TypeOK
<1>2. call[d].found \in Nat
  BY Fields DEF TypeOK
<1>3. ASSUME call[d].phase = "open", call[d].kind = "cycle",
             NEW i \in (call[d].found + 1)..Len(incidents'), incidents'[i].by = "cycle"
      PROVE  expiries > 0
  <2>1. CASE i <= Len(incidents)
    <3>1. i \in 1..Len(incidents) /\ i \in (call[d].found + 1)..Len(incidents)
      BY <1>1, <1>2, <2>1
    <3> QED
      BY <1>3, <3>1 DEF FoundInv
  <2>2. CASE i > Len(incidents)
    BY <1>1, <1>2, <1>3, <2>2
  <2> QED
    BY <1>1, <1>2, <2>1, <2>2
<1>4. call[d].phase = "open" =>
        /\ call[d].found <= Len(incidents')
        /\ \A i \in 1..call[d].found :
             incidents'[i].status = "resolved" \/ incidents'[i].by = "operator"
  BY <1>1, <1>2 DEF FoundInv
<1>5. call[d].phase = "update" => call[d].found \in DOMAIN incidents'
  BY <1>1, <1>2 DEF FoundInv
<1> QED
  BY <1>3, <1>4, <1>5 DEF FoundInv

-----------------------------------------------------------------------------
\* The evaluator.

\* A step of an evaluation leaves the operator actions alone.
LEMMA EvaluationKeepsActions ==
  ASSUME TypeOK, ActInv, NEW c \in Calls, UNCHANGED acting, Others(c), Keeps(c),
         call[c].phase \in {"idle", "delete"} \cup Evaluating,
         call'[c].phase \in {"delete", "over"} \cup Evaluating
  PROVE  ActInv'
<1>1. row' = row /\ writer' = writer /\ reply' = reply
  BY DEF acting
<1>2. /\ call[c].answer = None /\ ~call[c].applied /\ ~call[c].undone
      /\ call[c].phase \notin {"effect", "commit", "store"} \cup Acting
      /\ call'[c].phase \notin {"effect", "commit", "store"} \cup Acting
  BY DEF ActInv, ActionInv, Evaluating, Acting
<1>3. \A d \in Calls : d # c => call'[d] = call[d]
  BY DEF Others
<1>4. ASSUME NEW d \in Calls PROVE ActionInv(d)'
  <2>1. CASE d = c
    BY <1>1, <1>2, <2>1 DEF Keeps, ActionInv
  <2>2. CASE d # c
    BY <1>1, <1>3, <2>2 DEF ActInv, ActionInv
  <2> QED
    BY <2>1, <2>2
<1>5. ASSUME NEW k \in Keys PROVE KeyInv(k)'
  <2>1. writer[k] \in Calls \cup {None}
    BY DEF TypeOK
  <2> QED
    BY <1>1, <1>2, <1>3, <2>1 DEF ActInv, KeyInv
<1>6. AloneInv'
  BY <1>2, <1>3 DEF ActInv, AloneInv
<1>7. RetriesHarmless'
  BY <1>2, <1>3 DEF Keeps, ActInv, RetriesHarmless
<1>8. AnswersAgree'
  BY <1>1, <1>2, <1>3, OperabilityAssumption DEF Keeps, ActInv, AnswersAgree, Outcomes
<1> QED
  BY <1>4, <1>5, <1>6, <1>7, <1>8 DEF ActInv

\* A step that touches no incident and no lock, of a call that makes no cycle, keeps
\* the evaluator's invariant if it keeps the one of the call.
LEMMA NothingOpened ==
  ASSUME TypeOK, EvalInv, NEW c \in Calls, Others(c), Active' \subseteq Active,
         UNCHANGED <<lock, expiries, incidents>>, FoundInv(c)'
  PROVE  EvalInv'
<1>1. LockInv'
  BY NoMoreCycles DEF EvalInv
<1>2. OnePerClass'
  BY DEF EvalInv, OnePerClass, Open
<1>3. ASSUME NEW d \in Calls PROVE FoundInv(d)'
  <2>1. CASE d # c
    <3>1. call'[d] = call[d] /\ incidents' = incidents
      BY <2>1 DEF Others
    <3> QED
      BY <3>1 DEF EvalInv, FoundInv
  <2> QED
    BY <2>1
<1> QED
  BY <1>1, <1>2, <1>3 DEF EvalInv

\* A cycle starts when nobody has the lock.
LEMMA StartCycleKeeps ==
  ASSUME IInv, NEW c \in Calls, StartCycle(c)
  PROVE  IInv'
<1> USE DEF IInv
<1> DEFINE r == [call[c] EXCEPT !.phase = "rules", !.kind = "cycle"]
<1>1. call[c] \in Call /\ call \in [Calls -> Call] /\ call[c].phase = "idle"
  BY DEF TypeOK, StartCycle, At
<1>2. r \in Call
  BY <1>1 DEF Call, Evaluating
<1>3. /\ r.key = call[c].key /\ r.answer = call[c].answer /\ r.applied = call[c].applied
      /\ r.undone = call[c].undone /\ r.phase = "rules" /\ r.kind = "cycle"
  BY <1>1 DEF Call
<1>4. call' = [call EXCEPT ![c] = r]
  BY DEF StartCycle
<1> HIDE DEF r
<1>5. call' \in [Calls -> Call] /\ call'[c] = r /\ Others(c)
  BY <1>1, <1>2, <1>4, AssignCall
<1>6. lock = None /\ lock' = c /\ UNCHANGED <<expiries, seeded, incidents, acting>>
  BY DEF StartCycle, LockFree
<1>7. TypeOK'
  BY <1>5, <1>6 DEF TypeOK, acting
<1>8. ActInv'
  BY <1>1, <1>3, <1>5, <1>6, EvaluationKeepsActions DEF Keeps, Evaluating
<1>9. LockInv'
  <2>1. Active' \subseteq Active \cup {c}
    BY <1>5 DEF Active, Others
  <2>2. IsFiniteSet(Active \cup {c}) /\ Cardinality(Active \cup {c}) <= Cardinality(Active) + 1
        /\ Cardinality(Active \cup {c}) \in Nat
    <3>1. /\ IsFiniteSet(Active \cup {c})
          /\ Cardinality(Active \cup {c})
               = IF c \in Active THEN Cardinality(Active) ELSE Cardinality(Active) + 1
      BY ActiveFinite, FS_AddElement
    <3> QED
      BY <3>1, ActiveFinite
  <2>3. Cardinality(Active') <= Cardinality(Active \cup {c})
    BY <2>1, <2>2, FS_Subset
  <2>4. Cardinality(Active) <= expiries
    BY <1>6 DEF EvalInv, LockInv, TypeOK
  <2>5. Cardinality(Active') <= expiries + 1
    BY <2>2, <2>3, <2>4, ActiveFinite, ActiveFiniteNext DEF TypeOK
  <2>6. lock' # None /\ expiries' = expiries
    BY <1>6, OperabilityAssumption
  <2> QED
    BY <2>5, <2>6 DEF LockInv
<1>10. OnePerClass'
  BY <1>6 DEF EvalInv, OnePerClass, Open
<1>11. \A d \in Calls : FoundInv(d)'
  <2>1. FoundInv(c)'
    BY <1>3, <1>5 DEF FoundInv
  <2>2. ASSUME NEW d \in Calls, d # c PROVE FoundInv(d)'
    <3>1. call'[d] = call[d] /\ incidents' = incidents
      BY <1>5, <1>6, <2>2 DEF Others
    <3> QED
      BY <1>6, <3>1 DEF EvalInv, FoundInv
  <2> QED
    BY <2>1, <2>2
<1> QED
  BY <1>7, <1>8, <1>9, <1>10, <1>11 DEF EvalInv

\* The steps of an evaluation that touch neither incidents nor the lock.
LEMMA QuietEvaluation ==
  ASSUME IInv, NEW c \in Calls, call' \in [Calls -> Call], Others(c), Keeps(c),
         UNCHANGED <<lock, expiries, incidents, acting>>, seeded' \in BOOLEAN,
         call[c].phase \in {"idle"} \cup Evaluating,
         call'[c].phase \in {"delete", "over"} \cup Evaluating,
         \/ call[c].phase \in Evaluating /\ call'[c].kind \in {call[c].kind, "none"}
         \/ call'[c].kind # "cycle",
         FoundInv(c)'
  PROVE  IInv'
<1> USE DEF IInv
<1>1. TypeOK'
  BY DEF TypeOK, acting
<1>2. ActInv'
  BY EvaluationKeepsActions
<1>3. Active' \subseteq Active
  BY CyclesOfOthers
<1>4. EvalInv'
  BY <1>3, NothingOpened
<1> QED
  BY <1>1, <1>2, <1>4

\* A cycle that finds the lock taken, and an evaluation that needs none.
LEMMA SkipCycleKeeps ==
  ASSUME IInv, NEW c \in Calls, SkipCycle(c)
  PROVE  IInv'
<1>1. call \in [Calls -> Call] /\ call[c].phase = "idle"
  BY DEF IInv, TypeOK, SkipCycle, At
<1>2. /\ call' \in [Calls -> Call] /\ Others(c) /\ Keeps(c)
      /\ call'[c].phase = "over" /\ call'[c].kind = "none"
  BY <1>1, EndStep DEF SkipCycle
<1>3. UNCHANGED <<lock, expiries, incidents, acting>> /\ seeded' \in BOOLEAN
  BY DEF SkipCycle, alerting, IInv, TypeOK
<1>4. FoundInv(c)'
  BY <1>2 DEF FoundInv
<1> QED
  BY <1>1, <1>2, <1>3, <1>4, QuietEvaluation

\* The same of one asked for or raised.
LEMMA TriggerKeeps ==
  ASSUME IInv, NEW c \in Calls, Trigger(c)
  PROVE  IInv'
<1> DEFINE r == [call[c] EXCEPT !.phase = "rules", !.kind = "trigger"]
<1>1. call[c] \in Call /\ call \in [Calls -> Call] /\ call[c].phase = "idle"
  BY DEF IInv, TypeOK, Trigger, At
<1>2. r \in Call
  BY <1>1 DEF Call, Evaluating
<1>3. /\ r.key = call[c].key /\ r.answer = call[c].answer /\ r.applied = call[c].applied
      /\ r.undone = call[c].undone /\ r.phase = "rules" /\ r.kind = "trigger"
  BY <1>1 DEF Call
<1>4. call' = [call EXCEPT ![c] = r]
  BY DEF Trigger
<1> HIDE DEF r
<1>5. call' \in [Calls -> Call] /\ call'[c] = r /\ Others(c)
  BY <1>1, <1>2, <1>4, AssignCall
<1>6. UNCHANGED <<lock, expiries, incidents, acting>> /\ seeded' \in BOOLEAN
  BY DEF Trigger, alerting, IInv, TypeOK
<1>7. FoundInv(c)'
  BY <1>3, <1>5 DEF FoundInv
<1>8. Keeps(c) /\ call'[c].phase \in Evaluating /\ call'[c].kind # "cycle"
  BY <1>3, <1>5 DEF Keeps, Evaluating
<1> QED
  BY <1>1, <1>5, <1>6, <1>7, <1>8, QuietEvaluation

\* The rules are counted ...
LEMMA FindRulesKeeps ==
  ASSUME IInv, NEW c \in Calls, FindRules(c)
  PROVE  IInv'
<1>1. call \in [Calls -> Call] /\ call[c].phase = "rules"
  BY DEF IInv, TypeOK, FindRules, At
<1>2. PICK p \in {"seed", "event"} : Goto(c, p)
  BY DEF FindRules
<1>3. p \in Evaluating
  BY DEF Evaluating
<1>4. /\ call' \in [Calls -> Call] /\ Others(c) /\ Keeps(c)
      /\ call'[c].phase = p /\ call'[c].kind = call[c].kind
  BY <1>1, <1>2, <1>3, GotoStep
<1>5. UNCHANGED <<lock, expiries, incidents, acting>> /\ seeded' \in BOOLEAN
  BY DEF FindRules, alerting, IInv, TypeOK
<1>6. FoundInv(c)'
  BY <1>4 DEF FoundInv
<1>7. call[c].phase \in Evaluating
  BY <1>1 DEF Evaluating
<1> QED
  BY <1>1, <1>3, <1>4, <1>5, <1>6, <1>7, QuietEvaluation

\* ... and inserted.
LEMMA SeedRulesKeeps ==
  ASSUME IInv, NEW c \in Calls, SeedRules(c)
  PROVE  IInv'
<1>1. call \in [Calls -> Call] /\ call[c].phase = "seed" /\ Goto(c, "event")
  BY DEF IInv, TypeOK, SeedRules, At
<1>2. "event" \in Evaluating /\ call[c].phase \in Evaluating
  BY <1>1 DEF Evaluating
<1>3. /\ call' \in [Calls -> Call] /\ Others(c) /\ Keeps(c)
      /\ call'[c].phase = "event" /\ call'[c].kind = call[c].kind
  BY <1>1, <1>2, GotoStep
<1>4. UNCHANGED <<lock, expiries, incidents, acting>> /\ seeded' \in BOOLEAN
  BY DEF SeedRules, acting
<1>5. FoundInv(c)'
  BY <1>3 DEF FoundInv
<1> QED
  BY <1>1, <1>2, <1>3, <1>4, <1>5, QuietEvaluation

\* An evaluation that fails, or whose alert is suppressed.
LEMMA FinishKeeps ==
  ASSUME IInv, NEW c \in Calls, call[c].phase \in Evaluating, Finish(c),
         UNCHANGED <<alerting, acting>>
  PROVE  IInv'
<1>1. call \in [Calls -> Call]
  BY DEF IInv, TypeOK
<1>2. /\ call' \in [Calls -> Call] /\ Others(c) /\ Keeps(c)
      /\ call'[c].phase = "unlock" /\ call'[c].kind = call[c].kind
  BY <1>1, FinishStep
<1>3. UNCHANGED <<lock, expiries, incidents, acting>> /\ seeded' \in BOOLEAN
  BY DEF alerting, IInv, TypeOK
<1>4. FoundInv(c)' /\ call'[c].phase \in Evaluating
  BY <1>2 DEF FoundInv, Evaluating
<1> QED
  BY <1>2, <1>3, <1>4, QuietEvaluation

\* The alert is committed.
LEMMA CommitEventKeeps ==
  ASSUME IInv, NEW c \in Calls, NEW s \in Severities, CommitEvent(c, s)
  PROVE  IInv'
<1> DEFINE r == [call[c] EXCEPT !.phase = "lookup", !.severity = s]
<1>1. call[c] \in Call /\ call \in [Calls -> Call] /\ call[c].phase = "event"
  BY DEF IInv, TypeOK, CommitEvent, At
<1>2. r \in Call
  BY <1>1 DEF Call, Evaluating
<1>3. /\ r.key = call[c].key /\ r.answer = call[c].answer /\ r.applied = call[c].applied
      /\ r.undone = call[c].undone /\ r.phase = "lookup" /\ r.kind = call[c].kind
  BY <1>1 DEF Call
<1>4. call' = [call EXCEPT ![c] = r]
  BY DEF CommitEvent
<1> HIDE DEF r
<1>5. call' \in [Calls -> Call] /\ call'[c] = r /\ Others(c)
  BY <1>1, <1>2, <1>4, AssignCall
<1>6. UNCHANGED <<lock, expiries, incidents, acting>> /\ seeded' \in BOOLEAN
  BY DEF CommitEvent, alerting, IInv, TypeOK
<1>7. FoundInv(c)'
  BY <1>3, <1>5 DEF FoundInv
<1>8. /\ Keeps(c) /\ call[c].phase \in Evaluating /\ call'[c].phase \in Evaluating
      /\ call'[c].kind = call[c].kind
  BY <1>1, <1>3, <1>5 DEF Keeps, Evaluating
<1> QED
  BY <1>5, <1>6, <1>7, <1>8, QuietEvaluation

\* The newest unresolved incident is looked up: what none finds is all resolved.
LEMMA LookupKeeps ==
  ASSUME IInv, NEW c \in Calls, Lookup(c)
  PROVE  IInv'
<1>1. /\ call[c] \in Call /\ call \in [Calls -> Call] /\ call[c].phase = "lookup"
      /\ incidents \in Seq(Incident) /\ Len(incidents) \in Nat
      /\ DOMAIN incidents = 1..Len(incidents)
  <2>1. call \in [Calls -> Call] /\ incidents \in Seq(Incident)
    BY DEF IInv, TypeOK
  <2>2. call[c].phase = "lookup"
    BY DEF Lookup, At
  <2> QED
    BY <2>1, <2>2
<1>2. UNCHANGED <<lock, expiries, incidents, acting>> /\ seeded' \in BOOLEAN
  BY DEF Lookup, alerting, IInv, TypeOK
<1>3. \E r \in Call :
        /\ call' = [call EXCEPT ![c] = r]
        /\ r.key = call[c].key /\ r.answer = call[c].answer /\ r.applied = call[c].applied
        /\ r.undone = call[c].undone /\ r.kind = call[c].kind
        /\ \/ r.phase = "update" /\ r.found \in DOMAIN incidents
           \/ r.phase = "open" /\ r.found = Len(incidents) /\ Open = {}
  <2>1. CASE \E i \in Open :
          call' = [call EXCEPT ![c] = [@ EXCEPT !.phase = "update", !.found = i,
                                                !.known = incidents[i].severity]]
    <3>1. PICK i \in Open :
            call' = [call EXCEPT ![c] = [@ EXCEPT !.phase = "update", !.found = i,
                                                  !.known = incidents[i].severity]]
      BY <2>1
    <3> DEFINE r == [call[c] EXCEPT !.phase = "update", !.found = i,
                                    !.known = incidents[i].severity]
    <3>2. i \in DOMAIN incidents /\ i \in Nat /\ incidents[i] \in Incident
      BY <1>1 DEF Open
    <3>3. incidents[i].severity \in Severities
      BY <3>2 DEF Incident
    <3>4. r \in Call
      BY <1>1, <3>2, <3>3 DEF Call, Evaluating
    <3>5. /\ r.key = call[c].key /\ r.answer = call[c].answer /\ r.applied = call[c].applied
          /\ r.undone = call[c].undone /\ r.kind = call[c].kind
          /\ r.phase = "update" /\ r.found = i
      BY <1>1 DEF Call
    <3>6. call' = [call EXCEPT ![c] = r]
      BY <3>1
    <3> HIDE DEF r
    <3> QED
      BY <3>2, <3>4, <3>5, <3>6
  <2>2. CASE /\ Open = {}
             /\ call' = [call EXCEPT ![c] = [@ EXCEPT !.phase = "open", !.found = Len(incidents)]]
    <3> DEFINE r == [call[c] EXCEPT !.phase = "open", !.found = Len(incidents)]
    <3>1. r \in Call
      BY <1>1 DEF Call, Evaluating
    <3>2. /\ r.key = call[c].key /\ r.answer = call[c].answer /\ r.applied = call[c].applied
          /\ r.undone = call[c].undone /\ r.kind = call[c].kind
          /\ r.phase = "open" /\ r.found = Len(incidents)
      BY <1>1 DEF Call
    <3>3. call' = [call EXCEPT ![c] = r]
      BY <2>2
    <3> HIDE DEF r
    <3> QED
      BY <2>2, <3>1, <3>2, <3>3
  <2> QED
    BY <2>1, <2>2 DEF Lookup
<1>4. PICK r \in Call :
        /\ call' = [call EXCEPT ![c] = r]
        /\ r.key = call[c].key /\ r.answer = call[c].answer /\ r.applied = call[c].applied
        /\ r.undone = call[c].undone /\ r.kind = call[c].kind
        /\ \/ r.phase = "update" /\ r.found \in DOMAIN incidents
           \/ r.phase = "open" /\ r.found = Len(incidents) /\ Open = {}
  BY <1>3
<1>5. call' \in [Calls -> Call] /\ call'[c] = r /\ Others(c)
  BY <1>1, <1>4, AssignCall
<1>6. FoundInv(c)'
  <2>1. CASE r.phase = "update" /\ r.found \in DOMAIN incidents
    BY <1>2, <1>5, <2>1 DEF FoundInv
  <2>2. CASE r.phase = "open" /\ r.found = Len(incidents) /\ Open = {}
    <3>1. ASSUME NEW i \in 1..Len(incidents) PROVE incidents[i].status = "resolved"
      <4>1. incidents[i] \in Incident /\ incidents[i].status \notin Unresolved
        BY <1>1, <2>2 DEF Open
      <4> QED
        BY <4>1 DEF Incident
    <3> QED
      BY <1>1, <1>2, <1>5, <2>2, <3>1 DEF FoundInv
  <2> QED
    BY <1>4, <2>1, <2>2
<1>7. /\ Keeps(c) /\ call[c].phase \in Evaluating /\ call'[c].phase \in Evaluating
      /\ call'[c].kind = call[c].kind
  BY <1>1, <1>4, <1>5 DEF Keeps, Evaluating
<1> QED
  BY <1>2, <1>5, <1>6, <1>7, QuietEvaluation

\* The lock is compared, of a cycle that still holds it, before it is deleted.
LEMMA UnlockKeeps ==
  ASSUME IInv, NEW c \in Calls, Unlock(c)
  PROVE  IInv'
<1>1. call \in [Calls -> Call] /\ call[c].phase = "unlock" /\ call[c].phase \in Evaluating
  BY DEF IInv, TypeOK, Unlock, At, Evaluating
<1>2. UNCHANGED <<lock, expiries, incidents, acting>> /\ seeded' \in BOOLEAN
  BY DEF Unlock, alerting, IInv, TypeOK
<1>3. CASE call[c].kind = "cycle" /\ Goto(c, "delete")
  <2>1. /\ call' \in [Calls -> Call] /\ Others(c) /\ Keeps(c)
        /\ call'[c].phase = "delete" /\ call'[c].kind = call[c].kind
    BY <1>1, <1>3, GotoStep
  <2>2. FoundInv(c)'
    BY <1>3, <2>1 DEF FoundInv
  <2> QED
    BY <1>1, <1>2, <2>1, <2>2, QuietEvaluation
<1>4. CASE End(c)
  <2>1. /\ call' \in [Calls -> Call] /\ Others(c) /\ Keeps(c)
        /\ call'[c].phase = "over" /\ call'[c].kind = "none"
    BY <1>1, <1>4, EndStep
  <2>2. FoundInv(c)'
    BY <2>1 DEF FoundInv
  <2> QED
    BY <1>1, <1>2, <2>1, <2>2, QuietEvaluation
<1> QED
  BY <1>3, <1>4 DEF Unlock

\* A step of an evaluation that writes incidents and leaves the lock.
LEMMA IncidentsWritten ==
  ASSUME IInv, NEW c \in Calls, call[c].phase \in Evaluating, Finish(c),
         UNCHANGED <<lock, expiries, seeded, acting>>,
         incidents' \in Seq(Incident), Len(incidents) <= Len(incidents'),
         \A i \in 1..Len(incidents) :
           incidents[i].status = "resolved" \/ incidents[i].by = "operator"
             => incidents'[i].status = "resolved" \/ incidents'[i].by = "operator",
         \A i \in 1..Len(incidents) :
           incidents'[i].by = "cycle" => incidents[i].by = "cycle",
         \A i \in (Len(incidents) + 1)..Len(incidents') :
           incidents'[i].by = "cycle" => call[c].kind = "cycle",
         OnePerClass'
  PROVE  IInv'
<1> USE DEF IInv
<1>1. call \in [Calls -> Call]
  BY DEF TypeOK
<1>2. /\ call' \in [Calls -> Call] /\ Others(c) /\ Keeps(c)
      /\ call'[c].phase = "unlock" /\ call'[c].kind = call[c].kind
  BY <1>1, FinishStep
<1>3. call'[c].phase \in Evaluating
  BY <1>2 DEF Evaluating
<1>4. TypeOK'
  BY <1>2 DEF TypeOK, acting
<1>5. ActInv'
  BY <1>2, <1>3, EvaluationKeepsActions
<1>6. Active' \subseteq Active
  BY <1>2, <1>3, CyclesOfOthers
<1>7. LockInv'
  BY <1>6, NoMoreCycles DEF EvalInv
<1>8. ASSUME NEW d \in Calls PROVE FoundInv(d)'
  <2>1. CASE d = c
    BY <1>2, <2>1 DEF FoundInv
  <2>2. CASE d # c
    <3>1. call'[d] = call[d] /\ FoundInv(d)
      BY <1>2, <2>2 DEF Others, EvalInv
    <3>2. ASSUME call[d].phase = "open", call[d].kind = "cycle", call[c].kind = "cycle"
          PROVE  expiries > 0
      <4>1. c \in Active /\ d \in Active
        BY <3>2 DEF Active, Evaluating
      <4> QED
        BY <2>2, <4>1, TwoCycles DEF EvalInv
    <3> QED
      BY <3>1, <3>2, FoundStays
  <2> QED
    BY <2>1, <2>2
<1> QED
  BY <1>4, <1>5, <1>7, <1>8 DEF EvalInv

\* The severity of an incident is raised.
LEMMA UpdateIncidentKeeps ==
  ASSUME IInv, NEW c \in Calls, UpdateIncident(c)
  PROVE  IInv'
<1>1. call[c].phase = "update" /\ Finish(c) /\ UNCHANGED <<lock, expiries, seeded, acting>>
  BY DEF UpdateIncident, At
<1>2. /\ incidents \in Seq(Incident) /\ Len(incidents) \in Nat
      /\ DOMAIN incidents = 1..Len(incidents) /\ call[c] \in Call
  BY DEF IInv, TypeOK
<1> DEFINE f == call[c].found
           s == call[c].severity
<1>3. f \in 1..Len(incidents) /\ s \in Severities
  BY <1>1, <1>2, Fields DEF IInv, EvalInv, FoundInv
<1> HIDE DEF f, s
<1>4. /\ incidents' \in Seq(Incident) /\ Len(incidents') = Len(incidents)
      /\ \A i \in 1..Len(incidents) : /\ incidents'[i].status = incidents[i].status
                                      /\ incidents'[i].beside = incidents[i].beside
                                      /\ incidents'[i].by = incidents[i].by
  <2>1. CASE incidents' = incidents
    BY <1>2, <2>1
  <2>2. CASE incidents' = [incidents EXCEPT ![f].severity = s]
    <3> DEFINE r == [incidents[f] EXCEPT !.severity = s]
    <3>1. incidents[f] \in Incident
      BY <1>2, <1>3
    <3>2. /\ r \in Incident /\ r.status = incidents[f].status
          /\ r.beside = incidents[f].beside /\ r.by = incidents[f].by
      BY <1>3, <3>1 DEF Incident
    <3>3. incidents' = [incidents EXCEPT ![f] = r]
      BY <2>2
    <3> HIDE DEF r
    <3>4. /\ incidents' \in Seq(Incident) /\ Len(incidents') = Len(incidents)
          /\ incidents'[f] = r
          /\ \A i \in 1..Len(incidents) : i # f => incidents'[i] = incidents[i]
      BY <1>2, <1>3, <3>2, <3>3
    <3> QED
      BY <3>2, <3>4
  <2> QED
    BY <2>1, <2>2 DEF UpdateIncident, f, s
<1>5. DOMAIN incidents' = 1..Len(incidents)
  BY <1>2, <1>4
<1>6. Open' = Open
  BY <1>2, <1>4, <1>5 DEF Open
<1>7. OnePerClass'
  BY <1>1, <1>2, <1>4, <1>6 DEF IInv, EvalInv, OnePerClass, Open
<1>8. call[c].phase \in Evaluating
  BY <1>1 DEF Evaluating
<1>9. (Len(incidents) + 1)..Len(incidents') = {}
  BY <1>2, <1>4
<1> QED
  BY <1>1, <1>2, <1>4, <1>7, <1>8, <1>9, IncidentsWritten

\* An incident is opened: each one that is unresolved either came after the lookup, and
\* the new one says so, or was there, and has been reopened since.
LEMMA OpenIncidentKeeps ==
  ASSUME IInv, NEW c \in Calls, OpenIncident(c)
  PROVE  IInv'
<1>1. call[c].phase = "open" /\ Finish(c) /\ UNCHANGED <<lock, expiries, seeded, acting>>
  BY DEF OpenIncident, At
<1> DEFINE n == Len(incidents)
           r == [status |-> "open", severity |-> call[c].severity,
                 beside |-> call[c].found + 1 .. Len(incidents),
                 by |-> IF call[c].kind = "cycle" THEN "cycle" ELSE "request"]
<1>2. /\ incidents \in Seq(Incident) /\ n \in Nat
      /\ DOMAIN incidents = 1..n /\ call[c] \in Call
  BY DEF IInv, TypeOK
<1>3. /\ call[c].found \in Nat /\ call[c].found <= n /\ call[c].severity \in Severities
      /\ \A i \in 1..call[c].found :
           incidents[i].status = "resolved" \/ incidents[i].by = "operator"
      /\ \A i \in (call[c].found + 1)..n :
           call[c].kind = "cycle" /\ incidents[i].by = "cycle" => expiries > 0
  BY <1>1, <1>2, Fields DEF IInv, EvalInv, FoundInv
<1>4. incidents' = Append(incidents, r)
  BY DEF OpenIncident
<1>5. call[c].found + 1 .. n \in SUBSET Nat
  BY <1>2, <1>3
<1>6. /\ r \in Incident /\ r.by # "operator" /\ r.beside = call[c].found + 1 .. n
      /\ (r.by = "cycle" <=> call[c].kind = "cycle")
  BY <1>3, <1>5 DEF Incident, Unresolved
<1> HIDE DEF r
<1>7. /\ incidents' \in Seq(Incident) /\ Len(incidents') = n + 1
      /\ DOMAIN incidents' = 1..(n + 1) /\ incidents'[n + 1] = r
      /\ \A i \in 1..n : incidents'[i] = incidents[i]
  BY <1>2, <1>4, <1>6
<1>8. OnePerClass'
  <2>1. SUFFICES ASSUME NEW i \in Open', NEW j \in Open', i < j
                 PROVE  \/ /\ i \in incidents'[j].beside
                           /\ incidents'[i].by = "cycle" /\ incidents'[j].by = "cycle" => expiries' > 0
                        \/ incidents'[i].by = "operator" \/ incidents'[j].by = "operator"
    BY DEF OnePerClass
  <2>2. /\ i \in 1..(n + 1) /\ j \in 1..(n + 1) /\ i \in 1..n
        /\ incidents'[i].status \in Unresolved /\ incidents'[j].status \in Unresolved
    BY <1>2, <1>7, <2>1 DEF Open
  <2>3. CASE j \in 1..n
    <3>1. i \in Open /\ j \in Open
      BY <1>2, <1>7, <2>2, <2>3 DEF Open
    <3> QED
      BY <1>1, <1>7, <2>1, <2>2, <2>3, <3>1 DEF IInv, EvalInv, OnePerClass
  <2>4. CASE j = n + 1
    <3>1. CASE i > call[c].found
      <4>1. i \in (call[c].found + 1)..n /\ incidents'[i] = incidents[i]
        BY <1>2, <1>3, <1>7, <2>2, <3>1
      <4>2. i \in incidents'[j].beside
        BY <1>6, <1>7, <2>4, <4>1
      <4>3. incidents'[i].by = "cycle" /\ incidents'[j].by = "cycle" => expiries' > 0
        BY <1>1, <1>3, <1>6, <1>7, <2>4, <4>1
      <4> QED
        BY <4>2, <4>3
    <3>2. CASE i <= call[c].found
      <4>1. i \in 1..call[c].found /\ incidents'[i] = incidents[i]
        BY <1>2, <1>3, <1>7, <2>2, <3>2
      <4>2. incidents[i].status # "resolved"
        BY <2>2, <4>1 DEF Unresolved
      <4> QED
        BY <1>3, <4>1, <4>2
    <3> QED
      BY <1>2, <1>3, <2>2, <3>1, <3>2
  <2> QED
    BY <1>2, <2>2, <2>3, <2>4
<1>9. call[c].phase \in Evaluating
  BY <1>1 DEF Evaluating
<1>10. \A i \in (n + 1)..Len(incidents') : incidents'[i].by = "cycle" => call[c].kind = "cycle"
  BY <1>2, <1>6, <1>7
<1> QED
  BY <1>1, <1>2, <1>7, <1>8, <1>9, <1>10, IncidentsWritten

\* A cycle that has compared the token deletes the lock, whosever it is by then.
LEMMA DeleteLockKeeps ==
  ASSUME IInv, NEW c \in Calls, DeleteLock(c)
  PROVE  IInv'
<1> USE DEF IInv
<1>1. /\ call \in [Calls -> Call] /\ call[c].phase = "delete"
      /\ lock' = None /\ End(c) /\ UNCHANGED <<expiries, seeded, incidents, acting>>
  BY DEF TypeOK, DeleteLock, At
<1>2. /\ call' \in [Calls -> Call] /\ Others(c) /\ Keeps(c)
      /\ call'[c].phase = "over" /\ call'[c].kind = "none"
  BY <1>1, EndStep
<1>3. TypeOK'
  BY <1>1, <1>2 DEF TypeOK, acting
<1>4. ActInv'
  BY <1>1, <1>2, EvaluationKeepsActions
<1>5. LockInv'
  <2>1. call[c].kind = "cycle"
    BY <1>1 DEF EvalInv, FoundInv
  <2>2. c \in Active /\ Active' \subseteq Active \ {c}
    BY <1>1, <1>2, <2>1 DEF Active, Others
  <2>3. IsFiniteSet(Active \ {c}) /\ Cardinality(Active \ {c}) = Cardinality(Active) - 1
    BY <2>2, ActiveFinite, FS_RemoveElement
  <2>4. Cardinality(Active') <= Cardinality(Active) - 1
    BY <2>2, <2>3, FS_Subset
  <2>5. Cardinality(Active) <= expiries + 1
    <3>1. expiries \in Nat /\ LockInv
      BY DEF EvalInv, TypeOK
    <3> QED
      BY <3>1, ActiveFinite DEF LockInv
  <2>6. Cardinality(Active') <= expiries
    BY <2>4, <2>5, ActiveFinite, ActiveFiniteNext DEF TypeOK
  <2> QED
    BY <1>1, <2>6 DEF LockInv, TypeOK
<1>6. OnePerClass'
  BY <1>1 DEF EvalInv, OnePerClass, Open
<1>7. ASSUME NEW d \in Calls PROVE FoundInv(d)'
  <2>1. CASE d = c
    BY <1>2, <2>1 DEF FoundInv
  <2>2. CASE d # c
    <3>1. call'[d] = call[d] /\ FoundInv(d) /\ incidents' = incidents
      BY <1>1, <1>2, <2>2 DEF Others, EvalInv
    <3> QED
      BY <1>1, <3>1 DEF FoundInv
  <2> QED
    BY <2>1, <2>2
<1> QED
  BY <1>3, <1>4, <1>5, <1>6, <1>7 DEF EvalInv

\* The lock expires under whoever has it.
LEMMA ExpireKeeps ==
  ASSUME IInv, Expire
  PROVE  IInv'
<1> USE DEF IInv
<1>1. /\ lock # None /\ lock' = None /\ expiries' = expiries + 1 /\ expiries < MaxExpiries
      /\ UNCHANGED <<seeded, incidents, row, writer, reply, call>>
  BY DEF Expire, acting
<1>2. TypeOK'
  BY <1>1, OperabilityAssumption DEF TypeOK
<1>3. ActInv'
  BY <1>1 DEF ActInv, ActionInv, KeyInv, AloneInv, RetriesHarmless, AnswersAgree
<1>4. LockInv'
  <2>1. Active' = Active
    BY <1>1 DEF Active
  <2> QED
    BY <1>1, <2>1 DEF EvalInv, LockInv, TypeOK
<1>5. OnePerClass' /\ \A d \in Calls : FoundInv(d)'
  <2>1. expiries \in Nat /\ expiries' > 0
    BY <1>1 DEF TypeOK
  <2> QED
    BY <1>1, <2>1 DEF EvalInv, OnePerClass, Open, FoundInv
<1> QED
  BY <1>2, <1>3, <1>4, <1>5 DEF EvalInv

\* An operator changes the status of an incident.
LEMMA HandleKeeps ==
  ASSUME IInv, NEW i \in DOMAIN incidents, NEW s \in Unresolved \cup {"resolved"}, Handle(i, s)
  PROVE  IInv'
<1> USE DEF IInv
<1> DEFINE n == Len(incidents)
           r == [incidents[i] EXCEPT !.status = s,
                   !.by = IF incidents[i].status = "resolved" THEN "operator"
                          ELSE incidents[i].by]
<1>1. incidents \in Seq(Incident) /\ n \in Nat /\ DOMAIN incidents = 1..n
      /\ incidents[i] \in Incident
  BY DEF TypeOK
<1>2. UNCHANGED <<lock, expiries, seeded, row, writer, reply, call>>
  BY DEF Handle, acting
<1>3. incidents' = [incidents EXCEPT ![i] = r]
  BY DEF Handle
<1>5. /\ r \in Incident /\ r.status = s /\ r.beside = incidents[i].beside
      /\ r.by = IF incidents[i].status = "resolved" THEN "operator" ELSE incidents[i].by
  BY <1>1 DEF Incident
<1> HIDE DEF r
<1>6. /\ incidents' \in Seq(Incident) /\ Len(incidents') = n /\ DOMAIN incidents' = 1..n
      /\ incidents'[i] = r /\ \A j \in 1..n : j # i => incidents'[j] = incidents[j]
  BY <1>1, <1>3, <1>5
<1>7. TypeOK'
  BY <1>2, <1>6 DEF TypeOK
<1>8. ActInv'
  BY <1>2 DEF ActInv, ActionInv, KeyInv, AloneInv, RetriesHarmless, AnswersAgree
<1>9. LockInv'
  BY <1>2 DEF EvalInv, LockInv, Active
<1>10. \A j \in 1..n :
         incidents[j].status = "resolved" \/ incidents[j].by = "operator"
           => incidents'[j].status = "resolved" \/ incidents'[j].by = "operator"
  BY <1>5, <1>6
<1>11. \A d \in Calls : FoundInv(d)'
  <2>1. \A j \in 1..n : incidents'[j].by = "cycle" => incidents[j].by = "cycle"
    BY <1>5, <1>6
  <2>2. (n + 1)..Len(incidents') = {}
    BY <1>1, <1>6
  <2> QED
    BY <1>1, <1>2, <1>6, <1>10, <2>1, <2>2, FoundStays DEF EvalInv
<1>12. OnePerClass'
  <2>1. SUFFICES ASSUME NEW a \in Open', NEW b \in Open', a < b
                 PROVE  \/ /\ a \in incidents'[b].beside
                           /\ incidents'[a].by = "cycle" /\ incidents'[b].by = "cycle" => expiries' > 0
                        \/ incidents'[a].by = "operator" \/ incidents'[b].by = "operator"
    BY DEF OnePerClass
  <2>2. /\ a \in 1..n /\ b \in 1..n /\ incidents[a] \in Incident /\ incidents[b] \in Incident
        /\ incidents'[a].status \in Unresolved /\ incidents'[b].status \in Unresolved
    BY <1>1, <1>6, <2>1 DEF Open
  <2>3. CASE incidents[a].status = "resolved" \/ incidents[b].status = "resolved"
    BY <1>6, <1>10, <2>2, <2>3 DEF Unresolved
  <2>4. CASE incidents[a].status # "resolved" /\ incidents[b].status # "resolved"
    <3>1. a \in Open /\ b \in Open
      BY <1>1, <2>2, <2>4 DEF Open, Incident
    <3>2. \/ /\ a \in incidents[b].beside
             /\ incidents[a].by = "cycle" /\ incidents[b].by = "cycle" => expiries > 0
          \/ incidents[a].by = "operator" \/ incidents[b].by = "operator"
      BY <2>1, <3>1 DEF EvalInv, OnePerClass
    <3>3. /\ incidents'[b].beside = incidents[b].beside
          /\ incidents'[a].by = "cycle" => incidents[a].by = "cycle"
          /\ incidents'[b].by = "cycle" => incidents[b].by = "cycle"
      BY <1>5, <1>6, <2>2
    <3>4. \A j \in {a, b} : incidents[j].by = "operator" => incidents'[j].by = "operator"
      BY <1>5, <1>6, <2>2
    <3> QED
      BY <1>2, <3>2, <3>3, <3>4
  <2> QED
    BY <2>3, <2>4
<1> QED
  BY <1>7, <1>8, <1>9, <1>11, <1>12 DEF EvalInv

-----------------------------------------------------------------------------
\* Operator actions.

\* AnswersAgree of one call.
AnswerInv(c) ==
  call[c].answer \in {"completed", "failed"} => row[call[c].key] = call[c].answer

\* An effect that is not undone is the only one of its key.
OnlyEffect(c) ==
  call[c].applied /\ ~call[c].undone =>
    \A d \in Calls \ {c} : call[d].key = call[c].key /\ call[d].applied => call[d].undone

\* A step of an operator action keeps the invariant if it keeps what concerns each call
\* and each key, lets nobody in beside another, and has no second effect.
LEMMA ActionStep ==
  ASSUME IInv, NEW c \in Calls, UNCHANGED alerting, TypeOK', Others(c),
         call'[c].phase \notin Evaluating \cup {"delete"},
         \A d \in Calls : ActionInv(d)' /\ AnswerInv(d)',
         \A k \in Keys : KeyInv(k)',
         call'[c].phase \in {"effect", "commit"} =>
           \A d \in Calls \ {c} :
             call[d].key = call'[c].key => call[d].phase \notin {"effect", "commit"},
         OnlyEffect(c)'
  PROVE  IInv'
<1>1. lock' = lock /\ expiries' = expiries /\ incidents' = incidents
  BY DEF alerting
<1>2. EvalInv'
  <2>1. Active' \subseteq Active
    BY CyclesOfOthers
  <2>2. FoundInv(c)'
    BY DEF FoundInv, Evaluating
  <2> QED
    BY <1>1, <2>1, <2>2, NothingOpened DEF IInv
<1>3. AloneInv'
  BY DEF AloneInv, Others, IInv, ActInv
<1>4. RetriesHarmless'
  <2>1. SUFFICES ASSUME NEW a \in Calls, NEW b \in Calls, a # b,
                        call'[a].key = call'[b].key, call'[a].applied, call'[b].applied
                 PROVE  call'[a].undone \/ call'[b].undone
    BY DEF RetriesHarmless
  <2>2. CASE a # c /\ b # c
    BY <2>1, <2>2 DEF Others, IInv, ActInv, RetriesHarmless
  <2>3. CASE a = c
    BY <2>1, <2>3 DEF Others, OnlyEffect
  <2>4. CASE b = c
    BY <2>1, <2>4 DEF Others, OnlyEffect
  <2> QED
    BY <2>2, <2>3, <2>4
<1>5. AnswersAgree'
  BY DEF AnswersAgree, AnswerInv
<1> QED
  BY <1>2, <1>3, <1>4, <1>5 DEF IInv, ActInv

\* What concerns the other calls and the other keys is kept by a step that touches
\* only what is kept of one key.
LEMMA Undisturbed ==
  ASSUME IInv, NEW c \in Calls, Others(c), NEW k \in Keys,
         \A q \in Keys \ {k} : row'[q] = row[q] /\ writer'[q] = writer[q] /\ reply'[q] = reply[q],
         call[c].key = k \/ call[c].phase \notin {"effect", "commit"}
  PROVE  /\ \A d \in Calls \ {c} : call[d].key # k => ActionInv(d)' /\ AnswerInv(d)'
         /\ \A q \in Keys \ {k} : KeyInv(q)'
<1>1. ASSUME NEW d \in Calls, d # c, call[d].key # k PROVE ActionInv(d)' /\ AnswerInv(d)'
  <2>1. call'[d] = call[d] /\ ActionInv(d) /\ AnswerInv(d)
    BY <1>1 DEF Others, IInv, ActInv, AnswersAgree, AnswerInv
  <2>2. CASE call[d].key \in Keys
    <3>1. row'[call[d].key] = row[call[d].key] /\ writer'[call[d].key] = writer[call[d].key]
      BY <1>1, <2>2
    <3> QED
      BY <2>1, <3>1 DEF ActionInv, AnswerInv
  <2>3. CASE call[d].key \notin Keys
    <3>1. /\ call[d].phase \notin Acting /\ call[d].answer = None /\ ~call[d].applied
      BY <2>1, <2>3 DEF ActionInv
    <3>2. call[d].phase \notin {"effect", "commit"} /\ None \notin {"completed", "failed"}
      BY <3>1, OperabilityAssumption DEF Acting, Outcomes
    <3> QED
      BY <2>1, <2>3, <3>1, <3>2 DEF ActionInv, AnswerInv
  <2> QED
    BY <2>2, <2>3
<1>2. ASSUME NEW q \in Keys, q # k PROVE KeyInv(q)'
  <2>1. /\ row'[q] = row[q] /\ writer'[q] = writer[q] /\ reply'[q] = reply[q]
        /\ KeyInv(q) /\ writer[q] \in Calls \cup {None}
    BY <1>2 DEF IInv, ActInv, TypeOK
  <2>2. ASSUME writer[q] # None PROVE call'[writer[q]] = call[writer[q]]
    <3>1. writer[q] # c
      BY <1>2, <2>1, <2>2 DEF KeyInv
    <3> QED
      BY <2>1, <2>2, <3>1 DEF Others
  <2> QED
    BY <2>1, <2>2 DEF KeyInv
<1> QED
  BY <1>1, <1>2

\* A step that writes neither rows nor answers.
LEMMA QuietAction ==
  ASSUME IInv, NEW c \in Calls, UNCHANGED <<alerting, acting>>,
         call' \in [Calls -> Call], Others(c),
         call'[c].phase \notin Evaluating \cup {"delete"},
         ActionInv(c)', AnswerInv(c)', OnlyEffect(c)',
         IF call[c].phase \in {"effect", "commit"}
         THEN call'[c].phase \in {"effect", "commit"} /\ call'[c].key = call[c].key
         ELSE call'[c].phase \notin {"effect", "commit"}
  PROVE  IInv'
<1>1. /\ UNCHANGED alerting /\ row' = row /\ writer' = writer /\ reply' = reply
      /\ lock' = lock /\ expiries' = expiries /\ seeded' = seeded /\ incidents' = incidents
  BY DEF acting, alerting
<1>2. TypeOK'
  BY <1>1 DEF IInv, TypeOK
<1>3. ASSUME NEW d \in Calls PROVE ActionInv(d)' /\ AnswerInv(d)'
  <2>1. CASE d # c
    <3>1. call'[d] = call[d] /\ ActionInv(d) /\ AnswerInv(d)
      BY <2>1 DEF Others, IInv, ActInv, AnswersAgree, AnswerInv
    <3> QED
      BY <1>1, <3>1 DEF ActionInv, AnswerInv
  <2> QED
    BY <2>1
<1>4. ASSUME NEW q \in Keys PROVE KeyInv(q)'
  <2>1. KeyInv(q) /\ writer[q] \in Calls \cup {None}
    BY DEF IInv, ActInv, TypeOK
  <2>2. ASSUME writer[q] # None
        PROVE  /\ call'[writer[q]].key = q
               /\ call'[writer[q]].phase \in {"effect", "commit"}
    <3>1. writer[q] \in Calls /\ call[writer[q]].key = q
          /\ call[writer[q]].phase \in {"effect", "commit"}
      BY <2>1, <2>2 DEF KeyInv
    <3>2. CASE writer[q] = c
      BY <3>1, <3>2
    <3>3. CASE writer[q] # c
      BY <3>1, <3>3 DEF Others
    <3> QED
      BY <3>2, <3>3
  <2> QED
    BY <1>1, <2>1, <2>2 DEF KeyInv
<1>5. call'[c].phase \in {"effect", "commit"} =>
        \A d \in Calls \ {c} :
          call[d].key = call'[c].key => call[d].phase \notin {"effect", "commit"}
  BY DEF IInv, ActInv, AloneInv
<1> QED
  BY <1>1, <1>2, <1>3, <1>4, <1>5, ActionStep

\* An effect that was there before is still the only one.
LEMMA SameEffect ==
  ASSUME IInv, NEW c \in Calls, Others(c), call'[c].key = call[c].key,
         call'[c].applied => call[c].applied,
         call[c].undone => call'[c].undone
  PROVE  OnlyEffect(c)'
BY DEF OnlyEffect, Others, IInv, ActInv, RetriesHarmless

\* What is known of a call on its way through an action.
LEMMA OfAction ==
  ASSUME IInv, NEW c \in Calls
  PROVE  /\ call \in [Calls -> Call] /\ call[c] \in Call
         /\ ActionInv(c) /\ AnswerInv(c)
         /\ None \notin Calls \cup Keys \cup Outcomes
BY OperabilityAssumption DEF IInv, TypeOK, ActInv, AnswersAgree, AnswerInv

\* An action is asked for.
LEMMA RequestKeeps ==
  ASSUME IInv, NEW c \in Calls, NEW k \in Keys, Request(c, k)
  PROVE  IInv'
<1> DEFINE r == [call[c] EXCEPT !.phase = "check", !.kind = "action", !.key = k]
<1>1. /\ call[c] \in Call /\ call \in [Calls -> Call] /\ ActionInv(c)
      /\ None \notin Outcomes /\ call[c].phase = "idle" /\ UNCHANGED <<alerting, acting>>
  BY OfAction DEF Request, At
<1>2. /\ r \in Call /\ r.phase = "check" /\ r.key = k /\ r.answer = call[c].answer
      /\ r.applied = call[c].applied /\ r.undone = call[c].undone
  BY <1>1 DEF Call, Acting
<1>3. call' = [call EXCEPT ![c] = r]
  BY DEF Request
<1> HIDE DEF r
<1>4. call' \in [Calls -> Call] /\ call'[c] = r /\ Others(c)
  BY <1>1, <1>2, <1>3, AssignCall
<1>5. ActionInv(c)'
  BY <1>1, <1>2, <1>4 DEF ActionInv
<1>6. AnswerInv(c)' /\ OnlyEffect(c)'
  BY <1>1, <1>2, <1>4 DEF ActionInv, AnswerInv, OnlyEffect, Outcomes
<1>7. call'[c].phase \notin Evaluating \cup {"delete"}
  BY <1>2, <1>4 DEF Evaluating
<1> QED
  BY <1>1, <1>2, <1>4, <1>5, <1>6, <1>7, QuietAction

\* An answer that was kept is repeated.
LEMMA ReplayKeeps ==
  ASSUME IInv, NEW c \in Calls, Replay(c)
  PROVE  IInv'
<1> DEFINE k == call[c].key
           s == Rest(call[c])
           r == [s EXCEPT !.answer = reply[k].answer]
<1>1. /\ call[c] \in Call /\ call \in [Calls -> Call] /\ ActionInv(c)
      /\ None \notin Outcomes /\ call[c].phase = "check" /\ UNCHANGED <<alerting, acting>>
      /\ reply[k] # None
  BY OfAction DEF Replay, At, Replayable
<1>2. k \in Keys /\ KeyInv(k)
  BY <1>1 DEF ActionInv, Acting, IInv, ActInv
<1>3. reply[k] \in Reply /\ reply[k].answer \in Outcomes
  BY <1>1, <1>2 DEF IInv, TypeOK, Reply
<1>4. s \in Call /\ s.phase = "over" /\ s.key = k /\ s.applied = call[c].applied
      /\ s.undone = call[c].undone
  BY <1>1, RestFields
<1>5. call' = [call EXCEPT ![c] = r]
  BY DEF Replay
<1> HIDE DEF s
<1>6. /\ r \in Call /\ r.phase = "over" /\ r.key = k /\ r.answer = reply[k].answer
      /\ r.applied = call[c].applied /\ r.undone = call[c].undone
  BY <1>3, <1>4 DEF Call
<1> HIDE DEF r
<1>7. call' \in [Calls -> Call] /\ call'[c] = r /\ Others(c)
  BY <1>1, <1>5, <1>6, AssignCall
<1>8. ActionInv(c)'
  BY <1>1, <1>2, <1>6, <1>7 DEF ActionInv
<1>9. row' = row
  BY <1>1 DEF acting
<1>10. AnswerInv(c)'
  BY <1>1, <1>2, <1>6, <1>7, <1>9 DEF AnswerInv, KeyInv
<1>11. OnlyEffect(c)'
  BY <1>6, <1>7, SameEffect
<1>12. call'[c].phase \notin Evaluating \cup {"delete"}
  BY <1>6, <1>7 DEF Evaluating
<1> QED
  BY <1>1, <1>6, <1>7, <1>8, <1>10, <1>11, <1>12, QuietAction

\* A step to another phase that changes nothing else.
LEMMA MoveKeeps ==
  ASSUME IInv, NEW c \in Calls, NEW p \in {"find", "insert"}, Goto(c, p),
         call[c].phase \in {"check", "find"}, UNCHANGED <<alerting, acting>>
  PROVE  IInv'
<1>1. call \in [Calls -> Call] /\ ActionInv(c) /\ None \notin Outcomes
  BY OfAction
<1>2. p \in Acting /\ call[c].phase \in Acting /\ p \notin Evaluating \cup {"delete"}
  BY DEF Acting, Evaluating
<1>3. /\ call' \in [Calls -> Call] /\ Others(c) /\ Keeps(c) /\ call'[c].phase = p
  BY <1>1, <1>2, GotoStep
<1>4. ActionInv(c)'
  BY <1>1, <1>2, <1>3 DEF ActionInv, Keeps
<1>5. AnswerInv(c)'
  BY <1>1, <1>3 DEF ActionInv, AnswerInv, Keeps, Outcomes
<1>6. OnlyEffect(c)'
  BY <1>3, SameEffect DEF Keeps
<1> QED
  BY <1>2, <1>3, <1>4, <1>5, <1>6, QuietAction

\* A row that is there is the answer.
LEMMA FindActionKeeps ==
  ASSUME IInv, NEW c \in Calls, FindAction(c)
  PROVE  IInv'
<1> DEFINE k == call[c].key
<1>1. /\ call[c] \in Call /\ call \in [Calls -> Call] /\ ActionInv(c)
      /\ None \notin Outcomes /\ call[c].phase = "find" /\ UNCHANGED <<alerting, acting>>
  BY OfAction DEF FindAction, At
<1>2. k \in Keys /\ row[k] \in Outcomes \cup {None}
  BY <1>1 DEF ActionInv, Acting, IInv, TypeOK
<1>3. CASE row[k] # None
  <2>1. Answer(c, row[k])
    BY <1>3 DEF FindAction
  <2>2. /\ call' \in [Calls -> Call] /\ Others(c) /\ call'[c].phase = "store"
        /\ call'[c].answer = row[k] /\ call'[c].key = k
        /\ call'[c].applied = call[c].applied /\ call'[c].undone = call[c].undone
    BY <1>1, <1>2, <2>1, AnswerStep
  <2>3. row' = row
    BY <1>1 DEF acting
  <2>4. ActionInv(c)'
    BY <1>1, <1>2, <1>3, <2>2 DEF ActionInv
  <2>5. AnswerInv(c)'
    BY <2>2, <2>3 DEF AnswerInv
  <2>6. OnlyEffect(c)'
    BY <2>2, SameEffect
  <2>7. call'[c].phase \notin Evaluating \cup {"delete"}
    BY <2>2 DEF Evaluating
  <2> QED
    BY <1>1, <2>2, <2>4, <2>5, <2>6, <2>7, QuietAction
<1>4. CASE row[k] = None
  <2>1. Goto(c, "insert")
    BY <1>4 DEF FindAction
  <2> QED
    BY <1>1, <2>1, MoveKeeps
<1> QED
  BY <1>3, <1>4

\* The row is inserted: nobody else is at work on one of the key.
LEMMA InsertActionKeeps ==
  ASSUME IInv, NEW c \in Calls, InsertAction(c)
  PROVE  IInv'
<1> DEFINE k == call[c].key
<1>1. /\ call[c] \in Call /\ call \in [Calls -> Call] /\ ActionInv(c)
      /\ None \notin Calls \cup Outcomes /\ call[c].phase = "insert"
      /\ UNCHANGED alerting /\ row' = row /\ reply' = reply
      /\ writer[k] = None /\ row[k] = None
      /\ writer' = [writer EXCEPT ![k] = c] /\ Goto(c, "effect")
  BY OfAction DEF InsertAction, At, Insertable
<1>2. k \in Keys /\ writer \in [Keys -> Calls \cup {None}] /\ KeyInv(k)
  BY <1>1 DEF ActionInv, Acting, IInv, TypeOK, ActInv
<1>3. /\ writer' \in [Keys -> Calls \cup {None}] /\ writer'[k] = c
      /\ \A q \in Keys \ {k} : writer'[q] = writer[q]
  BY <1>1, <1>2
<1>4. "effect" \in Acting
  BY DEF Acting
<1>5. /\ call' \in [Calls -> Call] /\ Others(c) /\ Keeps(c) /\ call'[c].phase = "effect"
  BY <1>1, <1>4, GotoStep
<1>6. TypeOK'
  BY <1>1, <1>3, <1>5 DEF IInv, TypeOK, alerting
<1>7. /\ \A d \in Calls \ {c} : call[d].key # k => ActionInv(d)' /\ AnswerInv(d)'
      /\ \A q \in Keys \ {k} : KeyInv(q)'
  BY <1>1, <1>2, <1>3, <1>5, Undisturbed
<1>8. ASSUME NEW d \in Calls \ {c}, call[d].key = k
      PROVE  /\ call[d].phase \notin {"effect", "commit"}
             /\ ActionInv(d)' /\ AnswerInv(d)'
  <2>1. call'[d] = call[d] /\ ActionInv(d) /\ AnswerInv(d)
    BY <1>5, OfAction DEF Others
  <2>2. call[d].phase \notin {"effect", "commit"}
    BY <1>1, <1>8, <2>1 DEF ActionInv, Outcomes
  <2>3. ~(call[d].applied /\ ~call[d].undone)
    BY <1>1, <1>8, <2>1 DEF ActionInv
  <2>4. ActionInv(d)'
    BY <2>1, <2>2, <2>3 DEF ActionInv
  <2>5. AnswerInv(d)'
    BY <1>1, <2>1 DEF AnswerInv
  <2> QED
    BY <2>2, <2>4, <2>5
<1>9. ActionInv(c)'
  BY <1>1, <1>2, <1>3, <1>5 DEF ActionInv, Keeps
<1>10. AnswerInv(c)'
  BY <1>1, <1>5 DEF ActionInv, AnswerInv, Keeps, Outcomes
<1>11. ASSUME NEW q \in Keys, q = k PROVE KeyInv(q)'
  BY <1>1, <1>2, <1>3, <1>5, <1>11 DEF KeyInv, Keeps
<1>12. OnlyEffect(c)'
  BY <1>5, SameEffect DEF Keeps
<1>13. \A d \in Calls : ActionInv(d)' /\ AnswerInv(d)'
  BY <1>7, <1>8, <1>9, <1>10
<1>14. \A q \in Keys : KeyInv(q)'
  BY <1>7, <1>11
<1>15. call'[c].phase \notin Evaluating \cup {"delete"}
  BY <1>5 DEF Evaluating
<1>16. \A d \in Calls \ {c} : call[d].key = call'[c].key => call[d].phase \notin {"effect", "commit"}
  BY <1>5, <1>8 DEF Keeps
<1> QED
  BY <1>1, <1>5, <1>6, <1>12, <1>13, <1>14, <1>15, <1>16, ActionStep

\* The insert is refused: the call fails.
LEMMA InsertRefusedKeeps ==
  ASSUME IInv, NEW c \in Calls, InsertRefused(c)
  PROVE  IInv'
<1>1. /\ call[c] \in Call /\ call \in [Calls -> Call] /\ ActionInv(c)
      /\ None \notin Outcomes /\ call[c].phase \in {"insert", "failed"}
      /\ UNCHANGED <<alerting, acting>> /\ End(c)
  BY OfAction DEF InsertRefused
<1>2. /\ call' \in [Calls -> Call] /\ Others(c) /\ Keeps(c) /\ call'[c].phase = "over"
  BY <1>1, EndStep
<1>3. row' = row /\ writer' = writer
  BY <1>1 DEF acting
<1>4. ActionInv(c)'
  BY <1>1, <1>2, <1>3 DEF ActionInv, Keeps, Acting
<1>5. AnswerInv(c)'
  BY <1>1, <1>2 DEF ActionInv, AnswerInv, Keeps, Outcomes
<1>6. OnlyEffect(c)'
  BY <1>2, SameEffect DEF Keeps
<1>7. call'[c].phase \notin Evaluating \cup {"delete"}
  BY <1>2 DEF Evaluating
<1> QED
  BY <1>1, <1>2, <1>4, <1>5, <1>6, <1>7, QuietAction

\* A freeze is committed with its row, still running: nobody else has had an effect that
\* was kept, or the row would not be there to insert.
LEMMA FreezeKeeps ==
  ASSUME IInv, NEW c \in Calls, Freeze(c)
  PROVE  IInv'
<1> DEFINE k == call[c].key
           r == [call[c] EXCEPT !.phase = "commit", !.applied = TRUE]
<1>1. /\ call[c] \in Call /\ call \in [Calls -> Call] /\ ActionInv(c)
      /\ None \notin Calls \cup Outcomes /\ call[c].phase = "effect"
      /\ UNCHANGED alerting /\ reply' = reply
      /\ row' = [row EXCEPT ![k] = "running"] /\ writer' = [writer EXCEPT ![k] = None]
      /\ call' = [call EXCEPT ![c] = r]
  BY OfAction DEF Freeze, At
<1>2. /\ k \in Keys /\ KeyInv(k) /\ writer[k] = c /\ row[k] = None
      /\ row \in [Keys -> Outcomes \cup {None}] /\ writer \in [Keys -> Calls \cup {None}]
      /\ reply \in [Keys -> Reply \cup {None}]
  BY <1>1 DEF ActionInv, Acting, IInv, TypeOK, ActInv, KeyInv
<1>3. /\ row' \in [Keys -> Outcomes \cup {None}] /\ writer' \in [Keys -> Calls \cup {None}]
      /\ row'[k] = "running" /\ writer'[k] = None
      /\ \A q \in Keys \ {k} : row'[q] = row[q] /\ writer'[q] = writer[q] /\ reply'[q] = reply[q]
  BY <1>1, <1>2 DEF Outcomes
<1>4. /\ r \in Call /\ r.phase = "commit" /\ r.key = k /\ r.answer = call[c].answer
      /\ r.applied = TRUE /\ r.undone = call[c].undone
  BY <1>1 DEF Call, Acting
<1> HIDE DEF r
<1>5. call' \in [Calls -> Call] /\ call'[c] = r /\ Others(c)
  BY <1>1, <1>4, AssignCall
<1>6. TypeOK'
  BY <1>1, <1>2, <1>3, <1>5 DEF IInv, TypeOK, alerting
<1>7. /\ \A d \in Calls \ {c} : call[d].key # k => ActionInv(d)' /\ AnswerInv(d)'
      /\ \A q \in Keys \ {k} : KeyInv(q)'
  BY <1>1, <1>2, <1>3, <1>5, Undisturbed
<1>8. ASSUME NEW d \in Calls \ {c}, call[d].key = k
      PROVE  /\ call[d].phase \notin {"effect", "commit"}
             /\ ~(call[d].applied /\ ~call[d].undone)
             /\ ActionInv(d)' /\ AnswerInv(d)'
  <2>1. call'[d] = call[d] /\ ActionInv(d) /\ AnswerInv(d)
    BY <1>5, OfAction DEF Others
  <2>2. call[d].phase \notin {"effect", "commit"}
    BY <1>1, <1>8 DEF IInv, ActInv, AloneInv
  <2>3. ~(call[d].applied /\ ~call[d].undone)
    BY <1>2, <1>8, <2>1 DEF ActionInv
  <2>4. ActionInv(d)'
    BY <2>1, <2>2, <2>3 DEF ActionInv
  <2>5. AnswerInv(d)'
    BY <1>1, <1>2, <1>8, <2>1 DEF AnswerInv, Outcomes
  <2> QED
    BY <2>2, <2>3, <2>4, <2>5
<1>9. ActionInv(c)'
  BY <1>1, <1>2, <1>3, <1>4, <1>5 DEF ActionInv, Outcomes
<1>10. AnswerInv(c)'
  BY <1>1, <1>4, <1>5 DEF ActionInv, AnswerInv, Outcomes
<1>11. ASSUME NEW q \in Keys, q = k PROVE KeyInv(q)'
  <2>1. reply[k] # None => reply[k].answer \notin {"completed", "failed"}
    BY <1>1, <1>2 DEF KeyInv, Outcomes
  <2> QED
    BY <1>1, <1>3, <1>11, <2>1 DEF KeyInv
<1>12. OnlyEffect(c)'
  BY <1>4, <1>5, <1>8 DEF OnlyEffect, Others
<1>13. \A d \in Calls : ActionInv(d)' /\ AnswerInv(d)'
  BY <1>7, <1>8, <1>9, <1>10
<1>14. \A q \in Keys : KeyInv(q)'
  BY <1>7, <1>11
<1>15. call'[c].phase \notin Evaluating \cup {"delete"}
  BY <1>4, <1>5 DEF Evaluating
<1>16. \A d \in Calls \ {c} : call[d].key = call'[c].key => call[d].phase \notin {"effect", "commit"}
  BY <1>4, <1>5, <1>8
<1> QED
  BY <1>1, <1>5, <1>6, <1>12, <1>13, <1>14, <1>15, <1>16, ActionStep

\* Another action takes effect, or not, before its row is committed.
LEMMA SetFlagKeeps ==
  ASSUME IInv, NEW c \in Calls, NEW done \in BOOLEAN, SetFlag(c, done)
  PROVE  IInv'
<1> DEFINE k == call[c].key
           r == [call[c] EXCEPT !.phase = "commit", !.applied = done]
<1>1. /\ call[c] \in Call /\ call \in [Calls -> Call] /\ ActionInv(c)
      /\ None \notin Calls \cup Outcomes /\ call[c].phase = "effect"
      /\ UNCHANGED <<alerting, acting>>
      /\ call' = [call EXCEPT ![c] = r]
  BY OfAction DEF SetFlag, At
<1>2. k \in Keys /\ KeyInv(k) /\ writer[k] = c /\ row[k] = None
  BY <1>1 DEF ActionInv, Acting, IInv, ActInv, KeyInv
<1>3. /\ r \in Call /\ r.phase = "commit" /\ r.key = k /\ r.answer = call[c].answer
      /\ r.applied = done /\ r.undone = call[c].undone
  BY <1>1 DEF Call, Acting
<1> HIDE DEF r
<1>4. call' \in [Calls -> Call] /\ call'[c] = r /\ Others(c)
  BY <1>1, <1>3, AssignCall
<1>5. writer' = writer /\ row' = row
  BY <1>1 DEF acting
<1>6. ActionInv(c)'
  BY <1>1, <1>2, <1>3, <1>4, <1>5 DEF ActionInv
<1>7. AnswerInv(c)'
  BY <1>1, <1>3, <1>4 DEF ActionInv, AnswerInv, Outcomes
<1>8. ASSUME NEW d \in Calls \ {c}, call[d].key = k
      PROVE  ~(call[d].applied /\ ~call[d].undone)
  <2>1. ActionInv(d)
    BY OfAction
  <2> QED
    BY <1>2, <1>8, <2>1 DEF ActionInv
<1>9. OnlyEffect(c)'
  BY <1>3, <1>4, <1>8 DEF OnlyEffect, Others
<1>10. call'[c].phase \notin Evaluating \cup {"delete"}
  BY <1>3, <1>4 DEF Evaluating
<1> QED
  BY <1>1, <1>3, <1>4, <1>6, <1>7, <1>9, <1>10, QuietAction

\* The row is committed as completed, by the only call at work on it.
LEMMA CommitActionKeeps ==
  ASSUME IInv, NEW c \in Calls, CommitAction(c)
  PROVE  IInv'
<1> DEFINE k == call[c].key
<1>1. /\ call[c] \in Call /\ call \in [Calls -> Call] /\ ActionInv(c)
      /\ None \notin Calls \cup Outcomes /\ call[c].phase = "commit"
      /\ UNCHANGED alerting /\ reply' = reply
      /\ row' = [row EXCEPT ![k] = "completed"] /\ writer' = [writer EXCEPT ![k] = None]
      /\ Answer(c, "completed")
  BY OfAction DEF CommitAction, At
<1>2. /\ k \in Keys /\ KeyInv(k)
      /\ row \in [Keys -> Outcomes \cup {None}] /\ writer \in [Keys -> Calls \cup {None}]
      /\ reply \in [Keys -> Reply \cup {None}]
  BY <1>1 DEF ActionInv, Acting, IInv, TypeOK, ActInv
<1>3. row[k] \in {None, "running"}
  BY <1>1, <1>2 DEF ActionInv, KeyInv
<1>4. writer[k] \in {None, c}
  BY <1>1, <1>2 DEF KeyInv, IInv, ActInv, AloneInv
<1>5. /\ row' \in [Keys -> Outcomes \cup {None}] /\ writer' \in [Keys -> Calls \cup {None}]
      /\ row'[k] = "completed" /\ writer'[k] = None
      /\ \A q \in Keys \ {k} : row'[q] = row[q] /\ writer'[q] = writer[q] /\ reply'[q] = reply[q]
  BY <1>1, <1>2 DEF Outcomes
<1>6. /\ call' \in [Calls -> Call] /\ Others(c) /\ call'[c].phase = "store"
      /\ call'[c].answer = "completed" /\ call'[c].key = k
      /\ call'[c].applied = call[c].applied /\ call'[c].undone = call[c].undone
  BY <1>1, AnswerStep DEF Outcomes
<1>7. TypeOK'
  BY <1>1, <1>2, <1>5, <1>6 DEF IInv, TypeOK, alerting
<1>8. /\ \A d \in Calls \ {c} : call[d].key # k => ActionInv(d)' /\ AnswerInv(d)'
      /\ \A q \in Keys \ {k} : KeyInv(q)'
  BY <1>1, <1>2, <1>5, <1>6, Undisturbed
<1>9. ASSUME NEW d \in Calls \ {c}, call[d].key = k
      PROVE  ActionInv(d)' /\ AnswerInv(d)'
  <2>1. call'[d] = call[d] /\ ActionInv(d) /\ AnswerInv(d)
    BY <1>6, OfAction DEF Others
  <2>2. call[d].phase \notin {"effect", "commit"}
    BY <1>1, <1>9 DEF IInv, ActInv, AloneInv
  <2>3. row'[call'[d].key] # None
    BY <1>1, <1>5, <1>9, <2>1 DEF Outcomes
  <2>4. ActionInv(d)'
    BY <2>1, <2>2, <2>3 DEF ActionInv
  <2>5. AnswerInv(d)'
    BY <1>1, <1>3, <1>9, <2>1 DEF AnswerInv, Outcomes
  <2> QED
    BY <2>4, <2>5
<1>10. ActionInv(c)'
  BY <1>1, <1>2, <1>5, <1>6 DEF ActionInv, Outcomes
<1>11. AnswerInv(c)'
  BY <1>5, <1>6 DEF AnswerInv
<1>12. ASSUME NEW q \in Keys, q = k PROVE KeyInv(q)'
  <2>1. reply[k] # None => reply[k].answer \notin {"completed", "failed"}
    BY <1>1, <1>2, <1>3 DEF KeyInv, Outcomes
  <2> QED
    BY <1>1, <1>5, <1>12, <2>1 DEF KeyInv
<1>13. OnlyEffect(c)'
  BY <1>6, SameEffect
<1>14. \A d \in Calls : ActionInv(d)' /\ AnswerInv(d)'
  BY <1>8, <1>9, <1>10, <1>11
<1>15. \A q \in Keys : KeyInv(q)'
  BY <1>8, <1>12
<1>16. /\ call'[c].phase \notin Evaluating \cup {"delete"}
       /\ call'[c].phase \notin {"effect", "commit"}
  BY <1>6 DEF Evaluating
<1> QED
  BY <1>1, <1>6, <1>7, <1>13, <1>14, <1>15, <1>16, ActionStep

\* What a call that fails or dies had not committed is rolled back.
LEMMA RolledBack ==
  ASSUME IInv, NEW c \in Calls, UNCHANGED <<alerting, row, reply>>, writer' = Dropped(c),
         call' \in [Calls -> Call], Others(c),
         call'[c].key = call[c].key, call'[c].answer = call[c].answer,
         call'[c].applied = call[c].applied,
         call'[c].undone = (call[c].undone \/ Undone(c)),
         \/ call'[c].phase = "over"
         \/ call'[c].phase = "failed" /\ call[c].phase \in {"effect", "commit"}
  PROVE  IInv'
<1>1. /\ call[c] \in Call /\ ActionInv(c) /\ AnswerInv(c) /\ None \notin Calls \cup Keys \cup Outcomes
      /\ writer \in [Keys -> Calls \cup {None}] /\ row' = row /\ reply' = reply
  BY OfAction DEF IInv, TypeOK
<1>2. /\ writer' \in [Keys -> Calls \cup {None}]
      /\ \A q \in Keys : writer'[q] = IF writer[q] = c THEN None ELSE writer[q]
  BY <1>1 DEF Dropped
<1>3. TypeOK'
  BY <1>1, <1>2 DEF IInv, TypeOK, alerting
<1>4. ASSUME NEW d \in Calls, d # c PROVE ActionInv(d)' /\ AnswerInv(d)'
  <2>1. call'[d] = call[d] /\ ActionInv(d) /\ AnswerInv(d)
    BY <1>4, OfAction DEF Others
  <2>2. call[d].key \in Keys => (writer[call[d].key] = d => writer'[call[d].key] = d)
    BY <1>2, <1>4
  <2>3. /\ call[d].phase \in {"effect", "commit"} => call[d].key \in Keys
        /\ call[d].applied => call[d].key \in Keys
    BY <2>1 DEF ActionInv, Acting
  <2>4. ActionInv(d)'
    BY <1>1, <2>1, <2>2, <2>3 DEF ActionInv
  <2>5. AnswerInv(d)'
    BY <1>1, <2>1 DEF AnswerInv
  <2> QED
    BY <2>4, <2>5
<1>5. call'[c].applied /\ ~call'[c].undone => row'[call'[c].key] # None
  <2>1. SUFFICES ASSUME call[c].applied, ~call[c].undone, ~Undone(c) PROVE row[call[c].key] # None
    BY <1>1
  <2>2. call[c].key # None /\ (row[call[c].key] # None \/ writer[call[c].key] = c)
    BY <1>1, <2>1 DEF ActionInv
  <2> QED
    BY <2>1, <2>2 DEF Undone
<1>6. ActionInv(c)'
  BY <1>1, <1>5 DEF ActionInv, Acting
<1>7. AnswerInv(c)'
  BY <1>1 DEF AnswerInv
<1>8. ASSUME NEW q \in Keys PROVE KeyInv(q)'
  <2>1. KeyInv(q) /\ writer[q] \in Calls \cup {None}
    BY <1>1 DEF IInv, ActInv
  <2>2. writer'[q] # None => writer'[q] = writer[q] /\ call'[writer[q]] = call[writer[q]]
    BY <1>2, <2>1 DEF Others
  <2> QED
    BY <1>1, <2>1, <2>2 DEF KeyInv
<1>9. OnlyEffect(c)'
  BY SameEffect
<1>10. \A d \in Calls : ActionInv(d)' /\ AnswerInv(d)'
  BY <1>4, <1>6, <1>7
<1>11. /\ call'[c].phase \notin Evaluating \cup {"delete"}
       /\ call'[c].phase \notin {"effect", "commit"}
  BY DEF Evaluating
<1> QED
  BY <1>3, <1>8, <1>9, <1>10, <1>11, ActionStep

\* An action fails before its row is committed ...
LEMMA ActionFailsKeeps ==
  ASSUME IInv, NEW c \in Calls, ActionFails(c)
  PROVE  IInv'
<1> DEFINE r == [call[c] EXCEPT !.phase = "failed", !.undone = Undone(c)]
<1>1. /\ call[c] \in Call /\ call \in [Calls -> Call] /\ ActionInv(c)
      /\ call[c].phase \in {"effect", "commit"} /\ ~call[c].undone
  BY OfAction DEF ActionFails, ActionInv
<1>2. UNCHANGED <<alerting, row, reply>> /\ writer' = Dropped(c) /\ call' = [call EXCEPT ![c] = r]
  BY DEF ActionFails
<1>3. Undone(c) \in BOOLEAN
  BY <1>1 DEF Undone, Call
<1>4. /\ r \in Call /\ r.phase = "failed" /\ r.key = call[c].key /\ r.answer = call[c].answer
      /\ r.applied = call[c].applied /\ r.undone = Undone(c)
  BY <1>1, <1>3 DEF Call, Acting
<1> HIDE DEF r
<1>5. call' \in [Calls -> Call] /\ call'[c] = r /\ Others(c)
  BY <1>1, <1>2, <1>4, AssignCall
<1>6. call'[c].undone = (call[c].undone \/ Undone(c))
  BY <1>1, <1>3, <1>4, <1>5
<1> QED
  BY <1>1, <1>2, <1>4, <1>5, <1>6, RolledBack

\* ... or any call dies.
LEMMA CrashKeeps ==
  ASSUME IInv, NEW c \in Calls, Crash(c)
  PROVE  IInv'
<1> DEFINE s == Rest(call[c])
           u == call[c].undone \/ Undone(c)
           r == [s EXCEPT !.undone = u]
<1>1. /\ call[c] \in Call /\ call \in [Calls -> Call]
  BY OfAction
<1>2. UNCHANGED <<alerting, row, reply>> /\ writer' = Dropped(c) /\ call' = [call EXCEPT ![c] = r]
  BY DEF Crash
<1>3. u \in BOOLEAN
  BY <1>1 DEF Undone, Call
<1>4. s \in Call /\ s.phase = "over" /\ s.key = call[c].key /\ s.answer = call[c].answer
      /\ s.applied = call[c].applied
  BY <1>1, RestFields
<1> HIDE DEF s, u
<1>5. /\ r \in Call /\ r.phase = "over" /\ r.key = call[c].key /\ r.answer = call[c].answer
      /\ r.applied = call[c].applied /\ r.undone = u
  BY <1>3, <1>4 DEF Call
<1> HIDE DEF r
<1>6. call' \in [Calls -> Call] /\ call'[c] = r /\ Others(c)
  BY <1>1, <1>2, <1>5, AssignCall
<1>7. call'[c].undone = (call[c].undone \/ Undone(c))
  BY <1>5, <1>6 DEF u
<1> QED
  BY <1>2, <1>5, <1>6, <1>7, RolledBack

\* The failure is recorded where there is no row.
LEMMA RecordFailureKeeps ==
  ASSUME IInv, NEW c \in Calls, RecordFailure(c)
  PROVE  IInv'
<1> DEFINE k == call[c].key
<1>1. /\ call[c] \in Call /\ call \in [Calls -> Call] /\ ActionInv(c)
      /\ None \notin Calls \cup Outcomes /\ call[c].phase = "failed"
      /\ UNCHANGED alerting /\ writer' = writer /\ reply' = reply
      /\ writer[k] = None /\ row[k] = None
      /\ row' = [row EXCEPT ![k] = "failed"] /\ Answer(c, "failed")
  BY OfAction DEF RecordFailure, At, Insertable
<1>2. /\ k \in Keys /\ KeyInv(k) /\ row \in [Keys -> Outcomes \cup {None}]
      /\ reply \in [Keys -> Reply \cup {None}]
  BY <1>1 DEF ActionInv, Acting, IInv, TypeOK, ActInv
<1>3. /\ row' \in [Keys -> Outcomes \cup {None}] /\ row'[k] = "failed"
      /\ \A q \in Keys \ {k} : row'[q] = row[q] /\ writer'[q] = writer[q] /\ reply'[q] = reply[q]
  BY <1>1, <1>2 DEF Outcomes
<1>4. /\ call' \in [Calls -> Call] /\ Others(c) /\ call'[c].phase = "store"
      /\ call'[c].answer = "failed" /\ call'[c].key = k
      /\ call'[c].applied = call[c].applied /\ call'[c].undone = call[c].undone
  BY <1>1, AnswerStep DEF Outcomes
<1>5. TypeOK'
  BY <1>1, <1>3, <1>4 DEF IInv, TypeOK, alerting
<1>6. /\ \A d \in Calls \ {c} : call[d].key # k => ActionInv(d)' /\ AnswerInv(d)'
      /\ \A q \in Keys \ {k} : KeyInv(q)'
  BY <1>1, <1>2, <1>3, <1>4, Undisturbed
<1>7. ASSUME NEW d \in Calls \ {c}, call[d].key = k
      PROVE  ActionInv(d)' /\ AnswerInv(d)'
  <2>1. call'[d] = call[d] /\ ActionInv(d) /\ AnswerInv(d)
    BY <1>4, OfAction DEF Others
  <2>2. call[d].phase \notin {"effect", "commit"} /\ ~(call[d].applied /\ ~call[d].undone)
    BY <1>1, <1>7, <2>1 DEF ActionInv, Outcomes
  <2>3. ActionInv(d)'
    BY <2>1, <2>2 DEF ActionInv
  <2>4. AnswerInv(d)'
    BY <1>1, <1>7, <2>1 DEF AnswerInv, Outcomes
  <2> QED
    BY <2>3, <2>4
<1>8. ActionInv(c)'
  BY <1>1, <1>2, <1>3, <1>4 DEF ActionInv, Outcomes
<1>9. AnswerInv(c)'
  BY <1>3, <1>4 DEF AnswerInv
<1>10. ASSUME NEW q \in Keys, q = k PROVE KeyInv(q)'
  <2>1. reply[k] # None => reply[k].answer \notin {"completed", "failed"}
    BY <1>1, <1>2 DEF KeyInv, Outcomes
  <2> QED
    BY <1>1, <1>3, <1>10, <2>1 DEF KeyInv
<1>11. OnlyEffect(c)'
  BY <1>4, SameEffect
<1>12. \A d \in Calls : ActionInv(d)' /\ AnswerInv(d)'
  BY <1>6, <1>7, <1>8, <1>9
<1>13. \A q \in Keys : KeyInv(q)'
  BY <1>6, <1>10
<1>14. /\ call'[c].phase \notin Evaluating \cup {"delete"}
       /\ call'[c].phase \notin {"effect", "commit"}
  BY <1>4 DEF Evaluating
<1> QED
  BY <1>1, <1>4, <1>5, <1>11, <1>12, <1>13, <1>14, ActionStep

\* The answer is kept, or not.
LEMMA StoreReplyKeeps ==
  ASSUME IInv, NEW c \in Calls, StoreReply(c)
  PROVE  IInv'
<1> DEFINE k == call[c].key
           a == [answer |-> call[c].answer, live |-> TRUE]
<1>1. /\ call[c] \in Call /\ call \in [Calls -> Call] /\ ActionInv(c) /\ AnswerInv(c)
      /\ None \notin Calls \cup Outcomes /\ call[c].phase = "store"
      /\ UNCHANGED alerting /\ writer' = writer /\ row' = row /\ End(c)
      /\ reply' = [reply EXCEPT ![k] = a] \/ reply' = reply
  BY OfAction DEF StoreReply, At
<1>2. /\ k \in Keys /\ reply \in [Keys -> Reply \cup {None}]
      /\ call[c].answer \in Outcomes
  BY <1>1, Fields DEF ActionInv, Acting, IInv, TypeOK
<1>3. a \in Reply /\ a.answer = call[c].answer
  BY <1>2 DEF Reply
<1> HIDE DEF a
<1>4. /\ reply'[k] = a \/ reply'[k] = reply[k]
      /\ \A q \in Keys \ {k} : row'[q] = row[q] /\ writer'[q] = writer[q] /\ reply'[q] = reply[q]
  BY <1>1, <1>2, <1>3
<1>5. /\ call' \in [Calls -> Call] /\ Others(c) /\ Keeps(c) /\ call'[c].phase = "over"
  BY <1>1, EndStep
<1>6. TypeOK'
  BY <1>1, <1>2, <1>3, <1>5 DEF IInv, TypeOK, alerting
<1>7. /\ \A d \in Calls \ {c} : call[d].key # k => ActionInv(d)' /\ AnswerInv(d)'
      /\ \A q \in Keys \ {k} : KeyInv(q)'
  BY <1>1, <1>2, <1>4, <1>5, Undisturbed
<1>8. ASSUME NEW d \in Calls \ {c} PROVE ActionInv(d)' /\ AnswerInv(d)'
  <2>1. call'[d] = call[d] /\ ActionInv(d) /\ AnswerInv(d)
    BY <1>5, OfAction DEF Others
  <2> QED
    BY <1>1, <2>1 DEF ActionInv, AnswerInv
<1>9. ActionInv(c)'
  BY <1>1, <1>2, <1>5 DEF ActionInv, Keeps, Acting
<1>10. AnswerInv(c)'
  BY <1>1, <1>5 DEF AnswerInv, Keeps
<1>11. ASSUME NEW q \in Keys, q = k PROVE KeyInv(q)'
  <2>1. KeyInv(q) /\ writer[q] \in Calls \cup {None}
    BY DEF IInv, ActInv, TypeOK
  <2>2. writer[q] # None => writer[q] # c /\ call'[writer[q]] = call[writer[q]]
    BY <1>1, <1>5, <2>1 DEF KeyInv, Others
  <2>3. reply'[q] # None /\ reply'[q].answer \in {"completed", "failed"} => row[q] = reply'[q].answer
    BY <1>1, <1>3, <1>4, <1>11, <2>1 DEF KeyInv, AnswerInv
  <2> QED
    BY <1>1, <2>1, <2>2, <2>3 DEF KeyInv
<1>12. OnlyEffect(c)'
  BY <1>5, SameEffect DEF Keeps
<1>13. \A d \in Calls : ActionInv(d)' /\ AnswerInv(d)'
  BY <1>8, <1>9, <1>10
<1>14. \A q \in Keys : KeyInv(q)'
  BY <1>7, <1>11
<1>15. /\ call'[c].phase \notin Evaluating \cup {"delete"}
       /\ call'[c].phase \notin {"effect", "commit"}
  BY <1>5 DEF Evaluating
<1> QED
  BY <1>1, <1>5, <1>6, <1>12, <1>13, <1>14, <1>15, ActionStep

\* The answers that are kept expire and are pruned, and with them nothing else.
LEMMA RepliesFade ==
  ASSUME IInv, UNCHANGED <<alerting, row, writer, call>>,
         reply' \in [Keys -> Reply \cup {None}],
         \A q \in Keys : reply'[q] # None => reply[q] # None /\ reply'[q].answer = reply[q].answer
  PROVE  IInv'
<1>1. /\ row' = row /\ writer' = writer /\ call' = call /\ lock' = lock
      /\ expiries' = expiries /\ seeded' = seeded /\ incidents' = incidents
  BY DEF alerting
<1>2. TypeOK'
  BY <1>1 DEF IInv, TypeOK
<1>3. EvalInv'
  BY <1>1 DEF IInv, EvalInv, LockInv, Active, OnePerClass, Open, FoundInv
<1>4. \A d \in Calls : ActionInv(d)'
  BY <1>1 DEF IInv, ActInv, ActionInv
<1>5. \A q \in Keys : KeyInv(q)'
  BY <1>1 DEF IInv, ActInv, KeyInv
<1>6. AloneInv' /\ RetriesHarmless' /\ AnswersAgree'
  BY <1>1 DEF IInv, ActInv, AloneInv, RetriesHarmless, AnswersAgree
<1> QED
  BY <1>2, <1>3, <1>4, <1>5, <1>6 DEF IInv, ActInv

\* One expires.
LEMMA ReplyExpiresKeeps ==
  ASSUME IInv, NEW k \in Keys, ReplyExpires(k)
  PROVE  IInv'
<1> DEFINE a == [reply[k] EXCEPT !.live = FALSE]
<1>1. /\ reply \in [Keys -> Reply \cup {None}] /\ reply[k] # None
      /\ reply' = [reply EXCEPT ![k] = a] /\ UNCHANGED <<alerting, row, writer, call>>
  BY DEF IInv, TypeOK, ReplyExpires, Replayable
<1>2. a \in Reply /\ a.answer = reply[k].answer
  BY <1>1 DEF Reply
<1> HIDE DEF a
<1>3. reply' \in [Keys -> Reply \cup {None}]
  BY <1>1, <1>2
<1>4. \A q \in Keys : reply'[q] # None => reply[q] # None /\ reply'[q].answer = reply[q].answer
  BY <1>1, <1>2
<1> QED
  BY <1>1, <1>3, <1>4, RepliesFade

\* One is pruned.
LEMMA PruneReplyKeeps ==
  ASSUME IInv, NEW k \in Keys, PruneReply(k)
  PROVE  IInv'
<1>1. /\ reply \in [Keys -> Reply \cup {None}]
      /\ reply' = [reply EXCEPT ![k] = None] /\ UNCHANGED <<alerting, row, writer, call>>
  BY DEF IInv, TypeOK, PruneReply
<1>2. \A q \in Keys : reply'[q] # None => reply[q] # None /\ reply'[q].answer = reply[q].answer
  BY <1>1
<1> QED
  BY <1>1, <1>2, RepliesFade

-----------------------------------------------------------------------------
\* The first state.
LEMMA InitHolds == Init => IInv
<1> SUFFICES ASSUME Init PROVE IInv
  OBVIOUS
<1>1. NotYet \in Call
  BY DEF NotYet, Call, Severities
<1>2. /\ lock = None /\ expiries = 0 /\ seeded = FALSE /\ incidents = <<>>
      /\ row = [k \in Keys |-> None] /\ writer = [k \in Keys |-> None]
      /\ reply = [k \in Keys |-> None] /\ call = [c \in Calls |-> NotYet]
  BY DEF Init
<1>3. TypeOK
  <2>1. incidents \in Seq(Incident)
    BY <1>2
  <2>2. lock \in Calls \cup {None} /\ expiries \in 0..MaxExpiries /\ seeded \in BOOLEAN
    <3>1. 0 \in 0..MaxExpiries
      BY OperabilityAssumption
    <3> QED
      BY <1>2, <3>1
  <2>3. /\ row \in [Keys -> Outcomes \cup {None}] /\ writer \in [Keys -> Calls \cup {None}]
        /\ reply \in [Keys -> Reply \cup {None}] /\ call \in [Calls -> Call]
    BY <1>1, <1>2
  <2> QED
    BY <2>1, <2>2, <2>3 DEF TypeOK
<1>4. \A c \in Calls : /\ call[c].phase = "idle" /\ call[c].kind = "none" /\ call[c].key = None
                       /\ call[c].answer = None /\ call[c].applied = FALSE
                       /\ call[c].undone = FALSE
  BY <1>2 DEF NotYet
<1>5. LockInv
  <2>1. Active = {}
    BY <1>4 DEF Active
  <2> QED
    BY <1>2, <2>1, FS_EmptySet DEF LockInv
<1>6. OnePerClass
  BY <1>2 DEF OnePerClass, Open
<1>7. \A c \in Calls : FoundInv(c) /\ ActionInv(c)
  BY <1>4 DEF FoundInv, ActionInv, Acting
<1>8. \A k \in Keys : KeyInv(k)
  BY <1>2 DEF KeyInv
<1>9. AloneInv /\ RetriesHarmless /\ AnswersAgree
  BY <1>4, OperabilityAssumption DEF AloneInv, RetriesHarmless, AnswersAgree, Outcomes
<1> QED
  BY <1>3, <1>5, <1>6, <1>7, <1>8, <1>9 DEF IInv, EvalInv, ActInv

\* A step of an evaluation.
LEMMA EvaluateKeeps ==
  ASSUME IInv, NEW c \in Calls, Evaluate(c)
  PROVE  IInv'
<1>1. CASE EvaluationFails(c)
  BY <1>1, FinishKeeps DEF EvaluationFails
<1>2. CASE Suppress(c)
  <2>1. call[c].phase \in Evaluating
    BY <1>2 DEF Suppress, At, Evaluating
  <2> QED
    BY <1>2, <2>1, FinishKeeps DEF Suppress
<1>3. CASE \E s \in Severities : CommitEvent(c, s)
  BY <1>3, CommitEventKeeps
<1>4. CASE \/ StartCycle(c) \/ SkipCycle(c) \/ Trigger(c) \/ FindRules(c) \/ SeedRules(c)
  BY <1>4, StartCycleKeeps, SkipCycleKeeps, TriggerKeeps, FindRulesKeeps, SeedRulesKeeps
<1>5. CASE \/ Lookup(c) \/ UpdateIncident(c) \/ OpenIncident(c) \/ Unlock(c) \/ DeleteLock(c)
  BY <1>5, LookupKeeps, UpdateIncidentKeeps, OpenIncidentKeeps, UnlockKeeps, DeleteLockKeeps
<1> QED
  BY <1>1, <1>2, <1>3, <1>4, <1>5 DEF Evaluate

\* A step of an operator action.
LEMMA ActKeeps ==
  ASSUME IInv, NEW c \in Calls, Act(c)
  PROVE  IInv'
<1>1. CASE NoReplay(c)
  BY <1>1, MoveKeeps DEF NoReplay, At
<1>2. CASE \E k \in Keys : Request(c, k)
  BY <1>2, RequestKeeps
<1>3. CASE \E done \in BOOLEAN : SetFlag(c, done)
  BY <1>3, SetFlagKeeps
<1>4. CASE \/ Replay(c) \/ FindAction(c) \/ InsertAction(c) \/ InsertRefused(c) \/ Freeze(c)
  BY <1>4, ReplayKeeps, FindActionKeeps, InsertActionKeeps, InsertRefusedKeeps, FreezeKeeps
<1>5. CASE \/ CommitAction(c) \/ ActionFails(c) \/ RecordFailure(c) \/ StoreReply(c)
  BY <1>5, CommitActionKeeps, ActionFailsKeeps, RecordFailureKeeps, StoreReplyKeeps
<1> QED
  BY <1>1, <1>2, <1>3, <1>4, <1>5 DEF Act

\* Every step keeps the invariant.
LEMMA StepHolds == IInv /\ [Next]_vars => IInv'
<1> SUFFICES ASSUME IInv, [Next]_vars PROVE IInv'
  OBVIOUS
<1>1. CASE \E c \in Calls : Evaluate(c) \/ Act(c) \/ Crash(c)
  BY <1>1, EvaluateKeeps, ActKeeps, CrashKeeps
<1>2. CASE Expire
  BY <1>2, ExpireKeeps
<1>3. CASE \E i \in DOMAIN incidents, s \in Unresolved \cup {"resolved"} : Handle(i, s)
  BY <1>3, HandleKeeps
<1>4. CASE \E k \in Keys : ReplyExpires(k) \/ PruneReply(k)
  BY <1>4, ReplyExpiresKeeps, PruneReplyKeeps
<1>5. CASE UNCHANGED vars
  <2>1. UNCHANGED <<alerting, row, writer, call>> /\ reply' = reply
    BY <1>5 DEF vars, alerting
  <2>2. reply' \in [Keys -> Reply \cup {None}]
    BY <2>1 DEF IInv, TypeOK
  <2> QED
    BY <2>1, <2>2, RepliesFade
<1> QED
  BY <1>1, <1>2, <1>3, <1>4, <1>5 DEF Next

-----------------------------------------------------------------------------
\* The invariant behind the theorems below: every cycle that runs is accounted for by
\* the lock or by its expiries, and every effect of an action by its row or its writer.
THEOREM Inductive == Spec => []IInv
BY InitHolds, StepHolds, PTL DEF Spec

\* The lock, incidents, rows, kept answers and calls stay of their types, whatever the
\* order of the evaluator's and the endpoints' steps.
THEOREM TypeCorrect == Spec => []TypeOK
<1>1. IInv => TypeOK
  BY DEF IInv
<1> QED
  BY <1>1, Inductive, PTL

\* run_background_evaluator_cycle: cycles run at the same time no more often than the
\* lock expired under one, even if a release deletes the lock of another.
THEOREM CyclesAreBounded == Spec => []CyclesBounded
<1>1. IInv => CyclesBounded
  <2> SUFFICES ASSUME IInv PROVE CyclesBounded
    OBVIOUS
  <2>1. Cycles \subseteq Active
    BY DEF Cycles, Active
  <2>2. Cardinality(Cycles) <= Cardinality(Active) /\ Cardinality(Cycles) \in Nat
    BY <2>1, ActiveFinite, FS_Subset, FS_CardinalityType
  <2>3. LockInv /\ expiries \in Nat
    BY DEF IInv, EvalInv, TypeOK
  <2> QED
    BY <2>2, <2>3, ActiveFinite DEF LockInv, CyclesBounded
<1> QED
  BY <1>1, Inductive, PTL

\* open_incident_for_alert: of two unresolved incidents of a dedupe key, one was opened
\* while the other's opening was under way (by two cycles: once the lock had expired),
\* or an operator reopened one.
THEOREM IncidentsAreExplained == Spec => []OnePerClass
<1>1. IInv => OnePerClass
  BY DEF IInv, EvalInv
<1> QED
  BY <1>1, Inductive, PTL

\* apply_operator_action: of two calls with a key that both took effect, one failed or
\* died before its row was committed.
THEOREM RetriesAreHarmless == Spec => []RetriesHarmless
<1>1. IInv => RetriesHarmless
  BY DEF IInv, ActInv
<1> QED
  BY <1>1, Inductive, PTL

\* check_idempotency and apply_operator_action: every final answer, replayed or not,
\* agrees with the row of its key.
THEOREM AnswersStay == Spec => []AnswersAgree
<1>1. IInv => AnswersAgree
  BY DEF IInv, ActInv
<1> QED
  BY <1>1, Inductive, PTL

-----------------------------------------------------------------------------
\* Autoscaling.  What an action was decided on: each change it had seen was a cooldown
\* ago, or a hold had been recorded since.
Spaced(now, seen) ==
  \A a \in 1 .. seen : Change(a) =>
    \/ now >= actions[a].at + Cooldown
    \/ \E h \in 1 .. seen : actions[h].hold /\ actions[h].at >= actions[a].at

ActionsInv ==
  /\ actions \in Seq(ActionRow)
  /\ \A i \in 1 .. Len(actions) :
       /\ actions[i].seen < i
       /\ ~actions[i].hold => Spaced(actions[i].at, actions[i].seen)

RequestInv(o) ==
  /\ request[o].phase = "record" =>
       /\ request[o].seen <= Len(actions)
       /\ ~request[o].cooling => Spaced(request[o].now, request[o].seen)
  /\ request[o].phase = "patch" => request[o].patch.min <= request[o].patch.max

ScalingInv ==
  /\ clock \in Nat /\ profile \in Bounds /\ crossed \in BOOLEAN
  /\ request \in [Operators -> RequestState]
  /\ ActionsInv
  /\ \A o \in Operators : RequestInv(o)
  /\ ~crossed => profile.min <= profile.max

\* The constants of a profile.
LEMMA ScalingConstants ==
  /\ Cooldown \in Nat /\ Step \in Nat /\ Step > 0
  /\ Replicas \subseteq Nat /\ Profile \in Bounds /\ Profile.min <= Profile.max
  /\ Resting \in RequestState /\ Resting.phase = "idle"
BY AutoscalingAssumption DEF Bounds, Resting, RequestState

\* A request that goes on leaves the others, and everything else, as it was.
LEMMA RequestOnly ==
  ASSUME ScalingInv, NEW o \in Operators, NEW r \in RequestState,
         request' = [request EXCEPT ![o] = r], UNCHANGED <<clock, profile, actions, crossed>>,
         RequestInv(o)'
  PROVE  ScalingInv'
<1>1. request \in [Operators -> RequestState] /\ ActionsInv /\ \A p \in Operators : RequestInv(p)
  BY DEF ScalingInv
<1>2. /\ request' \in [Operators -> RequestState]
      /\ \A p \in Operators : p # o => request'[p] = request[p]
  BY <1>1
<1>3. ASSUME NEW p \in Operators, p # o PROVE RequestInv(p)'
  BY <1>1, <1>2, <1>3 DEF RequestInv, Spaced, Change
<1>4. ActionsInv'
  BY <1>1 DEF ActionsInv, Spaced, Change
<1> QED
  BY <1>2, <1>3, <1>4 DEF ScalingInv

\* A request sees the latest action, and is not cooling if that was a hold or is a
\* cooldown ago: so is every change before it then, or the hold is after the change.
LEMMA ReadLatestKeeps ==
  ASSUME ScalingInv, NEW o \in Operators, NEW apply \in BOOLEAN, ReadLatest(o, apply)
  PROVE  ScalingInv'
<1>1. /\ clock \in Nat /\ profile \in Bounds /\ request \in [Operators -> RequestState]
      /\ actions \in Seq(ActionRow) /\ Cooldown \in Nat /\ Len(actions) \in Nat
      /\ \A i \in 1 .. Len(actions) : actions[i] \in ActionRow
      /\ DOMAIN actions = 1 .. Len(actions)
  BY ScalingConstants DEF ScalingInv, ActionsInv
<1>2. PICK cooling \in IF actions = << >> THEN {FALSE}
                       ELSE {CoolingAfter(i, clock) : i \in LatestActions} :
        /\ request' = [request EXCEPT ![o] = [@ EXCEPT !.phase = "record", !.apply = apply,
                                                       !.now = clock, !.loaded = profile,
                                                       !.cooling = cooling, !.seen = Len(actions)]]
        /\ UNCHANGED <<clock, profile, actions, crossed>>
  BY DEF ReadLatest
<1>3. cooling \in BOOLEAN
  BY <1>1, <1>2 DEF CoolingAfter, ActionRow
<1> DEFINE r == [request[o] EXCEPT !.phase = "record", !.apply = apply, !.now = clock,
                                   !.loaded = profile, !.cooling = cooling, !.seen = Len(actions)]
<1>4. /\ r \in RequestState /\ r.phase = "record" /\ r.now = clock /\ r.cooling = cooling
      /\ r.seen = Len(actions) /\ request' = [request EXCEPT ![o] = r]
  <2>1. request[o] \in RequestState
    BY <1>1
  <2> QED
    BY <1>1, <1>2, <1>3, <2>1 DEF RequestState
<1> HIDE DEF r
<1>5. request'[o] = r
  BY <1>1, <1>4
<1>6. ASSUME ~cooling PROVE Spaced(clock, Len(actions))
  <2>1. CASE actions = << >>
    BY <1>1, <2>1 DEF Spaced
  <2>2. CASE actions # << >>
    <3>1. PICK i \in LatestActions : cooling = CoolingAfter(i, clock)
      BY <1>2, <2>2
    <3>2. /\ i \in 1 .. Len(actions) /\ actions[i] \in ActionRow
          /\ \A k \in 1 .. Len(actions) : actions[k].at <= actions[i].at
      BY <1>1, <3>1 DEF LatestActions
    <3>3. actions[i].hold \/ clock >= actions[i].at + Cooldown
      <4>1. ~CoolingAfter(i, clock)
        BY <1>6, <3>1
      <4>2. actions[i].at + Cooldown \in Nat
        BY <1>1, <3>2 DEF ActionRow
      <4> QED
        BY <1>1, <4>1, <4>2 DEF CoolingAfter
    <3>4. ASSUME NEW a \in 1 .. Len(actions)
          PROVE  \/ clock >= actions[a].at + Cooldown
                 \/ actions[i].hold /\ actions[i].at >= actions[a].at
      <4>1. actions[a].at \in Nat /\ actions[i].at \in Nat /\ actions[a].at <= actions[i].at
        BY <1>1, <3>2 DEF ActionRow
      <4> QED
        BY <1>1, <3>3, <4>1
    <3> QED
      BY <3>2, <3>4 DEF Spaced
  <2> QED
    BY <2>1, <2>2
<1>7. RequestInv(o)'
  <2>1. ~cooling => Spaced(clock, Len(actions))'
    BY <1>2, <1>6 DEF Spaced, Change
  <2>2. /\ request'[o].now = clock' /\ request'[o].seen = Len(actions')
        /\ request'[o].cooling = cooling /\ request'[o].phase = "record"
    BY <1>2, <1>4, <1>5
  <2>3. Spaced(request[o].now, request[o].seen)' = Spaced(clock, Len(actions))'
    BY <2>2
  <2> QED
    BY <1>1, <1>2, <2>1, <2>2, <2>3 DEF RequestInv
<1> QED
  BY <1>2, <1>4, <1>7, RequestOnly

\* An action that changes something was not decided while cooling.
LEMMA RecordActionKeeps ==
  ASSUME ScalingInv, NEW o \in Operators, NEW current \in Replicas, NEW signal \in Signals,
         NEW dry \in BOOLEAN, RecordAction(o, current, signal, dry)
  PROVE  ScalingInv'
<1> DEFINE r == request[o]
           hold == Recommended(r.loaded, current, signal, r.cooling)[1] = "hold"
           new == [hold |-> hold, executed |-> r.apply /\ ~dry, at |-> r.now, seen |-> r.seen]
           n == Len(actions)
<1>1. /\ r \in RequestState /\ actions \in Seq(ActionRow) /\ RequestInv(o)
      /\ request \in [Operators -> RequestState]
      /\ Resting \in RequestState /\ Resting.phase = "idle" /\ n \in Nat
  BY ScalingConstants DEF ScalingInv, ActionsInv
<1>2. /\ r.phase = "record" /\ actions' = Append(actions, new)
      /\ request' = [request EXCEPT ![o] = Resting]
      /\ UNCHANGED <<clock, profile, crossed>>
  BY DEF RecordAction
<1>3. hold \in BOOLEAN /\ (r.cooling => hold)
  BY DEF Recommended
<1> HIDE DEF hold
<1>4. /\ new \in ActionRow /\ new.hold = hold /\ new.at = r.now /\ new.seen = r.seen
  BY <1>1, <1>3 DEF ActionRow, RequestState
<1> HIDE DEF new
<1>5. /\ actions' \in Seq(ActionRow) /\ Len(actions') = n + 1 /\ actions'[n + 1] = new
      /\ \A i \in 1 .. n : actions'[i] = actions[i]
  BY <1>1, <1>2, <1>4
<1>6. ASSUME NEW now \in Nat, NEW seen \in Nat, seen <= n, Spaced(now, seen)
      PROVE  Spaced(now, seen)'
  <2>1. \A i \in 1 .. seen : actions'[i] = actions[i]
    BY <1>1, <1>5, <1>6
  <2> QED
    BY <1>6, <2>1 DEF Spaced, Change
<1>7. r.seen \in Nat /\ r.now \in Nat /\ r.seen <= n /\ (~hold => Spaced(r.now, r.seen))
  BY <1>1, <1>2, <1>3 DEF RequestState, RequestInv
<1>8. ActionsInv'
  <2>1. ASSUME NEW i \in 1 .. n + 1
        PROVE  /\ actions'[i].seen < i
               /\ ~actions'[i].hold => Spaced(actions[i].at, actions[i].seen)'
    <3>1. CASE i = n + 1
      <4>1. new.seen < i
        BY <1>1, <1>4, <1>7, <3>1
      <4>2. PICK now \in Nat, seen \in Nat : now = r.now /\ seen = r.seen
        BY <1>7
      <4>3. ~hold => Spaced(now, seen)'
        BY <1>6, <1>7, <4>2
      <4>4. actions'[i].at = now /\ actions'[i].seen = seen /\ actions'[i].hold = hold
        BY <1>4, <1>5, <3>1, <4>2
      <4> QED
        BY <3>1, <4>1, <4>2, <4>3, <4>4, <1>4
    <3>2. CASE i \in 1 .. n
      <4>1. /\ actions'[i] = actions[i] /\ actions[i] \in ActionRow /\ actions[i].seen < i
            /\ ~actions[i].hold => Spaced(actions[i].at, actions[i].seen)
        BY <1>1, <1>5, <3>2 DEF ScalingInv, ActionsInv
      <4>2. actions[i].seen \in Nat /\ actions[i].at \in Nat /\ actions[i].seen <= n
        BY <1>1, <3>2, <4>1 DEF ActionRow
      <4>3. ~actions[i].hold => Spaced(actions[i].at, actions[i].seen)'
        BY <1>6, <4>1, <4>2
      <4> QED
        BY <4>1, <4>3
    <3> QED
      BY <1>1, <3>1, <3>2
  <2> QED
    BY <1>5, <2>1 DEF ActionsInv
<1>9. /\ request' \in [Operators -> RequestState]
      /\ \A p \in Operators : request'[p] = IF p = o THEN Resting ELSE request[p]
  BY <1>1, <1>2
<1>10. ASSUME NEW p \in Operators PROVE RequestInv(p)'
  <2>1. CASE p = o
    BY <1>1, <1>9, <2>1 DEF RequestInv
  <2>2. CASE p # o
    <3>1. RequestInv(p) /\ request'[p] = request[p] /\ request[p] \in RequestState
      BY <1>9, <2>2 DEF ScalingInv
    <3>2. request[p].seen \in Nat /\ request[p].now \in Nat
      BY <3>1 DEF RequestState
    <3>3. ASSUME request[p].phase = "record"
          PROVE  /\ request[p].seen <= n + 1
                 /\ ~request[p].cooling => Spaced(request[p].now, request[p].seen)'
      BY <1>1, <1>6, <3>1, <3>2, <3>3 DEF RequestInv
    <3> QED
      BY <1>5, <3>1, <3>3 DEF RequestInv
  <2> QED
    BY <2>1, <2>2
<1> QED
  BY <1>2, <1>8, <1>9, <1>10 DEF ScalingInv

\* A patch was checked as a whole; committed over what it read, it is what is there.
LEMMA PatchKeeps ==
  ASSUME ScalingInv, NEW o \in Operators,
         (\E patched \in Bounds : LoadProfile(o, patched)) \/ PatchProfile(o)
  PROVE  ScalingInv'
<1>1. /\ clock \in Nat /\ profile \in Bounds /\ request \in [Operators -> RequestState]
      /\ request[o] \in RequestState /\ RequestInv(o)
      /\ Resting \in RequestState /\ Resting.phase = "idle" /\ Replicas \subseteq Nat
  BY ScalingConstants DEF ScalingInv
<1>2. ASSUME NEW patched \in Bounds, LoadProfile(o, patched) PROVE ScalingInv'
  <2> DEFINE r == [request[o] EXCEPT !.phase = "patch", !.loaded = profile, !.patch = patched]
  <2>1. /\ patched.min <= patched.max /\ request' = [request EXCEPT ![o] = r]
        /\ UNCHANGED <<clock, profile, actions, crossed>>
    BY <1>2 DEF LoadProfile
  <2>2. r \in RequestState /\ r.phase = "patch" /\ r.patch = patched
    BY <1>1 DEF RequestState
  <2> HIDE DEF r
  <2>3. request'[o] = r
    BY <1>1, <2>1
  <2>4. RequestInv(o)'
    BY <2>1, <2>2, <2>3 DEF RequestInv
  <2> QED
    BY <2>1, <2>2, <2>4, RequestOnly
<1>3. CASE PatchProfile(o)
  <2> DEFINE r == request[o]
  <2>1. /\ r.phase = "patch" /\ r.patch \in Bounds /\ r.loaded \in Bounds
        /\ r.patch.min <= r.patch.max
        /\ profile' = [column \in {"min", "max"} |->
                         IF r.patch[column] # r.loaded[column] THEN r.patch[column]
                         ELSE profile[column]]
        /\ crossed' = (profile # r.loaded)
        /\ request' = [request EXCEPT ![o] = Resting]
        /\ clock' = clock /\ actions' = actions
    BY <1>1, <1>3 DEF PatchProfile, RequestInv, RequestState
  <2> HIDE DEF r
  <2>2. profile' \in Bounds
    BY <1>1, <2>1 DEF Bounds
  <2>3. ~crossed' => profile'.min <= profile'.max
    <3>1. ASSUME profile = r.loaded PROVE profile' = r.patch
      BY <1>1, <2>1, <3>1 DEF Bounds
    <3> QED
      BY <2>1, <3>1
  <2>4. /\ request' \in [Operators -> RequestState]
        /\ \A p \in Operators : request'[p] = IF p = o THEN Resting ELSE request[p]
    BY <1>1, <2>1
  <2>5. ASSUME NEW p \in Operators PROVE RequestInv(p)'
    <3>1. CASE p = o
      BY <1>1, <2>4, <3>1 DEF RequestInv
    <3>2. CASE p # o
      <4>1. RequestInv(p) /\ request'[p] = request[p]
        BY <2>4, <3>2 DEF ScalingInv
      <4> QED
        BY <2>1, <4>1 DEF RequestInv, Spaced, Change
    <3> QED
      BY <3>1, <3>2
  <2>6. ActionsInv'
    BY <2>1 DEF ScalingInv, ActionsInv, Spaced, Change
  <2> QED
    BY <1>1, <2>1, <2>2, <2>3, <2>4, <2>5, <2>6 DEF ScalingInv
<1> QED
  BY <1>2, <1>3

\* Requests, patches and time keep the invariant, from a profile that is in order on.
LEMMA ScalingKeeps ==
  /\ AutoscalingInit => ScalingInv
  /\ ScalingInv /\ [AutoscalingNext]_autoscalingVars => ScalingInv'
<1>1. ASSUME AutoscalingInit PROVE ScalingInv
  <2>1. /\ clock = 0 /\ profile = Profile /\ actions = << >> /\ crossed = FALSE
        /\ \A o \in Operators : request[o] = Resting
    BY <1>1 DEF AutoscalingInit
  <2>2. request \in [Operators -> RequestState]
    BY <1>1, ScalingConstants DEF AutoscalingInit
  <2>3. ActionsInv
    BY <2>1 DEF ActionsInv
  <2>4. \A o \in Operators : RequestInv(o)
    BY <2>1, ScalingConstants DEF RequestInv
  <2> QED
    BY <2>1, <2>2, <2>3, <2>4, ScalingConstants DEF ScalingInv
<1>2. ASSUME ScalingInv, UNCHANGED <<profile, actions, request, crossed>>, clock' \in Nat
      PROVE  ScalingInv'
  <2>1. ActionsInv' /\ \A o \in Operators : RequestInv(o)'
    BY <1>2 DEF ScalingInv, ActionsInv, RequestInv, Spaced, Change
  <2> QED
    BY <1>2, <2>1 DEF ScalingInv
<1>3. ASSUME ScalingInv, PassTime \/ UNCHANGED autoscalingVars PROVE ScalingInv'
  BY <1>2, <1>3 DEF PassTime, autoscalingVars, ScalingInv
<1> QED
  BY <1>1, <1>3, ReadLatestKeeps, RecordActionKeeps, PatchKeeps
     DEF AutoscalingNext, ScalingNext, PatchNext, Bounds

\* Clock, profile, actions and requests keep their types.
THEOREM ScalingTypeCorrect == AutoscalingSpec => []AutoscalingTypeOK
<1>1. ScalingInv => AutoscalingTypeOK
  BY DEF ScalingInv, ActionsInv, AutoscalingTypeOK
<1> QED
  BY <1>1, ScalingKeeps, PTL DEF AutoscalingSpec

\* Two changes are executed within the cooldown of the first only if the requests
\* overlapped, or a hold was recorded in between.
THEOREM AppliesAreSpaced == AutoscalingSpec => []SpacedApplies
<1>1. ASSUME ScalingInv PROVE SpacedApplies
  <2>1. ASSUME NEW a \in DOMAIN actions, NEW b \in DOMAIN actions,
               a <= actions[b].seen, Change(a), Change(b)
        PROVE  \/ actions[b].at >= actions[a].at + Cooldown
               \/ \E h \in 1 .. actions[b].seen :
                    actions[h].hold /\ actions[h].at >= actions[a].at
    <3>1. /\ actions \in Seq(ActionRow) /\ a \in 1 .. Len(actions) /\ b \in 1 .. Len(actions)
          /\ ~actions[b].hold => Spaced(actions[b].at, actions[b].seen)
      BY <1>1 DEF ScalingInv, ActionsInv
    <3>2. actions[b] \in ActionRow
      BY <3>1
    <3>3. a \in 1 .. actions[b].seen
      BY <2>1, <3>1, <3>2 DEF ActionRow
    <3> QED
      BY <2>1, <3>1, <3>3 DEF Spaced, Change
  <2> QED
    BY <2>1 DEF SpacedApplies
<1> QED
  BY <1>1, ScalingKeeps, PTL DEF AutoscalingSpec

\* The bounds of a profile stay in order unless one patch was committed over another,
\* and a step from within them ends within them.
THEOREM BoundsAreKept == AutoscalingSpec => []BoundsKept
<1>1. ASSUME ScalingInv PROVE BoundsKept
  <2>1. profile.min \in Nat /\ profile.max \in Nat /\ Step \in Nat /\ Step > 0
    BY <1>1, ScalingConstants DEF ScalingInv, Bounds
  <2>2. ASSUME NEW current \in profile.min .. profile.max, NEW signal \in Signals
        PROVE  Recommended(profile, current, signal, FALSE)[2] \in profile.min .. profile.max
    <3>1. Lesser(profile.max, current + Step) \in profile.min .. profile.max
      BY <2>1 DEF Lesser
    <3>2. Greater(profile.min, current - Step) \in profile.min .. profile.max
      BY <2>1 DEF Greater
    <3> QED
      BY <3>1, <3>2 DEF Recommended
  <2> QED
    BY <1>1, <2>2 DEF ScalingInv, BoundsKept
<1> QED
  BY <1>1, ScalingKeeps, PTL DEF AutoscalingSpec

-----------------------------------------------------------------------------
\* Backups, prunes and drills.
BackupTypes ==
  /\ backup \in [Jobs -> BackupRow] /\ folder \in [Jobs -> Directory]
  /\ age \in [Jobs -> 0 .. 2]
  /\ drill \in [Drills -> DrillState] /\ prune \in [Prunes -> PruneState]

\* A prune that has taken the job away, or is at it, and has not committed that.
Taking(p, j) == j \in prune[p].marked \/ (prune[p].at = "remove" /\ prune[p].job = j)

\* Files are removed only of jobs that are over and past the retention, and by a prune
\* that will say so in the row, unless it has been abandoned.
JobInv(j) ==
  /\ backup[j].task # "done" => age[j] = 0 /\ backup[j].status \notin {"succeeded", "pruned"}
  /\ backup[j].task = "mark" => Complete(j)
  /\ backup[j].status = "succeeded" /\ ~Complete(j) =>
       age[j] > 0 /\ (j \in abandoned \/ \E p \in Prunes : Taking(p, j))
  /\ backup[j].status = "pruned" /\ folder[j] # Emptied => j \in abandoned

PruneInv(p) ==
  /\ prune[p].at \in {"load", "remove"} => prune[p].job \in Jobs
  /\ prune[p].at = "remove" => age[prune[p].job] > 0
  /\ \A j \in prune[p].marked : age[j] > 0 /\ (folder[j] = Emptied \/ j \in abandoned)

\* A drill whose backup was not whole has a file ahead of it that is not there, or has
\* missed it already: what a finished job lacks never comes back.
DrillInv(d) ==
  /\ drill[d].status = "none" => drill[d].at = 0
  /\ drill[d].task \in {"open", "check"} =>
       drill[d].target \in Jobs /\ backup[drill[d].target].task = "done"
  /\ drill[d].task = "check" /\ drill[d].ok /\ ~drill[d].whole =>
       \E f \in drill[d].todo : f \notin folder[drill[d].target].files
  /\ drill[d].task = "record" /\ drill[d].ok => drill[d].whole
  /\ drill[d].status = "passed" => drill[d].whole /\ drill[d].task = "done"

BackupInv ==
  /\ BackupTypes
  /\ \A j \in Jobs : JobInv(j)
  /\ \A p \in Prunes : PruneInv(p)
  /\ \A d \in Drills : DrillInv(d)
  /\ \E n \in Nat : \A j \in Jobs : backup[j].at <= n

\* A set of natural numbers has a least one.
LEMMA LeastOf ==
  ASSUME NEW T \in SUBSET Nat, T # {}
  PROVE  \E x \in T : \A y \in T : x <= y
<1>1. PICK x \in T : \A y \in T : ~(<<y, x>> \in OpToRel(<, Nat))
  BY NatLessThanWellFounded, WFMin
<1>2. \A y \in T : ~(y < x)
  BY <1>1 DEF OpToRel
<1> QED
  BY <1>2

\* The latest of some backups is one of them, and none of them is later.
LEMMA LatestIs ==
  ASSUME BackupInv, NEW js \in SUBSET Jobs, js # {}
  PROVE  Latest(js) \in js /\ \A k \in js : backup[k].at <= backup[Latest(js)].at
<1>1. backup \in [Jobs -> BackupRow]
  BY DEF BackupInv, BackupTypes
<1>2. \A j \in js : backup[j].at \in Nat
  BY <1>1 DEF BackupRow
<1> DEFINE above == {n \in Nat : \A j \in js : backup[j].at <= n}
<1>3. above \in SUBSET Nat /\ above # {}
  BY DEF BackupInv
<1>4. PICK n \in above : \A m \in above : n <= m
  BY <1>3, LeastOf
<1>5. n \in Nat /\ \A j \in js : backup[j].at <= n
  BY <1>4
<1>6. \E j \in js : backup[j].at = n
  <2>1. SUFFICES ASSUME \A j \in js : backup[j].at # n PROVE FALSE
    OBVIOUS
  <2>2. PICK j \in js : TRUE
    OBVIOUS
  <2>3. n > 0 /\ n - 1 \in Nat
    BY <1>2, <1>5, <2>1, <2>2
  <2>4. \A i \in js : backup[i].at <= n - 1
    BY <1>2, <1>5, <2>1
  <2>5. n - 1 \in above
    BY <2>3, <2>4
  <2> HIDE DEF above
  <2> QED
    BY <1>4, <1>5, <2>5
<1>7. \E j \in js : \A k \in js : backup[k].at <= backup[j].at
  BY <1>5, <1>6
<1> QED
  BY <1>7 DEF Latest

\* A completed_at is a natural number, whatever rows there are.
LEMMA AfterIsNat ==
  ASSUME NEW S, IsFiniteSet(S), NEW rows, DOMAIN rows = S
  PROVE  After(rows) \in Nat
<1>1. IsFiniteSet({i \in DOMAIN rows : rows[i].at > 0})
  BY FS_Subset
<1>2. Cardinality({i \in DOMAIN rows : rows[i].at > 0}) \in Nat
  BY <1>1, FS_CardinalityType
<1> QED
  BY <1>2 DEF After

\* A job and its directory by their fields.
LEMMA OfJob ==
  ASSUME BackupTypes, NEW j \in Jobs
  PROVE  /\ backup[j] \in BackupRow
         /\ backup[j].status \in {"none", "queued", "running", "succeeded", "failed", "pruned"}
         /\ backup[j].scope \in Scopes /\ backup[j].dumps \in SUBSET Dumps
         /\ backup[j].at \in Nat /\ backup[j].task \in JobTasks
         /\ folder[j] \in Directory /\ folder[j].files \in SUBSET Files
         /\ folder[j].manifest \in {"absent", "torn", "whole"} /\ age[j] \in 0 .. 2
BY DEF BackupTypes, BackupRow, Directory

\* A prune by its fields.
LEMMA OfPrune ==
  ASSUME BackupTypes, NEW p \in Prunes
  PROVE  /\ prune[p] \in PruneState /\ prune[p].at \in {"idle", "scan", "load", "remove"}
         /\ prune[p].todo \in SUBSET Jobs /\ prune[p].job \in Jobs \cup {Nil}
         /\ prune[p].marked \in SUBSET Jobs
BY DEF BackupTypes, PruneState

\* A drill by its fields.
LEMMA OfDrill ==
  ASSUME BackupTypes, NEW d \in Drills
  PROVE  /\ drill[d] \in DrillState /\ drill[d].status \in {"none", "running", "passed", "failed"}
         /\ drill[d].at \in Nat /\ drill[d].task \in {"new", "open", "check", "record", "done"}
         /\ drill[d].target \in Jobs \cup {Nil} /\ drill[d].todo \in SUBSET Files
         /\ drill[d].ok \in BOOLEAN /\ drill[d].whole \in BOOLEAN
BY DEF BackupTypes, DrillState

\* The state a job's step leaves is that of a job under way, or one that has just
\* succeeded with all its files: no prune and no drill is at it.
LEMMA JobStep ==
  ASSUME BackupInv, NEW j \in Jobs, backup[j].task # "done",
         NEW new \in BackupRow, NEW there \in Directory,
         backup' = [backup EXCEPT ![j] = new], folder' = [folder EXCEPT ![j] = there],
         UNCHANGED <<age, drill, prune, abandoned>>,
         new.at \in {backup[j].at, After(backup)},
         new.status \in {"succeeded", "pruned"} => new.status = "succeeded" /\ new.task = "done",
         new.status = "succeeded" \/ new.task = "mark" =>
           there.manifest = "whole" /\ new.dumps \cup {Signature} \subseteq there.files
  PROVE  BackupInv'
<1>1. /\ BackupTypes /\ (\A k \in Jobs : JobInv(k)) /\ (\A p \in Prunes : PruneInv(p))
      /\ (\A d \in Drills : DrillInv(d))
      /\ backup \in [Jobs -> BackupRow] /\ folder \in [Jobs -> Directory]
  BY DEF BackupInv, BackupTypes
<1>2. /\ backup' \in [Jobs -> BackupRow] /\ folder' \in [Jobs -> Directory]
      /\ backup'[j] = new /\ folder'[j] = there
      /\ \A k \in Jobs : k # j => backup'[k] = backup[k] /\ folder'[k] = folder[k]
  BY <1>1
<1>3. BackupTypes'
  BY <1>1, <1>2 DEF BackupTypes
<1>4. age[j] = 0
  BY <1>1 DEF JobInv
<1>5. ASSUME NEW k \in Jobs PROVE JobInv(k)'
  <2>1. CASE k = j
    <3>1. new.status = "succeeded" \/ new.task = "mark" => Complete(j)'
      BY <1>2 DEF Complete, Listed
    <3> QED
      BY <1>2, <1>4, <2>1, <3>1 DEF JobInv
  <2>2. CASE k # j
    <3>1. /\ JobInv(k) /\ backup'[k] = backup[k] /\ folder'[k] = folder[k] /\ age'[k] = age[k]
      BY <1>1, <1>2, <2>2
    <3>2. Complete(k)' <=> Complete(k)
      BY <3>1 DEF Complete, Listed
    <3> QED
      BY <3>1, <3>2 DEF JobInv, Taking
  <2> QED
    BY <2>1, <2>2
<1>6. ASSUME NEW p \in Prunes PROVE PruneInv(p)'
  <2>1. PruneInv(p) /\ prune[p].marked \in SUBSET Jobs
    BY <1>1, OfPrune
  <2>2. \A k \in prune[p].marked : k # j
    BY <1>4, <2>1 DEF PruneInv
  <2> QED
    BY <1>2, <2>1, <2>2 DEF PruneInv
<1>7. ASSUME NEW d \in Drills PROVE DrillInv(d)'
  <2>1. DrillInv(d)
    BY <1>1
  <2>2. drill[d].task \in {"open", "check"} => drill[d].target # j
    BY <2>1 DEF DrillInv
  <2> QED
    BY <1>2, <2>1, <2>2 DEF DrillInv
<1>8. \E n \in Nat : \A k \in Jobs : backup'[k].at <= n
  <2>1. PICK n \in Nat : \A k \in Jobs : backup[k].at <= n
    BY DEF BackupInv
  <2>2. After(backup) \in Nat
    BY <1>1, AfterIsNat, BackupAssumption
  <2>3. \A k \in Jobs : backup[k].at \in Nat
    BY <1>1, OfJob
  <2>4. \A k \in Jobs : backup'[k].at <= n + After(backup)
    BY <1>2, <2>1, <2>2, <2>3
  <2> QED
    BY <2>1, <2>2, <2>4
<1> QED
  BY <1>3, <1>5, <1>6, <1>7, <1>8 DEF BackupInv

\* A job's task goes on, or ends.
LEMMA JobKeeps ==
  ASSUME BackupInv, NEW j \in Jobs,
         \/ \E scope \in Scopes, dumps \in (SUBSET Dumps) \ {{}} : CreateJob(j, scope, dumps)
         \/ StartJob(j) \/ (\E f \in Dumps : Dump(j, f)) \/ OpenManifest(j) \/ WriteManifest(j)
         \/ SignManifest(j) \/ VerifyBackup(j) \/ BackupFails(j) \/ MarkJob(j) \/ JobDies(j)
  PROVE  BackupInv'
<1>1. /\ BackupTypes /\ JobInv(j)
      /\ backup \in [Jobs -> BackupRow] /\ folder \in [Jobs -> Directory]
      /\ backup[j] \in BackupRow /\ folder[j] \in Directory
      /\ folder = [folder EXCEPT ![j] = folder[j]] /\ backup = [backup EXCEPT ![j] = backup[j]]
  BY DEF BackupInv, BackupTypes
<1>2. After(backup) \in Nat
  BY <1>1, AfterIsNat, BackupAssumption
<1>3. backup[j].task # "done" => backup[j].status \notin {"succeeded", "pruned"}
  BY <1>1 DEF JobInv
<1>4. ASSUME NEW scope \in Scopes, NEW dumps \in SUBSET Dumps, CreateJob(j, scope, dumps)
      PROVE  BackupInv'
  <2> DEFINE new == [backup[j] EXCEPT !.status = "queued", !.scope = scope, !.dumps = dumps,
                                      !.task = "queued"]
  <2>1. /\ new \in BackupRow /\ new.status = "queued" /\ new.task = "queued"
        /\ new.at = backup[j].at
    BY <1>1 DEF BackupRow, JobTasks
  <2>2. /\ backup' = [backup EXCEPT ![j] = new] /\ folder' = [folder EXCEPT ![j] = folder[j]]
        /\ UNCHANGED <<age, drill, prune, abandoned>> /\ backup[j].task # "done"
    BY <1>1, <1>4 DEF CreateJob
  <2> HIDE DEF new
  <2> QED
    BY <1>1, <2>1, <2>2, JobStep
<1>5. CASE StartJob(j)
  <2> DEFINE new == [backup[j] EXCEPT !.status = "running", !.task = "dump"]
  <2>1. /\ new \in BackupRow /\ new.status = "running" /\ new.task = "dump"
        /\ new.at = backup[j].at
    BY <1>1 DEF BackupRow, JobTasks
  <2>2. /\ backup' = [backup EXCEPT ![j] = new] /\ folder' = [folder EXCEPT ![j] = folder[j]]
        /\ UNCHANGED <<age, drill, prune, abandoned>> /\ backup[j].task # "done"
    BY <1>1, <1>5 DEF StartJob
  <2> HIDE DEF new
  <2> QED
    BY <1>1, <2>1, <2>2, JobStep
<1>6. ASSUME NEW f \in Dumps, Dump(j, f) PROVE BackupInv'
  <2> DEFINE there == [folder[j] EXCEPT !.files = folder[j].files \cup {f}]
  <2>1. there \in Directory
    BY <1>1 DEF Directory, Files
  <2>2. /\ backup' = [backup EXCEPT ![j] = backup[j]] /\ folder' = [folder EXCEPT ![j] = there]
        /\ UNCHANGED <<age, drill, prune, abandoned>> /\ backup[j].task = "dump"
    BY <1>1, <1>6 DEF Dump
  <2> HIDE DEF there
  <2> QED
    BY <1>1, <1>3, <2>1, <2>2, JobStep
<1>7. ASSUME NEW from \in JobTasks \ {"done"}, NEW to \in JobTasks, NEW there \in Directory,
             TaskGoes(j, from, to), folder' = [folder EXCEPT ![j] = there],
             UNCHANGED <<age, drill, prune, abandoned>>,
             to = "mark" => there = folder[j] /\ Complete(j)
      PROVE  BackupInv'
  <2> DEFINE new == [backup[j] EXCEPT !.task = to]
  <2>1. /\ new \in BackupRow /\ new.status = backup[j].status /\ new.task = to
        /\ new.at = backup[j].at /\ new.dumps = backup[j].dumps
    BY <1>1 DEF BackupRow
  <2>2. /\ backup' = [backup EXCEPT ![j] = new] /\ backup[j].task # "done"
    BY <1>1, <1>7 DEF TaskGoes
  <2>3. to = "mark" =>
          there.manifest = "whole" /\ new.dumps \cup {Signature} \subseteq there.files
    BY <1>7, <2>1 DEF Complete, Listed
  <2> HIDE DEF new
  <2> QED
    BY <1>1, <1>3, <1>7, <2>1, <2>2, <2>3, JobStep
<1>8. CASE OpenManifest(j)
  <2>1. [folder[j] EXCEPT !.manifest = "torn"] \in Directory
    BY <1>1 DEF Directory
  <2>2. /\ folder' = [folder EXCEPT ![j] = [folder[j] EXCEPT !.manifest = "torn"]]
        /\ UNCHANGED <<age, drill, prune, abandoned>>
        /\ TaskGoes(j, "dump", "manifest")
    BY <1>1, <1>8 DEF OpenManifest
  <2> QED
    BY <1>7, <2>1, <2>2 DEF JobTasks
<1>9. CASE WriteManifest(j)
  <2>1. [folder[j] EXCEPT !.manifest = "whole"] \in Directory
    BY <1>1 DEF Directory
  <2>2. /\ folder' = [folder EXCEPT ![j] = [folder[j] EXCEPT !.manifest = "whole"]]
        /\ UNCHANGED <<age, drill, prune, abandoned>>
        /\ TaskGoes(j, "manifest", "sign")
    BY <1>1, <1>9 DEF WriteManifest
  <2> QED
    BY <1>7, <2>1, <2>2 DEF JobTasks
<1>10. CASE SignManifest(j)
  <2>1. [folder[j] EXCEPT !.files = folder[j].files \cup {Signature}] \in Directory
    BY <1>1 DEF Directory, Files
  <2>2. /\ folder' = [folder EXCEPT ![j] = [folder[j] EXCEPT !.files = folder[j].files \cup {Signature}]]
        /\ UNCHANGED <<age, drill, prune, abandoned>>
        /\ TaskGoes(j, "sign", "verify")
    BY <1>1, <1>10 DEF SignManifest
  <2> QED
    BY <1>7, <2>1, <2>2 DEF JobTasks
<1>11. CASE VerifyBackup(j)
  <2> DEFINE to == IF Complete(j) THEN "mark" ELSE "fail"
  <2>1. /\ folder' = [folder EXCEPT ![j] = folder[j]]
        /\ UNCHANGED <<age, drill, prune, abandoned>>
        /\ TaskGoes(j, "verify", to)
    BY <1>1, <1>11 DEF VerifyBackup
  <2>2. to \in JobTasks /\ (to = "mark" => Complete(j))
    BY DEF JobTasks
  <2>3. "verify" \in JobTasks \ {"done"}
    BY DEF JobTasks
  <2> HIDE DEF to
  <2> QED
    BY <1>1, <1>7, <2>1, <2>2, <2>3
<1>12. CASE BackupFails(j)
  <2>1. PICK from \in JobTasks \ {"done"} : backup[j].task = from
    BY <1>12 DEF BackupFails, JobTasks
  <2>2. /\ folder' = [folder EXCEPT ![j] = folder[j]]
        /\ UNCHANGED <<age, drill, prune, abandoned>>
        /\ TaskGoes(j, from, "fail")
    BY <1>1, <1>12, <2>1 DEF BackupFails, TaskGoes
  <2> QED
    BY <1>1, <1>7, <2>1, <2>2 DEF JobTasks
<1>13. CASE JobDies(j)
  <2>1. PICK from \in JobTasks \ {"done"} : backup[j].task = from
    BY <1>1, <1>13 DEF JobDies, BackupRow
  <2>2. /\ folder' = [folder EXCEPT ![j] = folder[j]]
        /\ UNCHANGED <<age, drill, prune, abandoned>>
        /\ TaskGoes(j, from, "done")
    BY <1>1, <1>13, <2>1 DEF JobDies, TaskGoes
  <2> QED
    BY <1>1, <1>7, <2>1, <2>2 DEF JobTasks
<1>14. CASE MarkJob(j) /\ backup[j].task = "mark"
  <2> DEFINE new == [backup[j] EXCEPT !.status = "succeeded", !.at = After(backup), !.task = "done"]
  <2>1. /\ new \in BackupRow /\ new.status = "succeeded" /\ new.task = "done"
        /\ new.at = After(backup) /\ new.dumps = backup[j].dumps
    BY <1>1, <1>2 DEF BackupRow, JobTasks
  <2>2. /\ backup' = [backup EXCEPT ![j] = new] /\ folder' = [folder EXCEPT ![j] = folder[j]]
        /\ UNCHANGED <<age, drill, prune, abandoned>> /\ backup[j].task # "done"
    BY <1>1, <1>14 DEF MarkJob
  <2>3. folder[j].manifest = "whole" /\ new.dumps \cup {Signature} \subseteq folder[j].files
    BY <1>1, <1>14, <2>1 DEF JobInv, Complete, Listed
  <2> HIDE DEF new
  <2> QED
    BY <1>1, <2>1, <2>2, <2>3, JobStep
<1>15. CASE MarkJob(j) /\ backup[j].task = "fail"
  <2> DEFINE new == [backup[j] EXCEPT !.status = "failed", !.task = "done"]
  <2>1. /\ new \in BackupRow /\ new.status = "failed" /\ new.task = "done"
        /\ new.at = backup[j].at
    BY <1>1 DEF BackupRow, JobTasks
  <2>2. /\ backup' = [backup EXCEPT ![j] = new] /\ folder' = [folder EXCEPT ![j] = folder[j]]
        /\ UNCHANGED <<age, drill, prune, abandoned>> /\ backup[j].task # "done"
    BY <1>1, <1>15 DEF MarkJob
  <2> HIDE DEF new
  <2> QED
    BY <1>1, <2>1, <2>2, JobStep
<1>16. MarkJob(j) => backup[j].task \in {"mark", "fail"}
  BY DEF MarkJob
<1> QED
  BY <1>4, <1>5, <1>6, <1>8, <1>9, <1>10, <1>11, <1>12, <1>13, <1>14, <1>15, <1>16

\* A backup grows old once its task is over.
LEMMA GrowKeeps ==
  ASSUME BackupInv, NEW j \in Jobs, Grow(j)
  PROVE  BackupInv'
<1>1. /\ BackupTypes /\ (\A k \in Jobs : JobInv(k)) /\ (\A p \in Prunes : PruneInv(p))
      /\ (\A d \in Drills : DrillInv(d)) /\ age \in [Jobs -> 0 .. 2]
  BY DEF BackupInv, BackupTypes
<1>2. /\ backup[j].task = "done" /\ age[j] < 2 /\ age' = [age EXCEPT ![j] = age[j] + 1]
      /\ UNCHANGED <<backup, folder, drill, prune, abandoned>>
  BY DEF Grow
<1>3. age' \in [Jobs -> 0 .. 2] /\ \A k \in Jobs : age[k] <= age'[k] /\ (k # j => age'[k] = age[k])
  BY <1>1, <1>2
<1>4. BackupTypes'
  BY <1>1, <1>2, <1>3 DEF BackupTypes
<1>5. ASSUME NEW k \in Jobs PROVE JobInv(k)'
  <2>1. JobInv(k) /\ age[k] \in 0 .. 2 /\ age'[k] \in 0 .. 2 /\ age[k] <= age'[k]
    BY <1>1, <1>3
  <2>2. (Complete(k)' <=> Complete(k)) /\ \A p \in Prunes : Taking(p, k)' <=> Taking(p, k)
    BY <1>2 DEF Complete, Listed, Taking
  <2>3. age[k] > 0 => age'[k] > 0
    BY <2>1
  <2>4. backup[k].task # "done" => age'[k] = age[k]
    BY <1>2, <1>3
  <2> QED
    BY <1>2, <2>1, <2>2, <2>3, <2>4 DEF JobInv
<1>6. ASSUME NEW p \in Prunes PROVE PruneInv(p)'
  <2>1. PruneInv(p) /\ prune[p].marked \in SUBSET Jobs
    BY <1>1, OfPrune
  <2>2. \A k \in Jobs : age[k] > 0 => age'[k] > 0
    BY <1>1, <1>3
  <2> QED
    BY <1>2, <2>1, <2>2 DEF PruneInv
<1>7. ASSUME NEW d \in Drills PROVE DrillInv(d)'
  BY <1>1, <1>2 DEF DrillInv
<1>8. (\E n \in Nat : \A k \in Jobs : backup[k].at <= n)'
  BY <1>2 DEF BackupInv
<1> QED
  BY <1>4, <1>5, <1>6, <1>7, <1>8 DEF BackupInv

\* A prune's own steps: what it lets go of without a commit has been abandoned.
LEMMA PruneStep ==
  ASSUME BackupInv, NEW p \in Prunes, NEW new \in PruneState,
         prune' = [prune EXCEPT ![p] = new],
         abandoned \subseteq abandoned', UNCHANGED <<backup, folder, age, drill>>,
         new.at \in {"load", "remove"} => new.job \in Jobs,
         new.at = "remove" => age[new.job] > 0,
         \A j \in new.marked : age[j] > 0 /\ (folder[j] = Emptied \/ j \in abandoned'),
         \A j \in Jobs : Taking(p, j) =>
           j \in new.marked \/ (new.at = "remove" /\ new.job = j) \/ j \in abandoned'
  PROVE  BackupInv'
<1>1. /\ BackupTypes /\ (\A k \in Jobs : JobInv(k)) /\ (\A q \in Prunes : PruneInv(q))
      /\ (\A d \in Drills : DrillInv(d)) /\ prune \in [Prunes -> PruneState]
  BY DEF BackupInv, BackupTypes
<1>2. /\ prune' \in [Prunes -> PruneState] /\ prune'[p] = new
      /\ \A q \in Prunes : q # p => prune'[q] = prune[q]
  BY <1>1
<1>3. BackupTypes'
  BY <1>1, <1>2 DEF BackupTypes
<1>4. ASSUME NEW k \in Jobs PROVE JobInv(k)'
  <2>1. JobInv(k) /\ (Complete(k)' <=> Complete(k))
    BY <1>1 DEF Complete, Listed
  <2>2. ASSUME NEW q \in Prunes, Taking(q, k)
        PROVE  Taking(q, k)' \/ k \in abandoned'
    BY <1>2, <2>2 DEF Taking
  <2> QED
    BY <2>1, <2>2 DEF JobInv
<1>5. ASSUME NEW q \in Prunes PROVE PruneInv(q)'
  BY <1>1, <1>2 DEF PruneInv
<1>6. ASSUME NEW d \in Drills PROVE DrillInv(d)'
  BY <1>1 DEF DrillInv
<1>7. (\E n \in Nat : \A k \in Jobs : backup[k].at <= n)'
  BY DEF BackupInv
<1> QED
  BY <1>3, <1>4, <1>5, <1>6, <1>7 DEF BackupInv

\* The steps of a prune that touch neither the files nor the rows.
LEMMA PruneKeeps ==
  ASSUME BackupInv, NEW p \in Prunes,
         \/ BeginPrune(p) \/ (\E j \in Jobs : VisitFolder(p, j)) \/ LoadForPrune(p)
         \/ PruneRaises(p) \/ MarkPruned(p) \/ PruneDies(p)
  PROVE  BackupInv'
<1>1. /\ BackupTypes /\ PruneInv(p) /\ prune \in [Prunes -> PruneState] /\ prune[p] \in PruneState
      /\ prune[p].at \in {"idle", "scan", "load", "remove"} /\ prune[p].todo \in SUBSET Jobs
      /\ prune[p].job \in Jobs \cup {Nil} /\ prune[p].marked \in SUBSET Jobs
      /\ \A j \in Jobs : age[j] \in 0 .. 2
  BY OfPrune, OfJob DEF BackupInv, BackupTypes
<1>2. /\ \A j \in prune[p].marked : age[j] > 0 /\ (folder[j] = Emptied \/ j \in abandoned)
      /\ prune[p].at \in {"load", "remove"} => prune[p].job \in Jobs
      /\ prune[p].at = "remove" => age[prune[p].job] > 0
  BY <1>1 DEF PruneInv
<1> DEFINE idle == [at |-> "idle", todo |-> {}, job |-> Nil, marked |-> {}]
<1>3. idle \in PruneState /\ idle.at = "idle" /\ idle.marked = {}
  BY DEF PruneState
<1>4. CASE BeginPrune(p)
  <2> DEFINE new == [prune[p] EXCEPT !.at = "scan", !.todo = {j \in Jobs : folder[j] # Emptied}]
  <2>1. /\ new \in PruneState /\ new.at = "scan" /\ new.marked = prune[p].marked
    BY <1>1 DEF PruneState
  <2>2. /\ prune' = [prune EXCEPT ![p] = new] /\ prune[p].at = "idle"
        /\ UNCHANGED <<backup, folder, age, drill, abandoned>>
    BY <1>1, <1>4 DEF BeginPrune
  <2>3. \A j \in Jobs : Taking(p, j) => j \in new.marked
    BY <2>1, <2>2 DEF Taking
  <2> HIDE DEF new
  <2> QED
    BY <1>2, <2>1, <2>2, <2>3, PruneStep
<1>5. ASSUME NEW j \in Jobs, VisitFolder(p, j) PROVE BackupInv'
  <2> DEFINE new == IF folder[j].manifest = "absent" THEN [prune[p] EXCEPT !.todo = prune[p].todo \ {j}]
                    ELSE [prune[p] EXCEPT !.todo = prune[p].todo \ {j}, !.job = j, !.at = "load"]
  <2>1. /\ prune' = [prune EXCEPT ![p] = new] /\ prune[p].at = "scan"
        /\ UNCHANGED <<backup, folder, age, drill, abandoned>>
    BY <1>1, <1>5 DEF VisitFolder
  <2>2. /\ new \in PruneState /\ new.at \in {"scan", "load"} /\ new.marked = prune[p].marked
        /\ new.at = "load" => new.job = j
    BY <1>1, <2>1 DEF PruneState
  <2>3. \A k \in Jobs : Taking(p, k) => k \in new.marked
    BY <2>1, <2>2 DEF Taking
  <2> HIDE DEF new
  <2> QED
    BY <1>2, <2>1, <2>2, <2>3, PruneStep
<1>6. CASE LoadForPrune(p) /\ age[prune[p].job] = 0
  <2> DEFINE new == [prune[p] EXCEPT !.at = "scan", !.job = Nil]
  <2>1. /\ new \in PruneState /\ new.at = "scan" /\ new.marked = prune[p].marked
    BY <1>1 DEF PruneState
  <2>2. /\ prune' = [prune EXCEPT ![p] = new] /\ prune[p].at = "load"
        /\ UNCHANGED <<backup, folder, age, drill, abandoned>>
    BY <1>1, <1>6 DEF LoadForPrune
  <2>3. \A k \in Jobs : Taking(p, k) => k \in new.marked
    BY <2>1, <2>2 DEF Taking
  <2> HIDE DEF new
  <2> QED
    BY <1>2, <2>1, <2>2, <2>3, PruneStep
<1>7. CASE LoadForPrune(p) /\ age[prune[p].job] # 0
  <2> DEFINE new == [prune[p] EXCEPT !.at = "remove"]
  <2>1. /\ new \in PruneState /\ new.at = "remove" /\ new.marked = prune[p].marked
        /\ new.job = prune[p].job
    BY <1>1 DEF PruneState
  <2>2. /\ prune' = [prune EXCEPT ![p] = new] /\ prune[p].at = "load"
        /\ UNCHANGED <<backup, folder, age, drill, abandoned>>
    BY <1>1, <1>7 DEF LoadForPrune
  <2>3. \A k \in Jobs : Taking(p, k) => k \in new.marked
    BY <2>1, <2>2 DEF Taking
  <2>4. new.job \in Jobs /\ age[new.job] > 0
    BY <1>1, <1>2, <1>7, <2>1, <2>2
  <2> HIDE DEF new
  <2> QED
    BY <1>2, <2>1, <2>2, <2>3, <2>4, PruneStep
<1>8. CASE PruneRaises(p)
  <2>1. /\ prune' = [prune EXCEPT ![p] = idle] /\ prune[p].at = "load"
        /\ UNCHANGED <<backup, folder, age, drill>> /\ abandoned' = abandoned \cup prune[p].marked
    BY <1>8 DEF PruneRaises, PruneEnds
  <2>2. \A k \in Jobs : Taking(p, k) => k \in abandoned'
    BY <2>1 DEF Taking
  <2> HIDE DEF idle
  <2> QED
    BY <1>3, <2>1, <2>2, PruneStep
<1>9. CASE PruneDies(p)
  <2>1. /\ prune' = [prune EXCEPT ![p] = idle] /\ UNCHANGED <<backup, folder, age, drill>>
        /\ abandoned' = abandoned \cup prune[p].marked
                          \cup IF prune[p].at = "remove" THEN {prune[p].job} ELSE {}
    BY <1>9 DEF PruneDies, PruneEnds
  <2>2. \A k \in Jobs : Taking(p, k) => k \in abandoned'
    BY <2>1 DEF Taking
  <2> HIDE DEF idle
  <2> QED
    BY <1>3, <2>1, <2>2, PruneStep
<1>10. CASE MarkPruned(p)
  <2> DEFINE j == prune[p].job
             new == [prune[p] EXCEPT !.at = "scan", !.job = Nil, !.marked = prune[p].marked \cup {j}]
  <2>1. /\ prune' = [prune EXCEPT ![p] = new] /\ prune[p].at = "remove"
        /\ UNCHANGED <<backup, folder, age, drill>>
        /\ abandoned' = IF folder[j] = Emptied THEN abandoned ELSE abandoned \cup {j}
    BY <1>1, <1>10 DEF MarkPruned
  <2>2. j \in Jobs /\ age[j] > 0
    BY <1>2, <2>1
  <2>3. /\ new \in PruneState /\ new.at = "scan" /\ new.marked = prune[p].marked \cup {j}
    BY <1>1, <2>2 DEF PruneState
  <2>4. \A k \in Jobs : Taking(p, k) => k \in new.marked
    BY <2>1, <2>3 DEF Taking
  <2>5. \A k \in new.marked : age[k] > 0 /\ (folder[k] = Emptied \/ k \in abandoned')
    BY <1>2, <2>1, <2>2, <2>3
  <2>6. abandoned \subseteq abandoned'
    BY <2>1
  <2> HIDE DEF new
  <2> QED
    BY <2>1, <2>3, <2>4, <2>5, <2>6, PruneStep
<1>11. LoadForPrune(p) => age[prune[p].job] = 0 \/ age[prune[p].job] # 0
  OBVIOUS
<1> QED
  BY <1>4, <1>5, <1>6, <1>7, <1>8, <1>9, <1>10, <1>11

\* What a prune removes is of a job that is over and old, and the prune is at it: its
\* row is accounted for, and what is missing there stays missing.
LEMMA RemovalStep ==
  ASSUME BackupInv, NEW p \in Prunes, prune[p].at = "remove", NEW there \in Directory,
         there.files \subseteq folder[prune[p].job].files,
         folder[prune[p].job] = Emptied => there = Emptied,
         folder' = [folder EXCEPT ![prune[p].job] = there],
         UNCHANGED <<backup, age, drill, prune, abandoned>>
  PROVE  BackupInv'
<1>1. /\ BackupTypes /\ (\A k \in Jobs : JobInv(k)) /\ (\A q \in Prunes : PruneInv(q))
      /\ (\A d \in Drills : DrillInv(d)) /\ folder \in [Jobs -> Directory]
  BY DEF BackupInv, BackupTypes
<1>2. PICK j \in Jobs : prune[p].job = j /\ age[j] > 0
  BY <1>1 DEF PruneInv
<1>3. /\ folder' \in [Jobs -> Directory] /\ folder'[j] = there
      /\ \A k \in Jobs : k # j => folder'[k] = folder[k]
  BY <1>1, <1>2
<1>4. \A k \in Jobs : folder'[k].files \subseteq folder[k].files
                      /\ (folder[k] = Emptied => folder'[k] = Emptied)
  BY <1>2, <1>3
<1>5. BackupTypes'
  BY <1>1, <1>3 DEF BackupTypes
<1>6. ASSUME NEW k \in Jobs PROVE JobInv(k)'
  <2>1. CASE k = j
    <3>1. JobInv(j) /\ age[j] \in 0 .. 2
      BY <1>1, OfJob
    <3>2. backup[j].task = "done"
      BY <1>2, <3>1 DEF JobInv
    <3>3. Taking(p, j)'
      BY <1>2 DEF Taking
    <3> QED
      BY <1>2, <1>4, <2>1, <3>1, <3>2, <3>3 DEF JobInv
  <2>2. CASE k # j
    <3>1. JobInv(k) /\ folder'[k] = folder[k]
      BY <1>1, <1>3, <2>2
    <3>2. (Complete(k)' <=> Complete(k)) /\ \A q \in Prunes : Taking(q, k)' <=> Taking(q, k)
      BY <3>1 DEF Complete, Listed, Taking
    <3> QED
      BY <3>1, <3>2 DEF JobInv
  <2> QED
    BY <2>1, <2>2
<1>7. ASSUME NEW q \in Prunes PROVE PruneInv(q)'
  <2>1. PruneInv(q) /\ prune[q].marked \in SUBSET Jobs
    BY <1>1, OfPrune
  <2> QED
    BY <1>4, <2>1 DEF PruneInv
<1>8. ASSUME NEW d \in Drills PROVE DrillInv(d)'
  <2>1. DrillInv(d)
    BY <1>1
  <2>2. drill[d].task = "check" => folder'[drill[d].target].files \subseteq folder[drill[d].target].files
    BY <1>4, <2>1 DEF DrillInv
  <2> QED
    BY <2>1, <2>2 DEF DrillInv
<1>9. (\E n \in Nat : \A k \in Jobs : backup[k].at <= n)'
  BY DEF BackupInv
<1> QED
  BY <1>5, <1>6, <1>7, <1>8, <1>9 DEF BackupInv

\* rmtree, file by file.
LEMMA RemovalKeeps ==
  ASSUME BackupInv, NEW p \in Prunes,
         RemoveManifest(p) \/ \E f \in Files : RemoveFile(p, f)
  PROVE  BackupInv'
<1>1. /\ BackupTypes /\ PruneInv(p) /\ folder \in [Jobs -> Directory]
  BY DEF BackupInv, BackupTypes
<1>2. prune[p].at = "remove"
  BY DEF RemoveManifest, RemoveFile
<1>3. PICK j \in Jobs : prune[p].job = j
  BY <1>1, <1>2 DEF PruneInv
<1>4. folder[j] \in Directory
  BY <1>1
<1>5. CASE RemoveManifest(p)
  <2> DEFINE there == [folder[j] EXCEPT !.manifest = "absent"]
  <2>1. there \in Directory /\ there.files = folder[j].files
    BY <1>4 DEF Directory
  <2>2. folder[j] # Emptied
    BY <1>3, <1>5 DEF RemoveManifest, Emptied
  <2>3. folder' = [folder EXCEPT ![j] = there] /\ UNCHANGED <<backup, age, drill, prune, abandoned>>
    BY <1>1, <1>3, <1>5 DEF RemoveManifest
  <2> HIDE DEF there
  <2> QED
    BY <1>2, <1>3, <2>1, <2>2, <2>3, RemovalStep
<1>6. ASSUME NEW f \in Files, RemoveFile(p, f) PROVE BackupInv'
  <2> DEFINE there == [folder[j] EXCEPT !.files = folder[j].files \ {f}]
  <2>1. there \in Directory /\ there.files \subseteq folder[j].files
    BY <1>4 DEF Directory
  <2>2. folder[j] # Emptied
    BY <1>3, <1>6 DEF RemoveFile, Emptied
  <2>3. folder' = [folder EXCEPT ![j] = there] /\ UNCHANGED <<backup, age, drill, prune, abandoned>>
    BY <1>1, <1>3, <1>6 DEF RemoveFile
  <2> HIDE DEF there
  <2> QED
    BY <1>2, <1>3, <2>1, <2>2, <2>3, RemovalStep
<1> QED
  BY <1>5, <1>6

\* The commit of a prune: the rows of what it has marked.
LEMMA CommitKeeps ==
  ASSUME BackupInv, NEW p \in Prunes, CommitPrune(p)
  PROVE  BackupInv'
<1>1. /\ BackupTypes /\ (\A k \in Jobs : JobInv(k)) /\ (\A q \in Prunes : PruneInv(q))
      /\ (\A d \in Drills : DrillInv(d)) /\ prune \in [Prunes -> PruneState]
      /\ backup \in [Jobs -> BackupRow] /\ prune[p].marked \in SUBSET Jobs
  BY OfPrune DEF BackupInv, BackupTypes
<1> DEFINE idle == [at |-> "idle", todo |-> {}, job |-> Nil, marked |-> {}]
<1>2. idle \in PruneState /\ idle.at = "idle" /\ idle.marked = {}
  BY DEF PruneState
<1>3. /\ prune[p].at = "scan" /\ prune' = [prune EXCEPT ![p] = idle]
      /\ backup' = [j \in Jobs |-> IF j \in prune[p].marked
                                  THEN [backup[j] EXCEPT !.status = "pruned"] ELSE backup[j]]
      /\ UNCHANGED <<folder, age, drill, abandoned>>
  BY DEF CommitPrune, PruneEnds
<1> HIDE DEF idle
<1>4. /\ prune' \in [Prunes -> PruneState] /\ prune'[p] = idle
      /\ \A q \in Prunes : q # p => prune'[q] = prune[q]
  BY <1>1, <1>2, <1>3
<1>5. ASSUME NEW k \in Jobs
      PROVE  /\ backup'[k] \in BackupRow /\ backup'[k].task = backup[k].task
             /\ backup'[k].at = backup[k].at /\ backup'[k].dumps = backup[k].dumps
             /\ backup'[k].status = IF k \in prune[p].marked THEN "pruned" ELSE backup[k].status
  <2>1. backup[k] \in BackupRow
    BY <1>1
  <2>2. backup'[k] = IF k \in prune[p].marked THEN [backup[k] EXCEPT !.status = "pruned"]
                     ELSE backup[k]
    BY <1>3
  <2> QED
    BY <2>1, <2>2 DEF BackupRow
<1>6. backup' \in [Jobs -> BackupRow]
  BY <1>3, <1>5
<1>7. BackupTypes'
  BY <1>1, <1>3, <1>4, <1>6 DEF BackupTypes
<1>8. ASSUME NEW k \in Jobs PROVE JobInv(k)'
  <2>1. JobInv(k) /\ PruneInv(p) /\ age[k] \in 0 .. 2 /\ (Complete(k)' <=> Complete(k))
    BY <1>1, <1>3, <1>5, OfJob DEF Complete, Listed
  <2>2. k \in prune[p].marked => age[k] > 0 /\ (folder[k] = Emptied \/ k \in abandoned)
    BY <2>1 DEF PruneInv
  <2>3. ASSUME NEW q \in Prunes, Taking(q, k), k \notin prune[p].marked
        PROVE  Taking(q, k)'
    BY <1>3, <1>4, <2>3 DEF Taking
  <2>4. CASE k \in prune[p].marked
    <3>1. age[k] # 0 /\ backup'[k].status = "pruned" /\ backup'[k].task = "done"
      BY <1>5, <2>1, <2>2, <2>4 DEF JobInv
    <3> QED
      BY <1>3, <2>2, <2>4, <3>1 DEF JobInv
  <2>5. CASE k \notin prune[p].marked
    BY <1>3, <1>5, <2>1, <2>3, <2>5 DEF JobInv
  <2> QED
    BY <2>4, <2>5
<1>9. ASSUME NEW q \in Prunes PROVE PruneInv(q)'
  BY <1>1, <1>2, <1>3, <1>4 DEF PruneInv
<1>10. ASSUME NEW d \in Drills PROVE DrillInv(d)'
  <2>1. DrillInv(d)
    BY <1>1
  <2> QED
    BY <1>3, <1>5, <2>1 DEF DrillInv
<1>11. \E n \in Nat : \A k \in Jobs : backup'[k].at <= n
  BY <1>5 DEF BackupInv
<1> QED
  BY <1>7, <1>8, <1>9, <1>10, <1>11 DEF BackupInv

\* A drill's own steps.
LEMMA DrillStep ==
  ASSUME BackupInv, NEW d \in Drills, NEW new \in DrillState,
         drill' = [drill EXCEPT ![d] = new], UNCHANGED <<backup, folder, age, prune, abandoned>>,
         new.status = "none" => new.at = 0,
         new.task \in {"open", "check"} => new.target \in Jobs /\ backup[new.target].task = "done",
         new.task = "check" /\ new.ok /\ ~new.whole =>
           \E f \in new.todo : f \notin folder[new.target].files,
         new.task = "record" /\ new.ok => new.whole,
         new.status = "passed" => new.whole /\ new.task = "done"
  PROVE  BackupInv'
<1>1. /\ BackupTypes /\ (\A k \in Jobs : JobInv(k)) /\ (\A q \in Prunes : PruneInv(q))
      /\ (\A e \in Drills : DrillInv(e)) /\ drill \in [Drills -> DrillState]
  BY DEF BackupInv, BackupTypes
<1>2. /\ drill' \in [Drills -> DrillState] /\ drill'[d] = new
      /\ \A e \in Drills : e # d => drill'[e] = drill[e]
  BY <1>1
<1>3. BackupTypes'
  BY <1>1, <1>2 DEF BackupTypes
<1>4. ASSUME NEW k \in Jobs PROVE JobInv(k)'
  <2>1. JobInv(k) /\ (Complete(k)' <=> Complete(k)) /\ \A q \in Prunes : Taking(q, k)' <=> Taking(q, k)
    BY <1>1 DEF Complete, Listed, Taking
  <2> QED
    BY <2>1 DEF JobInv
<1>5. ASSUME NEW q \in Prunes PROVE PruneInv(q)'
  BY <1>1 DEF PruneInv
<1>6. ASSUME NEW e \in Drills PROVE DrillInv(e)'
  <2>1. CASE e = d
    BY <1>2, <2>1 DEF DrillInv
  <2>2. CASE e # d
    <3>1. DrillInv(e) /\ drill'[e] = drill[e]
      BY <1>1, <1>2, <2>2
    <3> QED
      BY <3>1 DEF DrillInv
  <2> QED
    BY <2>1, <2>2
<1>7. (\E n \in Nat : \A k \in Jobs : backup[k].at <= n)'
  BY DEF BackupInv
<1> QED
  BY <1>3, <1>4, <1>5, <1>6, <1>7 DEF BackupInv

\* The latest of backups that have succeeded is over.
LEMMA LatestIsOver ==
  ASSUME BackupInv, NEW js \in SUBSET Succeeded, Latest(js) # Nil
  PROVE  Latest(js) \in Jobs /\ backup[Latest(js)].task = "done"
<1>1. js # {} /\ js \in SUBSET Jobs
  BY DEF Latest, Succeeded
<1>2. Latest(js) \in js
  BY <1>1, LatestIs
<1>3. Latest(js) \in Jobs /\ backup[Latest(js)].status = "succeeded"
  BY <1>2 DEF Succeeded
<1> QED
  BY <1>3 DEF BackupInv, JobInv

\* A drill begins, goes over the files, and is recorded or not.
LEMMA DrillKeeps ==
  ASSUME BackupInv, NEW d \in Drills,
         \/ \E tenant \in Scopes \ {Nil} : TriggerDrill(d, tenant)
         \/ ScheduleDrill(d) \/ OpenDrill(d)
         \/ \E f \in drill[d].todo : CheckFile(d, f)
         \/ ReadAgain(d) \/ RecordDrill(d) \/ DrillDies(d)
  PROVE  BackupInv'
<1>1. /\ BackupTypes /\ DrillInv(d) /\ drill \in [Drills -> DrillState] /\ drill[d] \in DrillState
      /\ drill[d].status \in {"none", "running", "passed", "failed"} /\ drill[d].at \in Nat
      /\ drill[d].task \in {"new", "open", "check", "record", "done"}
      /\ drill[d].target \in Jobs \cup {Nil} /\ drill[d].todo \in SUBSET Files
      /\ drill[d].ok \in BOOLEAN /\ drill[d].whole \in BOOLEAN
  BY OfDrill DEF BackupInv, BackupTypes
<1>2. /\ drill[d].status = "none" => drill[d].at = 0
      /\ drill[d].task \in {"open", "check"} =>
           drill[d].target \in Jobs /\ backup[drill[d].target].task = "done"
      /\ drill[d].task = "check" /\ drill[d].ok /\ ~drill[d].whole =>
           \E f \in drill[d].todo : f \notin folder[drill[d].target].files
      /\ drill[d].task = "record" /\ drill[d].ok => drill[d].whole
      /\ drill[d].status = "passed" => drill[d].whole /\ drill[d].task = "done"
  BY <1>1 DEF DrillInv
<1>3. /\ Over(d) \in DrillState /\ Over(d).task = "done" /\ Over(d).at = drill[d].at
      /\ Over(d).status = drill[d].status /\ Over(d).whole = drill[d].whole
  BY <1>1 DEF Over, DrillState
<1>4. ASSUME NEW tenant \in Scopes \ {Nil}, TriggerDrill(d, tenant) PROVE BackupInv'
  <2> DEFINE new == [drill[d] EXCEPT !.status = "running", !.task = "open",
                                     !.target = LatestOf(tenant)]
  <2>1. LatestOf(tenant) \in Jobs /\ backup[LatestOf(tenant)].task = "done"
    <3> DEFINE js == {j \in Succeeded : backup[j].scope = tenant}
    <3>1. js \in SUBSET Succeeded /\ Latest(js) # Nil
      BY <1>4 DEF TriggerDrill, LatestOf
    <3> HIDE DEF js
    <3>2. Latest(js) \in Jobs /\ backup[Latest(js)].task = "done"
      BY <3>1, LatestIsOver
    <3> QED
      BY <3>2 DEF js, LatestOf
  <2>2. /\ drill' = [drill EXCEPT ![d] = new] /\ UNCHANGED <<backup, folder, age, prune, abandoned>>
    BY <1>1, <1>4 DEF TriggerDrill
  <2>3. /\ new \in DrillState /\ new.status = "running" /\ new.task = "open"
        /\ new.target = LatestOf(tenant)
    BY <1>1, <2>1 DEF DrillState
  <2> HIDE DEF new
  <2> QED
    BY <2>1, <2>2, <2>3, DrillStep
<1>5. CASE ScheduleDrill(d)
  <2> DEFINE new == [drill[d] EXCEPT !.task = "open", !.target = Latest(Succeeded)]
  <2>1. /\ drill' = [drill EXCEPT ![d] = new] /\ UNCHANGED <<backup, folder, age, prune, abandoned>>
        /\ drill[d].task = "new" /\ Latest(Succeeded) # Nil
    BY <1>1, <1>5 DEF ScheduleDrill
  <2>2. Latest(Succeeded) \in Jobs /\ backup[Latest(Succeeded)].task = "done"
    BY <2>1, LatestIsOver
  <2>3. /\ new \in DrillState /\ new.status = drill[d].status /\ new.task = "open"
        /\ new.target = Latest(Succeeded) /\ new.at = drill[d].at
    BY <1>1, <2>2 DEF DrillState
  <2> HIDE DEF new
  <2> QED
    BY <1>2, <2>1, <2>2, <2>3, DrillStep
<1>6. CASE OpenDrill(d) /\ folder[drill[d].target].manifest = "whole"
  <2>1. PICK j \in Jobs : drill[d].target = j /\ backup[j].task = "done"
    BY <1>2, <1>6 DEF OpenDrill
  <2> DEFINE new == [drill[d] EXCEPT !.task = "check", !.todo = Listed(j), !.whole = Complete(j)]
  <2>2. Listed(j) \in SUBSET Files /\ Complete(j) \in BOOLEAN
    BY <1>1, OfJob DEF Listed, Complete, Files
  <2>3. /\ drill' = [drill EXCEPT ![d] = new] /\ UNCHANGED <<backup, folder, age, prune, abandoned>>
        /\ drill[d].task = "open"
    BY <1>1, <1>6, <2>1 DEF OpenDrill
  <2>4. /\ new \in DrillState /\ new.status = drill[d].status /\ new.task = "check"
        /\ new.target = j /\ new.at = drill[d].at /\ new.todo = Listed(j)
        /\ new.whole = Complete(j)
    BY <1>1, <2>1, <2>2 DEF DrillState
  <2>5. ~Complete(j) => \E f \in Listed(j) : f \notin folder[j].files
    BY <1>6, <2>1 DEF Complete
  <2> HIDE DEF new
  <2> QED
    BY <1>2, <2>1, <2>3, <2>4, <2>5, DrillStep
<1>7. CASE OpenDrill(d) /\ folder[drill[d].target].manifest # "whole"
  <2> DEFINE new == [drill[d] EXCEPT !.task = "record", !.target = Nil, !.ok = FALSE]
  <2>1. /\ drill' = [drill EXCEPT ![d] = new] /\ UNCHANGED <<backup, folder, age, prune, abandoned>>
        /\ drill[d].task = "open"
    BY <1>1, <1>7 DEF OpenDrill
  <2>2. /\ new \in DrillState /\ new.status = drill[d].status /\ new.task = "record"
        /\ new.ok = FALSE /\ new.at = drill[d].at
    BY <1>1 DEF DrillState
  <2> HIDE DEF new
  <2> QED
    BY <1>2, <2>1, <2>2, DrillStep
<1>8. ASSUME NEW f \in drill[d].todo, CheckFile(d, f) PROVE BackupInv'
  <2> DEFINE new == [drill[d] EXCEPT !.todo = drill[d].todo \ {f},
                                     !.ok = drill[d].ok /\ f \in folder[drill[d].target].files]
  <2>1. /\ drill' = [drill EXCEPT ![d] = new] /\ UNCHANGED <<backup, folder, age, prune, abandoned>>
        /\ drill[d].task = "check"
    BY <1>1, <1>8 DEF CheckFile
  <2>2. /\ new \in DrillState /\ new.status = drill[d].status /\ new.task = "check"
        /\ new.target = drill[d].target /\ new.at = drill[d].at /\ new.whole = drill[d].whole
        /\ new.todo = drill[d].todo \ {f}
        /\ new.ok = (drill[d].ok /\ f \in folder[drill[d].target].files)
    BY <1>1, <2>1 DEF DrillState
  <2>3. new.ok /\ ~new.whole => \E g \in new.todo : g \notin folder[new.target].files
    BY <1>2, <2>1, <2>2
  <2> HIDE DEF new
  <2> QED
    BY <1>2, <2>1, <2>2, <2>3, DrillStep
<1>9. CASE ReadAgain(d) /\ drill[d].ok /\ folder[drill[d].target].manifest # "whole"
  <2>1. drill' = [drill EXCEPT ![d] = Over(d)] /\ UNCHANGED <<backup, folder, age, prune, abandoned>>
        /\ drill[d].task = "check"
    BY <1>9 DEF ReadAgain
  <2> QED
    BY <1>2, <1>3, <2>1, DrillStep
<1>10. CASE ReadAgain(d) /\ ~(drill[d].ok /\ folder[drill[d].target].manifest # "whole")
  <2> DEFINE new == [drill[d] EXCEPT !.task = "record", !.target = Nil]
  <2>1. /\ drill' = [drill EXCEPT ![d] = new] /\ UNCHANGED <<backup, folder, age, prune, abandoned>>
        /\ drill[d].task = "check" /\ drill[d].todo = {}
    BY <1>1, <1>10 DEF ReadAgain
  <2>2. /\ new \in DrillState /\ new.status = drill[d].status /\ new.task = "record"
        /\ new.ok = drill[d].ok /\ new.at = drill[d].at /\ new.whole = drill[d].whole
    BY <1>1 DEF DrillState
  <2> HIDE DEF new
  <2> QED
    BY <1>2, <2>1, <2>2, DrillStep
<1>11. CASE RecordDrill(d)
  <2> DEFINE new == [Over(d) EXCEPT !.status = IF drill[d].ok THEN "passed" ELSE "failed",
                                    !.at = After(drill)]
  <2>1. After(drill) \in Nat
    BY <1>1, AfterIsNat, BackupAssumption
  <2>2. drill' = [drill EXCEPT ![d] = new] /\ UNCHANGED <<backup, folder, age, prune, abandoned>>
        /\ drill[d].task = "record"
    BY <1>11 DEF RecordDrill
  <2>3. /\ new \in DrillState /\ new.status = (IF drill[d].ok THEN "passed" ELSE "failed")
        /\ new.task = "done" /\ new.whole = drill[d].whole
    BY <1>1, <1>3, <2>1 DEF DrillState
  <2> HIDE DEF new
  <2> QED
    BY <1>2, <2>2, <2>3, DrillStep
<1>12. CASE DrillDies(d)
  <2>1. drill' = [drill EXCEPT ![d] = Over(d)] /\ UNCHANGED <<backup, folder, age, prune, abandoned>>
    BY <1>12 DEF DrillDies
  <2>2. drill[d].task # "done"
    BY <1>12 DEF DrillDies
  <2> QED
    BY <1>2, <1>3, <2>1, <2>2, DrillStep
<1> QED
  BY <1>4, <1>5, <1>6, <1>7, <1>8, <1>9, <1>10, <1>11, <1>12

\* The invariant holds at first, with or without a backup.
LEMMA BackupStarts == BackupInit => BackupInv
<1> SUFFICES ASSUME BackupInit PROVE BackupInv
  OBVIOUS
<1> USE BackupAssumption
<1>1. Unborn \in BackupRow /\ \A scope \in Scopes : Taken(scope) \in BackupRow
  BY DEF Unborn, Taken, BackupRow, JobTasks
<1>2. \A j \in Jobs : backup[j] = Unborn \/ \E scope \in Scopes : backup[j] = Taken(scope)
  BY DEF BackupInit
<1>3. backup \in [Jobs -> BackupRow]
  BY <1>1 DEF BackupInit
<1>4. folder \in [Jobs -> Directory]
  BY DEF BackupInit, Directory, Files, Emptied
<1>5. BackupTypes
  <2>1. age \in [Jobs -> 0 .. 2]
    BY DEF BackupInit
  <2>2. drill \in [Drills -> DrillState]
    BY DEF BackupInit, DrillState
  <2>3. prune \in [Prunes -> PruneState]
    BY DEF BackupInit, PruneState
  <2> QED
    BY <1>3, <1>4, <2>1, <2>2, <2>3 DEF BackupTypes
<1>6. ASSUME NEW j \in Jobs PROVE JobInv(j) /\ backup[j].at <= 1
  <2>1. CASE backup[j] = Unborn
    BY <2>1 DEF Unborn, JobInv, BackupInit
  <2>2. ASSUME NEW scope \in Scopes, backup[j] = Taken(scope)
        PROVE  JobInv(j) /\ backup[j].at <= 1
    <3>1. Taken(scope) # Unborn
      BY DEF Taken, Unborn
    <3>2. folder[j] = [files |-> Dumps \cup {Signature}, manifest |-> "whole"]
      BY <2>2, <3>1 DEF BackupInit
    <3>3. Complete(j)
      BY <2>2, <3>2 DEF Complete, Listed, Taken
    <3> QED
      BY <2>2, <3>3 DEF Taken, JobInv
  <2> QED
    BY <1>2, <2>1, <2>2
<1>7. \A p \in Prunes : PruneInv(p)
  BY DEF BackupInit, PruneInv
<1>8. \A d \in Drills : DrillInv(d)
  BY DEF BackupInit, DrillInv
<1> QED
  BY <1>5, <1>6, <1>7, <1>8 DEF BackupInv

\* And it is kept.
LEMMA BackupKeeps == BackupInv /\ [BackupNext]_backupVars => BackupInv'
<1> SUFFICES ASSUME BackupInv, [BackupNext]_backupVars PROVE BackupInv'
  OBVIOUS
<1>1. CASE UNCHANGED backupVars
  BY <1>1 DEF backupVars, BackupInv, BackupTypes, JobInv, PruneInv, DrillInv, Taking, Complete, Listed
<1>2. CASE BackupNext
  BY <1>2, JobKeeps, GrowKeeps, PruneKeeps, RemovalKeeps, CommitKeeps, DrillKeeps
     DEF BackupNext, Files
<1> QED
  BY <1>1, <1>2

\* Rows, directories, drills and prunes keep their types, and only jobs are abandoned.
THEOREM BackupTypeCorrect == BackupSpec => []BackupTypeOK
<1> DEFINE Inv == /\ BackupInv
                  /\ breakdowns \in 0 .. MaxBreakdowns /\ abandoned \subseteq Jobs
<1>1. BackupInit => Inv
  <2>1. BackupInit => breakdowns = 0 /\ abandoned = {}
    BY DEF BackupInit
  <2> QED
    BY <2>1, BackupStarts, BackupAssumption
<1>2. Inv /\ [BackupNext]_backupVars => Inv'
  <2> SUFFICES ASSUME Inv, [BackupNext]_backupVars PROVE Inv'
    OBVIOUS
  <2>1. BackupInv'
    BY BackupKeeps
  <2>2. breakdowns' = breakdowns \/ Breakdown
    BY DEF BackupNext, backupVars, CreateJob, StartJob, Dump, OpenManifest, WriteManifest,
           SignManifest, VerifyBackup, BackupFails, MarkJob, JobDies, Grow, BeginPrune,
           VisitFolder, LoadForPrune, PruneRaises, RemoveFile, RemoveManifest, MarkPruned,
           CommitPrune, PruneDies, TriggerDrill, ScheduleDrill, OpenDrill, CheckFile,
           ReadAgain, RecordDrill, DrillDies
  <2>3. breakdowns' \in 0 .. MaxBreakdowns
    BY <2>2, BackupAssumption DEF Breakdown
  <2>4. ASSUME NEW p \in Prunes
        PROVE  /\ prune[p].marked \subseteq Jobs
               /\ prune[p].at = "remove" => prune[p].job \in Jobs
    BY OfPrune DEF BackupInv, PruneInv
  <2>5. \/ abandoned' = abandoned
        \/ \E p \in Prunes : PruneRaises(p) \/ MarkPruned(p) \/ PruneDies(p)
    BY DEF BackupNext, backupVars, CreateJob, StartJob, Dump, OpenManifest, WriteManifest,
           SignManifest, VerifyBackup, BackupFails, MarkJob, JobDies, Grow, BeginPrune,
           VisitFolder, LoadForPrune, RemoveFile, RemoveManifest, CommitPrune,
           TriggerDrill, ScheduleDrill, OpenDrill, CheckFile, ReadAgain, RecordDrill, DrillDies
  <2>6. abandoned' \subseteq Jobs
    <3>1. ASSUME NEW p \in Prunes, PruneRaises(p) PROVE abandoned' \subseteq Jobs
      BY <2>4, <3>1 DEF PruneRaises
    <3>2. ASSUME NEW p \in Prunes, MarkPruned(p) PROVE abandoned' \subseteq Jobs
      BY <2>4, <3>2 DEF MarkPruned
    <3>3. ASSUME NEW p \in Prunes, PruneDies(p) PROVE abandoned' \subseteq Jobs
      BY <2>4, <3>3 DEF PruneDies
    <3> QED
      BY <2>5, <3>1, <3>2, <3>3
  <2> QED
    BY <2>1, <2>3, <2>6
<1>3. Inv => BackupTypeOK
  BY DEF BackupInv, BackupTypes, BackupTypeOK
<1> QED
  BY <1>1, <1>2, <1>3, PTL DEF BackupSpec

\* RowsTellFiles of the backups' runs (services/backup.py:505-624, 957-1006): a row says
\* succeeded only of files that are all there, or being removed by a prune, or left over
\* by one that was cut short; and pruned only of a directory that is gone, or given up.
THEOREM RowsAreTrue == BackupSpec => []RowsTellFiles
<1>1. BackupInv => RowsTellFiles
  BY DEF BackupInv, JobInv, RowsTellFiles, Taking
<1> QED
  BY <1>1, BackupStarts, BackupKeeps, PTL DEF BackupSpec

\* ReadyIsEarned (apps/api/routes/ops.py:769-834): ready is said only when no drill is
\* under way, the last one went over files that were all there, and the latest backup is
\* whole, or old enough for a prune to be at it.
THEOREM ReadyMeansDrilled == BackupSpec => []ReadyIsEarned
<1>1. ASSUME BackupInv PROVE ReadyIsEarned
  <2> SUFFICES ASSUME NEW tenant \in Scopes \ {Nil}, Ready(tenant)
               PROVE  /\ \A d \in Drills : drill[d].status # "running"
                      /\ \E d \in Drills : /\ drill[d].status = "passed" /\ drill[d].whole
                                          /\ \A e \in Drills : drill[e].at <= drill[d].at
                      /\ Complete(LatestOf(tenant)) \/ age[LatestOf(tenant)] = 1
    BY DEF ReadyIsEarned
  <2>1. PICK d \in LastDrills : drill[d].status = "passed"
    BY DEF Ready
  <2>2. Running = {} /\ d \in Recorded /\ \A e \in Recorded : drill[e].at <= drill[d].at
    BY <2>1 DEF LastDrills, Running
  <2>3. \A e \in Drills : drill[e].status # "running"
    BY <2>2 DEF Running, Recorded
  <2>4. \A e \in Drills : DrillInv(e) /\ drill[e].at \in Nat
    BY <1>1, OfDrill DEF BackupInv
  <2>5. d \in Drills /\ drill[d].whole
    BY <2>1, <2>2, <2>4 DEF Recorded, DrillInv
  <2>6. \A e \in Drills : drill[e].at <= drill[d].at
    <3> SUFFICES ASSUME NEW e \in Drills PROVE drill[e].at <= drill[d].at
      OBVIOUS
    <3>1. CASE e \in Recorded
      BY <2>2, <3>1
    <3>2. CASE e \notin Recorded
      <4>1. drill[e].at = 0
        BY <2>4, <3>2 DEF Recorded, DrillInv
      <4> QED
        BY <2>4, <2>5, <4>1
    <3> QED
      BY <3>1, <3>2
  <2>7. Complete(LatestOf(tenant)) \/ age[LatestOf(tenant)] = 1
    <3> DEFINE js == {j \in Succeeded : backup[j].scope = tenant}
    <3>1. js \in SUBSET Jobs /\ js # {}
      BY DEF Ready, LatestOf, Latest, Succeeded
    <3> HIDE DEF js
    <3>2. Latest(js) \in js
      BY <1>1, <3>1, LatestIs
    <3>3. PICK j \in Jobs : j = LatestOf(tenant) /\ backup[j].status = "succeeded" /\ age[j] < 2
      BY <3>2 DEF js, LatestOf, Succeeded, Ready
    <3>4. JobInv(j) /\ age[j] \in 0 .. 2
      BY <1>1, OfJob DEF BackupInv
    <3>5. Complete(j) \/ age[j] = 1
      BY <3>3, <3>4 DEF JobInv
    <3> QED
      BY <3>3, <3>5
  <2> QED
    BY <2>1, <2>3, <2>5, <2>6, <2>7
<1> QED
  BY <1>1, BackupStarts, BackupKeeps, PTL DEF BackupSpec

===============================================================================
