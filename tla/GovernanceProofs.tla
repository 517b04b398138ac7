--------------------------- MODULE GovernanceProofs ---------------------------
(***************************************************************************)
(* Proofs about Governance, for any number of tenants, holds, subjects and *)
(* operations.                                                             *)
(***************************************************************************)
EXTENDS Governance, TLAPS

\* An operation is in a phase of its kind, a deletion is of a subject, and
\* nothing has been erased by one that has not arrived.
StageInv(o) ==
  /\ op[o].kind = "retention" => op[o].phase \in {"holds", "rows", "files", "report"}
  /\ op[o].kind = "prune"     => op[o].phase \in {"holds", "files"}
  /\ op[o].kind = "dsar"      => op[o].phase \in {"pending", "policy", "apply", "over"}
  /\ op[o].kind = "delete"    => /\ op[o].phase \in {"check", "load", "apply", "unlink"}
                                 /\ op[o].subject \in Subjects
  /\ op[o].kind = "none"      => op[o].phase \in {"idle", "over"}
  /\ op[o].phase = "idle"     => ~did[o]

\* What a handler has read of the holds still covers every hold that has been in
\* force since it arrived: a retention run or a prune has seen those it considers,
\* a DSAR request or a deletion that went on found none.
CoverInv(o) ==
  /\ op[o].kind \in {"retention", "prune"} /\ op[o].phase \in {"rows", "files", "report"} =>
       \A h \in since[o] : Considers(op[o], h) => h \in op[o].seen
  /\ op[o].kind \in {"dsar", "delete"} /\ op[o].phase \in {"load", "apply", "unlink"} =>
       \A h \in since[o] : ~Considers(op[o], h)
  /\ op[o].kind = "retention" /\ op[o].phase \in {"files", "report"} =>
       \A p \in op[o].rows : ~Spared(o, p)

\* A DSAR request in progress is recorded as such and has erased nothing.
RequestInv(o) ==
  op[o].kind = "dsar" =>
    /\ op[o].phase = "pending" => status[o] = "pending"
    /\ op[o].phase \in {"policy", "apply"} => status[o] = "running"
    /\ op[o].phase # "over" => ~did[o]

\* DsarTruthful of one operation.
TruthInv(o) ==
  op[o].kind = "dsar" =>
    /\ status[o] = "completed" /\ op[o].phase = "over" => Targets(op[o]) \cap kept = {}
    /\ status[o] \in {"pending", "rejected", "failed"} => ~did[o]

Local(o) == StageInv(o) /\ CoverInv(o) /\ RequestInv(o) /\ TruthInv(o)

IInv == TypeOK /\ \A o \in Ops : Local(o)

\* What a step of operation o leaves alone.
Keeps(o) ==
  /\ holds' = holds
  /\ kept' \subseteq kept
  /\ \A q \in Ops \ {o} : /\ op'[q] = op[q]
                          /\ status'[q] = status[q]
                          /\ did'[q] = did[q]
                          /\ since'[q] = since[q]

\* The fields of a record but its phase, which Goto keeps.
SameFields(r, s) ==
  /\ r.kind = s.kind /\ r.tenant = s.tenant /\ r.subject = s.subject
  /\ r.anonymize = s.anonymize /\ r.seen = s.seen /\ r.rows = s.rows /\ r.marks = s.marks

-----------------------------------------------------------------------------
\* Lemmas about the operators that the actions are built from.

\* A handler that has just arrived.
LEMMA NewType ==
  ASSUME NEW k \in {"none", "retention", "dsar", "delete", "prune"},
         NEW t \in Tenants \cup {None}, NEW s \in Subjects \cup {None}, NEW p \in Phases
  PROVE  New(k, t, s, p) \in OpState
BY DEF New, OpState

\* The fields of a handler's record.
LEMMA Fields ==
  ASSUME NEW r \in OpState
  PROVE  /\ r.phase \in Phases
         /\ r.kind \in {"none", "retention", "dsar", "delete", "prune"}
         /\ r.tenant \in Tenants \cup {None}
         /\ r.subject \in Subjects \cup {None}
         /\ r.anonymize \in BOOLEAN
         /\ r.seen \in SUBSET Hold
         /\ r.rows \in SUBSET Piece
         /\ r.marks \in SUBSET Backups
BY DEF OpState

\* Assigning a handler's record keeps the others.
LEMMA AssignOp ==
  ASSUME op \in [Ops -> OpState], NEW o \in Ops, NEW r \in OpState,
         op' = [op EXCEPT ![o] = r]
  PROVE  /\ op' \in [Ops -> OpState]
         /\ op'[o] = r
         /\ \A q \in Ops \ {o} : op'[q] = op[q]
OBVIOUS

\* Moving a handler to another phase changes nothing else of it.
LEMMA GotoStep ==
  ASSUME op \in [Ops -> OpState], NEW o \in Ops, NEW p \in Phases, Goto(o, p)
  PROVE  /\ op' \in [Ops -> OpState]
         /\ op'[o].phase = p
         /\ SameFields(op'[o], op[o])
         /\ \A q \in Ops \ {o} : op'[q] = op[q]
<1>1. op[o] \in OpState
  OBVIOUS
<1>2. [op[o] EXCEPT !.phase = p] \in OpState
  BY <1>1 DEF OpState
<1>3. op' = [op EXCEPT ![o] = [op[o] EXCEPT !.phase = p]]
  BY DEF Goto
<1>4. /\ op' \in [Ops -> OpState]
      /\ op'[o] = [op[o] EXCEPT !.phase = p]
      /\ \A q \in Ops \ {o} : op'[q] = op[q]
  BY <1>2, <1>3, AssignOp
<1> QED
  BY <1>1, <1>4 DEF SameFields, OpState

\* A handler that ends keeps no holds, and of a DSAR request what was asked for.
LEMMA DoneStep ==
  ASSUME op \in [Ops -> OpState], since \in [Ops -> SUBSET holds], NEW o \in Ops, Done(o)
  PROVE  /\ op' \in [Ops -> OpState]
         /\ op'[o].phase = "over"
         /\ IF op[o].kind = "dsar"
            THEN /\ op'[o].kind = "dsar" /\ op'[o].tenant = op[o].tenant
                 /\ op'[o].subject = op[o].subject /\ op'[o].anonymize = op[o].anonymize
            ELSE op'[o].kind = "none"
         /\ since' \in [Ops -> SUBSET holds]
         /\ since'[o] = {}
         /\ \A q \in Ops \ {o} : op'[q] = op[q] /\ since'[q] = since[q]
<1> DEFINE r == IF op[o].kind = "dsar" THEN Request(op[o]) ELSE New("none", None, None, "over")
<1>1. op[o] \in OpState
  OBVIOUS
<1>2. New(op[o].kind, op[o].tenant, op[o].subject, "over") \in OpState
  BY <1>1, NewType, Fields DEF Phases
<1>3. Request(op[o]) \in OpState
  BY <1>1, <1>2, Fields DEF Request, OpState
<1>4. New("none", None, None, "over") \in OpState
  BY NewType DEF Phases
<1>5. r \in OpState
  BY <1>3, <1>4
<1>6. op' = [op EXCEPT ![o] = r]
  BY DEF Done
<1> HIDE DEF r
<1>7. /\ op' \in [Ops -> OpState]
      /\ op'[o] = r
      /\ \A q \in Ops \ {o} : op'[q] = op[q]
  BY <1>5, <1>6, AssignOp
<1>8. CASE op[o].kind = "dsar"
  BY <1>7, <1>8 DEF r, Request, New, Done
<1>9. CASE op[o].kind # "dsar"
  BY <1>7, <1>9 DEF r, New, Done
<1> QED
  BY <1>8, <1>9

\* Content is only ever erased, and did says by whom.
LEMMA EraseStep ==
  ASSUME did \in [Ops -> BOOLEAN], kept \subseteq Pieces, NEW o \in Ops, NEW ps, Erase(o, ps)
  PROVE  /\ kept' = kept \ ps
         /\ kept' \subseteq Pieces
         /\ did' \in [Ops -> BOOLEAN]
         /\ \A q \in Ops \ {o} : did'[q] = did[q]
BY DEF Erase

\* Recording a status keeps those of the others.
LEMMA RecordStep ==
  ASSUME status \in [Ops -> {"none", "pending", "running", "completed", "rejected", "failed"}],
         NEW o \in Ops,
         NEW s \in {"none", "pending", "running", "completed", "rejected", "failed"},
         Record(o, s)
  PROVE  /\ status' \in [Ops -> {"none", "pending", "running", "completed", "rejected", "failed"}]
         /\ status'[o] = s
         /\ \A q \in Ops \ {o} : status'[q] = status[q]
BY DEF Record

\* The jobs of the marked backup sets.
LEMMA MarkedType ==
  ASSUME job \in [Backups -> {"succeeded", "pruned"}], NEW o
  PROVE  Marked(o) \in [Backups -> {"succeeded", "pruned"}]
BY DEF Marked

\* Whether h stops a handler depends only on what the handler was asked for.
LEMMA SameTargets ==
  ASSUME NEW r, NEW s, r.tenant = s.tenant, r.subject = s.subject,
         r.anonymize = s.anonymize, r.kind = s.kind
  PROVE  /\ Targets(r) = Targets(s)
         /\ \A h : Considers(r, h) <=> Considers(s, h)
BY DEF Targets, Considers

\* A piece that a hold considered protects is one that the hold matches.
LEMMA ProtectedMatch ==
  ASSUME NEW h \in Hold, NEW p \in Protected(h)
  PROVE  Matches(h, p[1])
BY DEF Protected, Matches

\* The holds that an operation considers, by its kind.
LEMMA ConsidersKind ==
  ASSUME NEW r, NEW h
  PROVE  /\ r.kind = "prune" => (Considers(r, h) <=> h.scope \in Backups)
         /\ r.kind = "retention" => (Considers(r, h) <=> h.tenant = r.tenant)
         /\ r.kind \in {"dsar", "delete"} =>
              (Considers(r, h) <=> h.tenant = r.tenant /\ Matches(h, r.subject))
BY DEF Considers

-----------------------------------------------------------------------------
\* An operation is not disturbed by what others erase, nor by holds that end.
LEMMA Undisturbed ==
  ASSUME NEW q, Local(q), op'[q] = op[q], status'[q] = status[q], did'[q] = did[q],
         since'[q] \subseteq since[q], kept' \subseteq kept
  PROVE  Local(q)'
<1>1. StageInv(q)'
  BY DEF Local, StageInv
<1>2. CoverInv(q)'
  <2>1. \A h : Considers(op[q], h)' <=> Considers(op[q], h)
    BY DEF Considers, Matches
  <2>2. \A p : Spared(q, p)' <=> Spared(q, p)
    BY DEF Spared, Matches
  <2> QED
    BY <2>1, <2>2 DEF Local, CoverInv
<1>3. RequestInv(q)'
  BY DEF Local, RequestInv
<1>4. TruthInv(q)'
  <2>1. Targets(op'[q]) = Targets(op[q])
    OBVIOUS
  <2> QED
    BY <2>1 DEF Local, TruthInv
<1> QED
  BY <1>1, <1>2, <1>3, <1>4 DEF Local

\* So the step of an operation has only to keep its own part.
LEMMA StepOf ==
  ASSUME IInv, NEW o \in Ops, TypeOK', Keeps(o), Local(o)'
  PROVE  IInv'
<1>1. ASSUME NEW q \in Ops \ {o}
      PROVE  Local(q)'
  BY <1>1, Undisturbed DEF IInv, Keeps
<1> QED
  BY <1>1 DEF IInv

\* An operation that is not a DSAR request, between its phases.
LEMMA Arriving ==
  ASSUME IInv, NEW o \in Ops, NEW r \in OpState, Arrive(o, r),
         \/ UNCHANGED status /\ r.kind # "dsar"
         \/ Record(o, "running") /\ r.kind # "dsar"
         \/ Record(o, "pending") /\ r.kind = "dsar",
         /\ r.kind = "retention" => r.phase = "holds"
         /\ r.kind = "prune" => r.phase = "holds"
         /\ r.kind = "dsar" => r.phase = "pending"
         /\ r.kind = "delete" => r.phase = "check" /\ r.subject \in Subjects
         /\ r.kind # "none"
  PROVE  IInv'
<1>1. /\ op' \in [Ops -> OpState]
      /\ op'[o] = r
      /\ \A q \in Ops \ {o} : op'[q] = op[q]
  BY AssignOp DEF Arrive, IInv, TypeOK
<1>2. /\ status' \in [Ops -> {"none", "pending", "running", "completed", "rejected", "failed"}]
      /\ \A q \in Ops \ {o} : status'[q] = status[q]
      /\ r.kind = "dsar" => status'[o] = "pending"
  BY RecordStep DEF IInv, TypeOK
<1>3. TypeOK' /\ Keeps(o)
  BY <1>1, <1>2 DEF Arrive, IInv, TypeOK, Keeps
<1>4. ~did[o]
  BY DEF IInv, Local, StageInv, Arrive
<1>5. StageInv(o)' /\ CoverInv(o)' /\ RequestInv(o)' /\ TruthInv(o)'
  BY <1>1, <1>2, <1>4, Fields DEF Arrive, StageInv, CoverInv, RequestInv, TruthInv
<1> QED
  BY <1>3, <1>5, StepOf DEF Local

\* A handler that ends without a DSAR request completed leaves nothing to prove.
LEMMA Ending ==
  ASSUME IInv, NEW o \in Ops, Done(o), TypeOK', Keeps(o),
         op[o].kind = "dsar" =>
           /\ status'[o] = "completed" => Targets(op[o]) \cap kept' = {}
           /\ status'[o] \in {"pending", "rejected", "failed"} => ~did'[o]
  PROVE  IInv'
<1>1. /\ op'[o].phase = "over"
      /\ IF op[o].kind = "dsar"
         THEN /\ op'[o].kind = "dsar" /\ op'[o].tenant = op[o].tenant
              /\ op'[o].subject = op[o].subject /\ op'[o].anonymize = op[o].anonymize
         ELSE op'[o].kind = "none"
  BY DoneStep DEF IInv, TypeOK
<1>2. StageInv(o)' /\ CoverInv(o)' /\ RequestInv(o)'
  BY <1>1 DEF StageInv, CoverInv, RequestInv
<1>3. TruthInv(o)'
  <2>1. CASE op[o].kind = "dsar"
    <3>1. Targets(op'[o]) = Targets(op[o])
      BY <1>1, <2>1, SameTargets
    <3> QED
      BY <2>1, <3>1 DEF TruthInv
  <2>2. CASE op[o].kind # "dsar"
    BY <1>1, <2>2 DEF TruthInv
  <2> QED
    BY <2>1, <2>2
<1> QED
  BY <1>2, <1>3, StepOf DEF Local

-----------------------------------------------------------------------------
\* The actions.

\* Holds that are placed or end.
LEMMA HoldSteps ==
  ASSUME IInv, NEW h \in Hold, CreateHold(h) \/ EndHold(h)
  PROVE  IInv'
<1>1. TypeOK'
  BY DEF IInv, TypeOK, CreateHold, EndHold
<1>2. \A q \in Ops : /\ op'[q] = op[q] /\ status'[q] = status[q] /\ did'[q] = did[q]
                     /\ since'[q] \subseteq since[q] /\ kept' \subseteq kept
  BY DEF CreateHold, EndHold
<1>3. ASSUME NEW q \in Ops
      PROVE  Local(q)'
  BY <1>2, Undisturbed DEF IInv
<1> QED
  BY <1>1, <1>3 DEF IInv

\* Operations that arrive.
LEMMA ArriveSteps ==
  ASSUME IInv, NEW o \in Ops,
         \/ \E t \in Tenants : StartRetention(o, t)
         \/ StartPrune(o)
         \/ \E t \in Tenants, s \in Owned \cup {None}, a \in BOOLEAN : SubmitDsar(o, t, s, a)
         \/ \E d \in Documents : DeleteDocument(o, d)
  PROVE  IInv'
<1>1. ASSUME NEW t \in Tenants, StartRetention(o, t)
      PROVE  IInv'
  <2>1. New("retention", t, None, "holds") \in OpState
    BY NewType DEF Phases
  <2> QED
    BY <1>1, <2>1, Arriving DEF StartRetention, New
<1>2. ASSUME StartPrune(o)
      PROVE  IInv'
  <2>1. New("prune", None, None, "holds") \in OpState
    BY NewType DEF Phases
  <2> QED
    BY <1>2, <2>1, Arriving DEF StartPrune, New
<1>3. ASSUME NEW t \in Tenants, NEW s \in Owned \cup {None}, NEW a \in BOOLEAN,
             SubmitDsar(o, t, s, a)
      PROVE  IInv'
  <2> DEFINE r == [New("dsar", t, s, "pending") EXCEPT !.anonymize = a]
  <2>1. New("dsar", t, s, "pending") \in OpState
    BY NewType DEF Phases, Subjects
  <2>2. r \in OpState /\ r.kind = "dsar" /\ r.phase = "pending"
    BY <2>1 DEF OpState, New
  <2>3. Arrive(o, r) /\ Record(o, "pending")
    BY <1>3 DEF SubmitDsar
  <2> HIDE DEF r
  <2> QED
    BY <2>2, <2>3, Arriving
<1>4. ASSUME NEW d \in Documents, DeleteDocument(o, d)
      PROVE  IInv'
  <2>1. New("delete", Owner[d], d, "check") \in OpState /\ d \in Subjects
    BY GovernanceAssumption, NewType DEF Phases, Owned, Subjects
  <2> QED
    BY <1>4, <2>1, Arriving DEF DeleteDocument, New
<1> QED
  BY <1>1, <1>2, <1>3, <1>4

\* A retention run reads the holds of its tenant: all those it considers.
LEMMA ReadHoldsStep ==
  ASSUME IInv, NEW o \in Ops, ReadHolds(o)
  PROVE  IInv'
<1> DEFINE r == [op[o] EXCEPT !.phase = "rows", !.seen = ActiveHolds(op[o].tenant)]
<1>1. op[o] \in OpState /\ ActiveHolds(op[o].tenant) \in SUBSET Hold
  BY DEF IInv, TypeOK, ActiveHolds
<1>2. /\ r \in OpState
      /\ r.phase = "rows" /\ r.kind = "retention" /\ r.tenant = op[o].tenant
      /\ r.seen = ActiveHolds(op[o].tenant)
  BY <1>1 DEF OpState, Phases, ReadHolds, At
<1>3. op' = [op EXCEPT ![o] = r]
  BY DEF ReadHolds
<1> HIDE DEF r
<1>4. /\ op' \in [Ops -> OpState]
      /\ op'[o] = r
      /\ \A q \in Ops \ {o} : op'[q] = op[q]
  BY <1>2, <1>3, AssignOp DEF IInv, TypeOK
<1>5. TypeOK' /\ Keeps(o)
  BY <1>4 DEF ReadHolds, IInv, TypeOK, Keeps
<1>6. ASSUME NEW h \in since'[o], Considers(op'[o], h)
      PROVE  h \in op'[o].seen
  <2>1. h.tenant = op[o].tenant
    BY <1>2, <1>4, <1>6, ConsidersKind
  <2>2. h \in holds
    BY DEF ReadHolds, IInv, TypeOK
  <2> QED
    BY <1>2, <1>4, <2>1, <2>2 DEF ActiveHolds
<1>7. StageInv(o)' /\ CoverInv(o)' /\ RequestInv(o)' /\ TruthInv(o)'
  BY <1>2, <1>4, <1>6 DEF StageInv, CoverInv, RequestInv, TruthInv
<1> QED
  BY <1>5, <1>7, StepOf DEF Local

\* A prune reads the holds of backup sets: all those it considers.
LEMMA ReadScopesStep ==
  ASSUME IInv, NEW o \in Ops, ReadScopes(o)
  PROVE  IInv'
<1> DEFINE found == {h \in holds : h.scope \in Backups}
           r == [op[o] EXCEPT !.phase = "files", !.seen = found]
<1>1. op[o] \in OpState /\ found \in SUBSET Hold
  BY DEF IInv, TypeOK
<1>2. /\ r \in OpState
      /\ r.phase = "files" /\ r.kind = "prune" /\ r.seen = found
  BY <1>1 DEF OpState, Phases, ReadScopes, At
<1>3. op' = [op EXCEPT ![o] = r]
  BY DEF ReadScopes
<1> HIDE DEF r
<1>4. /\ op' \in [Ops -> OpState]
      /\ op'[o] = r
      /\ \A q \in Ops \ {o} : op'[q] = op[q]
  BY <1>2, <1>3, AssignOp DEF IInv, TypeOK
<1>5. TypeOK' /\ Keeps(o)
  BY <1>4 DEF ReadScopes, IInv, TypeOK, Keeps
<1>6. \A h \in since'[o] : Considers(op'[o], h) => h \in op'[o].seen
  BY <1>2, <1>4, ConsidersKind DEF ReadScopes, IInv, TypeOK
<1>7. StageInv(o)' /\ CoverInv(o)' /\ RequestInv(o)' /\ TruthInv(o)'
  BY <1>2, <1>4, <1>6 DEF StageInv, CoverInv, RequestInv, TruthInv
<1> QED
  BY <1>5, <1>7, StepOf DEF Local

\* A retention run erases rows that the holds it has seen do not spare.
LEMMA EraseRowsStep ==
  ASSUME IInv, NEW o \in Ops, NEW expired \in SUBSET Expiring, EraseRows(o, expired)
  PROVE  IInv'
<1> DEFINE ps == {p \in expired : ~Spared(o, p)}
           r == [op[o] EXCEPT !.phase = "files", !.rows = ps]
<1>1. op[o] \in OpState /\ ps \in SUBSET Piece
  BY DEF IInv, TypeOK, Expiring, Pieces
<1>2. /\ r \in OpState
      /\ r.phase = "files" /\ r.kind = "retention" /\ r.rows = ps
      /\ r.seen = op[o].seen /\ r.tenant = op[o].tenant /\ r.subject = op[o].subject
      /\ r.anonymize = op[o].anonymize /\ op[o].kind = "retention" /\ op[o].phase = "rows"
  BY <1>1 DEF OpState, Phases, EraseRows, At
<1>3. op' = [op EXCEPT ![o] = r]
  BY DEF EraseRows
<1>8. \A p \in ps : ~Spared(o, p)
  OBVIOUS
<1> HIDE DEF r, ps
<1>4. /\ op' \in [Ops -> OpState]
      /\ op'[o] = r
      /\ \A q \in Ops \ {o} : op'[q] = op[q]
  BY <1>2, <1>3, AssignOp DEF IInv, TypeOK
<1>5. TypeOK' /\ Keeps(o)
  BY <1>4 DEF EraseRows, IInv, TypeOK, Keeps
<1>6. ASSUME NEW h \in since'[o], Considers(op'[o], h)
      PROVE  h \in op'[o].seen
  <2>1. h \in since[o]
    BY DEF EraseRows
  <2>2. Considers(op[o], h)
    BY <1>2, <1>4, <1>6, SameTargets
  <2>3. CoverInv(o)
    BY DEF IInv, Local
  <2> QED
    BY <1>2, <1>4, <2>1, <2>2, <2>3 DEF CoverInv
<1>7. \A p \in op'[o].rows : ~Spared(o, p)'
  BY <1>2, <1>4, <1>8 DEF Spared, Matches
<1>9. StageInv(o)' /\ CoverInv(o)' /\ RequestInv(o)' /\ TruthInv(o)'
  BY <1>2, <1>4, <1>6, <1>7 DEF StageInv, CoverInv, RequestInv, TruthInv
<1> QED
  BY <1>5, <1>9, StepOf DEF Local

\* What was read stays valid when a handler goes on to a phase that relies on it.
LEMMA KeepCover ==
  ASSUME IInv, NEW o \in Ops, since'[o] = since[o],
         op'[o].kind = op[o].kind, op'[o].tenant = op[o].tenant,
         op'[o].subject = op[o].subject, op'[o].anonymize = op[o].anonymize,
         op'[o].seen = op[o].seen, op'[o].rows = op[o].rows,
         \/ op[o].phase \in {"files"} /\ op'[o].phase \in {"files", "report"}
         \/ op[o].phase \in {"load", "apply"} /\ op'[o].phase \in {"apply", "unlink"}
  PROVE  CoverInv(o)'
<1>1. CoverInv(o)
  BY DEF IInv, Local
<1>2. \A h : Considers(op'[o], h) <=> Considers(op[o], h)
  BY SameTargets
<1>3. \A p : Spared(o, p)' <=> Spared(o, p)
  BY DEF Spared, Matches
<1> QED
  BY <1>1, <1>2, <1>3 DEF CoverInv

\* An expired backup set is removed at once, its job marked later.
LEMMA RemoveBackupStep ==
  ASSUME IInv, NEW o \in Ops, NEW b \in Backups, RemoveBackup(o, b)
  PROVE  IInv'
<1> DEFINE r == [op[o] EXCEPT !.marks = op[o].marks \cup {b}]
<1>1. op[o] \in OpState
  BY DEF IInv, TypeOK
<1>2. /\ r \in OpState
      /\ r.phase = op[o].phase /\ r.kind = op[o].kind /\ r.seen = op[o].seen
      /\ r.rows = op[o].rows /\ r.tenant = op[o].tenant /\ r.subject = op[o].subject
      /\ r.anonymize = op[o].anonymize
  BY <1>1 DEF OpState
<1>3. op' = [op EXCEPT ![o] = r]
  BY DEF RemoveBackup
<1> HIDE DEF r
<1>4. /\ op' \in [Ops -> OpState]
      /\ op'[o] = r
      /\ \A q \in Ops \ {o} : op'[q] = op[q]
  BY <1>2, <1>3, AssignOp DEF IInv, TypeOK
<1>5. /\ kept' \subseteq kept /\ kept' \subseteq Pieces
      /\ did' \in [Ops -> BOOLEAN]
      /\ \A q \in Ops \ {o} : did'[q] = did[q]
  <2>1. CASE Erase(o, {<<b, "files">>})
    BY <2>1, EraseStep DEF IInv, TypeOK
  <2>2. CASE UNCHANGED <<kept, did>>
    BY <2>2 DEF IInv, TypeOK
  <2> QED
    BY <2>1, <2>2 DEF RemoveBackup
<1>6. TypeOK' /\ Keeps(o)
  BY <1>4, <1>5 DEF RemoveBackup, IInv, TypeOK, Keeps
<1>7. op[o].phase = "files" /\ since'[o] = since[o]
  BY DEF RemoveBackup
<1>8. CoverInv(o)'
  BY <1>2, <1>4, <1>7, KeepCover
<1>9. op[o].kind \in {"retention", "prune"}
  BY <1>1, <1>7, Fields DEF IInv, Local, StageInv
<1>10. StageInv(o)' /\ RequestInv(o)' /\ TruthInv(o)'
  BY <1>2, <1>4, <1>7, <1>9 DEF IInv, Local, StageInv, RequestInv, TruthInv
<1> QED
  BY <1>6, <1>8, <1>10, StepOf DEF Local

\* A skipped category commits what a run has erased so far.
LEMMA CommitSkipsStep ==
  ASSUME IInv, NEW o \in Ops, CommitSkips(o)
  PROVE  IInv'
<1>1. /\ op' \in [Ops -> OpState]
      /\ op'[o].phase = "report"
      /\ SameFields(op'[o], op[o])
      /\ \A q \in Ops \ {o} : op'[q] = op[q]
  BY GotoStep DEF CommitSkips, IInv, TypeOK, Phases
<1>2. /\ kept' \subseteq kept /\ kept' \subseteq Pieces
      /\ did' \in [Ops -> BOOLEAN]
      /\ \A q \in Ops \ {o} : did'[q] = did[q]
  BY EraseStep DEF CommitSkips, IInv, TypeOK
<1>3. job' \in [Backups -> {"succeeded", "pruned"}]
  BY MarkedType DEF CommitSkips, IInv, TypeOK
<1>4. TypeOK' /\ Keeps(o)
  BY <1>1, <1>2, <1>3 DEF CommitSkips, IInv, TypeOK, Keeps
<1>5. op[o].kind = "retention" /\ op[o].phase = "files" /\ since'[o] = since[o]
  BY DEF CommitSkips, At
<1>6. CoverInv(o)'
  BY <1>1, <1>5, KeepCover DEF SameFields
<1>7. StageInv(o)' /\ RequestInv(o)' /\ TruthInv(o)'
  BY <1>1, <1>5 DEF SameFields, StageInv, RequestInv, TruthInv
<1> QED
  BY <1>4, <1>6, <1>7, StepOf DEF Local

\* Retention runs and prunes that end.
LEMMA FinishSteps ==
  ASSUME IInv, NEW o \in Ops, FinishRetention(o) \/ RetentionFails(o) \/ FinishPrune(o)
  PROVE  IInv'
<1>1. Done(o) /\ op[o].kind # "dsar" /\ holds' = holds
  BY DEF FinishRetention, RetentionFails, FinishPrune, At
<1>2. /\ op' \in [Ops -> OpState]
      /\ since' \in [Ops -> SUBSET holds]
      /\ \A q \in Ops \ {o} : op'[q] = op[q] /\ since'[q] = since[q]
  BY <1>1, DoneStep DEF IInv, TypeOK
<1>3. /\ kept' \subseteq kept /\ kept' \subseteq Pieces
      /\ did' \in [Ops -> BOOLEAN]
      /\ \A q \in Ops \ {o} : did'[q] = did[q]
  BY EraseStep DEF FinishRetention, RetentionFails, FinishPrune, IInv, TypeOK
<1>4. job' \in [Backups -> {"succeeded", "pruned"}]
  BY MarkedType DEF FinishRetention, RetentionFails, FinishPrune, IInv, TypeOK
<1>5. /\ status' \in [Ops -> {"none", "pending", "running", "completed", "rejected", "failed"}]
      /\ \A q \in Ops \ {o} : status'[q] = status[q]
  BY RecordStep DEF FinishRetention, RetentionFails, FinishPrune, IInv, TypeOK
<1>6. TypeOK' /\ Keeps(o)
  BY <1>1, <1>2, <1>3, <1>4, <1>5 DEF IInv, TypeOK, Keeps
<1> QED
  BY <1>1, <1>6, Ending

\* A DSAR request that goes on, or stops before it erases anything.
LEMMA RunDsarStep ==
  ASSUME IInv, NEW o \in Ops, RunDsar(o)
  PROVE  IInv'
<1>1. /\ op' \in [Ops -> OpState]
      /\ op'[o].phase = "policy"
      /\ SameFields(op'[o], op[o])
      /\ \A q \in Ops \ {o} : op'[q] = op[q]
  BY GotoStep DEF RunDsar, IInv, TypeOK, Phases
<1>2. /\ status' \in [Ops -> {"none", "pending", "running", "completed", "rejected", "failed"}]
      /\ status'[o] = "running"
      /\ \A q \in Ops \ {o} : status'[q] = status[q]
  BY RecordStep DEF RunDsar, IInv, TypeOK
<1>3. TypeOK' /\ Keeps(o)
  BY <1>1, <1>2 DEF RunDsar, IInv, TypeOK, Keeps
<1>4. StageInv(o)' /\ CoverInv(o)' /\ RequestInv(o)' /\ TruthInv(o)'
  BY <1>1, <1>2 DEF RunDsar, At, SameFields, IInv, Local, StageInv, CoverInv, RequestInv, TruthInv
<1> QED
  BY <1>3, <1>4, StepOf DEF Local

\* A request that the policy or a hold rejects, or whose policy check fails.
LEMMA RejectSteps ==
  ASSUME IInv, NEW o \in Ops, PolicyRejects(o) \/ HoldRejects(o) \/ DsarFails(o)
  PROVE  IInv'
<1>1. /\ op[o].kind = "dsar" /\ op[o].phase = "policy" /\ Done(o)
      /\ UNCHANGED <<holds, kept, job, did>>
  BY DEF PolicyRejects, HoldRejects, DsarFails, At
<1>2. /\ status' \in [Ops -> {"none", "pending", "running", "completed", "rejected", "failed"}]
      /\ status'[o] \in {"rejected", "failed"}
      /\ \A q \in Ops \ {o} : status'[q] = status[q]
  BY RecordStep DEF PolicyRejects, HoldRejects, DsarFails, IInv, TypeOK
<1>3. /\ op' \in [Ops -> OpState]
      /\ since' \in [Ops -> SUBSET holds]
      /\ \A q \in Ops \ {o} : op'[q] = op[q] /\ since'[q] = since[q]
  BY <1>1, DoneStep DEF IInv, TypeOK
<1>4. TypeOK' /\ Keeps(o)
  BY <1>1, <1>2, <1>3 DEF IInv, TypeOK, Keeps
<1>5. ~did'[o]
  BY <1>1 DEF IInv, Local, RequestInv
<1> QED
  BY <1>1, <1>2, <1>4, <1>5, Ending

\* No hold found means none among those in force since the request arrived.
LEMMA FoundNone ==
  ASSUME IInv, NEW o \in Ops, ~Held(o), op[o].kind \in {"dsar", "delete"},
         NEW h \in since[o]
  PROVE  ~Considers(op[o], h)
<1>1. h \in holds
  BY DEF IInv, TypeOK
<1>2. SUFFICES ASSUME Considers(op[o], h)
               PROVE  FALSE
  OBVIOUS
<1>3. h.tenant = op[o].tenant /\ Matches(h, op[o].subject)
  BY <1>2, ConsidersKind
<1> QED
  BY <1>1, <1>3 DEF Held, ActiveHolds

\* A request that finds no hold is free of those in force since it arrived.
LEMMA FindNoHoldStep ==
  ASSUME IInv, NEW o \in Ops, FindNoHold(o)
  PROVE  IInv'
<1>1. /\ op' \in [Ops -> OpState]
      /\ op'[o].phase = "apply"
      /\ SameFields(op'[o], op[o])
      /\ \A q \in Ops \ {o} : op'[q] = op[q]
  BY GotoStep DEF FindNoHold, IInv, TypeOK, Phases
<1>2. TypeOK' /\ Keeps(o)
  BY <1>1 DEF FindNoHold, IInv, TypeOK, Keeps
<1>3. op[o].kind = "dsar" /\ op[o].phase = "policy" /\ since'[o] = since[o] /\ ~Held(o)
  BY DEF FindNoHold, At
<1>4. ASSUME NEW h \in since'[o]
      PROVE  ~Considers(op'[o], h)
  <2>1. ~Considers(op[o], h)
    BY <1>3, FoundNone
  <2> QED
    BY <1>1, <2>1, SameTargets DEF SameFields
<1>5. StageInv(o)' /\ CoverInv(o)' /\ RequestInv(o)' /\ TruthInv(o)'
  BY <1>1, <1>3, <1>4 DEF FindNoHold, SameFields, IInv, Local, StageInv, CoverInv, RequestInv, TruthInv
<1> QED
  BY <1>2, <1>5, StepOf DEF Local

\* A DSAR request erases its targets and is recorded completed in one commit.
LEMMA ApplyDsarStep ==
  ASSUME IInv, NEW o \in Ops, ApplyDsar(o)
  PROVE  IInv'
<1>1. op[o].kind = "dsar" /\ op[o].phase = "apply" /\ Done(o) /\ holds' = holds /\ job' = job
  BY DEF ApplyDsar, At
<1>2. /\ status' \in [Ops -> {"none", "pending", "running", "completed", "rejected", "failed"}]
      /\ status'[o] = "completed"
      /\ \A q \in Ops \ {o} : status'[q] = status[q]
  BY RecordStep DEF ApplyDsar, IInv, TypeOK
<1>3. /\ op' \in [Ops -> OpState]
      /\ since' \in [Ops -> SUBSET holds]
      /\ \A q \in Ops \ {o} : op'[q] = op[q] /\ since'[q] = since[q]
  BY <1>1, DoneStep DEF IInv, TypeOK
<1>4. /\ kept' = kept \ Targets(op[o]) /\ kept' \subseteq Pieces
      /\ did' \in [Ops -> BOOLEAN]
      /\ \A q \in Ops \ {o} : did'[q] = did[q]
  BY EraseStep DEF ApplyDsar, IInv, TypeOK
<1>5. TypeOK' /\ Keeps(o)
  BY <1>1, <1>2, <1>3, <1>4 DEF IInv, TypeOK, Keeps
<1> QED
  BY <1>1, <1>2, <1>4, <1>5, Ending

\* The check of a deletion.
LEMMA CheckDeleteStep ==
  ASSUME IInv, NEW o \in Ops, CheckDelete(o)
  PROVE  IInv'
<1>1. /\ op[o].kind = "delete" /\ op[o].phase = "check"
      /\ UNCHANGED <<holds, kept, job, status, did>>
  BY DEF CheckDelete, At
<1>2. CASE Done(o)
  <2>1. /\ op' \in [Ops -> OpState]
        /\ since' \in [Ops -> SUBSET holds]
        /\ \A q \in Ops \ {o} : op'[q] = op[q] /\ since'[q] = since[q]
    BY <1>2, DoneStep DEF IInv, TypeOK
  <2>2. TypeOK' /\ Keeps(o)
    BY <1>1, <2>1 DEF IInv, TypeOK, Keeps
  <2> QED
    BY <1>1, <1>2, <2>2, Ending
<1>3. CASE ~Held(o) /\ Goto(o, "load") /\ UNCHANGED since
  <2>1. /\ op' \in [Ops -> OpState]
        /\ op'[o].phase = "load"
        /\ SameFields(op'[o], op[o])
        /\ \A q \in Ops \ {o} : op'[q] = op[q]
    BY <1>3, GotoStep DEF IInv, TypeOK, Phases
  <2>2. TypeOK' /\ Keeps(o)
    BY <1>1, <1>3, <2>1 DEF IInv, TypeOK, Keeps
  <2>3. ASSUME NEW h \in since'[o]
        PROVE  ~Considers(op'[o], h)
    <3>1. ~Considers(op[o], h)
      BY <1>1, <1>3, FoundNone
    <3> QED
      BY <2>1, <3>1, SameTargets DEF SameFields
  <2>4. StageInv(o)' /\ CoverInv(o)' /\ RequestInv(o)' /\ TruthInv(o)'
    BY <1>1, <2>1, <2>3 DEF SameFields, IInv, Local, StageInv, CoverInv, RequestInv, TruthInv
  <2> QED
    BY <2>2, <2>4, StepOf DEF Local
<1> QED
  BY <1>2, <1>3 DEF CheckDelete

\* A deletion loads its document: no hold considered has been in force throughout.
LEMMA LoadDocumentStep ==
  ASSUME IInv, NEW o \in Ops, LoadDocument(o)
  PROVE  IInv'
<1> DEFINE ps == IF <<op[o].subject, "row">> \in kept THEN {<<op[o].subject, "file">>} ELSE {}
           r  == [op[o] EXCEPT !.phase = "apply", !.rows = ps]
<1>1. op[o] \in OpState /\ op[o].kind = "delete" /\ op[o].phase = "load"
  BY DEF IInv, TypeOK, LoadDocument, At
<1>2. op[o].subject \in Subjects
  BY <1>1 DEF IInv, Local, StageInv
<1>3. ps \in SUBSET Piece
  BY <1>2 DEF Piece, PartNames
<1>4. op' = [op EXCEPT ![o] = r]
  BY DEF LoadDocument
<1> HIDE DEF ps
<1>5. /\ r \in OpState
      /\ r.phase = "apply" /\ r.kind = "delete" /\ r.seen = op[o].seen /\ r.rows = ps
      /\ r.tenant = op[o].tenant /\ r.subject = op[o].subject
      /\ r.anonymize = op[o].anonymize
  BY <1>1, <1>3 DEF OpState, Phases
<1> HIDE DEF r
<1>6. /\ op' \in [Ops -> OpState]
      /\ op'[o] = r
      /\ \A q \in Ops \ {o} : op'[q] = op[q]
  BY <1>4, <1>5, AssignOp DEF IInv, TypeOK
<1>7. TypeOK' /\ Keeps(o)
  BY <1>6 DEF LoadDocument, IInv, TypeOK, Keeps
<1>8. ASSUME NEW h \in since'[o]
      PROVE  ~Considers(op'[o], h)
  <2>1. h \in since[o]
    BY DEF LoadDocument
  <2>2. ~Considers(op[o], h)
    BY <1>1, <2>1 DEF IInv, Local, CoverInv
  <2> QED
    BY <1>1, <1>5, <1>6, <2>2, SameTargets
<1>9. StageInv(o)' /\ CoverInv(o)' /\ RequestInv(o)' /\ TruthInv(o)'
  BY <1>2, <1>5, <1>6, <1>8 DEF StageInv, CoverInv, RequestInv, TruthInv
<1> QED
  BY <1>7, <1>9, StepOf DEF Local

\* A deletion erases the rows of its document, and only its file is left to do.
LEMMA DeleteRowsStep ==
  ASSUME IInv, NEW o \in Ops, DeleteRows(o)
  PROVE  IInv'
<1>1. /\ op' \in [Ops -> OpState]
      /\ op'[o].phase = "unlink"
      /\ SameFields(op'[o], op[o])
      /\ \A q \in Ops \ {o} : op'[q] = op[q]
  BY GotoStep DEF DeleteRows, IInv, TypeOK, Phases
<1>2. /\ kept' \subseteq kept /\ kept' \subseteq Pieces
      /\ did' \in [Ops -> BOOLEAN]
      /\ \A q \in Ops \ {o} : did'[q] = did[q]
  BY EraseStep DEF DeleteRows, IInv, TypeOK
<1>3. TypeOK' /\ Keeps(o)
  BY <1>1, <1>2 DEF DeleteRows, IInv, TypeOK, Keeps
<1>4. op[o].kind = "delete" /\ op[o].phase = "apply" /\ since'[o] = since[o]
  BY DEF DeleteRows, At
<1>5. CoverInv(o)'
  BY <1>1, <1>4, KeepCover DEF SameFields
<1>6. StageInv(o)' /\ RequestInv(o)' /\ TruthInv(o)'
  BY <1>1, <1>4 DEF SameFields, IInv, Local, StageInv, RequestInv, TruthInv
<1> QED
  BY <1>3, <1>5, <1>6, StepOf DEF Local

\* A deletion ends with its file, whether or not removing it succeeds.
LEMMA UnlinkStep ==
  ASSUME IInv, NEW o \in Ops, Unlink(o)
  PROVE  IInv'
<1>1. op[o].kind = "delete" /\ Done(o) /\ UNCHANGED <<holds, job, status>>
  BY DEF Unlink, At
<1>2. /\ op' \in [Ops -> OpState]
      /\ since' \in [Ops -> SUBSET holds]
      /\ \A q \in Ops \ {o} : op'[q] = op[q] /\ since'[q] = since[q]
  BY <1>1, DoneStep DEF IInv, TypeOK
<1>3. /\ kept' \subseteq kept /\ kept' \subseteq Pieces
      /\ did' \in [Ops -> BOOLEAN]
      /\ \A q \in Ops \ {o} : did'[q] = did[q]
  <2>1. CASE Erase(o, op[o].rows)
    BY <2>1, EraseStep DEF IInv, TypeOK
  <2>2. CASE UNCHANGED <<kept, did>>
    BY <2>2 DEF IInv, TypeOK
  <2> QED
    BY <2>1, <2>2 DEF Unlink
<1>4. TypeOK' /\ Keeps(o)
  BY <1>1, <1>2, <1>3 DEF IInv, TypeOK, Keeps
<1> QED
  BY <1>1, <1>4, Ending

\* An instance that dies leaves the record as it was.
LEMMA CrashStep ==
  ASSUME IInv, NEW o \in Ops, Crash(o)
  PROVE  IInv'
<1>1. op[o].phase # "over" /\ Done(o) /\ UNCHANGED <<holds, kept, job, status, did>>
  BY DEF Crash
<1>2. /\ op' \in [Ops -> OpState]
      /\ since' \in [Ops -> SUBSET holds]
      /\ \A q \in Ops \ {o} : op'[q] = op[q] /\ since'[q] = since[q]
  BY <1>1, DoneStep DEF IInv, TypeOK
<1>3. TypeOK' /\ Keeps(o)
  BY <1>1, <1>2 DEF IInv, TypeOK, Keeps
<1>4. op[o].kind = "dsar" => status[o] \in {"pending", "running"} /\ ~did[o]
  BY <1>1 DEF IInv, Local, StageInv, RequestInv
<1> QED
  BY <1>1, <1>3, <1>4, Ending

-----------------------------------------------------------------------------
\* The invariant holds at first.
LEMMA InitInv == Init => IInv
<1> SUFFICES ASSUME Init PROVE IInv
  OBVIOUS
<1> DEFINE r == New("none", None, None, "idle")
<1>1. r \in OpState
  BY NewType DEF Phases
<1>2. r.kind = "none" /\ r.phase = "idle"
  BY DEF New
<1> HIDE DEF r
<1>3. op = [o \in Ops |-> r]
  BY DEF Init, r
<1>4. TypeOK
  BY <1>1, <1>3 DEF Init, TypeOK
<1>5. ASSUME NEW o \in Ops
      PROVE  StageInv(o) /\ CoverInv(o) /\ RequestInv(o) /\ TruthInv(o)
  BY <1>2, <1>3 DEF Init, StageInv, CoverInv, RequestInv, TruthInv
<1> QED
  BY <1>4, <1>5 DEF IInv, Local

\* Every step preserves it.
LEMMA NextInv == IInv /\ [Next]_vars => IInv'
<1> SUFFICES ASSUME IInv, [Next]_vars PROVE IInv'
  OBVIOUS
<1>1. CASE UNCHANGED vars
  <2>1. TypeOK'
    BY <1>1 DEF vars, IInv, TypeOK
  <2>2. ASSUME NEW q \in Ops
        PROVE  Local(q)'
    BY <1>1, Undisturbed DEF vars, IInv
  <2> QED
    BY <2>1, <2>2 DEF IInv
<1>2. CASE \E h \in Hold : CreateHold(h) \/ EndHold(h)
  BY <1>2, HoldSteps
<1>3. ASSUME NEW o \in Ops, Work(o)
      PROVE  IInv'
  BY <1>3, ArriveSteps, ReadHoldsStep, ReadScopesStep, EraseRowsStep, RemoveBackupStep,
     CommitSkipsStep, FinishSteps, RunDsarStep, RejectSteps, FindNoHoldStep, ApplyDsarStep,
     CheckDeleteStep, LoadDocumentStep, DeleteRowsStep, UnlinkStep, CrashStep DEF Work
<1> QED
  BY <1>1, <1>2, <1>3 DEF Next

\* The inductive invariant, for all tenants, subjects, holds and operations.
THEOREM Inductive == Spec => []IInv
BY InitInv, NextInv, PTL DEF Spec

\* Every variable keeps its type, through every crash and commit.
THEOREM TypeCorrect == Spec => []TypeOK
<1>1. IInv => TypeOK
  BY DEF IInv
<1> QED
  BY <1>1, Inductive, PTL

\* A request recorded completed has erased all it aims at, one recorded pending,
\* rejected or failed nothing.
THEOREM DsarRecordsTell == Spec => []DsarTruthful
<1>1. IInv => DsarTruthful
  BY DEF IInv, Local, TruthInv, DsarTruthful
<1> QED
  BY <1>1, Inductive, PTL

-----------------------------------------------------------------------------
\* What an operation erases in a step, no hold that it considers protects if the
\* hold has been in force since the operation arrived.
Respects(o) ==
  \A p \in kept \ kept' : \A h \in since[o] : Considers(op[o], h) => p \notin Protected(h)

\* What the holds seen do not spare, no hold seen protects.
LEMMA SparedSafe ==
  ASSUME IInv, NEW o \in Ops, NEW ps, kept \ kept' \subseteq ps,
         \A p \in ps : ~Spared(o, p),
         \A h \in since[o] : Considers(op[o], h) => h \in op[o].seen
  PROVE  Respects(o)
<1> SUFFICES ASSUME NEW p \in kept \ kept', NEW h \in since[o], Considers(op[o], h),
                    p \in Protected(h)
             PROVE  FALSE
  BY DEF Respects
<1>1. h \in Hold
  BY DEF IInv, TypeOK
<1>2. Matches(h, p[1])
  BY <1>1, ProtectedMatch
<1> QED
  BY <1>2 DEF Spared

\* Retention runs and prunes spare what the holds they have seen match.
LEMMA RunsRespect ==
  ASSUME IInv, NEW o \in Ops,
         \/ \E b \in Backups : RemoveBackup(o, b)
         \/ CommitSkips(o) \/ FinishRetention(o) \/ RetentionFails(o)
  PROVE  Respects(o)
<1>1. CoverInv(o) /\ StageInv(o) /\ op[o] \in OpState
  BY DEF IInv, Local, TypeOK
<1>2. ASSUME NEW b \in Backups, RemoveBackup(o, b)
      PROVE  Respects(o)
  <2>1. kept \ kept' \subseteq {<<b, "files">>} /\ ~Spared(o, <<b, "files">>)
    BY <1>2 DEF RemoveBackup, Erase
  <2>2. op[o].phase = "files"
    BY <1>2 DEF RemoveBackup
  <2>3. op[o].kind \in {"retention", "prune"}
    BY <1>1, <2>2, Fields DEF StageInv
  <2>4. \A h \in since[o] : Considers(op[o], h) => h \in op[o].seen
    BY <1>1, <2>2, <2>3 DEF CoverInv
  <2> QED
    BY <2>1, <2>4, SparedSafe
<1>3. ASSUME CommitSkips(o) \/ FinishRetention(o) \/ RetentionFails(o)
      PROVE  Respects(o)
  <2>1. kept \ kept' \subseteq op[o].rows
    BY <1>3 DEF CommitSkips, FinishRetention, RetentionFails, Erase
  <2>2. op[o].kind = "retention" /\ op[o].phase \in {"files", "report"}
    BY <1>3 DEF CommitSkips, FinishRetention, RetentionFails, At
  <2>3. /\ \A p \in op[o].rows : ~Spared(o, p)
        /\ \A h \in since[o] : Considers(op[o], h) => h \in op[o].seen
    BY <1>1, <2>2 DEF CoverInv
  <2> QED
    BY <2>1, <2>3, SparedSafe
<1> QED
  BY <1>2, <1>3

\* DSAR requests and deletions that erase have found no hold they consider.
LEMMA RequestsRespect ==
  ASSUME IInv, NEW o \in Ops, ApplyDsar(o) \/ DeleteRows(o) \/ Unlink(o)
  PROVE  Respects(o)
<1>1. op[o].kind \in {"dsar", "delete"} /\ op[o].phase \in {"apply", "unlink"}
  BY DEF ApplyDsar, DeleteRows, Unlink, At
<1>2. \A h \in since[o] : ~Considers(op[o], h)
  BY <1>1 DEF IInv, Local, CoverInv
<1> QED
  BY <1>2 DEF Respects

\* All other steps erase nothing.
LEMMA WorkRespects ==
  ASSUME IInv, NEW o \in Ops, Work(o)
  PROVE  Respects(o)
<1>1. CASE kept' = kept
  BY <1>1 DEF Respects
<1>2. CASE kept' # kept
  <2>1. \/ \E b \in Backups : RemoveBackup(o, b)
        \/ CommitSkips(o) \/ FinishRetention(o) \/ RetentionFails(o)
        \/ ApplyDsar(o) \/ DeleteRows(o) \/ Unlink(o)
    BY <1>2 DEF Work, StartRetention, StartPrune, SubmitDsar, DeleteDocument, Arrive,
       ReadHolds, EraseRows, ReadScopes, FinishPrune, RunDsar, PolicyRejects, HoldRejects,
       FindNoHold, DsarFails, CheckDelete, LoadDocument, Crash
  <2> QED
    BY <2>1, RunsRespect, RequestsRespect
<1> QED
  BY <1>1, <1>2

\* None erases what a hold it considers has kept in force since it arrived,
\* although it reads the holds once and erases in later transactions.
THEOREM HoldsProtect == Spec => HeldSinceArrival
<1> DEFINE Safe == \A o \in Ops : op'[o] # op[o] =>
                     \A p \in kept \ kept' : \A h \in since[o] :
                       Considers(op[o], h) => p \notin Protected(h)
<1>1. ASSUME IInv, [Next]_vars
      PROVE  [Safe]_vars
  <2> SUFFICES ASSUME NEW o \in Ops, op'[o] # op[o]
               PROVE  Respects(o)
    BY DEF Respects
  <2>1. PICK w \in Ops : Work(w)
    BY <1>1 DEF Next, vars, CreateHold, EndHold
  <2>2. w = o
    <3>1. ASSUME NEW q \in Ops, q # w
          PROVE  op'[q] = op[q]
      <4>1. op \in [Ops -> OpState]
        BY <1>1 DEF IInv, TypeOK
      <4>2. CASE Done(w)
        BY <3>1, <4>1, <4>2, DoneStep DEF Done
      <4>3. CASE ~Done(w)
        BY <2>1, <3>1, <4>1, <4>3 DEF Work, StartRetention, StartPrune, SubmitDsar,
           DeleteDocument, Arrive, ReadHolds, EraseRows, RemoveBackup, CommitSkips,
           FinishRetention, RetentionFails, ReadScopes, FinishPrune, RunDsar, PolicyRejects,
           HoldRejects, FindNoHold, ApplyDsar, DsarFails, CheckDelete, LoadDocument,
           DeleteRows, Unlink, Crash, Goto
      <4> QED
        BY <4>2, <4>3
    <3> QED
      BY <3>1
  <2> QED
    BY <1>1, <2>1, <2>2, WorkRespects
<1> QED
  BY <1>1, Inductive, PTL DEF Spec, HeldSinceArrival

===============================================================================
