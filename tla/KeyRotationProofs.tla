-------------------------- MODULE KeyRotationProofs --------------------------
(***************************************************************************)
(* Proofs about KeyRotation, for any number of requests, blobs and faults. *)
(***************************************************************************)
EXTENDS KeyRotation, TLAPS, FiniteSetTheorems

\* The phases of a handler that has rotated the key.
Rotated == Working \cup {"check", "insert", "start"}

\* The newest key is the active one; a handler, a row and a request that stores
\* a blob name keys that exist, and a handler's old key is older than its new.
KeysInv ==
  /\ Len(key) >= 1
  /\ NewestActive
  /\ \A q \in Requests :
       /\ run[q].phase \in {"active", "rotate"} \cup Rotated => run[q].from \in 1..Len(key)
       /\ run[q].phase \in {"rotate"} \cup Rotated => run[q].from < run[q].to
       /\ run[q].phase = "rotate" => run[q].to <= Len(key) + 1
       /\ run[q].phase \in Rotated => run[q].to <= Len(key)
  /\ \A b \in Blobs :
       /\ row[b] # None => row[b].key <= Len(key)
       /\ store[b].phase \in {"keyed", "written"} => store[b].key \in 1..Len(key)

\* A runner works on blobs that are stored, and on nothing between batches.
BatchInv ==
  /\ \A b \in Blobs : store[b].phase # "done" => row[b] = None
  /\ \A b \in FileBlobs : store[b].phase = "written" => file[b] = Original
  /\ \A q \in Requests :
       /\ run[q].phase \notin {"batch", "write"} => run[q].staged = {}
       /\ run[q].phase = "write" => /\ run[q].item \in Item
                                    /\ run[q].item.blob \in FileBlobs
                                    /\ store[run[q].item.blob].phase = "done"
       /\ \A i \in run[q].todo : store[i.blob].phase = "done"
       /\ \A b \in run[q].staged : store[b].phase = "done"

\* Until two runs have been at work at once: there is one at most, its new key
\* is in use, the files it has staged are its own, and when it comes to its end
\* only late blobs are under the old key.
AloneInv ==
  \/ crossed
  \/ /\ \A p, q \in Requests :
          run[p].phase \in Working /\ run[q].phase \in Working => p = q
     /\ \A q \in Requests :
          /\ run[q].phase \in Working => key[run[q].to] # "retired"
          /\ run[q].phase \in {"finish", "retire"} =>
               \A b \in Blobs : row[b] # None /\ row[b].key = run[q].from => b \in late
          /\ \A b \in run[q].staged \cap FileBlobs : file[b] = q \/ b \in spoiled

IInv == TypeOK /\ KeysInv /\ BatchInv /\ AloneInv /\ RetiredEmpty /\ Intact

\* What a handler does in one step.
Handles(q) ==
  \/ BeginRotate(q) \/ (\E p \in Requests : ForceRotate(q, p))
  \/ Advance(q) \/ Die(q)

-----------------------------------------------------------------------------
LEMMA DoneType == Done \in RunState
  BY DEF RunState, Done, New, Phases, Working

LEMMA RunTypes ==
  ASSUME NEW s \in RunState
  PROVE  /\ \A p \in Phases : [s EXCEPT !.phase = p] \in RunState
         /\ \A r \in Requests : [s EXCEPT !.phase = "cancel", !.seen = r] \in RunState
         /\ [s EXCEPT !.phase = "from", !.seen = None] \in RunState
         /\ \A v \in Nat : [s EXCEPT !.phase = "active", !.from = v] \in RunState
         /\ \A v \in Nat : [s EXCEPT !.phase = "rotate", !.to = v + 1] \in RunState
         /\ \A n \in Nat : [s EXCEPT !.phase = "select", !.total = n] \in RunState
         /\ \A t \in SUBSET Item : [s EXCEPT !.phase = "batch", !.todo = t] \in RunState
         /\ [s EXCEPT !.phase = "select", !.staged = {}] \in RunState
<1>1. {"cancel", "from", "active", "rotate", "select", "batch"} \subseteq Phases
  BY DEF Phases, Working
<1>2. \A v \in Nat : v + 1 \in Nat
  OBVIOUS
<1>3. QED
  BY <1>1, <1>2 DEF RunState

LEMMA ItemTypes ==
  ASSUME NEW s \in RunState, NEW i \in Item
  PROVE  /\ [s EXCEPT !.todo = s.todo \ {i}, !.staged = s.staged \cup {i.blob},
                      !.processed = s.processed + 1] \in RunState
         /\ [s EXCEPT !.phase = "write", !.todo = s.todo \ {i}, !.item = i] \in RunState
         /\ [s EXCEPT !.todo = s.todo \ {i}, !.failed = TRUE] \in RunState
         /\ [s EXCEPT !.phase = "batch", !.item = None, !.staged = s.staged \cup {i.blob},
                      !.processed = s.processed + 1] \in RunState
         /\ [s EXCEPT !.phase = "batch", !.item = None, !.failed = TRUE] \in RunState
<1>1. {"write", "batch"} \subseteq Phases
  BY DEF Phases, Working
<1>2. /\ s.todo \ {i} \in SUBSET Item /\ s.staged \cup {i.blob} \in SUBSET Blobs
      /\ s.processed + 1 \in Nat
  BY DEF RunState, Item
<1>3. [s EXCEPT !.todo = s.todo \ {i}, !.staged = s.staged \cup {i.blob},
                !.processed = s.processed + 1] \in RunState
  BY <1>2 DEF RunState
<1>4. [s EXCEPT !.phase = "batch", !.item = None, !.staged = s.staged \cup {i.blob},
                !.processed = s.processed + 1] \in RunState
  BY <1>1, <1>2 DEF RunState
<1>5. QED
  BY <1>1, <1>2, <1>3, <1>4 DEF RunState

LEMMA UnderFinite ==
  ASSUME NEW v \in Nat
  PROVE  Cardinality(Under(v)) \in Nat
<1>1. IsFiniteSet(Under(v))
  BY RotationAssumption, FS_Subset DEF Under
<1>2. QED
  BY <1>1, FS_CardinalityType

\* A handler's step is its own: it leaves the others' state and has a type.
LEMMA Mine ==
  ASSUME TypeOK, BatchInv, NEW q \in Requests, Handles(q)
  PROVE  \E n \in RunState : run' = [run EXCEPT ![q] = n]
<1>0. run[q] \in RunState /\ run \in [Requests -> RunState]
      /\ row \in [Blobs -> Row \cup {None}] /\ key \in Seq({"active", "retiring", "retired"})
  BY DEF TypeOK
<1>1. ASSUME NEW p \in Phases, Goto(q, p)
      PROVE  \E n \in RunState : run' = [run EXCEPT ![q] = n]
  <2>1. run' = [run EXCEPT ![q] = [run[q] EXCEPT !.phase = p]]
    BY <1>0, <1>1 DEF Goto
  <2>2. QED
    BY <1>0, <2>1, RunTypes
<1>2. End(q) => \E n \in RunState : run' = [run EXCEPT ![q] = n]
  BY <1>0, DoneType DEF End
<1>3. CASE BeginRotate(q) \/ CheckJobs(q) \/ InsertJob(q) \/ Start(q) \/ StartRefused(q)
           \/ NoneLeft(q) \/ Finish(q) \/ Retire(q) \/ Die(q) \/ RotateRefused(q)
           \/ \E r \in BOOLEAN : Rotate(q, r)
  BY <1>1, <1>2, <1>3
     DEF BeginRotate, CheckJobs, InsertJob, Start, StartRefused, NoneLeft, Finish,
         Retire, Die, RotateRefused, Rotate, Phases, Working
<1>4. CASE (\E p \in Requests : ForceRotate(q, p)) \/ CancelSeen(q)
  BY <1>0, <1>4, RunTypes DEF ForceRotate, CancelSeen
<1>5. CASE \E v \in DOMAIN key : LoadFrom(q, v) \/ LoadActive(q, v)
  <2>1. DOMAIN key \subseteq Nat
    BY <1>0
  <2>2. QED
    BY <1>0, <1>5, <2>1, RunTypes DEF LoadFrom, LoadActive
<1>6. CASE CountItems(q)
  <2>1. run[q].from \in Nat
    BY <1>0 DEF RunState
  <2>2. QED
    BY <1>0, <1>6, <2>1, RunTypes, UnderFinite DEF CountItems
<1>7. CASE (\E bs \in SUBSET Blobs : SelectBatch(q, bs)) \/ CommitBatch(q)
  <2>1. ASSUME NEW bs \in SUBSET Blobs, SelectBatch(q, bs) PROVE Loaded(bs) \in SUBSET Item
    <3>1. \A b \in bs : row[b] \in Row
      BY <1>0, <2>1 DEF SelectBatch, Under
    <3>2. QED
      BY <3>1 DEF Loaded, Item, Row
  <2>2. QED
    BY <1>0, <1>7, <2>1, RunTypes DEF SelectBatch, CommitBatch
<1>8. ASSUME NEW i \in run[q].todo,
             ReencryptInline(q, i) \/ Decrypt(q, i) \/ DecryptFails(q, i)
      PROVE  \E n \in RunState : run' = [run EXCEPT ![q] = n]
  <2>1. i \in Item
    BY <1>0 DEF RunState
  <2>2. \/ run' = [run EXCEPT ![q] = [run[q] EXCEPT !.todo = run[q].todo \ {i},
                                       !.staged = run[q].staged \cup {i.blob},
                                       !.processed = run[q].processed + 1]]
        \/ run' = [run EXCEPT ![q] = [run[q] EXCEPT !.phase = "write",
                                       !.todo = run[q].todo \ {i}, !.item = i]]
        \/ run' = [run EXCEPT ![q] = [run[q] EXCEPT !.todo = run[q].todo \ {i},
                                       !.failed = TRUE]]
    BY <1>0, <1>8 DEF ReencryptInline, Decrypt, DecryptFails
  <2>3. /\ [run[q] EXCEPT !.todo = run[q].todo \ {i}, !.staged = run[q].staged \cup {i.blob},
                        !.processed = run[q].processed + 1] \in RunState
        /\ [run[q] EXCEPT !.phase = "write", !.todo = run[q].todo \ {i}, !.item = i] \in RunState
        /\ [run[q] EXCEPT !.todo = run[q].todo \ {i}, !.failed = TRUE] \in RunState
    BY <1>0, <2>1, ItemTypes
  <2>4. QED
    BY <2>2, <2>3
<1>9. CASE Reencrypt(q) \/ WriteFails(q)
  <2>1. run[q].item \in Item
    BY <1>9 DEF BatchInv, Reencrypt, WriteFails
  <2>2. \/ run' = [run EXCEPT ![q] = [run[q] EXCEPT !.phase = "batch", !.item = None,
                                       !.staged = run[q].staged \cup {run[q].item.blob},
                                       !.processed = run[q].processed + 1]]
        \/ run' = [run EXCEPT ![q] = [run[q] EXCEPT !.phase = "batch", !.item = None,
                                       !.failed = TRUE]]
    BY <1>0, <1>9 DEF Reencrypt, WriteFails
  <2>3. /\ [run[q] EXCEPT !.phase = "batch", !.item = None,
                        !.staged = run[q].staged \cup {run[q].item.blob},
                        !.processed = run[q].processed + 1] \in RunState
        /\ [run[q] EXCEPT !.phase = "batch", !.item = None, !.failed = TRUE] \in RunState
    BY <1>0, <2>1, ItemTypes
  <2>4. QED
    BY <2>2, <2>3
<1>10. QED
  BY <1>3, <1>4, <1>5, <1>6, <1>7, <1>8, <1>9 DEF Handles, Advance

\* A handler under way with its job keeps its keys until it ends.
LEMMA KeepsKeys ==
  ASSUME TypeOK, BatchInv, NEW q \in Requests,
         \/ CheckJobs(q) \/ InsertJob(q) \/ Start(q) \/ StartRefused(q) \/ CountItems(q)
         \/ (\E bs \in SUBSET Blobs : SelectBatch(q, bs)) \/ NoneLeft(q)
         \/ (\E i \in run[q].todo : ReencryptInline(q, i) \/ Decrypt(q, i)
                                    \/ DecryptFails(q, i))
         \/ Reencrypt(q) \/ WriteFails(q) \/ CommitBatch(q) \/ Finish(q) \/ Retire(q)
  PROVE  /\ run[q].phase \in Rotated
         /\ \/ run'[q].phase = "done"
            \/ /\ run'[q].phase \in Rotated \ {"check"}
               /\ run'[q].from = run[q].from /\ run'[q].to = run[q].to
<1>1. run[q] \in RunState /\ run \in [Requests -> RunState]
  BY DEF TypeOK
<1>2. ASSUME NEW p \in Rotated \ {"check"}, run[q].phase \in Rotated, Goto(q, p)
      PROVE  /\ run'[q].phase = p
             /\ run'[q].from = run[q].from /\ run'[q].to = run[q].to
  BY <1>1, <1>2 DEF Goto, RunState
<1>3. End(q) => run'[q].phase = "done"
  BY <1>1 DEF End, Done, New
<1>4. CASE CheckJobs(q) \/ InsertJob(q) \/ Start(q) \/ StartRefused(q)
           \/ NoneLeft(q) \/ Finish(q) \/ Retire(q)
  <2>1. run[q].phase \in Rotated
    BY <1>4 DEF CheckJobs, InsertJob, Start, StartRefused, NoneLeft, Finish, Retire,
                Rotated, Working
  <2>2. End(q) \/ \E p \in Rotated \ {"check"} : Goto(q, p)
    BY <1>4 DEF CheckJobs, InsertJob, Start, StartRefused, NoneLeft, Finish, Retire,
                Rotated, Working
  <2>3. QED
    BY <1>2, <1>3, <2>1, <2>2
<1>5. CASE CountItems(q)
  BY <1>1, <1>5 DEF CountItems, RunState, Rotated, Working
<1>6. CASE \E bs \in SUBSET Blobs : SelectBatch(q, bs)
  <2>1. PICK bs \in SUBSET Blobs : SelectBatch(q, bs)
    BY <1>6
  <2>2. run' = [run EXCEPT ![q] = [run[q] EXCEPT !.phase = "batch", !.todo = Loaded(bs)]]
        /\ run[q].phase = "select"
    BY <2>1 DEF SelectBatch
  <2>3. QED
    BY <1>1, <2>2 DEF RunState, Rotated, Working
<1>7. CASE CommitBatch(q)
  BY <1>1, <1>7 DEF CommitBatch, RunState, Rotated, Working
<1>8. CASE Reencrypt(q)
  BY <1>1, <1>8 DEF Reencrypt, RunState, Rotated, Working
<1>9. CASE WriteFails(q)
  BY <1>1, <1>9 DEF WriteFails, RunState, Rotated, Working
<1>10. ASSUME NEW i \in run[q].todo, ReencryptInline(q, i)
       PROVE  /\ run'[q].phase = "batch" /\ run[q].phase = "batch"
              /\ run'[q].from = run[q].from /\ run'[q].to = run[q].to
  BY <1>1, <1>10 DEF ReencryptInline, RunState
<1>11. ASSUME NEW i \in run[q].todo, Decrypt(q, i)
       PROVE  /\ run'[q].phase \in {"batch", "write"} /\ run[q].phase = "batch"
              /\ run'[q].from = run[q].from /\ run'[q].to = run[q].to
  BY <1>1, <1>11 DEF Decrypt, RunState
<1>12. ASSUME NEW i \in run[q].todo, DecryptFails(q, i)
       PROVE  /\ run'[q].phase = "batch" /\ run[q].phase = "batch"
              /\ run'[q].from = run[q].from /\ run'[q].to = run[q].to
  BY <1>1, <1>12 DEF DecryptFails, RunState
<1>13. QED
  BY <1>4, <1>5, <1>6, <1>7, <1>8, <1>9, <1>10, <1>11, <1>12 DEF Rotated, Working

\* A handler that has not rotated yet, or is struck down.
LEMMA Before ==
  ASSUME TypeOK, NEW q \in Requests,
         \/ BeginRotate(q) \/ (\E p \in Requests : ForceRotate(q, p)) \/ CancelSeen(q)
         \/ RotateRefused(q) \/ Die(q)
  PROVE  run'[q].phase \in {"cancel", "from", "done"} /\ key' = key
<1>1. run[q] \in RunState /\ run \in [Requests -> RunState]
  BY DEF TypeOK
<1>2. CASE BeginRotate(q) \/ RotateRefused(q) \/ Die(q)
  BY <1>1, <1>2 DEF BeginRotate, RotateRefused, Die, Goto, End, Done, New, RunState
<1>3. ASSUME NEW p \in Requests, ForceRotate(q, p)
      PROVE  run'[q].phase = "cancel" /\ key' = key
  BY <1>1, <1>3 DEF ForceRotate, RunState
<1>4. CASE CancelSeen(q)
  BY <1>1, <1>4 DEF CancelSeen, RunState
<1>5. QED
  BY <1>2, <1>3, <1>4

LEMMA RowTypes ==
  ASSUME TypeOK, NEW b \in Blobs, row[b] # None
  PROVE  row[b] \in Row /\ row[b].key \in Versions
  BY DEF TypeOK, Row

LEMMA NextSplit ==
  ASSUME [Next]_vars
  PROVE  \/ \E q \in Requests : Handles(q)
         \/ \E p \in Requests, status \in InProgress \cup Over : CommitJob(p, status)
         \/ \E b \in Blobs : (\E v \in DOMAIN key : LoadStoreKey(b, v))
                             \/ WriteFile(b) \/ StoreBlob(b)
         \/ UNCHANGED vars
  BY DEF Next, Handles

-----------------------------------------------------------------------------
\* The new version is one more than those there were, and the only active one.
LEMMA RotatedKeys ==
  ASSUME TypeOK, KeysInv, NEW q \in Requests, NEW r \in BOOLEAN, Rotate(q, r)
  PROVE  /\ Len(key') = Len(key) + 1
         /\ \A v \in 1..Len(key) :
              key'[v] = IF v = Len(key) THEN "retiring" ELSE key[v]
         /\ key'[Len(key) + 1] = "active"
         /\ key' \in Seq({"active", "retiring", "retired"})
<1> DEFINE k == [key EXCEPT ![Len(key)] = "retiring"]
<1>1. key \in Seq({"active", "retiring", "retired"}) /\ Len(key) \in Nat /\ Len(key) >= 1
  BY DEF TypeOK, KeysInv
<1>2. k \in Seq({"active", "retiring", "retired"}) /\ Len(k) = Len(key)
  BY <1>1
<1>3. run[q].to - 1 = Len(key)
  BY <1>1 DEF Rotate
<1>4. key' = Append(k, "active")
  BY <1>3 DEF Rotate
<1>5. \A v \in 1..Len(key) : k[v] = IF v = Len(key) THEN "retiring" ELSE key[v]
  BY <1>1
<1> HIDE DEF k
<1>6. QED
  BY <1>1, <1>2, <1>4, <1>5

LEMMA RetiredKeys ==
  ASSUME TypeOK, KeysInv, NEW q \in Requests, Retire(q)
  PROVE  /\ Len(key') = Len(key)
         /\ \A v \in 1..Len(key) :
              key'[v] = IF v = run[q].from THEN "retired" ELSE key[v]
         /\ run[q].from \in 1..Len(key) /\ run[q].from < Len(key)
         /\ key' \in Seq({"active", "retiring", "retired"})
<1>1. key \in Seq({"active", "retiring", "retired"}) /\ Len(key) \in Nat
  BY DEF TypeOK
<1>2. run[q].from \in 1..Len(key) /\ run[q].from < run[q].to /\ run[q].to <= Len(key)
  BY DEF KeysInv, Retire, Rotated, Working
<1>3. run[q].to \in Nat
  BY DEF TypeOK, RunState
<1>4. QED
  BY <1>1, <1>2, <1>3 DEF Retire

LEMMA ActiveIsNewest ==
  ASSUME TypeOK, KeysInv, NEW v \in DOMAIN key, IsActive(v)
  PROVE  v = Len(key) /\ v \in 1..Len(key) /\ v \in Nat
  BY DEF TypeOK, KeysInv, NewestActive, IsActive

LEMMA NextKeys == TypeOK /\ KeysInv /\ BatchInv /\ [Next]_vars => KeysInv'
<1> SUFFICES ASSUME TypeOK, KeysInv, BatchInv, [Next]_vars PROVE KeysInv'
  OBVIOUS
<1>0. /\ key \in Seq({"active", "retiring", "retired"}) /\ Len(key) \in Nat
      /\ DOMAIN key = 1..Len(key)
      /\ run \in [Requests -> RunState] /\ store \in [Blobs -> StoreState]
      /\ row \in [Blobs -> Row \cup {None}]
  BY DEF TypeOK
<1>1. \A p \in Requests : run[p].from \in Nat /\ run[p].to \in Nat
  BY <1>0 DEF RunState
<1>2. ASSUME NEW q \in Requests, Handles(q) PROVE KeysInv'
  <2>0. \A p \in Requests \ {q} : run'[p] = run[p]
    BY <1>0, <1>2, Mine
  <2>1. ASSUME key' = key, run'[q].phase \notin {"active", "rotate"} \cup Rotated,
               row' = row, store' = store
        PROVE  KeysInv'
    BY <2>0, <2>1 DEF KeysInv, NewestActive
  <2>2. CASE BeginRotate(q) \/ (\E p \in Requests : ForceRotate(q, p)) \/ CancelSeen(q)
             \/ RotateRefused(q) \/ Die(q)
    BY <2>1, <2>2, Before
       DEF BeginRotate, ForceRotate, CancelSeen, RotateRefused, Die, Rotated, Working
  <2>3. ASSUME NEW v \in DOMAIN key, LoadFrom(q, v) PROVE KeysInv'
    <3>1. v \in 1..Len(key)
      BY <2>3, ActiveIsNewest DEF LoadFrom
    <3>2. run'[q].phase = "active" /\ run'[q].from = v
      BY <1>0, <2>3 DEF LoadFrom, RunState
    <3>3. QED
      BY <2>0, <2>3, <3>1, <3>2 DEF KeysInv, NewestActive, LoadFrom, Rotated, Working
  <2>4. ASSUME NEW v \in DOMAIN key, LoadActive(q, v) PROVE KeysInv'
    <3>1. v = Len(key)
      BY <2>4, ActiveIsNewest DEF LoadActive
    <3>2. run'[q].phase = "rotate" /\ run'[q].from = run[q].from /\ run'[q].to = v + 1
      BY <1>0, <2>4 DEF LoadActive, RunState
    <3>3. run[q].from \in 1..Len(key)
      BY <2>4 DEF KeysInv, LoadActive
    <3>4. run'[q].from < run'[q].to /\ run'[q].to <= Len(key) + 1
      BY <1>0, <3>1, <3>2, <3>3
    <3>5. QED
      BY <2>0, <2>4, <3>2, <3>3, <3>4
         DEF KeysInv, NewestActive, LoadActive, Rotated, Working
  <2>5. ASSUME NEW r \in BOOLEAN, Rotate(q, r) PROVE KeysInv'
    <3>0. /\ Len(key') = Len(key) + 1 /\ Len(key') \in Nat /\ Len(key) >= 1
          /\ DOMAIN key' = 1..Len(key')
      BY <2>5, RotatedKeys DEF KeysInv
    <3>1. /\ Len(key') = Len(key) + 1 /\ DOMAIN key' = 1..Len(key')
          /\ \A v \in 1..Len(key) :
               key'[v] = IF v = Len(key) THEN "retiring" ELSE key[v]
          /\ key'[Len(key) + 1] = "active"
      BY <2>5, RotatedKeys
    <3>2. NewestActive'
      <4>1. ASSUME NEW v \in 1..Len(key) PROVE key'[v] # "active" /\ v # Len(key')
        BY <1>0, <3>1, <4>1 DEF KeysInv, NewestActive
      <4>2. \A v \in 1..Len(key') : v \in 1..Len(key) \/ v = Len(key) + 1
        BY <1>0, <3>0
      <4>3. QED
        BY <3>1, <4>1, <4>2 DEF NewestActive
    <3>3. /\ run'[q].phase \in {"check", "done"}
          /\ run'[q].phase = "check" =>
               run'[q].from = run[q].from /\ run'[q].to = run[q].to
          /\ run[q].phase = "rotate" /\ run[q].to = Len(key) + 1
      BY <1>0, <2>5 DEF Rotate, Goto, End, Done, New, RunState
    <3>4. row' = row /\ store' = store
      BY <2>5 DEF Rotate
    <3>5. \A p \in Requests : run'[p].phase \in {"active", "rotate"} \cup Rotated =>
            run'[p].from \in 1..Len(key')
      <4>1. run[q].from \in 1..Len(key)
        BY <3>3 DEF KeysInv
      <4>2. ASSUME NEW p \in Requests,
                   run'[p].phase \in {"active", "rotate"} \cup Rotated
            PROVE  run'[p].from \in 1..Len(key)
        BY <2>0, <3>3, <4>1, <4>2 DEF KeysInv, Rotated, Working
      <4>3. QED
        <5>1. 1..Len(key) \subseteq 1..Len(key')
          BY <1>0, <3>0
        <5>2. QED
          BY <4>2, <5>1
    <3>6. \A p \in Requests :
            /\ run'[p].phase \in {"rotate"} \cup Rotated => run'[p].from < run'[p].to
            /\ run'[p].phase = "rotate" => run'[p].to <= Len(key') + 1
            /\ run'[p].phase \in Rotated => run'[p].to <= Len(key')
      <4>1. ASSUME NEW p \in Requests, p # q
            PROVE  /\ run[p].phase \in {"rotate"} \cup Rotated => run[p].from < run[p].to
                   /\ run[p].phase = "rotate" => run[p].to <= Len(key')  + 1
                   /\ run[p].phase \in Rotated => run[p].to <= Len(key')
        <5>1. /\ run[p].phase \in {"rotate"} \cup Rotated => run[p].from < run[p].to
              /\ run[p].phase = "rotate" => run[p].to <= Len(key) + 1
              /\ run[p].phase \in Rotated => run[p].to <= Len(key)
          BY DEF KeysInv
        <5>2. QED
          BY <1>0, <1>1, <3>0, <5>1
      <4>2. run[q].from < run[q].to
        BY <3>3 DEF KeysInv
      <4>3. "done" \notin {"rotate"} \cup Rotated /\ "check" # "rotate"
        BY DEF Rotated, Working
      <4>4. run'[q].phase = "check" => run'[q].from < run'[q].to /\ run'[q].to <= Len(key')
        BY <1>1, <3>0, <3>3, <4>2
      <4>5. QED
        BY <2>0, <3>3, <4>1, <4>3, <4>4
    <3>7. \A b \in Blobs :
            /\ row[b] # None => row[b].key <= Len(key')
            /\ store[b].phase \in {"keyed", "written"} => store[b].key \in 1..Len(key')
      <4>1. ASSUME NEW b \in Blobs
            PROVE  /\ row[b] # None => row[b].key <= Len(key) /\ row[b].key \in Nat
                   /\ store[b].phase \in {"keyed", "written"} => store[b].key \in 1..Len(key)
        BY RowTypes DEF KeysInv, Versions
      <4>2. QED
        BY <1>0, <3>0, <4>1
    <3>8. QED
      <4>1. Len(key') >= 1
        BY <1>0, <3>0
      <4>2. QED
        BY <3>2, <3>4, <3>5, <3>6, <3>7, <4>1 DEF KeysInv
  <2>6. CASE Retire(q)
    <3>1. /\ Len(key') = Len(key) /\ DOMAIN key' = 1..Len(key')
          /\ \A v \in 1..Len(key) :
               key'[v] = IF v = run[q].from THEN "retired" ELSE key[v]
          /\ run[q].from < Len(key)
      BY <2>6, RetiredKeys
    <3>2. NewestActive'
      BY <1>0, <1>1, <3>1 DEF KeysInv, NewestActive
    <3>3. run'[q].phase = "done" /\ row' = row /\ store' = store
      BY <1>0, <2>6 DEF Retire, End, Done, New
    <3>4. QED
      BY <2>0, <3>1, <3>2, <3>3 DEF KeysInv, Rotated, Working
  <2>7. CASE \/ CheckJobs(q) \/ InsertJob(q) \/ Start(q) \/ StartRefused(q) \/ CountItems(q)
             \/ (\E bs \in SUBSET Blobs : SelectBatch(q, bs)) \/ NoneLeft(q)
             \/ (\E i \in run[q].todo : ReencryptInline(q, i) \/ Decrypt(q, i)
                                        \/ DecryptFails(q, i))
             \/ Reencrypt(q) \/ WriteFails(q) \/ CommitBatch(q) \/ Finish(q)
    <3>1. /\ run[q].phase \in Rotated
          /\ \/ run'[q].phase = "done"
             \/ /\ run'[q].phase \in Rotated
                /\ run'[q].from = run[q].from /\ run'[q].to = run[q].to
      BY <2>7, KeepsKeys
    <3>2. key' = key /\ store' = store
      BY <2>7 DEF CheckJobs, InsertJob, Start, StartRefused, CountItems, SelectBatch,
                  NoneLeft, ReencryptInline, Decrypt, DecryptFails, Reencrypt, WriteFails,
                  CommitBatch, Finish
    <3>3. row' = row \/ (run[q].phase = "batch" /\ row' = Described(q))
      BY <2>7 DEF CheckJobs, InsertJob, Start, StartRefused, CountItems, SelectBatch,
                  NoneLeft, ReencryptInline, Decrypt, DecryptFails, Reencrypt, WriteFails,
                  CommitBatch, Finish
    <3>4. \A b \in Blobs : row'[b] # None => row'[b].key <= Len(key)
      BY <1>0, <3>1, <3>3 DEF KeysInv, Described
    <3>5. \A p \in Requests :
            /\ run'[p].phase \in {"active", "rotate"} \cup Rotated =>
                 run'[p].from \in 1..Len(key)
            /\ run'[p].phase \in {"rotate"} \cup Rotated => run'[p].from < run'[p].to
            /\ run'[p].phase = "rotate" => run'[p].to <= Len(key) + 1
            /\ run'[p].phase \in Rotated => run'[p].to <= Len(key)
      BY <2>0, <3>1 DEF KeysInv, Rotated, Working
    <3>6. QED
      BY <3>2, <3>4, <3>5 DEF KeysInv, NewestActive
  <2>8. QED
    BY <1>2, <2>2, <2>3, <2>4, <2>5, <2>6, <2>7 DEF Handles, Advance
<1>3. CASE \E p \in Requests, status \in InProgress \cup Over : CommitJob(p, status)
  BY <1>3 DEF CommitJob, KeysInv, NewestActive
<1>4. ASSUME NEW b \in Blobs, (\E v \in DOMAIN key : LoadStoreKey(b, v))
                              \/ WriteFile(b) \/ StoreBlob(b)
      PROVE  KeysInv'
  <2>1. key' = key /\ run' = run
    BY <1>4 DEF LoadStoreKey, WriteFile, StoreBlob
  <2>2. ASSUME NEW v \in DOMAIN key, LoadStoreKey(b, v) PROVE KeysInv'
    BY <1>0, <2>1, <2>2, ActiveIsNewest DEF LoadStoreKey, KeysInv, NewestActive
  <2>3. CASE WriteFile(b)
    <3>1. \A c \in Blobs : store'[c].phase \in {"keyed", "written"} =>
            store[c].phase \in {"keyed", "written"} /\ store'[c].key = store[c].key
      BY <1>0, <2>3 DEF WriteFile, StoreState
    <3>2. QED
      BY <2>1, <2>3, <3>1 DEF WriteFile, KeysInv, NewestActive
  <2>4. CASE StoreBlob(b)
    <3>1. \A c \in Blobs : store'[c].phase \in {"keyed", "written"} => store'[c] = store[c]
      BY <1>0, <2>4 DEF StoreBlob, StoreState
    <3>2. store[b].key <= Len(key)
      BY <1>0, <2>4 DEF StoreBlob, KeysInv
    <3>3. \A c \in Blobs : row'[c] # None => row'[c].key <= Len(key)
      BY <1>0, <2>4, <3>2 DEF StoreBlob, KeysInv
    <3>4. QED
      BY <2>1, <3>1, <3>3 DEF KeysInv, NewestActive
  <2>5. QED
    BY <1>4, <2>2, <2>3, <2>4
<1>5. CASE UNCHANGED vars
  BY <1>5 DEF vars, KeysInv, NewestActive
<1>6. QED
  BY <1>2, <1>3, <1>4, <1>5, NextSplit

-----------------------------------------------------------------------------
\* What a step makes of the batch a handler holds.
LEMMA BatchMoves ==
  ASSUME TypeOK, BatchInv, NEW q \in Requests, Handles(q)
  PROVE  /\ run'[q].phase \notin {"batch", "write"} => run'[q].staged = {}
         /\ run'[q].phase = "write" =>
              run'[q].item \in run[q].todo /\ run'[q].item.blob \in FileBlobs
         /\ \A i \in run'[q].todo : i \in run[q].todo \/ (i.blob \in Blobs /\ row[i.blob] # None)
         /\ \A b \in run'[q].staged :
              \/ b \in run[q].staged
              \/ \E i \in run[q].todo : b = i.blob
              \/ run[q].phase = "write" /\ b = run[q].item.blob
<1>0. run[q] \in RunState /\ run \in [Requests -> RunState]
  BY DEF TypeOK
<1>1. run[q].phase \notin {"batch", "write"} => run[q].staged = {}
  BY DEF BatchInv
<1>2. ASSUME NEW p \in Phases \ {"batch", "write"}, Goto(q, p),
             run[q].phase \notin {"batch", "write"}
      PROVE  run'[q].phase = p /\ run'[q].staged = {} /\ run'[q].todo = run[q].todo
  BY <1>0, <1>1, <1>2 DEF Goto, RunState
<1>3. End(q) => run'[q].phase = "done" /\ run'[q].staged = {} /\ run'[q].todo = {}
  BY <1>0 DEF End, Done, New
<1>4. CASE BeginRotate(q) \/ CheckJobs(q) \/ InsertJob(q) \/ Start(q) \/ StartRefused(q)
           \/ NoneLeft(q) \/ Finish(q) \/ Retire(q) \/ Die(q) \/ RotateRefused(q)
           \/ \E r \in BOOLEAN : Rotate(q, r)
  <2>1. End(q) \/ \E p \in Phases \ {"batch", "write"} :
                    Goto(q, p) /\ run[q].phase \notin {"batch", "write"}
    BY <1>4 DEF BeginRotate, CheckJobs, InsertJob, Start, StartRefused, NoneLeft, Finish,
                Retire, Die, RotateRefused, Rotate, Phases, Working
  <2>2. QED
    BY <1>2, <1>3, <2>1
<1>5. ASSUME NEW p \in Requests, ForceRotate(q, p)
      PROVE  run'[q].phase = "cancel" /\ run'[q].staged = {} /\ run'[q].todo = run[q].todo
  BY <1>0, <1>1, <1>5 DEF ForceRotate, RunState
<1>6. CASE CancelSeen(q)
  BY <1>0, <1>1, <1>6 DEF CancelSeen, RunState
<1>7. ASSUME NEW v \in DOMAIN key, LoadFrom(q, v)
      PROVE  run'[q].phase = "active" /\ run'[q].staged = {} /\ run'[q].todo = run[q].todo
  BY <1>0, <1>1, <1>7 DEF LoadFrom, RunState
<1>8. ASSUME NEW v \in DOMAIN key, LoadActive(q, v)
      PROVE  run'[q].phase = "rotate" /\ run'[q].staged = {} /\ run'[q].todo = run[q].todo
  BY <1>0, <1>1, <1>8 DEF LoadActive, RunState
<1>9. CASE CountItems(q)
  BY <1>0, <1>1, <1>9 DEF CountItems, RunState
<1>10. ASSUME NEW bs \in SUBSET Blobs, SelectBatch(q, bs)
       PROVE  /\ run'[q].phase = "batch" /\ run'[q].staged = {}
              /\ \A i \in run'[q].todo : i.blob \in Blobs /\ row[i.blob] # None
  <2>1. run' = [run EXCEPT ![q] = [run[q] EXCEPT !.phase = "batch", !.todo = Loaded(bs)]]
        /\ run[q].phase = "select"
    BY <1>10 DEF SelectBatch
  <2>2. run'[q].phase = "batch" /\ run'[q].staged = {} /\ run'[q].todo = Loaded(bs)
    BY <1>0, <1>1, <2>1 DEF RunState
  <2>3. \A b \in bs : b \in Blobs /\ row[b] # None
    BY <1>10 DEF SelectBatch, Under
  <2>4. QED
    BY <2>2, <2>3 DEF Loaded
<1>11. CASE CommitBatch(q)
  BY <1>0, <1>11 DEF CommitBatch, RunState
<1>12. ASSUME NEW i \in run[q].todo, ReencryptInline(q, i)
       PROVE  /\ run'[q].phase = "batch" /\ run'[q].todo = run[q].todo \ {i}
              /\ run'[q].staged = run[q].staged \cup {i.blob}
  BY <1>0, <1>12 DEF ReencryptInline, RunState
<1>13. ASSUME NEW i \in run[q].todo, Decrypt(q, i)
       PROVE  /\ run'[q].phase = "batch" \/ (run'[q].phase = "write" /\ run'[q].item = i)
              /\ i.blob \in FileBlobs
              /\ run'[q].todo = run[q].todo \ {i} /\ run'[q].staged = run[q].staged
  BY <1>0, <1>13 DEF Decrypt, RunState
<1>14. ASSUME NEW i \in run[q].todo, DecryptFails(q, i)
       PROVE  /\ run'[q].phase = "batch" /\ run'[q].todo = run[q].todo \ {i}
              /\ run'[q].staged = run[q].staged
  BY <1>0, <1>14 DEF DecryptFails, RunState
<1>15. CASE Reencrypt(q)
  BY <1>0, <1>15 DEF Reencrypt, RunState
<1>16. CASE WriteFails(q)
  BY <1>0, <1>16 DEF WriteFails, RunState
<1>17. ASSUME Advance(q) PROVE
         \/ CancelSeen(q) \/ CountItems(q) \/ CommitBatch(q) \/ Reencrypt(q) \/ WriteFails(q)
         \/ \E v \in DOMAIN key : LoadFrom(q, v) \/ LoadActive(q, v)
         \/ \E bs \in SUBSET Blobs : SelectBatch(q, bs)
         \/ \E i \in run[q].todo : ReencryptInline(q, i) \/ Decrypt(q, i) \/ DecryptFails(q, i)
         \/ CheckJobs(q) \/ InsertJob(q) \/ Start(q) \/ StartRefused(q)
         \/ NoneLeft(q) \/ Finish(q) \/ Retire(q) \/ RotateRefused(q)
         \/ \E r \in BOOLEAN : Rotate(q, r)
  BY <1>17 DEF Advance
<1>18. QED
  BY <1>4, <1>5, <1>6, <1>7, <1>8, <1>9, <1>10, <1>11, <1>12, <1>13, <1>14, <1>15, <1>16,
     <1>17 DEF Handles

\* What a handler's step leaves alone.
LEMMA HandlerFrame ==
  ASSUME NEW q \in Requests, Handles(q)
  PROVE  /\ store' = store /\ late' = late
         /\ row' = row \/ CommitBatch(q)
         /\ file' = file \/ Reencrypt(q) \/ WriteFails(q)
         /\ crossed' = crossed \/ Start(q)
         /\ spoiled' = spoiled \/ Die(q) \/ WriteFails(q)
         /\ key' = key \/ Retire(q) \/ \E r \in BOOLEAN : Rotate(q, r)
         /\ job' = job \/ \E p : \E s \in JobStatus : Become(p, s)
         /\ faults' = faults \/ Fault
<1>1. CASE BeginRotate(q) \/ (\E p \in Requests : ForceRotate(q, p)) \/ Die(q) \/ CancelSeen(q)
           \/ (\E v \in DOMAIN key : LoadFrom(q, v) \/ LoadActive(q, v))
           \/ RotateRefused(q) \/ CheckJobs(q) \/ InsertJob(q) \/ Start(q)
           \/ StartRefused(q) \/ CountItems(q)
  BY <1>1 DEF BeginRotate, ForceRotate, Die, CancelSeen, LoadFrom, LoadActive,
              RotateRefused, CheckJobs, InsertJob, Start, StartRefused, CountItems,
              JobStatus, InProgress, Over
<1>2. CASE (\E r \in BOOLEAN : Rotate(q, r)) \/ (\E bs \in SUBSET Blobs : SelectBatch(q, bs))
           \/ NoneLeft(q) \/ Reencrypt(q) \/ WriteFails(q) \/ CommitBatch(q)
           \/ Finish(q) \/ Retire(q)
  BY <1>2 DEF Rotate, SelectBatch, NoneLeft, Reencrypt, WriteFails, CommitBatch, Finish,
              Retire, JobStatus, Over
<1>3. CASE \E i \in run[q].todo : ReencryptInline(q, i) \/ Decrypt(q, i)
                                    \/ DecryptFails(q, i)
  BY <1>3 DEF ReencryptInline, Decrypt, DecryptFails
<1>4. QED
  BY <1>1, <1>2, <1>3 DEF Handles, Advance

LEMMA Others ==
  ASSUME TypeOK, BatchInv, NEW q \in Requests, Handles(q)
  PROVE  /\ \A p \in Requests \ {q} : run'[p] = run[p]
         /\ run' \in [Requests -> RunState]
<1>1. run \in [Requests -> RunState]
  BY DEF TypeOK
<1>2. QED
  BY <1>1, Mine

\* A request that stores a blob goes from one phase to the next.
LEMMA StoreMoves ==
  ASSUME TypeOK, NEW b \in Blobs,
         (\E v \in DOMAIN key : LoadStoreKey(b, v)) \/ WriteFile(b) \/ StoreBlob(b)
  PROVE  /\ store[b].phase # "done" /\ run' = run /\ key' = key
         /\ crossed' = crossed /\ spoiled' = spoiled
         /\ \A c \in Blobs \ {b} : store'[c] = store[c] /\ row'[c] = row[c]
         /\ \A c \in FileBlobs \ {b} : file'[c] = file[c]
         /\ \/ /\ store'[b].phase = "keyed" /\ row' = row /\ file' = file /\ late' = late
            \/ /\ WriteFile(b) /\ store'[b].phase = "written"
               /\ row' = row /\ late' = late
               /\ b \in FileBlobs /\ file'[b] = Original
            \/ /\ StoreBlob(b) /\ store'[b].phase = "done" /\ file' = file
               /\ row'[b] = [key |-> store[b].key, env |-> Original]
<1>1. /\ store \in [Blobs -> StoreState] /\ row \in [Blobs -> Row \cup {None}]
      /\ file \in [FileBlobs -> Envelopes \cup {Garbage, None}]
  BY DEF TypeOK
<1>2. ASSUME NEW v \in DOMAIN key, LoadStoreKey(b, v)
      PROVE  /\ store[b].phase = "new" /\ store'[b].phase = "keyed"
             /\ \A c \in Blobs \ {b} : store'[c] = store[c]
  BY <1>1, <1>2 DEF LoadStoreKey
<1>3. CASE WriteFile(b)
  BY <1>1, <1>3 DEF WriteFile, StoreState
<1>4. CASE StoreBlob(b)
  BY <1>1, <1>4 DEF StoreBlob, StoreState
<1>5. QED
  BY <1>2, <1>3, <1>4 DEF LoadStoreKey

LEMMA NextBatch == TypeOK /\ BatchInv /\ [Next]_vars => BatchInv'
<1> SUFFICES ASSUME TypeOK, BatchInv, [Next]_vars PROVE BatchInv'
  OBVIOUS
<1>0. /\ run \in [Requests -> RunState] /\ store \in [Blobs -> StoreState]
      /\ file \in [FileBlobs -> Envelopes \cup {Garbage, None}]
  BY DEF TypeOK
<1>a. \A q \in Requests : /\ run[q].todo \subseteq Item /\ run[q].staged \subseteq Blobs
  BY <1>0 DEF RunState
<1>1. ASSUME NEW q \in Requests, Handles(q) PROVE BatchInv'
  <2>1. store' = store
    BY <1>1, HandlerFrame
  <2>2. \A p \in Requests \ {q} : run'[p] = run[p]
    BY <1>1, Others
  <2>3. ASSUME NEW b \in Blobs, store[b].phase # "done" PROVE row'[b] = None
    <3>1. row[b] = None /\ b \notin run[q].staged
      BY <2>3 DEF BatchInv
    <3>2. row' = row \/ row' = Described(q)
      BY <1>1, HandlerFrame DEF CommitBatch
    <3>3. Described(q)[b] = row[b]
      BY <3>1 DEF Described
    <3>4. QED
      BY <3>1, <3>2, <3>3
  <2>4. ASSUME NEW b \in FileBlobs, store[b].phase = "written" PROVE file'[b] = Original
    <3>1. file[b] = Original /\ b \in Blobs
      BY <2>4 DEF BatchInv, Blobs
    <3>2. Reencrypt(q) \/ WriteFails(q) => run[q].item.blob # b
      BY <2>4 DEF BatchInv, Reencrypt, WriteFails
    <3>3. QED
      BY <1>0, <1>1, <3>1, <3>2, HandlerFrame DEF Reencrypt, WriteFails
  <2>5. /\ run'[q].phase \notin {"batch", "write"} => run'[q].staged = {}
        /\ run'[q].phase = "write" => /\ run'[q].item \in Item
                                      /\ run'[q].item.blob \in FileBlobs
                                      /\ store[run'[q].item.blob].phase = "done"
        /\ \A i \in run'[q].todo : store[i.blob].phase = "done"
        /\ \A b \in run'[q].staged : store[b].phase = "done"
    <3>1. \A i \in run[q].todo : store[i.blob].phase = "done"
      BY DEF BatchInv
    <3>2. \A b \in Blobs : row[b] # None => store[b].phase = "done"
      BY DEF BatchInv
    <3>3. \A b \in run[q].staged : store[b].phase = "done"
      BY DEF BatchInv
    <3>4. run[q].phase = "write" => store[run[q].item.blob].phase = "done"
      BY DEF BatchInv
    <3>5. /\ run'[q].phase \notin {"batch", "write"} => run'[q].staged = {}
          /\ run'[q].phase = "write" =>
               run'[q].item \in run[q].todo /\ run'[q].item.blob \in FileBlobs
          /\ \A i \in run'[q].todo :
               i \in run[q].todo \/ (i.blob \in Blobs /\ row[i.blob] # None)
          /\ \A b \in run'[q].staged :
               \/ b \in run[q].staged
               \/ \E i \in run[q].todo : b = i.blob
               \/ run[q].phase = "write" /\ b = run[q].item.blob
      BY <1>1, BatchMoves
    <3>6. QED
      BY <1>a, <3>1, <3>2, <3>3, <3>4, <3>5
  <2>6. QED
    BY <2>1, <2>2, <2>3, <2>4, <2>5 DEF BatchInv
<1>2. CASE \E p \in Requests, status \in InProgress \cup Over : CommitJob(p, status)
  BY <1>2 DEF CommitJob, BatchInv
<1>3. ASSUME NEW b \in Blobs, (\E v \in DOMAIN key : LoadStoreKey(b, v))
                              \/ WriteFile(b) \/ StoreBlob(b)
      PROVE  BatchInv'
  <2>1. \A c \in Blobs : store[c].phase = "done" => store'[c].phase = "done"
    BY <1>3, StoreMoves
  <2>2. \A c \in Blobs : store'[c].phase # "done" => row'[c] = None
    <3>1. \A c \in Blobs : store[c].phase # "done" => row[c] = None
      BY DEF BatchInv
    <3>2. /\ store[b].phase # "done"
          /\ \A c \in Blobs \ {b} : store'[c] = store[c] /\ row'[c] = row[c]
          /\ row' = row \/ store'[b].phase = "done"
      BY <1>3, StoreMoves
    <3>3. QED
      BY <3>1, <3>2
  <2>3. \A c \in FileBlobs : store'[c].phase = "written" => file'[c] = Original
    <3>1. \A c \in FileBlobs : c \in Blobs /\ (store[c].phase = "written" => file[c] = Original)
      BY DEF BatchInv, Blobs
    <3>2. /\ \A c \in Blobs \ {b} : store'[c] = store[c]
          /\ \A c \in FileBlobs \ {b} : file'[c] = file[c]
      BY <1>3, StoreMoves
    <3>3. b \in FileBlobs /\ store'[b].phase = "written" => file'[b] = Original
      BY <1>3, StoreMoves
    <3>4. QED
      BY <3>1, <3>2, <3>3
  <2>4. run' = run
    BY <1>3, StoreMoves
  <2>5. \A q \in Requests :
          /\ run[q].phase = "write" => store'[run[q].item.blob].phase = "done"
          /\ \A i \in run[q].todo : store'[i.blob].phase = "done"
          /\ \A c \in run[q].staged : store'[c].phase = "done"
    BY <1>a, <2>1 DEF BatchInv, Item
  <2>6. QED
    BY <2>2, <2>3, <2>4, <2>5 DEF BatchInv
<1>4. CASE UNCHANGED vars
  BY <1>4 DEF vars, BatchInv
<1>5. QED
  BY <1>1, <1>2, <1>3, <1>4, NextSplit

-----------------------------------------------------------------------------
\* How a handler comes to be at work, comes to its end, and stages a file.
LEMMA RunMoves ==
  ASSUME TypeOK, BatchInv, NEW q \in Requests, Handles(q)
  PROVE  /\ run'[q].phase \in Working => Start(q) \/ run[q].phase \in Working
         /\ run'[q].phase \in {"finish", "retire"} => NoneLeft(q) \/ Finish(q)
         /\ \A b \in run'[q].staged \cap FileBlobs :
              b \in run[q].staged \/ (Reencrypt(q) /\ b = run[q].item.blob)
         /\ CommitBatch(q) \/ Die(q) \/ run[q].staged \subseteq run'[q].staged
<1>0. run[q] \in RunState /\ run \in [Requests -> RunState]
  BY DEF TypeOK
<1>1. run[q].phase \notin {"batch", "write"} => run[q].staged = {}
  BY DEF BatchInv
<1>2. run'[q].phase \notin {"batch", "write"} => run'[q].staged = {}
  BY BatchMoves
<1>3. ASSUME NEW p \in Phases, Goto(q, p) PROVE run'[q].phase = p
  BY <1>0, <1>3 DEF Goto, RunState
<1>4. End(q) => run'[q].phase = "done"
  BY <1>0 DEF End, Done, New
<1>5. CASE BeginRotate(q) \/ CheckJobs(q) \/ InsertJob(q) \/ StartRefused(q)
           \/ RotateRefused(q) \/ \E r \in BOOLEAN : Rotate(q, r)
  <2>1. /\ End(q) \/ \E p \in {"from", "insert", "start", "check"} : Goto(q, p)
        /\ run[q].phase \notin {"batch", "write"}
    BY <1>5 DEF BeginRotate, CheckJobs, InsertJob, StartRefused, RotateRefused, Rotate
  <2>2. run'[q].phase \in {"from", "insert", "start", "check", "done"}
    BY <1>3, <1>4, <2>1 DEF Phases
  <2>3. QED
    BY <1>1, <1>2, <2>1, <2>2 DEF Working
<1>6. CASE Die(q) \/ Retire(q)
  BY <1>1, <1>2, <1>4, <1>6 DEF Die, Retire, Working
<1>7. CASE Start(q) \/ NoneLeft(q) \/ Finish(q)
  <2>1. /\ End(q) \/ \E p \in {"count", "finish", "retire"} : Goto(q, p)
        /\ run[q].phase \notin {"batch", "write"}
        /\ Start(q) \/ run[q].phase \in Working
        /\ Start(q) => Goto(q, "count")
    BY <1>7 DEF Start, NoneLeft, Finish, Working
  <2>2. run'[q].phase \in {"count", "finish", "retire", "done"}
        /\ (Start(q) => run'[q].phase = "count")
    BY <1>3, <1>4, <2>1 DEF Phases, Working
  <2>3. QED
    BY <1>1, <1>2, <1>7, <2>1, <2>2
<1>8. ASSUME NEW p \in Requests, ForceRotate(q, p)
      PROVE  run'[q].phase = "cancel" /\ run[q].phase = "new"
  BY <1>0, <1>8 DEF ForceRotate, RunState
<1>9. CASE CancelSeen(q)
  BY <1>0, <1>1, <1>9 DEF CancelSeen, RunState, Working
<1>10. ASSUME NEW v \in DOMAIN key, LoadFrom(q, v) \/ LoadActive(q, v)
       PROVE  run'[q].phase \in {"active", "rotate"} /\ run[q].phase \in {"from", "active"}
  <2>1. CASE LoadFrom(q, v)
    BY <1>0, <2>1 DEF LoadFrom, RunState
  <2>2. CASE LoadActive(q, v)
    BY <1>0, <2>2 DEF LoadActive, RunState
  <2>3. QED
    BY <1>10, <2>1, <2>2
<1>11. CASE CountItems(q)
  BY <1>0, <1>1, <1>11 DEF CountItems, RunState, Working
<1>12. ASSUME NEW bs \in SUBSET Blobs, SelectBatch(q, bs)
       PROVE  run'[q].phase = "batch" /\ run[q].phase = "select" /\ run'[q].staged = {}
  <2>1. run' = [run EXCEPT ![q] = [run[q] EXCEPT !.phase = "batch", !.todo = Loaded(bs)]]
        /\ run[q].phase = "select"
    BY <1>12 DEF SelectBatch
  <2>2. QED
    BY <1>0, <1>1, <2>1 DEF RunState
<1>13. CASE CommitBatch(q)
  BY <1>0, <1>13 DEF CommitBatch, RunState, Working
<1>14. ASSUME NEW i \in run[q].todo, ReencryptInline(q, i)
       PROVE  /\ run'[q].phase = "batch" /\ run[q].phase = "batch"
              /\ run'[q].staged = run[q].staged \cup {i.blob} /\ i.blob \notin FileBlobs
  BY <1>0, <1>14, RotationAssumption DEF ReencryptInline, RunState
<1>15. ASSUME NEW i \in run[q].todo, Decrypt(q, i)
       PROVE  /\ run'[q].phase \in {"batch", "write"} /\ run[q].phase = "batch"
              /\ run'[q].staged = run[q].staged
  BY <1>0, <1>15 DEF Decrypt, RunState
<1>16. ASSUME NEW i \in run[q].todo, DecryptFails(q, i)
       PROVE  /\ run'[q].phase = "batch" /\ run[q].phase = "batch"
              /\ run'[q].staged = run[q].staged
  BY <1>0, <1>16 DEF DecryptFails, RunState
<1>17. CASE Reencrypt(q)
  BY <1>0, <1>17 DEF Reencrypt, RunState, Working
<1>18. CASE WriteFails(q)
  BY <1>0, <1>18 DEF WriteFails, RunState, Working
<1>19. {"batch", "write"} \subseteq Working
       /\ {"cancel", "active", "rotate", "new", "from"} \cap Working = {}
  BY DEF Working
<1>20. CASE \/ \E p \in Requests : ForceRotate(q, p)
            \/ \E v \in DOMAIN key : LoadFrom(q, v) \/ LoadActive(q, v)
  BY <1>1, <1>2, <1>8, <1>10, <1>19, <1>20
<1>21. CASE \E bs \in SUBSET Blobs : SelectBatch(q, bs)
  BY <1>1, <1>12, <1>19, <1>21 DEF Working
<1>22. CASE \E i \in run[q].todo : ReencryptInline(q, i) \/ Decrypt(q, i) \/ DecryptFails(q, i)
  BY <1>14, <1>15, <1>16, <1>19, <1>22
<1>23. QED
  BY <1>5, <1>6, <1>7, <1>9, <1>11, <1>13, <1>17, <1>18, <1>20, <1>21, <1>22
     DEF Handles, Advance

\* Only runners stage blobs.
LEMMA StagingWorks ==
  ASSUME BatchInv, NEW q \in Requests, run[q].staged # {}
  PROVE  run[q].phase \in Working
  BY DEF BatchInv, Working

LEMMA NextType == TypeOK /\ KeysInv /\ BatchInv /\ [Next]_vars => TypeOK'
<1> SUFFICES ASSUME TypeOK, KeysInv, BatchInv, [Next]_vars PROVE TypeOK'
  OBVIOUS
<1>0. /\ key \in Seq({"active", "retiring", "retired"}) /\ Len(key) \in Nat
      /\ DOMAIN key = 1..Len(key)
      /\ row \in [Blobs -> Row \cup {None}]
      /\ file \in [FileBlobs -> Envelopes \cup {Garbage, None}]
      /\ job \in [Requests -> JobStatus] /\ run \in [Requests -> RunState]
      /\ store \in [Blobs -> StoreState] /\ faults \in 0..MaxFaults
      /\ crossed \in BOOLEAN /\ late \subseteq Blobs /\ spoiled \subseteq FileBlobs
  BY DEF TypeOK
<1>1. ASSUME NEW q \in Requests, Handles(q) PROVE TypeOK'
  <2>1. key' \in Seq({"active", "retiring", "retired"})
    BY <1>0, <1>1, HandlerFrame, RotatedKeys, RetiredKeys
  <2>2. row' \in [Blobs -> Row \cup {None}]
    <3>1. ASSUME CommitBatch(q) PROVE [key |-> run[q].to, env |-> q] \in Row
      <4>1. run[q].from \in 1..Len(key) /\ run[q].from < run[q].to
        BY <3>1 DEF KeysInv, CommitBatch, Rotated, Working
      <4>2. run[q].to \in Nat
        BY <1>0 DEF RunState
      <4>3. run[q].to \in Versions
        BY <1>0, <4>1, <4>2 DEF Versions
      <4>4. QED
        BY <4>3 DEF Row, Envelopes
    <3>2. CommitBatch(q) => row' \in [Blobs -> Row \cup {None}]
      BY <1>0, <3>1 DEF CommitBatch, Described
    <3>3. QED
      BY <1>0, <1>1, <3>2, HandlerFrame
  <2>3. file' \in [FileBlobs -> Envelopes \cup {Garbage, None}]
    <3>1. \/ file' = file
          \/ \E b \in FileBlobs, c \in Envelopes \cup {Garbage, None} :
               file' = [file EXCEPT ![b] = c]
      <4>1. Reencrypt(q) \/ WriteFails(q) => run[q].item.blob \in FileBlobs
        BY DEF BatchInv, Reencrypt, WriteFails
      <4>2. q \in Envelopes
        BY DEF Envelopes
      <4>3. Reencrypt(q) => file' = [file EXCEPT ![run[q].item.blob] = q]
        BY DEF Reencrypt
      <4>4. WriteFails(q) => file' = [file EXCEPT ![run[q].item.blob] = Garbage]
        BY DEF WriteFails
      <4>5. file' = file \/ Reencrypt(q) \/ WriteFails(q)
        BY <1>1, HandlerFrame
      <4>6. QED
        BY <4>1, <4>2, <4>3, <4>4, <4>5
    <3>2. QED
      BY <1>0, <3>1
  <2>4. job' \in [Requests -> JobStatus]
    BY <1>0, <1>1, HandlerFrame DEF Become
  <2>5. run' \in [Requests -> RunState]
    BY <1>1, Others
  <2>6. faults' \in 0..MaxFaults
    BY <1>0, <1>1, HandlerFrame, RotationAssumption DEF Fault
  <2>7. crossed' \in BOOLEAN
    BY <1>0, <1>1, HandlerFrame DEF Start
  <2>8. spoiled' \subseteq FileBlobs
    <3>1. WriteFails(q) => run[q].item.blob \in FileBlobs
      BY DEF BatchInv, WriteFails
    <3>2. QED
      BY <1>0, <1>1, <3>1, HandlerFrame DEF Die, WriteFails
  <2>9. store' = store /\ late' = late
    BY <1>1, HandlerFrame
  <2>10. QED
    BY <1>0, <2>1, <2>2, <2>3, <2>4, <2>5, <2>6, <2>7, <2>8, <2>9 DEF TypeOK
<1>2. ASSUME NEW p \in Requests, NEW status \in InProgress \cup Over, CommitJob(p, status)
      PROVE  TypeOK'
  BY <1>0, <1>2 DEF CommitJob, Become, TypeOK, JobStatus
<1>3. ASSUME NEW b \in Blobs, (\E v \in DOMAIN key : LoadStoreKey(b, v))
                              \/ WriteFile(b) \/ StoreBlob(b)
      PROVE  TypeOK'
  <2>1. ASSUME NEW v \in DOMAIN key, LoadStoreKey(b, v) PROVE TypeOK'
    <3>1. [phase |-> "keyed", key |-> v] \in StoreState
      BY <1>0 DEF StoreState
    <3>2. QED
      BY <1>0, <2>1, <3>1 DEF LoadStoreKey, TypeOK
  <2>2. CASE WriteFile(b)
    BY <1>0, <2>2 DEF WriteFile, TypeOK, StoreState, Envelopes
  <2>3. CASE StoreBlob(b)
    <3>1. store[b].key \in 1..Len(key)
      BY <2>3 DEF StoreBlob, KeysInv
    <3>2. [key |-> store[b].key, env |-> Original] \in Row
      BY <1>0, <3>1 DEF Row, Versions, Envelopes
    <3>3. store' \in [Blobs -> StoreState]
      BY <1>0, <2>3 DEF StoreBlob, StoreState
    <3>4. late' \subseteq Blobs
      BY <1>0, <2>3 DEF StoreBlob
    <3>5. QED
      BY <1>0, <2>3, <3>2, <3>3, <3>4 DEF StoreBlob, TypeOK
  <2>4. QED
    BY <1>3, <2>1, <2>2, <2>3
<1>4. CASE UNCHANGED vars
  BY <1>4 DEF vars, TypeOK
<1>5. QED
  BY <1>1, <1>2, <1>3, <1>4, NextSplit

-----------------------------------------------------------------------------
\* A handler at work keeps its keys, which exist.
LEMMA WorkerKeys ==
  ASSUME TypeOK, BatchInv, KeysInv, NEW q \in Requests, Handles(q),
         run'[q].phase \in Working
  PROVE  /\ run'[q].from = run[q].from /\ run'[q].to = run[q].to
         /\ run[q].from \in 1..Len(key) /\ run[q].to \in 1..Len(key)
         /\ run[q].from < run[q].to
<1>1. Start(q) \/ run[q].phase \in Working
  BY RunMoves
<1>2. ~Die(q)
  BY Before DEF Working
<1>3. \/ CheckJobs(q) \/ InsertJob(q) \/ Start(q) \/ StartRefused(q) \/ CountItems(q)
      \/ (\E bs \in SUBSET Blobs : SelectBatch(q, bs)) \/ NoneLeft(q)
      \/ (\E i \in run[q].todo : ReencryptInline(q, i) \/ Decrypt(q, i)
                                 \/ DecryptFails(q, i))
      \/ Reencrypt(q) \/ WriteFails(q) \/ CommitBatch(q) \/ Finish(q) \/ Retire(q)
  BY <1>1, <1>2 DEF Handles, Advance, BeginRotate, ForceRotate, CancelSeen, LoadFrom,
                    LoadActive, Rotate, RotateRefused, Working
<1>4. /\ run[q].phase \in Rotated
      /\ run'[q].from = run[q].from /\ run'[q].to = run[q].to
  BY <1>3, KeepsKeys DEF Working
<1>5. /\ run[q].from \in 1..Len(key) /\ run[q].from < run[q].to /\ run[q].to <= Len(key)
  BY <1>4 DEF KeysInv
<1>6. run[q].to \in Nat /\ Len(key) \in Nat
  BY DEF TypeOK, RunState
<1>7. QED
  BY <1>4, <1>5, <1>6

\* A key that is retired after a step was so before, or a runner retired it.
LEMMA KeyMoves ==
  ASSUME TypeOK, KeysInv, NEW q \in Requests, Handles(q),
         NEW v \in 1..Len(key), key'[v] = "retired"
  PROVE  key[v] = "retired" \/ (Retire(q) /\ v = run[q].from)
<1>1. CASE Retire(q)
  BY <1>1, RetiredKeys
<1>2. ASSUME NEW r \in BOOLEAN, Rotate(q, r) PROVE key[v] = "retired"
  BY <1>2, RotatedKeys
<1>3. QED
  BY <1>1, <1>2, HandlerFrame

LEMMA NextAlone == TypeOK /\ KeysInv /\ BatchInv /\ AloneInv /\ [Next]_vars => AloneInv'
<1> SUFFICES ASSUME TypeOK, KeysInv, BatchInv, AloneInv, [Next]_vars, ~crossed'
             PROVE  AloneInv'
  BY DEF AloneInv
<1>0. /\ run \in [Requests -> RunState] /\ Len(key) \in Nat /\ DOMAIN key = 1..Len(key)
      /\ file \in [FileBlobs -> Envelopes \cup {Garbage, None}]
      /\ row \in [Blobs -> Row \cup {None}]
  BY DEF TypeOK
<1>1. ASSUME NEW q \in Requests, Handles(q) PROVE AloneInv'
  <2>0. /\ ~crossed
        /\ \A p, r \in Requests :
             run[p].phase \in Working /\ run[r].phase \in Working => p = r
    BY <1>1, HandlerFrame DEF AloneInv, Start
  <2>1. \A p \in Requests \ {q} : run'[p] = run[p]
    BY <1>1, Others
  <2>2. store' = store /\ late' = late
    BY <1>1, HandlerFrame
  <2>3. Start(q) => \A p \in Requests : run[p].phase \notin Working
    BY DEF Start
  <2>4. run'[q].phase \in Working => Start(q) \/ run[q].phase \in Working
    BY <1>1, RunMoves
  <2>5. \A p, r \in Requests :
          run'[p].phase \in Working /\ run'[r].phase \in Working => p = r
    BY <2>0, <2>1, <2>3, <2>4
  <2>6. ASSUME NEW p \in Requests, run'[p].phase \in Working
        PROVE  key'[run'[p].to] # "retired"
    <3>1. run'[p].to = run[p].to /\ run[p].to \in 1..Len(key)
      <4>1. CASE p = q
        BY <1>1, <2>6, <4>1, WorkerKeys
      <4>2. CASE p # q
        <5>1. run'[p] = run[p] /\ run[p].phase \in Rotated
          BY <2>1, <2>6, <4>2 DEF Rotated
        <5>2. run[p].from \in 1..Len(key) /\ run[p].from < run[p].to /\ run[p].to <= Len(key)
          BY <5>1 DEF KeysInv
        <5>3. run[p].to \in Nat
          BY <1>0 DEF RunState
        <5>4. QED
          BY <1>0, <5>1, <5>2, <5>3
      <4>3. QED
        BY <4>1, <4>2
    <3>2. key[run[p].to] # "retired"
      <4>1. CASE p = q /\ Start(q)
        BY <4>1 DEF Start
      <4>2. CASE run[p].phase \in Working
        BY <2>0, <4>2 DEF AloneInv
      <4>3. QED
        BY <2>1, <2>4, <2>6, <4>1, <4>2
    <3>3. ~Retire(q)
      <4>1. Retire(q) => run[q].phase \in Working /\ run'[q].phase = "done"
        BY <1>0 DEF Retire, End, Done, New, Working
      <4>2. QED
        BY <2>0, <2>1, <2>6, <4>1 DEF Working
    <3>4. QED
      BY <1>1, <3>1, <3>2, <3>3, KeyMoves
  <2>7. ASSUME NEW p \in Requests, run'[p].phase \in {"finish", "retire"},
               NEW b \in Blobs, row'[b] # None, row'[b].key = run'[p].from
        PROVE  b \in late'
    <3>0. run'[p].phase \in Working
      BY <2>7 DEF Working
    <3>1. CASE p = q
      <4>1. NoneLeft(q) \/ Finish(q)
        BY <1>1, <2>7, <3>1, RunMoves
      <4>2. row' = row /\ run'[q].from = run[q].from
        BY <1>1, <3>0, <3>1, <4>1, WorkerKeys DEF NoneLeft, Finish
      <4>3. ~NoneLeft(q)
        BY <2>7, <3>1, <4>2 DEF NoneLeft, Under
      <4>4. run[q].phase \in {"finish", "retire"}
        BY <4>1, <4>3 DEF Finish
      <4>5. QED
        BY <2>0, <2>2, <2>7, <3>1, <4>2, <4>4 DEF AloneInv
    <3>2. CASE p # q
      <4>1. run'[p] = run[p] /\ run[p].phase \in Working
        BY <2>1, <3>0, <3>2
      <4>2. ~CommitBatch(q)
        BY <2>0, <3>2, <4>1 DEF CommitBatch, Working
      <4>3. row' = row
        BY <1>1, <4>2, HandlerFrame
      <4>4. QED
        BY <2>0, <2>2, <2>7, <4>1, <4>3 DEF AloneInv
    <3>3. QED
      BY <3>1, <3>2
  <2>8. ASSUME NEW p \in Requests, NEW b \in run'[p].staged \cap FileBlobs
        PROVE  file'[b] = p \/ b \in spoiled'
    <3>0. spoiled \subseteq spoiled'
      BY <1>1, HandlerFrame DEF Die, WriteFails
    <3>1. CASE p # q
      <4>1. run'[p] = run[p] /\ run[p].phase \in Working
        BY <2>1, <2>8, <3>1, StagingWorks
      <4>2. ~Reencrypt(q) /\ ~WriteFails(q)
        BY <2>0, <3>1, <4>1 DEF Reencrypt, WriteFails, Working
      <4>3. file' = file
        BY <1>1, <4>2, HandlerFrame
      <4>4. QED
        BY <2>0, <2>8, <3>0, <4>1, <4>3 DEF AloneInv
    <3>2. CASE p = q
      <4>1. b \in run[q].staged \/ (Reencrypt(q) /\ b = run[q].item.blob)
        BY <1>1, <2>8, <3>2, RunMoves
      <4>2. CASE Reencrypt(q) /\ b = run[q].item.blob
        BY <1>0, <2>8, <3>2, <4>2 DEF Reencrypt
      <4>3. CASE WriteFails(q) /\ b = run[q].item.blob
        BY <4>3 DEF WriteFails
      <4>4. CASE /\ b \in run[q].staged
                 /\ ~((Reencrypt(q) \/ WriteFails(q)) /\ b = run[q].item.blob)
        <5>1. file'[b] = file[b]
          BY <1>0, <1>1, <2>8, <4>4, HandlerFrame DEF Reencrypt, WriteFails
        <5>2. file[b] = q \/ b \in spoiled
          BY <2>0, <2>8, <4>4 DEF AloneInv
        <5>3. QED
          BY <3>0, <3>2, <5>1, <5>2
      <4>5. QED
        BY <4>1, <4>2, <4>3, <4>4
    <3>3. QED
      BY <3>1, <3>2
  <2>9. QED
    BY <2>5, <2>6, <2>7, <2>8 DEF AloneInv
<1>2. CASE \E p \in Requests, status \in InProgress \cup Over : CommitJob(p, status)
  BY <1>2 DEF CommitJob, AloneInv
<1>3. ASSUME NEW b \in Blobs, (\E v \in DOMAIN key : LoadStoreKey(b, v))
                              \/ WriteFile(b) \/ StoreBlob(b)
      PROVE  AloneInv'
  <2>1. ~crossed /\ run' = run /\ key' = key /\ spoiled' = spoiled
    BY <1>3, StoreMoves
  <2>2. late \subseteq late'
    BY <1>3 DEF LoadStoreKey, WriteFile, StoreBlob
  <2>3. ASSUME NEW p \in Requests, run[p].phase \in {"finish", "retire"},
               NEW c \in Blobs, row'[c] # None, row'[c].key = run[p].from
        PROVE  c \in late'
    <3>1. CASE row'[c] = row[c]
      BY <2>1, <2>2, <2>3, <3>1 DEF AloneInv
    <3>2. CASE c = b /\ StoreBlob(b)
      <4>1. row'[b].key = store[b].key
        BY <1>0, <3>2 DEF StoreBlob
      <4>2. run[p].from \in 1..Len(key) /\ run[p].from < run[p].to /\ run[p].to <= Len(key)
        BY <2>3 DEF KeysInv, Rotated, Working
      <4>3. run[p].to \in Nat
        BY <1>0 DEF RunState
      <4>4. key[run[p].from] # "active"
        BY <1>0, <4>2, <4>3 DEF KeysInv, NewestActive
      <4>5. QED
        BY <2>3, <3>2, <4>1, <4>4 DEF StoreBlob
    <3>3. QED
      BY <1>3, <3>1, <3>2, StoreMoves
  <2>4. ASSUME NEW p \in Requests, NEW c \in run[p].staged \cap FileBlobs
        PROVE  file'[c] = p \/ c \in spoiled'
    <3>0. store[c].phase = "done"
      BY <2>4 DEF BatchInv
    <3>1. c # b
      BY <1>3, <3>0, StoreMoves
    <3>2. file'[c] = file[c]
      BY <1>3, <2>4, <3>1, StoreMoves
    <3>3. QED
      BY <2>1, <2>4, <3>2 DEF AloneInv
  <2>5. QED
    BY <2>1, <2>3, <2>4 DEF AloneInv
<1>4. CASE UNCHANGED vars
  BY <1>4 DEF vars, AloneInv
<1>5. QED
  BY <1>1, <1>2, <1>3, <1>4, NextSplit

LEMMA NextEmpty ==
  IInv /\ [Next]_vars => RetiredEmpty'
<1> SUFFICES ASSUME IInv, [Next]_vars, ~crossed', NEW b \in Blobs, row'[b] # None,
                    key'[row'[b].key] = "retired"
             PROVE  b \in late'
  BY DEF RetiredEmpty
<1> USE DEF IInv
<1>0. /\ run \in [Requests -> RunState] /\ Len(key) \in Nat /\ DOMAIN key = 1..Len(key)
      /\ row \in [Blobs -> Row \cup {None}]
  BY DEF TypeOK
<1>1. row[b] # None => row[b].key \in 1..Len(key)
  <2>1. row[b] # None => row[b].key \in Versions /\ row[b].key <= Len(key)
    BY RowTypes DEF KeysInv
  <2>2. QED
    BY <1>0, <2>1 DEF Versions
<1>2. ASSUME NEW q \in Requests, Handles(q) PROVE b \in late'
  <2>1. ~crossed /\ late' = late
    BY <1>2, HandlerFrame DEF Start
  <2>2. CASE row'[b] = row[b]
    <3>1. row[b].key \in 1..Len(key) /\ row[b] # None
      BY <1>1, <2>2
    <3>2. CASE key[row[b].key] = "retired"
      BY <2>1, <3>1, <3>2 DEF RetiredEmpty
    <3>3. CASE Retire(q) /\ row[b].key = run[q].from
      BY <2>1, <3>1, <3>3 DEF AloneInv, Retire
    <3>4. QED
      BY <1>2, <2>2, <3>1, <3>2, <3>3, KeyMoves
  <2>3. CASE row'[b] # row[b]
    <3>1. CommitBatch(q)
      BY <1>2, <2>3, HandlerFrame
    <3>2. row'[b].key = run[q].to /\ key' = key
      BY <2>3, <3>1 DEF CommitBatch, Described
    <3>3. key[run[q].to] # "retired"
      BY <2>1, <3>1 DEF AloneInv, CommitBatch, Working
    <3>4. QED
      BY <3>2, <3>3
  <2>4. QED
    BY <2>2, <2>3
<1>3. CASE \E p \in Requests, status \in InProgress \cup Over : CommitJob(p, status)
  BY <1>3 DEF CommitJob, RetiredEmpty
<1>4. ASSUME NEW c \in Blobs, (\E v \in DOMAIN key : LoadStoreKey(c, v))
                              \/ WriteFile(c) \/ StoreBlob(c)
      PROVE  b \in late'
  <2>1. ~crossed /\ key' = key /\ late \subseteq late'
    BY <1>4 DEF LoadStoreKey, WriteFile, StoreBlob
  <2>2. CASE row'[b] = row[b]
    BY <2>1, <2>2 DEF RetiredEmpty
  <2>3. CASE row'[b] # row[b]
    <3>1. row' = row \/ StoreBlob(c)
      BY <1>4 DEF LoadStoreKey, WriteFile
    <3>2. StoreBlob(c) /\ b = c
      BY <1>0, <2>3, <3>1 DEF StoreBlob
    <3>3. row'[b].key = store[b].key
      BY <1>0, <3>2 DEF StoreBlob
    <3>4. QED
      BY <2>1, <3>2, <3>3 DEF StoreBlob
  <2>4. QED
    BY <2>2, <2>3
<1>5. CASE UNCHANGED vars
  BY <1>5 DEF vars, RetiredEmpty
<1>6. QED
  BY <1>2, <1>3, <1>4, <1>5, NextSplit

LEMMA NextIntact ==
  IInv /\ [Next]_vars => Intact'
<1> SUFFICES ASSUME IInv, [Next]_vars, ~crossed', NEW b \in FileBlobs, row'[b] # None,
                    file'[b] # row'[b].env
             PROVE  b \in spoiled' \/ \E q \in Requests : b \in run'[q].staged
  BY DEF Intact, Readable
<1> USE DEF IInv
<1>0. /\ run \in [Requests -> RunState] /\ b \in Blobs
      /\ row \in [Blobs -> Row \cup {None}]
      /\ file \in [FileBlobs -> Envelopes \cup {Garbage, None}]
  BY DEF TypeOK, Blobs
<1>1. ASSUME ~crossed, row'[b] = row[b], file'[b] = file[b]
      PROVE  b \in spoiled \/ \E q \in Requests : b \in run[q].staged
  BY <1>1 DEF Intact, Readable
<1>2. ASSUME NEW q \in Requests, Handles(q)
      PROVE  b \in spoiled' \/ \E p \in Requests : b \in run'[p].staged
  <2>1. ~crossed /\ spoiled \subseteq spoiled'
    BY <1>2, HandlerFrame DEF Start, Die, WriteFails
  <2>2. \A p \in Requests \ {q} : run'[p] = run[p]
    BY <1>2, Others
  <2>3. CASE CommitBatch(q) /\ b \in run[q].staged
    <3>1. row'[b] = [key |-> run[q].to, env |-> q] /\ file' = file
      BY <1>0, <2>3 DEF CommitBatch, Described
    <3>2. file[b] = q \/ b \in spoiled
      BY <2>1, <2>3 DEF AloneInv
    <3>3. QED
      BY <2>1, <3>1, <3>2
  <2>4. CASE Die(q) /\ b \in run[q].staged
    BY <2>4 DEF Die
  <2>5. CASE Reencrypt(q) /\ b = run[q].item.blob
    BY <1>0, <2>5 DEF Reencrypt, RunState
  <2>6. CASE WriteFails(q) /\ b = run[q].item.blob
    BY <2>6 DEF WriteFails
  <2>7. CASE /\ ~(CommitBatch(q) /\ b \in run[q].staged) /\ ~(Die(q) /\ b \in run[q].staged)
             /\ ~((Reencrypt(q) \/ WriteFails(q)) /\ b = run[q].item.blob)
    <3>1. row' = row \/ (CommitBatch(q) /\ row' = Described(q))
      BY <1>2, HandlerFrame DEF CommitBatch
    <3>2. row'[b] = row[b]
      BY <1>0, <2>7, <3>1 DEF Described
    <3>3. file'[b] = file[b]
      BY <1>0, <1>2, <2>7, HandlerFrame DEF Reencrypt, WriteFails
    <3>4. b \in run[q].staged => b \in run'[q].staged
      BY <1>2, <2>7, RunMoves
    <3>5. b \in spoiled \/ \E p \in Requests : b \in run[p].staged
      BY <1>1, <2>1, <3>2, <3>3
    <3>6. QED
      BY <2>1, <2>2, <3>4, <3>5
  <2>8. QED
    BY <2>3, <2>4, <2>5, <2>6, <2>7
<1>3. CASE \E p \in Requests, status \in InProgress \cup Over : CommitJob(p, status)
  BY <1>1, <1>3 DEF CommitJob
<1>4. ASSUME NEW c \in Blobs, (\E v \in DOMAIN key : LoadStoreKey(c, v))
                              \/ WriteFile(c) \/ StoreBlob(c)
      PROVE  b \in spoiled' \/ \E p \in Requests : b \in run'[p].staged
  <2>1. ~crossed /\ spoiled' = spoiled /\ run' = run
    BY <1>4, StoreMoves
  <2>2. CASE row'[b] = row[b] /\ file'[b] = file[b]
    BY <1>1, <2>1, <2>2
  <2>3. CASE b = c /\ WriteFile(c)
    BY <1>0, <1>4, <2>3 DEF BatchInv, WriteFile
  <2>4. CASE b = c /\ StoreBlob(c)
    <3>1. row'[b].env = Original /\ file' = file
      BY <1>0, <2>4 DEF StoreBlob
    <3>2. file[b] = Original
      BY <2>4 DEF BatchInv, StoreBlob
    <3>3. QED
      BY <3>1, <3>2
  <2>5. QED
    BY <1>0, <1>4, <2>2, <2>3, <2>4, StoreMoves
<1>5. CASE UNCHANGED vars
  BY <1>1, <1>5 DEF vars
<1>6. QED
  BY <1>2, <1>3, <1>4, <1>5, NextSplit

LEMMA InitIInv == Init => IInv
<1> SUFFICES ASSUME Init PROVE IInv
  OBVIOUS
<1> USE DEF Init
<1>1. New \in RunState /\ New.phase = "new" /\ New.staged = {} /\ New.todo = {}
  BY DEF New, RunState, Phases, Working
<1>2. [key |-> 1, env |-> Original] \in Row
  BY DEF Row, Versions, Envelopes
<1>3. FileBlobs \subseteq Blobs
  BY DEF Blobs
<1>4. key \in Seq({"active", "retiring", "retired"}) /\ Len(key) = 1 /\ key[1] = "active"
      /\ DOMAIN key = 1..1
  OBVIOUS
<1>5. TypeOK
  <2>1. row \in [Blobs -> Row \cup {None}]
    BY <1>2
  <2>2. file \in [FileBlobs -> Envelopes \cup {Garbage, None}]
    BY DEF Envelopes
  <2>3. store \in [Blobs -> StoreState] /\ run \in [Requests -> RunState]
        /\ job \in [Requests -> JobStatus]
    BY <1>1 DEF StoreState, JobStatus
  <2>4. faults \in 0..MaxFaults
    BY RotationAssumption
  <2>5. QED
    BY <1>4, <2>1, <2>2, <2>3, <2>4 DEF TypeOK
<1>6. KeysInv
  <2>0. \A v \in DOMAIN key : v = 1 /\ Len(key) = 1 /\ key[1] = "active"
    BY <1>4
  <2>1. NewestActive
    BY <2>0 DEF NewestActive
  <2>2. \A b \in Blobs : (row[b] # None => row[b].key = 1)
                         /\ store[b].phase \in {"new", "done"}
    BY <1>2
  <2>3. \A q \in Requests : run[q].phase = "new"
    BY <1>1
  <2>4. Len(key) >= 1 /\ (\A b \in Blobs : row[b] # None => row[b].key <= Len(key))
    BY <1>4, <2>2
  <2>5. "new" \notin {"active", "rotate"} \cup Rotated
        /\ {"new", "done"} \cap {"keyed", "written"} = {}
    BY DEF Rotated, Working
  <2>6. QED
    BY <2>1, <2>2, <2>3, <2>4, <2>5 DEF KeysInv
<1>7. BatchInv
  BY <1>1, <1>3 DEF BatchInv
<1>8. AloneInv
  BY <1>1 DEF AloneInv, Working
<1>9. RetiredEmpty
  BY <1>4 DEF RetiredEmpty
<1>10. Intact
  BY <1>2, <1>3 DEF Intact, Readable
<1>11. QED
  BY <1>5, <1>6, <1>7, <1>8, <1>9, <1>10 DEF IInv

LEMMA NextIInv == IInv /\ [Next]_vars => IInv'
  BY NextType, NextKeys, NextBatch, NextAlone, NextEmpty, NextIntact DEF IInv

\* Every reachable state of a key rotation is well typed: in particular a job
\* has one of the statuses the code knows and a row names a version.
THEOREM TypeCorrect == Spec => []TypeOK
<1>1. IInv => TypeOK
  BY DEF IInv
<1>2. QED
  BY InitIInv, NextIInv, <1>1, PTL DEF Spec

\* The active key of a tenant is its newest, however many rotate requests run
\* together (services/crypto/service.py, rotate_key): a stale version is refused
\* by the unique constraint, and a late retirement hits an older key.
THEOREM NewestIsActive == Spec => []NewestActive
<1>1. IInv => NewestActive
  BY DEF IInv, KeysInv
<1>2. QED
  BY InitIInv, NextIInv, <1>1, PTL DEF Spec

\* While one run at most is at work, a blob whose file and row disagree is in a
\* batch about to be committed or was left by a death or a failed write.
THEOREM BlobsIntact == Spec => []Intact
<1>1. IInv => Intact
  BY DEF IInv
<1>2. QED
  BY InitIInv, NextIInv, <1>1, PTL DEF Spec

\* While one run at most is at work, only blobs stored late are under a key that
\* is retired.
THEOREM RetiredKeysEmpty == Spec => []RetiredEmpty
<1>1. IInv => RetiredEmpty
  BY DEF IInv
<1>2. QED
  BY InitIInv, NextIInv, <1>1, PTL DEF Spec
=============================================================================
