--------------------------- MODULE FailoverProofs ---------------------------
(***************************************************************************)
(* Proofs about Failover, for any number of regions, calls and tokens: the *)
(* invariants of the control plane, and that it implements EpochRegister,  *)
(* pays for its epochs, serves writes in order and keeps the freeze of a   *)
(* promotion.                                                              *)
(***************************************************************************)
EXTENDS FailoverRefinement, TLAPS, FiniteSetTheorems

\* The locals a handler has set by the time it reads them.
LocalsInv ==
  \A c \in Calls :
    /\ call[c].phase \in InTransition => call[c].mem \in Row
    /\ call[c].phase \in {"spend", "freeze", "precheck", "promote", "rollback"}
         => call[c].token \in Tokens
    /\ call[c].phase \in {"read", "token", "spend"} /\ call[c].kind = "promote"
         => call[c].target \in Regions
    /\ call[c].phase \in {"freeze", "precheck", "promote", "verify"}
         => call[c].target \in Regions

\* With Redis up a running call owns the lease.
LeaseInv ==
  redis = "reliable" =>
    \A c \in Calls : call[c].phase \in Running => call[c].leased /\ lock = c

\* From its SELECT ... FOR UPDATE to the commit of used_at a call owns the row,
\* and meanwhile the token it found stays unspent.
TokenInv ==
  /\ \A c \in Calls : call[c].phase \in {"token", "spend"} => rowLock = c
  /\ \A c \in Calls : call[c].phase = "spend" =>
       tok[call[c].token] # "used"
  /\ \A t \in Tokens : uses[t] = IF tok[t] = "used" THEN 1 ELSE 0

LEMMA IdleType == Idle \in CallState
  BY DEF Idle, CallState, Running, InTransition

LEMMA EnteringType ==
  ASSUME NEW k \in {"promote", "rollback"}, NEW r \in Regions \cup {None},
         NEW lease \in BOOLEAN
  PROVE  Entering(k, r, lease) \in CallState
  BY DEF Entering, CallState, Running, InTransition

\* A handler that goes to phase p and sets one more local keeps its type.
LEMMA LocalsType ==
  ASSUME NEW s \in CallState, NEW p \in Running
  PROVE  /\ [s EXCEPT !.phase = p] \in CallState
         /\ \A m \in Row : [s EXCEPT !.phase = p, !.mem = m] \in CallState
         /\ \A t \in Tokens \cup {None} :
              [s EXCEPT !.phase = p, !.token = t] \in CallState
  BY DEF CallState

LEMMA RestPhases ==
  /\ Idle.phase = "idle" /\ ~Idle.leased
  /\ \A c \in Calls : /\ Returning(c).phase = "release"
                      /\ Returning(c).leased = call[c].leased
  BY DEF Returning, Idle

\* A handler that proceeds leaves the others alone.
LEMMA ProceedLocals ==
  ASSUME TypeOK, NEW c \in Calls, NEW p, NEW new, Proceed(c, p, new)
  PROVE  /\ call'[c].phase = p
         /\ call'[c].mem = new
         /\ call'[c].target = call[c].target
         /\ call'[c].leased = call[c].leased
         /\ \A d \in Calls \ {c} : call'[d] = call[d]
<1>1. call[c] \in CallState
  BY DEF TypeOK
<1>2. call'[c] = [call[c] EXCEPT !.phase = p, !.mem = new]
  BY DEF Proceed, TypeOK
<1>3. QED
  BY <1>1, <1>2 DEF Proceed, CallState, TypeOK

LEMMA InitType == Init => TypeOK
<1> SUFFICES ASSUME Init PROVE TypeOK
  OBVIOUS
<1>1. row \in Row
  BY DEF Init, Row
<1>2. call \in [Calls -> CallState]
  BY IdleType DEF Init
<1>3. served \in Nat \X Regions
  BY <1>1 DEF Init, Row
<1>4. QED
  BY <1>1, <1>2, <1>3 DEF Init, TypeOK

LEMMA InitInv == Init => LocalsInv /\ LeaseInv /\ TokenInv
  BY DEF Init, LocalsInv, LeaseInv, TokenInv, Idle, InTransition, Running

\* A copy of the row stays a row when it is frozen, or when the primary moves.
LEMMA CopyType ==
  ASSUME NEW mem \in Row, NEW freeze \in BOOLEAN
  PROVE  /\ Frozen(mem, freeze) \in Row
         /\ \A r \in Regions, previous \in Regions \cup {None} :
              Moved(mem, r, freeze, previous) \in Row
  BY DEF Frozen, Moved, Row

\* What a commit leaves in the row is a row.
LEMMA WrittenType ==
  ASSUME TypeOK, NEW c \in Calls, NEW new \in Row
  PROVE  Written(c, new) \in Row
  BY DEF TypeOK, Written, Row

\* Every step keeps the types, given that handlers only read locals they set.
LEMMA NextType == TypeOK /\ LocalsInv /\ [Next]_vars => TypeOK'
<1> SUFFICES ASSUME TypeOK, LocalsInv, [Next]_vars PROVE TypeOK'
  OBVIOUS
<1> USE DEF TypeOK, Running, InTransition
<1>1. ASSUME NEW t \in Tokens, IssueToken(t) \/ ExpireToken(t) PROVE TypeOK'
  BY <1>1 DEF IssueToken, ExpireToken
<1>2. ASSUME NEW c \in Calls, NEW r \in Regions, PromoteRegion(c, r)
      PROVE  TypeOK'
  <2>1. \A lease \in BOOLEAN : Entering("promote", r, lease) \in CallState
    BY EnteringType
  <2>2. QED
    BY <1>2, <2>1 DEF PromoteRegion, AcquireLock
<1>3. ASSUME NEW c \in Calls, RollbackFailover(c) PROVE TypeOK'
  <2>1. \A lease \in BOOLEAN : Entering("rollback", None, lease) \in CallState
    BY EnteringType
  <2>2. QED
    BY <1>3, <2>1 DEF RollbackFailover, AcquireLock
<1>4. ASSUME NEW c \in Calls, Progress(c) PROVE TypeOK'
  <2> DEFINE mem == call[c].mem
  <2>0. Returning(c) \in CallState
    BY DEF Returning, Idle, CallState
  <2>a. call[c] \in CallState
    OBVIOUS
  <2>1. CASE ReadState(c)
    <3>1. [call[c] EXCEPT !.phase = "token", !.mem = row] \in CallState
      BY <2>a, LocalsType
    <3>2. QED
      BY <2>1, <3>1 DEF ReadState, Proceed
  <2>2. CASE CooldownRefuses(c)
    BY <2>0, <2>2 DEF CooldownRefuses, Return
  <2>3. ASSUME NEW t \in Tokens, SelectToken(c, t) PROVE TypeOK'
    <3>1. [call[c] EXCEPT !.phase = "spend", !.token = t] \in CallState
      BY <2>a, LocalsType
    <3>2. QED
      BY <2>3, <3>1 DEF SelectToken
  <2>4. CASE RejectToken(c)
    BY <2>0, <2>4 DEF RejectToken, Return
  <2>5. CASE ConsumeToken(c)
    <3>1. \A p \in Running : [call[c] EXCEPT !.phase = p] \in CallState
      BY <2>a, LocalsType
    <3>2. call' \in [Calls -> CallState]
      BY <2>5, <3>1 DEF ConsumeToken, Goto
    <3>3. call[c].token \in Tokens
      BY <2>5 DEF ConsumeToken, LocalsInv
    <3>4. uses' \in [Tokens -> Nat]
      BY <2>5, <3>3 DEF ConsumeToken
    <3>5. QED
      BY <2>5, <3>2, <3>4 DEF ConsumeToken
  <2>6. CASE FreezeWrites(c)
    <3>1. Frozen(mem, TRUE) \in Row
      BY <2>6, CopyType DEF FreezeWrites, LocalsInv
    <3>2. row' \in Row
      BY <2>6 DEF FreezeWrites, Row
    <3>3. QED
      BY <2>6, <3>1, <3>2, <2>a, LocalsType DEF FreezeWrites, Proceed
  <2>7. ASSUME NEW force \in BOOLEAN, PrecheckPasses(c, force) PROVE TypeOK'
    BY <2>7 DEF PrecheckPasses, Goto, CallState
  <2>8. CASE PrecheckFails(c)
    <3>1. mem \in Row
      BY <2>8 DEF PrecheckFails, LocalsInv
    <3>2. mem.freeze \in BOOLEAN
      BY <3>1 DEF Row
    <3>3. row' \in Row
      BY <2>8, <3>1, <3>2, CopyType, WrittenType DEF PrecheckFails
    <3>4. QED
      BY <2>0, <2>8, <3>3 DEF PrecheckFails, Return
  <2>9. CASE Promote(c)
    <3> DEFINE new == Moved(mem, call[c].target, mem.freeze, mem.active)
    <3>1. mem \in Row /\ call[c].target \in Regions
      BY <2>9 DEF Promote, LocalsInv
    <3>2. new \in Row
      BY <3>1, CopyType DEF Row
    <3>3. Written(c, new) \in Row
      BY <3>2, WrittenType
    <3>4. moved' \subseteq Tokens
      BY <2>9 DEF Promote, LocalsInv
    <3>5. QED
      BY <2>9, <3>2, <3>3, <3>4, <2>a, LocalsType DEF Promote, Proceed
  <2>10. CASE VerificationFails(c)
    <3>1. mem \in Row
      BY <2>10 DEF VerificationFails, LocalsInv
    <3>2. mem.freeze \in BOOLEAN
      BY <3>1 DEF Row
    <3>3. row' \in Row
      BY <2>10, <3>1, <3>2, CopyType, WrittenType DEF VerificationFails
    <3>4. QED
      BY <2>0, <2>10, <3>3 DEF VerificationFails, Return
  <2>11. CASE CompletePromotion(c)
    <3>1. mem \in Row
      BY <2>11 DEF CompletePromotion, LocalsInv
    <3>2. row' \in Row
      BY <2>11, <3>1, CopyType, WrittenType DEF CompletePromotion
    <3>3. QED
      BY <2>0, <2>11, <3>2 DEF CompletePromotion, Return
  <2>12. CASE Rollback(c)
    <3>1. mem \in Row
      BY <2>12 DEF Rollback, LocalsInv
    <3>2. mem.previous \in Regions
      BY <2>12, <3>1 DEF Rollback, Row
    <3>3. row' \in Row
      BY <2>12, <3>1, <3>2, CopyType, WrittenType DEF Rollback
    <3>4. moved' \subseteq Tokens
      BY <2>12 DEF Rollback, LocalsInv
    <3>5. QED
      BY <2>0, <2>12, <3>3, <3>4 DEF Rollback, Return
  <2>13. CASE NothingToRollBack(c)
    BY <2>0, <2>13 DEF NothingToRollBack, Return
  <2>14. CASE ReleaseCheck(c)
    BY <2>14, IdleType DEF ReleaseCheck, Goto, CallState
  <2>15. CASE ReleaseDelete(c)
    BY <2>15, IdleType DEF ReleaseDelete
  <2>16. QED
    BY <1>4, <2>1, <2>2, <2>3, <2>4, <2>5, <2>6, <2>7, <2>8, <2>9, <2>10,
       <2>11, <2>12, <2>13, <2>14, <2>15 DEF Progress
<1>5. ASSUME NEW c \in Calls, DatabaseError(c) \/ Crash(c) PROVE TypeOK'
  <2>1. Returning(c) \in CallState
    BY DEF Returning, Idle, CallState
  <2>2. QED
    BY <1>5, <2>1, IdleType DEF DatabaseError, Crash, Return
<1>6. CASE ExpireLock
  BY <1>6 DEF ExpireLock
<1>7. CASE CooldownElapses
  BY <1>7 DEF CooldownElapses, Row
<1>8. ASSUME NEW freeze \in BOOLEAN, SetWriteFreeze(freeze) PROVE TypeOK'
  <2>1. row' \in Row
    BY <1>8 DEF SetWriteFreeze, Row
  <2>2. ASSUME NEW s \in CallState PROVE [s EXCEPT !.thawed = TRUE] \in CallState
    BY DEF CallState
  <2>3. QED
    BY <1>8, <2>1, <2>2 DEF SetWriteFreeze
<1>9. ASSUME NEW r \in Regions, AdmitWrite(r) PROVE TypeOK'
  BY <1>9 DEF AdmitWrite, Row
<1>10. CASE UNCHANGED vars
  BY <1>10 DEF vars
<1>11. QED
  BY <1>1, <1>2, <1>3, <1>4, <1>5, <1>6, <1>7, <1>8, <1>9, <1>10 DEF Next

-----------------------------------------------------------------------------
\* The three invariants that do not depend on types alone are inductive together.

\* Handlers keep the locals they will read.
LEMMA NextLocals == TypeOK /\ LocalsInv /\ [Next]_vars => LocalsInv'
<1> SUFFICES ASSUME TypeOK, LocalsInv, [Next]_vars PROVE LocalsInv'
  OBVIOUS
<1> USE DEF TypeOK, LocalsInv, InTransition, Running
<1>1. CASE UNCHANGED call
  BY <1>1
<1>2. ASSUME NEW c \in Calls, NEW r \in Regions,
             PromoteRegion(c, r) \/ RollbackFailover(c)
      PROVE  LocalsInv'
  BY <1>2 DEF PromoteRegion, RollbackFailover, AcquireLock, Entering
<1>3. ASSUME NEW c \in Calls, call' = [call EXCEPT ![c] = Idle] \/ Return(c)
      PROVE  LocalsInv'
  BY <1>3, RestPhases DEF Return
<1>4. ASSUME NEW c \in Calls, Progress(c) PROVE LocalsInv'
  <2>a. call[c] \in CallState
    OBVIOUS
  <2> DEFINE mem == call[c].mem
  <2>1. CASE ReadState(c)
    BY <2>1, <2>a DEF ReadState, Proceed, CallState
  <2>2. ASSUME NEW t \in Tokens, SelectToken(c, t) PROVE LocalsInv'
    BY <2>2, <2>a DEF SelectToken, CallState
  <2>3. CASE ConsumeToken(c)
    BY <2>3, <2>a DEF ConsumeToken, Goto, CallState
  <2>4. CASE FreezeWrites(c)
    <3>1. Frozen(mem, TRUE) \in Row
      BY <2>4, CopyType DEF FreezeWrites
    <3>2. QED
      BY <2>4, <2>a, <3>1 DEF FreezeWrites, Proceed, CallState
  <2>5. ASSUME NEW force \in BOOLEAN, PrecheckPasses(c, force)
        PROVE  LocalsInv'
    BY <2>5, <2>a DEF PrecheckPasses, Goto, CallState
  <2>6. CASE Promote(c)
    <3>1. Moved(mem, call[c].target, mem.freeze, mem.active) \in Row
      BY <2>6, CopyType DEF Promote, Row
    <3>2. QED
      BY <2>6, <3>1, ProceedLocals DEF Promote
  <2>7. CASE ReleaseCheck(c) /\ Goto(c, "delete")
    BY <2>7, <2>a DEF Goto, CallState
  <2>8. QED
    BY <1>3, <1>4, <2>1, <2>2, <2>3, <2>4, <2>5, <2>6, <2>7
       DEF Progress, CooldownRefuses, RejectToken, PrecheckFails,
           VerificationFails, CompletePromotion, Rollback, NothingToRollBack,
           ReleaseCheck, ReleaseDelete
<1>5. ASSUME NEW freeze \in BOOLEAN, SetWriteFreeze(freeze) PROVE LocalsInv'
  <2>1. ASSUME NEW c \in Calls
        PROVE  /\ call'[c].phase = call[c].phase
               /\ call'[c].kind = call[c].kind
               /\ call'[c].target = call[c].target
               /\ call'[c].token = call[c].token
               /\ call'[c].mem = call[c].mem
    BY <1>5 DEF SetWriteFreeze, CallState
  <2>2. QED
    BY <2>1
<1>6. QED
  BY <1>1, <1>2, <1>3, <1>4, <1>5
     DEF Next, IssueToken, ExpireToken, DatabaseError, Crash, ExpireLock,
         CooldownElapses, AdmitWrite, vars

\* With Redis up the lease changes hands only between calls.
LEMMA NextLease == TypeOK /\ LeaseInv /\ [Next]_vars => LeaseInv'
<1> SUFFICES ASSUME TypeOK, LeaseInv, [Next]_vars, redis = "reliable"
             PROVE  LeaseInv'
  BY DEF LeaseInv, Next, IssueToken, ExpireToken, PromoteRegion,
         RollbackFailover, Progress, ReadState, CooldownRefuses, SelectToken,
         RejectToken, ConsumeToken, FreezeWrites, PrecheckPasses,
         PrecheckFails, Promote, VerificationFails, CompletePromotion,
         Rollback, NothingToRollBack, ReleaseCheck, ReleaseDelete,
         DatabaseError, Crash, ExpireLock, CooldownElapses, SetWriteFreeze,
         AdmitWrite, vars
<1> USE DEF TypeOK, LeaseInv, InTransition, Running
<1>1. CASE UNCHANGED <<lock, call>>
  BY <1>1
<1>2. ASSUME NEW c \in Calls, NEW r \in Regions,
             PromoteRegion(c, r) \/ RollbackFailover(c)
      PROVE  LeaseInv'
  BY <1>2, FailoverAssumption
     DEF PromoteRegion, RollbackFailover, AcquireLock, Entering
<1>3. ASSUME NEW c \in Calls, call[c].phase \in Running, UNCHANGED lock,
             call' = [call EXCEPT ![c] = Idle] \/ Return(c)
      PROVE  LeaseInv'
  BY <1>3, RestPhases DEF Return
<1>4. ASSUME NEW c \in Calls, Progress(c) PROVE LeaseInv'
  <2>a. call[c] \in CallState
    OBVIOUS
  <2>1. CASE /\ call[c].phase \in Running /\ UNCHANGED lock
             /\ call'[c].leased = call[c].leased
             /\ \A d \in Calls \ {c} : call'[d] = call[d]
    BY <2>1
  <2>2. CASE ReadState(c)
    BY <2>1, <2>2, ProceedLocals DEF ReadState
  <2>3. ASSUME NEW t \in Tokens, SelectToken(c, t) PROVE LeaseInv'
    BY <2>1, <2>3, <2>a DEF SelectToken, CallState
  <2>4. CASE ConsumeToken(c)
    BY <2>1, <2>4, <2>a DEF ConsumeToken, Goto, CallState
  <2>5. CASE FreezeWrites(c) \/ Promote(c)
    BY <2>1, <2>5, ProceedLocals DEF FreezeWrites, Promote
  <2>6. ASSUME NEW force \in BOOLEAN, PrecheckPasses(c, force)
        PROVE  LeaseInv'
    BY <2>1, <2>6, <2>a DEF PrecheckPasses, Goto, CallState
  <2>7. CASE ReleaseCheck(c) /\ Goto(c, "delete")
    BY <2>1, <2>7, <2>a DEF ReleaseCheck, Goto, CallState
  <2>8. CASE ReleaseDelete(c)
    BY <2>8, RestPhases DEF ReleaseDelete
  <2>9. QED
    BY <1>3, <1>4, <2>2, <2>3, <2>4, <2>5, <2>6, <2>7, <2>8
       DEF Progress, CooldownRefuses, RejectToken, PrecheckFails,
           VerificationFails, CompletePromotion, Rollback, NothingToRollBack,
           ReleaseCheck
<1>5. CASE ExpireLock
  BY <1>5 DEF ExpireLock
<1>6. ASSUME NEW freeze \in BOOLEAN, SetWriteFreeze(freeze) PROVE LeaseInv'
  <2>1. ASSUME NEW c \in Calls
        PROVE  call'[c].phase = call[c].phase /\ call'[c].leased = call[c].leased
    BY <1>6 DEF SetWriteFreeze, CallState
  <2>2. QED
    BY <1>6, <2>1 DEF SetWriteFreeze
<1>7. QED
  BY <1>1, <1>2, <1>3, <1>4, <1>5, <1>6
     DEF Next, IssueToken, ExpireToken, DatabaseError, Crash, CooldownElapses,
         AdmitWrite, vars

\* A token is found and spent under one hold of the row lock.
LEMMA NextToken == TypeOK /\ LocalsInv /\ TokenInv /\ [Next]_vars => TokenInv'
<1> SUFFICES ASSUME TypeOK, LocalsInv, TokenInv, [Next]_vars PROVE TokenInv'
  OBVIOUS
<1> USE DEF TypeOK, TokenInv, RowFree, InTransition, Running
<1>1. CASE UNCHANGED <<rowLock, tok, uses, call>>
  BY <1>1
<1>2. ASSUME NEW t \in Tokens, IssueToken(t) \/ ExpireToken(t) PROVE TokenInv'
  <2>1. CASE IssueToken(t)
    BY <2>1 DEF IssueToken
  <2>2. CASE ExpireToken(t)
    BY <2>2 DEF ExpireToken
  <2>3. QED
    BY <1>2, <2>1, <2>2
<1>3. ASSUME NEW c \in Calls, UNCHANGED <<tok, uses>>,
             rowLock' = rowLock \/ (rowLock' = None /\ rowLock = c),
             \A d \in Calls \ {c} : call'[d] = call[d],
             call'[c].phase \notin {"token", "spend"}
      PROVE  TokenInv'
  BY <1>3
<1>4. ASSUME NEW c \in Calls, NEW r \in Regions,
             PromoteRegion(c, r) \/ RollbackFailover(c)
      PROVE  TokenInv'
  BY <1>4 DEF PromoteRegion, RollbackFailover, AcquireLock, Entering
<1>5. ASSUME NEW c \in Calls, Progress(c) PROVE TokenInv'
  <2>a. call[c] \in CallState
    OBVIOUS
  <2>1. CASE ReadState(c)
    BY <2>1, ProceedLocals, FailoverAssumption DEF ReadState
  <2>2. ASSUME NEW t \in Tokens, SelectToken(c, t) PROVE TokenInv'
    BY <2>2, <2>a DEF SelectToken, CallState
  <2>3. CASE ConsumeToken(c)
    <3>1. call[c].token \in Tokens
      BY <2>3 DEF ConsumeToken, LocalsInv
    <3>2. /\ call'[c].phase \notin {"token", "spend"}
          /\ \A d \in Calls \ {c} : call'[d] = call[d]
      BY <2>3, <2>a DEF ConsumeToken, Goto, CallState
    <3>3. QED
      BY <2>3, <3>1, <3>2, FailoverAssumption DEF ConsumeToken
  <2>4. CASE FreezeWrites(c) \/ Promote(c)
    <3>1. /\ call'[c].phase \notin {"token", "spend"}
          /\ \A d \in Calls \ {c} : call'[d] = call[d]
      <4>1. PICK p \in {"precheck", "verify"} : \E new : Proceed(c, p, new)
        BY <2>4 DEF FreezeWrites, Promote
      <4>2. QED
        BY <4>1, <2>a DEF Proceed, CallState
    <3>2. QED
      BY <1>3, <2>4, <3>1 DEF FreezeWrites, Promote
  <2>5. ASSUME NEW force \in BOOLEAN, PrecheckPasses(c, force)
        PROVE  TokenInv'
    BY <1>3, <2>5, <2>a DEF PrecheckPasses, Goto, CallState
  <2>6. CASE ReleaseCheck(c) \/ ReleaseDelete(c)
    BY <1>3, <2>6, <2>a, RestPhases
       DEF ReleaseCheck, ReleaseDelete, Goto, CallState
  <2>7. CASE Return(c) /\ UNCHANGED <<tok, uses>>
             /\ (rowLock' = rowLock \/ (rowLock' = None /\ rowLock = c))
    BY <1>3, <2>7, RestPhases DEF Return
  <2>8. QED
    BY <1>5, <2>1, <2>2, <2>3, <2>4, <2>5, <2>6, <2>7
       DEF Progress, CooldownRefuses, RejectToken, PrecheckFails,
           VerificationFails, CompletePromotion, Rollback, NothingToRollBack
<1>6. ASSUME NEW c \in Calls, DatabaseError(c) \/ Crash(c) PROVE TokenInv'
  BY <1>3, <1>6, RestPhases DEF DatabaseError, Crash, Return
<1>7. ASSUME NEW freeze \in BOOLEAN, SetWriteFreeze(freeze) PROVE TokenInv'
  <2>1. ASSUME NEW c \in Calls
        PROVE  call'[c].phase = call[c].phase /\ call'[c].token = call[c].token
    BY <1>7 DEF SetWriteFreeze, CallState
  <2>2. QED
    BY <1>7, <2>1 DEF SetWriteFreeze
<1>8. QED
  BY <1>1, <1>2, <1>4, <1>5, <1>6, <1>7
     DEF Next, ExpireLock, CooldownElapses, AdmitWrite, vars

-----------------------------------------------------------------------------
IInv == TypeOK /\ LocalsInv /\ LeaseInv /\ TokenInv

LEMMA Inductive == Spec => []IInv
<1>1. Init => IInv
  BY InitType, InitInv DEF IInv
<1>2. IInv /\ [Next]_vars => IInv'
  BY NextType, NextLocals, NextLease, NextToken DEF IInv
<1>3. QED
  BY <1>1, <1>2, PTL DEF Spec

\* Every reachable state of the control plane is well typed: in particular no
\* commit ever writes a null region or epoch into the row.
THEOREM TypeCorrect == Spec => []TypeOK
  BY Inductive, PTL DEF IInv

\* One failover at a time as long as Redis is up, for any number of calls that
\* crash, fail, and are retried.
THEOREM Exclusion == Spec => []LockedExclusion
<1>1. IInv => LockedExclusion
  BY DEF IInv, LeaseInv, LockedExclusion
<1>2. QED
  BY <1>1, Inductive, PTL

\* A token is one-time whether or not Redis is up: the row lock is enough.
THEOREM OneTimeTokens == Spec => []TokenSpentOnce
<1>1. IInv => TokenSpentOnce
  BY DEF IInv, TypeOK, TokenInv, TokenSpentOnce
<1>2. QED
  BY <1>1, Inductive, PTL

-----------------------------------------------------------------------------
\* Up to the commit that moves the primary, a call's copy of the row is still
\* the truth about region, epoch and cooldown.
Early == InTransition \ {"verify"}

Fresh(c) ==
  /\ ~row.cooling /\ ~call[c].mem.cooling
  /\ row.active = call[c].mem.active
  /\ row.epoch = call[c].mem.epoch

CoherentInv ==
  redis = "reliable" => \A c \in Calls : call[c].phase \in Early => Fresh(c)

\* A commit that changes no more than the freeze flag.
LEMMA FreezeOnly ==
  ASSUME TypeOK, NEW c \in Calls, call[c].mem \in Row, NEW b \in BOOLEAN,
         NEW new, new = Frozen(call[c].mem, b)
  PROVE  /\ Written(c, new).active = row.active
         /\ Written(c, new).epoch = row.epoch
         /\ Written(c, new).cooling = row.cooling
         /\ new.active = call[c].mem.active
         /\ new.epoch = call[c].mem.epoch
         /\ new.cooling = call[c].mem.cooling
  BY DEF Written, Frozen, Row

LEMMA NextCoherent == IInv /\ CoherentInv /\ [Next]_vars => CoherentInv'
<1> SUFFICES ASSUME IInv, CoherentInv, [Next]_vars, redis = "reliable"
             PROVE  \A c \in Calls : call'[c].phase \in Early => Fresh(c)'
  BY DEF CoherentInv, Next, IssueToken, ExpireToken, PromoteRegion,
         RollbackFailover, Progress, ReadState, CooldownRefuses, SelectToken,
         RejectToken, ConsumeToken, FreezeWrites, PrecheckPasses,
         PrecheckFails, Promote, VerificationFails, CompletePromotion,
         Rollback, NothingToRollBack, ReleaseCheck, ReleaseDelete,
         DatabaseError, Crash, ExpireLock, CooldownElapses, SetWriteFreeze,
         AdmitWrite, vars
<1> DEFINE Goal == \A c \in Calls : call'[c].phase \in Early => Fresh(c)'
<1>0. TypeOK /\ LocalsInv /\ LeaseInv
  BY DEF IInv
<1> USE DEF CoherentInv, Early, InTransition, Running, Fresh
\* The two ways a running call can step: past the early phases, or within them
\* with the row and its copy as they were.
<1>1. ASSUME NEW c \in Calls, call[c].phase \in Running,
             \A d \in Calls \ {c} : call'[d] = call[d],
             call'[c].phase \in Early => Fresh(c)'
      PROVE  Goal
  BY <1>0, <1>1 DEF LeaseInv
<1>2. CASE UNCHANGED <<row, call>>
  BY <1>2
<1>3. ASSUME NEW c \in Calls, NEW r \in Regions,
             PromoteRegion(c, r) \/ RollbackFailover(c)
      PROVE  Goal
  BY <1>0, <1>3
     DEF TypeOK, PromoteRegion, RollbackFailover, AcquireLock, Entering
<1>4. ASSUME NEW c \in Calls, call[c].phase \in Running,
             call' = [call EXCEPT ![c] = Idle] \/ Return(c)
      PROVE  Goal
  BY <1>0, <1>1, <1>4, RestPhases DEF TypeOK, Return
<1>5. ASSUME NEW c \in Calls, Progress(c) PROVE Goal
  <2>a. call[c] \in CallState
    BY <1>0 DEF TypeOK
  <2>b. row \in Row
    BY <1>0 DEF TypeOK
  <2>1. CASE ReadState(c)
    <3>1. call'[c].mem = row /\ \A d \in Calls \ {c} : call'[d] = call[d]
      BY <1>0, <2>1, ProceedLocals DEF ReadState
    <3>2. QED
      BY <1>1, <2>1, <3>1 DEF ReadState
  <2>2. ASSUME NEW t \in Tokens, SelectToken(c, t) PROVE Goal
    BY <1>0, <1>1, <2>2, <2>a DEF SelectToken, TypeOK, CallState
  <2>3. CASE ConsumeToken(c)
    BY <1>0, <1>1, <2>3, <2>a DEF ConsumeToken, Goto, TypeOK, CallState
  <2>4. CASE FreezeWrites(c)
    <3> DEFINE new == Frozen(call[c].mem, TRUE)
    <3>1. call[c].mem \in Row
      BY <1>0, <2>4 DEF FreezeWrites, LocalsInv
    <3>2. call'[c].mem = new /\ \A d \in Calls \ {c} : call'[d] = call[d]
      BY <1>0, <2>4, ProceedLocals DEF FreezeWrites
    <3>3. Fresh(c)
      BY <2>4 DEF FreezeWrites
    <3>4. Fresh(c)'
      <4>1. /\ row'.active = row.active /\ row'.epoch = row.epoch
            /\ row'.cooling = row.cooling
        BY <2>4, <2>b DEF FreezeWrites, Row
      <4>2. /\ new.active = call[c].mem.active
            /\ new.epoch = call[c].mem.epoch
            /\ new.cooling = call[c].mem.cooling
        BY <1>0, <3>1, FreezeOnly
      <4>3. QED
        BY <3>2, <3>3, <4>1, <4>2
    <3>5. QED
      BY <1>1, <2>4, <3>2, <3>4 DEF FreezeWrites
  <2>5. ASSUME NEW force \in BOOLEAN, PrecheckPasses(c, force) PROVE Goal
    BY <1>0, <1>1, <2>5, <2>a DEF PrecheckPasses, Goto, TypeOK, CallState
  <2>6. CASE Promote(c)
    BY <1>0, <1>1, <2>6, ProceedLocals DEF Promote
  <2>7. CASE ReleaseCheck(c) /\ Goto(c, "delete")
    BY <1>0, <1>1, <2>7, <2>a DEF ReleaseCheck, Goto, TypeOK, CallState
  <2>8. QED
    BY <1>4, <1>5, <2>1, <2>2, <2>3, <2>4, <2>5, <2>6, <2>7
       DEF Progress, CooldownRefuses, RejectToken, PrecheckFails,
           VerificationFails, CompletePromotion, Rollback, NothingToRollBack,
           ReleaseCheck, ReleaseDelete
<1>6. CASE CooldownElapses
  BY <1>0, <1>6 DEF CooldownElapses, TypeOK, Row
<1>7. ASSUME NEW freeze \in BOOLEAN, SetWriteFreeze(freeze) PROVE Goal
  <2>1. ASSUME NEW c \in Calls
        PROVE  call'[c].phase = call[c].phase /\ call'[c].mem = call[c].mem
    BY <1>0, <1>7 DEF SetWriteFreeze, TypeOK, CallState
  <2>2. row'.active = row.active /\ row'.epoch = row.epoch
        /\ row'.cooling = row.cooling
    BY <1>0, <1>7 DEF SetWriteFreeze, TypeOK, Row
  <2>3. QED
    BY <2>1, <2>2
<1>8. ASSUME NEW c \in Calls, DatabaseError(c) \/ Crash(c) PROVE Goal
  BY <1>4, <1>8 DEF DatabaseError, Crash
<1>9. row.active \in Regions
  BY <1>0 DEF TypeOK, Row
<1>10. QED
  BY <1>2, <1>3, <1>5, <1>6, <1>7, <1>8, <1>9
     DEF Next, IssueToken, ExpireToken, ExpireLock, AdmitWrite, vars

\* The step relation that EpochFencing states.
Fenced ==
  redis = "reliable" /\ (row'.active # row.active \/ row'.epoch # row.epoch)
    => row'.epoch = row.epoch + 1 /\ ~row.cooling

LEMMA StepFenced == IInv /\ CoherentInv /\ [Next]_vars => Fenced
<1> SUFFICES ASSUME IInv, CoherentInv, [Next]_vars, redis = "reliable"
             PROVE  Fenced
  BY DEF Fenced
<1>0. TypeOK /\ LocalsInv
  BY DEF IInv
<1> USE DEF Fenced
<1>1. CASE UNCHANGED row
  BY <1>1
<1>2. ASSUME NEW c \in Calls, call[c].mem \in Row, NEW b \in BOOLEAN,
             row' = Written(c, Frozen(call[c].mem, b))
      PROVE  Fenced
  <2>1. row'.active = row.active /\ row'.epoch = row.epoch
    BY <1>0, <1>2, FreezeOnly
  <2>2. QED
    BY <2>1
<1>3. ASSUME NEW c \in Calls, Progress(c) PROVE Fenced
  <2> USE DEF InTransition
  <2>1. CASE FreezeWrites(c)
    BY <1>0, <2>1 DEF FreezeWrites, TypeOK, Row
  <2>2. CASE PrecheckFails(c) \/ VerificationFails(c)
    <3>1. call[c].mem \in Row
      BY <1>0, <2>2 DEF PrecheckFails, VerificationFails, LocalsInv
    <3>2. call[c].mem.freeze \in BOOLEAN
      BY <3>1 DEF Row
    <3>3. QED
      BY <1>2, <2>2, <3>1, <3>2 DEF PrecheckFails, VerificationFails
  <2>3. CASE CompletePromotion(c)
    BY <1>0, <1>2, <2>3 DEF CompletePromotion, LocalsInv
  <2>4. CASE Promote(c)
    <3>1. Fresh(c) /\ row \in Row
      BY <1>0, <2>4 DEF Promote, CoherentInv, Early, TypeOK
    <3>2. row'.epoch = IF call[c].mem.epoch + 1 # call[c].mem.epoch
                       THEN call[c].mem.epoch + 1 ELSE row.epoch
      BY <2>4 DEF Promote, Moved, Written
    <3>3. QED
      BY <3>1, <3>2 DEF Fresh, Row
  <2>5. CASE Rollback(c)
    <3>1. Fresh(c) /\ row \in Row
      BY <1>0, <2>5 DEF Rollback, CoherentInv, Early, TypeOK
    <3>2. row'.epoch = IF call[c].mem.epoch + 1 # call[c].mem.epoch
                       THEN call[c].mem.epoch + 1 ELSE row.epoch
      BY <2>5 DEF Rollback, Moved, Written
    <3>3. QED
      BY <3>1, <3>2 DEF Fresh, Row
  <2>6. QED
    BY <1>1, <1>3, <2>1, <2>2, <2>3, <2>4, <2>5
       DEF Progress, ReadState, CooldownRefuses, SelectToken, RejectToken,
           ConsumeToken, PrecheckPasses, NothingToRollBack, ReleaseCheck,
           ReleaseDelete
<1>4. CASE CooldownElapses
  BY <1>0, <1>4 DEF CooldownElapses, TypeOK, Row
<1>5. ASSUME NEW freeze \in BOOLEAN, SetWriteFreeze(freeze) PROVE Fenced
  BY <1>0, <1>5 DEF SetWriteFreeze, TypeOK, Row
<1>6. QED
  BY <1>1, <1>3, <1>4, <1>5
     DEF Next, IssueToken, ExpireToken, PromoteRegion, RollbackFailover,
         DatabaseError, Crash, ExpireLock, AdmitWrite, vars

\* With Redis up every transition gets an epoch of its own and none falls into
\* the cooldown of another, although a call reads both three to six
\* transactions before it writes them.
THEOREM FencedTransitions == Spec => EpochFencing
<1>1. Init => CoherentInv
  BY DEF Init, CoherentInv, Idle, Early, InTransition
<1>2. IInv /\ CoherentInv /\ [Next]_vars => [Fenced]_row
  BY StepFenced
<1>3. [][Fenced]_row <=> EpochFencing
  BY PTL DEF Fenced, EpochFencing
<1>4. QED
  BY <1>1, <1>2, <1>3, Inductive, NextCoherent, PTL DEF Spec

-----------------------------------------------------------------------------
\* Tokens pay for epochs.  A call that has not spent its token yet, or has moved
\* the primary already, holds an epoch that others paid for.
PaidInv ==
  /\ row.epoch <= 1 + Cardinality(Used)
  /\ \A c \in Calls :
       /\ call[c].phase \in {"token", "spend", "verify"}
            => call[c].mem.epoch <= 1 + Cardinality(Used)
       /\ call[c].phase \in {"freeze", "precheck", "promote", "rollback"}
            => call[c].mem.epoch <= Cardinality(Used)

LEMMA UsedFinite == IsFiniteSet(Used) /\ Cardinality(Used) \in Nat
<1>1. IsFiniteSet(Used)
  BY FailoverAssumption, FS_Subset DEF Used
<1>2. QED
  BY <1>1, FS_CardinalityType

\* Spending a token pays, and nothing else changes what was paid.
LEMMA StepPays ==
  ASSUME IInv, [Next]_vars
  PROVE  \/ /\ \E c \in Calls : ConsumeToken(c)
            /\ Cardinality(Used') = Cardinality(Used) + 1
         \/ Used' = Used
<1>0. TypeOK /\ LocalsInv /\ TokenInv
  BY DEF IInv
<1>1. CASE UNCHANGED tok
  BY <1>1 DEF Used
<1>2. ASSUME NEW t \in Tokens, IssueToken(t) \/ ExpireToken(t)
      PROVE  Used' = Used
  BY <1>0, <1>2 DEF IssueToken, ExpireToken, Used, TypeOK
<1>3. ASSUME NEW c \in Calls, ConsumeToken(c)
      PROVE  Cardinality(Used') = Cardinality(Used) + 1
  <2> DEFINE t == call[c].token
  <2>1. t \in Tokens /\ tok[t] # "used"
    BY <1>0, <1>3 DEF ConsumeToken, LocalsInv, TokenInv
  <2>2. Used' = Used \cup {t} /\ t \notin Used
    BY <1>0, <1>3, <2>1 DEF ConsumeToken, Used, TypeOK
  <2>3. QED
    BY <2>2, UsedFinite, FS_AddElement
<1>4. QED
  BY <1>1, <1>2, <1>3
     DEF Next, PromoteRegion, RollbackFailover, Progress, ReadState,
         CooldownRefuses, SelectToken, RejectToken, FreezeWrites,
         PrecheckPasses, PrecheckFails, Promote, VerificationFails,
         CompletePromotion, Rollback, NothingToRollBack, ReleaseCheck,
         ReleaseDelete, DatabaseError, Crash, ExpireLock, CooldownElapses,
         SetWriteFreeze, AdmitWrite, vars

LEMMA InitPaid == Init => PaidInv
<1> SUFFICES ASSUME Init PROVE PaidInv
  OBVIOUS
<1>1. row.epoch = 1 /\ row.epoch <= 1 + Cardinality(Used)
  BY UsedFinite DEF Init
<1>2. \A c \in Calls : call[c].phase = "idle"
  BY DEF Init, Idle
<1>3. QED
  BY <1>1, <1>2 DEF PaidInv

LEMMA NextPaid == IInv /\ PaidInv /\ [Next]_vars => PaidInv'
<1> SUFFICES ASSUME IInv, PaidInv, [Next]_vars PROVE PaidInv'
  OBVIOUS
<1> DEFINE n == Cardinality(Used)
<1>0. TypeOK /\ LocalsInv
  BY DEF IInv
<1>n. n \in Nat /\ n' \in Nat /\ (Used' = Used => n' = n)
  <2>1. IsFiniteSet(Used) /\ IsFiniteSet(Used')
    BY FailoverAssumption, FS_Subset DEF Used
  <2>2. QED
    BY <2>1, FS_CardinalityType
<1>m. \A c \in Calls : call[c].phase \in InTransition =>
        call[c].mem \in Row /\ call[c].mem.epoch \in Nat
  BY <1>0 DEF LocalsInv, Row
<1>r. row \in Row /\ row.epoch \in Nat
  BY <1>0 DEF TypeOK, Row
<1> USE DEF PaidInv, InTransition
<1>1. CASE UNCHANGED <<row, call>> /\ Used' = Used
  BY <1>1
\* The ways a call steps without spending a token.
<1>2. ASSUME NEW c \in Calls, Used' = Used, row'.epoch = row.epoch,
             \A d \in Calls \ {c} : call'[d] = call[d],
             \/ call'[c].phase \notin InTransition
             \/ /\ call'[c].mem.epoch = call[c].mem.epoch
                /\ \/ call[c].phase = "token" /\ call'[c].phase = "spend"
                   \/ /\ call[c].phase \in {"freeze", "precheck"}
                      /\ call'[c].phase \in {"precheck", "promote"}
      PROVE  PaidInv'
  BY <1>2, <1>n, <1>m
<1>3. ASSUME NEW c \in Calls, NEW r \in Regions,
             PromoteRegion(c, r) \/ RollbackFailover(c), Used' = Used
      PROVE  PaidInv'
  BY <1>0, <1>2, <1>3
     DEF TypeOK, PromoteRegion, RollbackFailover, AcquireLock, Entering
<1>4. ASSUME NEW c \in Calls, Used' = Used, row'.epoch = row.epoch,
             call' = [call EXCEPT ![c] = Idle] \/ Return(c)
      PROVE  PaidInv'
  BY <1>0, <1>2, <1>4, RestPhases DEF TypeOK, Return
<1>5. ASSUME NEW c \in Calls, Progress(c) PROVE PaidInv'
  <2>a. call[c] \in CallState
    BY <1>0 DEF TypeOK
  <2>1. CASE ConsumeToken(c)
    <3>1. n' = n + 1
      <4>1. tok'[call[c].token] = "used" /\ tok[call[c].token] # "used"
            /\ call[c].token \in Tokens
        BY <2>1, <1>0 DEF ConsumeToken, LocalsInv, IInv, TokenInv, TypeOK
      <4>2. Used' # Used
        BY <4>1 DEF Used
      <4>3. QED
        BY <4>2, StepPays
    <3>2. /\ call'[c].phase \in {"freeze", "precheck", "rollback"}
          /\ call'[c].mem = call[c].mem
          /\ \A d \in Calls \ {c} : call'[d] = call[d]
      BY <1>0, <2>1, <2>a DEF ConsumeToken, Goto, TypeOK, CallState
    <3>3. QED
      BY <2>1, <3>1, <3>2, <1>m, <1>n, <1>r DEF ConsumeToken
  <2> SUFFICES ASSUME ~ConsumeToken(c) PROVE PaidInv'
    BY <2>1
  <2>u. Used' = Used
    BY <1>5
       DEF Progress, ReadState, CooldownRefuses, SelectToken, RejectToken,
           FreezeWrites, PrecheckPasses, PrecheckFails, Promote,
           VerificationFails, CompletePromotion, Rollback, NothingToRollBack,
           ReleaseCheck, ReleaseDelete, Used
  <2>2. CASE ReadState(c)
    <3>1. /\ call'[c].phase = "token" /\ call'[c].mem = row
          /\ \A d \in Calls \ {c} : call'[d] = call[d]
      BY <1>0, <2>2, ProceedLocals DEF ReadState
    <3>2. QED
      BY <2>2, <2>u, <3>1, <1>n DEF ReadState
  <2>3. ASSUME NEW t \in Tokens, SelectToken(c, t) PROVE PaidInv'
    <3>1. /\ call'[c].phase = "spend" /\ call'[c].mem = call[c].mem
          /\ \A d \in Calls \ {c} : call'[d] = call[d]
      BY <1>0, <2>3, <2>a DEF SelectToken, TypeOK, CallState
    <3>2. QED
      BY <1>2, <2>3, <2>u, <3>1 DEF SelectToken
  <2>4. CASE FreezeWrites(c)
    <3>1. call[c].mem \in Row
      BY <1>m, <2>4 DEF FreezeWrites
    <3>2. /\ call'[c].phase = "precheck"
          /\ call'[c].mem = Frozen(call[c].mem, TRUE)
          /\ \A d \in Calls \ {c} : call'[d] = call[d]
      <4>1. Proceed(c, "precheck", Frozen(call[c].mem, TRUE))
        BY <2>4 DEF FreezeWrites
      <4>2. call \in [Calls -> CallState]
        BY <1>0 DEF TypeOK
      <4>3. QED
        BY <4>1, <4>2 DEF Proceed, CallState
    <3>3. call'[c].mem.epoch = call[c].mem.epoch
      BY <1>0, <3>1, <3>2, FreezeOnly
    <3>4. row'.epoch = row.epoch
      BY <2>4, <1>r DEF FreezeWrites, Row
    <3>5. QED
      BY <1>2, <2>4, <2>u, <3>2, <3>3, <3>4 DEF FreezeWrites
  <2>5. ASSUME NEW force \in BOOLEAN, PrecheckPasses(c, force) PROVE PaidInv'
    <3>1. /\ call'[c].phase = "promote" /\ call'[c].mem = call[c].mem
          /\ \A d \in Calls \ {c} : call'[d] = call[d]
      BY <1>0, <2>5, <2>a DEF PrecheckPasses, Goto, TypeOK, CallState
    <3>2. QED
      BY <1>2, <2>5, <2>u, <3>1 DEF PrecheckPasses
  <2>6. CASE PrecheckFails(c) \/ VerificationFails(c) \/ CompletePromotion(c)
    <3>1. call[c].mem \in Row /\ call[c].mem.freeze \in BOOLEAN
      BY <1>m, <2>6 DEF PrecheckFails, VerificationFails, CompletePromotion, Row
    <3>2. PICK b \in BOOLEAN : row' = Written(c, Frozen(call[c].mem, b))
      BY <2>6, <3>1 DEF PrecheckFails, VerificationFails, CompletePromotion
    <3>3. row'.epoch = row.epoch
      BY <1>0, <3>1, <3>2, FreezeOnly
    <3>4. QED
      BY <1>4, <2>6, <2>u, <3>3
         DEF PrecheckFails, VerificationFails, CompletePromotion
  <2>7. CASE Promote(c)
    <3> DEFINE new == Moved(call[c].mem, call[c].target, call[c].mem.freeze,
                            call[c].mem.active)
    <3>1. /\ call'[c].phase = "verify" /\ call'[c].mem = new
          /\ \A d \in Calls \ {c} : call'[d] = call[d]
      BY <1>0, <2>7, ProceedLocals DEF Promote
    <3>2. new.epoch = call[c].mem.epoch + 1 /\ new.epoch <= 1 + n
      BY <2>7, <1>m, <1>n DEF Promote, Moved
    <3>3. row'.epoch \in {new.epoch, row.epoch}
      BY <2>7 DEF Promote, Written
    <3>4. QED
      BY <2>7, <2>u, <3>1, <3>2, <3>3, <1>m, <1>n, <1>r
  <2>8. CASE Rollback(c)
    <3> DEFINE new == Moved(call[c].mem, call[c].mem.previous, FALSE,
                            call[c].mem.previous)
    <3>1. call[c].mem.epoch <= n /\ call[c].mem.epoch \in Nat
      BY <2>8, <1>m DEF Rollback
    <3>2. row'.epoch \in {new.epoch, row.epoch} /\ new.epoch = call[c].mem.epoch + 1
      BY <2>8 DEF Rollback, Moved, Written
    <3>3. /\ call'[c].phase = "release"
          /\ \A d \in Calls \ {c} : call'[d] = call[d]
      BY <1>0, <2>8, RestPhases DEF Rollback, Return, TypeOK
    <3>4. row'.epoch <= 1 + n'
      <4> HIDE DEF new
      <4>1. new.epoch <= 1 + n
        BY <3>1, <3>2, <1>n
      <4>2. row.epoch <= 1 + n
        BY <1>n, <1>r
      <4>3. n' = n
        BY <2>u, <1>n
      <4>4. QED
        BY <3>2, <4>1, <4>2, <4>3
    <3>5. QED
      BY <2>u, <3>3, <3>4, <1>n
  <2>9. CASE ReleaseCheck(c) /\ Goto(c, "delete")
    <3>1. /\ call'[c].phase = "delete"
          /\ \A d \in Calls \ {c} : call'[d] = call[d]
      BY <1>0, <2>9, <2>a DEF Goto, TypeOK, CallState
    <3>2. QED
      BY <1>2, <2>9, <2>u, <3>1 DEF ReleaseCheck
  <2>10. QED
    BY <1>4, <1>5, <2>u, <2>2, <2>3, <2>4, <2>5, <2>6, <2>7, <2>8, <2>9
       DEF Progress, CooldownRefuses, RejectToken, NothingToRollBack,
           ReleaseCheck, ReleaseDelete
<1>6. CASE CooldownElapses
  BY <1>6, <1>n, <1>r DEF CooldownElapses, Row, Used
<1>7. ASSUME NEW freeze \in BOOLEAN, SetWriteFreeze(freeze) PROVE PaidInv'
  <2>1. ASSUME NEW c \in Calls
        PROVE  call'[c].phase = call[c].phase /\ call'[c].mem = call[c].mem
    BY <1>0, <1>7 DEF SetWriteFreeze, TypeOK, CallState
  <2>2. row'.epoch = row.epoch /\ Used' = Used
    BY <1>7, <1>r DEF SetWriteFreeze, Row, Used
  <2>3. QED
    BY <2>1, <2>2, <1>n
<1>8. ASSUME NEW c \in Calls, DatabaseError(c) \/ Crash(c) PROVE PaidInv'
  BY <1>4, <1>8 DEF DatabaseError, Crash, Used
<1>9. ASSUME NEW t \in Tokens, IssueToken(t) \/ ExpireToken(t) PROVE PaidInv'
  <2>1. Used' = Used
    BY <1>0, <1>9 DEF IssueToken, ExpireToken, Used, TypeOK
  <2>2. QED
    BY <1>1, <1>9, <2>1 DEF IssueToken, ExpireToken
<1>10. CASE ExpireLock \/ (\E r \in Regions : AdmitWrite(r)) \/ UNCHANGED vars
  <2>1. UNCHANGED <<row, call, tok>>
    BY <1>10 DEF ExpireLock, AdmitWrite, vars
  <2>2. QED
    BY <1>1, <2>1 DEF Used
<1>11. ASSUME NEW c \in Calls, NEW r \in Regions,
              PromoteRegion(c, r) \/ RollbackFailover(c)
       PROVE  PaidInv'
  <2>1. Used' = Used
    BY <1>11 DEF PromoteRegion, RollbackFailover, Used
  <2>2. QED
    BY <1>3, <1>11, <2>1
<1>12. QED
  <2>1. (\E c \in Calls, r \in Regions : PromoteRegion(c, r) \/ RollbackFailover(c))
          => PaidInv'
    BY <1>11
  <2>2. (\E c \in Calls : RollbackFailover(c)) => \E c \in Calls, r \in Regions :
          PromoteRegion(c, r) \/ RollbackFailover(c)
    BY <1>0 DEF TypeOK, Row
  <2>3. QED
    BY <1>5, <1>6, <1>7, <1>8, <1>9, <1>10, <2>1, <2>2 DEF Next

\* From the commit of its token to the commit of its move a call holds a token of
\* its purpose that is consumed, that no other call holds and that has bought no
\* move; what bought one is consumed.
Holding == {"freeze", "precheck", "promote", "rollback"}

PurseInv ==
  /\ \A t \in moved : tok[t] = "used"
  /\ \A c \in Calls :
       /\ call[c].phase \in {"freeze", "precheck", "promote"} => call[c].kind = "promote"
       /\ call[c].phase = "rollback" => call[c].kind = "rollback"
       /\ call[c].phase \in Holding \cup {"spend"} => call[c].token \in Purpose(c)
       /\ call[c].phase \in Holding =>
            /\ tok[call[c].token] = "used"
            /\ call[c].token \notin moved
  /\ \A c, d \in Calls : call[c].phase \in Holding /\ call[d].phase \in Holding
                            /\ call[c].token = call[d].token => c = d

\* What a call's own step must see to for the invariant to last: the tokens of
\* the others are consumed, and so out of reach of a lookup.
LEMMA PurseStep ==
  ASSUME IInv, PurseInv, NEW c \in Calls, call' \in [Calls -> CallState],
         \A d \in Calls \ {c} : call'[d] = call[d],
         \A t \in Tokens : tok[t] = "used" => tok'[t] = "used",
         \/ call'[c].phase \notin Holding \cup {"spend"} /\ moved' = moved
         \/ /\ call'[c].kind = call[c].kind /\ call'[c].token = call[c].token
            /\ moved' = moved
            /\ \/ call[c].phase \in Holding /\ call'[c].phase \in Holding
                  /\ (call'[c].phase = "rollback" <=> call[c].phase = "rollback")
               \/ call[c].phase = "spend" /\ call'[c].phase \in Holding
                  /\ (call'[c].phase = "rollback" <=> call[c].kind = "rollback")
                  /\ tok'[call[c].token] = "used"
         \/ /\ call'[c].phase = "spend" /\ moved' = moved
            /\ call'[c].token \in Purpose(c)'
         \/ /\ call[c].phase \in Holding /\ call'[c].phase \notin Holding \cup {"spend"}
            /\ moved' = moved \cup {call[c].token}
  PROVE  PurseInv'
<1>0. /\ TypeOK /\ LocalsInv /\ TokenInv
      /\ \A d \in Calls : call[d] \in CallState /\ call'[d] \in CallState
  BY DEF IInv, TypeOK
<1>1. \A d \in Calls : call[d].phase \in Holding => call[d].token \in Tokens
  BY <1>0 DEF LocalsInv, Holding
<1>2. moved \subseteq Tokens
  BY <1>0 DEF TypeOK
<1>3. \A d \in Calls \ {c} : Purpose(d)' = Purpose(d)
  BY DEF Purpose
<1>4. \A t \in moved' : tok'[t] = "used"
  BY <1>1, <1>2 DEF PurseInv
<1>5. call[c].phase = "spend" => tok[call[c].token] # "used"
  BY <1>0 DEF TokenInv
<1>6. ASSUME NEW d \in Calls \ {c}
      PROVE  /\ call'[d].phase \in {"freeze", "precheck", "promote"} => call'[d].kind = "promote"
             /\ call'[d].phase = "rollback" => call'[d].kind = "rollback"
             /\ call'[d].phase \in Holding \cup {"spend"} => call'[d].token \in Purpose(d)'
             /\ call'[d].phase \in Holding =>
                  /\ tok'[call'[d].token] = "used"
                  /\ call'[d].token \notin moved'
  BY <1>1, <1>3, <1>6 DEF PurseInv
<1>7. /\ call'[c].phase \in {"freeze", "precheck", "promote"} => call'[c].kind = "promote"
      /\ call'[c].phase = "rollback" => call'[c].kind = "rollback"
      /\ call'[c].phase \in Holding \cup {"spend"} => call'[c].token \in Purpose(c)'
      /\ call'[c].phase \in Holding =>
           /\ tok'[call'[c].token] = "used"
           /\ call'[c].token \notin moved'
  BY <1>0, <1>1, <1>5 DEF PurseInv, Purpose, Holding, CallState
<1>8. \A a, b \in Calls : call'[a].phase \in Holding /\ call'[b].phase \in Holding
                             /\ call'[a].token = call'[b].token => a = b
  BY <1>0, <1>1, <1>5 DEF PurseInv, Holding
<1>9. QED
  BY <1>4, <1>6, <1>7, <1>8 DEF PurseInv

\* A token once consumed stays consumed.
LEMMA UsedStays ==
  ASSUME TypeOK, [Next]_vars
  PROVE  \A t \in Tokens : tok[t] = "used" => tok'[t] = "used"
<1>1. CASE UNCHANGED tok
  BY <1>1
<1>2. ASSUME NEW t \in Tokens, IssueToken(t) \/ ExpireToken(t)
      PROVE  \A u \in Tokens : tok[u] = "used" => tok'[u] = "used"
  BY <1>2 DEF IssueToken, ExpireToken, TypeOK
<1>3. ASSUME NEW c \in Calls, ConsumeToken(c)
      PROVE  \A u \in Tokens : tok[u] = "used" => tok'[u] = "used"
  BY <1>3 DEF ConsumeToken, TypeOK
<1>4. QED
  BY <1>1, <1>2, <1>3
     DEF Next, PromoteRegion, RollbackFailover, Progress, ReadState,
         CooldownRefuses, SelectToken, RejectToken, FreezeWrites,
         PrecheckPasses, PrecheckFails, Promote, VerificationFails,
         CompletePromotion, Rollback, NothingToRollBack, ReleaseCheck,
         ReleaseDelete, DatabaseError, Crash, ExpireLock, CooldownElapses,
         SetWriteFreeze, AdmitWrite, vars

LEMMA NextPurse == IInv /\ PurseInv /\ [Next]_vars => PurseInv'
<1> SUFFICES ASSUME IInv, PurseInv, [Next]_vars PROVE PurseInv'
  OBVIOUS
<1>0. TypeOK /\ LocalsInv /\ TokenInv /\ TypeOK'
  BY NextType DEF IInv
<1>t. /\ call \in [Calls -> CallState] /\ call' \in [Calls -> CallState]
      /\ \A c \in Calls : call[c] \in CallState
  BY <1>0 DEF TypeOK
<1>u. \A t \in Tokens : tok[t] = "used" => tok'[t] = "used"
  BY <1>0, UsedStays
<1>h. \A c \in Calls : call[c].phase \in Holding => call[c].token \in Tokens
  BY <1>0 DEF LocalsInv, Holding
\* A step that leaves handlers and moves alone, and one that ends a handler.
<1>1. ASSUME UNCHANGED moved,
             \A c \in Calls : /\ call'[c].phase = call[c].phase
                               /\ call'[c].kind = call[c].kind
                               /\ call'[c].token = call[c].token
      PROVE  PurseInv'
  <2>1. \A c \in Calls : Purpose(c)' = Purpose(c)
    BY <1>1 DEF Purpose
  <2>2. moved \subseteq Tokens
    BY <1>0 DEF TypeOK
  <2>3. QED
    BY <1>1, <1>u, <1>h, <2>1, <2>2 DEF PurseInv
<1>2. ASSUME NEW c \in Calls, UNCHANGED moved,
             call' = [call EXCEPT ![c] = Idle] \/ Return(c)
      PROVE  PurseInv'
  <2>1. call'[c].phase \notin Holding \cup {"spend"}
        /\ \A d \in Calls \ {c} : call'[d] = call[d]
    BY <1>2, <1>t, RestPhases DEF Return, Holding
  <2>2. QED
    BY <1>2, <1>t, <1>u, <2>1, PurseStep
<1>3. ASSUME NEW c \in Calls, NEW r \in Regions,
             PromoteRegion(c, r) \/ RollbackFailover(c)
      PROVE  PurseInv'
  <2>1. CASE UNCHANGED call
    BY <1>1, <1>3, <2>1 DEF PromoteRegion, RollbackFailover
  <2>2. CASE ~UNCHANGED call
    <3>1. call'[c].phase \notin Holding \cup {"spend"}
          /\ \A d \in Calls \ {c} : call'[d] = call[d]
      BY <1>3, <1>t, <2>2
         DEF PromoteRegion, RollbackFailover, AcquireLock, Entering, Holding
    <3>2. QED
      BY <1>3, <1>t, <1>u, <3>1, PurseStep DEF PromoteRegion, RollbackFailover
  <2>3. QED
    BY <2>1, <2>2
<1>4. ASSUME NEW c \in Calls, Progress(c) PROVE PurseInv'
  <2>1. CASE ReadState(c)
    <3>1. call'[c].phase = "token" /\ \A d \in Calls \ {c} : call'[d] = call[d]
      BY <1>0, <2>1, ProceedLocals DEF ReadState
    <3>2. QED
      BY <1>t, <1>u, <2>1, <3>1, PurseStep DEF ReadState, Holding
  <2>2. ASSUME NEW t \in Tokens, SelectToken(c, t) PROVE PurseInv'
    <3>1. /\ call'[c].phase = "spend" /\ call'[c].token = t
          /\ call'[c].kind = call[c].kind
          /\ \A d \in Calls \ {c} : call'[d] = call[d]
      BY <1>t, <2>2 DEF SelectToken, CallState
    <3>2. call'[c].token \in Purpose(c)' /\ moved' = moved
      BY <2>2, <3>1 DEF SelectToken, Purpose
    <3>3. QED
      BY <1>t, <1>u, <3>1, <3>2, PurseStep
  <2>3. CASE ConsumeToken(c)
    <3>1. /\ call[c].phase = "spend" /\ call'[c].phase \in Holding
          /\ call'[c].phase = "rollback" <=> call[c].kind = "rollback"
          /\ call'[c].kind = call[c].kind /\ call'[c].token = call[c].token
          /\ \A d \in Calls \ {c} : call'[d] = call[d]
      BY <1>t, <2>3 DEF ConsumeToken, Goto, CallState, Holding
    <3>2. tok'[call[c].token] = "used" /\ moved' = moved
      BY <1>0, <2>3 DEF ConsumeToken, LocalsInv, TypeOK
    <3>3. QED
      BY <1>t, <1>u, <3>1, <3>2, PurseStep
  <2>4. ASSUME NEW p \in {"precheck", "promote"}, call[c].phase \in {"freeze", "precheck"},
               UNCHANGED moved,
               Goto(c, p) \/ \E new : Proceed(c, p, new)
        PROVE  PurseInv'
    <3>1. /\ call'[c].phase = p
          /\ call'[c].kind = call[c].kind /\ call'[c].token = call[c].token
          /\ \A d \in Calls \ {c} : call'[d] = call[d]
      <4>1. CASE Goto(c, p)
        BY <1>t, <4>1 DEF Goto, CallState
      <4>2. ASSUME NEW new, Proceed(c, p, new)
            PROVE  /\ call'[c].phase = p
                   /\ call'[c].kind = call[c].kind /\ call'[c].token = call[c].token
                   /\ \A d \in Calls \ {c} : call'[d] = call[d]
        BY <1>t, <4>2 DEF Proceed, CallState
      <4>3. QED
        BY <2>4, <4>1, <4>2
    <3>2. QED
      BY <1>t, <1>u, <2>4, <3>1, PurseStep DEF Holding
  <2>5. CASE Promote(c) \/ Rollback(c)
    <3>1. /\ call[c].phase \in Holding /\ moved' = moved \cup {call[c].token}
          /\ call'[c].phase \notin Holding \cup {"spend"}
          /\ \A d \in Calls \ {c} : call'[d] = call[d]
      <4>1. CASE Promote(c)
        BY <1>0, <4>1, ProceedLocals DEF Promote, Holding
      <4>2. CASE Rollback(c)
        BY <1>t, <4>2, RestPhases DEF Rollback, Return, Holding
      <4>3. QED
        BY <2>5, <4>1, <4>2
    <3>2. QED
      BY <1>t, <1>u, <3>1, PurseStep
  <2>6. CASE ReleaseCheck(c) /\ Goto(c, "delete")
    <3>1. /\ call'[c].phase = "delete"
          /\ \A d \in Calls \ {c} : call'[d] = call[d]
      BY <1>t, <2>6 DEF Goto, CallState
    <3>2. QED
      BY <1>t, <1>u, <2>6, <3>1, PurseStep DEF ReleaseCheck, Holding
  <2>7. CASE FreezeWrites(c) \/ \E force \in BOOLEAN : PrecheckPasses(c, force)
    BY <2>4, <2>7 DEF FreezeWrites, PrecheckPasses
  <2>8. CASE /\ UNCHANGED moved
             /\ call' = [call EXCEPT ![c] = Idle] \/ Return(c)
    BY <1>2, <2>8
  <2>9. QED
    BY <1>4, <2>1, <2>2, <2>3, <2>5, <2>6, <2>7, <2>8
       DEF Progress, CooldownRefuses, RejectToken, PrecheckFails,
           VerificationFails, CompletePromotion, NothingToRollBack,
           ReleaseCheck, ReleaseDelete
<1>5. ASSUME NEW freeze \in BOOLEAN, SetWriteFreeze(freeze) PROVE PurseInv'
  <2>1. ASSUME NEW c \in Calls
        PROVE  /\ call'[c].phase = call[c].phase /\ call'[c].kind = call[c].kind
               /\ call'[c].token = call[c].token
    BY <1>t, <1>5 DEF SetWriteFreeze, CallState
  <2>2. QED
    BY <1>1, <1>5, <2>1 DEF SetWriteFreeze
<1>6. ASSUME NEW c \in Calls, DatabaseError(c) \/ Crash(c) PROVE PurseInv'
  BY <1>2, <1>6 DEF DatabaseError, Crash
<1>7. ASSUME NEW c \in Calls, RollbackFailover(c) PROVE PurseInv'
  BY <1>0, <1>3, <1>7 DEF TypeOK, Row
<1>8. QED
  BY <1>1, <1>3, <1>4, <1>5, <1>6, <1>7
     DEF Next, IssueToken, ExpireToken, ExpireLock, CooldownElapses, AdmitWrite,
         vars

\* The step relation that TransitionsPaid states.
Bought ==
  /\ moved \subseteq moved'
  /\ row'.active # row.active \/ row'.epoch # row.epoch
       => \E c \in Calls, t \in Tokens : PaidBy(c, t)

LEMMA StepBought == IInv /\ PurseInv /\ [Next]_vars => Bought
<1> SUFFICES ASSUME IInv, PurseInv, [Next]_vars PROVE Bought
  OBVIOUS
<1>0. TypeOK /\ LocalsInv /\ TokenInv /\ row \in Row
  BY DEF IInv, TypeOK
<1>1. CASE row'.active = row.active /\ row'.epoch = row.epoch /\ moved' = moved
  BY <1>1 DEF Bought
<1>2. ASSUME NEW c \in Calls, Promote(c) \/ Rollback(c) PROVE Bought
  <2> DEFINE t == call[c].token
  <2>1. /\ call[c].phase \in {"promote", "rollback"} /\ call[c].phase \in Holding
        /\ moved' = moved \cup {t}
    BY <1>2 DEF Promote, Rollback, Holding
  <2>2. /\ t \in Tokens /\ tok[t] = "used" /\ t \in Purpose(c) /\ t \notin moved
        /\ call[c].phase = call[c].kind
    BY <1>0, <2>1 DEF PurseInv, LocalsInv, Holding
  <2>3. uses[t] = 1
    BY <1>0, <2>2 DEF TokenInv
  <2>4. PaidBy(c, t)
    BY <2>1, <2>2, <2>3 DEF PaidBy
  <2>5. QED
    BY <2>1, <2>2, <2>4 DEF Bought
<1>3. ASSUME NEW c \in Calls, call[c].mem \in Row, NEW b \in BOOLEAN,
             row' = Written(c, Frozen(call[c].mem, b)), UNCHANGED moved
      PROVE  Bought
  BY <1>0, <1>1, <1>3, FreezeOnly
<1>4. ASSUME NEW c \in Calls, Progress(c) PROVE Bought
  <2>1. CASE FreezeWrites(c)
    BY <1>0, <1>1, <2>1 DEF FreezeWrites, Row
  <2>2. CASE PrecheckFails(c) \/ VerificationFails(c) \/ CompletePromotion(c)
    <3>1. call[c].mem \in Row /\ call[c].mem.freeze \in BOOLEAN
      BY <1>0, <2>2
         DEF PrecheckFails, VerificationFails, CompletePromotion, LocalsInv,
             InTransition, Row
    <3>2. QED
      BY <1>3, <2>2, <3>1 DEF PrecheckFails, VerificationFails, CompletePromotion
  <2>3. CASE UNCHANGED <<row, moved>>
    BY <1>1, <2>3
  <2>4. QED
    BY <1>2, <1>4, <2>1, <2>2, <2>3
       DEF Progress, ReadState, CooldownRefuses, SelectToken, RejectToken,
           ConsumeToken, PrecheckPasses, NothingToRollBack, ReleaseCheck,
           ReleaseDelete
<1>5. CASE CooldownElapses
  BY <1>0, <1>1, <1>5 DEF CooldownElapses, Row
<1>6. ASSUME NEW freeze \in BOOLEAN, SetWriteFreeze(freeze) PROVE Bought
  BY <1>0, <1>1, <1>6 DEF SetWriteFreeze, Row
<1>7. QED
  BY <1>1, <1>4, <1>5, <1>6
     DEF Next, IssueToken, ExpireToken, PromoteRegion, RollbackFailover,
         DatabaseError, Crash, ExpireLock, AdmitWrite, vars

\* Whatever Redis does: every move of the primary and of the epoch is bought by a
\* consumed token of the moving call's own purpose, and no token buys two.
THEOREM PaidTransitions == Spec => TransitionsPaid
<1>1. Init => PurseInv
  BY DEF Init, PurseInv, Idle, Holding
<1>2. IInv /\ PurseInv /\ [Next]_vars => [Bought]_<<row, moved>>
  BY StepBought
<1>3. [][Bought]_<<row, moved>> <=> TransitionsPaid
  BY PTL DEF Bought, TransitionsPaid
<1>4. QED
  BY <1>1, <1>2, <1>3, Inductive, NextPurse, PTL DEF Spec

-----------------------------------------------------------------------------
\* With Redis up every step of the server serves a write, spends a token, moves
\* the primary into the next epoch, or does nothing a client could notice.
ServeStep ==
  /\ served' = <<row.epoch, row.active>>
  /\ UNCHANGED <<row, tok>>

PayStep ==
  /\ Cardinality(Used') = Cardinality(Used) + 1
  /\ UNCHANGED <<row, served>>

MoveStep ==
  /\ row.epoch <= Cardinality(Used) /\ ~row.cooling
  /\ row'.active \in Regions
  /\ row'.epoch = row.epoch + 1
  /\ row'.cooling
  /\ UNCHANGED <<tok, served>>

QuietStep ==
  /\ row'.active = row.active /\ row'.epoch = row.epoch
  /\ row'.cooling \in {row.cooling, FALSE}
  /\ Used' = Used
  /\ UNCHANGED served

Safe == IInv /\ CoherentInv /\ PaidInv

LEMMA RedisKept == [Next]_vars => redis' = redis
  BY DEF Next, IssueToken, ExpireToken, PromoteRegion, RollbackFailover,
         Progress, ReadState, CooldownRefuses, SelectToken, RejectToken,
         ConsumeToken, FreezeWrites, PrecheckPasses, PrecheckFails, Promote,
         VerificationFails, CompletePromotion, Rollback, NothingToRollBack,
         ReleaseCheck, ReleaseDelete, DatabaseError, Crash, ExpireLock,
         CooldownElapses, SetWriteFreeze, AdmitWrite, vars

\* A handler moves the primary with the copy it read: epoch and cooldown still
\* are the committed ones, and its token is among the spent ones.
LEMMA StepMoves ==
  ASSUME Safe, Up, NEW c \in Calls, call[c].phase \in {"promote", "rollback"},
         NEW r \in Regions, NEW previous \in Regions \cup {None},
         NEW freeze \in BOOLEAN,
         row' = Written(c, Moved(call[c].mem, r, freeze, previous)),
         UNCHANGED <<tok, served>>
  PROVE  MoveStep
<1> DEFINE mem == call[c].mem
           new == Moved(mem, r, freeze, previous)
<1>1. row \in Row /\ mem \in Row
  BY DEF Safe, IInv, TypeOK, LocalsInv, InTransition
<1>2. /\ ~row.cooling /\ ~mem.cooling
      /\ row.active = mem.active /\ row.epoch = mem.epoch
  BY DEF Safe, CoherentInv, Up, Fresh, Early, InTransition
<1>3. mem.epoch <= Cardinality(Used)
  BY DEF Safe, PaidInv
<1>4. QED
  BY <1>1, <1>2, <1>3 DEF Written, Moved, Row, MoveStep

\* Every other handler step leaves what clients can see as it is.
LEMMA StepQuiet ==
  ASSUME Safe, NEW c \in Calls, Progress(c),
         ~ConsumeToken(c), ~Promote(c), ~Rollback(c)
  PROVE  QuietStep
<1>0. TypeOK /\ LocalsInv /\ row \in Row
  BY DEF Safe, IInv, TypeOK
<1>1. CASE UNCHANGED <<row, tok, served>>
  BY <1>1 DEF QuietStep, Used
<1>2. CASE FreezeWrites(c)
  BY <1>0, <1>2 DEF FreezeWrites, QuietStep, Used, Row
<1>3. CASE PrecheckFails(c) \/ VerificationFails(c) \/ CompletePromotion(c)
  <2>1. call[c].mem \in Row /\ call[c].mem.freeze \in BOOLEAN
    BY <1>0, <1>3
       DEF PrecheckFails, VerificationFails, CompletePromotion, LocalsInv,
           InTransition, Row
  <2>2. PICK b \in BOOLEAN : row' = Written(c, Frozen(call[c].mem, b))
    BY <1>3, <2>1 DEF PrecheckFails, VerificationFails, CompletePromotion
  <2>3. /\ row'.active = row.active /\ row'.epoch = row.epoch
        /\ row'.cooling = row.cooling
    BY <1>0, <2>1, <2>2, FreezeOnly
  <2>4. UNCHANGED <<tok, served>>
    BY <1>3 DEF PrecheckFails, VerificationFails, CompletePromotion
  <2>5. QED
    BY <2>3, <2>4 DEF QuietStep, Used
<1>4. QED
  BY <1>1, <1>2, <1>3
     DEF Progress, ReadState, CooldownRefuses, SelectToken, RejectToken,
         PrecheckPasses, NothingToRollBack, ReleaseCheck, ReleaseDelete

LEMMA StepShape ==
  ASSUME Safe, Up, [Next]_vars
  PROVE  ServeStep \/ PayStep \/ MoveStep \/ QuietStep
<1>0. TypeOK /\ LocalsInv /\ IInv /\ row \in Row
  BY DEF Safe, IInv, TypeOK
<1>1. CASE UNCHANGED <<row, tok, served>>
  BY <1>1 DEF QuietStep, Used
<1>2. ASSUME NEW t \in Tokens, IssueToken(t) \/ ExpireToken(t) PROVE QuietStep
  BY <1>0, <1>2 DEF IssueToken, ExpireToken, QuietStep, Used, TypeOK
<1>3. ASSUME NEW c \in Calls, ConsumeToken(c) PROVE PayStep
  <2>1. call[c].token \in Tokens /\ tok[call[c].token] # "used"
    BY <1>0, <1>3 DEF ConsumeToken, LocalsInv, IInv, TokenInv
  <2>2. /\ Used' = Used \cup {call[c].token}
        /\ call[c].token \notin Used
    BY <1>0, <1>3, <2>1 DEF ConsumeToken, Used, TypeOK
  <2>3. QED
    BY <1>3, <2>2, UsedFinite, FS_AddElement DEF PayStep, ConsumeToken
<1>4. ASSUME NEW c \in Calls, Promote(c) PROVE MoveStep
  <2>1. /\ call[c].target \in Regions
        /\ call[c].mem.active \in Regions /\ call[c].mem.freeze \in BOOLEAN
    BY <1>0, <1>4 DEF Promote, LocalsInv, InTransition, Row
  <2>2. QED
    BY <1>4, <2>1, StepMoves DEF Promote
<1>5. ASSUME NEW c \in Calls, Rollback(c) PROVE MoveStep
  <2>1. call[c].mem.previous \in Regions
    BY <1>0, <1>5 DEF Rollback, LocalsInv, InTransition, Row
  <2>2. QED
    BY <1>5, <2>1, StepMoves DEF Rollback
<1>6. ASSUME NEW c \in Calls, Progress(c)
      PROVE  PayStep \/ MoveStep \/ QuietStep
  BY <1>3, <1>4, <1>5, <1>6, StepQuiet
<1>7. ASSUME NEW freeze \in BOOLEAN, SetWriteFreeze(freeze) PROVE QuietStep
  BY <1>0, <1>7 DEF SetWriteFreeze, QuietStep, Used, Row
<1>8. CASE CooldownElapses
  BY <1>0, <1>8 DEF CooldownElapses, QuietStep, Used, Row
<1>9. ASSUME NEW r \in Regions, AdmitWrite(r) PROVE ServeStep
  BY <1>9 DEF AdmitWrite, ServeStep, Up
<1>10. QED
  BY <1>1, <1>2, <1>6, <1>7, <1>8, <1>9
     DEF Next, PromoteRegion, RollbackFailover, DatabaseError, Crash,
         ExpireLock, vars

LEMMA AlwaysSafe == Spec => []Safe
<1>1. Init => CoherentInv
  BY DEF Init, CoherentInv, Idle, Early, InTransition
<1>2. QED
  BY <1>1, InitPaid, NextPaid, NextCoherent, Inductive, PTL DEF Spec, Safe

-----------------------------------------------------------------------------
\* The write admitted last is of the current epoch and region, or older.
ServedInv ==
  Up => /\ served[1] <= row.epoch
        /\ served[1] = row.epoch => served[2] = row.active

LEMMA NextServed == Safe /\ ServedInv /\ [Next]_vars => ServedInv'
<1> SUFFICES ASSUME Safe, ServedInv, [Next]_vars, Up PROVE ServedInv'
  BY RedisKept DEF ServedInv, Up
<1>1. TypeOK /\ row \in Row /\ served \in Nat \X Regions
  BY DEF Safe, IInv, TypeOK
<1>2. CASE ServeStep
  BY <1>1, <1>2 DEF ServeStep, ServedInv, Row
<1>3. CASE PayStep
  BY <1>3 DEF PayStep, ServedInv
<1>4. CASE MoveStep
  BY <1>1, <1>4 DEF MoveStep, ServedInv, Row
<1>5. CASE QuietStep
  BY <1>5 DEF QuietStep, ServedInv
<1>6. QED
  BY <1>2, <1>3, <1>4, <1>5, StepShape

\* The step relation that ServedInOrder states.
Ordered ==
  redis = "reliable" =>
    \/ served'[1] > served[1]
    \/ served'[1] = served[1] /\ served'[2] = served[2]

LEMMA StepOrdered == Safe /\ ServedInv /\ [Next]_vars => Ordered
<1> SUFFICES ASSUME Safe, ServedInv, [Next]_vars, Up PROVE Ordered
  BY DEF Ordered, Up
<1>1. row \in Row /\ served \in Nat \X Regions
  BY DEF Safe, IInv, TypeOK
<1>2. CASE ServeStep
  BY <1>1, <1>2 DEF ServeStep, ServedInv, Row, Ordered
<1>3. CASE UNCHANGED served
  BY <1>3 DEF Ordered
<1>4. QED
  BY <1>2, <1>3, StepShape DEF PayStep, MoveStep, QuietStep

\* With Redis up the write gate never admits writes of one epoch in two regions,
\* nor a write of an epoch that a later one has replaced.
THEOREM WritesInOrder == Spec => ServedInOrder
<1>1. Init => ServedInv
  BY DEF Init, ServedInv
<1>2. Safe /\ ServedInv /\ [Next]_vars => [Ordered]_served
  BY StepOrdered
<1>3. [][Ordered]_served <=> ServedInOrder
  BY PTL DEF Ordered, ServedInOrder
<1>4. QED
  BY <1>1, <1>2, <1>3, AlwaysSafe, NextServed, PTL DEF Spec

-----------------------------------------------------------------------------
LEMMA InitRegister == Init => Register!Init
<1> SUFFICES ASSUME Init PROVE Register!Init
  OBVIOUS
<1>1. row.active \in Regions /\ Somewhere \in Regions
  BY DEF Init, Somewhere
<1>2. Used = {} /\ Cardinality(Used) = 0
  BY FS_EmptySet DEF Init, Used
<1>3. QED
  BY <1>1, <1>2 DEF Init, Register!Init, Up

\* Without Redis the server still pays for its epochs, and nothing more is
\* promised of it.
LEMMA StepUsed ==
  ASSUME Safe, [Next]_vars
  PROVE  Cardinality(Used') = Cardinality(Used) + 1 \/ Used' = Used
  BY StepPays DEF Safe

LEMMA StepRegister == Safe /\ [Next]_vars => [Register!Next]_(Register!vars)
<1> SUFFICES ASSUME Safe, [Next]_vars
             PROVE  Register!Next \/ UNCHANGED Register!vars
  OBVIOUS
<1> USE DEF Register!Next, Register!vars
<1>1. Up' = Up
  BY RedisKept DEF Up
<1>2. CASE ~Up
  BY <1>1, <1>2, StepUsed DEF Register!Pay
<1>3. CASE Up
  <2>1. CASE ServeStep
    BY <1>1, <1>3, <2>1 DEF ServeStep, Register!Serve, Used
  <2>2. CASE PayStep
    BY <1>1, <1>3, <2>2 DEF PayStep, Register!Pay
  <2>3. CASE MoveStep
    <3>1. Register!Transfer(row'.active)
      BY <1>1, <1>3, <2>3 DEF MoveStep, Register!Transfer, Used, Safe, IInv, TypeOK, Row
    <3>2. QED
      BY <2>3, <3>1 DEF MoveStep
  <2>4. CASE QuietStep
    BY <1>1, <1>3, <2>4 DEF QuietStep, Register!Cool
  <2>5. QED
    BY <1>3, <2>1, <2>2, <2>3, <2>4, StepShape
<1>4. QED
  BY <1>2, <1>3

\* The whole control plane, with its calls, locks, tokens, crashes and retries,
\* is an atomic register of the primary region while Redis is up.
THEOREM Implementation == Spec => ImplementsRegister
<1>1. Spec => Register!Spec
  BY InitRegister, StepRegister, AlwaysSafe, PTL DEF Spec, Register!Spec
<1>2. QED
  BY <1>1 DEF ImplementsRegister

-----------------------------------------------------------------------------
\* Between its freeze and its verification a promotion knows the row frozen, and
\* the row is what the call knows unless an operator thawed it meanwhile.
FrozenInv ==
  FreezeOnUnhealthy /\ Up =>
    \A c \in Calls :
      /\ call[c].phase \in {"precheck", "promote", "verify"} => call[c].mem.freeze
      /\ call[c].phase \in InTransition /\ call[c].mem.freeze /\ ~call[c].thawed
           => row.freeze

LEMMA NextFrozen == IInv /\ FrozenInv /\ [Next]_vars => FrozenInv'
<1> SUFFICES ASSUME IInv, FrozenInv, [Next]_vars, FreezeOnUnhealthy, Up
             PROVE  FrozenInv'
  BY RedisKept DEF FrozenInv, Up
<1>0. TypeOK /\ LocalsInv /\ LeaseInv /\ row \in Row
  BY DEF IInv, TypeOK
<1>a. \A c \in Calls : call[c] \in CallState
  BY <1>0 DEF TypeOK
<1> USE DEF FrozenInv, InTransition, Running
<1>1. CASE UNCHANGED <<call, row>>
  BY <1>1
\* Only the call that owns the lease is in a transition, so it alone can disturb
\* the invariant.
<1>2. ASSUME NEW c \in Calls, call[c].phase \in Running,
             \A d \in Calls \ {c} : call'[d] = call[d],
             \/ call'[c].phase \notin InTransition
             \/ /\ call'[c].phase \in {"precheck", "promote", "verify"}
                     => call'[c].mem.freeze
                /\ call'[c].mem.freeze /\ ~call'[c].thawed => row'.freeze
      PROVE  FrozenInv'
  <2>1. \A d \in Calls \ {c} : call[d].phase \notin Running
    BY <1>0, <1>2 DEF LeaseInv, Up
  <2>2. QED
    BY <1>2, <2>1
<1>3. ASSUME NEW c \in Calls, NEW r \in Regions,
             PromoteRegion(c, r) \/ RollbackFailover(c)
      PROVE  FrozenInv'
  BY <1>0, <1>3
     DEF TypeOK, PromoteRegion, RollbackFailover, AcquireLock, Entering
<1>4. ASSUME NEW c \in Calls, call[c].phase \in Running,
             call' = [call EXCEPT ![c] = Idle] \/ Return(c)
      PROVE  FrozenInv'
  BY <1>0, <1>2, <1>4, RestPhases DEF TypeOK, Return
<1>5. ASSUME NEW c \in Calls, Progress(c) PROVE FrozenInv'
  <2>1. CASE ReadState(c)
    BY <1>0, <1>2, <2>1, ProceedLocals DEF ReadState
  <2>2. ASSUME NEW t \in Tokens, SelectToken(c, t) PROVE FrozenInv'
    BY <1>0, <1>a, <1>2, <2>2 DEF SelectToken, TypeOK, CallState
  <2>3. CASE ConsumeToken(c)
    BY <1>0, <1>a, <1>2, <2>3 DEF ConsumeToken, Goto, TypeOK, CallState
  <2>4. CASE FreezeWrites(c)
    <3>1. row'.freeze \/ call'[c].thawed
      BY <1>0, <1>a, <2>4 DEF FreezeWrites, Proceed, TypeOK, CallState, Row
    <3>2. call'[c].mem = Frozen(call[c].mem, TRUE) /\ call[c].mem \in Row
          /\ \A d \in Calls \ {c} : call'[d] = call[d]
      BY <1>0, <2>4, ProceedLocals DEF FreezeWrites, LocalsInv
    <3>3. call'[c].mem.freeze
      BY <3>2 DEF Frozen, Row
    <3>4. QED
      BY <1>2, <2>4, <3>1, <3>2, <3>3 DEF FreezeWrites
  <2>5. ASSUME NEW force \in BOOLEAN, PrecheckPasses(c, force) PROVE FrozenInv'
    BY <1>0, <1>a, <1>2, <2>5 DEF PrecheckPasses, Goto, TypeOK, CallState
  <2>6. CASE Promote(c)
    <3> DEFINE new == Moved(call[c].mem, call[c].target, call[c].mem.freeze,
                            call[c].mem.active)
    <3>1. call'[c].mem.freeze = call[c].mem.freeze
          /\ \A d \in Calls \ {c} : call'[d] = call[d]
      BY <1>0, <2>6, ProceedLocals DEF Promote, Moved
    <3>2. row'.freeze = row.freeze
      BY <2>6 DEF Promote, Written, Moved
    <3>3. call'[c].thawed = call[c].thawed
      BY <1>0, <1>a, <2>6 DEF Promote, Proceed, TypeOK, CallState
    <3>4. QED
      BY <1>2, <2>6, <3>1, <3>2, <3>3 DEF Promote
  <2>7. CASE ReleaseCheck(c) /\ Goto(c, "delete")
    BY <1>0, <1>a, <1>2, <2>7 DEF ReleaseCheck, Goto, TypeOK, CallState
  <2>8. QED
    BY <1>4, <1>5, <2>1, <2>2, <2>3, <2>4, <2>5, <2>6, <2>7
       DEF Progress, CooldownRefuses, RejectToken, PrecheckFails,
           VerificationFails, CompletePromotion, Rollback, NothingToRollBack,
           ReleaseCheck, ReleaseDelete
<1>6. CASE CooldownElapses
  BY <1>0, <1>6 DEF CooldownElapses, Row
<1>7. ASSUME NEW freeze \in BOOLEAN, SetWriteFreeze(freeze) PROVE FrozenInv'
  <2>1. row'.freeze = freeze
    BY <1>0, <1>7 DEF SetWriteFreeze, Row
  <2>2. ASSUME NEW c \in Calls
        PROVE  /\ call'[c].phase = call[c].phase /\ call'[c].mem = call[c].mem
               /\ ~freeze /\ call[c].phase \in InTransition => call'[c].thawed
    BY <1>a, <1>7 DEF SetWriteFreeze, CallState, Up
  <2>3. QED
    BY <2>1, <2>2
<1>8. ASSUME NEW c \in Calls, DatabaseError(c) \/ Crash(c) PROVE FrozenInv'
  BY <1>4, <1>8 DEF DatabaseError, Crash
<1>9. QED
  <2>1. ASSUME NEW c \in Calls, RollbackFailover(c) PROVE FrozenInv'
    BY <1>0, <1>3, <2>1 DEF TypeOK, Row
  <2>2. QED
    BY <1>1, <1>3, <1>5, <1>6, <1>7, <1>8, <2>1
       DEF Next, IssueToken, ExpireToken, ExpireLock, AdmitWrite, vars

\* A promotion that froze writes keeps them frozen until it is verified, for
\* every interleaving with other calls, crashes and operators; only an operator
\* lifts the freeze.
THEOREM FreezeKept == Spec => []FrozenUntilVerified
<1>1. Init => FrozenInv
  BY DEF Init, FrozenInv, Idle, InTransition
<1>2. FrozenInv => FrozenUntilVerified
  BY DEF FrozenInv, FrozenUntilVerified, Up, InTransition
<1>3. QED
  BY <1>1, <1>2, NextFrozen, Inductive, PTL DEF Spec
=============================================================================
