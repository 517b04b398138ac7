------------------------------ MODULE Failover ------------------------------
(***************************************************************************)
(* The failover control plane of services/failover.py.                     *)
(*                                                                         *)
(* Operator calls (promote, rollback) run concurrently on the API          *)
(* instances of several regions.  They share the one row of                *)
(* failover_cluster_state, the one-time approval tokens, the failover      *)
(* events, and a Redis key that serves as a lease.  A call is a sequence   *)
(* of database transactions; each action below is one transaction or one   *)
(* Redis command, so the interleavings of the model are those of the       *)
(* server.                                                                 *)
(*                                                                         *)
(* The session of a call keeps the copy of the row it loaded               *)
(* (expire_on_commit is off and nothing refreshes it): call[c].mem.  A     *)
(* flush writes only the columns whose in-memory value changed; see        *)
(* Written.                                                                *)
(***************************************************************************)
EXTENDS Naturals, FiniteSets

CONSTANTS
  Regions,            \* region identifiers (REGION_ID)
  Writable,           \* the regions deployed with REGION_ROLE = "primary"
  Calls,              \* operator requests, each with its own request_id
  PromoteTokens,      \* tokens with purpose "promote"
  RollbackTokens,     \* tokens with purpose "rollback"
  FreezeOnUnhealthy,  \* write_freeze_on_unhealthy_replica
  None                \* null, and "no holder"

Tokens == PromoteTokens \cup RollbackTokens

ASSUME FailoverAssumption ==
  /\ Writable \subseteq Regions
  /\ PromoteTokens \cap RollbackTokens = {}
  /\ IsFiniteSet(Tokens)
  /\ FreezeOnUnhealthy \in BOOLEAN
  /\ None \notin Regions \cup Calls \cup Tokens

VARIABLES
  redis,    \* "reliable": every lock command succeeds and a lease outlives its
            \* call; "faulty": Redis may be unreachable, a lease may run out.
            \* An environment that Init picks, not a variable of the program.
  lock,     \* the call whose id is stored under the Redis lock key
  rowLock,  \* the call whose transaction holds the row FOR UPDATE
  row,      \* the committed failover_cluster_state row
  tok,      \* failover_tokens
  settled,  \* calls whose latest failover event (by request_id) is completed,
            \* failed or rolled_back, all the code reads of an event
  call,     \* the local state of each call's handler
  \* History variables, read by properties only.
  uses,     \* how often each token was consumed
  moved,    \* tokens named as approval_token_id by an event that moved the primary
  served,   \* epoch and region of the write admitted last, while Redis is up
  hold      \* an operator froze writes and nothing has earned the thaw yet

vars == <<redis, lock, rowLock, row, tok, settled, call, uses, moved, served,
          hold>>

\* Of metadata_json only previous_primary is kept: no code reads its other keys.
Row == [active : Regions, epoch : Nat, cooling : BOOLEAN, freeze : BOOLEAN,
        previous : Regions \cup {None}]

\* Where a handler is between acquire_failover_lock and the end of its release.
InTransition == {"token", "spend", "freeze", "precheck", "promote", "verify",
                 "rollback"}
Running      == InTransition \cup {"read", "release", "delete"}

\* A handler's locals: kind and target are its arguments, token the row that
\* _consume_token found (the approval_token_id of its event), leased whether
\* lock_id is set, thawed (history, while Redis is up) whether an operator lifted
\* the freeze since the row was read.
CallState == [phase : Running \cup {"idle"}, kind : {"promote", "rollback"},
              target : Regions \cup {None}, token : Tokens \cup {None},
              leased : BOOLEAN, mem : Row \cup {None}, thawed : BOOLEAN]

\* A call not sent yet, or one that returned or whose instance died: sending it
\* (again) starts a fresh handler under the same request_id.
Idle == [phase |-> "idle", kind |-> "promote", target |-> None, token |-> None,
         leased |-> FALSE, mem |-> None, thawed |-> FALSE]

-----------------------------------------------------------------------------
\* The row after call c commits the copy new: the columns it changed since it
\* loaded them, over whatever others committed meanwhile, and metadata_json,
\* which every such commit assigns as a whole.
Written(c, new) ==
  LET mem == call[c].mem
  IN [active   |-> IF new.active # mem.active THEN new.active ELSE row.active,
      epoch    |-> IF new.epoch # mem.epoch THEN new.epoch ELSE row.epoch,
      cooling  |-> IF new.cooling # mem.cooling THEN new.cooling ELSE row.cooling,
      freeze   |-> IF new.freeze # mem.freeze THEN new.freeze ELSE row.freeze,
      previous |-> new.previous]

\* A handler's copy of the row with its freeze flag set, and its copy once
\* it moved the primary to r.
Frozen(mem, freeze) == [mem EXCEPT !.freeze = freeze]

\* (Mutant of Moved: the epoch is left alone.)
MovedSameEpoch(mem, r, freeze, previous) ==
  [mem EXCEPT !.active = r, !.cooling = TRUE, !.freeze = freeze,
              !.previous = previous]

Moved(mem, r, freeze, previous) ==
  [active |-> r, epoch |-> mem.epoch + 1, cooling |-> TRUE, freeze |-> freeze,
   previous |-> previous]

Goto(c, p) == call' = [call EXCEPT ![c].phase = p]

Proceed(c, p, new) == call' = [call EXCEPT ![c] = [@ EXCEPT !.phase = p, !.mem = new]]

\* The locals die with the try block; its finally clause needs lock_id alone.
Returning(c) == [Idle EXCEPT !.phase = "release", !.leased = call[c].leased]

Return(c) == call' = [call EXCEPT ![c] = Returning(c)]

\* Every UPDATE of the row waits for a transaction that has it FOR UPDATE.
RowFree == rowLock = None

-----------------------------------------------------------------------------
Init ==
  /\ redis \in {"reliable", "faulty"}
  /\ lock = None
  /\ rowLock = None
  /\ \E r \in Regions :
       row = [active |-> r, epoch |-> 1, cooling |-> FALSE, freeze |-> FALSE,
              previous |-> None]
  /\ tok = [t \in Tokens |-> "unissued"]
  /\ settled = {}
  /\ call = [c \in Calls |-> Idle]
  /\ uses = [t \in Tokens |-> 0]
  /\ moved = {}
  /\ served = <<0, row.active>>
  /\ hold = FALSE

\* issue_failover_token inserts a token.  Once expires_at has passed it is as
\* good as absent, so its model value may stand for a later one; a call that
\* looked it up before decides by the clock it read then.
IssueToken(t) ==
  /\ tok[t] = "unissued"
  /\ tok' = [tok EXCEPT ![t] = "issued"]
  /\ UNCHANGED <<redis, lock, rowLock, row, settled, call, uses, moved, served, hold>>

ExpireToken(t) ==
  /\ tok[t] = "issued"
  /\ \A c \in Calls : call[c].token # t
  /\ tok' = [tok EXCEPT ![t] = "unissued"]
  /\ UNCHANGED <<redis, lock, rowLock, row, settled, call, uses, moved, served, hold>>

\* The locals of a handler that enters its try block, its arguments set.
Entering(k, r, lease) ==
  [phase |-> "read", kind |-> k, target |-> r, token |-> None,
   leased |-> lease, mem |-> None, thawed |-> FALSE]

\* (Mutant of AcquireLock: SET without NX.)
AcquireLockAlways(c, k, r) ==
  /\ lock' = c
  /\ call' = [call EXCEPT ![c] = Entering(k, r, TRUE)]

\* acquire_failover_lock.  SET NX on a held key ends the call with a 409; when
\* Redis cannot be reached the call goes on without a lease.
AcquireLock(c, k, r) ==
  \/ /\ lock = None
     /\ lock' = c
     /\ call' = [call EXCEPT ![c] = Entering(k, r, TRUE)]
  \/ /\ lock # None
     /\ UNCHANGED <<lock, call>>
  \/ /\ redis = "faulty"
     /\ call' = [call EXCEPT ![c] = Entering(k, r, FALSE)]
     /\ UNCHANGED lock

\* promote_region on an instance of region r (target_region must be the local
\* region).  A call whose event is terminal is answered from it: no step.
PromoteRegion(c, r) ==
  /\ call[c].phase = "idle"
  /\ c \notin settled
  /\ AcquireLock(c, "promote", r)
  /\ UNCHANGED <<redis, rowLock, row, tok, settled, uses, moved, served, hold>>

\* rollback_failover has no such short cut.
RollbackFailover(c) ==
  /\ call[c].phase = "idle"
  /\ AcquireLock(c, "rollback", None)
  /\ UNCHANGED <<redis, rowLock, row, tok, settled, uses, moved, served, hold>>

\* (Mutants of ReadState: a plain SELECT; no cooldown check.)
ReadStateUnlocked(c) ==
  /\ call[c].phase = "read"
  /\ ~row.cooling
  /\ Proceed(c, "token", row)
  /\ UNCHANGED <<redis, lock, rowLock, row, tok, settled, uses, moved, served, hold>>

ReadStateCooling(c) ==
  /\ call[c].phase = "read"
  /\ RowFree
  /\ rowLock' = c
  /\ Proceed(c, "token", row)
  /\ UNCHANGED <<redis, lock, row, tok, settled, uses, moved, served, hold>>

\* _get_or_create_cluster_state(for_update=True) ...
ReadState(c) ==
  /\ call[c].phase = "read"
  /\ RowFree
  /\ ~row.cooling
  /\ rowLock' = c
  /\ Proceed(c, "token", row)
  /\ UNCHANGED <<redis, lock, row, tok, settled, uses, moved, served, hold>>

\* ... with a cooldown in force: 409, and the transaction is rolled back.
CooldownRefuses(c) ==
  /\ call[c].phase = "read"
  /\ RowFree
  /\ row.cooling
  /\ Return(c)
  /\ UNCHANGED <<redis, lock, rowLock, row, tok, settled, uses, moved, served, hold>>

\* The tokens whose purpose is that of call c.
Purpose(c) == IF call[c].kind = "promote" THEN PromoteTokens ELSE RollbackTokens

\* (Mutant of SelectToken: the lookup leaves out the purpose.)
SelectTokenAnyPurpose(c, t) ==
  /\ call[c].phase = "token"
  /\ tok[t] = "issued"
  /\ call' = [call EXCEPT ![c] = [@ EXCEPT !.phase = "spend", !.token = t]]
  /\ UNCHANGED <<redis, lock, rowLock, row, tok, settled, uses, moved, served, hold>>

\* _consume_token looks the token up ...
SelectToken(c, t) ==
  /\ call[c].phase = "token"
  /\ tok[t] = "issued"
  /\ t \in Purpose(c)
  /\ call' = [call EXCEPT ![c] = [@ EXCEPT !.phase = "spend", !.token = t]]
  /\ UNCHANGED <<redis, lock, rowLock, row, tok, settled, uses, moved, served, hold>>

\* ... or finds none (401; the transaction and its row lock are gone) ...
RejectToken(c) ==
  /\ call[c].phase = "token"
  /\ Return(c)
  /\ rowLock' = None
  /\ UNCHANGED <<redis, lock, row, tok, settled, uses, moved, served, hold>>

\* (Mutant of ConsumeToken: used_at is never set.)
ConsumeTokenUnmarked(c) ==
  /\ call[c].phase = "spend"
  /\ uses' = [uses EXCEPT ![call[c].token] = @ + 1]
  /\ rowLock' = None
  /\ Goto(c, IF call[c].kind = "rollback" THEN "rollback" ELSE "precheck")
  /\ UNCHANGED <<redis, lock, row, tok, settled, moved, served, hold>>

\* ... and commits used_at.  That commit also gives up the row lock.  (A
\* promotion then inserts its event with status requested.)
ConsumeToken(c) ==
  LET t == call[c].token
      p == IF call[c].kind = "rollback" THEN "rollback"
           ELSE IF FreezeOnUnhealthy THEN "freeze" ELSE "precheck"
  IN /\ call[c].phase = "spend"
     /\ tok' = [tok EXCEPT ![t] = "used"]
     /\ uses' = [uses EXCEPT ![t] = @ + 1]
     /\ rowLock' = None
     /\ Goto(c, p)
     /\ UNCHANGED <<redis, lock, row, settled, moved, served, hold>>

-----------------------------------------------------------------------------
\* The transactions of a promotion, in order.

\* (Mutant of FreezeWrites: the freeze is not committed on its own.)
FreezeWritesLater(c) ==
  /\ call[c].phase = "freeze"
  /\ RowFree
  /\ Proceed(c, "precheck", Frozen(call[c].mem, TRUE))
  /\ UNCHANGED <<redis, lock, rowLock, row, tok, settled, uses, moved, served, hold>>

FreezeWrites(c) ==
  /\ call[c].phase = "freeze"
  /\ RowFree
  /\ row' = IF call[c].mem.freeze THEN row ELSE [row EXCEPT !.freeze = TRUE]
  /\ Proceed(c, "precheck", Frozen(call[c].mem, TRUE))
  /\ UNCHANGED <<redis, lock, rowLock, tok, settled, uses, moved, served, hold>>

\* _precheck_promotion finds no blocker, or force overrides them.  A region that
\* is not writable always has the blocker DB_NOT_WRITABLE; lag, health and the
\* peers' signals come from outside and may go either way.
PrecheckPasses(c, force) ==
  /\ call[c].phase = "precheck"
  /\ force \/ call[c].target \in Writable
  /\ Goto(c, "promote")
  /\ UNCHANGED <<redis, lock, rowLock, row, tok, settled, uses, moved, served, hold>>

\* It raises, and the handler's except clause commits the failed event.  It
\* lifts the freeze unless the target is already the primary.
PrecheckFails(c) ==
  LET mem == call[c].mem
      new == Frozen(mem, call[c].target = mem.active /\ mem.freeze)
  IN /\ call[c].phase = "precheck"
     /\ RowFree
     /\ row' = Written(c, new)
     /\ settled' = settled \cup {c}
     /\ Return(c)
     /\ UNCHANGED <<redis, lock, rowLock, tok, uses, moved, served, hold>>

\* The commit that moves the primary: region, epoch, cooldown, previous_primary.
Promote(c) ==
  LET mem == call[c].mem
      new == Moved(mem, call[c].target, mem.freeze, mem.active)
  IN /\ call[c].phase = "promote"
     /\ RowFree
     /\ row' = Written(c, new)
     /\ Proceed(c, "verify", new)
     /\ moved' = moved \cup {call[c].token}
     /\ UNCHANGED <<redis, lock, rowLock, tok, settled, uses, served, hold>>

\* A target deployed as standby fails verification.  The primary has moved and
\* the freeze stays, because to_region is active_primary_region by now.  (Its
\* commit and that of the except clause write the same columns: one step.)
VerificationFails(c) ==
  /\ call[c].phase = "verify"
  /\ call[c].target \notin Writable
  /\ RowFree
  /\ row' = Written(c, Frozen(call[c].mem, call[c].mem.freeze))
  /\ settled' = settled \cup {c}
  /\ Return(c)
  /\ UNCHANGED <<redis, lock, rowLock, tok, uses, moved, served, hold>>

CompletePromotion(c) ==
  /\ call[c].phase = "verify"
  /\ call[c].target \in Writable
  /\ RowFree
  /\ row' = Written(c, Frozen(call[c].mem, FALSE))
  /\ settled' = settled \cup {c}
  /\ hold' = FALSE
  /\ Return(c)
  /\ UNCHANGED <<redis, lock, rowLock, tok, uses, moved, served>>

-----------------------------------------------------------------------------
\* The one transaction of a rollback once its token is spent.
Rollback(c) ==
  LET mem == call[c].mem
  IN /\ call[c].phase = "rollback"
     /\ mem.previous # None
     /\ RowFree
     /\ row' = Written(c, Moved(mem, mem.previous, FALSE, mem.previous))
     /\ settled' = settled \cup {c}
     /\ moved' = moved \cup {call[c].token}
     /\ hold' = FALSE
     /\ Return(c)
     /\ UNCHANGED <<redis, lock, rowLock, tok, uses, served>>

\* No previous primary: 409, although the token is spent.
NothingToRollBack(c) ==
  /\ call[c].phase = "rollback"
  /\ call[c].mem.previous = None
  /\ Return(c)
  /\ UNCHANGED <<redis, lock, rowLock, row, tok, settled, uses, moved, served, hold>>

-----------------------------------------------------------------------------
\* release_failover_lock: GET and compare, then DELETE as a command of its own.
\* The key is left to its TTL when Redis cannot be reached.
ReleaseCheck(c) ==
  /\ call[c].phase = "release"
  /\ \/ call[c].leased /\ lock = c /\ Goto(c, "delete")
     \/ /\ redis = "faulty" \/ ~call[c].leased \/ lock # c
        /\ call' = [call EXCEPT ![c] = Idle]
  /\ UNCHANGED <<redis, lock, rowLock, row, tok, settled, uses, moved, served, hold>>

ReleaseDelete(c) ==
  /\ call[c].phase = "delete"
  /\ lock' = None
  /\ call' = [call EXCEPT ![c] = Idle]
  /\ UNCHANGED <<redis, rowLock, row, tok, settled, uses, moved, served, hold>>

\* Any other exception (the database refuses a statement or times out): only
\* the finally clause runs, and what was committed before stays.
DatabaseError(c) ==
  /\ call[c].phase \in InTransition \cup {"read"}
  /\ Return(c)
  /\ rowLock' = IF rowLock = c THEN None ELSE rowLock
  /\ UNCHANGED <<redis, lock, row, tok, settled, uses, moved, served, hold>>

\* The instance dies.  Its database connection takes the row lock along; the
\* Redis key stays until its TTL.
Crash(c) ==
  /\ call[c].phase \in Running
  /\ call' = [call EXCEPT ![c] = Idle]
  /\ rowLock' = IF rowLock = c THEN None ELSE rowLock
  /\ UNCHANGED <<redis, lock, row, tok, settled, uses, moved, served, hold>>

\* The lock key's 90 s TTL.
ExpireLock ==
  /\ lock # None
  /\ redis = "faulty" \/ ~call[lock].leased
  /\ lock' = None
  /\ UNCHANGED <<redis, rowLock, row, tok, settled, call, uses, moved, served, hold>>

\* cooldown_until passes.
CooldownElapses ==
  /\ row.cooling
  /\ row' = [row EXCEPT !.cooling = FALSE]
  /\ UNCHANGED <<redis, lock, rowLock, tok, settled, call, uses, moved, served, hold>>

-----------------------------------------------------------------------------
\* set_write_freeze reads FOR UPDATE, writes and commits in one transaction; it
\* takes no Redis lock.
SetWriteFreeze(freeze) ==
  /\ RowFree
  /\ row' = [row EXCEPT !.freeze = freeze]
  /\ hold' = freeze
  /\ call' = [c \in Calls |->
                IF call[c].phase \notin InTransition \/ freeze \/ redis = "faulty"
                THEN call[c]
                ELSE [call[c] EXCEPT !.thawed = TRUE]]
  /\ UNCHANGED <<redis, lock, rowLock, tok, settled, uses, moved, served>>

\* enforce_write_gate lets a mutation through in region r.  (Lag may close the
\* gate as well: an admission is possible, never forced.)
AdmitWrite(r) ==
  /\ ~row.freeze
  /\ row.active = r
  /\ r \in Writable
  /\ served' = IF redis = "reliable" THEN <<row.epoch, r>> ELSE served
  /\ UNCHANGED <<redis, lock, rowLock, row, tok, settled, call, uses, moved, hold>>

-----------------------------------------------------------------------------
\* The steps a running handler takes by itself.
Progress(c) ==
  \/ ReadState(c)
  \/ CooldownRefuses(c)
  \/ \E t \in Tokens : SelectToken(c, t)
  \/ RejectToken(c)
  \/ ConsumeToken(c)
  \/ FreezeWrites(c)
  \/ \E force \in BOOLEAN : PrecheckPasses(c, force)
  \/ PrecheckFails(c)
  \/ Promote(c)
  \/ VerificationFails(c)
  \/ CompletePromotion(c)
  \/ Rollback(c)
  \/ NothingToRollBack(c)
  \/ ReleaseCheck(c)
  \/ ReleaseDelete(c)

Next ==
  \/ \E t \in Tokens : IssueToken(t)
  \/ \E t \in Tokens : ExpireToken(t)
  \/ \E c \in Calls, r \in Regions : PromoteRegion(c, r)
  \/ \E c \in Calls : RollbackFailover(c)
  \/ \E c \in Calls : Progress(c)
  \/ \E c \in Calls : DatabaseError(c)
  \/ \E c \in Calls : Crash(c)
  \/ ExpireLock
  \/ CooldownElapses
  \/ \E freeze \in BOOLEAN : SetWriteFreeze(freeze)
  \/ \E r \in Regions : AdmitWrite(r)

Spec == Init /\ [][Next]_vars

-----------------------------------------------------------------------------
TypeOK ==
  /\ redis \in {"reliable", "faulty"}
  /\ lock \in Calls \cup {None}
  /\ rowLock \in Calls \cup {None}
  /\ row \in Row
  /\ tok \in [Tokens -> {"unissued", "issued", "used"}]
  /\ settled \subseteq Calls
  /\ call \in [Calls -> CallState]
  /\ uses \in [Tokens -> Nat]
  /\ moved \subseteq Tokens
  /\ served \in Nat \X Regions
  /\ hold \in BOOLEAN

\* README "one failover at a time": with Redis up, no two calls are ever
\* between acquire_failover_lock and the end of their release.
LockedExclusion ==
  redis = "reliable" =>
    \A c, d \in Calls : call[c].phase \in Running /\ call[d].phase \in Running
                         => c = d

\* README "one-time short-lived token": _consume_token never accepts a token
\* twice.  It neither locks nor re-checks the token row; what protects it is the
\* row lock that ReadState took and that its own commit gives up, with or
\* without Redis.
TokenSpentOnce == \A t \in Tokens : uses[t] <= 1

\* README "one-time short-lived token", of what it buys: whatever moves the primary
\* or the epoch is the commit of a call whose own token is consumed, is of the
\* call's purpose and has bought no move before, with or without Redis, although
\* the token was spent up to four transactions earlier, other calls came between,
\* and requests are sent again after an error or a crash.
PaidBy(c, t) ==
  /\ call[c].phase = call[c].kind      \* about to commit its "promote" or "rollback"
  /\ call[c].token = t /\ t \in Purpose(c)
  /\ uses[t] = 1
  /\ t \notin moved /\ moved' = moved \cup {t}

TransitionsPaid ==
  [][/\ moved \subseteq moved'
     /\ row'.active # row.active \/ row'.epoch # row.epoch
          => \E c \in Calls, t \in Tokens : PaidBy(c, t)]_<<row, moved>>

\* Runbook split-brain-mitigation "keep freeze enabled until post-promotion
\* verification is complete": from the automatic freeze of a promotion to its
\* verification the row is frozen, unless an operator thawed it meanwhile.
FrozenUntilVerified ==
  FreezeOnUnhealthy /\ redis = "reliable" =>
    \A c \in Calls :
      call[c].phase \in {"precheck", "promote", "verify"} /\ ~call[c].thawed
        => row.freeze

\* README "cooldown enforced between transitions": with Redis up, whatever moves
\* the primary also raises the epoch by exactly one, and never inside the
\* cooldown that an earlier transition started, although both were read several
\* transactions before they are written.
EpochFencing ==
  [][redis = "reliable" /\ (row'.active # row.active \/ row'.epoch # row.epoch)
       => row'.epoch = row.epoch + 1 /\ ~row.cooling]_row

\* The write gate and the epochs together: with Redis up, no epoch has its
\* writes admitted in two regions, and once a write of an epoch is admitted no
\* write of an earlier one is.
ServedInOrder ==
  [][redis = "reliable" =>
       \/ served'[1] > served[1]
       \/ served'[1] = served[1] /\ served'[2] = served[2]]_served

-----------------------------------------------------------------------------
\* Runbook split-brain-mitigation: once an operator froze writes to contain a
\* split brain, they stay frozen until an operator thaws them or a promotion is
\* verified (or rolled back).
ContainmentHolds == hold => row.freeze
=============================================================================
