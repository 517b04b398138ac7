--------------------------- MODULE CircuitBreaker ---------------------------
(***************************************************************************)
(* The circuit breaker of services/resilience.py: one Redis hash shared by *)
(* all API instances, read and written by separate commands.               *)
(*                                                                         *)
(* Every caller loads the hash, decides, and saves a whole new hash; an    *)
(* action is one load or one save, so what a caller decides on may be      *)
(* stale when it saves.  A hash that is absent reads as a fresh closed     *)
(* breaker: the object that holds the local state lives for one request.   *)
(*                                                                         *)
(* opened_at is a reading of time.monotonic, which instances on different  *)
(* hosts do not share: an instance that did not write it may find it any   *)
(* distance away.                                                          *)
(***************************************************************************)
EXTENDS Naturals

CONSTANTS
  Callers,    \* calls that guard an integration with this breaker
  Instances,  \* API instances, each on a host of its own
  Threshold,  \* cb_failure_threshold
  Trials,     \* cb_half_open_trials
  OpenTicks,  \* cb_open_seconds, in ticks of the clock
  Ttl,        \* the TTL each save gives the hash (4 * cb_open_seconds or more)
  MaxCuts,    \* bound on callers that end between HSET and EXPIRE
  None

VARIABLES
  hash,  \* the Redis hash with its remaining TTL (None: it never expires), or None
  link,  \* what each caller is doing with the breaker, and the state it loaded
  cuts   \* callers cut off between HSET and EXPIRE so far

bvars == <<hash, link, cuts>>

\* opened: the instance that wrote opened_at, and how long ago.
State == [state : {"closed", "open", "half_open"}, failures : 0..Threshold,
          opened : [by : Instances \cup {None}, age : 0..OpenTicks],
          trials : 0..Trials]

Steps == {"idle", "transition", "trial", "calling", "failing"}

Never == [by |-> None, age |-> 0]
Fresh(s) == [state |-> s, failures |-> 0, opened |-> Never, trials |-> 0]
Closed == Fresh("closed")
OpenedBy(i) == [Fresh("open") EXCEPT !.opened = [by |-> i, age |-> 0]]

Rest == [step |-> "idle", mem |-> Closed]

BreakerInit ==
  /\ hash = None
  /\ link = [c \in Callers |-> Rest]
  /\ cuts = 0

-----------------------------------------------------------------------------
\* _load and _save.  A caller that dies, or whose client disconnects, after the
\* HSET leaves the TTL that was there: none at all on a new key.
Loaded == IF hash = None THEN Closed ELSE hash.is

Save(st) == hash' = [is |-> st, ttl |-> Ttl]

SaveCut(st) ==
  /\ cuts < MaxCuts
  /\ cuts' = cuts + 1
  /\ hash' = [is |-> st, ttl |-> IF hash = None THEN None ELSE hash.ttl]

Turn(c, s, st) == link' = [link EXCEPT ![c] = [step |-> s, mem |-> st]]
Leave(c) == link' = [link EXCEPT ![c] = Rest]

\* Whether instance i may find that open_seconds have, or have not, passed.
Elapsed(i)    == Loaded.opened.by # i \/ Loaded.opened.age = OpenTicks
NotElapsed(i) == Loaded.opened.by # i \/ Loaded.opened.age < OpenTicks

\* before_call on a closed breaker.
Pass(c) ==
  /\ link[c].step = "idle"
  /\ Loaded.state = "closed"
  /\ Turn(c, "calling", Closed)
  /\ UNCHANGED <<hash, cuts>>

\* before_call on an open breaker whose time is up turns it half open ...
Reopen(c, i) ==
  /\ link[c].step = "idle"
  /\ Loaded.state = "open" /\ Elapsed(i)
  /\ Turn(c, "transition", Fresh("half_open"))
  /\ UNCHANGED <<hash, cuts>>

HalfOpen(c) ==
  /\ link[c].step = "transition"
  /\ Save(link[c].mem)
  /\ Turn(c, "trial", link[c].mem)
  /\ UNCHANGED cuts

\* (Mutant of FindTrial: one trial too many.)
FindTrialMore(c) ==
  /\ link[c].step = "idle"
  /\ Loaded.state = "half_open" /\ Loaded.trials <= Trials
  /\ Turn(c, "trial", Loaded)
  /\ UNCHANGED <<hash, cuts>>

\* ... and, half open with trials left, takes one: the count it saves is the
\* one it loaded plus one.
FindTrial(c) ==
  /\ link[c].step = "idle"
  /\ Loaded.state = "half_open" /\ Loaded.trials < Trials
  /\ Turn(c, "trial", Loaded)
  /\ UNCHANGED <<hash, cuts>>

TakeTrial(c) ==
  /\ link[c].step = "trial"
  /\ Save([link[c].mem EXCEPT !.trials = @ + 1])
  /\ Turn(c, "calling", Closed)
  /\ UNCHANGED cuts

\* (Mutant of Refused: a refusal saves the state it loaded.)
RefusedSaving(i) ==
  /\ \/ Loaded.state = "open" /\ NotElapsed(i)
     \/ Loaded.state = "half_open" /\ Loaded.trials = Trials
  /\ Save(Loaded)

\* before_call raises IntegrationUnavailableError and writes nothing.
Refused(i) ==
  /\ \/ Loaded.state = "open" /\ NotElapsed(i)
     \/ Loaded.state = "half_open" /\ Loaded.trials = Trials
  /\ UNCHANGED hash

Refuse(c, i) ==
  /\ link[c].step = "idle"
  /\ Refused(i)
  /\ UNCHANGED <<link, cuts>>

\* record_success: whatever it loads, it saves a fresh closed breaker.
RecordSuccess(c) ==
  /\ link[c].step = "calling"
  /\ Save(Closed)
  /\ Leave(c)
  /\ UNCHANGED cuts

\* record_failure loads ...
LoadFailure(c) ==
  /\ link[c].step = "calling"
  /\ Turn(c, "failing", Loaded)
  /\ UNCHANGED <<hash, cuts>>

\* ... and opens the breaker from half open or at the threshold, else counts.
Failed(st, i) ==
  IF st.state = "half_open" \/ st.failures + 1 >= Threshold THEN OpenedBy(i)
  ELSE [st EXCEPT !.failures = @ + 1]

RecordFailure(c, i) ==
  /\ link[c].step = "failing"
  /\ Save(Failed(link[c].mem, i))
  /\ Leave(c)
  /\ UNCHANGED cuts

\* A caller ends without reporting: its instance died, or its client went away
\* and the task was cancelled (CancelledError is no Exception).
Abandon(c) ==
  /\ Leave(c)
  /\ UNCHANGED <<hash, cuts>>

\* The same between the two commands of a save.
CutOff(c, i) ==
  /\ \/ link[c].step = "transition" /\ SaveCut(link[c].mem)
     \/ link[c].step = "trial" /\ SaveCut([link[c].mem EXCEPT !.trials = @ + 1])
     \/ link[c].step = "calling" /\ SaveCut(Closed)
     \/ link[c].step = "failing" /\ SaveCut(Failed(link[c].mem, i))
  /\ Leave(c)

-----------------------------------------------------------------------------
\* Time passes: opened_at recedes and the TTL runs down.
Aged(st) ==
  IF st.opened.by = None \/ st.opened.age = OpenTicks THEN st
  ELSE [st EXCEPT !.opened.age = @ + 1]

Tick ==
  /\ hash # None \/ \E c \in Callers : Aged(link[c].mem) # link[c].mem
  /\ hash' = IF hash = None THEN None
             ELSE IF hash.ttl = 1 THEN None
             ELSE [is |-> Aged(hash.is),
                   ttl |-> IF hash.ttl = None THEN None ELSE hash.ttl - 1]
  /\ link' = [c \in Callers |-> [link[c] EXCEPT !.mem = Aged(@)]]
  /\ UNCHANGED cuts

-----------------------------------------------------------------------------
BreakerTypeOK ==
  /\ hash \in [is : State, ttl : 1..Ttl \cup {None}] \cup {None}
  /\ link \in [Callers -> [step : Steps, mem : State]]
  /\ cuts \in 0..MaxCuts

\* What before_call may answer instance i now, and will until something changes.
Refusing(i) ==
  \/ Loaded.state = "open" /\ NotElapsed(i)
  \/ Loaded.state = "half_open" /\ Loaded.trials = Trials
=============================================================================
