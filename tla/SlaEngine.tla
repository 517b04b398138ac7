------------------------------ MODULE SlaEngine ------------------------------
(***************************************************************************)
(* The SLA engine (services/sla/signals.py, evaluator.py) and the two      *)
(* routes it guards (run in apps/api/routes/run.py, ingest in documents.py)*)
(* for one tenant and route.                                               *)
(*                                                                         *)
(* A request is evaluated before it is served: the latest rows of          *)
(* sla_measurements say whether the objectives are met, the policy says    *)
(* what to do if they are not.  What became of it is sampled in the memory *)
(* of its instance, and the row of the current minute is overwritten with  *)
(* what that instance has seen within the last one.  A minute is a tick.   *)
(*                                                                         *)
(* A bad request is one that failed or was slow, and the objectives are    *)
(* such that one of them in a minute breaches.  Left out are the rows of   *)
(* five minutes, which can only turn "healthy" into "warning", saturation, *)
(* which nothing in the program ever measures, and the incidents that are  *)
(* opened and reported, which no decision reads.                           *)
(***************************************************************************)
EXTENDS Naturals, Sequences, FiniteSets

CONSTANTS
    Servers,    \* instances of the API
    Callers,    \* the requests there may be at a time ...
    Server,     \* ... and the instance that each of them reaches
    Trigger,    \* consecutive_windows_to_trigger
    Routes,     \* subset of {"run", "ingest"}
    Policies    \* what the effective policy may say, see Decision

ASSUME SlaAssumption ==
    /\ Trigger \in Nat \ {0}
    /\ Server \in [Callers -> Servers]
    /\ Routes \subseteq {"run", "ingest"}
    /\ Policies \subseteq {"none", "observe", "warn", "degrade", "shed"}

VARIABLES
    route,
    policy,     \* "none": disabled; degrade and shed: enforced, allow_degrade or not
    forced,     \* the operators' forced shed of the run route is on
    trouble,    \* requests may be bad or cut off; instances may restart
    rows,       \* measurements, newest first: minutes ago, with bad samples or without
    samples,    \* [Servers -> bad ones of this minute, and of the last while it has them]
    visit       \* [Callers -> the request it is making]

slaVars == <<route, policy, forced, trouble, rows, samples, visit>>

Least(a, b) == IF a < b THEN a ELSE b
Unsampled == [now |-> FALSE, last |-> FALSE]

\* bad, ago: what it is about to write, and for which minute.
Away == [phase |-> "away", bad |-> FALSE, ago |-> 0]

SlaInit ==
    /\ route \in Routes
    /\ policy \in Policies
    /\ forced = FALSE
    /\ trouble \in BOOLEAN
    /\ rows = << >>
    /\ samples = [i \in Servers |-> Unsampled]
    /\ visit = [c \in Callers |-> Away]

(* _has_breach_for_window on each of the latest rows: the streak, and the  *)
(* status it makes.                                                        *)
Status ==
    IF rows = << >> THEN "warning"
    ELSE IF Len(rows) = Trigger /\ \A k \in DOMAIN rows : rows[k].bad THEN "breached"
    ELSE IF rows[1].bad THEN "warning"
    ELSE "healthy"

(* _enforcement_decision.                                                  *)
Decision ==
    IF Status = "healthy" \/ policy \in {"none", "observe"} THEN "allow"
    ELSE IF Status = "warning" \/ policy = "warn" THEN "warn"
    ELSE policy
-----------------------------------------------------------------------------
(* A request comes in.  On the run route the operators' shed is looked at  *)
(* first (get_forced_shed), then the policy and the rows                   *)
(* (evaluate_tenant_sla).  Only a shed request is not served.              *)
Enter(c) ==
    /\ visit[c].phase = "away"
    /\ visit' = [visit EXCEPT ![c].phase =
                      IF forced \/ Decision = "shed" THEN "shed" ELSE "serve"]
    /\ UNCHANGED <<route, policy, forced, trouble, rows, samples>>

(* record_sla_observation: the sample joins those of its instance that are *)
(* not older than a minute, and together they are what will be written.    *)
Sample(c, bad) ==
    LET i == Server[c]
    IN  \E last \in {samples[i].last, FALSE} :
          /\ samples' = [samples EXCEPT ![i] = [now |-> @.now \/ bad, last |-> last]]
          /\ visit' = [visit EXCEPT ![c].phase = "write",
                                    ![c].bad = samples[i].now \/ bad \/ last]

(* A request is served, well or badly.  On the ingest route a document     *)
(* that is refused or fails is not recorded, so a bad one was slow.        *)
Serve(c, bad) ==
    /\ visit[c].phase = "serve"
    /\ bad => trouble
    /\ Sample(c, bad)
    /\ UNCHANGED <<route, policy, forced, trouble, rows>>

(* One that ends before or without being recorded: an early refusal, an    *)
(* exception, a failed write of the measurement.                           *)
Unrecorded(c) ==
    /\ trouble
    /\ visit[c].phase \in {"serve", "write"}
    /\ visit' = [visit EXCEPT ![c] = Away]
    /\ UNCHANGED <<route, policy, forced, trouble, rows, samples>>

(* One that is shed is recorded on the run route, with its 503 ...         *)
ShedRun(c) ==
    /\ visit[c].phase = "shed"
    /\ route = "run"
    /\ Sample(c, TRUE)
    /\ UNCHANGED <<route, policy, forced, trouble, rows>>

(* ... and not on the ingest route.                                        *)
ShedIngest(c) ==
    /\ visit[c].phase = "shed"
    /\ route = "ingest"
    /\ visit' = [visit EXCEPT ![c] = Away]
    /\ UNCHANGED <<route, policy, forced, trouble, rows, samples>>

(* The upsert: the row of that minute is overwritten, or is a new one.     *)
Upserted(row) ==
    LET newer == SelectSeq(rows, LAMBDA r : r.ago < row.ago)
        older == SelectSeq(rows, LAMBDA r : r.ago > row.ago)
        all == newer \o <<row>> \o older
    IN  SubSeq(all, 1, Least(Len(all), Trigger))

Write(c) ==
    /\ visit[c].phase = "write"
    /\ rows' = Upserted([ago |-> visit[c].ago, bad |-> visit[c].bad])
    /\ visit' = [visit EXCEPT ![c] = Away]
    /\ UNCHANGED <<route, policy, forced, trouble, samples>>
-----------------------------------------------------------------------------
(* (Mutant of Shifted: samples are kept however old they are.)             *)
ShiftedAll(s) == [now |-> FALSE, last |-> s.now \/ s.last]

(* What an instance has of the minute before the last is out of every      *)
(* window.                                                                 *)
Shifted(s) == [now |-> FALSE, last |-> s.now]

(* A minute ends.  Writing a measurement takes less than that.             *)
MinuteEnds ==
    /\ \A c \in Callers : visit[c].ago = 0
    /\ rows' = [k \in DOMAIN rows |-> [rows[k] EXCEPT !.ago = Least(@ + 1, 2)]]
    /\ samples' = [i \in Servers |-> Shifted(samples[i])]
    /\ visit' = [c \in Callers |-> IF visit[c].phase = "write" THEN [visit[c] EXCEPT !.ago = 1]
                                   ELSE visit[c]]
    /\ UNCHANGED <<route, policy, forced, trouble>>

(* Administrators patch, enable or disable the policy or its assignment.   *)
SetPolicy(p) ==
    /\ policy' = p
    /\ UNCHANGED <<route, forced, trouble, rows, samples, visit>>

(* Operators force a shed, for a time; it ends by its TTL or by them.      *)
SetForced(on) ==
    /\ route = "run"
    /\ forced' = on
    /\ UNCHANGED <<route, policy, trouble, rows, samples, visit>>

(* Trouble begins and ends; an instance loses its samples and requests.    *)
SetTrouble(on) ==
    /\ trouble' = on
    /\ UNCHANGED <<route, policy, forced, rows, samples, visit>>

ServerRestarts(i) ==
    /\ trouble
    /\ samples' = [samples EXCEPT ![i] = Unsampled]
    /\ visit' = [c \in Callers |-> IF Server[c] = i THEN Away ELSE visit[c]]
    /\ UNCHANGED <<route, policy, forced, trouble, rows>>

Proceed(c) ==
    \/ Enter(c)
    \/ \E bad \in BOOLEAN : Serve(c, bad)
    \/ ShedRun(c) \/ ShedIngest(c) \/ Write(c)

SlaNext ==
    \/ \E c \in Callers : Proceed(c) \/ Unrecorded(c)
    \/ MinuteEnds
    \/ \E p \in Policies : SetPolicy(p)
    \/ \E on \in BOOLEAN : SetForced(on) \/ SetTrouble(on)
    \/ \E i \in Servers : ServerRestarts(i)

(* Clients keep calling, handlers go on, time passes.                      *)
SlaSpec ==
    /\ SlaInit /\ [][SlaNext]_slaVars
    /\ WF_slaVars(MinuteEnds)
    /\ \A c \in Callers : WF_slaVars(Proceed(c))
-----------------------------------------------------------------------------
(* Once the trouble is over and no policy in force sheds, the breach is    *)
(* forgotten for good, whatever order the instances' measurements were     *)
(* written in: to switch a policy from shed to anything else, as           *)
(* docs/runbooks/sla-breach-response.md advises, is a way out.             *)
(* Source: services/sla/signals.py:69-130, services/sla/evaluator.py.      *)
Recovers ==
    []<>(Status = "breached") => []<>(trouble \/ forced \/ policy = "shed")

(* The claim of apps/api/routes/run.py that requests are shed because of a *)
(* breach that lasts: when the trouble is over and the operators' own shed *)
(* is off, requests are let in again.                                      *)
SheddingEnds == <>[](Decision = "shed") => []<>(trouble \/ forced)

SlaTypeOK ==
    /\ route \in Routes /\ policy \in Policies
    /\ {forced, trouble} \subseteq BOOLEAN
    /\ Len(rows) <= Trigger
    /\ \A k \in DOMAIN rows : rows[k].ago \in 0 .. 2 /\ rows[k].bad \in BOOLEAN
    /\ samples \in [Servers -> [now : BOOLEAN, last : BOOLEAN]]
    /\ visit \in [Callers -> [phase : {"away", "serve", "shed", "write"},
                              bad : BOOLEAN, ago : 0 .. 1]]
=============================================================================
