----------------------------- MODULE Autoscaling -----------------------------
(***************************************************************************)
(* Autoscaling of one profile (services/sla/autoscaling.py and its routes  *)
(* in apps/api/routes/sla_admin.py).                                       *)
(*                                                                         *)
(* A request evaluates (records a recommendation) or applies (gives it to  *)
(* the executor too).  It loads the profile, takes the time and reads the  *)
(* latest action, from which the cooldown follows; later it records an     *)
(* action of its own.  A patch writes the columns it changed.  Nothing     *)
(* locks anything; the replicas and the signals are those the caller says. *)
(* The executor is the only one there is, noop.                            *)
(***************************************************************************)
EXTENDS Integers, Sequences, FiniteSets

CONSTANTS
    Operators,      \* requests at a time
    Cooldown,       \* cooldown_seconds of the profile, in ticks
    Step,           \* step_up and step_down
    Replicas,       \* numbers of replicas a caller may say, or a patch set
    Profile,        \* the profile as it was created
    MaxActions,     \* bound on the actions recorded
    MaxClock        \* bound on the time

ASSUME AutoscalingAssumption ==
    /\ Cooldown \in Nat /\ Step \in Nat \ {0} /\ MaxActions \in Nat /\ MaxClock \in Nat
    /\ Replicas \subseteq Nat \ {0} /\ IsFiniteSet(Replicas)
    /\ Profile \in [min : Replicas, max : Replicas] /\ Profile.min <= Profile.max

VARIABLES
    clock,
    profile,    \* autoscaling_profiles: [min, max]
    actions,    \* autoscaling_actions, in the order of their commits
    request,    \* [Operators -> the request it is making]
    crossed     \* history: the last patch was committed over one its author had not seen

autoscalingVars == <<clock, profile, actions, request, crossed>>

(* What p95 and queue depth, each within, above or below the target by     *)
(* more than the hysteresis, or unknown, come to in _recommend.            *)
Signals == {"unavailable", "high", "low", "within"}

Resting == [phase |-> "idle", apply |-> FALSE, now |-> 0, loaded |-> Profile, patch |-> Profile,
            cooling |-> FALSE, seen |-> 0]

AutoscalingInit ==
    /\ clock = 0
    /\ profile = Profile
    /\ actions = << >>
    /\ request = [o \in Operators |-> Resting]
    /\ crossed = FALSE

(* (Mutant of LatestActions: ordered by created_at, the other way.)        *)
EarliestActions == {i \in DOMAIN actions : \A k \in DOMAIN actions : actions[i].at <= actions[k].at}

(* get_latest_profile_action: by created_at; of several it may be any.     *)
LatestActions == {i \in DOMAIN actions : \A k \in DOMAIN actions : actions[k].at <= actions[i].at}

(* _cooldown_active: a hold ends it, a recommendation counts.  (An action  *)
(* is executed at the time it is created at.)                              *)
CoolingAfter(i, now) == ~actions[i].hold /\ now < actions[i].at + Cooldown

Lesser(a, b) == IF a < b THEN a ELSE b
Greater(a, b) == IF a > b THEN a ELSE b

(* _recommend.                                                             *)
Recommended(bounds, current, signal, cooling) ==
    IF cooling \/ signal \in {"unavailable", "within"} THEN <<"hold", current>>
    ELSE IF signal = "high" /\ current < bounds.max
         THEN <<"scale_up", Lesser(bounds.max, current + Step)>>
    ELSE IF signal = "high" THEN <<"degrade", current>>
    ELSE IF current > bounds.min THEN <<"scale_down", Greater(bounds.min, current - Step)>>
    ELSE <<"hold", current>>
-----------------------------------------------------------------------------
(* The profile is loaded, the time taken and the latest action read.  An   *)
(* apply during the cooldown is refused (409), whatever the signals.       *)
ReadLatest(o, apply) ==
    /\ request[o].phase = "idle"
    /\ \E cooling \in IF actions = << >> THEN {FALSE} ELSE {CoolingAfter(i, clock) : i \in LatestActions} :
         /\ ~(apply /\ cooling)
         /\ request' = [request EXCEPT ![o] = [@ EXCEPT !.phase = "record", !.apply = apply,
                                                        !.now = clock, !.loaded = profile,
                                                        !.cooling = cooling, !.seen = Len(actions)]]
    /\ UNCHANGED <<clock, profile, actions, crossed>>

(* The action is recorded: executed if it was applied (and is, unless      *)
(* autoscaling_dry_run).                                                   *)
RecordAction(o, current, signal, dry) ==
    LET r == request[o]
        recommended == Recommended(r.loaded, current, signal, r.cooling)
    IN  /\ r.phase = "record"
        /\ Len(actions) < MaxActions
        /\ actions' = Append(actions, [hold |-> recommended[1] = "hold", executed |-> r.apply /\ ~dry,
                                       at |-> r.now, seen |-> r.seen])
        /\ request' = [request EXCEPT ![o] = Resting]
        /\ UNCHANGED <<clock, profile, crossed>>

(* (Mutant of LoadProfile: a patch of one column is checked without the    *)
(* other.)                                                                 *)
LoadProfileAlone(o, patched) ==
    /\ request[o].phase = "idle"
    /\ \/ patched.min = profile.min \/ patched.max = profile.max
       \/ patched.min <= patched.max
    /\ request' = [request EXCEPT ![o] = [@ EXCEPT !.phase = "patch", !.loaded = profile,
                                                   !.patch = patched]]
    /\ UNCHANGED <<clock, profile, actions, crossed>>

(* patch_profile: the bounds are checked on what it loaded, with the       *)
(* columns it is given, ...                                                *)
LoadProfile(o, patched) ==
    /\ request[o].phase = "idle"
    /\ patched.min <= patched.max
    /\ request' = [request EXCEPT ![o] = [@ EXCEPT !.phase = "patch", !.loaded = profile,
                                                   !.patch = patched]]
    /\ UNCHANGED <<clock, profile, actions, crossed>>

(* ... and those that changed are written.                                 *)
PatchProfile(o) ==
    LET r == request[o]
    IN  /\ r.phase = "patch"
        /\ profile' = [column \in {"min", "max"} |->
                         IF r.patch[column] # r.loaded[column] THEN r.patch[column] ELSE profile[column]]
        /\ crossed' = (profile # r.loaded)
        /\ request' = [request EXCEPT ![o] = Resting]
        /\ UNCHANGED <<clock, actions>>

PassTime ==
    /\ clock < MaxClock
    /\ clock' = clock + 1
    /\ UNCHANGED <<profile, actions, request, crossed>>

ScalingNext ==
    \/ \E o \in Operators :
         \/ \E apply \in BOOLEAN : ReadLatest(o, apply)
         \/ \E current \in Replicas, signal \in Signals, dry \in BOOLEAN :
              RecordAction(o, current, signal, dry)
    \/ PassTime

PatchNext ==
    \E o \in Operators :
        \/ \E patched \in [min : Replicas, max : Replicas] : LoadProfile(o, patched)
        \/ PatchProfile(o)

AutoscalingNext == ScalingNext \/ PatchNext

AutoscalingSpec == AutoscalingInit /\ [][AutoscalingNext]_autoscalingVars
-----------------------------------------------------------------------------
Change(i) == actions[i].executed /\ ~actions[i].hold

(* Two changes are executed within the cooldown of the first only if the   *)
(* requests overlapped, or a hold was recorded in between: the latest      *)
(* action, not the latest change, decides.                                 *)
(* Source: services/sla/autoscaling.py:72-96, 220-271.                     *)
SpacedApplies ==
    \A a, b \in DOMAIN actions :
        a <= actions[b].seen /\ Change(a) /\ Change(b) =>
            \/ actions[b].at >= actions[a].at + Cooldown
            \/ \E h \in 1 .. actions[b].seen :
                 actions[h].hold /\ actions[h].at >= actions[a].at

(* The bounds of a profile are in order unless the last patch was          *)
(* committed over another one: one that saw what it changed puts them in   *)
(* order again.  A step from within them ends within them.                 *)
(* Source: services/sla/autoscaling.py:99-156, sla_admin.py:744-770.       *)
BoundsKept ==
    /\ ~crossed => profile.min <= profile.max
    /\ \A current \in profile.min .. profile.max, signal \in Signals :
         Recommended(profile, current, signal, FALSE)[2] \in profile.min .. profile.max

Bounds == [min : Replicas, max : Replicas]
ActionRow == [hold : BOOLEAN, executed : BOOLEAN, at : Nat, seen : Nat]
RequestState ==
    [phase : {"idle", "record", "patch"}, apply : BOOLEAN, now : Nat, loaded : Bounds,
     patch : Bounds, cooling : BOOLEAN, seen : Nat]

AutoscalingTypeOK ==
    /\ clock \in Nat /\ profile \in Bounds /\ crossed \in BOOLEAN
    /\ actions \in Seq(ActionRow)
    /\ request \in [Operators -> RequestState]
=============================================================================
