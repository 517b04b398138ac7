------------------------------ MODULE MCServices ------------------------------
(***************************************************************************)
(* Services on small instances.  What stands between a request and its     *)
(* handler: the rate limiter, the caches of principals and entitlements,   *)
(* and the authorization decision.  What runs beside requests: backups,    *)
(* and autoscaling with its requests and the patches of its profile.       *)
(* They share no state, so a behaviour exercises one of them, picked by    *)
(* `part`; interleaving them would only multiply the states.               *)
(***************************************************************************)
EXTENDS TokenBucket, AccessCaches, Authorization, Backups, Autoscaling, TLC

CONSTANTS k1, k2, tenant, reader, admin, d1, x1, x2, p1, p2, j1

VARIABLE part

access == <<bucketVars, cacheVars, authzVars>>

upkeep == <<backupVars, autoscalingVars>>

vars == <<part, access, upkeep>>

Parts == {"limiter", "principals", "entitlements", "authorization",
          "drills", "prunes", "requests", "patches"}

\* One token a tick for a key, two for the tenant; a request costs two.
Rates == k1 :> 1 @@ k2 :> 1 @@ tenant :> 2
Bursts == k1 :> 3 @@ k2 :> 3 @@ tenant :> 5

Leaf(op, holds) == [op |-> op, parts |-> << >>, holds |-> holds]
Node(op, parts) == [op |-> op, parts |-> parts, holds |-> {}]

\* label == "secret" holds in x1 only; the second is what a slip of an editor
\* makes of it; then combinations that stop before the slip, or do not.
Secret == Leaf("test", {x1})
Slip == Leaf("malformed", {})
Either == Node("any", <<Secret, Slip>>)
Neither == Node("not", <<Either>>)
Public == Node("all", <<Leaf("true", {}), Node("not", <<Secret>>)>>)
Wrong == Node("any", <<Leaf("unknown", {})>>)
Condition == {Leaf("empty", {}), Leaf("true", {}), Leaf("unknown", {}), Secret, Slip,
              Node("not", <<Secret>>), Either, Neither, Public, Wrong}

Earlier(i, j) == i = p1 /\ j = p2

Policy(effect, action, cond) ==
    [effect |-> effect, resource |-> "document", action |-> action, cond |-> cond, enabled |-> TRUE]
Bodies == {Policy("allow", "*", Public), Policy("deny", "read", Secret),
           Policy("deny", "*", Neither), Policy("deny", "read", Wrong)}
Patches == {[resource |-> "*"], [action |-> "*"], [cond |-> Either]}

User == <<"user", 1>>
People == { [home |-> TRUE, role |-> "editor", subjects |-> {User, <<"role", "editor">>}],
            [home |-> TRUE, role |-> "admin", subjects |-> {<<"role", "admin">>}],
            [home |-> FALSE, role |-> "editor", subjects |-> {User}] }
Asked == {<<d1, <<"role", "editor">>, "reindex">>}
Settings == { [wildcards |-> FALSE, default_deny |-> TRUE, bypass |-> TRUE],
              [wildcards |-> TRUE, default_deny |-> FALSE, bypass |-> FALSE] }

OneToTwo == [min |-> 1, max |-> 2]

\* A backup is there; the next does not get old.  At most two jobs, prunes and
\* drills are at work: two drills, which alone may break down, and one prune; or
\* one drill and two prunes, and anything may break down.
Drilled == {d \in Drills : drill[d].task # "new"}
Pruning == {p \in Prunes : prune[p].at # "idle"}
Busy == {j \in Jobs : backup[j].task \notin {"new", "done"}}
        \cup {d \in Drilled : drill[d].task # "done"} \cup Pruning
Bounded ==
    /\ Cardinality(Busy') <= 2
    /\ \A j \in Jobs \ {j1} : age'[j] = 0
    /\ IF part = "drills"
       THEN Cardinality(Pruning') <= 1 /\ (breakdowns' = breakdowns \/ drill' # drill)
       ELSE Cardinality(Drilled') <= 1

Init ==
    /\ part \in Parts
    /\ BucketInit /\ CacheInit /\ AuthzInit /\ BackupInit /\ AutoscalingInit
    /\ part = "principals" \/ granted = [k \in Keys |-> Nothing]
    /\ part = "entitlements" \/ plan
    /\ part = "authorization" \/ (deployment.bypass /\ policies[p2] = Null)
    /\ backup[j1] = Taken(tenant)

CacheStep(A) ==
    /\ A \/ Tick \/ \E i \in Instances : Restart(i)
    /\ UNCHANGED <<bucketVars, authzVars, upkeep>>

Next ==
    /\ UNCHANGED part
    /\ \/ part = "limiter" /\ BucketNext /\ UNCHANGED <<cacheVars, authzVars, upkeep>>
       \/ part = "principals" /\ CacheStep(PrincipalNext)
       \/ part = "entitlements" /\ CacheStep(EntitlementNext)
       \/ part = "authorization" /\ AuthzNext /\ UNCHANGED <<bucketVars, cacheVars, upkeep>>
       \/ /\ part \in {"drills", "prunes"}
          /\ BackupNext /\ Bounded
          /\ UNCHANGED <<access, autoscalingVars>>
       \/ part = "requests" /\ ScalingNext /\ UNCHANGED <<access, backupVars>>
       \/ part = "patches" /\ PatchNext /\ UNCHANGED <<access, backupVars>>

Spec == Init /\ [][Next]_vars

\* Drills are named like calls, prunes like instances and operators like editors.
Alike == Permutations(Admissions) \cup Permutations(Instances) \cup Permutations(Editors)
=============================================================================
