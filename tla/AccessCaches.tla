----------------------------- MODULE AccessCaches -----------------------------
(***************************************************************************)
(* The two caches a request's admission is decided from, in the memory of  *)
(* each API instance.  apps/api/deps.py keeps the principal an API key was *)
(* resolved to for auth_cache_ttl_s from the moment it is stored, and      *)
(* nothing invalidates it: a revocation, a disabled user or a new role is  *)
(* seen when the entry ends.  services/entitlements.py keeps the tenant's  *)
(* features for ENTITLEMENT_CACHE_TTL_S from the moment the lookup began,  *)
(* and an administrator's change drops the entry of the instance that      *)
(* served it.  A lookup that misses reads the database, in one or three    *)
(* statements, and stores the result: changes fall between these steps.    *)
(*                                                                         *)
(* Time is in ticks.  Latency bounds the ticks from the first read of a    *)
(* lookup to its store; it is what the deployment's statement timeouts     *)
(* give, not something the code enforces.                                  *)
(***************************************************************************)
EXTENDS Integers, FiniteSetsExt

CONSTANTS
    Keys,           \* API keys
    KeyRoles,       \* what a usable key may be resolved to
    Instances,      \* API processes
    Admissions,     \* requests being admitted
    AuthTtl,        \* auth_cache_ttl_s
    EntTtl,         \* ENTITLEMENT_CACHE_TTL_S
    Latency,
    Nothing

(* Without a lifetime deps.py caches no principal, and there is nothing to *)
(* bound.                                                                  *)
ASSUME CacheAssumption ==
    /\ AuthTtl \in Nat \ {0} /\ EntTtl \in Nat \ {0} /\ Latency \in Nat
    /\ Nothing \notin KeyRoles /\ Nothing \notin BOOLEAN
    /\ Nothing \notin [role : KeyRoles, left : Nat]
    /\ Nothing \notin [on : BOOLEAN, left : Nat]
    /\ Nothing \notin [kind : {"query"}, inst : Instances, key : Keys, age : Nat]
    /\ Nothing \notin [kind : {"put"}, inst : Instances, key : Keys, role : KeyRoles, age : Nat]
    /\ Nothing \notin [kind : {"plan"}, inst : Instances, age : Nat]
    /\ Nothing \notin [kind : {"override", "store"}, inst : Instances, on : BOOLEAN, age : Nat]

VARIABLES
    granted,        \* database: [Keys -> the role it authenticates as, or Nothing]
    plan,           \* database: whether the tenant's plan has the feature
    override,       \* database: the tenant's override of the feature, Nothing for no row
    principals,     \* [Instances -> [Keys -> [role, left] or Nothing]], left in ticks
    entitlements,   \* [Instances -> [on, left] or Nothing]
    lookups,        \* [Admissions -> a lookup that missed, or Nothing]
    held,           \* history: [Keys -> [KeyRoles -> ticks since it was granted, up to Long]]
    effective       \* history: [BOOLEAN -> ticks since the feature had this value]

cacheVars == <<granted, plan, override, principals, entitlements, lookups, held, effective>>
database == <<granted, plan, override>>

Long == AuthTtl + EntTtl + Latency + 1      \* "long ago": ages stop here
Older(age) == Min({age + 1, Long})

(* _compute_entitlements, of one feature. *)
Effective(planned, overridden) == IF overridden = Nothing THEN planned ELSE overridden

CacheInit ==
    /\ granted \in [Keys -> KeyRoles \cup {Nothing}]
    /\ plan \in BOOLEAN /\ override = Nothing
    /\ principals = [i \in Instances |-> [k \in Keys |-> Nothing]]
    /\ entitlements = [i \in Instances |-> Nothing]
    /\ lookups = [c \in Admissions |-> Nothing]
    /\ held = [k \in Keys |-> [r \in KeyRoles |-> IF granted[k] = r THEN 0 ELSE Long]]
    /\ effective = [v \in BOOLEAN |-> IF plan = v THEN 0 ELSE Long]

(***************************************************************************)
(* get_current_principal.  A hit changes nothing and is not an action: the *)
(* request goes on with principals[i][k].role.                             *)
(***************************************************************************)
MissPrincipal(c, i, k) ==
    /\ lookups[c] = Nothing
    /\ principals[i][k] = Nothing
    /\ lookups' = [lookups EXCEPT ![c] = [kind |-> "query", inst |-> i, key |-> k, age |-> 0]]
    /\ UNCHANGED <<database, principals, entitlements, held, effective>>

(* The key and its user are read and checked: revoked, inactive, expired,  *)
(* unused for too long and of another tenant all end the request.          *)
ReadKey(c) ==
    /\ lookups[c] # Nothing /\ lookups[c].kind = "query"
    /\ LET k == lookups[c].key
       IN  lookups' = [lookups EXCEPT ![c] =
                         IF granted[k] = Nothing THEN Nothing
                         ELSE [kind |-> "put", inst |-> @.inst, key |-> k,
                               role |-> granted[k], age |-> 0]]
    /\ UNCHANGED <<database, principals, entitlements, held, effective>>

(* _set_cached_principal. *)
PutPrincipal(c) ==
    /\ lookups[c] # Nothing /\ lookups[c].kind = "put"
    /\ LET l == lookups[c]
       IN  principals' = [principals EXCEPT ![l.inst][l.key] = [role |-> l.role, left |-> AuthTtl]]
    /\ lookups' = [lookups EXCEPT ![c] = Nothing]
    /\ UNCHANGED <<database, entitlements, held, effective>>

(* patch_admin_api_key, revoke_api_key, a change of the user's role or     *)
(* activity, an expiry: no cache is told.                                  *)
Regrant(k, v) ==
    /\ v # granted[k]
    /\ granted' = [granted EXCEPT ![k] = v]
    /\ held' = [held EXCEPT ![k] = [r \in KeyRoles |-> IF r = v THEN 0 ELSE @[r]]]
    /\ UNCHANGED <<plan, override, principals, entitlements, lookups, effective>>

PrincipalNext ==
    \/ \E c \in Admissions, i \in Instances, k \in Keys : MissPrincipal(c, i, k)
    \/ \E c \in Admissions : ReadKey(c) \/ PutPrincipal(c)
    \/ \E k \in Keys, v \in KeyRoles \cup {Nothing} : Regrant(k, v)
-----------------------------------------------------------------------------
(* get_effective_entitlements: the clock is read, then the cache.  A hit   *)
(* changes nothing.                                                        *)
MissEntitlement(c, i) ==
    /\ lookups[c] = Nothing
    /\ entitlements[i] = Nothing
    /\ lookups' = [lookups EXCEPT ![c] = [kind |-> "plan", inst |-> i, age |-> 0]]
    /\ UNCHANGED <<database, principals, entitlements, held, effective>>

(* _resolve_plan_id and _load_plan_features. *)
ReadPlan(c) ==
    /\ lookups[c] # Nothing /\ lookups[c].kind = "plan"
    /\ lookups' = [lookups EXCEPT ![c] = [kind |-> "override", inst |-> @.inst, on |-> plan,
                                          age |-> @.age]]
    /\ UNCHANGED <<database, principals, entitlements, held, effective>>

(* _load_overrides, in a snapshot of its own. *)
ReadOverrides(c) ==
    /\ lookups[c] # Nothing /\ lookups[c].kind = "override"
    /\ lookups' = [lookups EXCEPT ![c] = [kind |-> "store", inst |-> @.inst,
                                          on |-> Effective(@.on, override), age |-> @.age]]
    /\ UNCHANGED <<database, principals, entitlements, held, effective>>

\* (Mutant of StoreEntitlement: the lifetime is counted from the store.)
StoreFresh(c) ==
    /\ lookups[c] # Nothing /\ lookups[c].kind = "store"
    /\ entitlements' = [entitlements EXCEPT ![lookups[c].inst] =
                          [on |-> lookups[c].on, left |-> EntTtl]]
    /\ lookups' = [lookups EXCEPT ![c] = Nothing]
    /\ UNCHANGED <<database, principals, held, effective>>

(* The entry ends EntTtl after the lookup began: at once if that is past. *)
StoreEntitlement(c) ==
    /\ lookups[c] # Nothing /\ lookups[c].kind = "store"
    /\ LET l == lookups[c]
       IN  entitlements' = [entitlements EXCEPT ![l.inst] =
                              IF l.age >= EntTtl THEN Nothing
                              ELSE [on |-> l.on, left |-> EntTtl - l.age]]
    /\ lookups' = [lookups EXCEPT ![c] = Nothing]
    /\ UNCHANGED <<database, principals, held, effective>>

(* What a change of the tenant's features does: the commit, then           *)
(* invalidate_entitlements_cache on the instance that served it.           *)
Entitle(i, planned, overridden) ==
    /\ plan' = planned /\ override' = overridden
    /\ entitlements' = [entitlements EXCEPT ![i] = Nothing]
    /\ effective' = [effective EXCEPT ![Effective(planned, overridden)] = 0]
    /\ UNCHANGED <<granted, principals, lookups, held>>

(* assign_tenant_plan; patch_tenant_overrides, which never clears a value. *)
AssignPlan(i, v) == v # plan /\ Entitle(i, v, override)
PatchOverride(i, v) == Entitle(i, plan, v)

EntitlementNext ==
    \/ \E c \in Admissions, i \in Instances : MissEntitlement(c, i)
    \/ \E c \in Admissions : ReadPlan(c) \/ ReadOverrides(c) \/ StoreEntitlement(c)
    \/ \E i \in Instances, v \in BOOLEAN : AssignPlan(i, v) \/ PatchOverride(i, v)
-----------------------------------------------------------------------------
\* (Mutant of Aged: an entry is dropped a tick after its end.)
AgedPastEnd(entry) ==
    IF entry = Nothing \/ entry.left = 0 THEN Nothing ELSE [entry EXCEPT !.left = @ - 1]

Aged(entry) == IF entry = Nothing \/ entry.left = 1 THEN Nothing ELSE [entry EXCEPT !.left = @ - 1]

Tick ==
    /\ \A c \in Admissions : lookups[c] # Nothing => lookups[c].age < Latency
    /\ principals' = [i \in Instances |-> [k \in Keys |-> Aged(principals[i][k])]]
    /\ entitlements' = [i \in Instances |-> Aged(entitlements[i])]
    /\ lookups' = [c \in Admissions |-> IF lookups[c] = Nothing THEN Nothing
                                   ELSE [lookups[c] EXCEPT !.age = @ + 1]]
    /\ held' = [k \in Keys |-> [r \in KeyRoles |-> IF granted[k] = r THEN 0 ELSE Older(held[k][r])]]
    /\ effective' = [v \in BOOLEAN |-> IF Effective(plan, override) = v THEN 0
                                       ELSE Older(effective[v])]
    /\ UNCHANGED database

(* The process of an instance ends and starts anew. *)
Restart(i) ==
    /\ principals' = [principals EXCEPT ![i] = [k \in Keys |-> Nothing]]
    /\ entitlements' = [entitlements EXCEPT ![i] = Nothing]
    /\ lookups' = [c \in Admissions |-> IF lookups[c] # Nothing /\ lookups[c].inst = i THEN Nothing
                                   ELSE lookups[c]]
    /\ UNCHANGED <<database, held, effective>>

CacheNext == PrincipalNext \/ EntitlementNext \/ Tick \/ \E i \in Instances : Restart(i)

CacheSpec == CacheInit /\ [][CacheNext]_cacheVars
-----------------------------------------------------------------------------
(* How stale an admission can be.  A request goes on as a role only if the *)
(* key had this role less than AuthTtl + Latency ago: a revoked key, or a  *)
(* role that was taken away, is honoured no longer, whichever instance is  *)
(* asked and however its lookups and the change interleave.  A feature is  *)
(* answered on, or off, only if the tenant really had it so less than      *)
(* EntTtl ago: the plan and the overrides are read apart, and still never  *)
(* combine to a value that held at no moment.                              *)
(* Source: apps/api/deps.py:77-99, 340-580; services/entitlements.py:87-   *)
(* 108, 173-200; routes/admin.py:472-477, 540-546.                         *)
StaleBounded ==
    \A i \in Instances :
        /\ \A k \in Keys : principals[i][k] # Nothing =>
              held[k][principals[i][k].role] < AuthTtl + Latency
        /\ entitlements[i] # Nothing => effective[entitlements[i].on] < EntTtl

Lookups ==
    [kind : {"query"}, inst : Instances, key : Keys, age : 0 .. Latency]
    \cup [kind : {"put"}, inst : Instances, key : Keys, role : KeyRoles, age : 0 .. Latency]
    \cup [kind : {"plan"}, inst : Instances, age : 0 .. Latency]
    \cup [kind : {"override", "store"}, inst : Instances, on : BOOLEAN, age : 0 .. Latency]

CacheTypeOK ==
    /\ granted \in [Keys -> KeyRoles \cup {Nothing}]
    /\ plan \in BOOLEAN /\ override \in BOOLEAN \cup {Nothing}
    /\ principals \in [Instances -> [Keys -> [role : KeyRoles, left : 1 .. AuthTtl] \cup {Nothing}]]
    /\ entitlements \in [Instances -> [on : BOOLEAN, left : 1 .. EntTtl] \cup {Nothing}]
    /\ lookups \in [Admissions -> Lookups \cup {Nothing}]
    /\ held \in [Keys -> [KeyRoles -> 0 .. Long]]
    /\ effective \in [BOOLEAN -> 0 .. Long]
=============================================================================
