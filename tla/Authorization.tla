---------------------------- MODULE Authorization ----------------------------
(***************************************************************************)
(* Who may do what to a document (services/authz/evaluator.py and abac.py, *)
(* routes/authz_admin.py): a caller needs a document permission (the ACL)  *)
(* and then a decision of the tenant's ABAC policies, whose conditions are *)
(* small expression trees an administrator submits.  The module models     *)
(* the validation and evaluation of conditions, the two decisions built on *)
(* them (one document, and the filter of a listing), their simulation, and *)
(* the administrators' calls that change policies and permissions, a patch *)
(* as the two database steps it is: load the row, then write back the      *)
(* columns that differ from what was loaded.                               *)
(*                                                                         *)
(* A condition is [op, parts, holds]: the operator, the conditions below   *)
(* it, and for a comparison ("test") the contexts in which it holds.       *)
(* "empty" is {}; "malformed" is a comparison whose operands are missing,  *)
(* which the validation lets pass and the evaluation refuses; "unknown" is *)
(* anything else the validation refuses.                                   *)
(***************************************************************************)
EXTENDS Integers, Sequences, FiniteSetsExt

CONSTANTS
    Conditions,     \* the conditions that occur, closed under parts
    Contexts,       \* what a decision is told of caller, resource and request
    MaxDepth,       \* authz_max_policy_depth
    Policies,       \* identities of policies
    Global,         \* those of no tenant: evaluated for everyone, never edited here
    Before(_, _),   \* priority, then id: the order the policies are read in
    Payloads,       \* bodies of policy creations
    Updates,        \* bodies of policy patches: some of a policy's columns
    Editors,        \* concurrent patch requests
    Documents,      \* the documents of one tenant
    Callers,        \* [home, role, subjects]: home is whether it is of that tenant
    Grants,         \* <<document, <<principal type, principal id>>, permission>> that
                    \* administrators ask for
    Deployments,    \* [wildcards, default_deny, bypass] settings that occur
    Null

\* The columns a body gives a policy: PolicyCreateRequest and PolicyPatchRequest.
Columns(p) ==
    /\ "cond" \in DOMAIN p => p.cond \in Conditions
    /\ "effect" \in DOMAIN p => p.effect \in {"allow", "deny"}
    /\ "enabled" \in DOMAIN p => p.enabled \in BOOLEAN
IsPolicy(p) ==
    /\ {"resource", "action", "cond", "effect", "enabled"} \subseteq DOMAIN p
    /\ Columns(p)

\* Conditions are finite trees, bodies are of their types, a row of document_permissions
\* is a triple, and any policies have a first one.
ASSUME AuthzAssumption ==
    /\ \A c \in Conditions :
         /\ c.op \in {"true", "false", "empty", "test", "all", "any", "not", "malformed", "unknown"}
         /\ c.parts \in Seq(Conditions) /\ (c.op = "not" => Len(c.parts) = 1)
         /\ c.holds \subseteq Contexts
    /\ \A S \in (SUBSET Conditions) \ {{}} :
         \E c \in S : \A k \in DOMAIN c.parts : c.parts[k] \notin S
    /\ \A p \in Payloads : IsPolicy(p)
    /\ \A u \in Updates : Columns(u)
    /\ \A g \in Grants : g = <<g[1], g[2], g[3]>>
    /\ \A S \in (SUBSET Policies) \ {{}} : \E i \in S : \A j \in S \ {i} : Before(i, j)

VARIABLES
    deployment,     \* the settings, fixed
    policies,       \* authorization_policies: [Policies -> policy or Null]
    permissions,    \* document_permissions: <<document, subject, permission>> -> "live", "expired"
    edits,          \* [Editors -> a patch between its read and its commit, or Null]
    mixed           \* history: policies whose scope was last written over a scope other
                    \* than the one it was checked with

authzVars == <<deployment, policies, permissions, edits, mixed>>

Permissions == {"read", "write", "delete", "reindex", "owner"}
DocumentActions == {"read", "write", "delete", "reindex"}

(* _ACTION_PERMISSIONS: the permissions that satisfy each action. *)
Satisfying(action) ==
    CASE action = "read"  -> Permissions
      [] action = "write" -> {"write", "delete", "owner"}
      [] OTHER            -> {action, "owner"}

(* _condition_depth. *)
Depth[c \in Conditions] ==
    CASE c.op \in {"true", "false", "empty"} -> 1
      [] c.op \in {"all", "any", "not"} /\ c.parts # << >> ->
            1 + Max({Depth[c.parts[k]] : k \in DOMAIN c.parts})
      [] OTHER -> 2

(* _validate_structure: every operator below is known; a nested {} is not. *)
Structured[c \in Conditions] ==
    /\ c.op \notin {"unknown", "empty"}
    /\ \A k \in DOMAIN c.parts : Structured[c.parts[k]]

(* validate_policy_condition. *)
Accepted(c) == c.op = "empty" \/ (Depth[c] <= MaxDepth /\ Structured[c])

(* evaluate_condition, Python's all() and any() stopping at the first part *)
(* that settles them: "true", "false" or "invalid" (PolicyInvalidError).   *)
Settled(outcomes, unit) ==
    LET Stops == {k \in DOMAIN outcomes : outcomes[k] # unit}
    IN  IF Stops = {} THEN unit ELSE outcomes[Min(Stops)]

Outcome(c, outcomes, x) ==
    CASE c.op \in {"true", "empty"} -> "true"
      [] c.op = "false" -> "false"
      [] c.op = "test"  -> IF x \in c.holds THEN "true" ELSE "false"
      [] c.op = "all"   -> Settled(outcomes, "true")
      [] c.op = "any"   -> Settled(outcomes, "false")
      [] c.op = "not"   -> CASE outcomes[1] = "true" -> "false"
                             [] outcomes[1] = "false" -> "true"
                             [] OTHER -> "invalid"
      [] OTHER          -> "invalid"

Evaluate[c \in Conditions] ==
    [x \in Contexts |-> Outcome(c, [k \in DOMAIN c.parts |-> Evaluate[c.parts[k]][x]], x)]

Verdict == [c \in Conditions |-> [x \in Contexts |-> Evaluate[c][x]]]

InScope(p, resource, action) == p.resource \in {resource, "*"} /\ p.action \in {action, "*"}

\* (Mutant of Decide: a policy whose condition cannot be evaluated is skipped as
\* if it did not match.)
DecideSkippingInvalid(active, resource, action, x) ==
    LET Matching(effect) == {i \in active : /\ policies[i].effect = effect
                                            /\ InScope(policies[i], resource, action)
                                            /\ Verdict[policies[i].cond][x] = "true"}
    IN  /\ Matching("deny") = {}
        /\ Matching("allow") = {} => ~deployment.default_deny

(***************************************************************************)
(* evaluate_policy_set over the active policies: the deny policies in      *)
(* order until one matches or is invalid, then the allow policies, then    *)
(* the default.                                                            *)
(***************************************************************************)
Decide(active, resource, action, x) ==
    LET Of(i) == Verdict[policies[i].cond][x]
        Settling(effect) == {i \in active : /\ policies[i].effect = effect
                                            /\ InScope(policies[i], resource, action)
                                            /\ Of(i) # "false"}
        First(S) == CHOOSE i \in S : \A j \in S \ {i} : Before(i, j)
    IN  /\ Settling("deny") = {}
        /\ IF Settling("allow") = {} THEN ~deployment.default_deny
           ELSE Of(First(Settling("allow"))) = "true"

Created == {i \in Policies : policies[i] # Null}
Enabled == {i \in Created : policies[i].enabled}

(* evaluate_policies, and simulate_policy: the policy taken as enabled. *)
PoliciesAllow(action, x) == Decide(Enabled, "document", action, x)
Simulate(i, action, x) == Decide((Enabled \ {i}) \cup {i}, "document", action, x)

(* evaluate_document_permissions: a live row of one of the caller's own    *)
(* subjects (user, role, API key when it came with one, groups).           *)
AclAllows(caller, d, action) ==
    \/ deployment.bypass /\ caller.role = "admin"
    \/ \E row \in DOMAIN permissions :
          /\ row[1] = d /\ row[2] \in caller.subjects
          /\ permissions[row] = "live"
          /\ row[3] \in Satisfying(action)

(* load_document_permissions_for_principal: what the caller holds of each  *)
(* document of a page, loaded at once.                                     *)
Held(caller) == [d \in Documents |->
                   {row[3] : row \in {r \in DOMAIN permissions :
                                        r[1] = d /\ r[2] \in caller.subjects
                                        /\ permissions[r] = "live"}}]

(* authorize_document_action. *)
Authorized(caller, d, action, x) ==
    caller.home /\ AclAllows(caller, d, action) /\ PoliciesAllow(action, x)

(* filter_documents_for_principal: the documents of a page it keeps. *)
Filtered(caller, action, x) ==
    {d \in Documents : /\ caller.home
                       /\ \/ deployment.bypass /\ caller.role = "admin"
                          \/ Held(caller)[d] \cap Satisfying(action) # {}
                       /\ PoliciesAllow(action, x)}
-----------------------------------------------------------------------------
AuthzInit ==
    /\ deployment \in Deployments
    /\ policies \in {f \in [Policies -> Payloads \cup {Null}] :
                       \A i \in Policies \ Global : f[i] = Null}
    /\ permissions = << >>
    /\ edits = [e \in Editors |-> Null]
    /\ mixed = {}

(* _ensure_allowed_scope. *)
ScopeAllowed(p) == (p.resource = "*" /\ p.action = "*") => deployment.wildcards

(* create_policy. *)
CreatePolicy(i, body) ==
    /\ i \notin Global /\ policies[i] = Null
    /\ ScopeAllowed(body)
    /\ Accepted(body.cond)
    /\ policies' = [policies EXCEPT ![i] = body]
    /\ UNCHANGED <<deployment, permissions, edits, mixed>>

(* The columns of p that u gives a value, over p's own. *)
Merge(p, u) == [f \in DOMAIN p |-> IF f \in DOMAIN u THEN u[f] ELSE p[f]]

\* (Mutant of ScopeChecked: the check sees the columns of the body alone.)
ScopeCheckedAlone(old, u) ==
    ("resource" \in DOMAIN u /\ "action" \in DOMAIN u) => ScopeAllowed(Merge(old, u))

(***************************************************************************)
(* patch_policy: the row is read and the scope checked against what was    *)
(* read, with the columns of the body; then the session writes the columns *)
(* whose value is not the one it read.                                     *)
(***************************************************************************)
ScopeChecked(old, u) == ScopeAllowed(Merge(old, u))

LoadPatch(e, i, u) ==
    /\ edits[e] = Null
    /\ i \notin Global /\ policies[i] # Null
    /\ ScopeChecked(policies[i], u)
    /\ "cond" \in DOMAIN u => Accepted(u.cond)
    /\ edits' = [edits EXCEPT ![e] = [policy |-> i, old |-> policies[i], updates |-> u]]
    /\ UNCHANGED <<deployment, policies, permissions, mixed>>

(* enable_policy, disable_policy: one column, and no check of the scope.   *)
Toggles == {[enabled |-> on] : on \in BOOLEAN}

LoadToggle(e, i, toggle) ==
    /\ edits[e] = Null
    /\ i \notin Global /\ policies[i] # Null
    /\ edits' = [edits EXCEPT ![e] = [policy |-> i, old |-> policies[i], updates |-> toggle]]
    /\ UNCHANGED <<deployment, policies, permissions, mixed>>

Rescopes(u) == DOMAIN u \cap {"resource", "action"} # {}
SameScope(p, q) == p.resource = q.resource /\ p.action = q.action

(* The commit of any of the three.                                         *)
CommitPatch(e) ==
    /\ edits[e] # Null
    /\ LET i == edits[e].policy
           Changed(f) == f \in DOMAIN edits[e].updates /\ edits[e].updates[f] # edits[e].old[f]
       IN  /\ policies' = [policies EXCEPT ![i] =
                             [f \in DOMAIN @ |-> IF Changed(f) THEN edits[e].updates[f] ELSE @[f]]]
           /\ mixed' = IF ~Rescopes(edits[e].updates) THEN mixed
                       ELSE IF SameScope(policies[i], edits[e].old) THEN mixed \ {i}
                       ELSE mixed \cup {i}
    /\ edits' = [edits EXCEPT ![e] = Null]
    /\ UNCHANGED <<deployment, permissions>>

(* grant_document_permission, and each item of the bulk form: a row that   *)
(* exists is returned as it is, one that has expired too.                  *)
Grant(row) ==
    /\ row \notin DOMAIN permissions
    /\ permissions' = [r \in DOMAIN permissions \cup {row} |->
                         IF r = row THEN "live" ELSE permissions[r]]
    /\ UNCHANGED <<deployment, policies, edits, mixed>>

(* The clock passes the row's expires_at. *)
Expire(row) ==
    /\ permissions[row] = "live"
    /\ permissions' = [permissions EXCEPT ![row] = "expired"]
    /\ UNCHANGED <<deployment, policies, edits, mixed>>

(* revoke_document_permission. *)
Revoke(row) ==
    /\ permissions' = [r \in DOMAIN permissions \ {row} |-> permissions[r]]
    /\ UNCHANGED <<deployment, policies, edits, mixed>>

AuthzNext ==
    \/ \E i \in Policies, body \in Payloads : CreatePolicy(i, body)
    \/ \E e \in Editors, i \in Policies, u \in Updates : LoadPatch(e, i, u)
    \/ \E e \in Editors, i \in Policies, toggle \in Toggles : LoadToggle(e, i, toggle)
    \/ \E e \in Editors : CommitPatch(e)
    \/ \E row \in Grants : Grant(row)
    \/ \E row \in DOMAIN permissions : Expire(row) \/ Revoke(row)

AuthzSpec == AuthzInit /\ [][AuthzNext]_authzVars
-----------------------------------------------------------------------------
(***************************************************************************)
(* What the documents say a decision is.  A condition means the Boolean    *)
(* expression it spells, whatever order it is evaluated in; the meaning of *)
(* a malformed part is not defined, so it is read both ways.               *)
(***************************************************************************)
Spelled(c, parts, reading) ==
    CASE c.op \in {"true", "empty"} -> Contexts
      [] c.op = "false" -> {}
      [] c.op = "test"  -> c.holds
      [] c.op = "all"   -> {x \in Contexts : \A k \in DOMAIN parts : x \in parts[k]}
      [] c.op = "any"   -> {x \in Contexts : \E k \in DOMAIN parts : x \in parts[k]}
      [] c.op = "not"   -> Contexts \ parts[1]
      [] OTHER          -> IF reading THEN Contexts ELSE {}

Meaning[c \in Conditions] ==
    [reading \in BOOLEAN |->
       Spelled(c, [k \in DOMAIN c.parts |-> Meaning[c.parts[k]][reading]], reading)]

Means == [c \in Conditions |-> [reading \in BOOLEAN |-> Meaning[c][reading]]]

WellFormed[c \in Conditions] ==
    c.op \notin {"malformed", "unknown"} /\ \A k \in DOMAIN c.parts : WellFormed[c.parts[k]]

Applies(i, effect, action, x, reading) ==
    /\ policies[i] # Null /\ policies[i].enabled /\ policies[i].effect = effect
    /\ InScope(policies[i], "document", action)
    /\ x \in Means[policies[i].cond][reading]

Promised(caller, d, action, x, reading) ==
    /\ caller.home
    /\ \/ deployment.bypass /\ caller.role = "admin"
       \/ \E s \in caller.subjects, perm \in Satisfying(action) :
             <<d, s, perm>> \in DOMAIN permissions /\ permissions[<<d, s, perm>>] = "live"
    /\ \A i \in Policies : ~Applies(i, "deny", action, x, reading)
    /\ deployment.default_deny => \E i \in Policies : Applies(i, "allow", action, x, reading)

(* Every access the code allows is one the documented order allows: tenant,*)
(* then a live grant, then no deny policy that applies, whatever the       *)
(* priorities, then an allow policy or the default.  With well-formed      *)
(* conditions the two are equal, a malformed one only adds refusals, and a *)
(* listing shows exactly the documents a direct request would be given.    *)
(* Source: services/authz/abac.py:116-205, 276-442; docs/runbooks/authz-   *)
(* deny-debugging.md:11; README.md:195-207.                                *)
DecisionsAgree ==
    \A action \in DocumentActions, x \in Contexts :
      /\ \A i \in Enabled : Simulate(i, action, x) = PoliciesAllow(action, x)
      /\ \A caller \in Callers, d \in Documents :
        LET allowed == Authorized(caller, d, action, x)
        IN  /\ allowed => \A reading \in BOOLEAN : Promised(caller, d, action, x, reading)
            /\ (\A i \in Created : WellFormed[policies[i].cond]) =>
                  (allowed <=> Promised(caller, d, action, x, TRUE))
            /\ allowed <=> d \in Filtered(caller, action, x)

(* A tenant's policy over every resource and action exists only where the  *)
(* deployment allows it: each column is checked together with the one the  *)
(* request read, so the two stars can only come from a patch of the scope  *)
(* that was committed over another one of the same policy, and stay only   *)
(* until the scope is patched again without one.  A patch of other columns *)
(* and an enable or disable, unchecked, never bring them about.            *)
(* Source: routes/authz_admin.py:199-208, 467-476; README.md:207.          *)
WildcardsGuarded ==
    \A i \in Created \ Global :
        policies[i].resource = "*" /\ policies[i].action = "*" =>
            deployment.wildcards \/ i \in mixed

AuthzTypeOK ==
    /\ deployment \in Deployments
    /\ \A i \in Created : IsPolicy(policies[i])
    /\ DOMAIN permissions \subseteq Grants
    /\ \A row \in DOMAIN permissions : permissions[row] \in {"live", "expired"}
    /\ \A e \in Editors : edits[e] # Null =>
         edits[e].policy \in Policies \ Global /\ edits[e].updates \in Updates \cup Toggles
    /\ mixed \subseteq Policies \ Global
=============================================================================
