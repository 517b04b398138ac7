------------------------------ MODULE Identity ------------------------------
(***************************************************************************)
(* A tenant's users, their SCIM groups and their roles: routes/scim.py,    *)
(* the login of routes/sso.py with services/auth/oidc.py, and the user     *)
(* routes of routes/identity_admin.py.                                     *)
(*                                                                         *)
(* A group may be bound to a role.  Provisioning calls replace memberships *)
(* and compute the roles of the users concerned from the bindings; a login *)
(* and an administrator write the role as well.  All of them load rows,    *)
(* decide, and commit the columns they changed, at READ COMMITTED: a call  *)
(* is a load, a synchronisation of memberships, one look at the groups of  *)
(* each user concerned, and a commit.                                      *)
(***************************************************************************)
EXTENDS Naturals, FiniteSets

CONSTANTS
  Users,    \* tenant_users, by external subject
  Groups,   \* scim_groups
  Calls,    \* provisioning calls and logins, any number of them in turn
  Binding,  \* role_binding of each group, or None; set outside the API
  GivenRoles,  \* roles that administrators and the claims of a login give
  Asked,    \* what a SCIM payload says of the status, None for nothing
  None

Roles == {"reader", "editor", "admin"}
Rank  == [r \in Roles |-> CASE r = "reader" -> 1 [] r = "editor" -> 2 [] r = "admin" -> 3]

Status == {"active", "disabled"}
Row  == [role : Roles, status : Status]

ASSUME IdentityAssumption ==
  /\ Binding \in [Groups -> Roles \cup {None}]
  /\ None \notin Roles \cup Users \cup Groups \cup Status \cup Row
  /\ Users \cap Groups = {}
  /\ GivenRoles \subseteq Roles
  /\ Asked \subseteq {"active", "disabled", None}

VARIABLES
  user,    \* tenant_users: role and status of each user, or None
  groups,  \* scim_groups that have not been deleted
  member,  \* scim_group_memberships
  call,    \* the local state of each call
  loose    \* history: users whose role was last written otherwise than by a
           \* call that had looked at their groups and was not overtaken

vars == <<user, groups, member, call, loose>>

Pair == Users \X Groups

Kinds == {"user", "login", "create_group", "patch_group", "delete_group"}

\* want are the memberships the call is to leave in its scope, or None; seen is
\* the role of its user as loaded, or None if there is no such user; asked is the
\* status in its payload.  drop, add, role and status are its uncommitted changes
\* (None: no change), role of the users it is done with; todo are the users left.
\* alone (history) are the users no other call has touched since the load.
CallState ==
  [phase : {"idle", "loaded", "roles"}, kind : Kinds,
   of : Users \cup Groups, want : (SUBSET Pair) \cup {None},
   seen : Roles \cup {None}, asked : Status \cup {None}, status : Status \cup {None},
   drop : SUBSET Pair, add : SUBSET Pair, todo : SUBSET Users,
   role : UNION {[us -> Roles \cup {None}] : us \in SUBSET Users},
   alone : SUBSET Users]

\* Role changes of no user.
NoRoles == [u \in {} |-> None]

Idle == [phase |-> "idle"]

Init ==
  /\ user \in [Users -> {None, [role |-> "reader", status |-> "active"]}]
  /\ groups = Groups
  /\ member = {}
  /\ call = [c \in Calls |-> Idle]
  /\ loose = {}

UsersOf(pairs) == {p[1] : p \in pairs}

Scope(c) == {p \in Pair : call[c].of \in {p[1], p[2]}}

Highest(rs) == CHOOSE r \in rs : \A s \in rs : Rank[s] <= Rank[r]

\* The roles bound to the groups of u in a set of memberships.
Bound(u, pairs) == {Binding[p[2]] : p \in {q \in pairs : q[1] = u}} \ {None}

\* (Mutant of Assigned: the status is assigned whether the payload has one or not.)
AssignedAnyway(x, asked) ==
  IF asked # None THEN asked
  ELSE IF x \in Users /\ user[x] # None THEN user[x].status ELSE None

\* The status that a commit writes: the one asked for, if it differs from the one
\* loaded.
Assigned(x, asked) ==
  IF x \in Users /\ user[x] # None /\ user[x].status = asked THEN None ELSE asked

Begin(c, kind, x, want, asked, todo) ==
  /\ call[c].phase = "idle"
  /\ call' = [call EXCEPT ![c] =
       [phase |-> "loaded", kind |-> kind, of |-> x, want |-> want,
        seen |-> IF x \in Users /\ user[x] # None THEN user[x].role ELSE None,
        asked |-> asked, status |-> Assigned(x, asked), drop |-> {}, add |-> {},
        todo |-> todo, role |-> NoRoles, alone |-> Users]]
  /\ UNCHANGED <<user, groups, member, loose>>

\* The calls after c committed changes to the users us.
Overtaken(c, us, state) ==
  [d \in Calls |->
     IF d = c THEN state
     ELSE IF call[d].phase = "idle" THEN call[d]
     ELSE [call[d] EXCEPT !.alone = @ \ us]]

-----------------------------------------------------------------------------
\* create_user finds the user or will insert it; groups and active may be
\* missing from the payload.
LoadCreateUser(c, u, want, asked) ==
  Begin(c, "user", u, want, asked, IF want = None THEN {} ELSE {u})

\* patch_user applies its operations to what it loaded, groups included: without
\* an operation on groups it is to leave the user in the groups it saw.
LoadPatchUser(c, u, want, asked) ==
  /\ user[u] # None
  /\ Begin(c, "user", u, want, asked, {u})

\* create_group on a group that exists replaces its members.  (A new group has no
\* binding.)
LoadCreateGroup(c, g, want) ==
  /\ g \in groups
  /\ Begin(c, "create_group", g, want, None, UsersOf(want))

\* (Mutant of Affected: only the users the group ends up with.)
AffectedNew(g, want) == UsersOf(want)

\* The users patch_group looks at: those it saw in the group and those it is to
\* leave there.
Affected(g, want) == UsersOf(want) \cup UsersOf({p \in member : p[2] = g})

LoadPatchGroup(c, g, want) ==
  /\ g \in groups
  /\ Begin(c, "patch_group", g, want, None, Affected(g, want))

LoadDeleteGroup(c, g) ==
  /\ g \in groups
  /\ Begin(c, "delete_group", g, None, None, Affected(g, {}))

\* oidc_callback, with valid claims: a disabled user is refused, an unknown one is
\* created (just in time provisioning off is a refusal).
LoadLogin(c, u) ==
  /\ user[u] # None => user[u].status = "active"
  /\ Begin(c, "login", u, None, None, {u})

-----------------------------------------------------------------------------
\* The rows a call has inserted or deleted and not committed are locked.
Unlocked(c, pairs) ==
  \A d \in Calls \ {c} : call[d].phase = "roles" => (call[d].drop \cup call[d].add) \cap pairs = {}

\* The memberships are read again and brought to what is wanted, as far as the
\* users and groups exist.  (A group that is gone by now makes a call on it fail,
\* and a user's group that goes in between.)
Sync(c) ==
  LET there == member \cap Scope(c)
      valid == {p \in call[c].want : user[p[1]] # None \/ p[1] = call[c].of}
                 \cap (Users \X groups)
      drop  == there \ valid
      add   == valid \ there
  IN /\ call[c].phase = "loaded"
     /\ call[c].kind \in {"create_group", "patch_group"} => call[c].of \in groups
     /\ call[c].want # None
     /\ Unlocked(c, drop \cup add)
     /\ call' = [call EXCEPT ![c] = [@ EXCEPT !.phase = "roles", !.want = None,
                                           !.drop = drop, !.add = add]]
     /\ UNCHANGED <<user, groups, member, loose>>

\* A call without memberships in its payload, or a login.
NothingToSync(c) ==
  /\ call[c].phase = "loaded"
  /\ call[c].want = None
  /\ call[c].kind # "delete_group"
  /\ call' = [call EXCEPT ![c].phase = "roles"]
  /\ UNCHANGED <<user, groups, member, loose>>

\* delete_group commits the deletion, and looks at the users afterwards.
DropGroup(c) ==
  LET there == {p \in member : p[2] = call[c].of}
  IN /\ call[c].phase = "loaded"
     /\ call[c].kind = "delete_group"
     /\ Unlocked(c, {p \in Pair : p[2] = call[c].of})
     /\ groups' = groups \ {call[c].of}
     /\ member' = member \ there
     /\ call' = Overtaken(c, UsersOf(there), [call[c] EXCEPT !.phase = "roles"])
     /\ loose' = loose \cup UsersOf(there)
     /\ UNCHANGED user

\* The role of u as the call has it: from its load, as it is read now, or the one
\* a user is inserted with.
SeenRole(c, u) ==
  IF u # call[c].of THEN user[u].role
  ELSE IF call[c].seen # None THEN call[c].seen ELSE "reader"

\* _recompute_role_from_groups leaves the role alone when no group of the user is
\* bound; resolve_role then takes what the claims map to, or the default.
Resolved(c, u, claimed) ==
  LET bound == Bound(u, (member \ call[c].drop) \cup call[c].add)
  IN IF bound # {} THEN Highest(bound)
     ELSE IF call[c].kind = "login" THEN claimed ELSE SeenRole(c, u)

\* One user of the call, which sees its own changes and what is committed.
Recompute(c, u, claimed) ==
  LET role == Resolved(c, u, claimed)
  IN /\ call[c].phase = "roles"
     /\ u \in call[c].todo
     /\ user[u] # None \/ u = call[c].of
     /\ call' = [call EXCEPT ![c] =
          [@ EXCEPT !.todo = call[c].todo \ {u},
                    !.role = [v \in DOMAIN call[c].role \cup {u} |->
                                IF v # u THEN call[c].role[v]
                                ELSE IF role = SeenRole(c, u) THEN None ELSE role]]]
     /\ UNCHANGED <<user, groups, member, loose>>

\* A member that is no user of the tenant is passed over.
SkipUnknown(c, u) ==
  /\ call[c].phase = "roles"
  /\ u \in call[c].todo
  /\ user[u] = None /\ u # call[c].of
  /\ call' = [call EXCEPT ![c].todo = @ \ {u}]
  /\ UNCHANGED <<user, groups, member, loose>>

\* (Mutant of Written: a user is inserted without a role.)
WrittenBare(c, u) ==
  LET base == IF user[u] = None THEN [role |-> None, status |-> "active"] ELSE user[u]
  IN [role   |-> IF u \in DOMAIN call[c].role /\ call[c].role[u] # None
                 THEN call[c].role[u] ELSE base.role,
      status |-> IF u = call[c].of /\ call[c].status # None
                 THEN call[c].status ELSE base.status]

\* The row of u after the commit of c: the columns it changed.
Written(c, u) ==
  LET base == IF user[u] = None THEN [role |-> "reader", status |-> "active"] ELSE user[u]
  IN [role   |-> IF u \in DOMAIN call[c].role /\ call[c].role[u] # None
                 THEN call[c].role[u] ELSE base.role,
      status |-> IF u = call[c].of /\ call[c].status # None
                 THEN call[c].status ELSE base.status]

\* create_group does not look at the users it takes out of the group.
Forgotten(c) ==
  IF call[c].kind = "create_group" THEN UsersOf(call[c].drop) \ DOMAIN call[c].role ELSE {}

\* The user of a call that inserts it exists once only (uq_tenant_users_subject).
Commit(c) ==
  LET done    == DOMAIN call[c].role
      touched == done \cup UsersOf(call[c].drop \cup call[c].add)
  IN /\ call[c].phase = "roles"
     /\ call[c].todo = {}
     /\ call[c].of \in Users /\ call[c].seen = None => user[call[c].of] = None
     /\ member' = (member \ call[c].drop) \cup call[c].add
     /\ user' = [u \in Users |-> IF u \in done \cup ({call[c].of} \cap Users) THEN Written(c, u) ELSE user[u]]
     /\ call' = Overtaken(c, touched, Idle)
     /\ loose' = (loose \ done) \cup (touched \ call[c].alone) \cup Forgotten(c)
     /\ UNCHANGED groups

\* A call fails or its instance dies: what it did not commit is gone.
Fail(c) ==
  /\ call[c].phase # "idle"
  /\ call' = [call EXCEPT ![c] = Idle]
  /\ UNCHANGED <<user, groups, member, loose>>

-----------------------------------------------------------------------------
\* The user routes of administrators, and SCIM's delete_user, write one column.
SetRole(u, r) ==
  /\ user[u] # None
  /\ user' = [user EXCEPT ![u].role = r]
  /\ loose' = loose \cup {u}
  /\ call' = [d \in Calls |-> IF call[d].phase = "idle" THEN Idle
                              ELSE [call[d] EXCEPT !.alone = @ \ {u}]]
  /\ UNCHANGED <<groups, member>>

SetStatus(u, s) ==
  /\ user[u] # None
  /\ user' = [user EXCEPT ![u].status = s]
  /\ UNCHANGED <<groups, member, call, loose>>

-----------------------------------------------------------------------------
MembersOf(u) == {p \in Pair : p[1] = u}

Load(c) ==
  \/ \E u \in Users, asked \in Asked :
       \/ \E want \in (SUBSET MembersOf(u)) \cup {None} : LoadCreateUser(c, u, want, asked)
       \/ \E want \in SUBSET MembersOf(u) : LoadPatchUser(c, u, want, asked)
  \/ \E u \in Users : LoadLogin(c, u)
  \/ \E g \in Groups :
       \/ \E us \in SUBSET Users : LoadCreateGroup(c, g, us \X {g}) \/ LoadPatchGroup(c, g, us \X {g})
       \/ LoadDeleteGroup(c, g)

Next ==
  \/ \E c \in Calls :
       \/ Load(c)
       \/ Sync(c) \/ NothingToSync(c) \/ DropGroup(c) \/ Commit(c) \/ Fail(c)
       \/ \E u \in Users : SkipUnknown(c, u) \/ (\E r \in GivenRoles : Recompute(c, u, r))
  \/ \E u \in Users : (\E r \in GivenRoles : SetRole(u, r)) \/ (\E s \in Status : SetStatus(u, s))

Spec == Init /\ [][Next]_vars

-----------------------------------------------------------------------------
TypeOK ==
  /\ user \in [Users -> Row \cup {None}]
  /\ groups \subseteq Groups
  /\ member \subseteq Pair
  /\ call \in [Calls -> {Idle} \cup CallState]
  /\ loose \subseteq Users

\* scim.py "Update tenant user roles based on SCIM group bindings": a user in bound
\* groups has the highest role bound, from the first call on that looks at the
\* user's groups without being overtaken until an administrator sets the role, a
\* group's deletion or replacement takes the user out of it, or a call overtakes
\* another one.
RolesFollowGroups ==
  \A u \in Users \ loose :
    user[u] # None /\ Bound(u, member) # {} => user[u].role = Highest(Bound(u, member))

\* A disabled user becomes active by a request that says so and by no other: a
\* synchronisation or login that loaded the user before it was disabled does not
\* write the status back.
StaysDisabled ==
  [][\A u \in Users :
       user[u] # None /\ user[u].status = "disabled" /\ user'[u].status = "active" =>
         \/ SetStatus(u, "active")
         \/ \E c \in Calls : Commit(c) /\ call[c].of = u /\ call[c].asked = "active"]_vars
=============================================================================
