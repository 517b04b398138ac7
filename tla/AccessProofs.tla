----------------------------- MODULE AccessProofs -----------------------------
(***************************************************************************)
(* Proofs about what decides who a request is from and what it may do, for *)
(* any number of users, groups, keys, conditions and policies: the roles   *)
(* of users (Identity), the rate limiter (TokenBucket), the caches of      *)
(* principals and plans (AccessCaches), and the decisions of policies and  *)
(* grants (Authorization).                                                 *)
(***************************************************************************)
EXTENDS Identity, TokenBucket, AccessCaches, Authorization, TLAPS, WellFoundedInduction

\* A membership is of a user that exists.
MembersExist == \A p \in member : user[p[1]] # None

\* What a call knows of its user stays true while no other call touches it, and the
\* status it will write is the one it was asked for.
LoadInv(c) ==
  call[c].phase # "idle" =>
    /\ call[c].status \in {None, call[c].asked}
    /\ call[c].seen # None =>
         /\ call[c].of \in Users /\ user[call[c].of] # None
         /\ call[c].of \in call[c].alone => user[call[c].of].role = call[c].seen

\* A call that has not synchronised yet will look at every user it may add to a
\* group, and at every one it may take out of one, unless it creates the group.
ToDoInv(c) ==
  call[c].phase = "loaded" =>
    /\ call[c].drop = {} /\ call[c].add = {} /\ DOMAIN call[c].role = {}
    /\ call[c].want # None =>
         /\ \A p \in call[c].want : p[1] \in call[c].todo
         /\ call[c].kind # "create_group" =>
              \A p \in member \cap Scope(c) : p[1] \in call[c].alone => p[1] \in call[c].todo

Looked(c) == call[c].todo \cup DOMAIN call[c].role

\* The memberships as a call sees them.
View(c) == (member \ call[c].drop) \cup call[c].add

\* What it wrote of a user's role, if nobody overtook it, is the highest bound one.
RoleInv(c, u) ==
  /\ call[c].of = u /\ call[c].seen = None => user[u] = None
  /\ Bound(u, View(c)) # {}
  => Written(c, u).role = Highest(Bound(u, View(c)))

RolesInv(c) ==
  call[c].phase = "roles" =>
    /\ \A p \in call[c].add : p[1] \in Looked(c) /\ (p[1] = call[c].of \/ user[p[1]] # None)
    /\ \A p \in call[c].drop :
         /\ user[p[1]] # None
         /\ call[c].kind # "create_group" /\ p[1] \in call[c].alone => p[1] \in Looked(c)
    /\ \A u \in DOMAIN call[c].role :
         /\ u = call[c].of \/ user[u] # None
         /\ u \in call[c].alone => RoleInv(c, u)

CallInv(c) == LoadInv(c) /\ ToDoInv(c) /\ RolesInv(c)

IdentityInv == TypeOK /\ MembersExist /\ RolesFollowGroups /\ \A c \in Calls : CallInv(c)

\* What a step that touches the users us leaves of a call.
Stays(d, us) ==
  /\ call'[d].phase = call[d].phase
  /\ call[d].phase # "idle" =>
       /\ call'[d].kind = call[d].kind /\ call'[d].of = call[d].of
       /\ call'[d].want = call[d].want /\ call'[d].seen = call[d].seen
       /\ call'[d].asked = call[d].asked /\ call'[d].status = call[d].status
       /\ call'[d].drop = call[d].drop /\ call'[d].add = call[d].add
       /\ call'[d].todo = call[d].todo /\ call'[d].role = call[d].role
       /\ call'[d].alone = call[d].alone \ us

-----------------------------------------------------------------------------
\* Lemmas about the operators that the actions are built from.

\* The fields of a call that is under way.
LEMMA OfCall ==
  ASSUME TypeOK, NEW c \in Calls, call[c].phase # "idle"
  PROVE  /\ call[c] \in CallState
         /\ call[c].phase \in {"loaded", "roles"} /\ call[c].kind \in Kinds
         /\ call[c].of \in Users \cup Groups /\ call[c].want \in (SUBSET Pair) \cup {None}
         /\ call[c].seen \in Roles \cup {None} /\ call[c].asked \in Status \cup {None}
         /\ call[c].status \in Status \cup {None}
         /\ call[c].drop \in SUBSET Pair /\ call[c].add \in SUBSET Pair
         /\ call[c].todo \in SUBSET Users /\ call[c].alone \in SUBSET Users
         /\ DOMAIN call[c].role \in SUBSET Users
         /\ call[c].role \in [DOMAIN call[c].role -> Roles \cup {None}]
<1>1. call[c] \in CallState
  BY DEF TypeOK, Idle
<1>2. call[c].role \in UNION {[us -> Roles \cup {None}] : us \in SUBSET Users}
  BY <1>1 DEF CallState
<1>3. PICK us \in SUBSET Users : call[c].role \in [us -> Roles \cup {None}]
  BY <1>2
<1> QED
  BY <1>1, <1>3 DEF CallState

\* Of roles there are, one is the highest.
LEMMA HighestRole ==
  ASSUME NEW rs \in SUBSET Roles, rs # {}
  PROVE  Highest(rs) \in rs
<1>1. Rank["reader"] = 1 /\ Rank["editor"] = 2 /\ Rank["admin"] = 3
  BY DEF Rank, Roles
<1>2. \E r \in rs : \A s \in rs : Rank[s] <= Rank[r]
  <2>1. CASE "admin" \in rs
    BY <1>1, <2>1 DEF Roles
  <2>2. CASE "admin" \notin rs /\ "editor" \in rs
    BY <1>1, <2>2 DEF Roles
  <2>3. CASE "admin" \notin rs /\ "editor" \notin rs
    <3>1. "reader" \in rs /\ \A s \in rs : s = "reader"
      BY <2>3 DEF Roles
    <3> QED
      BY <1>1, <3>1
  <2> QED
    BY <2>1, <2>2, <2>3
<1> QED
  BY <1>2 DEF Highest

\* Groups are bound to roles.
LEMMA BoundRoles ==
  ASSUME NEW u \in Users, NEW pairs \in SUBSET Pair
  PROVE  Bound(u, pairs) \in SUBSET Roles
<1>1. \A p \in pairs : Binding[p[2]] \in Roles \cup {None}
  BY IdentityAssumption DEF Pair
<1> QED
  BY <1>1 DEF Bound

\* The roles bound to a user's groups depend on that user's memberships alone.
LEMMA BoundSame ==
  ASSUME NEW u \in Users, NEW these \in SUBSET Pair, NEW those \in SUBSET Pair,
         \A p \in Pair : p[1] = u => (p \in these <=> p \in those)
  PROVE  Bound(u, these) = Bound(u, those)
<1>1. {q \in these : q[1] = u} = {q \in those : q[1] = u}
  OBVIOUS
<1> QED
  BY <1>1 DEF Bound

\* Nobody has a membership in a set of which nobody does.
LEMMA BoundNone ==
  ASSUME NEW u \in Users, NEW pairs \in SUBSET Pair, \A p \in pairs : p[1] # u
  PROVE  Bound(u, pairs) = {}
BY DEF Bound

\* Assigning a call keeps the others.
LEMMA AssignCall ==
  ASSUME TypeOK, NEW c \in Calls, NEW r \in {Idle} \cup CallState,
         call' = [call EXCEPT ![c] = r]
  PROVE  /\ call' \in [Calls -> {Idle} \cup CallState]
         /\ call'[c] = r
         /\ \A d \in Calls : d # c => Stays(d, {})
<1>1. call \in [Calls -> {Idle} \cup CallState]
  BY DEF TypeOK
<1>2. /\ call' \in [Calls -> {Idle} \cup CallState] /\ call'[c] = r
      /\ \A d \in Calls : d # c => call'[d] = call[d]
  BY <1>1
<1>3. ASSUME NEW d \in Calls, call'[d] = call[d] PROVE Stays(d, {})
  BY <1>3, OfCall DEF Stays
<1> QED
  BY <1>2, <1>3

\* A commit that touches the users us is seen by the other calls.
LEMMA OvertakenStep ==
  ASSUME TypeOK, NEW c \in Calls, NEW us \in SUBSET Users, NEW r \in {Idle} \cup CallState,
         call' = Overtaken(c, us, r)
  PROVE  /\ call' \in [Calls -> {Idle} \cup CallState]
         /\ call'[c] = r
         /\ \A d \in Calls : d # c => Stays(d, us)
<1>1. \A d \in Calls : call[d] \in {Idle} \cup CallState
  BY DEF TypeOK
<1>2. ASSUME NEW d \in Calls
      PROVE  call'[d] = IF d = c THEN r
                        ELSE IF call[d].phase = "idle" THEN call[d]
                        ELSE [call[d] EXCEPT !.alone = @ \ us]
  BY DEF Overtaken
<1>3. ASSUME NEW d \in Calls, call[d].phase # "idle"
      PROVE  LET s == [call[d] EXCEPT !.alone = @ \ us]
             IN  s \in CallState
  <2>1. call[d] \in CallState
    BY <1>3, OfCall
  <2> QED
    BY <2>1 DEF CallState
<1>4. call' \in [Calls -> {Idle} \cup CallState]
  <2>1. \A d \in Calls : call'[d] \in {Idle} \cup CallState
    BY <1>1, <1>2, <1>3
  <2>2. call' = [d \in Calls |-> call'[d]]
    BY DEF Overtaken
  <2> QED
    BY <2>1, <2>2
<1>5. ASSUME NEW d \in Calls, d # c PROVE Stays(d, us)
  <2>1. CASE call[d].phase = "idle"
    BY <1>2, <1>5, <2>1 DEF Stays
  <2>2. CASE call[d].phase # "idle"
    <3>1. call[d] \in CallState /\ call'[d] = [call[d] EXCEPT !.alone = @ \ us]
      BY <1>2, <1>5, <2>2, OfCall
    <3> QED
      BY <3>1 DEF Stays, CallState
  <2> QED
    BY <2>1, <2>2
<1> QED
  BY <1>2, <1>4, <1>5

-----------------------------------------------------------------------------
\* What a call knows survives a step that keeps the roles and memberships of the users
\* it does not tell the call about, and removes no user.
LEMMA CallStays ==
  ASSUME TypeOK, TypeOK', NEW d \in Calls, NEW us \in SUBSET Users, CallInv(d), Stays(d, us),
         \A u \in Users : user[u] # None =>
           user'[u] # None /\ (u \notin us => user'[u].role = user[u].role),
         \A p \in Pair : p[1] \notin us => (p \in member' <=> p \in member)
  PROVE  CallInv(d)'
<1> SUFFICES ASSUME call[d].phase # "idle" PROVE CallInv(d)'
  BY DEF Stays, CallInv, LoadInv, ToDoInv, RolesInv
<1>1. /\ call'[d].phase = call[d].phase
      /\ call'[d].kind = call[d].kind /\ call'[d].of = call[d].of
      /\ call'[d].want = call[d].want /\ call'[d].seen = call[d].seen
      /\ call'[d].asked = call[d].asked /\ call'[d].status = call[d].status
      /\ call'[d].drop = call[d].drop /\ call'[d].add = call[d].add
      /\ call'[d].todo = call[d].todo /\ call'[d].role = call[d].role
      /\ call'[d].alone = call[d].alone \ us
  BY DEF Stays
<1>2. /\ call[d].drop \in SUBSET Pair /\ call[d].add \in SUBSET Pair
      /\ DOMAIN call[d].role \in SUBSET Users
      /\ \A p \in Pair : p[1] \in Users
      /\ member \in SUBSET Pair /\ member' \in SUBSET Pair
      /\ call[d].want \in (SUBSET Pair) \cup {None}
  BY OfCall DEF Pair, TypeOK
<1>3. LoadInv(d)'
  BY <1>1 DEF CallInv, LoadInv
<1>4. ToDoInv(d)'
  <2>1. SUFFICES ASSUME call[d].phase = "loaded" PROVE ToDoInv(d)'
    BY <1>1 DEF ToDoInv
  <2>2. Scope(d)' = Scope(d)
    BY <1>1 DEF Scope
  <2>3. \A p \in member' : p[1] \in call'[d].alone => p \in member /\ p[1] \in call[d].alone
    BY <1>1, <1>2
  <2> QED
    BY <1>1, <2>1, <2>2, <2>3 DEF CallInv, ToDoInv
<1>5. RolesInv(d)'
  <2>1. SUFFICES ASSUME call[d].phase = "roles" PROVE RolesInv(d)'
    BY <1>1 DEF RolesInv
  <2>2. RolesInv(d) /\ LoadInv(d) /\ Looked(d)' = Looked(d)
    BY <1>1 DEF CallInv, Looked
  <2>3. \A p \in call[d].add : p[1] \in Looked(d) /\ (p[1] = call[d].of \/ user'[p[1]] # None)
    BY <1>2, <2>1, <2>2 DEF RolesInv
  <2>4. \A p \in call[d].drop :
          /\ user'[p[1]] # None
          /\ call[d].kind # "create_group" /\ p[1] \in call'[d].alone => p[1] \in Looked(d)
    BY <1>1, <1>2, <2>1, <2>2 DEF RolesInv
  <2>5. ASSUME NEW u \in DOMAIN call[d].role
        PROVE  /\ u = call[d].of \/ user'[u] # None
               /\ u \in call'[d].alone => RoleInv(d, u)'
    <3>1. u \in Users /\ (u = call[d].of \/ user[u] # None)
      BY <1>2, <2>1, <2>2 DEF RolesInv
    <3>2. ASSUME u \in call'[d].alone PROVE RoleInv(d, u)'
      <4>1. u \in call[d].alone /\ u \notin us
        BY <1>1, <3>2
      <4>2. RoleInv(d, u)
        BY <2>1, <2>2, <4>1 DEF RolesInv
      <4>3. View(d) \in SUBSET Pair /\ View(d)' \in SUBSET Pair
        BY <1>1, <1>2 DEF View
      <4>4. \A p \in Pair : p[1] = u => (p \in View(d)' <=> p \in View(d))
        BY <1>1, <4>1 DEF View
      <4>5. Bound(u, View(d)') = Bound(u, View(d))
        BY <3>1, <4>3, <4>4, BoundSame
      <4>6. CASE user[u] # None
        <5>1. user'[u] # None /\ user'[u].role = user[u].role
          BY <3>1, <4>1, <4>6
        <5>2. Written(d, u)'.role = Written(d, u).role
          BY <1>1, <4>6, <5>1 DEF Written
        <5>3. call[d].of = u => call[d].seen # None \/ user'[u] # None
          BY <5>1
        <5>4. CASE call[d].of = u /\ call[d].seen = None
          BY <1>1, <5>1, <5>4 DEF RoleInv
        <5>5. CASE ~(call[d].of = u /\ call[d].seen = None)
          BY <1>1, <4>2, <4>5, <5>2, <5>5 DEF RoleInv
        <5> QED
          BY <5>4, <5>5
      <4>7. CASE user[u] = None
        <5>1. call[d].of = u /\ call[d].seen = None
          BY <2>2, <3>1, <4>7 DEF LoadInv
        <5>2. CASE user'[u] # None
          BY <1>1, <5>1, <5>2 DEF RoleInv
        <5>3. CASE user'[u] = None
          <6>1. Written(d, u)'.role = Written(d, u).role
            BY <1>1, <4>7, <5>3 DEF Written
          <6> QED
            BY <4>2, <4>5, <4>7, <6>1 DEF RoleInv
        <5> QED
          BY <5>2, <5>3
      <4> QED
        BY <4>6, <4>7
    <3> QED
      BY <3>1, <3>2
  <2> QED
    BY <1>1, <2>2, <2>3, <2>4, <2>5 DEF RolesInv
<1> QED
  BY <1>3, <1>4, <1>5 DEF CallInv

\* A step of one call that commits nothing keeps the invariant if it keeps the call's.
LEMMA CallOnly ==
  ASSUME IdentityInv, NEW c \in Calls, NEW r \in {Idle} \cup CallState,
         call' = [call EXCEPT ![c] = r], UNCHANGED <<user, groups, member, loose>>,
         TypeOK' => CallInv(c)'
  PROVE  IdentityInv'
<1>1. TypeOK
  BY DEF IdentityInv
<1>2. /\ call' \in [Calls -> {Idle} \cup CallState]
      /\ \A d \in Calls : d # c => Stays(d, {})
  BY <1>1, AssignCall
<1>3. TypeOK'
  BY <1>1, <1>2 DEF TypeOK
<1>4. ASSUME NEW d \in Calls PROVE CallInv(d)'
  <2>1. CASE d # c
    <3>1. Stays(d, {}) /\ CallInv(d)
      BY <1>2, <2>1 DEF IdentityInv
    <3>2. {} \in SUBSET Users
      OBVIOUS
    <3> QED
      BY <1>1, <1>3, <3>1, <3>2, CallStays
  <2> QED
    BY <1>3, <2>1
<1>5. MembersExist' /\ RolesFollowGroups'
  BY DEF IdentityInv, MembersExist, RolesFollowGroups
<1> QED
  BY <1>3, <1>4, <1>5 DEF IdentityInv

\* A call begins with what it loads.
LEMMA BeginKeeps ==
  ASSUME IdentityInv, NEW c \in Calls, NEW kind \in Kinds, NEW x \in Users \cup Groups,
         NEW want \in (SUBSET Pair) \cup {None}, NEW asked \in Status \cup {None},
         NEW todo \in SUBSET Users, Begin(c, kind, x, want, asked, todo),
         want # None => /\ \A p \in want : p[1] \in todo
                        /\ kind # "create_group" =>
                             \A p \in member : x \in {p[1], p[2]} => p[1] \in todo
  PROVE  IdentityInv'
<1> DEFINE seen == IF x \in Users /\ user[x] # None THEN user[x].role ELSE None
           r == [phase |-> "loaded", kind |-> kind, of |-> x, want |-> want,
                 seen |-> seen, asked |-> asked, status |-> Assigned(x, asked),
                 drop |-> {}, add |-> {}, todo |-> todo, role |-> NoRoles, alone |-> Users]
<1>1. TypeOK /\ user \in [Users -> Row \cup {None}]
  BY DEF IdentityInv, TypeOK
<1>2. seen \in Roles \cup {None}
  BY <1>1 DEF Row
<1>3. Assigned(x, asked) \in {None, asked}
  BY DEF Assigned
<1>4. NoRoles \in UNION {[us -> Roles \cup {None}] : us \in SUBSET Users} /\ DOMAIN NoRoles = {}
  <2>1. NoRoles \in [{} -> Roles \cup {None}] /\ {} \in SUBSET Users
    BY DEF NoRoles
  <2> QED
    BY <2>1
<1>5. /\ call' = [call EXCEPT ![c] = r] /\ UNCHANGED <<user, groups, member, loose>>
  BY DEF Begin
<1>6. r \in CallState
  <2>1. Assigned(x, asked) \in Status \cup {None}
    BY <1>3
  <2> HIDE DEF seen
  <2> QED
    BY <1>2, <1>4, <2>1 DEF CallState
<1>7. /\ r.phase = "loaded" /\ r.kind = kind /\ r.of = x /\ r.want = want /\ r.seen = seen
      /\ r.asked = asked /\ r.status = Assigned(x, asked) /\ r.drop = {} /\ r.add = {}
      /\ r.todo = todo /\ r.role = NoRoles /\ r.alone = Users
  OBVIOUS
<1> HIDE DEF r
<1>8. call'[c] = r
  BY <1>1, <1>5, <1>6, AssignCall
<1>9. LoadInv(c)'
  <2>1. user' = user
    BY <1>5
  <2>2. seen # None => x \in Users /\ user[x] # None /\ user[x].role = seen
    OBVIOUS
  <2> HIDE DEF seen
  <2> QED
    BY <1>3, <1>7, <1>8, <2>1, <2>2 DEF LoadInv
<1>10. ToDoInv(c)'
  <2>1. member' = member
    BY <1>5
  <2>2. Scope(c)' = {p \in Pair : x \in {p[1], p[2]}}
    BY <1>7, <1>8 DEF Scope
  <2> QED
    BY <1>4, <1>7, <1>8, <2>1, <2>2 DEF ToDoInv
<1>11. RolesInv(c)'
  BY <1>7, <1>8 DEF RolesInv
<1>12. CallInv(c)'
  BY <1>9, <1>10, <1>11 DEF CallInv
<1> QED
  BY <1>5, <1>6, <1>12, CallOnly

\* Whatever begins.
LEMMA LoadKeeps ==
  ASSUME IdentityInv, NEW c \in Calls, Load(c)
  PROVE  IdentityInv'
<1>1. member \in SUBSET Pair
  BY DEF IdentityInv, TypeOK
<1>2. ASSUME NEW u \in Users, NEW want \in SUBSET MembersOf(u), NEW p \in want
      PROVE  p \in Pair /\ p[1] = u
  BY DEF MembersOf
<1>3. ASSUME NEW u \in Users, NEW p \in Pair, u \in {p[1], p[2]} PROVE p[1] = u
  BY <1>3, IdentityAssumption DEF Pair
<1>4. ASSUME NEW g \in Groups, NEW p \in Pair, g \in {p[1], p[2]} PROVE p[2] = g
  BY <1>4, IdentityAssumption DEF Pair
<1>5. \A p \in Pair : p[1] \in Users
  BY DEF Pair
<1>6. ASSUME NEW u \in Users, NEW asked \in Asked,
             NEW want \in (SUBSET MembersOf(u)) \cup {None}, LoadCreateUser(c, u, want, asked)
      PROVE  IdentityInv'
  <2> DEFINE todo == IF want = None THEN {} ELSE {u}
  <2>1. Begin(c, "user", u, want, asked, todo)
    BY <1>6 DEF LoadCreateUser
  <2>2. /\ "user" \in Kinds /\ asked \in Status \cup {None} /\ want \in (SUBSET Pair) \cup {None}
        /\ todo \in SUBSET Users
    BY <1>2, IdentityAssumption DEF Kinds, Status
  <2>3. want # None => /\ \A p \in want : p[1] \in todo
                       /\ \A p \in member : u \in {p[1], p[2]} => p[1] \in todo
    <3> SUFFICES ASSUME want # None
                 PROVE  /\ \A p \in want : p[1] \in todo
                        /\ \A p \in member : u \in {p[1], p[2]} => p[1] \in todo
      OBVIOUS
    <3>1. want \in SUBSET MembersOf(u)
      OBVIOUS
    <3>2. todo = {u}
      OBVIOUS
    <3> QED
      BY <1>1, <1>2, <1>3, <3>1, <3>2
  <2> HIDE DEF todo
  <2> QED
    BY <2>1, <2>2, <2>3, BeginKeeps
<1>7. ASSUME NEW u \in Users, NEW asked \in Asked,
             NEW want \in SUBSET MembersOf(u), LoadPatchUser(c, u, want, asked)
      PROVE  IdentityInv'
  <2>1. Begin(c, "user", u, want, asked, {u})
    BY <1>7 DEF LoadPatchUser
  <2>2. /\ "user" \in Kinds /\ asked \in Status \cup {None} /\ want \in SUBSET Pair
        /\ {u} \in SUBSET Users
    BY <1>2, IdentityAssumption DEF Kinds, Status
  <2>3. /\ \A p \in want : p[1] \in {u}
        /\ \A p \in member : u \in {p[1], p[2]} => p[1] \in {u}
    BY <1>1, <1>2, <1>3
  <2> QED
    BY <2>1, <2>2, <2>3, BeginKeeps
<1>8. ASSUME NEW u \in Users, LoadLogin(c, u) PROVE IdentityInv'
  <2>1. Begin(c, "login", u, None, None, {u})
    BY <1>8 DEF LoadLogin
  <2>2. "login" \in Kinds /\ {u} \in SUBSET Users /\ u \in Users \cup Groups
    BY DEF Kinds
  <2>3. None \in (SUBSET Pair) \cup {None}
    OBVIOUS
  <2>4. None \in Status \cup {None}
    OBVIOUS
  <2> QED
    BY <2>1, <2>2, <2>3, <2>4, BeginKeeps
<1>9. ASSUME NEW g \in Groups, NEW us \in SUBSET Users, LoadCreateGroup(c, g, us \X {g})
      PROVE  IdentityInv'
  <2> DEFINE want == us \X {g}
  <2>1. Begin(c, "create_group", g, want, None, UsersOf(want))
    BY <1>9 DEF LoadCreateGroup
  <2>2. /\ "create_group" \in Kinds /\ want \in SUBSET Pair /\ UsersOf(want) \in SUBSET Users
        /\ \A p \in want : p[1] \in UsersOf(want)
    BY DEF Kinds, Pair, UsersOf
  <2> HIDE DEF want
  <2> QED
    BY <2>1, <2>2, BeginKeeps
<1>10. ASSUME NEW g \in Groups, NEW us \in SUBSET Users, LoadPatchGroup(c, g, us \X {g})
       PROVE  IdentityInv'
  <2> DEFINE want == us \X {g}
             todo == Affected(g, want)
  <2>1. Begin(c, "patch_group", g, want, None, todo)
    BY <1>10 DEF LoadPatchGroup
  <2>2. "patch_group" \in Kinds /\ want \in SUBSET Pair
    BY DEF Kinds, Pair
  <2> HIDE DEF want
  <2>3. todo \in SUBSET Users
    BY <1>1, <1>5, <2>2 DEF Affected, UsersOf
  <2>4. /\ \A p \in want : p[1] \in todo
        /\ \A p \in member : g \in {p[1], p[2]} => p[1] \in todo
    BY <1>1, <1>4 DEF Affected, UsersOf
  <2> HIDE DEF todo
  <2> QED
    BY <2>1, <2>2, <2>3, <2>4, BeginKeeps
<1>11. ASSUME NEW g \in Groups, LoadDeleteGroup(c, g) PROVE IdentityInv'
  <2>1. Begin(c, "delete_group", g, None, None, Affected(g, {}))
    BY <1>11 DEF LoadDeleteGroup
  <2>2. /\ "delete_group" \in Kinds /\ Affected(g, {}) \in SUBSET Users
        /\ g \in Users \cup Groups
    BY <1>1, <1>5 DEF Kinds, Affected, UsersOf
  <2>3. None \in (SUBSET Pair) \cup {None}
    OBVIOUS
  <2>4. None \in Status \cup {None}
    OBVIOUS
  <2> QED
    BY <2>1, <2>2, <2>3, <2>4, BeginKeeps
<1> QED
  BY <1>6, <1>7, <1>8, <1>9, <1>10, <1>11 DEF Load

\* A synchronisation adds and removes memberships of users it will look at.
LEMMA SyncKeeps ==
  ASSUME IdentityInv, NEW c \in Calls, Sync(c)
  PROVE  IdentityInv'
<1> DEFINE there == member \cap Scope(c)
           valid == {p \in call[c].want : user[p[1]] # None \/ p[1] = call[c].of}
                      \cap (Users \X groups)
           drop  == there \ valid
           add   == valid \ there
           r     == [call[c] EXCEPT !.phase = "roles", !.want = None, !.drop = drop, !.add = add]
<1>1. /\ TypeOK /\ CallInv(c) /\ MembersExist
      /\ user \in [Users -> Row \cup {None}] /\ groups \subseteq Groups /\ member \in SUBSET Pair
  BY DEF IdentityInv, TypeOK
<1>2. /\ call[c].phase = "loaded" /\ call[c].want # None
      /\ call' = [call EXCEPT ![c] = r] /\ UNCHANGED <<user, groups, member, loose>>
  BY DEF Sync
<1>3. call[c] \in CallState /\ call[c].want \in SUBSET Pair
  BY <1>1, <1>2, OfCall
<1>4. /\ drop \in SUBSET Pair /\ add \in SUBSET Pair
      /\ \A p \in add : p \in call[c].want /\ (user[p[1]] # None \/ p[1] = call[c].of)
      /\ \A p \in drop : p \in member /\ p \in Scope(c)
  BY <1>1, <1>3
<1> HIDE DEF there, valid, drop, add
<1>5. r \in CallState
  BY <1>3, <1>4 DEF CallState
<1>6. /\ r.phase = "roles" /\ r.drop = drop /\ r.add = add /\ r.kind = call[c].kind
      /\ r.of = call[c].of /\ r.seen = call[c].seen /\ r.asked = call[c].asked
      /\ r.status = call[c].status /\ r.todo = call[c].todo /\ r.role = call[c].role
      /\ r.alone = call[c].alone
  BY <1>3 DEF CallState
<1> HIDE DEF r
<1>7. call'[c] = r /\ user' = user /\ member' = member
  BY <1>1, <1>2, <1>5, AssignCall
<1>8. LoadInv(c)'
  BY <1>1, <1>2, <1>6, <1>7 DEF CallInv, LoadInv
<1>9. ToDoInv(c)'
  BY <1>6, <1>7 DEF ToDoInv
<1>10. RolesInv(c)'
  <2>1. /\ DOMAIN call[c].role = {}
        /\ \A p \in call[c].want : p[1] \in call[c].todo
        /\ call[c].kind # "create_group" =>
              \A p \in member \cap Scope(c) : p[1] \in call[c].alone => p[1] \in call[c].todo
    BY <1>1, <1>2 DEF CallInv, ToDoInv
  <2>2. Looked(c)' = call[c].todo \cup {}
    BY <1>6, <1>7, <2>1 DEF Looked
  <2>3. \A p \in add : p[1] \in Looked(c)' /\ (p[1] = call[c].of \/ user[p[1]] # None)
    BY <1>4, <2>1, <2>2
  <2>4. \A p \in drop : /\ user[p[1]] # None
                        /\ call[c].kind # "create_group" /\ p[1] \in call[c].alone
                             => p[1] \in Looked(c)'
    BY <1>1, <1>4, <2>1, <2>2 DEF MembersExist
  <2> QED
    BY <1>6, <1>7, <2>1, <2>3, <2>4 DEF RolesInv
<1>11. CallInv(c)'
  BY <1>8, <1>9, <1>10 DEF CallInv
<1> QED
  BY <1>2, <1>5, <1>11, CallOnly

\* A call without memberships goes on to the roles.
LEMMA NothingToSyncKeeps ==
  ASSUME IdentityInv, NEW c \in Calls, NothingToSync(c)
  PROVE  IdentityInv'
<1> DEFINE r == [call[c] EXCEPT !.phase = "roles"]
<1>1. TypeOK /\ CallInv(c)
  BY DEF IdentityInv
<1>2. /\ call[c].phase = "loaded" /\ UNCHANGED <<user, groups, member, loose>>
      /\ call' = [call EXCEPT ![c].phase = "roles"]
  BY DEF NothingToSync
<1>3. call[c] \in CallState
  BY <1>1, <1>2, OfCall
<1>4. r \in CallState /\ call' = [call EXCEPT ![c] = r]
  BY <1>2, <1>3 DEF CallState
<1>5. /\ r.phase = "roles" /\ r.drop = call[c].drop /\ r.add = call[c].add
      /\ r.of = call[c].of /\ r.seen = call[c].seen /\ r.asked = call[c].asked
      /\ r.status = call[c].status /\ r.role = call[c].role /\ r.alone = call[c].alone
  BY <1>3 DEF CallState
<1> HIDE DEF r
<1>6. call'[c] = r /\ user' = user
  BY <1>1, <1>2, <1>4, AssignCall
<1>7. LoadInv(c)'
  BY <1>1, <1>2, <1>5, <1>6 DEF CallInv, LoadInv
<1>8. ToDoInv(c)' /\ RolesInv(c)'
  BY <1>1, <1>2, <1>5, <1>6 DEF CallInv, ToDoInv, RolesInv
<1>9. CallInv(c)'
  BY <1>7, <1>8 DEF CallInv
<1> QED
  BY <1>2, <1>4, <1>9, CallOnly

\* A deletion takes the group from its members, whose roles follow nothing for now.
LEMMA DropGroupKeeps ==
  ASSUME IdentityInv, NEW c \in Calls, DropGroup(c)
  PROVE  IdentityInv'
<1> DEFINE there == {p \in member : p[2] = call[c].of}
           us    == UsersOf(there)
           r     == [call[c] EXCEPT !.phase = "roles"]
<1>1. /\ TypeOK /\ CallInv(c) /\ MembersExist /\ RolesFollowGroups
      /\ groups \subseteq Groups /\ member \in SUBSET Pair /\ loose \subseteq Users
  BY DEF IdentityInv, TypeOK
<1>2. /\ call[c].phase = "loaded" /\ user' = user
      /\ groups' = groups \ {call[c].of} /\ member' = member \ there
      /\ call' = Overtaken(c, us, r) /\ loose' = loose \cup us
  BY DEF DropGroup
<1>3. call[c] \in CallState
  BY <1>1, <1>2, OfCall
<1>4. /\ us \in SUBSET Users /\ member' \in SUBSET Pair
      /\ \A p \in Pair : p[1] \notin us => (p \in member' <=> p \in member)
  BY <1>1, <1>2 DEF UsersOf, Pair
<1>5. r \in CallState
  BY <1>3 DEF CallState
<1>6. /\ r.phase = "roles" /\ r.drop = call[c].drop /\ r.add = call[c].add
      /\ r.of = call[c].of /\ r.seen = call[c].seen /\ r.asked = call[c].asked
      /\ r.status = call[c].status /\ r.role = call[c].role /\ r.alone = call[c].alone
  BY <1>3 DEF CallState
<1> HIDE DEF r, us, there
<1>7. /\ call' \in [Calls -> {Idle} \cup CallState] /\ call'[c] = r
      /\ \A d \in Calls : d # c => Stays(d, us)
  BY <1>1, <1>2, <1>4, <1>5, OvertakenStep
<1>8. TypeOK'
  BY <1>1, <1>2, <1>4, <1>7 DEF TypeOK
<1>9. MembersExist'
  BY <1>1, <1>2 DEF MembersExist
<1>10. RolesFollowGroups'
  <2>1. ASSUME NEW u \in Users, u \notin loose', user'[u] # None, Bound(u, member)' # {}
        PROVE  user'[u].role = Highest(Bound(u, member))'
    <3>1. u \notin loose /\ u \notin us
      BY <1>2, <2>1
    <3>2. Bound(u, member') = Bound(u, member)
      BY <1>1, <1>4, <3>1, BoundSame
    <3>3. Bound(u, member)' = Bound(u, member')
      BY DEF Bound
    <3> QED
      BY <1>1, <1>2, <2>1, <3>1, <3>2, <3>3 DEF RolesFollowGroups
  <2> QED
    BY <2>1 DEF RolesFollowGroups
<1>11. CallInv(c)'
  <2>1. LoadInv(c)'
    BY <1>1, <1>2, <1>6, <1>7 DEF CallInv, LoadInv
  <2>2. ToDoInv(c)' /\ RolesInv(c)'
    BY <1>1, <1>2, <1>6, <1>7 DEF CallInv, ToDoInv, RolesInv
  <2> QED
    BY <2>1, <2>2 DEF CallInv
<1>12. ASSUME NEW d \in Calls, d # c PROVE CallInv(d)'
  <2>1. CallInv(d) /\ Stays(d, us)
    BY <1>7, <1>12 DEF IdentityInv
  <2> QED
    BY <1>1, <1>2, <1>4, <1>8, <2>1, CallStays
<1> QED
  BY <1>8, <1>9, <1>10, <1>11, <1>12 DEF IdentityInv

\* What a call has written is what its row of the user says next.
LEMMA WrittenRow ==
  ASSUME TypeOK, NEW c \in Calls, call[c].phase # "idle", NEW u \in Users
  PROVE  /\ Written(c, u) \in Row
         /\ user[u] # None /\ u \notin DOMAIN call[c].role => Written(c, u).role = user[u].role
<1>1. /\ call[c].role \in [DOMAIN call[c].role -> Roles \cup {None}]
      /\ call[c].status \in Status \cup {None}
  BY OfCall
<1>2. user[u] \in Row \cup {None}
  BY DEF TypeOK
<1> DEFINE base == IF user[u] = None THEN [role |-> "reader", status |-> "active"] ELSE user[u]
<1>3. base \in Row /\ (user[u] # None => base = user[u])
  BY <1>2 DEF Row, Roles, Status
<1>4. Written(c, u) = [role |-> IF u \in DOMAIN call[c].role /\ call[c].role[u] # None
                                THEN call[c].role[u] ELSE base.role,
                       status |-> IF u = call[c].of /\ call[c].status # None
                                  THEN call[c].status ELSE base.status]
  BY DEF Written
<1> HIDE DEF base
<1> QED
  BY <1>1, <1>3, <1>4 DEF Row

\* One user's role, from the bindings of the groups the call sees the user in.
LEMMA RecomputeKeeps ==
  ASSUME IdentityInv, NEW c \in Calls, NEW u \in Users, NEW claimed \in GivenRoles,
         Recompute(c, u, claimed)
  PROVE  IdentityInv'
<1> DEFINE role == Resolved(c, u, claimed)
           roles == [v \in DOMAIN call[c].role \cup {u} |->
                       IF v # u THEN call[c].role[v]
                       ELSE IF role = SeenRole(c, u) THEN None ELSE role]
           r == [call[c] EXCEPT !.todo = call[c].todo \ {u}, !.role = roles]
<1>1. /\ TypeOK /\ CallInv(c) /\ user \in [Users -> Row \cup {None}] /\ member \in SUBSET Pair
      /\ claimed \in Roles
  BY IdentityAssumption DEF IdentityInv, TypeOK
<1>2. /\ call[c].phase = "roles" /\ u \in call[c].todo /\ (user[u] # None \/ u = call[c].of)
      /\ call' = [call EXCEPT ![c] = r] /\ UNCHANGED <<user, groups, member, loose>>
  BY DEF Recompute
<1>3. call[c] \in CallState
  BY <1>1, <1>2, OfCall
<1>4. /\ call[c].drop \in SUBSET Pair /\ call[c].add \in SUBSET Pair
      /\ call[c].todo \in SUBSET Users /\ DOMAIN call[c].role \in SUBSET Users
      /\ call[c].role \in [DOMAIN call[c].role -> Roles \cup {None}]
      /\ call[c].seen \in Roles \cup {None} /\ None \notin Roles
  BY <1>1, <1>2, OfCall, IdentityAssumption
<1>5. View(c) \in SUBSET Pair
  BY <1>1, <1>4 DEF View
<1> DEFINE bound == Bound(u, View(c))
<1>6. bound \in SUBSET Roles /\ (bound # {} => Highest(bound) \in Roles)
  BY <1>5, BoundRoles, HighestRole
<1>7. SeenRole(c, u) \in Roles
  BY <1>1, <1>2, <1>4 DEF SeenRole, Row, Roles
<1>8. role \in Roles /\ (bound # {} => role = Highest(bound))
  BY <1>1, <1>6, <1>7 DEF Resolved, View
<1> HIDE DEF role, bound
<1>9. /\ roles \in [DOMAIN call[c].role \cup {u} -> Roles \cup {None}]
      /\ roles[u] = (IF role = SeenRole(c, u) THEN None ELSE role)
      /\ \A v \in DOMAIN call[c].role : v # u => roles[v] = call[c].role[v]
  BY <1>4, <1>8
<1> HIDE DEF roles
<1>10. roles \in UNION {[us -> Roles \cup {None}] : us \in SUBSET Users}
  <2>1. DOMAIN call[c].role \cup {u} \in SUBSET Users
    BY <1>4
  <2> QED
    BY <1>9, <2>1
<1>11. r \in CallState
  BY <1>3, <1>4, <1>10 DEF CallState
<1>12. /\ r.phase = "roles" /\ r.drop = call[c].drop /\ r.add = call[c].add
       /\ r.kind = call[c].kind /\ r.of = call[c].of /\ r.seen = call[c].seen
       /\ r.asked = call[c].asked /\ r.status = call[c].status
       /\ r.todo = call[c].todo \ {u} /\ r.role = roles /\ r.alone = call[c].alone
  <2>1. DOMAIN call[c] = {"phase", "kind", "of", "want", "seen", "asked", "status", "drop",
                          "add", "todo", "role", "alone"}
    BY <1>3 DEF CallState
  <2> QED
    BY <1>2, <2>1
<1> HIDE DEF r
<1>13. call'[c] = r /\ user' = user /\ member' = member
  BY <1>1, <1>2, <1>11, AssignCall
<1>14. LoadInv(c)'
  BY <1>1, <1>2, <1>12, <1>13 DEF CallInv, LoadInv
<1>15. ToDoInv(c)'
  BY <1>12, <1>13 DEF ToDoInv
<1>16. RolesInv(c)'
  <2>1. RolesInv(c) /\ LoadInv(c)
    BY <1>1 DEF CallInv
  <2>2. DOMAIN roles = DOMAIN call[c].role \cup {u}
    BY <1>9
  <2>3. Looked(c)' = Looked(c)
    BY <1>2, <1>12, <1>13, <2>2 DEF Looked
  <2>4. Bound(u, View(c))' = bound /\ View(c)' = View(c)
    BY <1>12, <1>13 DEF View, Bound, bound
  <2>5. ASSUME u \in call[c].alone PROVE RoleInv(c, u)'
    <3>1. SUFFICES ASSUME call[c].of = u /\ call[c].seen = None => user[u] = None, bound # {}
                   PROVE  Written(c, u)'.role = Highest(bound)
      BY <1>12, <1>13, <2>4 DEF RoleInv
    <3> DEFINE base == IF user[u] = None THEN [role |-> "reader", status |-> "active"] ELSE user[u]
    <3>2. Written(c, u)'.role = IF roles[u] # None THEN roles[u] ELSE base.role
      BY <1>12, <1>13, <2>2 DEF Written
    <3>3. SeenRole(c, u) = base.role
      <4>1. CASE u # call[c].of
        BY <1>2, <4>1 DEF SeenRole
      <4>2. CASE u = call[c].of /\ call[c].seen # None
        BY <1>2, <2>1, <2>5, <4>2 DEF SeenRole, LoadInv
      <4>3. CASE u = call[c].of /\ call[c].seen = None
        BY <3>1, <4>3 DEF SeenRole
      <4> QED
        BY <4>1, <4>2, <4>3
    <3> HIDE DEF base
    <3> QED
      BY <1>4, <1>8, <1>9, <3>1, <3>2, <3>3
  <2>6. ASSUME NEW v \in DOMAIN call[c].role, v # u, v \in call[c].alone
        PROVE  RoleInv(c, v)'
    <3>1. RoleInv(c, v)
      BY <1>2, <2>1, <2>6 DEF RolesInv
    <3>2. Written(c, v)'.role = Written(c, v).role
      BY <1>9, <1>12, <1>13, <2>2, <2>6 DEF Written
    <3>3. Bound(v, View(c))' = Bound(v, View(c))
      BY <2>4 DEF Bound
    <3> QED
      BY <1>12, <1>13, <3>1, <3>2, <3>3 DEF RoleInv
  <2>7. \A v \in DOMAIN roles : /\ v = call[c].of \/ user[v] # None
                                /\ v \in call[c].alone => RoleInv(c, v)'
    BY <1>2, <2>1, <2>2, <2>5, <2>6 DEF RolesInv
  <2> QED
    BY <1>2, <1>12, <1>13, <2>1, <2>3, <2>7 DEF RolesInv
<1>17. CallInv(c)'
  BY <1>14, <1>15, <1>16 DEF CallInv
<1> QED
  BY <1>2, <1>11, <1>17, CallOnly

\* A member that is no user has no membership to come or go.
LEMMA SkipUnknownKeeps ==
  ASSUME IdentityInv, NEW c \in Calls, NEW u \in Users, SkipUnknown(c, u)
  PROVE  IdentityInv'
<1> DEFINE r == [call[c] EXCEPT !.todo = call[c].todo \ {u}]
<1>1. TypeOK /\ CallInv(c)
  BY DEF IdentityInv
<1>2. /\ call[c].phase = "roles" /\ user[u] = None /\ u # call[c].of
      /\ UNCHANGED <<user, groups, member, loose>>
      /\ call' = [call EXCEPT ![c].todo = call[c].todo \ {u}]
  BY DEF SkipUnknown
<1>3. call[c] \in CallState
  BY <1>1, <1>2, OfCall
<1>4. r \in CallState /\ call' = [call EXCEPT ![c] = r]
  BY <1>2, <1>3 DEF CallState
<1>5. /\ r.phase = "roles" /\ r.drop = call[c].drop /\ r.add = call[c].add
      /\ r.kind = call[c].kind /\ r.of = call[c].of /\ r.seen = call[c].seen
      /\ r.asked = call[c].asked /\ r.status = call[c].status
      /\ r.todo = call[c].todo \ {u} /\ r.role = call[c].role /\ r.alone = call[c].alone
  BY <1>2, <1>3 DEF CallState
<1> HIDE DEF r
<1>6. call'[c] = r /\ user' = user /\ member' = member
  BY <1>1, <1>2, <1>4, AssignCall
<1>7. LoadInv(c)'
  BY <1>1, <1>2, <1>5, <1>6 DEF CallInv, LoadInv
<1>8. ToDoInv(c)'
  BY <1>5, <1>6 DEF ToDoInv
<1>9. RolesInv(c)'
  <2>1. RolesInv(c)
    BY <1>1 DEF CallInv
  <2>2. Looked(c)' = (call[c].todo \ {u}) \cup DOMAIN call[c].role
    BY <1>5, <1>6 DEF Looked
  <2>3. \A p \in call[c].add : p[1] \in Looked(c)'
    BY <1>2, <2>1, <2>2 DEF RolesInv, Looked
  <2>4. \A p \in call[c].drop :
          call[c].kind # "create_group" /\ p[1] \in call[c].alone => p[1] \in Looked(c)'
    BY <1>2, <2>1, <2>2 DEF RolesInv, Looked
  <2>5. \A v \in DOMAIN call[c].role : RoleInv(c, v) => RoleInv(c, v)'
    <3>1. ASSUME NEW v \in DOMAIN call[c].role, RoleInv(c, v) PROVE RoleInv(c, v)'
      <4>1. Written(c, v)' = Written(c, v)
        BY <1>5, <1>6 DEF Written
      <4>2. Bound(v, View(c))' = Bound(v, View(c))
        BY <1>5, <1>6 DEF View, Bound
      <4> QED
        BY <1>5, <1>6, <3>1, <4>1, <4>2 DEF RoleInv
    <3> QED
      BY <3>1
  <2> QED
    BY <1>2, <1>5, <1>6, <2>1, <2>3, <2>4, <2>5 DEF RolesInv
<1>10. CallInv(c)'
  BY <1>7, <1>8, <1>9 DEF CallInv
<1> QED
  BY <1>2, <1>4, <1>10, CallOnly

\* A call that commits leaves what it decided while nobody overtook it, and what it
\* did not decide as it was.
LEMMA CommitKeeps ==
  ASSUME IdentityInv, NEW c \in Calls, Commit(c)
  PROVE  IdentityInv'
<1> DEFINE done == DOMAIN call[c].role
           touched == done \cup UsersOf(call[c].drop \cup call[c].add)
<1>1. /\ TypeOK /\ CallInv(c) /\ MembersExist /\ RolesFollowGroups
      /\ user \in [Users -> Row \cup {None}] /\ member \in SUBSET Pair /\ loose \subseteq Users
      /\ None \notin Row
  BY IdentityAssumption DEF IdentityInv, TypeOK
<1>2. /\ call[c].phase = "roles" /\ call[c].todo = {}
      /\ call[c].of \in Users /\ call[c].seen = None => user[call[c].of] = None
      /\ member' = (member \ call[c].drop) \cup call[c].add
      /\ user' = [u \in Users |-> IF u \in done \cup ({call[c].of} \cap Users)
                                  THEN Written(c, u) ELSE user[u]]
      /\ call' = Overtaken(c, touched, Idle)
      /\ loose' = (loose \ done) \cup (touched \ call[c].alone) \cup Forgotten(c)
      /\ groups' = groups
  BY DEF Commit
<1>3. /\ call[c].drop \in SUBSET Pair /\ call[c].add \in SUBSET Pair
      /\ done \in SUBSET Users /\ call[c].alone \in SUBSET Users
  BY <1>1, <1>2, OfCall
<1>4. \A p \in Pair : p[1] \in Users
  BY DEF Pair
<1>5. UsersOf(call[c].drop \cup call[c].add) \in SUBSET Users
  BY <1>3, <1>4 DEF UsersOf
<1>6. /\ touched \in SUBSET Users /\ done \subseteq touched
      /\ \A p \in call[c].drop \cup call[c].add : p[1] \in touched
  BY <1>3, <1>5 DEF UsersOf
<1>7. /\ RolesInv(c) /\ Looked(c) = done
  BY <1>1, <1>2 DEF CallInv, Looked
<1>8. /\ \A p \in call[c].add : p[1] \in done /\ (p[1] = call[c].of \/ user[p[1]] # None)
      /\ \A p \in call[c].drop :
           call[c].kind # "create_group" /\ p[1] \in call[c].alone => p[1] \in done
      /\ \A u \in done : u \in call[c].alone => RoleInv(c, u)
  BY <1>2, <1>7 DEF RolesInv
<1>9. \A p \in call[c].drop : call[c].kind = "create_group" => p[1] \in done \/ p[1] \in Forgotten(c)
  BY DEF Forgotten, UsersOf
<1>10. Forgotten(c) \subseteq Users
  BY <1>3, <1>4 DEF Forgotten, UsersOf
<1> HIDE DEF done, touched
<1>11. \A u \in Users : /\ user'[u] = IF u \in done \cup ({call[c].of} \cap Users)
                                      THEN Written(c, u) ELSE user[u]
                        /\ Written(c, u) \in Row
                        /\ user[u] # None /\ u \notin done => Written(c, u).role = user[u].role
  BY <1>1, <1>2, WrittenRow DEF done
<1>12. /\ call' \in [Calls -> {Idle} \cup CallState] /\ call'[c] = Idle
       /\ \A d \in Calls : d # c => Stays(d, touched)
  BY <1>1, <1>2, <1>6, OvertakenStep
<1>13. TypeOK'
  <2>1. user' \in [Users -> Row \cup {None}]
    <3>1. \A u \in Users : user'[u] \in Row \cup {None}
      BY <1>1, <1>11
    <3> QED
      BY <1>2, <3>1
  <2>2. member' \subseteq Pair /\ loose' \subseteq Users
    BY <1>1, <1>2, <1>3, <1>6, <1>10
  <2> QED
    BY <1>1, <1>2, <1>12, <2>1, <2>2 DEF TypeOK
<1>14. \A u \in Users : user[u] # None =>
          user'[u] # None /\ (u \notin touched => user'[u].role = user[u].role)
  BY <1>1, <1>6, <1>11
<1>15. \A p \in Pair : p[1] \notin touched => (p \in member' <=> p \in member)
  BY <1>2, <1>6
<1>16. MembersExist'
  <2>1. ASSUME NEW p \in member' PROVE user'[p[1]] # None
    <3>1. p \in Pair /\ p[1] \in Users
      BY <1>1, <1>2, <1>3, <1>4
    <3>2. CASE p \in member
      BY <1>1, <1>14, <3>1, <3>2 DEF MembersExist
    <3>3. CASE p \in call[c].add
      BY <1>1, <1>8, <1>11, <3>1, <3>3
    <3> QED
      BY <1>2, <3>2, <3>3
  <2> QED
    BY <2>1 DEF MembersExist
<1>17. RolesFollowGroups'
  <2>1. ASSUME NEW u \in Users, u \notin loose', user'[u] # None, Bound(u, member') # {}
        PROVE  user'[u].role = Highest(Bound(u, member'))
    <3>1. CASE u \in done
      <4>1. u \in call[c].alone
        BY <1>2, <1>6, <2>1, <3>1
      <4>2. RoleInv(c, u)
        BY <1>8, <3>1, <4>1
      <4>3. View(c) = member'
        BY <1>2 DEF View
      <4>4. Written(c, u).role = Highest(Bound(u, member'))
        BY <1>2, <2>1, <4>2, <4>3 DEF RoleInv
      <4> QED
        BY <1>11, <3>1, <4>4
    <3>2. CASE u \notin done
      <4>1. u \notin loose /\ (u \in touched => u \in call[c].alone) /\ u \notin Forgotten(c)
        BY <1>2, <2>1, <3>2
      <4>2. \A p \in call[c].add : p[1] # u
        BY <1>8, <3>2
      <4>3. \A p \in call[c].drop : p[1] # u
        BY <1>6, <1>8, <1>9, <3>2, <4>1
      <4>4. \A p \in Pair : p[1] = u => (p \in member' <=> p \in member)
        BY <1>2, <4>2, <4>3
      <4>5. Bound(u, member') = Bound(u, member)
        BY <1>1, <1>13, <4>4, BoundSame DEF TypeOK
      <4>6. user[u] # None
        BY <1>1, <2>1, <4>5, BoundNone DEF MembersExist
      <4>7. user'[u].role = user[u].role
        BY <1>11, <3>2, <4>6
      <4> QED
        BY <1>1, <2>1, <4>1, <4>5, <4>6, <4>7 DEF RolesFollowGroups
    <3> QED
      BY <3>1, <3>2
  <2>2. \A u \in Users : Bound(u, member)' = Bound(u, member')
    BY DEF Bound
  <2> QED
    BY <2>1, <2>2 DEF RolesFollowGroups
<1>18. CallInv(c)'
  BY <1>12 DEF CallInv, LoadInv, ToDoInv, RolesInv, Idle
<1>19. ASSUME NEW d \in Calls, d # c PROVE CallInv(d)'
  <2>1. CallInv(d) /\ Stays(d, touched)
    BY <1>12, <1>19 DEF IdentityInv
  <2> QED
    BY <1>1, <1>6, <1>13, <1>14, <1>15, <2>1, CallStays
<1> QED
  BY <1>13, <1>16, <1>17, <1>18, <1>19 DEF IdentityInv

\* A call that fails leaves nothing.
LEMMA FailKeeps ==
  ASSUME IdentityInv, NEW c \in Calls, Fail(c)
  PROVE  IdentityInv'
<1>1. TypeOK /\ call' = [call EXCEPT ![c] = Idle] /\ UNCHANGED <<user, groups, member, loose>>
  BY DEF Fail, IdentityInv
<1>2. call'[c] = Idle
  BY <1>1, AssignCall
<1>3. CallInv(c)'
  BY <1>2 DEF CallInv, LoadInv, ToDoInv, RolesInv, Idle
<1> QED
  BY <1>1, <1>3, CallOnly

\* An administrator's role is nobody's to follow.
LEMMA SetRoleKeeps ==
  ASSUME IdentityInv, NEW u \in Users, NEW r \in GivenRoles, SetRole(u, r)
  PROVE  IdentityInv'
<1>1. /\ TypeOK /\ MembersExist /\ RolesFollowGroups /\ r \in Roles
      /\ user \in [Users -> Row \cup {None}] /\ call \in [Calls -> {Idle} \cup CallState]
      /\ loose \subseteq Users /\ None \notin Row /\ \A p \in Pair : p[1] \in Users
      /\ member \in SUBSET Pair
  BY IdentityAssumption DEF IdentityInv, TypeOK, Pair
<1>2. /\ user[u] # None /\ user' = [user EXCEPT ![u].role = r] /\ loose' = loose \cup {u}
      /\ groups' = groups /\ member' = member
  BY DEF SetRole
<1>3. call' = [d \in Calls |-> IF call[d].phase = "idle" THEN Idle
                               ELSE [call[d] EXCEPT !.alone = @ \ {u}]]
  BY DEF SetRole
<1>4. /\ user' \in [Users -> Row \cup {None}]
      /\ \A v \in Users : /\ user[v] # None => user'[v] # None
                          /\ v # u => user'[v] = user[v]
  BY <1>1, <1>2 DEF Row
<1>5. ASSUME NEW d \in Calls PROVE call'[d] \in {Idle} \cup CallState /\ Stays(d, {u})
  <2>1. CASE call[d].phase = "idle"
    <3>1. call'[d] = Idle /\ call'[d].phase = "idle"
      BY <1>3, <2>1 DEF Idle
    <3> QED
      BY <2>1, <3>1 DEF Stays
  <2>2. CASE call[d].phase # "idle"
    <3>1. call[d] \in CallState /\ call'[d] = [call[d] EXCEPT !.alone = @ \ {u}]
      BY <1>1, <1>3, <2>2, OfCall
    <3>2. call'[d] \in CallState
      BY <3>1 DEF CallState
    <3>3. Stays(d, {u})
      BY <3>1 DEF Stays, CallState
    <3> QED
      BY <3>2, <3>3
  <2> QED
    BY <2>1, <2>2
<1>6. call' \in [Calls -> {Idle} \cup CallState]
  BY <1>3, <1>5
<1>7. TypeOK'
  BY <1>1, <1>2, <1>4, <1>6 DEF TypeOK
<1>8. MembersExist'
  BY <1>1, <1>2, <1>4 DEF MembersExist
<1>9. RolesFollowGroups'
  <2>1. \A v \in Users \ loose' : v \in Users \ loose /\ user'[v] = user[v]
    BY <1>2, <1>4
  <2>2. \A v \in Users : Bound(v, member)' = Bound(v, member)
    BY <1>2 DEF Bound
  <2> QED
    BY <1>1, <2>1, <2>2 DEF RolesFollowGroups
<1>10. ASSUME NEW d \in Calls PROVE CallInv(d)'
  <2>1. CallInv(d) /\ Stays(d, {u})
    BY <1>5 DEF IdentityInv
  <2>2. {u} \in SUBSET Users
    OBVIOUS
  <2> QED
    BY <1>1, <1>2, <1>4, <1>7, <2>1, <2>2, CallStays
<1> QED
  BY <1>7, <1>8, <1>9, <1>10 DEF IdentityInv

\* A status has nothing to do with groups.
LEMMA SetStatusKeeps ==
  ASSUME IdentityInv, NEW u \in Users, NEW s \in Status, SetStatus(u, s)
  PROVE  IdentityInv'
<1>1. /\ TypeOK /\ MembersExist /\ RolesFollowGroups
      /\ user \in [Users -> Row \cup {None}] /\ None \notin Row
      /\ member \in SUBSET Pair /\ \A p \in Pair : p[1] \in Users
  BY IdentityAssumption DEF IdentityInv, TypeOK, Pair
<1>2. /\ user[u] # None /\ user' = [user EXCEPT ![u].status = s]
      /\ UNCHANGED <<groups, member, call, loose>>
  BY DEF SetStatus
<1>3. /\ user' \in [Users -> Row \cup {None}]
      /\ \A v \in Users : /\ user[v] # None => user'[v] # None /\ user'[v].role = user[v].role
                          /\ user[v] = None => user'[v] = None
  BY <1>1, <1>2 DEF Row
<1>4. TypeOK'
  BY <1>1, <1>2, <1>3 DEF TypeOK
<1>5. MembersExist'
  BY <1>1, <1>2, <1>3 DEF MembersExist
<1>6. RolesFollowGroups'
  <2>1. \A v \in Users : Bound(v, member)' = Bound(v, member)
    BY <1>2 DEF Bound
  <2> QED
    BY <1>1, <1>2, <1>3, <2>1 DEF RolesFollowGroups
<1>7. ASSUME NEW d \in Calls PROVE CallInv(d)'
  <2>1. CallInv(d) /\ call'[d] = call[d]
    BY <1>2 DEF IdentityInv
  <2>2. Stays(d, {})
    BY <1>1, <2>1, OfCall DEF Stays
  <2>3. {} \in SUBSET Users
    OBVIOUS
  <2> QED
    BY <1>1, <1>2, <1>3, <1>4, <2>1, <2>2, <2>3, CallStays
<1> QED
  BY <1>4, <1>5, <1>6, <1>7 DEF IdentityInv

\* Nothing is under way and nobody is in a group when it all begins.
LEMMA IdentityStarts == Init => IdentityInv
<1> SUFFICES ASSUME Init PROVE IdentityInv
  OBVIOUS
<1>1. [role |-> "reader", status |-> "active"] \in Row
  BY DEF Row, Roles, Status
<1>2. user \in [Users -> Row \cup {None}]
  BY <1>1 DEF Init
<1>3. \A c \in Calls : call[c] = Idle
  BY DEF Init
<1>4. TypeOK
  BY <1>2 DEF Init, TypeOK
<1>5. MembersExist
  BY DEF Init, MembersExist
<1>6. RolesFollowGroups
  BY DEF Init, RolesFollowGroups, Bound
<1>7. \A c \in Calls : CallInv(c)
  BY <1>3 DEF CallInv, LoadInv, ToDoInv, RolesInv, Idle
<1> QED
  BY <1>4, <1>5, <1>6, <1>7 DEF IdentityInv

\* Every step of provisioning, login or administration keeps the invariant.
LEMMA IdentityKeeps == IdentityInv /\ [Next]_vars => IdentityInv'
<1> SUFFICES ASSUME IdentityInv, [Next]_vars PROVE IdentityInv'
  OBVIOUS
<1>1. ASSUME NEW c \in Calls,
             \/ Load(c) \/ Sync(c) \/ NothingToSync(c) \/ DropGroup(c) \/ Commit(c) \/ Fail(c)
             \/ \E u \in Users : SkipUnknown(c, u) \/ (\E r \in GivenRoles : Recompute(c, u, r))
      PROVE  IdentityInv'
  BY <1>1, LoadKeeps, SyncKeeps, NothingToSyncKeeps, DropGroupKeeps, CommitKeeps, FailKeeps,
     SkipUnknownKeeps, RecomputeKeeps
<1>2. ASSUME NEW u \in Users,
             (\E r \in GivenRoles : SetRole(u, r)) \/ (\E s \in Status : SetStatus(u, s))
      PROVE  IdentityInv'
  BY <1>2, SetRoleKeeps, SetStatusKeeps
<1>3. CASE UNCHANGED vars
  <2>1. UNCHANGED <<user, groups, member, call, loose>>
    BY <1>3 DEF vars
  <2>2. TypeOK' /\ MembersExist' /\ RolesFollowGroups'
    BY <2>1 DEF IdentityInv, TypeOK, MembersExist, RolesFollowGroups, Bound
  <2>3. ASSUME NEW d \in Calls PROVE CallInv(d)'
    <3>1. CallInv(d) /\ TypeOK
      BY DEF IdentityInv
    <3>2. /\ Stays(d, {}) /\ {} \in SUBSET Users
      BY <2>1, <3>1, OfCall DEF Stays
    <3> QED
      BY <2>1, <2>2, <3>1, <3>2, CallStays
  <2> QED
    BY <2>2, <2>3 DEF IdentityInv
<1> QED
  BY <1>1, <1>2, <1>3 DEF Next

\* The inductive invariant of users, groups and calls: what a call loaded and will
\* look at, and what it has decided of a user, hold until another call touches that
\* user.
THEOREM IdentityInductive == Spec => []IdentityInv
BY IdentityStarts, IdentityKeeps, PTL DEF Spec

\* Users, memberships and calls keep their types, for any number of each: a commit
\* never writes a user without a role or a status.
THEOREM IdentityTypeCorrect == Spec => []TypeOK
<1>1. IdentityInv => TypeOK
  BY DEF IdentityInv
<1> QED
  BY <1>1, IdentityInductive, PTL

\* A user in bound groups has the highest role bound, from the first call on that looks
\* at the user's groups without being overtaken until an administrator sets the role, a
\* group's deletion or replacement takes the user out of it, or a call overtakes
\* another one.
THEOREM RolesAreTheGroups == Spec => []RolesFollowGroups
<1>1. IdentityInv => RolesFollowGroups
  BY DEF IdentityInv
<1> QED
  BY <1>1, IdentityInductive, PTL

\* A disabled user becomes active by a request that says so and by no other.
THEOREM DisabledStaysDisabled == Spec => StaysDisabled
<1> DEFINE Asking(u) ==
             user[u] # None /\ user[u].status = "disabled" /\ user'[u].status = "active" =>
               \/ SetStatus(u, "active")
               \/ \E c \in Calls : Commit(c) /\ call[c].of = u /\ call[c].asked = "active"
<1>1. ASSUME IdentityInv, [Next]_vars, NEW u \in Users,
             user[u] # None, user[u].status = "disabled", user'[u].status = "active"
      PROVE  \/ SetStatus(u, "active")
             \/ \E c \in Calls : Commit(c) /\ call[c].of = u /\ call[c].asked = "active"
  <2>1. TypeOK /\ user \in [Users -> Row \cup {None}]
    BY <1>1 DEF IdentityInv, TypeOK
  <2>2. user' # user
    BY <1>1
  <2>3. ASSUME NEW c \in Calls,
               \/ Load(c) \/ Sync(c) \/ NothingToSync(c) \/ DropGroup(c) \/ Fail(c)
               \/ \E v \in Users : SkipUnknown(c, v) \/ (\E r \in GivenRoles : Recompute(c, v, r))
        PROVE  FALSE
    <3>1. CASE Load(c)
      BY <2>2, <3>1 DEF Load, LoadCreateUser, LoadPatchUser, LoadLogin, LoadCreateGroup,
                        LoadPatchGroup, LoadDeleteGroup, Begin
    <3>2. CASE Sync(c) \/ NothingToSync(c) \/ DropGroup(c) \/ Fail(c)
      BY <2>2, <3>2 DEF Sync, NothingToSync, DropGroup, Fail
    <3>3. CASE \E v \in Users : SkipUnknown(c, v) \/ (\E r \in GivenRoles : Recompute(c, v, r))
      BY <2>2, <3>3 DEF SkipUnknown, Recompute
    <3> QED
      BY <2>3, <3>1, <3>2, <3>3
  <2>4. ASSUME NEW c \in Calls, Commit(c)
        PROVE  call[c].of = u /\ call[c].asked = "active"
    <3>1. /\ call[c].phase = "roles" /\ LoadInv(c)
          /\ user'[u] = Written(c, u) \/ user'[u] = user[u]
      BY <1>1, <2>4 DEF Commit, IdentityInv, CallInv
    <3>2. user'[u] = Written(c, u)
      BY <1>1, <3>1
    <3>3. u = call[c].of /\ call[c].status = "active"
      BY <1>1, <3>2 DEF Written
    <3> QED
      BY <3>1, <3>3, IdentityAssumption DEF LoadInv, Status
  <2>5. ASSUME NEW v \in Users, NEW r \in GivenRoles, SetRole(v, r)
        PROVE  FALSE
    BY <1>1, <2>1, <2>5 DEF SetRole, Row
  <2>6. ASSUME NEW v \in Users, NEW s \in Status, SetStatus(v, s)
        PROVE  SetStatus(u, "active")
    BY <1>1, <2>1, <2>6 DEF SetStatus, Row
  <2>7. \/ \E c \in Calls : Commit(c)
        \/ \E v \in Users : (\E r \in GivenRoles : SetRole(v, r)) \/ (\E s \in Status : SetStatus(v, s))
    BY <1>1, <2>2, <2>3 DEF Next, vars
  <2> QED
    BY <2>4, <2>5, <2>6, <2>7
<1>2. IdentityInv /\ [Next]_vars => [\A u \in Users : Asking(u)]_vars
  BY <1>1
<1> HIDE DEF Asking
<1>3. Spec => [][\A u \in Users : Asking(u)]_vars
  BY <1>2, IdentityInductive, PTL DEF Spec
<1> USE DEF Asking
<1> QED
  BY <1>3 DEF StaysDisabled

-----------------------------------------------------------------------------
\* The rate limiter.  Besides RateKept, the invariant bounds what a hash can say.
HashOK(b) ==
  hashes[b] # Absent => hashes[b].tokens <= Burst[b] /\ hashes[b].idle < Ttl(b)

BucketInv ==
  /\ hashes \in [Buckets -> {Absent} \cup [tokens : Nat, idle : Nat]]
  /\ credit \in [Buckets -> Nat]
  /\ \A b \in Buckets : HashOK(b) /\ credit[b] <= Burst[b] /\ Level(b) = credit[b]

\* Rates, capacities and the cost are positive.
LEMMA BucketConstants ==
  /\ \A b \in Buckets : Rate[b] \in Nat \ {0} /\ Burst[b] \in Nat \ {0}
  /\ Cost \in Nat \ {0} /\ Absent \notin [tokens : Nat, idle : Nat]
  /\ Tenant \in Buckets /\ ApiKeys \subseteq Buckets
BY BucketAssumption DEF Buckets

\* Multiplication by a number of ticks is monotonic.
LEMMA Monotonic ==
  ASSUME NEW r \in Nat, NEW s \in Nat, NEW t \in Nat, s <= t
  PROVE  r * s \in Nat /\ r * t \in Nat /\ r * s <= r * t
OBVIOUS

\* Ceiling is the least number of ticks in which a rate makes up for an amount.
LEMMA CeilingLeast ==
  ASSUME NEW a \in Nat, NEW r \in Nat \ {0}
  PROVE  /\ Ceiling(a, r) \in Nat /\ r * Ceiling(a, r) >= a
         /\ a > 0 => Ceiling(a, r) >= 1 /\ r * (Ceiling(a, r) - 1) < a
<1> DEFINE q == (a + r - 1) \div r
<1>1. a + r - 1 \in Nat
  OBVIOUS
<1>2. /\ q \in Int /\ r * q <= a + r - 1 /\ a + r - 1 < r * q + r
  BY <1>1
<1>3. Ceiling(a, r) = q
  BY DEF Ceiling
<1> HIDE DEF q
<1>4. r * q >= a
  BY <1>2
<1>5. q \in Nat /\ (a > 0 => q >= 1)
  <2>1. CASE q < 0
    <3>1. -q \in Nat /\ -q >= 1
      BY <1>2, <2>1
    <3>2. r * 1 <= r * (-q)
      BY <3>1
    <3>3. r * (-q) = -(r * q)
      BY <1>2
    <3> QED
      BY <1>2, <1>4, <3>2, <3>3
  <2>2. CASE q = 0
    BY <1>4, <2>2
  <2>3. CASE q > 0
    BY <1>2, <2>3
  <2> QED
    BY <1>2, <2>1, <2>2, <2>3
<1>6. r * (q - 1) = r * q - r
  BY <1>2
<1> QED
  BY <1>2, <1>3, <1>4, <1>5, <1>6

\* A bucket that was forgotten had been full for as long as it takes to fill.
LEMMA TtlFills ==
  ASSUME NEW b \in Buckets
  PROVE  Ttl(b) \in Nat \ {0} /\ Rate[b] * Ttl(b) >= Burst[b]
<1>1. Rate[b] \in Nat \ {0} /\ Burst[b] \in Nat \ {0} /\ 2 * Burst[b] \in Nat
  BY BucketConstants
<1> DEFINE n == Ceiling(2 * Burst[b], Rate[b])
<1>2. n \in Nat /\ Rate[b] * n >= 2 * Burst[b] /\ n >= 1
  <2>1. 2 * Burst[b] > 0
    BY <1>1
  <2> QED
    BY <1>1, <2>1, CeilingLeast
<1>3. Ttl(b) = n
  BY <1>2 DEF Ttl, Higher
<1> QED
  BY <1>1, <1>2, <1>3

\* What a hash comes to, field by field.
LEMMA LevelOf ==
  ASSUME BucketInv, NEW b \in Buckets
  PROVE  /\ Level(b) \in Nat /\ Level(b) <= Burst[b] /\ Level(b) = credit[b]
         /\ hashes[b] # Absent => /\ hashes[b] \in [tokens : Nat, idle : Nat]
                                  /\ hashes[b].tokens \in Nat /\ hashes[b].idle \in Nat
                                  /\ hashes[b].idle < Ttl(b)
BY DEF BucketInv, HashOK

\* A request rewrites the hashes of its two buckets: a charge that the level covers is
\* what it changes of either.
LEMMA Charged ==
  ASSUME BucketInv, NEW k \in ApiKeys, NEW charge \in {0, Cost},
         \A b \in {k, Tenant} : charge <= Level(b),
         hashes' = [b \in Buckets |-> IF b \in {k, Tenant} THEN WrittenHash(b, charge) ELSE hashes[b]],
         credit' = [b \in Buckets |-> IF b \in {k, Tenant} THEN Higher(0, credit[b] - charge)
                                      ELSE credit[b]]
  PROVE  BucketInv'
<1>1. charge \in Nat
  BY BucketConstants
<1>2. ASSUME NEW b \in {k, Tenant}
      PROVE  /\ hashes'[b] \in [tokens : Nat, idle : Nat] /\ credit'[b] \in Nat
             /\ HashOK(b)' /\ credit'[b] <= Burst[b] /\ Level(b)' = credit'[b]
  <2>1. b \in Buckets /\ Burst[b] \in Nat /\ Rate[b] \in Nat /\ Ttl(b) \in Nat \ {0}
    BY BucketConstants, TtlFills
  <2>2. Level(b) \in Nat /\ Level(b) <= Burst[b] /\ Level(b) = credit[b]
    BY <2>1, LevelOf
  <2>3. hashes'[b] = [tokens |-> Level(b) - charge, idle |-> 0]
    BY <2>1 DEF WrittenHash
  <2>4. credit'[b] = Level(b) - charge /\ Level(b) - charge \in Nat
    BY <1>1, <2>1, <2>2 DEF Higher
  <2>5. hashes'[b] \in [tokens : Nat, idle : Nat] /\ hashes'[b] # Absent
    BY <2>3, <2>4, BucketConstants
  <2>6. HashOK(b)'
    BY <1>1, <2>1, <2>2, <2>3 DEF HashOK, Ttl
  <2>7. Level(b)' = Lower(Burst[b], (Level(b) - charge) + Rate[b] * 0)
    BY <2>3, <2>5 DEF Level
  <2>8. Level(b)' = Level(b) - charge
    BY <1>1, <2>1, <2>2, <2>4, <2>7 DEF Lower
  <2> QED
    BY <1>1, <2>1, <2>2, <2>4, <2>5, <2>6, <2>8
<1>3. ASSUME NEW b \in Buckets, b \notin {k, Tenant}
      PROVE  /\ hashes'[b] \in {Absent} \cup [tokens : Nat, idle : Nat] /\ credit'[b] \in Nat
             /\ HashOK(b)' /\ credit'[b] <= Burst[b] /\ Level(b)' = credit'[b]
  BY <1>3 DEF BucketInv, HashOK, Level, Ttl
<1> QED
  BY <1>2, <1>3 DEF BucketInv

\* A tick makes every bucket fuller by its rate, and drops hashes of full buckets only.
LEMMA ElapseKeeps ==
  ASSUME BucketInv, Elapse
  PROVE  BucketInv'
<1>1. ASSUME NEW b \in Buckets
      PROVE  /\ hashes'[b] \in {Absent} \cup [tokens : Nat, idle : Nat] /\ credit'[b] \in Nat
             /\ HashOK(b)' /\ credit'[b] <= Burst[b] /\ Level(b)' = credit'[b]
  <2>1. /\ Burst[b] \in Nat /\ Rate[b] \in Nat /\ Ttl(b) \in Nat \ {0}
        /\ Rate[b] * Ttl(b) >= Burst[b]
    BY BucketConstants, TtlFills
  <2>2. /\ Level(b) \in Nat /\ Level(b) <= Burst[b] /\ Level(b) = credit[b]
    BY LevelOf
  <2>3. credit'[b] = Lower(Burst[b], credit[b] + Rate[b])
    BY DEF Elapse
  <2>4. credit'[b] \in Nat /\ credit'[b] <= Burst[b]
    BY <2>1, <2>2, <2>3 DEF Lower
  <2>5. CASE hashes[b] = Absent
    <3>1. hashes'[b] = Absent /\ credit[b] = Burst[b]
      BY <2>2, <2>5 DEF Elapse, Level
    <3>2. HashOK(b)' /\ Level(b)' = Burst[b]
      BY <3>1 DEF HashOK, Level
    <3>3. credit'[b] = Burst[b]
      BY <2>1, <2>3, <3>1 DEF Lower
    <3> QED
      BY <2>4, <3>1, <3>2, <3>3
  <2>6. CASE hashes[b] # Absent
    <3> DEFINE n == hashes[b].tokens
               i == hashes[b].idle
    <3>1. /\ hashes[b] \in [tokens : Nat, idle : Nat] /\ n \in Nat /\ i \in Nat /\ i < Ttl(b)
      BY <2>6, LevelOf
    <3>2. Level(b) = Lower(Burst[b], n + Rate[b] * i)
      BY <2>6 DEF Level
    <3>3. /\ Rate[b] * (i + 1) = Rate[b] * i + Rate[b] /\ Rate[b] * i \in Nat
      BY <2>1, <3>1
    <3>4. credit'[b] = Lower(Burst[b], n + Rate[b] * (i + 1))
      BY <2>1, <2>2, <2>3, <3>1, <3>2, <3>3 DEF Lower
    <3>5. CASE i + 1 >= Ttl(b)
      <4>1. hashes'[b] = Absent
        BY <3>5 DEF Elapse
      <4>2. i + 1 = Ttl(b)
        BY <2>1, <3>1, <3>5
      <4>3. credit'[b] = Burst[b]
        BY <2>1, <3>1, <3>4, <4>2 DEF Lower
      <4> QED
        BY <2>4, <4>1, <4>3 DEF HashOK, Level
    <3>6. CASE i + 1 < Ttl(b)
      <4>1. hashes'[b] = [hashes[b] EXCEPT !.idle = i + 1]
        BY <2>1, <2>6, <3>1, <3>6 DEF Elapse
      <4>2. /\ hashes'[b] \in [tokens : Nat, idle : Nat]
            /\ hashes'[b].tokens = n /\ hashes'[b].idle = i + 1
        BY <3>1, <4>1
      <4>3. hashes'[b] # Absent
        BY <4>2, BucketConstants
      <4>4. Level(b)' = Lower(Burst[b], n + Rate[b] * (i + 1))
        BY <4>2, <4>3 DEF Level
      <4>5. n <= Burst[b]
        BY <2>6 DEF BucketInv, HashOK
      <4>6. HashOK(b)'
        BY <3>6, <4>2, <4>5 DEF HashOK, Ttl
      <4> QED
        BY <2>4, <3>4, <4>2, <4>4, <4>6
    <3> QED
      BY <2>1, <3>1, <3>5, <3>6
  <2> QED
    BY <2>5, <2>6
<1>2. /\ hashes' = [b \in Buckets |-> hashes'[b]] /\ credit' = [b \in Buckets |-> credit'[b]]
  BY DEF Elapse
<1> QED
  BY <1>1, <1>2 DEF BucketInv

\* Nothing is written and nothing charged at first, and every step keeps the accounts.
LEMMA BucketKeeps ==
  /\ BucketInit => BucketInv
  /\ BucketInv /\ [BucketNext]_bucketVars => BucketInv'
<1>1. BucketInit => BucketInv
  BY BucketConstants, BucketAssumption DEF BucketInit, BucketInv, HashOK, Level
<1>2. ASSUME BucketInv, NEW k \in ApiKeys, Admit(k) PROVE BucketInv'
  <2>1. \A b \in {k, Tenant} : Cost <= Level(b)
    BY <1>2, BucketConstants, LevelOf DEF Admit, Allowed
  <2>2. Cost \in {0, Cost}
    OBVIOUS
  <2> QED
    BY <1>2, <2>1, <2>2, Charged DEF Admit
<1>3. ASSUME BucketInv, NEW k \in ApiKeys, Refuse(k) PROVE BucketInv'
  <2>1. \A b \in Buckets : 0 <= Level(b) /\ credit[b] \in Nat
    BY <1>3, LevelOf
  <2>2. \A b \in Buckets : Higher(0, credit[b] - 0) = credit[b]
    BY <2>1 DEF Higher
  <2>3. credit' = [b \in Buckets |-> IF b \in {k, Tenant} THEN Higher(0, credit[b] - 0)
                                      ELSE credit[b]]
    BY <1>3, <2>2 DEF Refuse, BucketInv
  <2>4. \A b \in {k, Tenant} : 0 <= Level(b)
    BY <2>1, BucketConstants
  <2>5. 0 \in {0, Cost}
    OBVIOUS
  <2> QED
    BY <1>3, <2>3, <2>4, <2>5, Charged DEF Refuse
<1>4. ASSUME BucketInv, UNCHANGED bucketVars PROVE BucketInv'
  BY <1>4 DEF bucketVars, BucketInv, HashOK, Level, Ttl
<1> QED
  BY <1>1, <1>2, <1>3, <1>4, ElapseKeeps DEF BucketNext

\* A bucket refuses for exactly as long as RetryAfter says.
LEMMA RetryExact ==
  ASSUME BucketInv, NEW b \in Buckets, Burst[b] >= Cost
  PROVE  /\ RetryAfter(b) \in Nat
         /\ \A t \in Nat : Lower(Burst[b], credit[b] + Rate[b] * t) >= Cost <=> t >= RetryAfter(b)
         /\ RetryAfter(b) = 0 <=> Level(b) >= Cost
<1>1. /\ Burst[b] \in Nat /\ Rate[b] \in Nat \ {0} /\ Cost \in Nat
      /\ Level(b) \in Nat /\ Level(b) = credit[b]
  BY BucketConstants, LevelOf
<1>2. \A t \in Nat : Lower(Burst[b], credit[b] + Rate[b] * t) >= Cost <=> Level(b) + Rate[b] * t >= Cost
  BY <1>1 DEF Lower
<1>3. CASE Level(b) >= Cost
  <2>1. RetryAfter(b) = 0
    BY <1>3 DEF RetryAfter
  <2>2. \A t \in Nat : Level(b) + Rate[b] * t >= Cost
    BY <1>1, <1>3
  <2> QED
    BY <1>2, <1>3, <2>1, <2>2
<1>4. CASE Level(b) < Cost
  <2> DEFINE lack == Cost - Level(b)
             w == Ceiling(lack, Rate[b])
  <2>1. lack \in Nat /\ lack > 0 /\ RetryAfter(b) = w
    BY <1>1, <1>4 DEF RetryAfter
  <2> HIDE DEF lack
  <2>2. w \in Nat /\ w >= 1 /\ Rate[b] * w >= lack /\ Rate[b] * (w - 1) < lack
    BY <1>1, <2>1, CeilingLeast
  <2> HIDE DEF w
  <2>3. ASSUME NEW t \in Nat PROVE Rate[b] * t >= lack <=> t >= w
    <3>1. CASE t >= w
      <4>1. Rate[b] * w <= Rate[b] * t
        BY <1>1, <2>2, <3>1, Monotonic
      <4> QED
        BY <1>1, <2>1, <2>2, <3>1, <4>1
    <3>2. CASE t < w
      <4>1. t <= w - 1 /\ w - 1 \in Nat
        BY <2>2, <3>2
      <4>2. Rate[b] * t <= Rate[b] * (w - 1)
        BY <1>1, <4>1, Monotonic
      <4> QED
        BY <1>1, <2>1, <2>2, <3>2, <4>1, <4>2
    <3> QED
      BY <2>2, <3>1, <3>2
  <2>4. \A t \in Nat : Level(b) + Rate[b] * t >= Cost <=> Rate[b] * t >= lack
    BY <1>1 DEF lack
  <2> QED
    BY <1>1, <1>2, <1>4, <2>1, <2>2, <2>3, <2>4
<1> QED
  BY <1>1, <1>3, <1>4

\* Hashes and credit keep their types: a hash never has more than the burst, and is
\* never as old as its TTL.
THEOREM BucketTypeCorrect == BucketSpec => []BucketTypeOK
<1>1. ASSUME BucketInv PROVE BucketTypeOK
  <2>1. ASSUME NEW b \in Buckets, hashes[b] # Absent
        PROVE  hashes[b].tokens \in 0 .. Burst[b] /\ hashes[b].idle \in 0 .. Ttl(b) - 1
    <3>1. hashes[b].tokens \in Nat /\ hashes[b].idle \in Nat /\ HashOK(b)
      BY <1>1, <2>1 DEF BucketInv
    <3>2. Burst[b] \in Nat /\ Ttl(b) \in Nat
      BY BucketConstants, TtlFills
    <3> QED
      BY <2>1, <3>1, <3>2 DEF HashOK
  <2> QED
    BY <1>1, <2>1 DEF BucketTypeOK, BucketInv
<1> QED
  BY <1>1, BucketKeeps, PTL DEF BucketSpec

\* Whatever is written, expires and is refilled lazily, each key and the tenant have
\* the tokens of a bucket that is filled at its rate and charged once for each request
\* admitted, and a refusal names the exact wait.
THEOREM RateIsKept == BucketSpec => []RateKept
<1>1. ASSUME BucketInv PROVE RateKept
  <2>1. \A b \in Buckets : Level(b) = credit[b]
    BY <1>1, LevelOf
  <2> DEFINE Pays(k, t) == \A b \in {k, Tenant} : Lower(Burst[b], credit[b] + Rate[b] * t) >= Cost
  <2>2. ASSUME NEW k \in ApiKeys PROVE Allowed(k) <=> Pays(k, 0)
    <3>1. ASSUME NEW b \in {k, Tenant}
          PROVE  Lower(Burst[b], credit[b] + Rate[b] * 0) = Level(b)
      <4>1. /\ Burst[b] \in Nat /\ Rate[b] \in Nat
            /\ Level(b) \in Nat /\ Level(b) <= Burst[b] /\ Level(b) = credit[b]
        BY <1>1, BucketConstants, LevelOf
      <4> QED
        BY <4>1 DEF Lower
    <3> QED
      BY <3>1 DEF Allowed
  <2>3. ASSUME NEW k \in ApiKeys, ~Allowed(k), \A b \in {k, Tenant} : Burst[b] >= Cost
        PROVE  Pays(k, Wait(k)) /\ ~Pays(k, Wait(k) - 1)
    <3>1. /\ RetryAfter(k) \in Nat /\ RetryAfter(Tenant) \in Nat
          /\ RetryAfter(k) = 0 <=> Level(k) >= Cost
          /\ RetryAfter(Tenant) = 0 <=> Level(Tenant) >= Cost
      BY <1>1, <2>3, BucketConstants, RetryExact
    <3>2. \A t \in Nat : Pays(k, t) <=> t >= RetryAfter(k) /\ t >= RetryAfter(Tenant)
      <4>1. ASSUME NEW t \in Nat, NEW b \in {k, Tenant}
            PROVE  Lower(Burst[b], credit[b] + Rate[b] * t) >= Cost <=> t >= RetryAfter(b)
        BY <1>1, <2>3, BucketConstants, RetryExact
      <4> QED
        BY <4>1
    <3>3. /\ Level(k) \in Nat /\ Level(Tenant) \in Nat /\ Cost \in Nat
      BY <1>1, BucketConstants, LevelOf
    <3>4. Wait(k) = Higher(RetryAfter(k), RetryAfter(Tenant)) /\ Wait(k) >= 1
      BY <2>3, <3>1, <3>3 DEF Wait, Higher, Allowed
    <3>5. Wait(k) \in Nat /\ Wait(k) - 1 \in Nat
      BY <3>1, <3>4 DEF Higher
    <3> HIDE DEF Pays
    <3>6. /\ Wait(k) >= RetryAfter(k) /\ Wait(k) >= RetryAfter(Tenant)
          /\ ~(Wait(k) - 1 >= RetryAfter(k) /\ Wait(k) - 1 >= RetryAfter(Tenant))
      BY <3>1, <3>4 DEF Higher
    <3> QED
      BY <3>2, <3>5, <3>6
  <2> QED
    BY <2>1, <2>2, <2>3 DEF RateKept
<1> QED
  BY <1>1, BucketKeeps, PTL DEF BucketSpec

-----------------------------------------------------------------------------
\* A listing shows a caller exactly the documents that a request for each one would
\* be allowed, in any state of permissions and policies: loading what the caller holds
\* of a whole page at once decides as one row at a time does.
THEOREM ListingsAgree ==
  ASSUME NEW caller \in Callers, NEW d \in Documents, NEW action \in DocumentActions,
         NEW x \in Contexts
  PROVE  Authorized(caller, d, action, x) <=> d \in Filtered(caller, action, x)
<1>1. Held(caller)[d] \cap Satisfying(action) # {} <=>
        \E row \in DOMAIN permissions :
           /\ row[1] = d /\ row[2] \in caller.subjects
           /\ permissions[row] = "live"
           /\ row[3] \in Satisfying(action)
  BY DEF Held
<1> QED
  BY <1>1 DEF Authorized, Filtered, AclAllows

\* What a definition by recursion over conditions computes: it has a value, since a
\* condition is a tree.
Parts(c) == {c.parts[k] : k \in DOMAIN c.parts}
SameBelow(f, g, c) == \A b \in Parts(c) : f[b] = g[b]

\* G tells the value at a condition from the values at its parts, f solves it.
Determined(G, W) ==
  /\ G \in [Conditions -> [[Conditions -> W] -> W]]
  /\ \A c \in Conditions : \A f, g \in [Conditions -> W] :
       SameBelow(f, g, c) => G[c][f] = G[c][g]
Solutions(G, W) == {f \in [Conditions -> W] : \A c \in Conditions : f[c] = G[c][f]}

\* The parts of a condition that occurs occur.
LEMMA PartsAre ==
  ASSUME NEW c \in Conditions
  PROVE  Parts(c) \subseteq Conditions
BY AuthzAssumption DEF Parts

\* Of any conditions, one has none of its parts among them.
LEMMA Innermost ==
  ASSUME NEW S \in SUBSET Conditions, S # {}
  PROVE  \E c \in S : Parts(c) \subseteq Conditions \ S
<1>1. PICK c \in S : \A k \in DOMAIN c.parts : c.parts[k] \notin S
  BY AuthzAssumption
<1> QED
  BY <1>1, PartsAre DEF Parts

\* A definition by recursion over conditions that gives values in W has a solution: the
\* union of what its solutions on sets closed under parts agree on.
LEMMA Recursion ==
  ASSUME NEW W, NEW w0 \in W, NEW G, Determined(G, W)
  PROVE  \E f : f \in Solutions(G, W)
<1> USE DEF Determined
<1> DEFINE F == [Conditions -> W]
           Closed == {D \in SUBSET Conditions : \A c \in D : Parts(c) \subseteq D}
           Right(f, D) == \A c \in D : f[c] = G[c][f]
           Good == {c \in Conditions : \E D \in Closed : c \in D /\ \E f \in F : Right(f, D)}
\* Two solutions agree wherever both are solutions.
<1>1. ASSUME NEW D \in Closed, NEW E \in Closed, NEW f \in F, NEW g \in F,
             Right(f, D), Right(g, E), NEW c \in D \cap E
      PROVE  f[c] = g[c]
  <2> DEFINE S == {b \in D \cap E : f[b] # g[b]}
  <2>1. SUFFICES ASSUME S # {} PROVE FALSE
    OBVIOUS
  <2>2. S \in SUBSET Conditions
    OBVIOUS
  <2>3. PICK b \in S : Parts(b) \subseteq Conditions \ S
    BY <2>1, <2>2, Innermost
  <2>4. Parts(b) \subseteq D \cap E
    OBVIOUS
  <2>5. SameBelow(f, g, b)
    BY <2>3, <2>4 DEF SameBelow
  <2>6. b \in Conditions /\ f \in [Conditions -> W] /\ g \in [Conditions -> W]
    OBVIOUS
  <2>7. G[b][f] = G[b][g]
    BY <2>5, <2>6
  <2> QED
    BY <1>1, <2>3, <2>7
<1> DEFINE Value(c) == CHOOSE w \in W : \E D \in Closed : c \in D /\ \E f \in F : Right(f, D) /\ f[c] = w
           h == [c \in Conditions |-> IF c \in Good THEN Value(c) ELSE w0]
<1>2. ASSUME NEW D \in Closed, NEW f \in F, Right(f, D), NEW c \in D
      PROVE  c \in Good /\ Value(c) = f[c]
  <2>1. c \in Conditions /\ f[c] \in W
    OBVIOUS
  <2>2. c \in Good
    BY <1>2, <2>1
  <2>3. \E w \in W : \E E \in Closed : c \in E /\ \E g \in F : Right(g, E) /\ g[c] = w
    BY <1>2, <2>1
  <2>4. PICK E \in Closed, g \in F : c \in E /\ Right(g, E) /\ g[c] = Value(c)
    <3> HIDE DEF Closed, F, Right
    <3> QED
      BY <2>3
  <2>5. f[c] = g[c]
    <3> HIDE DEF Closed, F, Right, Value
    <3>1. c \in D \cap E
      BY <2>4
    <3> QED
      BY <1>1, <1>2, <2>4, <3>1
  <2> QED
    BY <2>2, <2>4, <2>5
<1>3. h \in F
  <2>1. ASSUME NEW c \in Good PROVE Value(c) \in W
    <3>1. PICK D \in Closed, f \in F : c \in D /\ Right(f, D)
      OBVIOUS
    <3>2. Value(c) = f[c] /\ c \in Conditions
      <4> HIDE DEF Closed, F, Right, Value, Good
      <4>1. Value(c) = f[c]
        BY <1>2, <3>1
      <4>2. c \in Conditions
        BY DEF Good
      <4> QED
        BY <4>1, <4>2
    <3> HIDE DEF Value
    <3> QED
      BY <3>2
  <2> HIDE DEF Value, Good
  <2> QED
    BY <2>1
<1>4. ASSUME NEW c \in Good
      PROVE  Parts(c) \subseteq Good /\ h[c] = G[c][h]
  <2>1. PICK D \in Closed, f \in F : c \in D /\ Right(f, D)
    OBVIOUS
  <2>2. Parts(c) \subseteq D /\ D \subseteq Conditions /\ f \in [Conditions -> W]
    BY <2>1
  <2>3. \A b \in D : b \in Good /\ Value(b) = f[b]
    <3> HIDE DEF Closed, F, Right, Value, Good
    <3> QED
      BY <1>2, <2>1
  <2>4. \A b \in D : h[b] = f[b]
    <3> HIDE DEF Value, Good
    <3> QED
      BY <2>2, <2>3
  <2> HIDE DEF h, Value, Good
  <2>5. SameBelow(f, h, c)
    BY <2>2, <2>4 DEF SameBelow
  <2>6. G[c][f] = G[c][h]
    BY <1>3, <2>1, <2>2, <2>5
  <2>7. h[c] = f[c] /\ f[c] = G[c][f]
    BY <2>1, <2>4
  <2> QED
    BY <2>2, <2>3, <2>6, <2>7
<1>5. Good = Conditions
  <2> DEFINE S == Conditions \ Good
  <2>1. SUFFICES ASSUME S # {} PROVE FALSE
    OBVIOUS
  <2>2. PICK c \in S : Parts(c) \subseteq Conditions \ S
    <3> HIDE DEF Good
    <3> QED
      BY <2>1, Innermost
  <2> DEFINE f == [h EXCEPT ![c] = G[c][h]]
             D == Good \cup {c}
  <2>3. c \in Conditions /\ c \notin Good /\ Parts(c) \subseteq Good /\ Good \subseteq Conditions
    BY <2>2
  <2> HIDE DEF h, Value, Good, S
  <2>4. f \in F /\ f[c] = G[c][h] /\ \A b \in Good : f[b] = h[b]
    BY <1>3, <2>3
  <2> HIDE DEF f
  <2>5. D \in Closed
    BY <1>4, <2>3
  <2>6. ASSUME NEW b \in D PROVE f[b] = G[b][f]
    <3>1. Parts(b) \subseteq Good /\ b \in Conditions
      BY <1>4, <2>3
    <3>2. SameBelow(h, f, b)
      BY <2>4, <3>1 DEF SameBelow
    <3>3. G[b][h] = G[b][f]
      BY <1>3, <2>4, <3>1, <3>2
    <3>4. f[b] = G[b][h]
      BY <1>4, <2>3, <2>4
    <3> QED
      BY <3>3, <3>4
  <2>7. Right(f, D) /\ c \in D
    BY <2>6
  <2> HIDE DEF D
  <2>8. c \in Good
    BY <2>3, <2>4, <2>5, <2>7 DEF Good
  <2> QED
    BY <2>3, <2>8
<1> HIDE DEF h, Good
<1>6. h \in [Conditions -> W] /\ \A c \in Conditions : h[c] = G[c][h]
  BY <1>3, <1>4, <1>5
<1> QED
  BY <1>6 DEF Solutions

\* Induction over conditions.
LEMMA Structural ==
  ASSUME NEW T \in SUBSET Conditions, \A c \in Conditions : Parts(c) \subseteq T => c \in T
  PROVE  T = Conditions
<1>1. SUFFICES ASSUME Conditions \ T # {} PROVE FALSE
  OBVIOUS
<1>2. PICK c \in Conditions \ T : Parts(c) \subseteq Conditions \ (Conditions \ T)
  BY <1>1, Innermost
<1> QED
  BY <1>2

Outcomes == {"true", "false", "invalid"}

\* The least of some numbers is one of them.
LEMMA LeastOf ==
  ASSUME NEW T \in SUBSET Nat, T # {}
  PROVE  Min(T) \in T
<1>1. PICK x \in T : \A y \in T : ~(<<y, x>> \in OpToRel(<, Nat))
  BY NatLessThanWellFounded, WFMin
<1>2. \A y \in T : ~(y < x)
  BY <1>1 DEF OpToRel
<1>3. \A y \in T : x <= y
  BY <1>2
<1> QED
  BY <1>3 DEF Min

\* all() and any() give the unit if every part does, or what some part gives instead.
LEMMA SettledIs ==
  ASSUME NEW n \in Nat, NEW outcomes, DOMAIN outcomes = 1 .. n, NEW unit
  PROVE  \/ Settled(outcomes, unit) = unit /\ \A k \in 1 .. n : outcomes[k] = unit
         \/ \E k \in 1 .. n : Settled(outcomes, unit) = outcomes[k] /\ outcomes[k] # unit
<1> DEFINE Stops == {k \in DOMAIN outcomes : outcomes[k] # unit}
<1>1. CASE Stops = {}
  BY <1>1 DEF Settled
<1>2. CASE Stops # {}
  <2>1. Stops \in SUBSET Nat
    OBVIOUS
  <2>2. Min(Stops) \in Stops
    BY <1>2, <2>1, LeastOf
  <2>3. Settled(outcomes, unit) = outcomes[Min(Stops)]
    BY <1>2 DEF Settled
  <2> QED
    BY <2>2, <2>3
<1> QED
  BY <1>1, <1>2

\* A condition answers if its parts do.
LEMMA OutcomeType ==
  ASSUME NEW c \in Conditions, NEW x \in Contexts, NEW outcomes \in [DOMAIN c.parts -> Outcomes]
  PROVE  Outcome(c, outcomes, x) \in Outcomes
<1>1. PICK n \in Nat : DOMAIN c.parts = 1 .. n /\ DOMAIN outcomes = 1 .. n
  <2>1. c.parts \in Seq(Conditions)
    BY AuthzAssumption
  <2> QED
    BY <2>1
<1>2. ASSUME NEW unit \in Outcomes PROVE Settled(outcomes, unit) \in Outcomes
  <2>1. \A k \in 1 .. n : outcomes[k] \in Outcomes
    BY <1>1
  <2> QED
    BY <1>1, <2>1, SettledIs
<1> HIDE DEF Outcomes
<1>3. Settled(outcomes, "true") \in Outcomes /\ Settled(outcomes, "false") \in Outcomes
  BY <1>2 DEF Outcomes
<1> QED
  BY <1>3 DEF Outcome, Outcomes

\* evaluate_condition's equation, and that it answers true, false or with an error.
LEMMA EvaluateIs ==
  /\ Evaluate \in [Conditions -> [Contexts -> Outcomes]]
  /\ \A c \in Conditions, x \in Contexts :
       Evaluate[c][x] = Outcome(c, [k \in DOMAIN c.parts |-> Evaluate[c.parts[k]][x]], x)
<1> DEFINE Answers == [Contexts -> Outcomes]
           Body(c, f) == [x \in Contexts |-> Outcome(c, [k \in DOMAIN c.parts |-> f[c.parts[k]][x]], x)]
           Step == [c \in Conditions |-> [f \in [Conditions -> Answers] |-> Body(c, f)]]
<1>1. ASSUME NEW c \in Conditions, NEW f, \A b \in Parts(c) : f[b] \in Answers
      PROVE  Body(c, f) \in Answers
  <2>1. ASSUME NEW x \in Contexts
        PROVE  Outcome(c, [k \in DOMAIN c.parts |-> f[c.parts[k]][x]], x) \in Outcomes
    <3>1. [k \in DOMAIN c.parts |-> f[c.parts[k]][x]] \in [DOMAIN c.parts -> Outcomes]
      BY <1>1 DEF Parts
    <3> QED
      BY <3>1, OutcomeType
  <2> QED
    BY <2>1
<1>2. ASSUME NEW c \in Conditions, NEW f \in [Conditions -> Answers], NEW g \in [Conditions -> Answers],
             SameBelow(f, g, c)
      PROVE  Body(c, f) = Body(c, g)
  <2>1. \A x \in Contexts : [k \in DOMAIN c.parts |-> f[c.parts[k]][x]]
                              = [k \in DOMAIN c.parts |-> g[c.parts[k]][x]]
    BY <1>2 DEF SameBelow, Parts
  <2> QED
    BY <2>1
<1>3. ASSUME NEW c \in Conditions, NEW f \in [Conditions -> Answers]
      PROVE  Body(c, f) \in Answers
  <2>1. \A b \in Parts(c) : f[b] \in Answers
    BY PartsAre
  <2> QED
    BY <1>1, <2>1
<1> HIDE DEF Body
<1>4. /\ Step \in [Conditions -> [[Conditions -> Answers] -> Answers]]
      /\ \A c \in Conditions : \A f \in [Conditions -> Answers] : Step[c][f] = Body(c, f)
  <2> HIDE DEF Answers
  <2> QED
    BY <1>3
<1>5. [x \in Contexts |-> "true"] \in Answers
  BY DEF Outcomes
<1>6. PICK f \in [Conditions -> Answers] : \A c \in Conditions : f[c] = Body(c, f)
  <2> HIDE DEF Answers, Step
  <2>1. ASSUME NEW c \in Conditions, NEW e \in [Conditions -> Answers],
               NEW g \in [Conditions -> Answers], SameBelow(e, g, c)
        PROVE  Step[c][e] = Step[c][g]
    <3>1. Body(c, e) = Body(c, g)
      BY <1>2, <2>1
    <3>2. Step[c][e] = Body(c, e) /\ Step[c][g] = Body(c, g)
      BY <1>4
    <3> QED
      BY <3>1, <3>2
  <2>2. Determined(Step, Answers)
    BY <1>4, <2>1 DEF Determined
  <2>3. PICK f : f \in Solutions(Step, Answers)
    BY <1>5, <2>2, Recursion
  <2>4. f \in [Conditions -> Answers] /\ \A c \in Conditions : f[c] = Step[c][f]
    BY <2>3 DEF Solutions
  <2> QED
    BY <1>4, <2>4
<1>7. f = [c \in Conditions |-> Body(c, f)]
  BY <1>6
<1>8. Evaluate = [c \in Conditions |-> Body(c, Evaluate)]
  BY <1>7 DEF Evaluate, Body
<1>9. \A c \in Conditions : Evaluate[c] = Body(c, Evaluate)
  BY <1>8
<1>10. {c \in Conditions : Evaluate[c] \in Answers} = Conditions
  <2> DEFINE T == {c \in Conditions : Evaluate[c] \in Answers}
  <2>1. ASSUME NEW c \in Conditions, Parts(c) \subseteq T PROVE c \in T
    <3>1. Evaluate[c] = Body(c, Evaluate)
      BY <1>9
    <3>2. \A b \in Parts(c) : Evaluate[b] \in Answers
      BY <2>1
    <3> HIDE DEF Answers
    <3>3. Body(c, Evaluate) \in Answers
      BY <1>1, <3>2
    <3> QED
      BY <3>1, <3>3
  <2>2. T \in SUBSET Conditions
    OBVIOUS
  <2> HIDE DEF T
  <2>3. T = Conditions
    BY <2>1, <2>2, Structural
  <2> QED
    BY <2>3 DEF T
<1>11. Evaluate \in [Conditions -> Answers]
  <2> HIDE DEF Answers
  <2> QED
    BY <1>8, <1>10
<1> QED
  BY <1>9, <1>11 DEF Body

\* The equation of Meaning.
LEMMA MeaningIs ==
  \A c \in Conditions, reading \in BOOLEAN :
    Meaning[c][reading]
      = Spelled(c, [k \in DOMAIN c.parts |-> Meaning[c.parts[k]][reading]], reading)
<1> DEFINE Sets == [BOOLEAN -> SUBSET Contexts]
           Body(c, f) ==
             [reading \in BOOLEAN |->
                Spelled(c, [k \in DOMAIN c.parts |-> f[c.parts[k]][reading]], reading)]
           Step == [c \in Conditions |-> [f \in [Conditions -> Sets] |-> Body(c, f)]]
<1>1. ASSUME NEW c \in Conditions, NEW f PROVE Body(c, f) \in Sets
  <2>1. \A parts, reading : Spelled(c, parts, reading) \in SUBSET Contexts
    BY AuthzAssumption DEF Spelled
  <2> QED
    BY <2>1
<1>2. ASSUME NEW c \in Conditions, NEW f \in [Conditions -> Sets], NEW g \in [Conditions -> Sets],
             SameBelow(f, g, c)
      PROVE  Body(c, f) = Body(c, g)
  <2>1. \A reading : [k \in DOMAIN c.parts |-> f[c.parts[k]][reading]]
                       = [k \in DOMAIN c.parts |-> g[c.parts[k]][reading]]
    BY <1>2 DEF SameBelow, Parts
  <2> QED
    BY <2>1
<1> HIDE DEF Body
<1>3. /\ Step \in [Conditions -> [[Conditions -> Sets] -> Sets]]
      /\ \A c \in Conditions : \A f \in [Conditions -> Sets] : Step[c][f] = Body(c, f)
  <2> HIDE DEF Sets
  <2> QED
    BY <1>1
<1>4. [reading \in BOOLEAN |-> {}] \in Sets
  OBVIOUS
<1>5. PICK f \in [Conditions -> Sets] : \A c \in Conditions : f[c] = Body(c, f)
  <2> HIDE DEF Sets, Step
  <2>1. ASSUME NEW c \in Conditions, NEW e \in [Conditions -> Sets],
               NEW g \in [Conditions -> Sets], SameBelow(e, g, c)
        PROVE  Step[c][e] = Step[c][g]
    <3>1. Body(c, e) = Body(c, g)
      BY <1>2, <2>1
    <3>2. Step[c][e] = Body(c, e) /\ Step[c][g] = Body(c, g)
      BY <1>3
    <3> QED
      BY <3>1, <3>2
  <2>2. Determined(Step, Sets)
    BY <1>3, <2>1 DEF Determined
  <2>3. PICK f : f \in Solutions(Step, Sets)
    BY <1>4, <2>2, Recursion
  <2>4. f \in [Conditions -> Sets] /\ \A c \in Conditions : f[c] = Step[c][f]
    BY <2>3 DEF Solutions
  <2> QED
    BY <1>3, <2>4
<1>6. f = [c \in Conditions |-> Body(c, f)]
  BY <1>5
<1>7. Meaning = [c \in Conditions |-> Body(c, Meaning)]
  BY <1>6 DEF Meaning, Body
<1>8. \A c \in Conditions : Meaning[c] = Body(c, Meaning)
  BY <1>7
<1> QED
  BY <1>8 DEF Body

\* Nothing in a well-formed condition is malformed.
LEMMA WellFormedIs ==
  \A c \in Conditions :
    WellFormed[c] <=> /\ c.op \notin {"malformed", "unknown"}
                      /\ \A b \in Parts(c) : WellFormed[b]
<1> DEFINE Body(c, f) == /\ c.op \notin {"malformed", "unknown"}
                         /\ \A k \in DOMAIN c.parts : f[c.parts[k]]
           Step == [c \in Conditions |-> [f \in [Conditions -> BOOLEAN] |-> Body(c, f)]]
<1>1. ASSUME NEW c \in Conditions, NEW f PROVE Body(c, f) \in BOOLEAN
  OBVIOUS
<1>2. ASSUME NEW c \in Conditions, NEW f \in [Conditions -> BOOLEAN],
             NEW g \in [Conditions -> BOOLEAN], SameBelow(f, g, c)
      PROVE  Body(c, f) = Body(c, g)
  BY <1>2 DEF SameBelow, Parts
<1> HIDE DEF Body
<1>3. /\ Step \in [Conditions -> [[Conditions -> BOOLEAN] -> BOOLEAN]]
      /\ \A c \in Conditions : \A f \in [Conditions -> BOOLEAN] : Step[c][f] = Body(c, f)
  BY <1>1
<1>5. PICK f \in [Conditions -> BOOLEAN] : \A c \in Conditions : f[c] = Body(c, f)
  <2> HIDE DEF Step
  <2>1. ASSUME NEW c \in Conditions, NEW e \in [Conditions -> BOOLEAN],
               NEW g \in [Conditions -> BOOLEAN], SameBelow(e, g, c)
        PROVE  Step[c][e] = Step[c][g]
    <3>1. Body(c, e) = Body(c, g)
      BY <1>2, <2>1
    <3>2. Step[c][e] = Body(c, e) /\ Step[c][g] = Body(c, g)
      BY <1>3
    <3> QED
      BY <3>1, <3>2
  <2>2. Determined(Step, BOOLEAN)
    BY <1>3, <2>1 DEF Determined
  <2>3. PICK f : f \in Solutions(Step, BOOLEAN)
    BY <2>2, Recursion
  <2>4. f \in [Conditions -> BOOLEAN] /\ \A c \in Conditions : f[c] = Step[c][f]
    BY <2>3 DEF Solutions
  <2> QED
    BY <1>3, <2>4
<1>6. f = [c \in Conditions |-> Body(c, f)]
  BY <1>5
<1>7. WellFormed = [c \in Conditions |-> Body(c, WellFormed)]
  BY <1>6 DEF WellFormed, Body
<1>8. \A c \in Conditions : WellFormed[c] = Body(c, WellFormed)
  BY <1>7
<1> QED
  <2> SUFFICES ASSUME NEW c \in Conditions
               PROVE  WellFormed[c] <=> /\ c.op \notin {"malformed", "unknown"}
                                        /\ \A b \in Parts(c) : WellFormed[b]
    OBVIOUS
  <2>1. WellFormed[c] <=> Body(c, WellFormed)
    BY <1>8
  <2>2. (\A k \in DOMAIN c.parts : WellFormed[c.parts[k]]) <=> \A b \in Parts(c) : WellFormed[b]
    BY DEF Parts
  <2> QED
    BY <2>1, <2>2 DEF Body

\* What evaluation answers of a condition is what the condition means, whichever way
\* its malformed parts are read, and it answers if there are none.
Faithful(c) ==
  \A x \in Contexts :
    /\ Evaluate[c][x] = "true" => \A reading \in BOOLEAN : x \in Meaning[c][reading]
    /\ Evaluate[c][x] = "false" => \A reading \in BOOLEAN : x \notin Meaning[c][reading]
    /\ WellFormed[c] => Evaluate[c][x] # "invalid"

\* If that is so of its parts, then of a condition.
LEMMA FaithfulAbove ==
  ASSUME NEW c \in Conditions, \A b \in Parts(c) : Faithful(b)
  PROVE  Faithful(c)
<1> SUFFICES ASSUME NEW x \in Contexts
             PROVE  /\ Evaluate[c][x] = "true" => \A reading \in BOOLEAN : x \in Meaning[c][reading]
                    /\ Evaluate[c][x] = "false" => \A reading \in BOOLEAN : x \notin Meaning[c][reading]
                    /\ WellFormed[c] => Evaluate[c][x] # "invalid"
  BY DEF Faithful
<1> DEFINE outs == [k \in DOMAIN c.parts |-> Evaluate[c.parts[k]][x]]
           sets(reading) == [k \in DOMAIN c.parts |-> Meaning[c.parts[k]][reading]]
<1>1. Evaluate[c][x] = Outcome(c, outs, x)
  BY EvaluateIs
<1>2. \A reading \in BOOLEAN : Meaning[c][reading] = Spelled(c, sets(reading), reading)
  BY MeaningIs
<1>3. PICK n \in Nat : DOMAIN c.parts = 1 .. n /\ (c.op = "not" => n = 1)
  <2>1. c.parts \in Seq(Conditions) /\ (c.op = "not" => Len(c.parts) = 1)
    BY AuthzAssumption
  <2>2. Len(c.parts) \in Nat /\ DOMAIN c.parts = 1 .. Len(c.parts)
    BY <2>1
  <2> QED
    BY <2>1, <2>2
<1>4. DOMAIN outs = 1 .. n /\ \A reading : DOMAIN sets(reading) = 1 .. n
  BY <1>3
<1>5. ASSUME NEW k \in 1 .. n
      PROVE  /\ outs[k] \in Outcomes
             /\ outs[k] = "true" => \A reading \in BOOLEAN : x \in sets(reading)[k]
             /\ outs[k] = "false" => \A reading \in BOOLEAN : x \notin sets(reading)[k]
             /\ WellFormed[c] => outs[k] # "invalid"
  <2>1. PICK b \in Conditions : b = c.parts[k] /\ b \in Parts(c)
    BY <1>3, PartsAre DEF Parts
  <2>2. /\ outs[k] = Evaluate[b][x] /\ Faithful(b)
        /\ \A reading : sets(reading)[k] = Meaning[b][reading]
    BY <1>3, <2>1
  <2>3. WellFormed[c] => WellFormed[b]
    BY <2>1, WellFormedIs
  <2>4. Evaluate[b][x] \in Outcomes
    BY EvaluateIs
  <2> HIDE DEF outs, sets
  <2> QED
    BY <2>2, <2>3, <2>4 DEF Faithful
<1> HIDE DEF outs, sets
<1>6. /\ c.op \in {"true", "false", "empty", "test", "all", "any", "not", "malformed", "unknown"}
      /\ c.holds \subseteq Contexts
      /\ WellFormed[c] => c.op \notin {"malformed", "unknown"}
  BY AuthzAssumption, WellFormedIs
<1>7. CASE c.op \in {"true", "empty"}
  BY <1>1, <1>2, <1>7 DEF Outcome, Spelled
<1>8. CASE c.op = "false"
  BY <1>1, <1>2, <1>8 DEF Outcome, Spelled
<1>9. CASE c.op = "test"
  BY <1>1, <1>2, <1>9 DEF Outcome, Spelled
<1>10. CASE c.op = "all"
  <2>1. Evaluate[c][x] = Settled(outs, "true")
    BY <1>1, <1>10 DEF Outcome
  <2>2. \A reading \in BOOLEAN :
          x \in Meaning[c][reading] <=> \A k \in 1 .. n : x \in sets(reading)[k]
    BY <1>2, <1>4, <1>10 DEF Spelled
  <2>3. CASE Settled(outs, "true") = "true" /\ \A k \in 1 .. n : outs[k] = "true"
    BY <1>5, <2>1, <2>2, <2>3
  <2>4. ASSUME NEW k \in 1 .. n, Settled(outs, "true") = outs[k], outs[k] # "true"
        PROVE  /\ Evaluate[c][x] # "true"
               /\ Evaluate[c][x] = "false" => \A reading \in BOOLEAN : x \notin Meaning[c][reading]
               /\ WellFormed[c] => Evaluate[c][x] # "invalid"
    BY <1>5, <2>1, <2>2, <2>4
  <2> QED
    BY <1>4, <2>3, <2>4, SettledIs
<1>11. CASE c.op = "any"
  <2>1. Evaluate[c][x] = Settled(outs, "false")
    BY <1>1, <1>11 DEF Outcome
  <2>2. \A reading \in BOOLEAN :
          x \in Meaning[c][reading] <=> \E k \in 1 .. n : x \in sets(reading)[k]
    BY <1>2, <1>4, <1>11 DEF Spelled
  <2>3. CASE Settled(outs, "false") = "false" /\ \A k \in 1 .. n : outs[k] = "false"
    BY <1>5, <2>1, <2>2, <2>3
  <2>4. ASSUME NEW k \in 1 .. n, Settled(outs, "false") = outs[k], outs[k] # "false"
        PROVE  /\ Evaluate[c][x] # "false"
               /\ Evaluate[c][x] = "true" => \A reading \in BOOLEAN : x \in Meaning[c][reading]
               /\ WellFormed[c] => Evaluate[c][x] # "invalid"
    BY <1>5, <2>1, <2>2, <2>4
  <2> QED
    BY <1>4, <2>3, <2>4, SettledIs
<1>12. CASE c.op = "not"
  <2>1. 1 \in 1 .. n
    BY <1>3, <1>12
  <2>2. Evaluate[c][x] = CASE outs[1] = "true" -> "false" [] outs[1] = "false" -> "true"
                           [] OTHER -> "invalid"
    BY <1>1, <1>12 DEF Outcome
  <2>3. \A reading \in BOOLEAN : Meaning[c][reading] = Contexts \ sets(reading)[1]
    BY <1>2, <1>12 DEF Spelled
  <2> QED
    BY <1>5, <2>1, <2>2, <2>3 DEF Outcomes
<1>13. CASE c.op \in {"malformed", "unknown"}
  BY <1>1, <1>6, <1>13 DEF Outcome
<1> QED
  BY <1>6, <1>7, <1>8, <1>9, <1>10, <1>11, <1>12, <1>13

\* Hence of every condition, however deep.
LEMMA EvaluationIsFaithful == \A c \in Conditions : Faithful(c)
<1> DEFINE T == {c \in Conditions : Faithful(c)}
<1>1. ASSUME NEW c \in Conditions, Parts(c) \subseteq T PROVE c \in T
  BY <1>1, FaithfulAbove
<1>2. T \in SUBSET Conditions
  OBVIOUS
<1> HIDE DEF T
<1>3. T = Conditions
  BY <1>1, <1>2, Structural
<1> QED
  BY <1>3 DEF T

\* A patch under way was read of a policy, and writes columns of their types.
RowsInv ==
  /\ AuthzTypeOK
  /\ policies = [i \in Policies |-> policies[i]]
  /\ edits = [e \in Editors |-> edits[e]]
  /\ \A e \in Editors : edits[e] # Null => IsPolicy(policies[edits[e].policy])

\* No deny policy applies to what is allowed, and an allow policy does, or none need.
LEMMA DecideIsSound ==
  ASSUME RowsInv, NEW action, NEW x \in Contexts, NEW reading \in BOOLEAN,
         PoliciesAllow(action, x)
  PROVE  /\ \A i \in Policies : ~Applies(i, "deny", action, x, reading)
         /\ deployment.default_deny => \E i \in Policies : Applies(i, "allow", action, x, reading)
<1> DEFINE Of(i) == Verdict[policies[i].cond][x]
           Settling(effect) == {i \in Enabled : /\ policies[i].effect = effect
                                                /\ InScope(policies[i], "document", action)
                                                /\ Of(i) # "false"}
           First(S) == CHOOSE i \in S : \A j \in S \ {i} : Before(i, j)
<1>1. /\ Settling("deny") = {}
      /\ IF Settling("allow") = {} THEN ~deployment.default_deny
         ELSE Of(First(Settling("allow"))) = "true"
  BY DEF PoliciesAllow, Decide
<1>2. ASSUME NEW i \in Enabled
      PROVE  /\ Of(i) = "true" => x \in Means[policies[i].cond][reading]
             /\ Of(i) = "false" => x \notin Means[policies[i].cond][reading]
  <2>1. policies[i].cond \in Conditions
    BY DEF RowsInv, AuthzTypeOK, IsPolicy, Columns, Enabled
  <2>2. Of(i) = Evaluate[policies[i].cond][x] /\ Means[policies[i].cond][reading] = Meaning[policies[i].cond][reading]
    BY <2>1 DEF Verdict, Means
  <2> QED
    BY <2>1, <2>2, EvaluationIsFaithful DEF Faithful
<1>3. ASSUME NEW i \in Policies, Applies(i, "deny", action, x, reading) PROVE FALSE
  <2>1. i \in Enabled /\ x \in Means[policies[i].cond][reading]
    BY <1>3 DEF Applies, Enabled, Created
  <2>2. i \in Settling("deny")
    BY <1>2, <1>3, <2>1 DEF Applies
  <2> QED
    BY <1>1, <2>2
<1>4. ASSUME deployment.default_deny
      PROVE  \E i \in Policies : Applies(i, "allow", action, x, reading)
  <2>1. Settling("allow") # {} /\ Of(First(Settling("allow"))) = "true"
    BY <1>1, <1>4
  <2>2. Settling("allow") \in SUBSET Policies
    BY DEF Enabled, Created
  <2>3. First(Settling("allow")) \in Settling("allow")
    <3> HIDE DEF Settling
    <3>1. \E i \in Settling("allow") : \A j \in Settling("allow") \ {i} : Before(i, j)
      BY <2>1, <2>2, AuthzAssumption
    <3> QED
      BY <3>1
  <2>4. PICK i \in Settling("allow") : Of(i) = "true"
    BY <2>1, <2>3
  <2>5. x \in Means[policies[i].cond][reading]
    BY <1>2, <2>4
  <2> QED
    BY <2>2, <2>4, <2>5 DEF Applies, Enabled, Created
<1> QED
  BY <1>3, <1>4

\* With well-formed conditions, that is enough.
LEMMA DecideIsComplete ==
  ASSUME RowsInv, NEW action, NEW x \in Contexts,
         \A i \in Created : WellFormed[policies[i].cond],
         \A i \in Policies : ~Applies(i, "deny", action, x, TRUE),
         deployment.default_deny => \E i \in Policies : Applies(i, "allow", action, x, TRUE)
  PROVE  PoliciesAllow(action, x)
<1> DEFINE Of(i) == Verdict[policies[i].cond][x]
           Settling(effect) == {i \in Enabled : /\ policies[i].effect = effect
                                                /\ InScope(policies[i], "document", action)
                                                /\ Of(i) # "false"}
           First(S) == CHOOSE i \in S : \A j \in S \ {i} : Before(i, j)
<1>1. ASSUME NEW i \in Enabled
      PROVE  /\ Of(i) # "false" => Of(i) = "true" /\ x \in Means[policies[i].cond][TRUE]
             /\ Of(i) = "false" => x \notin Means[policies[i].cond][TRUE]
  <2>1. policies[i].cond \in Conditions /\ WellFormed[policies[i].cond]
    BY DEF RowsInv, AuthzTypeOK, IsPolicy, Columns, Enabled
  <2>2. Of(i) = Evaluate[policies[i].cond][x] /\ Means[policies[i].cond][TRUE] = Meaning[policies[i].cond][TRUE]
    BY <2>1 DEF Verdict, Means
  <2>3. Evaluate[policies[i].cond][x] \in Outcomes
    BY <2>1, EvaluateIs
  <2> QED
    BY <2>1, <2>2, <2>3, EvaluationIsFaithful DEF Faithful, Outcomes
<1>2. Settling("deny") = {}
  <2> SUFFICES ASSUME NEW i \in Settling("deny") PROVE FALSE
    OBVIOUS
  <2>1. i \in Enabled /\ i \in Policies /\ x \in Means[policies[i].cond][TRUE]
    BY <1>1 DEF Enabled, Created
  <2> QED
    BY <2>1 DEF Applies, Enabled, Created
<1>3. CASE Settling("allow") = {}
  <2>1. ASSUME deployment.default_deny PROVE FALSE
    <3>1. PICK i \in Policies : Applies(i, "allow", action, x, TRUE)
      BY <2>1
    <3>2. i \in Enabled
      BY <3>1 DEF Applies, Enabled, Created
    <3>3. i \in Settling("allow")
      BY <1>1, <3>1, <3>2 DEF Applies
    <3> QED
      BY <1>3, <3>3
  <2> QED
    BY <1>2, <1>3, <2>1 DEF PoliciesAllow, Decide
<1>4. CASE Settling("allow") # {}
  <2>1. Settling("allow") \in SUBSET Policies
    BY DEF Enabled, Created
  <2>2. First(Settling("allow")) \in Settling("allow")
    <3> HIDE DEF Settling
    <3>1. \E i \in Settling("allow") : \A j \in Settling("allow") \ {i} : Before(i, j)
      BY <1>4, <2>1, AuthzAssumption
    <3> QED
      BY <3>1
  <2>3. Of(First(Settling("allow"))) = "true"
    BY <1>1, <2>2
  <2> QED
    BY <1>2, <1>4, <2>3 DEF PoliciesAllow, Decide
<1> QED
  BY <1>3, <1>4

\* Creations and patches write columns of their types, and grants are those asked for.
LEMMA RowsKeep == RowsInv /\ [AuthzNext]_authzVars => RowsInv'
<1> SUFFICES ASSUME RowsInv, [AuthzNext]_authzVars PROVE RowsInv'
  OBVIOUS
<1> USE DEF AuthzTypeOK
<1>1. ASSUME NEW i \in Policies, NEW body \in Payloads, CreatePolicy(i, body)
      PROVE  RowsInv'
  <2>1. /\ policies' = [policies EXCEPT ![i] = body]
        /\ permissions' = permissions /\ edits' = edits
        /\ deployment' = deployment /\ mixed' = mixed
        /\ IsPolicy(body)
    BY <1>1, AuthzAssumption DEF CreatePolicy
  <2>2. \A j \in Policies : policies'[j] = IF j = i THEN body ELSE policies[j]
    BY <2>1 DEF RowsInv
  <2>3. policies' = [j \in Policies |-> policies'[j]]
    BY <2>1 DEF RowsInv
  <2>4. \A j \in Created' : IsPolicy(policies'[j])
    BY <2>1, <2>2 DEF Created, RowsInv
  <2>5. \A d \in Editors : edits[d] # Null => IsPolicy(policies'[edits[d].policy])
    BY <2>1, <2>2 DEF RowsInv
  <2> QED
    BY <2>1, <2>3, <2>4, <2>5 DEF RowsInv, IsPolicy, Columns
<1>2. ASSUME NEW e \in Editors, NEW i \in Policies, NEW u \in Updates \cup Toggles,
             LoadPatch(e, i, u) \/ LoadToggle(e, i, u)
      PROVE  RowsInv'
  <2> DEFINE new == [policy |-> i, old |-> policies[i], updates |-> u]
  <2>1. /\ edits' = [edits EXCEPT ![e] = new]
        /\ permissions' = permissions /\ policies' = policies
        /\ deployment' = deployment /\ mixed' = mixed
        /\ i \in Created \ Global
    BY <1>2 DEF LoadPatch, LoadToggle, Created
  <2>2. new.policy = i /\ new.updates = u
    OBVIOUS
  <2>3. IsPolicy(policies[i])
    BY <2>1 DEF RowsInv
  <2> HIDE DEF new
  <2>4. \A d \in Editors : edits'[d] = IF d = e THEN new ELSE edits[d]
    BY <2>1 DEF RowsInv
  <2>5. edits' = [d \in Editors |-> edits'[d]]
    BY <2>1 DEF RowsInv
  <2>6. ASSUME NEW d \in Editors, edits'[d] # Null
        PROVE  /\ edits'[d].policy \in Policies \ Global /\ IsPolicy(policies[edits'[d].policy])
               /\ edits'[d].updates \in Updates \cup Toggles
    BY <2>1, <2>2, <2>3, <2>4, <2>6 DEF RowsInv
  <2>7. \A j \in Created' : IsPolicy(policies[j])
    BY <2>1 DEF Created, RowsInv
  <2> QED
    BY <2>1, <2>5, <2>6, <2>7 DEF RowsInv, IsPolicy, Columns
<1>3. ASSUME NEW e \in Editors, CommitPatch(e)
      PROVE  RowsInv'
  <2> DEFINE i == edits[e].policy
             old == edits[e].old
             u == edits[e].updates
             Changed(f) == f \in DOMAIN u /\ u[f] # old[f]
             new == [f \in DOMAIN policies[i] |-> IF Changed(f) THEN u[f] ELSE policies[i][f]]
  <2>1. /\ edits[e] # Null /\ policies' = [policies EXCEPT ![i] = new]
        /\ edits' = [edits EXCEPT ![e] = Null] /\ permissions' = permissions
        /\ deployment' = deployment /\ mixed' \subseteq mixed \cup {i}
    BY <1>3 DEF CommitPatch
  <2>2. i \in Policies \ Global /\ IsPolicy(policies[i]) /\ Columns(u)
    BY <2>1, AuthzAssumption DEF RowsInv, Toggles, Columns
  <2>3. IsPolicy(new)
    <3>1. DOMAIN new = DOMAIN policies[i] /\ {"resource", "action", "cond", "effect", "enabled"} \subseteq DOMAIN policies[i]
      BY <2>2 DEF IsPolicy
    <3>2. \A f \in DOMAIN policies[i] :
            new[f] = policies[i][f] \/ (f \in DOMAIN u /\ new[f] = u[f])
      OBVIOUS
    <3>3. Columns(policies[i])
      BY <2>2 DEF IsPolicy
    <3> HIDE DEF new, u, i
    <3>4. new["cond"] \in Conditions
      BY <2>2, <3>1, <3>2, <3>3 DEF Columns
    <3>5. new["effect"] \in {"allow", "deny"}
      BY <2>2, <3>1, <3>2, <3>3 DEF Columns
    <3>6. new["enabled"] \in BOOLEAN
      BY <2>2, <3>1, <3>2, <3>3 DEF Columns
    <3> QED
      BY <3>1, <3>4, <3>5, <3>6 DEF IsPolicy, Columns
  <2> HIDE DEF new, i, u, old
  <2>4. \A j \in Policies : policies'[j] = IF j = i THEN new ELSE policies[j]
    BY <2>1 DEF RowsInv
  <2>5. \A d \in Editors : edits'[d] = IF d = e THEN Null ELSE edits[d]
    BY <2>1 DEF RowsInv
  <2>6. policies' = [j \in Policies |-> policies'[j]] /\ edits' = [d \in Editors |-> edits'[d]]
    BY <2>1 DEF RowsInv
  <2>7. \A j \in Created' : IsPolicy(policies'[j])
    BY <2>3, <2>4 DEF Created, RowsInv
  <2>8. ASSUME NEW d \in Editors, edits'[d] # Null
        PROVE  /\ edits'[d].policy \in Policies \ Global /\ IsPolicy(policies'[edits'[d].policy])
               /\ edits'[d].updates \in Updates \cup Toggles
    BY <2>3, <2>4, <2>5, <2>8 DEF RowsInv
  <2>9. mixed' \subseteq Policies \ Global
    BY <2>1, <2>2 DEF RowsInv
  <2> QED
    BY <2>1, <2>6, <2>7, <2>8, <2>9 DEF RowsInv, IsPolicy, Columns
<1>4. ASSUME deployment' = deployment, policies' = policies, edits' = edits, mixed' = mixed,
             DOMAIN permissions' \subseteq DOMAIN permissions \cup Grants,
             \A row \in DOMAIN permissions' : permissions'[row] \in {"live", "expired"}
      PROVE  RowsInv'
  BY <1>4 DEF RowsInv, Created, IsPolicy, Columns
<1>5. ASSUME NEW row \in Grants, Grant(row)
      PROVE  RowsInv'
  <2>1. \A r \in DOMAIN permissions' : permissions'[r] \in {"live", "expired"}
    BY <1>5 DEF Grant, RowsInv
  <2> QED
    BY <1>4, <1>5, <2>1 DEF Grant
<1>6. ASSUME NEW row \in DOMAIN permissions, Expire(row) \/ Revoke(row)
      PROVE  RowsInv'
  <2>1. \A r \in DOMAIN permissions' : permissions'[r] \in {"live", "expired"}
    BY <1>6 DEF Expire, Revoke, RowsInv
  <2> QED
    BY <1>4, <1>6, <2>1 DEF Expire, Revoke
<1>7. CASE UNCHANGED authzVars
  BY <1>4, <1>7 DEF authzVars, RowsInv
<1> QED
  BY <1>1, <1>2, <1>3, <1>5, <1>6, <1>7 DEF AuthzNext

\* It holds of what there is at first.
LEMMA RowsStart == AuthzInit => RowsInv
<1> SUFFICES ASSUME AuthzInit PROVE RowsInv
  OBVIOUS
<1>1. \A i \in Created : policies[i] \in Payloads
  BY DEF AuthzInit, Created
<1>2. \A i \in Created : IsPolicy(policies[i])
  BY <1>1, AuthzAssumption
<1>3. policies = [i \in Policies |-> policies[i]] /\ edits = [e \in Editors |-> edits[e]]
  BY DEF AuthzInit
<1>4. /\ DOMAIN permissions = {} /\ mixed = {} /\ deployment \in Deployments
      /\ \A e \in Editors : edits[e] = Null
  BY DEF AuthzInit
<1> QED
  BY <1>2, <1>3, <1>4 DEF RowsInv, AuthzTypeOK

\* Settings, policies, permissions and patches keep their types: a policy always has a
\* condition that occurs, and an effect, whichever patches of it overlapped.
THEOREM AuthzTypeCorrect == AuthzSpec => []AuthzTypeOK
<1>1. RowsInv => AuthzTypeOK
  BY DEF RowsInv
<1> QED
  BY <1>1, RowsStart, RowsKeep, PTL DEF AuthzSpec

\* A patch under way that gives a column of the scope was checked against what it read;
\* a policy whose scope is not allowed has it from patches that overlapped.
AuthzInv ==
  /\ \A e \in Editors : edits[e] # Null =>
       /\ IsPolicy(edits[e].old)
       /\ ScopeChecked(edits[e].old, edits[e].updates) \/ ~Rescopes(edits[e].updates)
       /\ edits[e].policy \in mixed \/ ScopeAllowed(policies[edits[e].policy])
  /\ \A i \in Created \ Global : i \in mixed \/ ScopeAllowed(policies[i])

\* What was checked stays checked.
LEMMA ChecksStay ==
  ASSUME AuthzInv, deployment' = deployment,
         NEW e \in Editors, edits'[e] # Null, edits'[e] = edits[e]
  PROVE  /\ IsPolicy(edits'[e].old)
         /\ ScopeChecked(edits[e].old, edits[e].updates)' \/ ~Rescopes(edits'[e].updates)
BY DEF AuthzInv, ScopeChecked, ScopeAllowed

\* A patch that is committed writes the scope it was checked with, unless the scope it
\* read has changed; one of other columns leaves the scope there is.
LEMMA CommitPatchKeeps ==
  ASSUME RowsInv, AuthzInv, NEW e \in Editors, CommitPatch(e)
  PROVE  AuthzInv'
<1> DEFINE i == edits[e].policy
           old == edits[e].old
           u == edits[e].updates
           Changed(f) == f \in DOMAIN u /\ u[f] # old[f]
           new == [f \in DOMAIN policies[i] |-> IF Changed(f) THEN u[f] ELSE policies[i][f]]
<1>1. /\ edits[e] # Null
      /\ policies' = [policies EXCEPT ![i] = new]
      /\ mixed' = IF ~Rescopes(u) THEN mixed
                  ELSE IF SameScope(policies[i], old) THEN mixed \ {i}
                  ELSE mixed \cup {i}
      /\ edits' = [edits EXCEPT ![e] = Null]
      /\ deployment' = deployment
  BY DEF CommitPatch
<1>2. /\ IsPolicy(old) /\ IsPolicy(policies[i]) /\ i \in Policies \ Global
      /\ ScopeChecked(old, u) \/ ~Rescopes(u)
  BY <1>1 DEF AuthzInv, RowsInv, AuthzTypeOK
<1>3. ~Rescopes(u) => SameScope(new, policies[i])
  BY <1>2 DEF Rescopes, SameScope, IsPolicy
<1>4. Rescopes(u) /\ SameScope(policies[i], old) => SameScope(new, Merge(old, u))
  BY <1>2 DEF SameScope, IsPolicy, Merge
<1>5. i \in mixed \/ ScopeAllowed(policies[i])
  BY <1>1 DEF AuthzInv
<1>6. \A j \in Policies : policies'[j] = IF j = i THEN new ELSE policies[j]
  BY <1>1 DEF RowsInv
<1> HIDE DEF new, i, old, u
<1>7. i \in mixed' \/ ScopeAllowed(new)
  <2>1. CASE ~Rescopes(u)
    BY <1>1, <1>3, <1>5, <2>1 DEF SameScope, ScopeAllowed
  <2>2. CASE Rescopes(u) /\ SameScope(policies[i], old)
    BY <1>2, <1>4, <2>2 DEF SameScope, ScopeAllowed, ScopeChecked
  <2>3. CASE Rescopes(u) /\ ~SameScope(policies[i], old)
    BY <1>1, <2>3
  <2> QED
    BY <2>1, <2>2, <2>3
<1>8. ASSUME NEW j \in Policies, j \in mixed \/ ScopeAllowed(policies[j])
      PROVE  j \in mixed' \/ ScopeAllowed(policies[j])'
  <2>1. CASE j = i
    <3>1. policies'[j] = new
      BY <1>6, <2>1
    <3> QED
      BY <1>1, <1>7, <2>1, <3>1 DEF ScopeAllowed
  <2>2. CASE j # i
    <3>1. policies'[j] = policies[j] /\ (j \in mixed => j \in mixed')
      BY <1>1, <1>6, <2>2
    <3> QED
      BY <1>1, <1>8, <3>1 DEF ScopeAllowed
  <2> QED
    BY <2>1, <2>2
<1>10. ASSUME NEW j \in Created' \ Global PROVE j \in mixed' \/ ScopeAllowed(policies[j])'
  <2>1. j \in Policies /\ policies'[j] # Null
    BY DEF Created
  <2>2. j = i \/ j \in Created \ Global
    BY <1>6, <2>1 DEF Created
  <2>3. j \in mixed \/ ScopeAllowed(policies[j])
    BY <1>5, <2>2 DEF AuthzInv
  <2> QED
    BY <1>8, <2>1, <2>3
<1>9. ASSUME NEW d \in Editors, edits'[d] # Null
      PROVE  /\ IsPolicy(edits'[d].old)
             /\ ScopeChecked(edits[d].old, edits[d].updates)' \/ ~Rescopes(edits'[d].updates)
             /\ edits'[d].policy \in mixed' \/ ScopeAllowed(policies[edits[d].policy])'
  <2>1. edits'[d] = edits[d]
    BY <1>1, <1>9 DEF RowsInv
  <2>2. /\ edits[d].policy \in Policies
        /\ edits[d].policy \in mixed \/ ScopeAllowed(policies[edits[d].policy])
    BY <1>9, <2>1 DEF AuthzInv, RowsInv, AuthzTypeOK
  <2>3. edits[d].policy \in mixed' \/ ScopeAllowed(policies'[edits[d].policy])
    BY <1>1, <1>8, <2>2 DEF ScopeAllowed
  <2>4. edits'[d].policy \in mixed' \/ ScopeAllowed(policies[edits[d].policy])'
    BY <1>1, <2>1, <2>3 DEF ScopeAllowed
  <2> QED
    BY <1>1, <1>9, <2>1, <2>4, ChecksStay
<1> QED
  BY <1>9, <1>10 DEF AuthzInv, IsPolicy, Columns

\* Creations and patches check the scope with what they read; the rest leaves it.
LEMMA AuthzKeeps == RowsInv /\ AuthzInv /\ [AuthzNext]_authzVars => AuthzInv'
<1> SUFFICES ASSUME RowsInv, AuthzInv, [AuthzNext]_authzVars PROVE AuthzInv'
  OBVIOUS
<1>1. ASSUME NEW i \in Policies, NEW body \in Payloads, CreatePolicy(i, body)
      PROVE  AuthzInv'
  <2>1. /\ ScopeAllowed(body) /\ policies' = [policies EXCEPT ![i] = body]
        /\ deployment' = deployment /\ edits' = edits /\ mixed' = mixed
    BY <1>1 DEF CreatePolicy
  <2>2. \A j \in Policies : policies'[j] = IF j = i THEN body ELSE policies[j]
    BY <2>1 DEF RowsInv
  <2>3. ASSUME NEW j \in Created' \ Global PROVE j \in mixed' \/ ScopeAllowed(policies[j])'
    <3>1. j \in Policies /\ policies'[j] # Null
      BY DEF Created
    <3>2. CASE j = i
      BY <2>1, <2>2, <3>2 DEF ScopeAllowed
    <3>3. CASE j # i
      <4>1. j \in Created \ Global /\ policies'[j] = policies[j]
        BY <2>2, <3>1, <3>3 DEF Created
      <4> QED
        BY <2>1, <4>1 DEF AuthzInv, ScopeAllowed
    <3> QED
      BY <3>2, <3>3
  <2>4. ASSUME NEW d \in Editors, edits'[d] # Null
        PROVE  /\ IsPolicy(edits'[d].old)
               /\ ScopeChecked(edits[d].old, edits[d].updates)' \/ ~Rescopes(edits'[d].updates)
               /\ edits'[d].policy \in mixed' \/ ScopeAllowed(policies[edits[d].policy])'
    <3>1. /\ edits'[d] = edits[d] /\ edits[d].policy \in Policies
          /\ edits[d].policy \in mixed \/ ScopeAllowed(policies[edits[d].policy])
      BY <2>1, <2>4 DEF AuthzInv, RowsInv, AuthzTypeOK
    <3>2. edits'[d].policy \in mixed' \/ ScopeAllowed(policies[edits[d].policy])'
      BY <2>1, <2>2, <3>1 DEF ScopeAllowed
    <3> QED
      BY <2>1, <2>4, <3>2, ChecksStay
  <2> QED
    BY <2>3, <2>4 DEF AuthzInv, IsPolicy, Columns
<1>2. ASSUME NEW e \in Editors, NEW i \in Policies, NEW u,
             i \notin Global, policies[i] # Null, ScopeChecked(policies[i], u) \/ ~Rescopes(u),
             edits' = [edits EXCEPT ![e] = [policy |-> i, old |-> policies[i], updates |-> u]],
             UNCHANGED <<deployment, policies, permissions, mixed>>
      PROVE  AuthzInv'
  <2>1. \A d \in Editors :
          edits'[d] = IF d = e THEN [policy |-> i, old |-> policies[i], updates |-> u] ELSE edits[d]
    BY <1>2 DEF RowsInv
  <2>2. ASSUME NEW d \in Editors, edits'[d] # Null
        PROVE  /\ IsPolicy(edits'[d].old)
               /\ ScopeChecked(edits[d].old, edits[d].updates)' \/ ~Rescopes(edits'[d].updates)
               /\ edits'[d].policy \in mixed' \/ ScopeAllowed(policies[edits[d].policy])'
    <3>1. CASE d = e
      <4>1. edits'[d].policy = i /\ edits'[d].old = policies[i] /\ edits'[d].updates = u
        BY <2>1, <3>1
      <4>2. i \in Created \ Global
        BY <1>2 DEF Created
      <4>3. IsPolicy(policies[i]) /\ (i \in mixed \/ ScopeAllowed(policies[i]))
        BY <4>2 DEF RowsInv, AuthzTypeOK, AuthzInv
      <4> QED
        BY <1>2, <4>1, <4>3 DEF ScopeChecked, ScopeAllowed
    <3>2. CASE d # e
      <4>1. /\ edits'[d] = edits[d]
            /\ edits[d].policy \in mixed \/ ScopeAllowed(policies[edits[d].policy])
        BY <2>1, <2>2, <3>2 DEF AuthzInv
      <4>2. edits'[d].policy \in mixed' \/ ScopeAllowed(policies[edits[d].policy])'
        BY <1>2, <4>1 DEF ScopeAllowed
      <4> QED
        BY <1>2, <2>2, <4>1, <4>2, ChecksStay
    <3> QED
      BY <3>1, <3>2
  <2>3. \A j \in Created' \ Global : j \in mixed' \/ ScopeAllowed(policies[j])'
    BY <1>2 DEF AuthzInv, Created, ScopeAllowed
  <2> QED
    BY <2>2, <2>3 DEF AuthzInv, IsPolicy, Columns
<1>3. ASSUME NEW e \in Editors, NEW i \in Policies, NEW u \in Updates, LoadPatch(e, i, u)
      PROVE  AuthzInv'
  BY <1>2, <1>3 DEF LoadPatch
<1>4. ASSUME NEW e \in Editors, NEW i \in Policies, NEW toggle \in Toggles,
             LoadToggle(e, i, toggle)
      PROVE  AuthzInv'
  <2>1. ~Rescopes(toggle)
    BY DEF Toggles, Rescopes
  <2> QED
    BY <1>2, <1>4, <2>1 DEF LoadToggle
<1>5. CASE UNCHANGED <<deployment, policies, edits, mixed>>
  BY <1>5 DEF AuthzInv, Created, ScopeChecked, ScopeAllowed, IsPolicy, Columns
<1>6. \/ \E i \in Policies, body \in Payloads : CreatePolicy(i, body)
      \/ \E e \in Editors, i \in Policies, u \in Updates : LoadPatch(e, i, u)
      \/ \E e \in Editors, i \in Policies, toggle \in Toggles : LoadToggle(e, i, toggle)
      \/ \E e \in Editors : CommitPatch(e)
      \/ UNCHANGED <<deployment, policies, edits, mixed>>
  BY DEF AuthzNext, authzVars, Grant, Expire, Revoke
<1> QED
  BY <1>1, <1>3, <1>4, <1>5, <1>6, CommitPatchKeeps

\* A tenant's policy over every resource and action exists only where the deployment
\* allows it, unless its scope was last patched over another patch of it.
THEOREM WildcardsAreGuarded == AuthzSpec => []WildcardsGuarded
<1>1. AuthzInit => AuthzInv
  BY DEF AuthzInit, AuthzInv, Created
<1>2. AuthzInv => WildcardsGuarded
  BY DEF AuthzInv, WildcardsGuarded, ScopeAllowed
<1> QED
  BY <1>1, <1>2, RowsStart, RowsKeep, AuthzKeeps, PTL DEF AuthzSpec

\* The ACL passes those who hold a live row, spelt as the documents do.
LEMMA LiveGrants ==
  ASSUME RowsInv, NEW caller, NEW d, NEW action
  PROVE  AclAllows(caller, d, action) <=>
           \/ deployment.bypass /\ caller.role = "admin"
           \/ \E s \in caller.subjects, perm \in Satisfying(action) :
                 <<d, s, perm>> \in DOMAIN permissions /\ permissions[<<d, s, perm>>] = "live"
<1>1. ASSUME NEW row \in DOMAIN permissions,
             row[1] = d, row[2] \in caller.subjects, permissions[row] = "live",
             row[3] \in Satisfying(action)
      PROVE  \E s \in caller.subjects, perm \in Satisfying(action) :
                 <<d, s, perm>> \in DOMAIN permissions /\ permissions[<<d, s, perm>>] = "live"
  <2>1. row = <<d, row[2], row[3]>>
    BY <1>1, AuthzAssumption DEF RowsInv, AuthzTypeOK
  <2> QED
    BY <1>1, <2>1
<1>2. ASSUME NEW s \in caller.subjects, NEW perm \in Satisfying(action),
             <<d, s, perm>> \in DOMAIN permissions, permissions[<<d, s, perm>>] = "live"
      PROVE  \E row \in DOMAIN permissions :
               /\ row[1] = d /\ row[2] \in caller.subjects
               /\ permissions[row] = "live" /\ row[3] \in Satisfying(action)
  <2> DEFINE row == <<d, s, perm>>
  <2>1. row[1] = d /\ row[2] = s /\ row[3] = perm
    OBVIOUS
  <2> QED
    BY <1>2, <2>1
<1> QED
  BY <1>1, <1>2 DEF AclAllows

\* What the code allows is what the documented order of tenant, grant, deny, allow and
\* default allows, for conditions of any depth and any number of policies, permissions
\* and callers, in every state that creations, patches, grants and expiries lead to.
THEOREM DecisionsFollowMeaning == AuthzSpec => []DecisionsAgree
<1>1. RowsInv => DecisionsAgree
  <2> SUFFICES ASSUME RowsInv, NEW action \in DocumentActions, NEW x \in Contexts
               PROVE  /\ \A i \in Enabled : Simulate(i, action, x) = PoliciesAllow(action, x)
                      /\ \A caller \in Callers, d \in Documents :
                           /\ Authorized(caller, d, action, x) =>
                                \A reading \in BOOLEAN : Promised(caller, d, action, x, reading)
                           /\ (\A i \in Created : WellFormed[policies[i].cond]) =>
                                 (Authorized(caller, d, action, x) <=> Promised(caller, d, action, x, TRUE))
                           /\ Authorized(caller, d, action, x) <=> d \in Filtered(caller, action, x)
    BY DEF DecisionsAgree
  <2>1. ASSUME NEW i \in Enabled PROVE Simulate(i, action, x) = PoliciesAllow(action, x)
    <3>1. (Enabled \ {i}) \cup {i} = Enabled
      BY <2>1
    <3> QED
      BY <3>1 DEF Simulate, PoliciesAllow
  <2> SUFFICES ASSUME NEW caller \in Callers, NEW d \in Documents
               PROVE  /\ Authorized(caller, d, action, x) =>
                           \A reading \in BOOLEAN : Promised(caller, d, action, x, reading)
                      /\ (\A i \in Created : WellFormed[policies[i].cond]) =>
                            (Authorized(caller, d, action, x) <=> Promised(caller, d, action, x, TRUE))
                      /\ Authorized(caller, d, action, x) <=> d \in Filtered(caller, action, x)
    BY <2>1
  <2>2. ASSUME Authorized(caller, d, action, x), NEW reading \in BOOLEAN
        PROVE  Promised(caller, d, action, x, reading)
    <3>1. caller.home /\ AclAllows(caller, d, action) /\ PoliciesAllow(action, x)
      BY <2>2 DEF Authorized
    <3> QED
      BY <3>1, DecideIsSound, LiveGrants DEF Promised
  <2>3. ASSUME \A i \in Created : WellFormed[policies[i].cond], Promised(caller, d, action, x, TRUE)
        PROVE  Authorized(caller, d, action, x)
    <3>1. PoliciesAllow(action, x)
      BY <2>3, DecideIsComplete DEF Promised
    <3>2. caller.home /\ AclAllows(caller, d, action)
      BY <2>3, LiveGrants DEF Promised
    <3> QED
      BY <3>1, <3>2 DEF Authorized
  <2>4. Authorized(caller, d, action, x) <=> d \in Filtered(caller, action, x)
    BY ListingsAgree
  <2> QED
    BY <2>2, <2>3, <2>4
<1> QED
  BY <1>1, RowsStart, RowsKeep, PTL DEF AuthzSpec

-----------------------------------------------------------------------------
\* The caches.  The age of what is cached and the lifetime it has left, together, do
\* not pass what StaleBounded allows; what a lookup has read is no older than the
\* lookup, except for the plan while an override may decide.
PrincipalInv ==
  \A i \in Instances, k \in Keys : principals[i][k] # Nothing =>
    held[k][principals[i][k].role] + principals[i][k].left <= AuthTtl + Latency

EntitlementInv ==
  \A i \in Instances : entitlements[i] # Nothing =>
    effective[entitlements[i].on] + entitlements[i].left <= EntTtl

LookupInv(c) ==
  lookups[c] # Nothing =>
    /\ lookups[c].kind = "put" => held[lookups[c].key][lookups[c].role] <= lookups[c].age
    /\ lookups[c].kind = "override" /\ override = Nothing =>
         effective[lookups[c].on] <= lookups[c].age
    /\ lookups[c].kind = "store" => effective[lookups[c].on] <= lookups[c].age

NowInv ==
  /\ \A k \in Keys : granted[k] # Nothing => held[k][granted[k]] = 0
  /\ effective[Effective(plan, override)] = 0

CacheInv ==
  /\ CacheTypeOK /\ PrincipalInv /\ EntitlementInv /\ NowInv
  /\ \A c \in Admissions : LookupInv(c)

\* The lifetimes, and Nothing, which is none of the values it stands in for.
LEMMA CacheConstants ==
  /\ AuthTtl \in Nat /\ AuthTtl >= 1 /\ EntTtl \in Nat /\ EntTtl >= 1 /\ Latency \in Nat
  /\ Long \in Nat /\ Long = AuthTtl + EntTtl + Latency + 1
  /\ Nothing \notin KeyRoles /\ Nothing \notin BOOLEAN
  /\ Nothing \notin [role : KeyRoles, left : 1 .. AuthTtl]
  /\ Nothing \notin [on : BOOLEAN, left : 1 .. EntTtl]
  /\ Nothing \notin Lookups
<1>1. 1 .. AuthTtl \subseteq Nat /\ 1 .. EntTtl \subseteq Nat /\ 0 .. Latency \subseteq Nat
  BY CacheAssumption
<1>2. /\ Nothing \notin [role : KeyRoles, left : 1 .. AuthTtl]
      /\ Nothing \notin [on : BOOLEAN, left : 1 .. EntTtl]
  BY <1>1, CacheAssumption
<1>3. Nothing \notin Lookups
  <2>1. /\ Nothing \notin [kind : {"query"}, inst : Instances, key : Keys, age : 0 .. Latency]
        /\ Nothing \notin [kind : {"put"}, inst : Instances, key : Keys, role : KeyRoles,
                           age : 0 .. Latency]
    BY <1>1, CacheAssumption
  <2>2. /\ Nothing \notin [kind : {"plan"}, inst : Instances, age : 0 .. Latency]
        /\ Nothing \notin [kind : {"override", "store"}, inst : Instances, on : BOOLEAN,
                           age : 0 .. Latency]
    BY <1>1, CacheAssumption
  <2> QED
    BY <2>1, <2>2 DEF Lookups
<1> QED
  BY <1>2, <1>3, CacheAssumption DEF Long

\* A tick makes an age one more, until it is long ago.
LEMMA OlderByOne ==
  ASSUME NEW age \in 0 .. Long
  PROVE  Older(age) \in 0 .. Long /\ Older(age) <= age + 1
<1>1. Long \in Nat
  BY CacheConstants
<1>2. \E x \in {age + 1, Long} : \A y \in {age + 1, Long} : x <= y
  BY <1>1
<1> QED
  BY <1>1, <1>2 DEF Older, Min

\* The fields of a lookup under way.
LEMMA OfLookup ==
  ASSUME CacheTypeOK, NEW c \in Admissions, lookups[c] # Nothing
  PROVE  /\ lookups[c] \in Lookups /\ lookups[c].inst \in Instances
         /\ lookups[c].age \in 0 .. Latency
         /\ lookups[c].kind \in {"query", "put", "plan", "override", "store"}
         /\ lookups[c].kind \in {"query", "put"} => lookups[c].key \in Keys
         /\ lookups[c].kind = "put" => lookups[c].role \in KeyRoles
         /\ lookups[c].kind \in {"override", "store"} => lookups[c].on \in BOOLEAN
BY DEF CacheTypeOK, Lookups

\* What is cached, by its fields.
LEMMA OfCached ==
  ASSUME CacheTypeOK, NEW i \in Instances
  PROVE  /\ \A k \in Keys :
              /\ principals[i][k] \in [role : KeyRoles, left : 1 .. AuthTtl] \cup {Nothing}
              /\ principals[i][k] # Nothing =>
                   principals[i][k].role \in KeyRoles /\ principals[i][k].left \in 1 .. AuthTtl
         /\ entitlements[i] \in [on : BOOLEAN, left : 1 .. EntTtl] \cup {Nothing}
         /\ entitlements[i] # Nothing =>
              entitlements[i].on \in BOOLEAN /\ entitlements[i].left \in 1 .. EntTtl
BY DEF CacheTypeOK

\* A step of one lookup alone.
LEMMA LookupOnly ==
  ASSUME CacheInv, NEW c \in Admissions, NEW l \in Lookups \cup {Nothing},
         lookups' = [lookups EXCEPT ![c] = l],
         UNCHANGED <<database, principals, entitlements, held, effective>>,
         LookupInv(c)'
  PROVE  CacheInv'
<1>1. /\ lookups \in [Admissions -> Lookups \cup {Nothing}]
      /\ UNCHANGED <<granted, plan, override, principals, entitlements, held, effective>>
  BY DEF CacheInv, CacheTypeOK, database
<1>2. lookups' \in [Admissions -> Lookups \cup {Nothing}]
  BY <1>1
<1>3. CacheTypeOK'
  BY <1>1, <1>2 DEF CacheInv, CacheTypeOK
<1>4. PrincipalInv' /\ EntitlementInv' /\ NowInv'
  BY <1>1 DEF CacheInv, PrincipalInv, EntitlementInv, NowInv
<1>5. ASSUME NEW d \in Admissions, d # c PROVE LookupInv(d)'
  <2>1. lookups'[d] = lookups[d] /\ LookupInv(d)
    BY <1>1, <1>5 DEF CacheInv
  <2> QED
    BY <1>1, <2>1 DEF LookupInv
<1> QED
  BY <1>3, <1>4, <1>5 DEF CacheInv

\* Lookups begin and read; only what they read and how old it is matters.
LEMMA ReadsKeep ==
  ASSUME CacheInv, NEW c \in Admissions,
         \/ \E i \in Instances, k \in Keys : MissPrincipal(c, i, k)
         \/ \E i \in Instances : MissEntitlement(c, i)
         \/ ReadKey(c) \/ ReadPlan(c) \/ ReadOverrides(c)
  PROVE  CacheInv'
<1>1. /\ CacheTypeOK /\ NowInv /\ LookupInv(c) /\ Latency \in Nat
      /\ lookups \in [Admissions -> Lookups \cup {Nothing}]
      /\ granted \in [Keys -> KeyRoles \cup {Nothing}]
      /\ plan \in BOOLEAN /\ override \in BOOLEAN \cup {Nothing} /\ 0 \in 0 .. Latency
  BY CacheConstants DEF CacheInv, CacheTypeOK
<1>2. ASSUME NEW i \in Instances, NEW k \in Keys, MissPrincipal(c, i, k) PROVE CacheInv'
  <2> DEFINE l == [kind |-> "query", inst |-> i, key |-> k, age |-> 0]
  <2>1. l \in Lookups /\ l.kind = "query" /\ lookups' = [lookups EXCEPT ![c] = l]
        /\ UNCHANGED <<database, principals, entitlements, held, effective>>
    BY <1>1, <1>2 DEF MissPrincipal, Lookups
  <2> HIDE DEF l
  <2>2. lookups'[c] = l
    BY <1>1, <2>1
  <2>3. LookupInv(c)'
    BY <2>1, <2>2 DEF LookupInv
  <2> QED
    BY <2>1, <2>3, LookupOnly
<1>3. ASSUME NEW i \in Instances, MissEntitlement(c, i) PROVE CacheInv'
  <2> DEFINE l == [kind |-> "plan", inst |-> i, age |-> 0]
  <2>1. l \in Lookups /\ l.kind = "plan" /\ lookups' = [lookups EXCEPT ![c] = l]
        /\ UNCHANGED <<database, principals, entitlements, held, effective>>
    BY <1>1, <1>3 DEF MissEntitlement, Lookups
  <2> HIDE DEF l
  <2>2. lookups'[c] = l
    BY <1>1, <2>1
  <2>3. LookupInv(c)'
    BY <2>1, <2>2 DEF LookupInv
  <2> QED
    BY <2>1, <2>3, LookupOnly
<1>4. CASE ReadKey(c)
  <2> DEFINE k == lookups[c].key
             l == IF granted[k] = Nothing THEN Nothing
                  ELSE [kind |-> "put", inst |-> lookups[c].inst, key |-> k,
                        role |-> granted[k], age |-> 0]
  <2>1. /\ lookups[c] # Nothing /\ lookups[c].kind = "query"
        /\ UNCHANGED <<database, principals, entitlements, held, effective>>
        /\ lookups' = [lookups EXCEPT ![c] = l]
    BY <1>1, <1>4 DEF ReadKey
  <2>2. k \in Keys /\ lookups[c].inst \in Instances /\ granted[k] \in KeyRoles \cup {Nothing}
    BY <1>1, <2>1, OfLookup
  <2>3. l \in Lookups \cup {Nothing}
    BY <1>1, <2>2 DEF Lookups
  <2>4. l # Nothing => l.kind = "put" /\ l.key = k /\ l.role = granted[k] /\ l.age = 0
                       /\ granted[k] # Nothing
    OBVIOUS
  <2>5. held' = held /\ (granted[k] # Nothing => held[k][granted[k]] = 0)
    BY <1>1, <2>1, <2>2 DEF NowInv
  <2> HIDE DEF l, k
  <2>6. lookups'[c] = l
    BY <1>1, <2>1
  <2>7. LookupInv(c)'
    BY <2>4, <2>5, <2>6 DEF LookupInv
  <2> QED
    BY <2>1, <2>3, <2>7, LookupOnly
<1>5. CASE ReadPlan(c)
  <2> DEFINE l == [kind |-> "override", inst |-> lookups[c].inst, on |-> plan,
                   age |-> lookups[c].age]
  <2>1. /\ lookups[c] # Nothing /\ lookups[c].kind = "plan"
        /\ UNCHANGED <<database, principals, entitlements, held, effective>>
        /\ lookups' = [lookups EXCEPT ![c] = l]
    BY <1>1, <1>5 DEF ReadPlan
  <2>2. lookups[c].inst \in Instances /\ lookups[c].age \in 0 .. Latency
    BY <1>1, <2>1, OfLookup
  <2>3. l \in Lookups /\ l.kind = "override" /\ l.on = plan /\ l.age = lookups[c].age
    BY <1>1, <2>2 DEF Lookups
  <2>4. /\ effective' = effective /\ override' = override
        /\ override = Nothing => effective[plan] = 0
    BY <1>1, <2>1 DEF NowInv, Effective, database
  <2> HIDE DEF l
  <2>5. lookups'[c] = l
    BY <1>1, <2>1
  <2>6. LookupInv(c)'
    BY <1>1, <2>2, <2>3, <2>4, <2>5 DEF LookupInv
  <2> QED
    BY <2>1, <2>3, <2>6, LookupOnly
<1>6. CASE ReadOverrides(c)
  <2> DEFINE on == Effective(lookups[c].on, override)
             l == [kind |-> "store", inst |-> lookups[c].inst, on |-> on,
                   age |-> lookups[c].age]
  <2>1. /\ lookups[c] # Nothing /\ lookups[c].kind = "override"
        /\ UNCHANGED <<database, principals, entitlements, held, effective>>
        /\ lookups' = [lookups EXCEPT ![c] = l]
    BY <1>1, <1>6 DEF ReadOverrides
  <2>2. /\ lookups[c].inst \in Instances /\ lookups[c].age \in 0 .. Latency
        /\ lookups[c].on \in BOOLEAN
    BY <1>1, <2>1, OfLookup
  <2>3. on \in BOOLEAN
    BY <1>1, <2>2 DEF Effective
  <2>4. effective[on] <= lookups[c].age
    <3>1. CASE override = Nothing
      BY <1>1, <2>1, <3>1 DEF LookupInv, Effective
    <3>2. CASE override # Nothing
      BY <1>1, <2>2, <3>2 DEF NowInv, Effective
    <3> QED
      BY <3>1, <3>2
  <2> HIDE DEF on
  <2>5. l \in Lookups /\ l.kind = "store" /\ l.on = on /\ l.age = lookups[c].age
    BY <1>1, <2>2, <2>3 DEF Lookups
  <2>6. effective' = effective
    BY <2>1
  <2> HIDE DEF l
  <2>7. lookups'[c] = l
    BY <1>1, <2>1
  <2>8. LookupInv(c)'
    BY <2>4, <2>5, <2>6, <2>7 DEF LookupInv
  <2> QED
    BY <2>1, <2>5, <2>8, LookupOnly
<1> QED
  BY <1>2, <1>3, <1>4, <1>5, <1>6

\* What a lookup stores has its whole lifetime ahead, counted from the store for a
\* principal, from the lookup's beginning for the entitlements.
LEMMA StoresKeep ==
  ASSUME CacheInv, NEW c \in Admissions, PutPrincipal(c) \/ StoreEntitlement(c)
  PROVE  CacheInv'
<1>1. /\ CacheTypeOK /\ PrincipalInv /\ EntitlementInv /\ NowInv /\ LookupInv(c)
      /\ AuthTtl \in Nat /\ AuthTtl >= 1 /\ EntTtl \in Nat /\ EntTtl >= 1 /\ Latency \in Nat
      /\ Long \in Nat
      /\ lookups \in [Admissions -> Lookups \cup {Nothing}]
      /\ principals \in [Instances -> [Keys -> [role : KeyRoles, left : 1 .. AuthTtl] \cup {Nothing}]]
      /\ entitlements \in [Instances -> [on : BOOLEAN, left : 1 .. EntTtl] \cup {Nothing}]
      /\ held \in [Keys -> [KeyRoles -> 0 .. Long]] /\ effective \in [BOOLEAN -> 0 .. Long]
  BY CacheConstants DEF CacheInv, CacheTypeOK
<1>2. /\ lookups[c] # Nothing /\ lookups' = [lookups EXCEPT ![c] = Nothing]
      /\ UNCHANGED <<granted, plan, override, held, effective>>
  BY DEF PutPrincipal, StoreEntitlement, database
<1>3. lookups' \in [Admissions -> Lookups \cup {Nothing}]
  BY <1>1, <1>2
<1>4. ASSUME NEW d \in Admissions PROVE LookupInv(d)'
  <2>1. CASE d = c
    BY <1>1, <1>2, <2>1 DEF LookupInv
  <2>2. CASE d # c
    <3>1. lookups'[d] = lookups[d] /\ LookupInv(d)
      BY <1>1, <1>2, <2>2 DEF CacheInv
    <3> QED
      BY <1>2, <3>1 DEF LookupInv
  <2> QED
    BY <2>1, <2>2
<1>5. NowInv'
  BY <1>1, <1>2 DEF NowInv
<1>6. CASE PutPrincipal(c)
  <2> DEFINE i == lookups[c].inst
             k == lookups[c].key
             entry == [role |-> lookups[c].role, left |-> AuthTtl]
  <2>1. /\ lookups[c].kind = "put" /\ entitlements' = entitlements
        /\ principals' = [principals EXCEPT ![i][k] = entry]
    BY <1>6 DEF PutPrincipal
  <2>2. /\ i \in Instances /\ k \in Keys /\ lookups[c].role \in KeyRoles
        /\ lookups[c].age \in 0 .. Latency
    BY <1>1, <1>2, <2>1, OfLookup
  <2>3. entry \in [role : KeyRoles, left : 1 .. AuthTtl] /\ entry.role = lookups[c].role
        /\ entry.left = AuthTtl
    BY <1>1, <2>2
  <2>4. held[k][entry.role] <= Latency /\ held[k][entry.role] \in Nat
    BY <1>1, <1>2, <2>1, <2>2, <2>3 DEF LookupInv
  <2> HIDE DEF i, k, entry
  <2>5. /\ principals' \in [Instances -> [Keys -> [role : KeyRoles, left : 1 .. AuthTtl] \cup {Nothing}]]
        /\ \A j \in Instances, q \in Keys :
             principals'[j][q] = IF j = i /\ q = k THEN entry ELSE principals[j][q]
    BY <1>1, <2>1, <2>2, <2>3
  <2>6. ASSUME NEW j \in Instances, NEW q \in Keys, principals'[j][q] # Nothing
        PROVE  held'[q][principals'[j][q].role] + principals'[j][q].left <= AuthTtl + Latency
    <3>1. CASE j = i /\ q = k
      <4>1. principals'[j][q] = entry
        BY <2>5, <3>1
      <4> QED
        BY <1>1, <1>2, <2>3, <2>4, <3>1, <4>1
    <3>2. CASE ~(j = i /\ q = k)
      BY <1>1, <1>2, <2>5, <2>6, <3>2 DEF PrincipalInv
    <3> QED
      BY <3>1, <3>2
  <2>7. PrincipalInv' /\ EntitlementInv'
    BY <1>1, <1>2, <2>1, <2>6 DEF PrincipalInv, EntitlementInv
  <2>8. CacheTypeOK'
    BY <1>1, <1>2, <1>3, <2>1, <2>5 DEF CacheTypeOK
  <2> QED
    BY <1>4, <1>5, <2>7, <2>8 DEF CacheInv
<1>7. CASE StoreEntitlement(c)
  <2> DEFINE i == lookups[c].inst
             age == lookups[c].age
             entry == IF age >= EntTtl THEN Nothing
                      ELSE [on |-> lookups[c].on, left |-> EntTtl - age]
  <2>1. /\ lookups[c].kind = "store" /\ principals' = principals
        /\ entitlements' = [entitlements EXCEPT ![i] = entry]
    BY <1>7 DEF StoreEntitlement
  <2>2. i \in Instances /\ lookups[c].on \in BOOLEAN /\ age \in 0 .. Latency /\ age \in Nat
    BY <1>1, <1>2, <2>1, OfLookup
  <2>3. effective[lookups[c].on] <= age /\ effective[lookups[c].on] \in Nat
    BY <1>1, <1>2, <2>1, <2>2 DEF LookupInv
  <2>4. entry \in [on : BOOLEAN, left : 1 .. EntTtl] \cup {Nothing}
    <3>1. age < EntTtl => EntTtl - age \in 1 .. EntTtl
      BY <1>1, <2>2
    <3> QED
      BY <1>1, <2>2, <3>1
  <2>5. entry # Nothing => effective[entry.on] + entry.left <= EntTtl
    <3>1. entry # Nothing => age < EntTtl /\ entry.on = lookups[c].on /\ entry.left = EntTtl - age
      BY <1>1, <2>2
    <3> HIDE DEF entry
    <3> QED
      BY <1>1, <2>2, <2>3, <3>1
  <2> HIDE DEF i, age, entry
  <2>6. /\ entitlements' \in [Instances -> [on : BOOLEAN, left : 1 .. EntTtl] \cup {Nothing}]
        /\ \A j \in Instances : entitlements'[j] = IF j = i THEN entry ELSE entitlements[j]
    BY <1>1, <2>1, <2>2, <2>4
  <2>7. PrincipalInv' /\ EntitlementInv'
    BY <1>1, <1>2, <2>1, <2>5, <2>6 DEF PrincipalInv, EntitlementInv
  <2>8. CacheTypeOK'
    BY <1>1, <1>2, <1>3, <2>1, <2>6 DEF CacheTypeOK
  <2> QED
    BY <1>4, <1>5, <2>7, <2>8 DEF CacheInv
<1> QED
  BY <1>6, <1>7

\* A change of a key makes its new role current, and nothing older than it was.
LEMMA RegrantKeeps ==
  ASSUME CacheInv, NEW k \in Keys, NEW v \in KeyRoles \cup {Nothing}, Regrant(k, v)
  PROVE  CacheInv'
<1>1. /\ CacheTypeOK /\ PrincipalInv /\ EntitlementInv /\ NowInv
      /\ AuthTtl \in Nat /\ Latency \in Nat /\ Long \in Nat
      /\ granted \in [Keys -> KeyRoles \cup {Nothing}]
      /\ held \in [Keys -> [KeyRoles -> 0 .. Long]]
  BY CacheConstants DEF CacheInv, CacheTypeOK
<1>2. /\ granted' = [granted EXCEPT ![k] = v]
      /\ held' = [held EXCEPT ![k] = [r \in KeyRoles |-> IF r = v THEN 0 ELSE held[k][r]]]
      /\ UNCHANGED <<plan, override, principals, entitlements, lookups, effective>>
  BY <1>1 DEF Regrant
<1>3. /\ held' \in [Keys -> [KeyRoles -> 0 .. Long]] /\ granted' \in [Keys -> KeyRoles \cup {Nothing}]
      /\ \A q \in Keys : granted'[q] = IF q = k THEN v ELSE granted[q]
      /\ \A q \in Keys, r \in KeyRoles : held'[q][r] = IF q = k /\ r = v THEN 0 ELSE held[q][r]
  BY <1>1, <1>2
<1>4. \A q \in Keys, r \in KeyRoles :
         held'[q][r] \in Nat /\ held[q][r] \in Nat /\ held'[q][r] <= held[q][r]
  BY <1>1, <1>3
<1>5. CacheTypeOK'
  BY <1>1, <1>2, <1>3 DEF CacheTypeOK
<1>6. PrincipalInv'
  <2>1. ASSUME NEW j \in Instances, NEW q \in Keys, principals[j][q] # Nothing
        PROVE  held'[q][principals[j][q].role] + principals[j][q].left <= AuthTtl + Latency
    <3>1. principals[j][q].role \in KeyRoles /\ principals[j][q].left \in 1 .. AuthTtl
      BY <1>1, <2>1, OfCached
    <3>2. held[q][principals[j][q].role] + principals[j][q].left <= AuthTtl + Latency
      BY <1>1, <2>1 DEF PrincipalInv
    <3> QED
      BY <1>1, <1>4, <3>1, <3>2
  <2> QED
    BY <1>2, <2>1 DEF PrincipalInv
<1>7. NowInv'
  BY <1>1, <1>2, <1>3 DEF NowInv
<1>8. ASSUME NEW d \in Admissions PROVE LookupInv(d)'
  <2>1. LookupInv(d) /\ lookups'[d] = lookups[d]
    BY <1>2 DEF CacheInv
  <2>2. ASSUME lookups[d] # Nothing, lookups[d].kind = "put"
        PROVE  held'[lookups[d].key][lookups[d].role] <= lookups[d].age
    <3>1. /\ lookups[d].key \in Keys /\ lookups[d].role \in KeyRoles
          /\ lookups[d].age \in 0 .. Latency
      BY <1>1, <2>2, OfLookup
    <3>2. held[lookups[d].key][lookups[d].role] <= lookups[d].age
      BY <2>1, <2>2 DEF LookupInv
    <3> QED
      BY <1>1, <1>4, <3>1, <3>2
  <2> QED
    BY <1>2, <2>1, <2>2 DEF LookupInv
<1> QED
  BY <1>1, <1>2, <1>5, <1>6, <1>7, <1>8 DEF CacheInv, EntitlementInv

\* A change of the features makes its value current; an override is never taken back.
LEMMA EntitleKeeps ==
  ASSUME CacheInv, NEW i \in Instances, NEW v \in BOOLEAN, AssignPlan(i, v) \/ PatchOverride(i, v)
  PROVE  CacheInv'
<1>1. /\ CacheTypeOK /\ PrincipalInv /\ EntitlementInv /\ NowInv
      /\ EntTtl \in Nat /\ Latency \in Nat /\ Long \in Nat
      /\ plan \in BOOLEAN /\ override \in BOOLEAN \cup {Nothing}
      /\ entitlements \in [Instances -> [on : BOOLEAN, left : 1 .. EntTtl] \cup {Nothing}]
      /\ effective \in [BOOLEAN -> 0 .. Long] /\ Nothing \notin BOOLEAN
  BY CacheConstants DEF CacheInv, CacheTypeOK
<1>2. PICK planned \in BOOLEAN, overridden \in BOOLEAN \cup {Nothing} :
        /\ Entitle(i, planned, overridden)
        /\ overridden = Nothing => override = Nothing
  BY <1>1 DEF AssignPlan, PatchOverride
<1> DEFINE now == Effective(planned, overridden)
<1>3. now \in BOOLEAN
  BY DEF Effective
<1>4. /\ plan' = planned /\ override' = overridden
      /\ entitlements' = [entitlements EXCEPT ![i] = Nothing]
      /\ effective' = [effective EXCEPT ![now] = 0]
      /\ UNCHANGED <<granted, principals, lookups, held>>
      /\ Effective(plan, override)' = now
  BY <1>2 DEF Entitle, Effective
<1> HIDE DEF now
<1>5. /\ effective' \in [BOOLEAN -> 0 .. Long] /\ effective'[now] = 0
      /\ \A b \in BOOLEAN : /\ effective'[b] \in Nat /\ effective[b] \in Nat
                            /\ effective'[b] <= effective[b]
  BY <1>1, <1>3, <1>4
<1>6. /\ entitlements' \in [Instances -> [on : BOOLEAN, left : 1 .. EntTtl] \cup {Nothing}]
      /\ \A j \in Instances : entitlements'[j] # Nothing =>
           entitlements[j] # Nothing /\ entitlements'[j] = entitlements[j]
  BY <1>1, <1>4
<1>7. CacheTypeOK'
  BY <1>1, <1>2, <1>4, <1>5, <1>6 DEF CacheTypeOK
<1>8. EntitlementInv'
  <2>1. ASSUME NEW j \in Instances, entitlements'[j] # Nothing
        PROVE  effective'[entitlements'[j].on] + entitlements'[j].left <= EntTtl
    <3>1. entitlements[j] # Nothing /\ entitlements'[j] = entitlements[j]
      BY <1>6, <2>1
    <3>2. entitlements[j].on \in BOOLEAN /\ entitlements[j].left \in 1 .. EntTtl
      BY <1>1, <3>1, OfCached
    <3>3. effective[entitlements[j].on] + entitlements[j].left <= EntTtl
      BY <1>1, <3>1 DEF EntitlementInv
    <3> QED
      BY <1>1, <1>5, <3>1, <3>2, <3>3
  <2> QED
    BY <2>1 DEF EntitlementInv
<1>9. NowInv'
  BY <1>1, <1>4, <1>5 DEF NowInv
<1>10. ASSUME NEW d \in Admissions PROVE LookupInv(d)'
  <2>1. LookupInv(d) /\ lookups'[d] = lookups[d]
    BY <1>4 DEF CacheInv
  <2>2. ASSUME lookups[d] # Nothing, lookups[d].kind \in {"override", "store"},
               effective[lookups[d].on] <= lookups[d].age
        PROVE  effective'[lookups[d].on] <= lookups[d].age
    <3>1. lookups[d].on \in BOOLEAN /\ lookups[d].age \in 0 .. Latency
      BY <1>1, <2>2, OfLookup
    <3> QED
      BY <1>1, <1>5, <2>2, <3>1
  <2>3. override' = Nothing => override = Nothing
    BY <1>2, <1>4
  <2> QED
    BY <1>4, <2>1, <2>2, <2>3 DEF LookupInv
<1> QED
  BY <1>1, <1>4, <1>7, <1>8, <1>9, <1>10 DEF CacheInv, PrincipalInv

\* A restart forgets what the instance had.
LEMMA RestartKeeps ==
  ASSUME CacheInv, NEW i \in Instances, Restart(i)
  PROVE  CacheInv'
<1>1. /\ CacheTypeOK /\ PrincipalInv /\ EntitlementInv /\ NowInv
      /\ principals \in [Instances -> [Keys -> [role : KeyRoles, left : 1 .. AuthTtl] \cup {Nothing}]]
      /\ entitlements \in [Instances -> [on : BOOLEAN, left : 1 .. EntTtl] \cup {Nothing}]
      /\ lookups \in [Admissions -> Lookups \cup {Nothing}]
  BY DEF CacheInv, CacheTypeOK
<1>2. /\ principals' = [principals EXCEPT ![i] = [k \in Keys |-> Nothing]]
      /\ entitlements' = [entitlements EXCEPT ![i] = Nothing]
      /\ lookups' = [c \in Admissions |-> IF lookups[c] # Nothing /\ lookups[c].inst = i THEN Nothing
                                          ELSE lookups[c]]
      /\ UNCHANGED <<granted, plan, override, held, effective>>
  BY DEF Restart, database
<1>3. /\ principals' \in [Instances -> [Keys -> [role : KeyRoles, left : 1 .. AuthTtl] \cup {Nothing}]]
      /\ \A j \in Instances, q \in Keys :
           principals'[j][q] # Nothing => principals'[j][q] = principals[j][q]
  BY <1>1, <1>2
<1>4. /\ entitlements' \in [Instances -> [on : BOOLEAN, left : 1 .. EntTtl] \cup {Nothing}]
      /\ \A j \in Instances : entitlements'[j] # Nothing => entitlements'[j] = entitlements[j]
  BY <1>1, <1>2
<1>5. /\ lookups' \in [Admissions -> Lookups \cup {Nothing}]
      /\ \A c \in Admissions : lookups'[c] # Nothing => lookups'[c] = lookups[c]
  BY <1>1, <1>2
<1>6. CacheTypeOK'
  BY <1>1, <1>2, <1>3, <1>4, <1>5 DEF CacheTypeOK
<1>7. PrincipalInv' /\ EntitlementInv'
  BY <1>1, <1>2, <1>3, <1>4 DEF PrincipalInv, EntitlementInv
<1>8. NowInv'
  BY <1>1, <1>2 DEF NowInv
<1>9. ASSUME NEW c \in Admissions PROVE LookupInv(c)'
  BY <1>2, <1>5 DEF CacheInv, LookupInv
<1> QED
  BY <1>6, <1>7, <1>8, <1>9 DEF CacheInv

\* A tick ages what is known and shortens what is left, and an entry ends in time.
LEMMA TickKeeps ==
  ASSUME CacheInv, Tick
  PROVE  CacheInv'
<1>1. /\ CacheTypeOK /\ PrincipalInv /\ EntitlementInv /\ NowInv
      /\ AuthTtl \in Nat /\ EntTtl \in Nat /\ Latency \in Nat /\ Long \in Nat
      /\ granted \in [Keys -> KeyRoles \cup {Nothing}]
      /\ plan \in BOOLEAN /\ override \in BOOLEAN \cup {Nothing}
      /\ held \in [Keys -> [KeyRoles -> 0 .. Long]] /\ effective \in [BOOLEAN -> 0 .. Long]
      /\ Nothing \notin KeyRoles
      /\ Nothing \notin [role : KeyRoles, left : 1 .. AuthTtl]
      /\ Nothing \notin [on : BOOLEAN, left : 1 .. EntTtl] /\ Nothing \notin Lookups
  BY CacheConstants DEF CacheInv, CacheTypeOK
<1>2. /\ \A c \in Admissions : lookups[c] # Nothing => lookups[c].age < Latency
      /\ principals' = [i \in Instances |-> [k \in Keys |-> Aged(principals[i][k])]]
      /\ entitlements' = [i \in Instances |-> Aged(entitlements[i])]
      /\ lookups' = [c \in Admissions |-> IF lookups[c] = Nothing THEN Nothing
                                          ELSE [lookups[c] EXCEPT !.age = @ + 1]]
      /\ held' = [k \in Keys |-> [r \in KeyRoles |-> IF granted[k] = r THEN 0 ELSE Older(held[k][r])]]
      /\ effective' = [v \in BOOLEAN |-> IF Effective(plan, override) = v THEN 0
                                         ELSE Older(effective[v])]
      /\ granted' = granted /\ plan' = plan /\ override' = override
  BY DEF Tick, database
<1>3. \A k \in Keys, r \in KeyRoles :
         /\ held'[k][r] \in 0 .. Long /\ held'[k][r] <= held[k][r] + 1
         /\ held[k][r] \in Nat /\ held'[k][r] \in Nat
         /\ granted[k] = r => held'[k][r] = 0
  <2>1. ASSUME NEW k \in Keys, NEW r \in KeyRoles
        PROVE  /\ held'[k][r] \in 0 .. Long /\ held'[k][r] <= held[k][r] + 1
               /\ granted[k] = r => held'[k][r] = 0
    <3>1. held[k][r] \in 0 .. Long /\ held'[k][r] = IF granted[k] = r THEN 0 ELSE Older(held[k][r])
      BY <1>1, <1>2
    <3>2. Older(held[k][r]) \in 0 .. Long /\ Older(held[k][r]) <= held[k][r] + 1
      BY <3>1, OlderByOne
    <3> QED
      BY <1>1, <3>1, <3>2
  <2> QED
    BY <1>1, <2>1
<1>4. \A v \in BOOLEAN :
         /\ effective'[v] \in 0 .. Long /\ effective'[v] <= effective[v] + 1
         /\ effective[v] \in Nat /\ effective'[v] \in Nat
         /\ Effective(plan, override) = v => effective'[v] = 0
  <2>1. ASSUME NEW v \in BOOLEAN
        PROVE  /\ effective'[v] \in 0 .. Long /\ effective'[v] <= effective[v] + 1
               /\ Effective(plan, override) = v => effective'[v] = 0
    <3>1. effective[v] \in 0 .. Long
          /\ effective'[v] = IF Effective(plan, override) = v THEN 0 ELSE Older(effective[v])
      BY <1>1, <1>2
    <3>2. Older(effective[v]) \in 0 .. Long /\ Older(effective[v]) <= effective[v] + 1
      BY <3>1, OlderByOne
    <3> QED
      BY <1>1, <3>1, <3>2
  <2> QED
    BY <1>1, <2>1
<1>5. ASSUME NEW i \in Instances, NEW k \in Keys
      PROVE  /\ principals'[i][k] \in [role : KeyRoles, left : 1 .. AuthTtl] \cup {Nothing}
             /\ principals'[i][k] # Nothing =>
                  held'[k][principals'[i][k].role] + principals'[i][k].left <= AuthTtl + Latency
  <2>1. principals'[i][k] = Aged(principals[i][k])
    BY <1>2
  <2>2. CASE principals[i][k] = Nothing \/ principals[i][k].left = 1
    BY <2>1, <2>2 DEF Aged
  <2>3. CASE ~(principals[i][k] = Nothing \/ principals[i][k].left = 1)
    <3>1. /\ principals[i][k] \in [role : KeyRoles, left : 1 .. AuthTtl]
          /\ principals[i][k].role \in KeyRoles /\ principals[i][k].left \in 1 .. AuthTtl
      BY <1>1, <2>3, OfCached
    <3>2. principals'[i][k] = [principals[i][k] EXCEPT !.left = @ - 1]
      BY <2>1, <2>3 DEF Aged
    <3>3. principals[i][k].left - 1 \in 1 .. AuthTtl
      BY <1>1, <2>3, <3>1
    <3>4. /\ principals'[i][k] \in [role : KeyRoles, left : 1 .. AuthTtl]
          /\ principals'[i][k].role = principals[i][k].role
          /\ principals'[i][k].left = principals[i][k].left - 1
      BY <3>1, <3>2, <3>3
    <3>5. held[k][principals[i][k].role] + principals[i][k].left <= AuthTtl + Latency
      BY <1>1, <2>3 DEF PrincipalInv
    <3> QED
      BY <1>1, <1>3, <3>1, <3>4, <3>5
  <2> QED
    BY <2>2, <2>3
<1>6. ASSUME NEW i \in Instances
      PROVE  /\ entitlements'[i] \in [on : BOOLEAN, left : 1 .. EntTtl] \cup {Nothing}
             /\ entitlements'[i] # Nothing =>
                  effective'[entitlements'[i].on] + entitlements'[i].left <= EntTtl
  <2>1. entitlements'[i] = Aged(entitlements[i])
    BY <1>2
  <2>2. CASE entitlements[i] = Nothing \/ entitlements[i].left = 1
    BY <2>1, <2>2 DEF Aged
  <2>3. CASE ~(entitlements[i] = Nothing \/ entitlements[i].left = 1)
    <3>1. /\ entitlements[i] \in [on : BOOLEAN, left : 1 .. EntTtl]
          /\ entitlements[i].on \in BOOLEAN /\ entitlements[i].left \in 1 .. EntTtl
      BY <1>1, <2>3, OfCached
    <3>2. entitlements'[i] = [entitlements[i] EXCEPT !.left = @ - 1]
      BY <2>1, <2>3 DEF Aged
    <3>3. entitlements[i].left - 1 \in 1 .. EntTtl
      BY <1>1, <2>3, <3>1
    <3>4. /\ entitlements'[i] \in [on : BOOLEAN, left : 1 .. EntTtl]
          /\ entitlements'[i].on = entitlements[i].on
          /\ entitlements'[i].left = entitlements[i].left - 1
      BY <3>1, <3>2, <3>3
    <3>5. effective[entitlements[i].on] + entitlements[i].left <= EntTtl
      BY <1>1, <2>3 DEF EntitlementInv
    <3> QED
      BY <1>1, <1>4, <3>1, <3>4, <3>5
  <2> QED
    BY <2>2, <2>3
<1>7. ASSUME NEW c \in Admissions PROVE lookups'[c] \in Lookups \cup {Nothing} /\ LookupInv(c)'
  <2>1. CASE lookups[c] = Nothing
    BY <1>2, <2>1 DEF LookupInv
  <2>2. CASE lookups[c] # Nothing
    <3> DEFINE l == lookups[c]
    <3>1. /\ l \in Lookups /\ l.age \in 0 .. Latency /\ l.age < Latency
          /\ l.kind = "put" => l.key \in Keys /\ l.role \in KeyRoles
          /\ l.kind \in {"override", "store"} => l.on \in BOOLEAN
      BY <1>1, <1>2, <2>2, OfLookup
    <3>2. lookups'[c] = [l EXCEPT !.age = l.age + 1] /\ l.age + 1 \in 0 .. Latency
      BY <1>1, <1>2, <2>2, <3>1
    <3>3. LookupInv(c)
      BY DEF CacheInv
    <3> HIDE DEF l
    <3>4. /\ lookups'[c] \in Lookups /\ lookups'[c].kind = l.kind /\ lookups'[c].age = l.age + 1
          /\ l.kind = "put" => lookups'[c].key = l.key /\ lookups'[c].role = l.role
          /\ l.kind \in {"override", "store"} => lookups'[c].on = l.on
      BY <3>1, <3>2 DEF Lookups
    <3>5. ASSUME l.kind = "put"
          PROVE  held'[lookups'[c].key][lookups'[c].role] <= lookups'[c].age
      <4>1. held[l.key][l.role] <= l.age
        BY <2>2, <3>3, <3>5 DEF LookupInv, l
      <4> QED
        BY <1>1, <1>3, <3>1, <3>4, <3>5, <4>1
    <3>6. ASSUME l.kind = "store" \/ (l.kind = "override" /\ override = Nothing)
          PROVE  effective'[lookups'[c].on] <= lookups'[c].age
      <4>1. effective[l.on] <= l.age
        BY <2>2, <3>3, <3>6 DEF LookupInv, l
      <4> QED
        BY <1>1, <1>4, <3>1, <3>4, <3>6, <4>1
    <3> QED
      BY <1>2, <3>4, <3>5, <3>6 DEF LookupInv
  <2> QED
    BY <2>1, <2>2
<1>8. /\ principals' \in [Instances -> [Keys -> [role : KeyRoles, left : 1 .. AuthTtl] \cup {Nothing}]]
      /\ entitlements' \in [Instances -> [on : BOOLEAN, left : 1 .. EntTtl] \cup {Nothing}]
      /\ lookups' \in [Admissions -> Lookups \cup {Nothing}]
      /\ held' \in [Keys -> [KeyRoles -> 0 .. Long]] /\ effective' \in [BOOLEAN -> 0 .. Long]
  <2>1. principals' \in [Instances -> [Keys -> [role : KeyRoles, left : 1 .. AuthTtl] \cup {Nothing}]]
    <3>1. \A i \in Instances, k \in Keys :
            Aged(principals[i][k]) \in [role : KeyRoles, left : 1 .. AuthTtl] \cup {Nothing}
      BY <1>2, <1>5
    <3> QED
      BY <1>2, <3>1
  <2>2. entitlements' \in [Instances -> [on : BOOLEAN, left : 1 .. EntTtl] \cup {Nothing}]
    BY <1>2, <1>6
  <2>3. lookups' \in [Admissions -> Lookups \cup {Nothing}]
    BY <1>2, <1>7
  <2>4. held' \in [Keys -> [KeyRoles -> 0 .. Long]]
    <3> DEFINE age(k, r) == IF granted[k] = r THEN 0 ELSE Older(held[k][r])
    <3>1. held' = [k \in Keys |-> [r \in KeyRoles |-> age(k, r)]]
      BY <1>2
    <3>2. \A k \in Keys, r \in KeyRoles : age(k, r) = held'[k][r]
      BY <3>1
    <3>3. \A k \in Keys, r \in KeyRoles : age(k, r) \in 0 .. Long
      BY <1>3, <3>2
    <3> HIDE DEF age
    <3> QED
      BY <3>1, <3>3
  <2>5. effective' \in [BOOLEAN -> 0 .. Long]
    BY <1>2, <1>4
  <2> QED
    BY <2>1, <2>2, <2>3, <2>4, <2>5
<1>9. CacheTypeOK'
  BY <1>1, <1>2, <1>8 DEF CacheTypeOK
<1>10. PrincipalInv' /\ EntitlementInv'
  BY <1>5, <1>6 DEF PrincipalInv, EntitlementInv
<1>11. NowInv'
  <2>1. \A k \in Keys : granted[k] # Nothing => granted[k] \in KeyRoles
    BY <1>1
  <2>2. Effective(plan, override) \in BOOLEAN
    BY <1>1 DEF Effective
  <2>3. Effective(plan, override)' = Effective(plan, override)
    BY <1>2 DEF Effective
  <2> QED
    BY <1>2, <1>3, <1>4, <2>1, <2>2, <2>3 DEF NowInv
<1> QED
  BY <1>7, <1>9, <1>10, <1>11 DEF CacheInv

\* The caches begin empty, and every step of lookups, changes and time keeps the
\* invariant.
LEMMA CacheKeeps ==
  /\ CacheInit => CacheInv
  /\ CacheInv /\ [CacheNext]_cacheVars => CacheInv'
<1>1. ASSUME CacheInit PROVE CacheInv
  <2>1. /\ granted \in [Keys -> KeyRoles \cup {Nothing}] /\ plan \in BOOLEAN /\ override = Nothing
        /\ \A i \in Instances, k \in Keys : principals[i][k] = Nothing
        /\ \A i \in Instances : entitlements[i] = Nothing
        /\ \A c \in Admissions : lookups[c] = Nothing
        /\ held = [k \in Keys |-> [r \in KeyRoles |-> IF granted[k] = r THEN 0 ELSE Long]]
        /\ effective = [v \in BOOLEAN |-> IF plan = v THEN 0 ELSE Long]
    BY <1>1 DEF CacheInit
  <2>2. Long \in Nat /\ 0 \in 0 .. Long /\ Long \in 0 .. Long
    BY CacheConstants
  <2>3. CacheTypeOK
    <3>1. /\ principals \in [Instances -> [Keys -> [role : KeyRoles, left : 1 .. AuthTtl] \cup {Nothing}]]
          /\ entitlements \in [Instances -> [on : BOOLEAN, left : 1 .. EntTtl] \cup {Nothing}]
          /\ lookups \in [Admissions -> Lookups \cup {Nothing}]
      BY <1>1 DEF CacheInit
    <3>2. held \in [Keys -> [KeyRoles -> 0 .. Long]] /\ effective \in [BOOLEAN -> 0 .. Long]
      BY <2>1, <2>2
    <3> QED
      BY <2>1, <3>1, <3>2 DEF CacheTypeOK
  <2>4. PrincipalInv /\ EntitlementInv /\ \A c \in Admissions : LookupInv(c)
    BY <2>1 DEF PrincipalInv, EntitlementInv, LookupInv
  <2>5. NowInv
    BY <2>1 DEF NowInv, Effective
  <2> QED
    BY <2>3, <2>4, <2>5 DEF CacheInv
<1>2. ASSUME CacheInv, UNCHANGED cacheVars PROVE CacheInv'
  <2>1. UNCHANGED <<granted, plan, override, principals, entitlements, lookups, held, effective>>
    BY <1>2 DEF cacheVars
  <2>2. CacheTypeOK'
    BY <1>2, <2>1 DEF CacheInv, CacheTypeOK
  <2>3. PrincipalInv' /\ EntitlementInv' /\ NowInv' /\ \A c \in Admissions : LookupInv(c)'
    BY <1>2, <2>1 DEF CacheInv, PrincipalInv, EntitlementInv, NowInv, LookupInv
  <2> QED
    BY <2>2, <2>3 DEF CacheInv
<1> QED
  BY <1>1, <1>2, ReadsKeep, StoresKeep, RegrantKeeps, EntitleKeeps, TickKeeps, RestartKeeps
     DEF CacheNext, PrincipalNext, EntitlementNext

\* What the database, the caches and the lookups hold keeps its type.
THEOREM CacheTypeCorrect == CacheSpec => []CacheTypeOK
<1>1. CacheInv => CacheTypeOK
  BY DEF CacheInv
<1> QED
  BY <1>1, CacheKeeps, PTL DEF CacheSpec

\* A request goes on as a role only if its key had this role less than AuthTtl + Latency
\* ago, and a feature is answered on, or off, only if the tenant had it so less than
\* EntTtl ago, for any number of instances, keys and lookups.
THEOREM StalenessIsBounded == CacheSpec => []StaleBounded
<1>1. ASSUME CacheInv PROVE StaleBounded
  <2>1. /\ CacheTypeOK /\ PrincipalInv /\ EntitlementInv
        /\ AuthTtl \in Nat /\ EntTtl \in Nat /\ Latency \in Nat /\ Long \in Nat
        /\ held \in [Keys -> [KeyRoles -> 0 .. Long]] /\ effective \in [BOOLEAN -> 0 .. Long]
    BY <1>1, CacheConstants DEF CacheInv, CacheTypeOK
  <2>2. ASSUME NEW i \in Instances, NEW k \in Keys, principals[i][k] # Nothing
        PROVE  held[k][principals[i][k].role] < AuthTtl + Latency
    <3>1. principals[i][k].role \in KeyRoles /\ principals[i][k].left \in 1 .. AuthTtl
      BY <2>1, <2>2, OfCached
    <3>2. held[k][principals[i][k].role] + principals[i][k].left <= AuthTtl + Latency
      BY <2>1, <2>2 DEF PrincipalInv
    <3>3. held[k][principals[i][k].role] \in 0 .. Long
      BY <2>1, <3>1
    <3> QED
      BY <2>1, <3>1, <3>2, <3>3
  <2>3. ASSUME NEW i \in Instances, entitlements[i] # Nothing
        PROVE  effective[entitlements[i].on] < EntTtl
    <3>1. entitlements[i].on \in BOOLEAN /\ entitlements[i].left \in 1 .. EntTtl
      BY <2>1, <2>3, OfCached
    <3>2. effective[entitlements[i].on] + entitlements[i].left <= EntTtl
      BY <2>1, <2>3 DEF EntitlementInv
    <3>3. effective[entitlements[i].on] \in 0 .. Long
      BY <2>1, <3>1
    <3> QED
      BY <2>1, <3>1, <3>2, <3>3
  <2> QED
    BY <2>2, <2>3 DEF StaleBounded
<1> QED
  BY <1>1, CacheKeeps, PTL DEF CacheSpec

===============================================================================
