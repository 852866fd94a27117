------------------------------- MODULE Access -------------------------------
(***************************************************************************)
(* Who may do what: users and their sign-ins, sessions, environment grants, *)
(* the guards in front of every route, and the live stream.                *)
(*                                                                         *)
(* A guard reads the session, then the environment of the instance, then   *)
(* the grants, and only then the handler acts: every read is a statement   *)
(* of its own, and other requests, sign-ins and Entra change what was read *)
(* in between.  A request that is refused leaves no trace and is not a     *)
(* step.  One instance stands for the estate; passwords, cookies and CSRF  *)
(* tokens are right, since a wrong one is refused before anything is read. *)
(***************************************************************************)
EXTENDS Naturals, FiniteSets

CONSTANTS
    Users, Bootstrap,   \* people, and the bootstrap administrator
    InEntra,            \* the people with an account in Entra
    Memberships,        \* Entra groups and app roles, as membershipKey names them
    AppRoleMap(_),      \* RSAGENT_ENTRA_APP_ROLE_MAP: the role of an app role, or None
    DefaultRole,        \* RSAGENT_ENTRA_DEFAULT_ROLE, or None
    Claims,             \* what Entra may say of a person: sets of memberships
    RawTags, Normal(_), \* tags as typed, and as normaliseTag leaves them (None: blank)
    Asks(_),            \* what the requests of a browser ask for, see Op
    Slots, Flows,
    MaxSubscribers,     \* MAX_SUBSCRIBERS
    MaxSessions,        \* bound on sessions
    MaxChanges,         \* bound on administrators' changes
    MaxClaims,          \* bound on changes in Entra
    None

ROLES == {"Viewer", "Operator", "Editor", "Admin"}
Rank(role) == CHOOSE n \in 1..4 : role = <<"Viewer", "Operator", "Editor", "Admin">>[n]

PERMISSIONS ==
    [Viewer   |-> {"instance.read", "job.read", "history.read", "version.read"},
     Operator |-> {"job.toggle", "job.run"},
     Editor   |-> {"schedule.write", "job.write"},
     Admin    |-> {"operator.write", "command.approve", "worker.admin", "user.admin", "audit.read"}]

\* Each role has the permissions of the roles below it.
RoleHasPermission(role, permission) ==
    \E lower \in ROLES : Rank(lower) <= Rank(role) /\ permission \in PERMISSIONS[lower]

ESTATE_ONLY == {"worker.admin", "user.admin", "audit.read"}

ASSUME AccessAssumption ==
    /\ Bootstrap \in Users /\ InEntra \subseteq Users /\ Users \cap Memberships = {}
    /\ Claims \subseteq SUBSET Memberships /\ {} \in Claims
    /\ DefaultRole \in ROLES \cup {None}
    /\ \A m \in Memberships : AppRoleMap(m) \in ROLES \cup {None}
    /\ \A t \in RawTags : Normal(t) = None \/ Normal(Normal(t)) = Normal(t)
    /\ MaxSubscribers \in Nat /\ MaxSessions \in Nat /\ MaxChanges \in Nat /\ MaxClaims \in Nat

Tags == {Normal(t) : t \in RawTags} \ {None}
All == "*"

\* What the routes ask: a permission, and for an administrator's change its body.
Op == [kind : {"stream"}, permission : {"instance.read"}]
      \cup [kind : {"instance"}, permission : {"job.run", "command.approve"}]
      \cup [kind : {"role", "create"}, permission : {"user.admin"}, target : Users, role : ROLES]
      \cup [kind : {"disabled"}, permission : {"user.admin"}, target : Users, to : BOOLEAN]
      \cup [kind : {"grant"}, permission : {"user.admin"}, subject : Users \cup Memberships,
            tag : RawTags \cup {All}, role : ROLES]
      \cup [kind : {"ungrant"}, permission : {"user.admin"}, id : 1..MaxChanges]
      \cup [kind : {"retag"}, permission : {"worker.admin"}, tag : RawTags \cup {None}]

ASSUME AsksAssumption == \A r \in Slots : Asks(r) \subseteq Op

Principal == [user : Users, role : ROLES, groups : SUBSET Memberships]
Grant == [id : 1..MaxChanges, subject : Users \cup Memberships, tag : Tags \cup {All}, role : ROLES]
SessionIds == 1..MaxSessions

VARIABLES
    users,     \* the users table
    entra,     \* what Entra says of each person today
    signIn,    \* sign-ins under way
    sessions,  \* the sessions table
    tag,       \* the environment tag of the instance's configuration, or None
    grants,    \* environment_grants
    req,       \* requests under way
    changes, claimChanges,
    held       \* what was true at some moment of each request (history variable)

vars == <<users, entra, signIn, sessions, tag, grants, req, changes, claimChanges, held>>

Idle == [pc |-> "idle"]
NoUser == [provider |-> "none"]
Row(provider, role, groups, disabled) ==
    [provider |-> provider, role |-> role, groups |-> groups, disabled |-> disabled]

Exists(u) == users[u].provider # "none"
Enabled(u) == Exists(u) /\ ~users[u].disabled

-----------------------------------------------------------------------------
(* Rights: environments.ts.                                                *)

AppliesToSubject(grant, p) == grant.subject = p.user \/ grant.subject \in p.groups

AppliesToEnvironment(grant, env) ==
    \/ grant.tag = All
    \/ env # None /\ Normal(env) # None /\ Normal(grant.tag) = Normal(env)

\* The most privileged of some roles.
Highest(roles) == CHOOSE role \in roles : \A other \in roles : Rank(role) >= Rank(other)

EffectiveRole(p, gs, env) ==
    LET reaching == {grant \in gs : AppliesToSubject(grant, p) /\ AppliesToEnvironment(grant, env)} IN
    Highest({p.role} \cup {grant.role : grant \in reaching})

CanInEnvironment(p, gs, permission, env) ==
    \/ RoleHasPermission(p.role, permission)
    \/ permission \notin ESTATE_ONLY /\ RoleHasPermission(EffectiveRole(p, gs, env), permission)

-----------------------------------------------------------------------------
(* Sessions.                                                               *)

\* resolveSession: the user of a session that is neither expired nor revoked,
\* with the role and the memberships the user has now.
Resolves(s) == sessions[s].live /\ Enabled(sessions[s].user)
PrincipalOf(u) == [user |-> u, role |-> users[u].role, groups |-> users[u].groups]

CreateSession(u) ==
    \E s \in SessionIds :
        /\ sessions[s].user = None /\ \A t \in 1..(s - 1) : sessions[t].user # None
        /\ sessions' = [sessions EXCEPT ![s] = [user |-> u, live |-> TRUE]]

\* Sign-out deletes the row; a row whose time is over resolves no more and is pruned.
EndSession(s) ==
    /\ sessions[s].live
    /\ sessions' = [sessions EXCEPT ![s].live = FALSE]
    /\ UNCHANGED <<users, entra, signIn, tag, grants, req, changes, claimChanges>>

-----------------------------------------------------------------------------
(* Signing in.                                                             *)

\* A bound, not a guard of the code: no more sign-ins than session numbers are left.
Room == Cardinality({s \in SessionIds : sessions[s].user # None})
            + Cardinality({f \in Flows : signIn[f] # Idle}) < MaxSessions

\* authenticateLocal: the row is read before the password is hashed; what
\* happens to the user meanwhile is not looked at again.
AuthenticateLocal(f, u) ==
    /\ Room /\ signIn[f] = Idle
    /\ users[u].provider = "local" /\ ~users[u].disabled
    /\ signIn' = [signIn EXCEPT ![f] = [pc |-> "admitted", user |-> u, via |-> "local"]]
    /\ UNCHANGED <<users, entra, sessions, tag, grants, req, changes, claimChanges>>

BeginSignIn(f) ==
    /\ Room /\ signIn[f] = Idle
    /\ signIn' = [signIn EXCEPT ![f] = [pc |-> "away"]]
    /\ UNCHANGED <<users, entra, sessions, tag, grants, req, changes, claimChanges>>

\* The highest mapped app role, or the default.
ResolveRole(claims) ==
    LET mapped == {AppRoleMap(m) : m \in claims} \ {None} IN
    IF mapped = {} THEN DefaultRole
    ELSE Highest(mapped)

\* Whether another sign-in of the same person is under way, before its upsert.
Overlapped(f, u) ==
    \E other \in Flows \ {f} : signIn[other].pc = "profiled" /\ signIn[other].user = u

\* completeSignIn: the state is used up, the code exchanged, the claims read.
\* A sign-in that has been under way for too long, or whose exchange fails, ends.
CompleteSignIn(f, u) ==
    /\ signIn[f].pc = "away"
    /\ LET role == ResolveRole(entra[u]) IN
       signIn' = [g \in Flows |->
           IF g = f
           THEN IF role = None THEN Idle
                ELSE [pc |-> "profiled", user |-> u, role |-> role, groups |-> entra[u],
                      alone |-> ~Overlapped(f, u)]
           ELSE IF signIn[g].pc \in {"profiled", "provisioned"} /\ signIn[g].user = u
           THEN [signIn[g] EXCEPT !.alone = FALSE] ELSE signIn[g]]
    /\ UNCHANGED <<users, entra, sessions, tag, grants, req, changes, claimChanges>>

SignInFails(f) ==
    /\ signIn[f].pc = "away"
    /\ signIn' = [signIn EXCEPT ![f] = Idle]
    /\ UNCHANGED <<users, entra, sessions, tag, grants, req, changes, claimChanges>>

\* upsertEntraUser, on the object id.  A local user of the same name makes the
\* insert fail; a disabled user is refused, but after the row is written.
UpsertEntraUser(f) ==
    /\ signIn[f].pc = "profiled"
    /\ LET u == signIn[f].user IN
       IF users[u].provider = "local"
       THEN signIn' = [signIn EXCEPT ![f] = Idle] /\ UNCHANGED users
       ELSE /\ users' = [users EXCEPT ![u] =
                    Row("entra", signIn[f].role, signIn[f].groups, Exists(u) /\ users[u].disabled)]
            /\ signIn' = [signIn EXCEPT ![f] =
                    IF Exists(u) /\ users[u].disabled THEN Idle ELSE [@ EXCEPT !.pc = "provisioned"]]
    /\ UNCHANGED <<entra, sessions, tag, grants, req, changes, claimChanges>>

FinishSignIn(f) ==
    /\ signIn[f].pc \in {"admitted", "provisioned"}
    /\ CreateSession(signIn[f].user)
    /\ signIn' = [signIn EXCEPT ![f] = Idle]
    /\ UNCHANGED <<users, entra, tag, grants, req, changes, claimChanges>>

\* External: a person's groups or app roles change in Entra.
EntraChanges(u, claims) ==
    /\ claimChanges < MaxClaims /\ claims # entra[u]
    /\ entra' = [entra EXCEPT ![u] = claims] /\ claimChanges' = claimChanges + 1
    /\ UNCHANGED <<users, signIn, sessions, tag, grants, req, changes>>

-----------------------------------------------------------------------------
(* Requests: the guard, then the handler.                                  *)

IsChange(op) == op.kind \notin {"instance", "stream"}
InFlight == {r \in Slots : req[r].pc # "idle" /\ IsChange(req[r].op)}

Step(r, next) == req' = [req EXCEPT ![r] = next]
NothingElse == UNCHANGED <<users, entra, signIn, sessions, tag, grants, changes, claimChanges>>

\* requirePermission: the base role alone decides a route about the estate.
EstateByGrant(p, op) == RoleHasPermission(EffectiveRole(p, grants, All), op.permission)
EstateAllowed(p, op) == RoleHasPermission(p.role, op.permission)

\* authenticate, and what requirePermission says at once.
Authenticate(r, s, op) ==
    /\ req[r].pc = "idle" /\ Resolves(s)
    /\ IsChange(op) => changes + Cardinality(InFlight) < MaxChanges
    /\ op.kind = "ungrant" => \E grant \in grants : grant.id = op.id
    /\ LET p == PrincipalOf(sessions[s].user) IN
       \/ /\ op.kind = "instance"
          /\ Step(r, [pc |-> "authenticated", op |-> op, session |-> s, p |-> p])
       \/ /\ op.kind # "instance" /\ EstateAllowed(p, op)
          /\ Step(r, [pc |-> "allowed", op |-> op, session |-> s, p |-> p])
    /\ NothingElse

\* requireInstancePermission: the environment is read whatever the role; an
\* instance that is not found, or a read that fails, is never "untagged".
ReadEnvironment(r) ==
    /\ req[r].pc = "authenticated"
    /\ \E found \in BOOLEAN :
          Step(r, IF RoleHasPermission(req[r].p.role, req[r].op.permission)
                  THEN [req[r] EXCEPT !.pc = "allowed"]
                  ELSE IF ~found THEN Idle
                  ELSE [pc |-> "tagged", op |-> req[r].op, session |-> req[r].session,
                        p |-> req[r].p, env |-> tag])
    /\ NothingElse

ReadGrants(r) ==
    /\ req[r].pc = "tagged"
    /\ Step(r, IF CanInEnvironment(req[r].p, grants, req[r].op.permission, req[r].env)
               THEN [pc |-> "allowed", op |-> req[r].op, session |-> req[r].session, p |-> req[r].p]
               ELSE Idle)
    /\ NothingElse

\* The handlers.  A refusal inside one (the user exists already, the role comes
\* from Entra, one's own account, a blank tag) changes nothing.
SetAnyRole(op) ==
    users' = IF Exists(op.target)
             THEN [users EXCEPT ![op.target].role = op.role] ELSE users

SetUserRole(op) ==
    users' = IF users[op.target].provider = "local"
             THEN [users EXCEPT ![op.target].role = op.role] ELSE users

CreateLocalUser(op) ==
    users' = IF Exists(op.target) THEN users
             ELSE [users EXCEPT ![op.target] = Row("local", op.role, {}, FALSE)]

SetUserDisabled(op, self) ==
    users' = IF ~Exists(op.target) \/ (op.to /\ op.target = self) THEN users
             ELSE [users EXCEPT ![op.target].disabled = op.to]

\* normaliseTag, which leaves the wildcard as it is.
NormaliseTag(typed) == IF typed = All THEN All ELSE Normal(typed)

\* Without the unique key on subject and tag.
InsertGrant(op) ==
    LET normal == NormaliseTag(op.tag) IN
    grants' = IF normal = None \/ (op.subject \in Users /\ ~Exists(op.subject)) THEN grants
              ELSE grants \cup {[id |-> changes + 1, subject |-> op.subject,
                                 tag |-> normal, role |-> op.role]}

\* One row per subject and normalised tag: a second save changes the role.
SaveGrant(op) ==
    LET normal == NormaliseTag(op.tag)
        same == {grant \in grants : grant.subject = op.subject /\ grant.tag = normal}
    IN  grants' = IF normal = None \/ (op.subject \in Users /\ ~Exists(op.subject)) THEN grants
                  ELSE IF same = {}
                  THEN grants \cup {[id |-> changes + 1, subject |-> op.subject,
                                     tag |-> normal, role |-> op.role]}
                  ELSE (grants \ same) \cup {[grant EXCEPT !.role = op.role] : grant \in same}

DeleteGrant(op) == grants' = {grant \in grants : grant.id # op.id}

\* The administrator edits the instance's configuration (see InstanceConfig).
Retag(op) == tag' = op.tag

Handle(op, self) ==
    \/ op.kind = "role" /\ SetUserRole(op) /\ UNCHANGED <<tag, grants>>
    \/ op.kind = "create" /\ CreateLocalUser(op) /\ UNCHANGED <<tag, grants>>
    \/ op.kind = "disabled" /\ SetUserDisabled(op, self) /\ UNCHANGED <<tag, grants>>
    \/ op.kind = "grant" /\ SaveGrant(op) /\ UNCHANGED <<users, tag>>
    \/ op.kind = "ungrant" /\ DeleteGrant(op) /\ UNCHANGED <<users, tag>>
    \/ op.kind = "retag" /\ Retag(op) /\ UNCHANGED <<users, grants>>
    \/ op.kind = "instance" /\ UNCHANGED <<users, tag, grants>>

Act(r) ==
    /\ req[r].pc = "allowed" /\ req[r].op.kind # "stream"
    /\ Handle(req[r].op, req[r].p.user)
    /\ changes' = IF IsChange(req[r].op) THEN changes + 1 ELSE changes
    /\ Step(r, Idle)
    /\ UNCHANGED <<entra, signIn, sessions, claimChanges>>

-----------------------------------------------------------------------------
(* The live stream, a request that stays open.                              *)

\* Whether the session may still read: sseSessionStillAuthorised.
StillAuthorised(s) == Resolves(s) /\ RoleHasPermission(users[sessions[s].user].role, "instance.read")
StillLive(s) == sessions[s].live

Subscribers == {r \in Slots : req[r].pc = "open"}

\* Subscribed and hijacked, or 503 when the broker is full.
Subscribe(r) ==
    /\ req[r].pc = "allowed" /\ req[r].op.kind = "stream"
    /\ Step(r, IF Cardinality(Subscribers) >= MaxSubscribers THEN Idle
               ELSE [pc |-> "open", op |-> req[r].op, session |-> req[r].session])
    /\ NothingElse

\* The browser leaves.  The close handler is there once the stream is open: a
\* browser that leaves before that is not heard, like one that stays.
BrowserLeaves(r) == req[r].pc = "open" /\ Step(r, Idle) /\ NothingElse

\* A recheck that looks at the session row only.
KeepaliveBySession(r) ==
    /\ req[r].pc = "open" /\ ~StillLive(req[r].session)
    /\ Step(r, Idle) /\ NothingElse

\* The keepalive timer asks again, and ends a stream that may no longer read.
Keepalive(r) ==
    /\ req[r].pc = "open" /\ ~StillAuthorised(req[r].session)
    /\ Step(r, Idle) /\ NothingElse

-----------------------------------------------------------------------------
Init ==
    /\ users = [u \in Users |-> IF u = Bootstrap THEN Row("local", "Admin", {}, FALSE) ELSE NoUser]
    /\ entra = [u \in InEntra |-> {}]
    /\ signIn = [f \in Flows |-> Idle]
    /\ sessions = [s \in SessionIds |-> [user |-> None, live |-> FALSE]]
    /\ tag = None /\ grants = {}
    /\ req = [r \in Slots |-> Idle]
    /\ changes = 0 /\ claimChanges = 0
    /\ held = [r \in Slots |-> [principals |-> {}, tags |-> {}, grants |-> {}]]

\* What is true now that a request may rest on: who is asking, if the session
\* stands and the user is enabled, the instance's tag, and the grants.
Facts(r) ==
    LET s == req[r].session IN
    [principals |-> IF sessions[s].live /\ Enabled(sessions[s].user)
                    THEN {PrincipalOf(sessions[s].user)} ELSE {},
     tags |-> {tag}, grants |-> grants]

\* The facts of every moment of a request, from its first read to the guard's verdict.
Remember ==
    held' = [r \in Slots |->
        IF req'[r].pc \in {"idle", "open"} THEN [principals |-> {}, tags |-> {}, grants |-> {}]
        ELSE IF req[r].pc = "idle" THEN Facts(r)'
        ELSE IF req[r].pc = "allowed" THEN held[r]
        ELSE LET now == Facts(r)' IN
             [principals |-> held[r].principals \cup now.principals,
              tags |-> held[r].tags \cup now.tags, grants |-> held[r].grants \cup now.grants]]

SignInStep ==
    \E f \in Flows :
        \/ BeginSignIn(f) \/ SignInFails(f) \/ UpsertEntraUser(f) \/ FinishSignIn(f)
        \/ \E u \in Users : AuthenticateLocal(f, u)
        \/ \E u \in InEntra : CompleteSignIn(f, u)

RequestStep ==
    \E r \in Slots :
        \/ \E s \in SessionIds, op \in Asks(r) : Authenticate(r, s, op)
        \/ ReadEnvironment(r) \/ ReadGrants(r) \/ Act(r)

StreamStep == \E r \in Slots : Subscribe(r) \/ BrowserLeaves(r) \/ Keepalive(r)

Next ==
    /\ \/ SignInStep \/ RequestStep \/ StreamStep
       \/ \E s \in SessionIds : EndSession(s)
       \/ \E u \in InEntra, claims \in Claims : EntraChanges(u, claims)
    /\ Remember

Spec == Init /\ [][Next]_vars
\* The keepalive timer of an open stream goes on firing.
FairSpec == Spec /\ \A r \in Slots : WF_vars(Keepalive(r) /\ Remember)

-----------------------------------------------------------------------------
(* Properties.                                                             *)

\* Every variable keeps the shape its table or record has; a stored grant's
\* tag is normalised (saveGrant), so that no row can be dead on arrival.
TypeOK ==
    /\ users \in [Users -> {NoUser} \cup
           [provider : {"local", "entra"}, role : ROLES, groups : SUBSET Memberships, disabled : BOOLEAN]]
    /\ entra \in [InEntra -> Claims]
    /\ \A f \in Flows :
          \/ signIn[f] \in {Idle, [pc |-> "away"]}
          \/ signIn[f] \in [pc : {"admitted"}, user : Users, via : {"local"}]
          \/ signIn[f] \in [pc : {"profiled", "provisioned"}, user : Users, role : ROLES,
                            groups : Claims, alone : BOOLEAN]
    /\ sessions \in [SessionIds -> [user : Users \cup {None}, live : BOOLEAN]]
    /\ tag \in RawTags \cup {None} /\ grants \subseteq Grant
    /\ \A r \in Slots :
          \/ req[r] = Idle
          \/ req[r] \in [pc : {"open"}, op : Asks(r), session : SessionIds]
          \/ req[r] \in [pc : {"authenticated", "allowed"}, op : Asks(r), session : SessionIds, p : Principal]
          \/ req[r] \in [pc : {"tagged"}, op : Asks(r), session : SessionIds, p : Principal,
                         env : RawTags \cup {None}]
    /\ Cardinality(Subscribers) <= MaxSubscribers
    /\ changes \in 0..MaxChanges /\ claimChanges \in 0..MaxClaims

\* A grant gives a permission: said once more, grant by grant, without the
\* resolver's highest role.
Gives(grant, p, env, permission) ==
    /\ permission \notin ESTATE_ONLY /\ RoleHasPermission(grant.role, permission)
    /\ grant.subject \in {p.user} \cup p.groups
    /\ grant.tag = All \/ (env # None /\ grant.tag = Normal(env))

\* "Disable the user or delete the grant; both take effect on the next request"
\* (docs/security.md): what a request is allowed to do rests only on facts that
\* held at some moment since it began.  Somebody was signed in and enabled whose
\* base role had the permission, or to whom a grant of that time, for an
\* environment the instance had in that time, gave it; no grant ever gives one
\* of the permissions that concern the whole estate.
ActsOnRightsHeld ==
    \A r \in Slots : req[r].pc = "allowed" =>
        \E p \in held[r].principals :
            \/ RoleHasPermission(p.role, req[r].op.permission)
            \/ \E env \in held[r].tags, grant \in held[r].grants :
                  req[r].op.kind = "instance" /\ Gives(grant, p, env, req[r].op.permission)

\* However saves and deletions of grants overlap, there is one answer to what a
\* subject's grant in an environment is, and one row under an id (schema.ts: "two
\* rows would mean two answers").
OneGrantPerEnvironment ==
    \A g, h \in grants : g.id = h.id \/ (g.subject = h.subject /\ g.tag = h.tag) => g = h

\* "Revoking a role in Entra takes effect at the user's next sign-in"
\* (docs/authentication.md): when a sign-in that no other sign-in of the same
\* person overlapped is about to be given its session, the user's row says what
\* Entra said in it, whatever administrators did meanwhile.
SignInSticks ==
    \A f \in Flows : signIn[f].pc = "provisioned" /\ signIn[f].alone =>
        LET row == users[signIn[f].user] IN
        row.provider = "entra" /\ row.role = signIn[f].role /\ row.groups = signIn[f].groups

\* A stream whose session was ended or whose user was disabled is closed by the
\* keepalive timer, unless the user is enabled again first (app.ts: "the lag
\* between revocation and the stream actually closing is bounded").
RevokedStreamEnds ==
    \A r \in Slots :
        (req[r].pc = "open" /\ ~StillAuthorised(req[r].session))
            ~> (req[r].pc # "open" \/ StillAuthorised(req[r].session))

=============================================================================
