---------------------------- MODULE AccessProofs ----------------------------
(***************************************************************************)
(* Proofs about Access: what a request rests on, environment grants and    *)
(* Entra sign-ins, for any number of people, requests, sign-ins and        *)
(* changes.                                                                *)
(***************************************************************************)
EXTENDS Access, FiniteSetTheorems, TLAPS

-----------------------------------------------------------------------------
(* The role hierarchy: ranks, the highest of some roles, and the role that  *)
(* Entra's claims give.                                                     *)
LEMMA Ranks == Rank("Viewer") = 1 /\ Rank("Operator") = 2 /\ Rank("Editor") = 3 /\ Rank("Admin") = 4
BY DEF Rank

LEMMA HighestOf ==
    ASSUME NEW roles \in SUBSET ROLES, roles # {}
    PROVE  Highest(roles) \in roles /\ \A other \in roles : Rank(Highest(roles)) >= Rank(other)
<1>1. \A role \in roles : role \in {"Viewer", "Operator", "Editor", "Admin"}
  BY DEF ROLES
<1>2. \E role \in roles : \A other \in roles : Rank(role) >= Rank(other)
  <2>1. CASE "Admin" \in roles
    BY <1>1, <2>1, Ranks
  <2>2. CASE "Admin" \notin roles /\ "Editor" \in roles
    BY <1>1, <2>2, Ranks
  <2>3. CASE "Admin" \notin roles /\ "Editor" \notin roles /\ "Operator" \in roles
    BY <1>1, <2>3, Ranks
  <2>4. CASE "Admin" \notin roles /\ "Editor" \notin roles /\ "Operator" \notin roles
    BY <1>1, <2>4, Ranks
  <2> QED
    BY <2>1, <2>2, <2>3, <2>4
<1> QED
  BY <1>2 DEF Highest

LEMMA Resolved ==
    ASSUME NEW claims \in Claims
    PROVE  ResolveRole(claims) \in ROLES \cup {None}
<1> DEFINE mapped == {AppRoleMap(m) : m \in claims} \ {None}
<1>1. mapped \in SUBSET ROLES
  BY AccessAssumption
<1>2. ResolveRole(claims) = IF mapped = {} THEN DefaultRole ELSE Highest(mapped)
  BY DEF ResolveRole
<1> HIDE DEF mapped
<1> QED
  BY <1>1, <1>2, HighestOf, AccessAssumption

-----------------------------------------------------------------------------
(* The shapes of the tables and of what is under way.                       *)
Rows == [provider : {"local", "entra"}, role : ROLES, groups : SUBSET Memberships, disabled : BOOLEAN]
Profiles == [pc : {"profiled", "provisioned"}, user : Users, role : ROLES, groups : Claims, alone : BOOLEAN]
Admitted == [pc : {"admitted"}, user : Users, via : {"local"}]
SignIns == {Idle, [pc |-> "away"]} \cup Admitted \cup Profiles
Grants == [id : Nat \ {0}, subject : Users \cup Memberships, tag : Tags \cup {All}, role : ROLES]

Streams(r) == [pc : {"open"}, op : Asks(r), session : SessionIds]
Guarded(r) == [pc : {"authenticated", "allowed"}, op : Asks(r), session : SessionIds, p : Principal]
Tagged(r) == [pc : {"tagged"}, op : Asks(r), session : SessionIds, p : Principal, env : RawTags \cup {None}]
Requests(r) == {Idle} \cup Streams(r) \cup Guarded(r) \cup Tagged(r)

SignShape ==
    /\ users \in [Users -> {NoUser} \cup Rows]
    /\ entra \in [InEntra -> Claims]
    /\ signIn \in [Flows -> SignIns]
\* A session that stands is somebody's.
SessionShape ==
    /\ sessions \in [SessionIds -> [user : Users \cup {None}, live : BOOLEAN]]
    /\ \A s \in SessionIds : sessions[s].live => sessions[s].user \in Users
Asked == DOMAIN req = Slots /\ \A r \in Slots : req[r] \in Requests(r)
GrantShape == grants \subseteq Grants /\ changes \in Nat
TagShape == tag \in RawTags \cup {None}
Shapes == SignShape /\ SessionShape /\ Asked /\ GrantShape /\ TagShape

(* What is under way, by its place.                                         *)
LEMMA RequestOf ==
    ASSUME Asked, NEW r \in Slots
    PROVE  /\ req[r].pc \in {"authenticated", "allowed"} => req[r] \in Guarded(r)
           /\ req[r].pc = "tagged" => req[r] \in Tagged(r)
           /\ req[r].pc = "open" => req[r] \in Streams(r)
           /\ req[r].pc \in {"idle", "open", "authenticated", "allowed", "tagged"}
           /\ req[r].pc # "idle" => req[r].op \in Op
<1>1. req[r] \in Requests(r) /\ Asks(r) \subseteq Op
  BY AsksAssumption DEF Asked
<1>2. Idle.pc = "idle"
  BY DEF Idle
<1>3. CASE req[r] = Idle
  BY <1>2, <1>3
<1>4. CASE req[r] \in Streams(r)
  BY <1>1, <1>4 DEF Streams
<1>5. CASE req[r] \in Guarded(r)
  BY <1>1, <1>5 DEF Guarded
<1>6. CASE req[r] \in Tagged(r)
  BY <1>1, <1>6 DEF Tagged
<1> QED
  BY <1>1, <1>3, <1>4, <1>5, <1>6 DEF Requests

LEMMA UserOf ==
    ASSUME SignShape, NEW u \in Users
    PROVE  /\ users[u] = NoUser \/ users[u] \in Rows
           /\ Exists(u) <=> users[u] \in Rows
           /\ users[u].provider = "local" => users[u] \in Rows
<1>1. users[u] \in {NoUser} \cup Rows
  BY DEF SignShape
<1>2. NoUser.provider = "none"
  BY DEF NoUser
<1>3. \A row \in Rows : row.provider \in {"local", "entra"}
  BY DEF Rows
<1> QED
  BY <1>1, <1>2, <1>3 DEF Exists

-----------------------------------------------------------------------------
(* What a guard or a stream does: it reads, and one request moves on: it   *)
(* comes in, its base role is enough, the environment is read, a grant is   *)
(* enough, the stream opens, or it is over.                                 *)
Enters(r, op, p) ==
    /\ req[r].pc = "idle" /\ p \in Principal /\ op \in Asks(r)
    /\ IsChange(op) => changes + Cardinality(InFlight) < MaxChanges
    /\ \E s \in SessionIds :
          /\ sessions[s].live /\ Enabled(sessions[s].user) /\ p = PrincipalOf(sessions[s].user)
          /\ \/ /\ op.kind = "instance"
                /\ Step(r, [pc |-> "authenticated", op |-> op, session |-> s, p |-> p])
             \/ /\ op.kind # "instance" /\ RoleHasPermission(p.role, op.permission)
                /\ Step(r, [pc |-> "allowed", op |-> op, session |-> s, p |-> p])
ByRole(r) ==
    /\ req[r].pc = "authenticated" /\ RoleHasPermission(req[r].p.role, req[r].op.permission)
    /\ Step(r, [req[r] EXCEPT !.pc = "allowed"])
Looks(r) ==
    /\ req[r].pc = "authenticated"
    /\ Step(r, [pc |-> "tagged", op |-> req[r].op, session |-> req[r].session, p |-> req[r].p, env |-> tag])
ByGrant(r) ==
    /\ req[r].pc = "tagged" /\ CanInEnvironment(req[r].p, grants, req[r].op.permission, req[r].env)
    /\ Step(r, [pc |-> "allowed", op |-> req[r].op, session |-> req[r].session, p |-> req[r].p])
Opens(r) ==
    /\ req[r].pc = "allowed" /\ ~(Cardinality(Subscribers) >= MaxSubscribers)
    /\ Step(r, [pc |-> "open", op |-> req[r].op, session |-> req[r].session])
Ends(r) == req[r].pc # "idle" /\ Step(r, Idle)
Moves(r) ==
    \/ \E op, p : Enters(r, op, p)
    \/ ByRole(r) \/ Looks(r) \/ ByGrant(r) \/ Opens(r) \/ Ends(r)

LEMMA PrincipalShape ==
    ASSUME SignShape, NEW u \in Users, Enabled(u)
    PROVE  PrincipalOf(u) \in Principal
BY UserOf DEF Enabled, PrincipalOf, Principal, Rows

LEMMA EntersRight ==
    ASSUME Shapes, NEW r \in Slots, NEW s \in SessionIds, NEW op \in Asks(r), Authenticate(r, s, op)
    PROVE  NothingElse /\ Enters(r, op, PrincipalOf(sessions[s].user))
<1> DEFINE p == PrincipalOf(sessions[s].user)
<1>1. sessions[s].live /\ Enabled(sessions[s].user) /\ sessions[s].user \in Users
  BY DEF Authenticate, Resolves, Shapes, SessionShape
<1>2. p \in Principal
  BY <1>1, PrincipalShape DEF Shapes
<1>3. /\ req[r].pc = "idle" /\ NothingElse
      /\ IsChange(op) => changes + Cardinality(InFlight) < MaxChanges
      /\ \/ /\ op.kind = "instance"
            /\ Step(r, [pc |-> "authenticated", op |-> op, session |-> s, p |-> p])
         \/ /\ op.kind # "instance" /\ RoleHasPermission(p.role, op.permission)
            /\ Step(r, [pc |-> "allowed", op |-> op, session |-> s, p |-> p])
  BY DEF Authenticate, EstateAllowed
<1>4. p = PrincipalOf(sessions[s].user)
  OBVIOUS
<1> HIDE DEF p
<1>5. Enters(r, op, p)
  BY <1>1, <1>2, <1>3, <1>4 DEF Enters
<1> QED
  BY <1>3, <1>4, <1>5

Reads(r) ==
    \/ \E s \in SessionIds, op \in Asks(r) : Authenticate(r, s, op)
    \/ ReadEnvironment(r) \/ ReadGrants(r) \/ Subscribe(r) \/ BrowserLeaves(r) \/ Keepalive(r)

LEMMA ReadsMove ==
    ASSUME Shapes, NEW r \in Slots, Reads(r)
    PROVE  NothingElse /\ Moves(r)
<1>1. ASSUME NEW s \in SessionIds, NEW op \in Asks(r), Authenticate(r, s, op)
      PROVE  NothingElse /\ Moves(r)
  BY <1>1, EntersRight DEF Moves
<1>2. CASE ReadEnvironment(r)
  BY <1>2 DEF ReadEnvironment, Moves, ByRole, Looks, Ends
<1>3. CASE ReadGrants(r)
  BY <1>3 DEF ReadGrants, Moves, ByGrant, Ends
<1>4. CASE Subscribe(r)
  BY <1>4 DEF Subscribe, Moves, Opens, Ends
<1>5. CASE BrowserLeaves(r) \/ Keepalive(r)
  BY <1>5 DEF BrowserLeaves, Keepalive, Moves, Ends
<1> QED
  BY <1>1, <1>2, <1>3, <1>4, <1>5 DEF Reads

(* Where a request may be after a move, and what it carries on.             *)
LEMMA MovesOn ==
    ASSUME Asked, tag \in RawTags \cup {None}, NEW r \in Slots, Moves(r)
    PROVE  /\ \A q \in Slots \ {r} : req'[q] = req[q]
           /\ req'[r] \in Requests(r) /\ DOMAIN req' = Slots
<1>1. ASSUME NEW next, Step(r, next), next \in Requests(r)
      PROVE  /\ \A q \in Slots \ {r} : req'[q] = req[q]
             /\ req'[r] \in Requests(r) /\ DOMAIN req' = Slots
  BY <1>1 DEF Step, Asked
<1>2. ASSUME NEW op, NEW p, Enters(r, op, p)
      PROVE  \E next \in Requests(r) : Step(r, next)
  <2>1. PICK s \in SessionIds :
          \/ Step(r, [pc |-> "authenticated", op |-> op, session |-> s, p |-> p])
          \/ Step(r, [pc |-> "allowed", op |-> op, session |-> s, p |-> p])
    BY <1>2 DEF Enters
  <2>2. ASSUME NEW pc \in {"authenticated", "allowed"}
        PROVE  [pc |-> pc, op |-> op, session |-> s, p |-> p] \in Requests(r)
    BY <1>2 DEF Enters, Requests, Guarded
  <2> QED
    BY <2>1, <2>2
<1>3. CASE ByRole(r)
  <2>1. req[r] \in Guarded(r)
    BY <1>3, RequestOf DEF ByRole
  <2>2. [req[r] EXCEPT !.pc = "allowed"] \in Requests(r)
    BY <2>1 DEF Guarded, Requests
  <2> QED
    BY <1>1, <1>3, <2>2 DEF ByRole
<1>4. CASE Looks(r)
  <2>1. req[r] \in Guarded(r)
    BY <1>4, RequestOf DEF Looks
  <2>2. [pc |-> "tagged", op |-> req[r].op, session |-> req[r].session, p |-> req[r].p, env |-> tag]
          \in Requests(r)
    BY <2>1 DEF Guarded, Tagged, Requests
  <2> QED
    BY <1>1, <1>4, <2>2 DEF Looks
<1>5. CASE ByGrant(r)
  <2>1. req[r] \in Tagged(r)
    BY <1>5, RequestOf DEF ByGrant
  <2>2. [pc |-> "allowed", op |-> req[r].op, session |-> req[r].session, p |-> req[r].p] \in Requests(r)
    BY <2>1 DEF Guarded, Tagged, Requests
  <2> QED
    BY <1>1, <1>5, <2>2 DEF ByGrant
<1>6. CASE Opens(r)
  <2>1. req[r] \in Guarded(r)
    BY <1>6, RequestOf DEF Opens
  <2>2. [pc |-> "open", op |-> req[r].op, session |-> req[r].session] \in Requests(r)
    BY <2>1 DEF Guarded, Streams, Requests
  <2> QED
    BY <1>1, <1>6, <2>2 DEF Opens
<1>7. CASE Ends(r)
  BY <1>1, <1>7 DEF Ends, Requests
<1> QED
  BY <1>1, <1>2, <1>3, <1>4, <1>5, <1>6, <1>7 DEF Moves

(* The steps there are, as the proofs take them.                            *)
LEMMA Steps ==
    ASSUME [Next]_vars
    PROVE  \/ \E f \in Flows : \/ BeginSignIn(f) \/ SignInFails(f) \/ UpsertEntraUser(f) \/ FinishSignIn(f)
                               \/ \E u \in Users : AuthenticateLocal(f, u)
                               \/ \E u \in InEntra : CompleteSignIn(f, u)
           \/ \E r \in Slots : Reads(r) \/ Act(r)
           \/ \E s \in SessionIds : EndSession(s)
           \/ \E u \in InEntra, claims \in Claims : EntraChanges(u, claims)
           \/ UNCHANGED vars
BY DEF Next, SignInStep, RequestStep, StreamStep, Reads

LEMMA ActMoves ==
    ASSUME Asked, NEW r \in Slots, Act(r)
    PROVE  /\ req[r].pc = "allowed" /\ Ends(r)
           /\ req[r].op \in Op /\ Handle(req[r].op, req[r].p.user)
           /\ changes' = IF IsChange(req[r].op) THEN changes + 1 ELSE changes
           /\ UNCHANGED <<entra, signIn, sessions, claimChanges>>
BY RequestOf DEF Act, Ends

(* What happens to the requests, in any step.                               *)
LEMMA ReqSteps ==
    ASSUME Shapes, [Next]_vars
    PROVE  \/ req' = req /\ UNCHANGED changes
           \/ \E r \in Slots : Moves(r) /\ NothingElse
           \/ \E r \in Slots : Act(r)
<1>1. ASSUME NEW r \in Slots, Reads(r) PROVE Moves(r) /\ NothingElse
  BY <1>1, ReadsMove
<1> QED
  BY <1>1, Steps DEF BeginSignIn, SignInFails, UpsertEntraUser, FinishSignIn, AuthenticateLocal,
     CompleteSignIn, EndSession, EntraChanges, vars

LEMMA AskedNext == Shapes /\ [Next]_vars => Asked'
<1> SUFFICES ASSUME Shapes, [Next]_vars PROVE Asked'
  OBVIOUS
<1>1. CASE req' = req
  BY <1>1 DEF Shapes, Asked
<1>2. ASSUME NEW r \in Slots, Moves(r) \/ Act(r) PROVE Asked'
  <2>1. Moves(r)
    BY <1>2, ActMoves DEF Shapes, Moves
  <2>2. \A q \in Slots : req'[q] \in Requests(q)
    BY <2>1, MovesOn DEF Shapes, Asked, TagShape
  <2> QED
    BY <2>1, <2>2, MovesOn DEF Shapes, Asked, TagShape
<1> QED
  BY <1>1, <1>2, ReqSteps

-----------------------------------------------------------------------------
(* What a request may ask for, by its kind.                                 *)
LEMMA Kinds ==
    ASSUME NEW op \in Op
    PROVE  /\ op.kind \in {"role", "create"} => op.target \in Users /\ op.role \in ROLES
           /\ op.kind = "disabled" => op.target \in Users /\ op.to \in BOOLEAN
           /\ op.kind = "grant" =>
                op.subject \in Users \cup Memberships /\ op.tag \in RawTags \cup {All} /\ op.role \in ROLES
           /\ op.kind = "retag" => op.tag \in RawTags \cup {None}
BY DEF Op

(* The handlers leave the users table in its shape, and an account that     *)
(* comes from Entra keeps its role and its memberships (SetUserRole,        *)
(* CreateLocalUser).                                                        *)
LEMMA UsersSpared ==
    ASSUME SignShape, NEW op \in Op, NEW self, Handle(op, self)
    PROVE  /\ users' \in [Users -> {NoUser} \cup Rows]
           /\ \A u \in Users : users[u].provider = "entra" =>
                 /\ users'[u].provider = "entra"
                 /\ users'[u].role = users[u].role /\ users'[u].groups = users[u].groups
<1>1. users \in [Users -> {NoUser} \cup Rows]
  BY DEF SignShape
<1>3. ASSUME op.kind = "role", SetUserRole(op)
      PROVE  users' = users \/ (users[op.target].provider = "local" /\ op.target \in Users
                                /\ op.role \in ROLES /\ users' = [users EXCEPT ![op.target].role = op.role])
  BY <1>3, Kinds DEF SetUserRole
<1>4. ASSUME op.kind = "create", CreateLocalUser(op)
      PROVE  users' = users \/ (~Exists(op.target) /\ op.target \in Users
                                /\ op.role \in ROLES /\ users' = [users EXCEPT ![op.target] = Row("local", op.role, {}, FALSE)])
  BY <1>4, Kinds DEF CreateLocalUser
<1>5. ASSUME op.kind = "disabled", SetUserDisabled(op, self)
      PROVE  users' = users \/ (Exists(op.target) /\ op.target \in Users
                                /\ op.to \in BOOLEAN /\ users' = [users EXCEPT ![op.target].disabled = op.to])
  BY <1>5, Kinds DEF SetUserDisabled
<1>6. CASE users' = users
  BY <1>1, <1>6
<1>7. CASE users[op.target].provider = "local" /\ op.target \in Users
           /\ op.role \in ROLES /\ users' = [users EXCEPT ![op.target].role = op.role]
  <2>1. users[op.target] \in Rows
    BY <1>7, UserOf
  <2>2. [users[op.target] EXCEPT !.role = op.role] \in Rows
    BY <1>7, <2>1 DEF Rows
  <2>3. users' = [users EXCEPT ![op.target] = [users[op.target] EXCEPT !.role = op.role]]
    BY <1>7
  <2> QED
    BY <1>1, <1>7, <2>2, <2>3
<1>8. CASE ~Exists(op.target) /\ op.target \in Users /\ op.role \in ROLES
           /\ users' = [users EXCEPT ![op.target] = Row("local", op.role, {}, FALSE)]
  <2>1. Row("local", op.role, {}, FALSE) \in Rows
    BY <1>8 DEF Row, Rows
  <2>2. users[op.target].provider = "none"
    BY <1>8 DEF Exists
  <2> QED
    BY <1>1, <1>8, <2>1, <2>2
<1>9. CASE Exists(op.target) /\ op.target \in Users /\ op.to \in BOOLEAN
           /\ users' = [users EXCEPT ![op.target].disabled = op.to]
  <2>1. users[op.target] \in Rows
    BY <1>9, UserOf
  <2> DEFINE row == [users[op.target] EXCEPT !.disabled = op.to]
  <2>2. /\ row \in Rows /\ row.provider = users[op.target].provider
        /\ row.role = users[op.target].role /\ row.groups = users[op.target].groups
    BY <1>9, <2>1 DEF Rows
  <2>3. users' = [users EXCEPT ![op.target] = row]
    BY <1>9
  <2> HIDE DEF row
  <2> QED
    BY <1>1, <1>9, <2>2, <2>3
<1> QED
  BY <1>3, <1>4, <1>5, <1>6, <1>7, <1>8, <1>9 DEF Handle

-----------------------------------------------------------------------------
(* What a sign-in may be, by its place.                                     *)
LEMMA SignInOf ==
    ASSUME SignShape, NEW f \in Flows
    PROVE  /\ signIn[f] \in SignIns
           /\ signIn[f].pc \in {"profiled", "provisioned"} => signIn[f] \in Profiles
<1>1. signIn[f] \in SignIns
  BY DEF SignShape
<1>2. Idle.pc = "idle" /\ [pc |-> "away"].pc = "away"
  BY DEF Idle
<1>3. \A x \in Admitted : x.pc = "admitted"
  BY DEF Admitted
<1> QED
  BY <1>1, <1>2, <1>3 DEF SignIns

(* A sign-in whose role is None ends at once: the others carry one.         *)
LEMMA ProfileOf ==
    ASSUME SignShape, NEW u \in InEntra, NEW alone \in BOOLEAN, ResolveRole(entra[u]) # None
    PROVE  [pc |-> "profiled", user |-> u, role |-> ResolveRole(entra[u]), groups |-> entra[u],
            alone |-> alone] \in Profiles
<1>1. entra[u] \in Claims /\ u \in Users
  BY AccessAssumption DEF SignShape
<1>2. ResolveRole(entra[u]) \in ROLES
  BY <1>1, Resolved
<1> QED
  BY <1>1, <1>2 DEF Profiles

LEMMA Upserted ==
    ASSUME SignShape, NEW f \in Flows, signIn[f].pc = "profiled", NEW disabled \in BOOLEAN
    PROVE  /\ signIn[f].user \in Users
           /\ Row("entra", signIn[f].role, signIn[f].groups, disabled) \in Rows
           /\ [signIn[f] EXCEPT !.pc = "provisioned"] \in Profiles
<1>1. signIn[f] \in Profiles
  BY SignInOf
<1>2. signIn[f].groups \in SUBSET Memberships
  BY <1>1, AccessAssumption DEF Profiles
<1> QED
  BY <1>1, <1>2 DEF Profiles, Rows, Row

(* What the steps of a sign-in do to it.                                    *)
Leaves(f) ==
    /\ users' = users /\ entra' = entra
    /\ \E next : /\ signIn' = [signIn EXCEPT ![f] = next]
                 /\ next \in SignIns /\ next.pc \notin {"profiled", "provisioned"}
Claimed(f, u) ==
    /\ users' = users /\ entra' = entra /\ signIn[f].pc = "away"
    /\ signIn' = [g \in Flows |->
           IF g = f
           THEN IF ResolveRole(entra[u]) = None THEN Idle
                ELSE [pc |-> "profiled", user |-> u, role |-> ResolveRole(entra[u]), groups |-> entra[u],
                      alone |-> ~Overlapped(f, u)]
           ELSE IF signIn[g].pc \in {"profiled", "provisioned"} /\ signIn[g].user = u
           THEN [signIn[g] EXCEPT !.alone = FALSE] ELSE signIn[g]]
Written(f) ==
    /\ entra' = entra /\ signIn[f].pc = "profiled" /\ users[signIn[f].user].provider # "local"
    /\ \E disabled \in BOOLEAN :
        /\ users' = [users EXCEPT ![signIn[f].user] = Row("entra", signIn[f].role, signIn[f].groups, disabled)]
        /\ signIn' = [signIn EXCEPT ![f] = IF disabled THEN Idle ELSE [signIn[f] EXCEPT !.pc = "provisioned"]]
Elsewhere ==
    /\ signIn' = signIn /\ entra' \in [InEntra -> Claims]
    /\ users' \in [Users -> {NoUser} \cup Rows]
    /\ \A u \in Users : users[u].provider = "entra" =>
          /\ users'[u].provider = "entra"
          /\ users'[u].role = users[u].role /\ users'[u].groups = users[u].groups

LEMMA SignSteps ==
    ASSUME Shapes, [Next]_vars
    PROVE  \/ \E f \in Flows : Leaves(f) \/ Written(f) \/ \E u \in InEntra : Claimed(f, u)
           \/ Elsewhere
<1> USE DEF Shapes
<1>a. entra \in [InEntra -> Claims] /\ users \in [Users -> {NoUser} \cup Rows] /\ signIn \in [Flows -> SignIns]
  BY DEF SignShape
<1>b. Idle \in SignIns /\ [pc |-> "away"] \in SignIns /\ Idle.pc = "idle" /\ [pc |-> "away"].pc = "away"
  BY DEF SignIns, Idle
<1>1. ASSUME NEW f \in Flows, BeginSignIn(f) \/ SignInFails(f) \/ FinishSignIn(f) PROVE Leaves(f)
  BY <1>1, <1>b DEF BeginSignIn, SignInFails, FinishSignIn, Leaves
<1>2. ASSUME NEW f \in Flows, NEW u \in Users, AuthenticateLocal(f, u) PROVE Leaves(f)
  <2> DEFINE next == [pc |-> "admitted", user |-> u, via |-> "local"]
  <2>1. next \in SignIns /\ next.pc = "admitted"
    BY DEF SignIns, Admitted
  <2>2. signIn' = [signIn EXCEPT ![f] = next] /\ users' = users /\ entra' = entra
    BY <1>2 DEF AuthenticateLocal
  <2> HIDE DEF next
  <2> QED
    BY <2>1, <2>2 DEF Leaves
<1>3. ASSUME NEW f \in Flows, NEW u \in InEntra, CompleteSignIn(f, u) PROVE Claimed(f, u)
  BY <1>3 DEF CompleteSignIn, Claimed
<1>4. ASSUME NEW f \in Flows, UpsertEntraUser(f) PROVE Leaves(f) \/ Written(f)
  <2> DEFINE u == signIn[f].user
             off == Exists(u) /\ users[u].disabled
  <2>1. CASE users[u].provider = "local"
    BY <1>4, <1>b, <2>1 DEF UpsertEntraUser, Leaves
  <2>2. CASE users[u].provider # "local"
    <3>1. off \in BOOLEAN
      <4>1. u \in Users
        BY <1>4, SignInOf DEF UpsertEntraUser, Profiles
      <4>2. Exists(u) => users[u].disabled \in BOOLEAN
        BY <4>1, UserOf DEF Rows
      <4> QED
        BY <4>2 DEF Exists
    <3>2. /\ users' = [users EXCEPT ![u] = Row("entra", signIn[f].role, signIn[f].groups, off)]
          /\ signIn' = [signIn EXCEPT ![f] = IF off THEN Idle ELSE [signIn[f] EXCEPT !.pc = "provisioned"]]
          /\ signIn[f].pc = "profiled" /\ entra' = entra
      BY <1>4, <1>a, <2>2 DEF UpsertEntraUser
    <3> HIDE DEF off
    <3> QED
      BY <2>2, <3>1, <3>2 DEF Written
  <2> QED
    BY <2>1, <2>2
<1>5. ASSUME NEW r \in Slots, Reads(r) PROVE Elsewhere
  BY <1>5, <1>a, ReadsMove DEF NothingElse, Elsewhere
<1>6. ASSUME NEW r \in Slots, Act(r) PROVE Elsewhere
  BY <1>6, <1>a, ActMoves, UsersSpared DEF Elsewhere
<1>7. ASSUME NEW s \in SessionIds, EndSession(s) PROVE Elsewhere
  BY <1>7, <1>a DEF EndSession, Elsewhere
<1>8. ASSUME NEW u \in InEntra, NEW claims \in Claims, EntraChanges(u, claims) PROVE Elsewhere
  BY <1>8, <1>a DEF EntraChanges, Elsewhere
<1>9. CASE UNCHANGED vars
  BY <1>9, <1>a DEF vars, Elsewhere
<1> QED
  BY <1>1, <1>2, <1>3, <1>4, <1>5, <1>6, <1>7, <1>8, <1>9, Steps

LEMMA SignShapeNext == Shapes /\ [Next]_vars => SignShape'
<1> SUFFICES ASSUME Shapes, [Next]_vars PROVE SignShape'
  OBVIOUS
<1>a. SignShape /\ entra \in [InEntra -> Claims] /\ users \in [Users -> {NoUser} \cup Rows] /\ signIn \in [Flows -> SignIns]
  BY DEF Shapes, SignShape
<1>1. ASSUME NEW f \in Flows, Leaves(f) PROVE SignShape'
  BY <1>1, <1>a DEF Leaves, SignShape
<1>2. ASSUME NEW f \in Flows, NEW u \in InEntra, Claimed(f, u) PROVE SignShape'
  <2>1. ASSUME NEW g \in Flows PROVE signIn'[g] \in SignIns
    <3>1. CASE g = f
      <4>1. Overlapped(f, u) \in BOOLEAN
        BY DEF Overlapped
      <4>2. ResolveRole(entra[u]) # None =>
              [pc |-> "profiled", user |-> u, role |-> ResolveRole(entra[u]), groups |-> entra[u],
               alone |-> ~Overlapped(f, u)] \in Profiles
        BY <1>a, <4>1, ProfileOf
      <4> QED
        BY <1>2, <3>1, <4>2 DEF Claimed, SignIns
    <3>2. CASE g # f /\ signIn[g].pc \in {"profiled", "provisioned"} /\ signIn[g].user = u
      <4>1. signIn[g] \in Profiles
        BY <1>a, <3>2, SignInOf
      <4>2. [signIn[g] EXCEPT !.alone = FALSE] \in Profiles
        BY <4>1 DEF Profiles
      <4> QED
        BY <1>2, <3>2, <4>2 DEF Claimed, SignIns
    <3>3. CASE g # f /\ ~(signIn[g].pc \in {"profiled", "provisioned"} /\ signIn[g].user = u)
      BY <1>2, <1>a, <3>3 DEF Claimed
    <3> QED
      BY <3>1, <3>2, <3>3
  <2> QED
    BY <1>2, <1>a, <2>1 DEF Claimed, SignShape
<1>3. ASSUME NEW f \in Flows, Written(f) PROVE SignShape'
  <2>1. PICK disabled \in BOOLEAN :
          /\ users' = [users EXCEPT ![signIn[f].user] = Row("entra", signIn[f].role, signIn[f].groups, disabled)]
          /\ signIn' = [signIn EXCEPT ![f] = IF disabled THEN Idle ELSE [signIn[f] EXCEPT !.pc = "provisioned"]]
    BY <1>3 DEF Written
  <2>2. /\ signIn[f].user \in Users
        /\ Row("entra", signIn[f].role, signIn[f].groups, disabled) \in Rows
        /\ [signIn[f] EXCEPT !.pc = "provisioned"] \in Profiles
    BY <1>3, <1>a, Upserted DEF Written
  <2>3. Idle \in SignIns /\ [signIn[f] EXCEPT !.pc = "provisioned"] \in SignIns
    BY <2>2 DEF SignIns
  <2>4. users' \in [Users -> {NoUser} \cup Rows]
    BY <1>a, <2>1, <2>2
  <2>5. signIn' \in [Flows -> SignIns]
    BY <1>a, <2>1, <2>3
  <2>6. entra' = entra
    BY <1>3 DEF Written
  <2> QED
    BY <1>a, <2>4, <2>5, <2>6 DEF SignShape
<1>4. CASE Elsewhere
  BY <1>4, <1>a DEF Elsewhere, SignShape
<1> QED
  BY <1>1, <1>2, <1>3, <1>4, SignSteps

-----------------------------------------------------------------------------
(* A sign-in that nobody overlapped is the last that may write its person's *)
(* row.                                                                     *)
Alone(f) == signIn[f].pc \in {"profiled", "provisioned"} /\ signIn[f].alone
LastWriter ==
    \A f \in Flows : Alone(f) =>
        \A g \in Flows \ {f} : signIn[g].pc = "profiled" => signIn[g].user # signIn[f].user
SignInv == LastWriter /\ SignInSticks

LEMMA SignNext == Shapes /\ SignInv /\ [Next]_vars => SignInv'
<1> SUFFICES ASSUME Shapes, SignInv, [Next]_vars PROVE SignInv'
  OBVIOUS
<1>a. SignShape /\ entra \in [InEntra -> Claims] /\ users \in [Users -> {NoUser} \cup Rows] /\ signIn \in [Flows -> SignIns]
  BY DEF Shapes, SignShape
<1>1. ASSUME NEW f \in Flows, Leaves(f) PROVE SignInv'
  <2>1. /\ users' = users /\ signIn'[f].pc \notin {"profiled", "provisioned"}
        /\ \A g \in Flows \ {f} : signIn'[g] = signIn[g]
    BY <1>1, <1>a DEF Leaves
  <2>2. LastWriter'
    BY <2>1 DEF SignInv, LastWriter, Alone
  <2>3. SignInSticks'
    BY <2>1 DEF SignInv, SignInSticks
  <2> QED
    BY <2>2, <2>3 DEF SignInv
<1>2. ASSUME NEW f \in Flows, NEW u \in InEntra, Claimed(f, u) PROVE SignInv'
  <2>1. /\ users' = users /\ signIn'[f].pc \in {"idle", "profiled"}
        /\ signIn'[f].pc = "profiled" => signIn'[f].user = u /\ signIn'[f].alone = ~Overlapped(f, u)
    BY <1>2 DEF Claimed, Idle
  <2>2. ASSUME NEW g \in Flows \ {f}
        PROVE  /\ signIn'[g].pc = signIn[g].pc
               /\ signIn[g].pc \in {"profiled", "provisioned"} =>
                    /\ signIn'[g].user = signIn[g].user /\ signIn'[g].role = signIn[g].role
                    /\ signIn'[g].groups = signIn[g].groups
                    /\ signIn'[g].alone => signIn[g].alone /\ signIn[g].user # u
    <3>1. CASE signIn[g].pc \in {"profiled", "provisioned"} /\ signIn[g].user = u
      <4>1. signIn[g] \in Profiles
        BY <1>a, <3>1, SignInOf
      <4>2. signIn'[g] = [signIn[g] EXCEPT !.alone = FALSE]
        BY <1>2, <3>1 DEF Claimed
      <4> QED
        BY <4>1, <4>2 DEF Profiles
    <3>2. CASE ~(signIn[g].pc \in {"profiled", "provisioned"} /\ signIn[g].user = u)
      BY <1>2, <3>2 DEF Claimed
    <3> QED
      BY <3>1, <3>2
  <2>3. LastWriter'
    <3> SUFFICES ASSUME NEW h \in Flows, Alone(h)', NEW g \in Flows \ {h}, signIn'[g].pc = "profiled"
                 PROVE  signIn'[g].user # signIn'[h].user
      BY DEF LastWriter
    <3>1. CASE h = f
      BY <2>1, <2>2, <3>1 DEF Alone, Overlapped
    <3>2. CASE h # f /\ g = f
      BY <2>1, <2>2, <3>2 DEF Alone
    <3>3. CASE h # f /\ g # f
      BY <2>2, <3>3 DEF SignInv, LastWriter, Alone
    <3> QED
      BY <3>1, <3>2, <3>3
  <2>4. SignInSticks'
    BY <2>1, <2>2 DEF SignInv, SignInSticks
  <2> QED
    BY <2>3, <2>4 DEF SignInv
<1>3. ASSUME NEW f \in Flows, Written(f) PROVE SignInv'
  <2>1. PICK disabled \in BOOLEAN :
          /\ users' = [users EXCEPT ![signIn[f].user] = Row("entra", signIn[f].role, signIn[f].groups, disabled)]
          /\ signIn' = [signIn EXCEPT ![f] = IF disabled THEN Idle ELSE [signIn[f] EXCEPT !.pc = "provisioned"]]
    BY <1>3 DEF Written
  <2>2. signIn[f].pc = "profiled" /\ signIn[f] \in Profiles /\ signIn[f].user \in Users
    BY <1>3, <1>a, SignInOf, Upserted DEF Written
  <2>3. /\ \A g \in Flows \ {f} : signIn'[g] = signIn[g]
        /\ signIn'[f].pc \in {"idle", "provisioned"}
        /\ signIn'[f].pc = "provisioned" =>
             /\ signIn'[f].user = signIn[f].user /\ signIn'[f].role = signIn[f].role
             /\ signIn'[f].groups = signIn[f].groups /\ signIn'[f].alone = signIn[f].alone
    <3>1. signIn'[f] = Idle \/ signIn'[f] = [signIn[f] EXCEPT !.pc = "provisioned"]
      BY <1>a, <2>1
    <3>2. \A g \in Flows \ {f} : signIn'[g] = signIn[g]
      BY <1>a, <2>1
    <3>3. CASE signIn'[f] = Idle
      BY <3>2, <3>3 DEF Idle
    <3>4. CASE signIn'[f] = [signIn[f] EXCEPT !.pc = "provisioned"]
      BY <2>2, <3>2, <3>4 DEF Profiles
    <3> QED
      BY <3>1, <3>3, <3>4
  <2>4. LastWriter'
    BY <2>2, <2>3 DEF SignInv, LastWriter, Alone
  <2>5. SignInSticks'
    <3> SUFFICES ASSUME NEW g \in Flows, signIn'[g].pc = "provisioned", signIn'[g].alone
                 PROVE  /\ users'[signIn'[g].user].provider = "entra"
                        /\ users'[signIn'[g].user].role = signIn'[g].role
                        /\ users'[signIn'[g].user].groups = signIn'[g].groups
      BY DEF SignInSticks
    <3>1. CASE g = f
      <4>1. users'[signIn[f].user] = Row("entra", signIn[f].role, signIn[f].groups, disabled)
        BY <1>a, <2>1, <2>2
      <4> QED
        BY <2>3, <3>1, <4>1 DEF Row
    <3>2. CASE g # f
      <4>1. signIn'[g] = signIn[g] /\ Alone(g)
        BY <2>3, <3>2 DEF Alone
      <4>2. signIn[g].user # signIn[f].user /\ signIn[g].user \in Users
        <5>1. signIn[g].user # signIn[f].user
          BY <2>2, <3>2, <4>1 DEF SignInv, LastWriter
        <5>2. signIn[g] \in Profiles
          BY <1>a, <4>1, SignInOf DEF Alone
        <5> QED
          BY <5>1, <5>2 DEF Profiles
      <4>3. users'[signIn[g].user] = users[signIn[g].user]
        BY <1>a, <2>1, <4>2
      <4> QED
        BY <4>1, <4>3 DEF SignInv, SignInSticks
    <3> QED
      BY <3>1, <3>2
  <2> QED
    BY <2>4, <2>5 DEF SignInv
<1>4. CASE Elsewhere
  <2>1. signIn' = signIn
    BY <1>4 DEF Elsewhere
  <2>2. LastWriter'
    BY <2>1 DEF SignInv, LastWriter, Alone
  <2>3. \A f \in Flows : signIn[f].pc = "provisioned" => signIn[f].user \in Users
    BY <1>a, SignInOf DEF Profiles
  <2>4. SignInSticks'
    BY <1>4, <2>1, <2>3 DEF Elsewhere, SignInv, SignInSticks
  <2> QED
    BY <2>2, <2>4 DEF SignInv
<1> QED
  BY <1>1, <1>2, <1>3, <1>4, SignSteps

-----------------------------------------------------------------------------
(* Row numbers are given out once.                                          *)
GrantInv == (\A grant \in grants : grant.id <= changes) /\ OneGrantPerEnvironment

LEMMA SavedGrant ==
    ASSUME GrantShape, GrantInv, NEW op \in Op, op.kind = "grant", SaveGrant(op), changes' = changes + 1
    PROVE  GrantShape' /\ GrantInv'
<1> DEFINE normal == NormaliseTag(op.tag)
           same == {grant \in grants : grant.subject = op.subject /\ grant.tag = normal}
           new == [id |-> changes + 1, subject |-> op.subject, tag |-> normal, role |-> op.role]
<1>a. changes \in Nat /\ grants \subseteq Grants /\ \A grant \in grants : grant.id \in Nat /\ grant.id <= changes
  BY DEF GrantShape, GrantInv, Grants
<1>b. normal # None => new \in Grants
  <2>1. normal # None => normal \in Tags \cup {All}
    BY Kinds DEF NormaliseTag, Tags
  <2> HIDE DEF normal
  <2> QED
    BY <1>a, <2>1, Kinds DEF Grants
<1>1. CASE grants' = grants
  BY <1>1, <1>a DEF GrantShape, GrantInv, OneGrantPerEnvironment
<1>2. CASE normal # None /\ same = {} /\ grants' = grants \cup {new}
  <2>1. /\ new.id = changes + 1 /\ new.subject = op.subject /\ new.tag = normal
        /\ \A grant \in grants : grant.id # changes + 1 /\ ~(grant.subject = op.subject /\ grant.tag = normal)
    BY <1>2, <1>a
  <2> HIDE DEF new, same, normal
  <2>2. \A grant \in grants' : grant.id <= changes'
    BY <1>2, <1>a, <2>1
  <2>3. OneGrantPerEnvironment'
    BY <1>2, <2>1 DEF GrantInv, OneGrantPerEnvironment
  <2>4. GrantShape'
    BY <1>2, <1>a, <1>b DEF GrantShape
  <2> QED
    BY <2>2, <2>3, <2>4 DEF GrantInv
<1>3. CASE grants' = (grants \ same) \cup {[grant EXCEPT !.role = op.role] : grant \in same}
  <2>1. \A grant \in same :
          /\ grant \in grants /\ [grant EXCEPT !.role = op.role] \in Grants
          /\ [grant EXCEPT !.role = op.role].id = grant.id
          /\ [grant EXCEPT !.role = op.role].subject = grant.subject
          /\ [grant EXCEPT !.role = op.role].tag = grant.tag
    BY <1>a, Kinds DEF Grants
  <2>2. \A g \in grants' : \E h \in grants :
          /\ g \in Grants /\ g.id = h.id /\ g.subject = h.subject /\ g.tag = h.tag
          /\ g = IF h \in same THEN [h EXCEPT !.role = op.role] ELSE h
    BY <1>3, <1>a, <2>1
  <2> HIDE DEF same
  <2>3. \A grant \in grants' : grant.id <= changes'
    BY <1>a, <2>2
  <2>4. OneGrantPerEnvironment'
    BY <2>2 DEF GrantInv, OneGrantPerEnvironment
  <2>5. GrantShape'
    BY <1>a, <2>2 DEF GrantShape
  <2> QED
    BY <2>3, <2>4, <2>5 DEF GrantInv
<1> QED
  BY <1>1, <1>2, <1>3 DEF SaveGrant

LEMMA GrantNext == Shapes /\ GrantInv /\ [Next]_vars => GrantShape' /\ GrantInv'
<1> SUFFICES ASSUME Shapes, GrantInv, [Next]_vars PROVE GrantShape' /\ GrantInv'
  OBVIOUS
<1>a. GrantShape /\ Asked /\ changes \in Nat /\ \A grant \in grants : grant.id \in Nat /\ grant.id <= changes
  BY DEF Shapes, GrantShape, GrantInv, Grants
<1>1. ASSUME changes' \in Nat, changes <= changes', grants' \subseteq grants PROVE GrantShape' /\ GrantInv'
  BY <1>1, <1>a DEF GrantShape, GrantInv, OneGrantPerEnvironment
<1>2. CASE grants' = grants /\ changes' = changes
  BY <1>1, <1>2, <1>a
<1>3. ASSUME NEW r \in Slots, Act(r) PROVE GrantShape' /\ GrantInv'
  <2>1. /\ req[r].op \in Op /\ Handle(req[r].op, req[r].p.user)
        /\ changes' = IF IsChange(req[r].op) THEN changes + 1 ELSE changes
    BY <1>3, <1>a, ActMoves
  <2>2. CASE req[r].op.kind = "grant" /\ SaveGrant(req[r].op)
    <3>1. changes' = changes + 1
      BY <2>1, <2>2 DEF IsChange
    <3> QED
      BY <1>a, <2>1, <2>2, <3>1, SavedGrant DEF Shapes
  <2>3. CASE DeleteGrant(req[r].op) \/ grants' = grants
    <3>1. changes' \in Nat /\ changes <= changes' /\ grants' \subseteq grants
      BY <1>a, <2>1, <2>3 DEF DeleteGrant
    <3> QED
      BY <1>1, <3>1
  <2> QED
    BY <2>1, <2>2, <2>3 DEF Handle
<1>4. ASSUME NEW r \in Slots, Reads(r) PROVE grants' = grants /\ changes' = changes
  BY <1>4, ReadsMove DEF NothingElse
<1> QED
  BY <1>2, <1>3, <1>4, Steps DEF BeginSignIn, SignInFails, UpsertEntraUser, FinishSignIn, AuthenticateLocal,
     CompleteSignIn, EndSession, EntraChanges, vars

-----------------------------------------------------------------------------
(* A session is given to somebody whose sign-in was let through; nothing    *)
(* else makes one stand (CreateSession, EndSession).                        *)
LEMMA SessionNext == Shapes /\ [Next]_vars => SessionShape'
<1> SUFFICES ASSUME Shapes, [Next]_vars PROVE SessionShape'
  OBVIOUS
<1>a. SessionShape /\ SignShape
  BY DEF Shapes
<1>1. ASSUME sessions' = sessions PROVE SessionShape'
  BY <1>1, <1>a DEF SessionShape
<1>2. ASSUME NEW f \in Flows, FinishSignIn(f) PROVE SessionShape'
  <2>1. signIn[f].user \in Users
    <3>1. signIn[f] \in SignIns /\ signIn[f].pc \in {"admitted", "provisioned"}
      BY <1>2, <1>a, SignInOf DEF FinishSignIn
    <3>2. signIn[f] \in Admitted \cup Profiles
      <4>1. Idle.pc = "idle" /\ [pc |-> "away"].pc = "away"
        BY DEF Idle
      <4> QED
        BY <3>1, <4>1 DEF SignIns
    <3> QED
      BY <3>2 DEF Admitted, Profiles
  <2>2. PICK s \in SessionIds : sessions' = [sessions EXCEPT ![s] = [user |-> signIn[f].user, live |-> TRUE]]
    BY <1>2 DEF FinishSignIn, CreateSession
  <2> QED
    BY <1>a, <2>1, <2>2 DEF SessionShape
<1>3. ASSUME NEW s \in SessionIds, EndSession(s) PROVE SessionShape'
  <2>1. sessions' = [sessions EXCEPT ![s] = [sessions[s] EXCEPT !.live = FALSE]]
    BY <1>3 DEF EndSession
  <2>2. /\ [sessions[s] EXCEPT !.live = FALSE] \in [user : Users \cup {None}, live : BOOLEAN]
        /\ ~[sessions[s] EXCEPT !.live = FALSE].live
    BY <1>a DEF SessionShape
  <2> QED
    BY <1>a, <2>1, <2>2 DEF SessionShape
<1>4. ASSUME NEW r \in Slots, Reads(r) \/ Act(r) PROVE sessions' = sessions
  BY <1>4, ReadsMove, ActMoves DEF NothingElse, Shapes
<1> QED
  BY <1>1, <1>2, <1>3, <1>4, Steps DEF BeginSignIn, SignInFails, UpsertEntraUser, AuthenticateLocal,
     CompleteSignIn, EntraChanges, vars

LEMMA TagNext == Shapes /\ [Next]_vars => TagShape'
<1> SUFFICES ASSUME Shapes, [Next]_vars PROVE TagShape'
  OBVIOUS
<1>1. ASSUME tag' = tag PROVE TagShape'
  BY <1>1 DEF Shapes, TagShape
<1>2. ASSUME NEW r \in Slots, Reads(r) PROVE TagShape'
  BY <1>1, <1>2, ReadsMove DEF NothingElse
<1>3. ASSUME NEW r \in Slots, Act(r) PROVE TagShape'
  <2>1. Handle(req[r].op, req[r].p.user) /\ req[r].op \in Op
    BY <1>3, ActMoves DEF Shapes
  <2>2. tag' = tag \/ tag' \in RawTags \cup {None}
    BY <2>1, Kinds DEF Handle, Retag
  <2> QED
    BY <1>1, <2>2 DEF TagShape
<1> QED
  BY <1>1, <1>2, <1>3, Steps DEF BeginSignIn, SignInFails, UpsertEntraUser, FinishSignIn, AuthenticateLocal,
     CompleteSignIn, EndSession, EntraChanges, vars

-----------------------------------------------------------------------------
(* The broker's limit, and the bounds on what is explored.                  *)
Limits ==
    /\ IsFiniteSet(Subscribers) /\ Cardinality(Subscribers) <= MaxSubscribers
    /\ IsFiniteSet(InFlight) /\ changes + Cardinality(InFlight) <= MaxChanges
    /\ claimChanges \in 0..MaxClaims

LEMMA Fewer ==
    ASSUME NEW S, NEW T, IsFiniteSet(S), T \subseteq S
    PROVE  IsFiniteSet(T) /\ Cardinality(T) <= Cardinality(S) /\ Cardinality(T) \in Nat /\ Cardinality(S) \in Nat
BY FS_Subset, FS_CardinalityType

LEMMA OneMore ==
    ASSUME NEW S, NEW T, NEW x, IsFiniteSet(S), T \subseteq S \cup {x}
    PROVE  IsFiniteSet(T) /\ Cardinality(T) <= Cardinality(S) + 1 /\ Cardinality(T) \in Nat /\ Cardinality(S) \in Nat
<1>1. IsFiniteSet(S \cup {x}) /\ Cardinality(S \cup {x}) \in {Cardinality(S), Cardinality(S) + 1}
  BY FS_AddElement
<1>2. IsFiniteSet(T) /\ Cardinality(T) <= Cardinality(S \cup {x}) /\ Cardinality(T) \in Nat
  BY <1>1, Fewer
<1>3. Cardinality(S) \in Nat
  BY FS_CardinalityType
<1> QED
  BY <1>1, <1>2, <1>3

LEMMA LimitsNext == Shapes /\ Limits /\ [Next]_vars => Limits'
<1> SUFFICES ASSUME Shapes, Limits, [Next]_vars PROVE Limits'
  OBVIOUS
<1>a. /\ MaxSubscribers \in Nat /\ MaxChanges \in Nat /\ MaxClaims \in Nat
      /\ changes \in Nat /\ claimChanges \in Nat
      /\ Cardinality(Subscribers) \in Nat /\ Cardinality(InFlight) \in Nat
  BY AccessAssumption, FS_CardinalityType DEF Shapes, GrantShape, Limits
<1>1. ASSUME req' = req, changes' = changes, claimChanges' \in 0..MaxClaims PROVE Limits'
  BY <1>1 DEF Limits, Subscribers, InFlight
<1>2. ASSUME NEW r \in Slots, Moves(r), NothingElse PROVE Limits'
  <2>a. /\ \A q \in Slots \ {r} : req'[q] = req[q]
        /\ changes' = changes /\ claimChanges' = claimChanges /\ DOMAIN req = Slots
    BY <1>2, MovesOn DEF Shapes, NothingElse, TagShape, Asked
  <2>1. ASSUME NEW op, NEW p, Enters(r, op, p)
        PROVE  Limits'
    <3>1. PICK s \in SessionIds :
            \/ Step(r, [pc |-> "authenticated", op |-> op, session |-> s, p |-> p])
            \/ Step(r, [pc |-> "allowed", op |-> op, session |-> s, p |-> p])
      BY <2>1 DEF Enters
    <3>2. req'[r].pc # "open" /\ req'[r].op = op /\ req[r].pc = "idle"
      BY <2>1, <2>a, <3>1 DEF Step, Enters
    <3>3. Subscribers' \subseteq Subscribers
      BY <2>a, <3>2 DEF Subscribers
    <3>4. CASE IsChange(op)
      <4>1. InFlight' \subseteq InFlight \cup {r}
        BY <2>a DEF InFlight
      <4>2. changes + Cardinality(InFlight) < MaxChanges
        BY <2>1, <3>4 DEF Enters
      <4>3. /\ IsFiniteSet(InFlight') /\ Cardinality(InFlight') <= Cardinality(InFlight) + 1
            /\ Cardinality(InFlight') \in Nat
        BY <4>1, OneMore DEF Limits
      <4>4. IsFiniteSet(Subscribers') /\ Cardinality(Subscribers') <= MaxSubscribers
        BY <1>a, <3>3, Fewer DEF Limits
      <4> QED
        BY <1>a, <2>a, <4>2, <4>3, <4>4 DEF Limits
    <3>5. CASE ~IsChange(op)
      <4>1. InFlight' \subseteq InFlight
        BY <2>a, <3>2, <3>5 DEF InFlight
      <4> QED
        BY <1>a, <2>a, <3>3, <4>1, Fewer DEF Limits
    <3> QED
      BY <3>4, <3>5
  <2>2. ASSUME req[r].pc # "idle", req'[r].pc = "idle" \/ req'[r].op = req[r].op
        PROVE  InFlight' \subseteq InFlight
    BY <2>a, <2>2 DEF InFlight
  <2>3. CASE ByRole(r) \/ Looks(r) \/ ByGrant(r) \/ Ends(r)
    <3>1. /\ req[r].pc # "idle" /\ req'[r].pc # "open"
          /\ req'[r].pc = "idle" \/ req'[r].op = req[r].op
      <4>1. CASE ByRole(r)
        <5>1. req[r] \in Guarded(r) /\ req'[r] = [req[r] EXCEPT !.pc = "allowed"]
          BY <2>a, <4>1, RequestOf DEF ByRole, Step, Shapes
        <5>2. [req[r] EXCEPT !.pc = "allowed"].pc = "allowed" /\ [req[r] EXCEPT !.pc = "allowed"].op = req[r].op
          BY <5>1 DEF Guarded
        <5> QED
          BY <4>1, <5>1, <5>2 DEF ByRole
      <4>2. CASE Looks(r)
        BY <2>a, <4>2 DEF Looks, Step
      <4>3. CASE ByGrant(r)
        BY <2>a, <4>3 DEF ByGrant, Step
      <4>4. CASE Ends(r)
        BY <2>a, <4>4 DEF Ends, Step, Idle
      <4> QED
        BY <2>3, <4>1, <4>2, <4>3, <4>4
    <3>2. Subscribers' \subseteq Subscribers
      BY <2>a, <3>1 DEF Subscribers
    <3>3. InFlight' \subseteq InFlight
      BY <2>2, <3>1
    <3> QED
      BY <1>a, <2>a, <3>2, <3>3, Fewer DEF Limits
  <2>4. CASE Opens(r)
    <3>1. Subscribers' \subseteq Subscribers \cup {r}
      BY <2>a DEF Subscribers
    <3>2. Cardinality(Subscribers) < MaxSubscribers
      BY <1>a, <2>4 DEF Opens
    <3>3. req[r].pc # "idle" /\ req'[r].op = req[r].op
      BY <2>a, <2>4 DEF Opens, Step
    <3>4. InFlight' \subseteq InFlight
      BY <2>2, <3>3
    <3> QED
      BY <1>a, <2>a, <3>1, <3>2, <3>4, Fewer, OneMore DEF Limits
  <2> QED
    BY <1>2, <2>1, <2>3, <2>4 DEF Moves
<1>3. ASSUME NEW r \in Slots, Act(r) PROVE Limits'
  <2>1. /\ req[r].pc = "allowed" /\ req' = [req EXCEPT ![r] = Idle] /\ claimChanges' = claimChanges
        /\ changes' = IF IsChange(req[r].op) THEN changes + 1 ELSE changes
        /\ DOMAIN req = Slots
    BY <1>3, ActMoves DEF Shapes, Ends, Step, Asked
  <2>2. req'[r].pc = "idle" /\ \A q \in Slots \ {r} : req'[q] = req[q]
    BY <2>1 DEF Idle
  <2>3. Subscribers' \subseteq Subscribers
    BY <2>2 DEF Subscribers
  <2>4. InFlight' = InFlight \ {r}
    BY <2>2 DEF InFlight
  <2>5. CASE IsChange(req[r].op)
    <3>1. r \in InFlight
      BY <2>1, <2>5 DEF InFlight
    <3>2. IsFiniteSet(InFlight') /\ Cardinality(InFlight') = Cardinality(InFlight) - 1
      BY <2>4, <3>1, FS_RemoveElement DEF Limits
    <3> QED
      BY <1>a, <2>1, <2>3, <2>5, <3>2, Fewer DEF Limits
  <2>6. CASE ~IsChange(req[r].op)
    <3>1. IsFiniteSet(InFlight') /\ Cardinality(InFlight') <= Cardinality(InFlight) /\ Cardinality(InFlight') \in Nat
      BY <2>4, Fewer DEF Limits
    <3> QED
      BY <1>a, <2>1, <2>3, <2>6, <3>1, Fewer DEF Limits
  <2> QED
    BY <2>5, <2>6
<1>4. ASSUME NEW u \in InEntra, NEW claims \in Claims, EntraChanges(u, claims) PROVE Limits'
  BY <1>1, <1>4, <1>a DEF EntraChanges, Limits
<1>5. ASSUME NEW r \in Slots, Reads(r) PROVE Limits'
  BY <1>2, <1>5, ReadsMove
<1>6. claimChanges \in 0..MaxClaims
  BY DEF Limits
<1> QED
  BY <1>1, <1>3, <1>4, <1>5, <1>6, Steps DEF BeginSignIn, SignInFails, UpsertEntraUser, FinishSignIn,
     AuthenticateLocal, CompleteSignIn, EndSession, vars

-----------------------------------------------------------------------------
(* What a request rests on, at each of its places.                          *)
Justified(r) ==
    \E p \in held[r].principals :
        \/ RoleHasPermission(p.role, req[r].op.permission)
        \/ \E env \in held[r].tags, grant \in held[r].grants :
              req[r].op.kind = "instance" /\ Gives(grant, p, env, req[r].op.permission)
Rests(r) ==
    /\ req[r].pc \in {"authenticated", "tagged"} =>
         req[r].op.kind = "instance" /\ req[r].p \in held[r].principals
    /\ req[r].pc = "tagged" => req[r].env \in held[r].tags
    /\ req[r].pc = "allowed" => Justified(r)

LEMMA Remembered ==
    ASSUME Remember, NEW r \in Slots, req'[r].pc \notin {"idle", "open"}
    PROVE  /\ req[r].pc = "idle" => held'[r] = Facts(r)'
           /\ req[r].pc = "allowed" => held'[r] = held[r]
           /\ req[r].pc \notin {"idle", "allowed"} =>
                /\ held[r].principals \subseteq held'[r].principals
                /\ held[r].tags \subseteq held'[r].tags /\ tag' \in held'[r].tags
                /\ grants' \subseteq held'[r].grants /\ held[r].grants \subseteq held'[r].grants
<1>1. CASE req[r].pc = "idle"
  BY <1>1 DEF Remember
<1>2. CASE req[r].pc = "allowed"
  BY <1>2 DEF Remember
<1>3. CASE req[r].pc \notin {"idle", "allowed"}
  <2>1. held'[r] = [principals |-> held[r].principals \cup Facts(r)'.principals,
                    tags |-> held[r].tags \cup Facts(r)'.tags, grants |-> held[r].grants \cup Facts(r)'.grants]
    BY <1>3 DEF Remember
  <2>2. Facts(r)'.tags = {tag'} /\ Facts(r)'.grants = grants'
    BY DEF Facts
  <2> QED
    BY <1>3, <2>1, <2>2
<1> QED
  BY <1>1, <1>2, <1>3

(* Time that passes takes nothing from what a request rests on.             *)
LEMMA RestsOn ==
    ASSUME Asked, Remember, NEW r \in Slots, Rests(r), req'[r] = req[r]
    PROVE  Rests(r)'
<1>1. CASE req[r].pc \in {"idle", "open"}
  BY <1>1 DEF Rests
<1>2. CASE req[r].pc = "allowed"
  <2>1. held'[r] = held[r]
    BY <1>2, Remembered
  <2> QED
    BY <1>2, <2>1 DEF Rests, Justified
<1>3. CASE req[r].pc \in {"authenticated", "tagged"}
  BY <1>3, Remembered DEF Rests
<1> QED
  BY <1>1, <1>2, <1>3, RequestOf

(* The resolver's answer, grant by grant (canInEnvironment).                *)
LEMMA CanBecause ==
    ASSUME GrantShape, NEW p \in Principal, NEW permission, NEW env,
           CanInEnvironment(p, grants, permission, env)
    PROVE  \/ RoleHasPermission(p.role, permission)
           \/ \E grant \in grants : Gives(grant, p, env, permission)
<1> DEFINE reaching == {grant \in grants : AppliesToSubject(grant, p) /\ AppliesToEnvironment(grant, env)}
           roles == {p.role} \cup {grant.role : grant \in reaching}
<1>1. roles \in SUBSET ROLES /\ roles # {}
  BY DEF GrantShape, Grants, Principal
<1>2. EffectiveRole(p, grants, env) = Highest(roles)
  BY DEF EffectiveRole
<1>3. Highest(roles) \in roles
  <2> HIDE DEF roles
  <2> QED
    BY <1>1, HighestOf
<1>4. CASE Highest(roles) = p.role
  BY <1>2, <1>4 DEF CanInEnvironment
<1>5. CASE \E grant \in reaching : Highest(roles) = grant.role
  <2>1. PICK grant \in reaching : Highest(roles) = grant.role
    BY <1>5
  <2>2. /\ grant \in Grants /\ grant \in grants
        /\ AppliesToSubject(grant, p) /\ AppliesToEnvironment(grant, env)
    BY <2>1 DEF GrantShape
  <2>3. grant.subject \in {p.user} \cup p.groups
    BY <2>2 DEF AppliesToSubject
  <2>4. grant.tag = All \/ (env # None /\ grant.tag = Normal(env))
    <3>1. grant.tag = All \/ Normal(grant.tag) = grant.tag
      BY <2>2, AccessAssumption DEF Grants, Tags
    <3> QED
      BY <2>2, <3>1 DEF AppliesToEnvironment
  <2>5. \/ RoleHasPermission(p.role, permission)
        \/ permission \notin ESTATE_ONLY /\ RoleHasPermission(grant.role, permission)
    BY <1>2, <2>1 DEF CanInEnvironment
  <2> QED
    BY <2>2, <2>3, <2>4, <2>5 DEF Gives
<1> QED
  BY <1>3, <1>4, <1>5

LEMMA MoveRests ==
    ASSUME Shapes, Remember, NEW r \in Slots, Moves(r), NothingElse, Rests(r)
    PROVE  Rests(r)'
<1>a. DOMAIN req = Slots /\ Asked /\ GrantShape
  BY DEF Shapes, Asked
<1>1. ASSUME NEW op, NEW p, Enters(r, op, p) PROVE Rests(r)'
  <2>1. PICK s \in SessionIds :
          /\ sessions[s].live /\ Enabled(sessions[s].user) /\ p = PrincipalOf(sessions[s].user)
          /\ \/ /\ op.kind = "instance"
                /\ Step(r, [pc |-> "authenticated", op |-> op, session |-> s, p |-> p])
             \/ /\ op.kind # "instance" /\ RoleHasPermission(p.role, op.permission)
                /\ Step(r, [pc |-> "allowed", op |-> op, session |-> s, p |-> p])
    BY <1>1 DEF Enters
  <2>2. req'[r].session = s /\ req'[r].op = op /\ req'[r].p = p /\ req[r].pc = "idle"
    BY <1>1, <1>a, <2>1 DEF Step, Enters
  <2>3. \/ req'[r].pc = "authenticated" /\ op.kind = "instance"
        \/ req'[r].pc = "allowed" /\ RoleHasPermission(p.role, op.permission)
    BY <1>a, <2>1 DEF Step
  <2>4. Facts(r)'.principals = {p}
    BY <2>1, <2>2 DEF Facts, NothingElse, Enabled, Exists, PrincipalOf
  <2>5. held'[r].principals = {p}
    BY <2>2, <2>3, <2>4, Remembered
  <2> QED
    BY <2>2, <2>3, <2>5 DEF Rests, Justified
<1>2. CASE ByRole(r)
  <2>1. req[r] \in Guarded(r) /\ req'[r] = [req[r] EXCEPT !.pc = "allowed"]
    BY <1>2, <1>a, RequestOf DEF ByRole, Step
  <2>2. req'[r].pc = "allowed" /\ req'[r].op = req[r].op
    BY <2>1 DEF Guarded
  <2>3. req[r].pc = "authenticated" /\ RoleHasPermission(req[r].p.role, req[r].op.permission)
    BY <1>2 DEF ByRole
  <2>4. req[r].p \in held'[r].principals
    BY <2>2, <2>3, Remembered DEF Rests
  <2> QED
    BY <2>2, <2>3, <2>4 DEF Rests, Justified
<1>3. CASE Looks(r)
  <2>1. /\ req'[r].pc = "tagged" /\ req'[r].op = req[r].op /\ req'[r].p = req[r].p /\ req'[r].env = tag
        /\ req[r].pc = "authenticated"
    BY <1>3, <1>a DEF Looks, Step
  <2>2. tag' = tag
    BY DEF NothingElse
  <2> QED
    BY <2>1, <2>2, Remembered DEF Rests
<1>4. CASE ByGrant(r)
  <2>1. /\ req'[r].pc = "allowed" /\ req'[r].op = req[r].op /\ req[r].pc = "tagged"
        /\ CanInEnvironment(req[r].p, grants, req[r].op.permission, req[r].env)
    BY <1>4, <1>a DEF ByGrant, Step
  <2>2. req[r].p \in Principal
    BY <1>a, <2>1, RequestOf DEF Tagged
  <2>3. \/ RoleHasPermission(req[r].p.role, req[r].op.permission)
        \/ \E grant \in grants : Gives(grant, req[r].p, req[r].env, req[r].op.permission)
    BY <1>a, <2>1, <2>2, CanBecause
  <2>4. /\ req[r].p \in held'[r].principals /\ req[r].env \in held'[r].tags /\ grants \subseteq held'[r].grants
        /\ req[r].op.kind = "instance"
    <3>1. grants' = grants
      BY DEF NothingElse
    <3> QED
      BY <2>1, <3>1, Remembered DEF Rests
  <2> QED
    BY <2>1, <2>3, <2>4 DEF Rests, Justified
<1>5. CASE Opens(r) \/ Ends(r)
  BY <1>5, <1>a DEF Opens, Ends, Step, Rests, Idle
<1> QED
  BY <1>1, <1>2, <1>3, <1>4, <1>5 DEF Moves

LEMMA RestsNext == Shapes /\ (\A r \in Slots : Rests(r)) /\ [Next]_vars => (\A r \in Slots : Rests(r))'
<1> SUFFICES ASSUME Shapes, \A r \in Slots : Rests(r), [Next]_vars PROVE \A q \in Slots : Rests(q)'
  OBVIOUS
<1>1. CASE UNCHANGED vars
  BY <1>1 DEF vars, Rests, Justified
<1>2. CASE Remember
  <2> TAKE q \in Slots
  <2>1. CASE req' = req
    BY <1>2, <2>1, RestsOn DEF Shapes
  <2>2. ASSUME NEW r \in Slots, Moves(r), NothingElse PROVE Rests(q)'
    <3>1. q # r => req'[q] = req[q]
      BY <2>2, MovesOn DEF Shapes, TagShape
    <3> QED
      BY <1>2, <2>2, <3>1, RestsOn, MoveRests DEF Shapes
  <2>3. ASSUME NEW r \in Slots, Act(r) PROVE Rests(q)'
    <3>1. req' = [req EXCEPT ![r] = Idle] /\ DOMAIN req = Slots
      BY <2>3, ActMoves DEF Shapes, Ends, Step, Asked
    <3>2. CASE q = r
      BY <3>1, <3>2 DEF Rests, Idle
    <3>3. CASE q # r
      BY <1>2, <3>1, <3>3, RestsOn DEF Shapes
    <3> QED
      BY <3>2, <3>3
  <2> QED
    BY <2>1, <2>2, <2>3, ReqSteps
<1> QED
  BY <1>1, <1>2 DEF Next

-----------------------------------------------------------------------------
IInv == Shapes /\ Limits /\ (\A r \in Slots : Rests(r)) /\ SignInv /\ GrantInv

LEMMA AccessInit == Init => IInv
<1> SUFFICES ASSUME Init PROVE IInv
  OBVIOUS
<1>1. SignShape
  <2>1. Row("local", "Admin", {}, FALSE) \in Rows
    BY DEF Row, Rows, ROLES
  <2>2. entra \in [InEntra -> Claims]
    BY AccessAssumption DEF Init
  <2>3. signIn \in [Flows -> SignIns]
    BY DEF Init, SignIns
  <2> QED
    BY <2>1, <2>2, <2>3 DEF Init, SignShape
<1>2. Asked /\ SessionShape /\ TagShape
  BY DEF Init, Asked, Requests, SessionShape, TagShape
<1>3. GrantShape /\ GrantInv
  BY DEF Init, GrantShape, GrantInv, OneGrantPerEnvironment
<1>4. SignInv
  BY DEF Init, SignInv, LastWriter, Alone, SignInSticks, Idle
<1>5. Limits
  <2>1. Subscribers = {} /\ InFlight = {} /\ changes = 0 /\ claimChanges = 0
    BY DEF Init, Subscribers, InFlight, Idle
  <2> QED
    BY <2>1, FS_EmptySet, AccessAssumption DEF Limits
<1>6. \A r \in Slots : Rests(r)
  BY DEF Init, Rests, Idle
<1> QED
  BY <1>1, <1>2, <1>3, <1>4, <1>5, <1>6 DEF IInv, Shapes

LEMMA AccessKept == Spec => []IInv
<1>1. IInv /\ [Next]_vars => IInv'
  BY SignShapeNext, SessionNext, AskedNext, GrantNext, TagNext, LimitsNext, RestsNext, SignNext DEF IInv, Shapes
<1> QED
  BY AccessInit, <1>1, PTL DEF Spec

(* The tables and what is under way keep their shapes, no more streams are  *)
(* open than the broker takes, and a stored grant's tag is normalised.      *)
THEOREM AccessTypeCorrect == Spec => []TypeOK
<1>1. IInv => TypeOK
  <2> SUFFICES ASSUME IInv PROVE TypeOK
    OBVIOUS
  <2>1. SignShape /\ SessionShape /\ Asked /\ GrantShape /\ TagShape /\ Limits /\ GrantInv
    BY DEF IInv, Shapes
  <2>2. changes \in 0..MaxChanges /\ claimChanges \in 0..MaxClaims
    BY <2>1, FS_CardinalityType, AccessAssumption DEF GrantShape, Limits
  <2>3. grants \subseteq Grant
    BY <2>1, <2>2, AccessAssumption DEF GrantShape, Grants, Grant, GrantInv
  <2>4. ASSUME NEW f \in Flows
        PROVE  \/ signIn[f] \in {Idle, [pc |-> "away"]}
               \/ signIn[f] \in [pc : {"admitted"}, user : Users, via : {"local"}]
               \/ signIn[f] \in [pc : {"profiled", "provisioned"}, user : Users, role : ROLES,
                                 groups : Claims, alone : BOOLEAN]
    BY <2>1 DEF SignShape, SignIns, Admitted, Profiles
  <2>5. ASSUME NEW r \in Slots
        PROVE  \/ req[r] = Idle
               \/ req[r] \in [pc : {"open"}, op : Asks(r), session : SessionIds]
               \/ req[r] \in [pc : {"authenticated", "allowed"}, op : Asks(r), session : SessionIds, p : Principal]
               \/ req[r] \in [pc : {"tagged"}, op : Asks(r), session : SessionIds, p : Principal,
                              env : RawTags \cup {None}]
    BY <2>1 DEF Asked, Requests, Streams, Guarded, Tagged
  <2>6. /\ users \in [Users -> {NoUser} \cup
              [provider : {"local", "entra"}, role : ROLES, groups : SUBSET Memberships, disabled : BOOLEAN]]
        /\ entra \in [InEntra -> Claims]
        /\ sessions \in [SessionIds -> [user : Users \cup {None}, live : BOOLEAN]]
        /\ tag \in RawTags \cup {None} /\ Cardinality(Subscribers) <= MaxSubscribers
    BY <2>1 DEF SignShape, Rows, SessionShape, TagShape, Limits
  <2> QED
    BY <2>2, <2>3, <2>4, <2>5, <2>6 DEF TypeOK
<1> QED
  BY AccessKept, <1>1, PTL

(* requirePermission and requireInstancePermission: the guard reads the     *)
(* session, the environment and the grants one after the other, and what it *)
(* lets through rests on a role, or a grant for the environment, that the   *)
(* person had at some moment of the request; a grant never gives one of the *)
(* permissions that concern the whole estate.                               *)
THEOREM RightsWereHeld == Spec => []ActsOnRightsHeld
<1>1. IInv => ActsOnRightsHeld
  BY DEF IInv, Rests, Justified, ActsOnRightsHeld
<1> QED
  BY AccessKept, <1>1, PTL

(* saveGrant and deleteGrant: however the administrators' requests overlap, *)
(* a subject has one grant for an environment, and a row number names one   *)
(* grant.                                                                   *)
THEOREM GrantsAreUnique == Spec => []OneGrantPerEnvironment
<1>1. IInv => OneGrantPerEnvironment
  BY DEF IInv, GrantInv
<1> QED
  BY AccessKept, <1>1, PTL

(* completeSignIn and upsertEntraUser: when a sign-in that no other of the  *)
(* same person overlapped is given its session, the user's row says what    *)
(* Entra said in it, whatever administrators did meanwhile.                 *)
THEOREM SignInIsLast == Spec => []SignInSticks
<1>1. IInv => SignInSticks
  BY DEF IInv, SignInv
<1> QED
  BY AccessKept, <1>1, PTL

=============================================================================
