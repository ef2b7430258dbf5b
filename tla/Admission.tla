----------------------------- MODULE Admission -----------------------------
(***************************************************************************)
(* How the API admits requests.  The middlewares compare the tenant that   *)
(* is asked for with the token's and count the calls of a key in a window  *)
(* of time, in a sorted set of Redis whose members are milliseconds.  The  *)
(* handler then reads the user's row and asks for a permission of its      *)
(* role; the row may change before the answer is given.                    *)
(*                                                                         *)
(* One process serves all requests and its clock does not step back: a     *)
(* limiter's check is one step of its event loop.                          *)
(***************************************************************************)
EXTENDS Integers, FiniteSets

CONSTANTS
  Callers,     \* clients, each with a request at a time
  AddressOf,   \* the address each calls from
  Users, Tenants,
  Rows,        \* the rows that users may have
  Limit,       \* calls in a window, by route
  Window,      \* the limiter's window
  TokenLife,   \* how long a token is valid
  Asked,       \* a bound: the routes that each calls
  MaxTime,     \* a bound: of the clock
  MaxChanges   \* a bound: how often users' rows change

LimitedRoutes == {"login", "analyze", "generate report", "scan"}

Routes == LimitedRoutes \cup {"list findings", "list audit logs"}

Roles == {"ADMIN", "APPROVER", "ANALYST", "VIEWER"}

ASSUME AdmissionAssumption ==
  /\ Rows \subseteq [active: BOOLEAN, role: Roles, tenant: Tenants]
  /\ Asked \in [Callers -> SUBSET Routes]
  /\ Limit \in [LimitedRoutes -> Nat \ {0}]
  /\ Window \in Nat \ {0}
  /\ {TokenLife, MaxTime, MaxChanges} \subseteq Nat

-----------------------------------------------------------------------------
(* Permissions *)

RequiredPermission(route) ==
  CASE route = "analyze" -> "ai:generate"
    [] route = "generate report" -> "reports:generate"
    [] route = "scan" -> "inventory:scan"
    [] route = "list findings" -> "findings:read"
    [] route = "list audit logs" -> "audit:read"

ViewerPermissions == {"findings:read"}

AnalystPermissions == ViewerPermissions \cup {"ai:generate", "reports:generate", "inventory:scan"}

\* An approver has no permission over the REST API.
PermissionsForRole(role) ==
  CASE role = "ADMIN" -> AnalystPermissions \cup {"audit:read"}
    [] role = "ANALYST" -> AnalystPermissions
    [] role = "VIEWER" -> ViewerPermissions
    [] OTHER -> {}

-----------------------------------------------------------------------------

VARIABLES
  now,      \* milliseconds
  members,  \* Redis: the milliseconds that are counted, by key
  user,     \* the users' rows
  client,   \* what each caller holds and is doing
  changes,  \* how often rows have changed; a bound, read by no code
  called,   \* the milliseconds in which a key was called; read by no code
  allowed   \* those in which it was let through; read by no code

vars == <<now, members, user, client, changes, called, allowed>>

Tokens == [user: Users, tenant: Tenants, expires: Nat]

NoToken == [user |-> "none", tenant |-> "none", expires |-> 0]

NoRow == [active |-> FALSE, role |-> "none", tenant |-> "none"]

\* A key is of a route, and of an address, a user or a tenant.
Keys ==
  [route: LimitedRoutes \cap UNION {Asked[c] : c \in Callers},
   of: {AddressOf[c] : c \in Callers} \cup Users \cup Tenants]

\* header: the tenant that X-Tenant-ID names.  who: the user it is from.  seen: the row
\* that was read for it.  was: that row has allowed the request at some time since it
\* came; read by no code.
Clients ==
  [token: Tokens \cup {NoToken}, phase: {"idle", "admitted", "serving"},
   route: Routes, header: Tenants \cup {"none"}, who: Users \cup {"none"},
   seen: Rows \cup {NoRow}, was: BOOLEAN]

\* A caller that waits for no answer.
Idle(token) ==
  [token |-> token, phase |-> "idle", route |-> "login", header |-> "none",
   who |-> "none", seen |-> NoRow, was |-> FALSE]

Init ==
  /\ now = 0
  /\ members = [k \in Keys |-> {}]
  /\ user \in [Users -> Rows]
  /\ client = [c \in Callers |-> Idle(NoToken)]
  /\ changes = 0
  /\ called = [k \in Keys |-> {}]
  /\ allowed = [k \in Keys |-> {}]

\* What decode_access_token returns.
Valid(token) == token # NoToken /\ now < token.expires

\* The token's user may have this, by this row.
Entitled(row, token, route) ==
  /\ row.active
  /\ row.tenant = token.tenant
  /\ RequiredPermission(route) \in PermissionsForRole(row.role)

-----------------------------------------------------------------------------
(* The middlewares *)

KeyOf(c, route) ==
  LET token == client[c].token IN
  [route |-> route,
   of |-> IF route = "login" \/ ~Valid(token) THEN AddressOf[c]
          ELSE IF route = "scan" THEN token.tenant
          ELSE token.user]

\* Mutant of Counted: what is a window old counts still.
CountedBeyond(key) == {m \in members[key] : m >= now - Window} \cup {now}

\* Mutant of Counted: the window is a millisecond short.
CountedShort(key) == {m \in members[key] : m > now - Window + 1} \cup {now}

\* Mutant of Counted: members are the times at which calls leave the window.
CountedByEnd(key) == {m \in members[key] : m > now} \cup {now + Window}

\* The set once the old have been removed and this call is added.
Counted(key) == {m \in members[key] : m > now - Window} \cup {now}

\* A request whose token is of another tenant than the one it asks for is turned away,
\* and nothing changes.
Meant(c, header) ==
  ~Valid(client[c].token) \/ header \in {"none", client[c].token.tenant}

\* A request goes to its handler.
Arrive(c, route, header) ==
  LET token == client[c].token IN
  client' = [client EXCEPT ![c] =
    [token |-> token, phase |-> "admitted", route |-> route, header |-> header,
     who |-> token.user, seen |-> NoRow,
     was |-> route # "login" /\ token # NoToken /\ Entitled(user[token.user], token, route)]]

\* A request that no rule limits.
Pass(c, route, header) ==
  /\ client[c].phase = "idle" /\ Meant(c, header)
  /\ route \notin LimitedRoutes
  /\ Arrive(c, route, header)
  /\ UNCHANGED <<now, members, user, changes, called, allowed>>

\* The limiter counts the call, and those that it refuses too.  Calls of one millisecond
\* are one member.
Check(c, route, header) ==
  LET key == KeyOf(c, route)
      counted == Counted(key)
      fits == Cardinality(counted) <= Limit[route]
  IN
  /\ client[c].phase = "idle" /\ Meant(c, header)
  /\ route \in LimitedRoutes
  /\ members' = [members EXCEPT ![key] = counted]
  /\ called' = [called EXCEPT ![key] = @ \cup {now}]
  /\ allowed' = [allowed EXCEPT ![key] = IF fits THEN @ \cup {now} ELSE @]
  /\ IF fits THEN Arrive(c, route, header) ELSE UNCHANGED client
  /\ UNCHANGED <<now, user, changes>>

\* Redis drops a key that was not called for longer than the window.
Expire(key) ==
  /\ members[key] # {}
  /\ \A m \in members[key] : m < now - Window
  /\ members' = [members EXCEPT ![key] = {}]
  /\ UNCHANGED <<now, user, client, changes, called, allowed>>

-----------------------------------------------------------------------------
(* The handlers *)

Answer(c, token) == client' = [client EXCEPT ![c] = Idle(token)]

\* The row is read and the password compared.
CheckPassword(c, u, right) ==
  /\ client[c].phase = "admitted" /\ client[c].route = "login"
  /\ IF user[u].active /\ right
     THEN client' = [client EXCEPT ![c] = [@ EXCEPT !.phase = "serving", !.who = u, !.seen = user[u]]]
     ELSE Answer(c, client[c].token)
  /\ UNCHANGED <<now, members, user, changes, called, allowed>>

\* The token is made from the row that was read.
IssueToken(c) ==
  /\ client[c].phase = "serving" /\ client[c].route = "login"
  /\ Answer(c, [user |-> client[c].who, tenant |-> client[c].seen.tenant, expires |-> now + TokenLife])
  /\ UNCHANGED <<now, members, user, changes, called, allowed>>

\* Mutant of LetThrough: the tenant of the token is not compared with that of the row.
LetThroughByRow(token, route) ==
  /\ Valid(token)
  /\ user[token.user].active
  /\ RequiredPermission(route) \in PermissionsForRole(user[token.user].role)

\* What get_current_user and require_permission ask.
LetThrough(token, route) == Valid(token) /\ Entitled(user[token.user], token, route)

\* The row is read.
Authorise(c) ==
  LET token == client[c].token IN
  /\ client[c].phase = "admitted" /\ client[c].route # "login"
  /\ IF LetThrough(token, client[c].route)
     THEN client' = [client EXCEPT ![c] = [@ EXCEPT !.phase = "serving", !.seen = user[token.user]]]
     ELSE Answer(c, token)
  /\ UNCHANGED <<now, members, user, changes, called, allowed>>

\* The handler does its work, in the tenant of the row that was read.
Serve(c) ==
  /\ client[c].phase = "serving" /\ client[c].route # "login"
  /\ Answer(c, client[c].token)
  /\ UNCHANGED <<now, members, user, changes, called, allowed>>

-----------------------------------------------------------------------------
(* The surroundings *)

\* The request waits for an answer, is from this user, and this row allows it.
Allows(row, u, k) ==
  /\ k.phase # "idle" /\ k.route # "login"
  /\ k.who = u
  /\ Entitled(row, k.token, k.route)

\* A user's row is changed in the database.
Change(u) ==
  /\ changes < MaxChanges
  /\ changes' = changes + 1
  /\ \E row \in Rows \ {user[u]} :
       /\ user' = [user EXCEPT ![u] = row]
       /\ client' = [c \in Callers |->
            [client[c] EXCEPT !.was = @ \/ Allows(row, u, client[c])]]
  /\ UNCHANGED <<now, members, called, allowed>>

Tick ==
  /\ now < MaxTime
  /\ now' = now + 1
  /\ UNCHANGED <<members, user, client, changes, called, allowed>>

Next ==
  \/ \E c \in Callers : \E route \in Asked[c], header \in Tenants \cup {"none"} :
       Pass(c, route, header) \/ Check(c, route, header)
  \/ \E key \in Keys : Expire(key)
  \/ \E c \in Callers, u \in Users, right \in BOOLEAN : CheckPassword(c, u, right)
  \/ \E c \in Callers : IssueToken(c) \/ Authorise(c) \/ Serve(c)
  \/ \E u \in Users : Change(u)
  \/ Tick

Spec == Init /\ [][Next]_vars

-----------------------------------------------------------------------------
(* Properties *)

TypeOK ==
  /\ now \in 0..MaxTime
  /\ members \in [Keys -> SUBSET (0..now)]
  /\ user \in [Users -> Rows]
  /\ client \in [Callers -> Clients]
  /\ changes \in 0..MaxChanges
  /\ called \in [Keys -> SUBSET (0..now)]
  /\ allowed \in [Keys -> SUBSET (0..now)]

\* The milliseconds of the window that ends at t.
WindowAt(t, times) == {a \in times : t - Window < a /\ a <= t}

\* Of no window of time, wherever it lies, more milliseconds are let through than the
\* limit says, though old members are removed and keys expire.  (security/rate_limit.py:21)
WindowIsKept ==
  \A key \in Keys, t \in 0..now :
    Cardinality(WindowAt(t, allowed[key])) <= Limit[key.route]

\* Who is refused has called in as many other milliseconds of the window as the limit
\* allows: who waits for as long as Retry-After says is let through.
\* (security/rate_limit.py:25)
RefusalsAreDue ==
  \A key \in Keys : \A t \in called[key] \ allowed[key] :
    Cardinality(WindowAt(t, called[key]) \ {t}) >= Limit[key.route]

\* A request is served only for a user whose row has allowed it at some time since it
\* came, whatever the token was made from, and in the tenant it asked for.
\* (auth/dependencies.py:34)
ServedAreEntitled ==
  \A c \in Callers :
    client[c].phase = "serving" /\ client[c].route # "login" =>
      /\ client[c].was
      /\ client[c].header \in {"none", client[c].seen.tenant}
=============================================================================
