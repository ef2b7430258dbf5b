-------------------------- MODULE AdmissionProofs --------------------------
(***************************************************************************)
(* That the limiter keeps its windows and refuses nobody too early, and    *)
(* that requests are served by what the user's row says, for every number  *)
(* of callers, limit and window.                                           *)
(***************************************************************************)
EXTENDS Admission, FiniteSetTheorems, TLAPS

\* The sets of a key: all that is counted was called, and all of the last window that
\* was let through is counted.
KeysInv ==
  \A key \in Keys :
    /\ members[key] \subseteq called[key]
    /\ allowed[key] \subseteq called[key]
    /\ {a \in allowed[key] : a > now - Window} \subseteq members[key]

\* A request on its way carries its token's user, asks for the token's tenant as long as
\* the token is valid, and knows whether the row allows it.
RequestInv(k) ==
  k.phase # "idle" /\ k.route # "login" =>
    /\ k.who = k.token.user
    /\ Valid(k.token) => k.header \in {"none", k.token.tenant}
    /\ k.token # NoToken /\ Entitled(user[k.token.user], k.token, k.route) => k.was
    /\ k.phase = "serving" => k.was /\ k.header \in {"none", k.seen.tenant}

RequestsInv == \A c \in Callers : RequestInv(client[c])

\* A login that is to succeed has found its user.
LoginsInv ==
  \A c \in Callers :
    client[c].phase = "serving" /\ client[c].route = "login" =>
      client[c].who \in Users /\ client[c].seen \in Rows

\* The types hold at first.
LEMMA TypeInit == Init => TypeOK /\ LoginsInv
<1> SUFFICES ASSUME Init PROVE TypeOK /\ LoginsInv
  OBVIOUS
<1>1. now \in 0..MaxTime /\ changes \in 0..MaxChanges /\ user \in [Users -> Rows]
  BY AdmissionAssumption DEF Init
<1>2. Idle(NoToken) \in Clients
  BY DEF Idle, NoToken, NoRow, Clients, Routes, LimitedRoutes
<1>3. client \in [Callers -> Clients]
  BY <1>2 DEF Init
<1>4. LoginsInv
  BY DEF Init, LoginsInv, Idle
<1> QED BY <1>1, <1>3, <1>4 DEF Init, TypeOK

\* A caller's key is one of the keys.
LEMMA KeyIsAKey ==
  ASSUME TypeOK, NEW c \in Callers, NEW route \in Asked[c] \cap LimitedRoutes
  PROVE  KeyOf(c, route) \in Keys /\ KeyOf(c, route).route = route
<1> DEFINE token == client[c].token
<1>1. token \in Tokens \cup {NoToken}
  BY DEF TypeOK, Clients
<1>2. Valid(token) => token.user \in Users /\ token.tenant \in Tenants
  BY <1>1 DEF Valid, Tokens
<1>3. route \in LimitedRoutes \cap UNION {Asked[d] : d \in Callers}
  OBVIOUS
<1>4. AddressOf[c] \in {AddressOf[d] : d \in Callers}
  OBVIOUS
<1>5. KeyOf(c, route).of \in {AddressOf[d] : d \in Callers} \cup Users \cup Tenants
  <2>1. CASE route = "login" \/ ~Valid(token)
    BY <1>4, <2>1 DEF KeyOf
  <2>2. CASE route = "scan" /\ Valid(token)
    <3>1. KeyOf(c, route).of = token.tenant
      BY <2>2 DEF KeyOf
    <3> QED BY <1>2, <2>2, <3>1
  <2>3. CASE route \notin {"login", "scan"} /\ Valid(token)
    <3>1. KeyOf(c, route).of = token.user
      BY <2>3 DEF KeyOf
    <3> QED BY <1>2, <2>3, <3>1
  <2> QED BY <2>1, <2>2, <2>3
<1> QED BY <1>3, <1>5 DEF KeyOf, Keys

\* What arrives is a request.
LEMMA ArriveIsTyped ==
  ASSUME TypeOK, NEW c \in Callers, NEW route \in Asked[c], NEW header \in Tenants \cup {"none"},
         Arrive(c, route, header)
  PROVE  client' \in [Callers -> Clients]
<1> DEFINE token == client[c].token
<1>1. token \in Tokens \cup {NoToken} /\ client \in [Callers -> Clients]
  BY DEF TypeOK, Clients
<1>2. token.user \in Users \cup {"none"}
  BY <1>1 DEF Tokens, NoToken
<1>3. route \in Routes
  BY AdmissionAssumption
<1>4. (route # "login" /\ token # NoToken /\ Entitled(user[token.user], token, route)) \in BOOLEAN
  BY DEF Entitled
<1> QED BY <1>1, <1>2, <1>3, <1>4 DEF Arrive, Clients

\* Steps keep the types.
LEMMA TypeStep == TypeOK /\ LoginsInv /\ [Next]_vars => TypeOK'
<1> SUFFICES ASSUME TypeOK, LoginsInv, [Next]_vars PROVE TypeOK'
  OBVIOUS
<1> USE DEF TypeOK
<1>1. ASSUME NEW c \in Callers, NEW route \in Asked[c], NEW header \in Tenants \cup {"none"},
             Pass(c, route, header)
      PROVE  TypeOK'
  BY <1>1, ArriveIsTyped DEF Pass
<1>2. ASSUME NEW c \in Callers, NEW route \in Asked[c], NEW header \in Tenants \cup {"none"},
             Check(c, route, header)
      PROVE  TypeOK'
  <2>1. client' \in [Callers -> Clients]
    BY <1>2, ArriveIsTyped DEF Check
  <2>2. KeyOf(c, route) \in Keys
    BY <1>2, KeyIsAKey DEF Check
  <2>3. Counted(KeyOf(c, route)) \subseteq 0..now /\ now \in 0..now
    BY <2>2 DEF Counted
  <2> QED BY <1>2, <2>1, <2>2, <2>3 DEF Check
<1>3. ASSUME NEW key \in Keys, Expire(key) PROVE TypeOK'
  BY <1>3 DEF Expire
<1>4. ASSUME NEW c \in Callers, NEW token \in Tokens \cup {NoToken}, Answer(c, token)
      PROVE  client' \in [Callers -> Clients]
  BY <1>4 DEF Answer, Idle, NoRow, Clients, Routes, LimitedRoutes
<1>5. ASSUME NEW c \in Callers, NEW u \in Users, NEW right \in BOOLEAN, CheckPassword(c, u, right)
      PROVE  TypeOK'
  <2>1. client[c].token \in Tokens \cup {NoToken}
    BY DEF Clients
  <2>2. client' \in [Callers -> Clients]
    <3>1. CASE user[u].active /\ right
      <4>1. [client[c] EXCEPT !.phase = "serving", !.who = u, !.seen = user[u]] \in Clients
        BY DEF Clients
      <4>2. client' = [client EXCEPT ![c] = [client[c] EXCEPT !.phase = "serving", !.who = u, !.seen = user[u]]]
        BY <1>5, <3>1 DEF CheckPassword
      <4> QED BY <4>1, <4>2
    <3>2. CASE ~(user[u].active /\ right)
      BY <1>4, <1>5, <2>1, <3>2 DEF CheckPassword
    <3> QED BY <3>1, <3>2
  <2> QED BY <1>5, <2>2 DEF CheckPassword
<1>6. ASSUME NEW c \in Callers, IssueToken(c) PROVE TypeOK'
  <2>. DEFINE token == [user |-> client[c].who, tenant |-> client[c].seen.tenant, expires |-> now + TokenLife]
  <2>1. token \in Tokens \cup {NoToken}
    BY <1>6, AdmissionAssumption DEF IssueToken, LoginsInv, Tokens
  <2> QED BY <1>4, <1>6, <2>1 DEF IssueToken
<1>7. ASSUME NEW c \in Callers, Authorise(c) PROVE TypeOK'
  <2>1. client[c].token \in Tokens \cup {NoToken}
    BY DEF Clients
  <2>2. client' \in [Callers -> Clients]
    <3>1. CASE LetThrough(client[c].token, client[c].route)
      <4>1. user[client[c].token.user] \in Rows
        BY <2>1, <3>1 DEF LetThrough, Valid, Tokens
      <4>2. [client[c] EXCEPT !.phase = "serving", !.seen = user[client[c].token.user]] \in Clients
        BY <4>1 DEF Clients
      <4>3. client' = [client EXCEPT ![c] =
                         [client[c] EXCEPT !.phase = "serving", !.seen = user[client[c].token.user]]]
        BY <1>7, <3>1 DEF Authorise
      <4> QED BY <4>2, <4>3
    <3>2. CASE ~LetThrough(client[c].token, client[c].route)
      BY <1>4, <1>7, <2>1, <3>2 DEF Authorise
    <3> QED BY <3>1, <3>2
  <2> QED BY <1>7, <2>2 DEF Authorise
<1>8. ASSUME NEW c \in Callers, Serve(c) PROVE TypeOK'
  <2>1. client[c].token \in Tokens \cup {NoToken}
    BY DEF Clients
  <2> QED BY <1>4, <1>8, <2>1 DEF Serve
<1>9. ASSUME NEW u \in Users, Change(u) PROVE TypeOK'
  <2>1. PICK row \in Rows \ {user[u]} :
          /\ user' = [user EXCEPT ![u] = row]
          /\ client' = [c \in Callers |->
               [client[c] EXCEPT !.was = @ \/ Allows(row, u, client[c])]]
    BY <1>9 DEF Change
  <2>2. ASSUME NEW c \in Callers PROVE client'[c] \in Clients
    <3>1. (client[c].was \/ Allows(row, u, client[c])) \in BOOLEAN
      BY DEF Allows, Clients
    <3>2. \A was \in BOOLEAN : [client[c] EXCEPT !.was = was] \in Clients
      BY DEF Clients
    <3>3. client'[c] = [client[c] EXCEPT !.was = (client[c].was \/ Allows(row, u, client[c]))]
      BY <2>1 DEF Clients
    <3> HIDE DEF TypeOK
    <3> QED BY <3>1, <3>2, <3>3
  <2>3. client' \in [Callers -> Clients]
    BY <2>1, <2>2
  <2>4. changes' \in 0..MaxChanges
    BY <1>9, AdmissionAssumption DEF Change
  <2> QED BY <1>9, <2>1, <2>3, <2>4 DEF Change
<1>10. CASE Tick
  BY <1>10, AdmissionAssumption DEF Tick
<1>11. CASE UNCHANGED vars
  BY <1>11 DEF vars
<1> QED BY <1>1, <1>2, <1>3, <1>5, <1>6, <1>7, <1>8, <1>9, <1>10, <1>11 DEF Next

\* Steps keep what a login has found.
LEMMA LoginsStep == TypeOK /\ LoginsInv /\ [Next]_vars => LoginsInv'
<1> SUFFICES ASSUME TypeOK, LoginsInv, [Next]_vars, NEW c \in Callers,
                    client'[c].phase = "serving", client'[c].route = "login"
             PROVE  client'[c].who \in Users /\ client'[c].seen \in Rows
  BY DEF LoginsInv
<1>0. client \in [Callers -> Clients] /\ user \in [Users -> Rows]
  BY DEF TypeOK
<1>1. ASSUME NEW d \in Callers, NEW token, Answer(d, token) PROVE client[c] = client'[c]
  BY <1>0, <1>1 DEF Answer, Idle
<1>2. ASSUME NEW d \in Callers, NEW route, NEW header, Arrive(d, route, header) PROVE client[c] = client'[c]
  BY <1>0, <1>2 DEF Arrive
<1>3. ASSUME NEW d \in Callers, NEW u \in Users, NEW right, CheckPassword(d, u, right)
      PROVE  client'[c].who \in Users /\ client'[c].seen \in Rows
  <2>1. CASE user[u].active /\ right /\ c = d
    <3>1. client' = [client EXCEPT ![d] = [client[d] EXCEPT !.phase = "serving", !.who = u, !.seen = user[u]]]
      BY <1>3, <2>1 DEF CheckPassword
    <3>2. client'[c] = [client[d] EXCEPT !.phase = "serving", !.who = u, !.seen = user[u]]
      BY <1>0, <2>1, <3>1
    <3>3. client'[c].who = u /\ client'[c].seen = user[u]
      BY <1>0, <3>2 DEF Clients
    <3> QED BY <1>0, <3>3
  <2>2. CASE user[u].active /\ right /\ c # d
    <3>1. client'[c] = client[c]
      BY <1>0, <1>3, <2>2 DEF CheckPassword
    <3> QED BY <3>1 DEF LoginsInv
  <2>3. CASE ~(user[u].active /\ right)
    BY <1>1, <1>3, <2>3 DEF CheckPassword, LoginsInv
  <2> QED BY <2>1, <2>2, <2>3
<1>4. ASSUME NEW d \in Callers, Authorise(d) PROVE client[c] = client'[c]
  <2>1. CASE LetThrough(client[d].token, client[d].route)
    <3>1. client' = [client EXCEPT ![d] =
                       [client[d] EXCEPT !.phase = "serving", !.seen = user[client[d].token.user]]]
      BY <1>4, <2>1 DEF Authorise
    <3>2. c = d => client'[c].route = client[d].route
      BY <1>0, <3>1 DEF Clients
    <3> QED BY <1>0, <1>4, <3>1, <3>2 DEF Authorise
  <2>2. CASE ~LetThrough(client[d].token, client[d].route)
    BY <1>1, <1>4, <2>2 DEF Authorise
  <2> QED BY <2>1, <2>2
<1>5. ASSUME NEW u \in Users, Change(u)
      PROVE  client'[c].phase = client[c].phase /\ client'[c].route = client[c].route
             /\ client'[c].who = client[c].who /\ client'[c].seen = client[c].seen
  BY <1>0, <1>5 DEF Change, Clients
<1>6. CASE \E d \in Callers : \E route \in Asked[d], header \in Tenants \cup {"none"} :
             Pass(d, route, header) \/ Check(d, route, header)
  BY <1>2, <1>6 DEF Pass, Check, LoginsInv
<1>7. CASE UNCHANGED client
  BY <1>7 DEF LoginsInv
<1>8. ASSUME NEW d \in Callers, IssueToken(d) \/ Serve(d) PROVE client[c] = client'[c]
  BY <1>1, <1>8 DEF IssueToken, Serve
<1> QED BY <1>3, <1>4, <1>5, <1>6, <1>7, <1>8 DEF Next, vars, Expire, Tick, LoginsInv

\* The types are right in every state.
THEOREM TypeCorrect == Spec => []TypeOK
  BY TypeInit, TypeStep, LoginsStep, PTL DEF Spec

-----------------------------------------------------------------------------
(* The limiter *)

\* What a key holds is finite.
LEMMA TimesAreFinite ==
  ASSUME NEW n \in Nat, NEW times \in SUBSET (0..n)
  PROVE  IsFiniteSet(times)
<1>1. IsFiniteSet(0..n)
  BY FS_Interval
<1> QED BY <1>1, FS_Subset

\* At first nothing is counted.
LEMMA WindowsInit == Init => KeysInv /\ WindowIsKept /\ RefusalsAreDue
<1> SUFFICES ASSUME Init PROVE KeysInv /\ WindowIsKept /\ RefusalsAreDue
  OBVIOUS
<1>1. \A key \in Keys, t \in 0..now : WindowAt(t, allowed[key]) = {}
  BY DEF Init, WindowAt
<1>2. \A key \in Keys : Limit[key.route] \in Nat
  BY AdmissionAssumption DEF Keys
<1>3. WindowIsKept
  BY <1>1, <1>2, FS_EmptySet DEF WindowIsKept
<1>4. KeysInv /\ RefusalsAreDue
  BY DEF Init, KeysInv, RefusalsAreDue
<1> QED BY <1>3, <1>4

\* A call that the limiter answers, of the key itself.
LEMMA CalledKey ==
  ASSUME TypeOK, KeysInv, WindowIsKept, RefusalsAreDue,
         NEW c \in Callers, NEW route \in Asked[c], NEW header \in Tenants \cup {"none"},
         Check(c, route, header),
         NEW key \in Keys, key = KeyOf(c, route)
  PROVE  /\ members'[key] \subseteq called'[key]
         /\ allowed'[key] \subseteq called'[key]
         /\ {a \in allowed'[key] : a > now - Window} \subseteq members'[key]
         /\ \A t \in 0..now : Cardinality(WindowAt(t, allowed'[key])) <= Limit[route]
         /\ \A t \in called'[key] \ allowed'[key] :
              Cardinality(WindowAt(t, called'[key]) \ {t}) >= Limit[route]
<1> DEFINE counted == Counted(key)
           fits == Cardinality(counted) <= Limit[route]
<1>0. /\ now \in Nat /\ Window \in Nat /\ Limit[route] \in Nat /\ route \in LimitedRoutes
      /\ members[key] \in SUBSET (0..now) /\ allowed[key] \in SUBSET (0..now)
      /\ called[key] \in SUBSET (0..now)
  BY AdmissionAssumption DEF TypeOK, Check
<1>1. /\ members'[key] = counted
      /\ called'[key] = called[key] \cup {now}
      /\ allowed'[key] = IF fits THEN allowed[key] \cup {now} ELSE allowed[key]
  BY DEF Check, TypeOK
<1>2. key.route = route
  BY <1>0, KeyIsAKey
<1>3. counted = {m \in members[key] : m > now - Window} \cup {now}
  BY DEF Counted
<1>4. IsFiniteSet(counted) /\ Cardinality(counted) \in Nat
  <2>1. counted \in SUBSET (0..now)
    BY <1>0, <1>3
  <2> QED BY <1>0, <2>1, TimesAreFinite, FS_CardinalityType
<1>5. /\ members[key] \subseteq called[key] /\ allowed[key] \subseteq called[key]
      /\ {a \in allowed[key] : a > now - Window} \subseteq members[key]
  BY DEF KeysInv
<1>6. members'[key] \subseteq called'[key] /\ allowed'[key] \subseteq called'[key]
  <2> HIDE DEF fits
  <2>1. members'[key] \subseteq called'[key]
    BY <1>1, <1>3, <1>5
  <2>2. allowed'[key] \subseteq called'[key]
    BY <1>1, <1>5
  <2> QED BY <2>1, <2>2
<1>7. {a \in allowed'[key] : a > now - Window} \subseteq counted
  BY <1>1, <1>3, <1>5
<1>8. ASSUME NEW t \in 0..now PROVE Cardinality(WindowAt(t, allowed'[key])) <= Limit[route]
  <2>1. CASE fits /\ t = now
    <3>1. WindowAt(t, allowed'[key]) \subseteq counted
      BY <1>7, <2>1 DEF WindowAt
    <3>2. Cardinality(WindowAt(t, allowed'[key])) \in Nat
          /\ Cardinality(WindowAt(t, allowed'[key])) <= Cardinality(counted)
      BY <1>4, <3>1, FS_Subset, FS_CardinalityType
    <3> QED BY <1>0, <1>4, <2>1, <3>2
  <2>2. CASE ~(fits /\ t = now)
    <3>1. WindowAt(t, allowed'[key]) = WindowAt(t, allowed[key])
      BY <1>0, <1>1, <2>2 DEF WindowAt
    <3> QED BY <1>2, <3>1 DEF WindowIsKept
  <2> QED BY <2>1, <2>2
<1>9. ASSUME NEW t \in called'[key] \ allowed'[key]
      PROVE  Cardinality(WindowAt(t, called'[key]) \ {t}) >= Limit[route]
  <2>1. CASE t \in called[key]
    <3>1. t \notin allowed[key] /\ t \in 0..now
      BY <1>0, <1>1, <2>1
    <3>2. WindowAt(t, called'[key]) \ {t} = WindowAt(t, called[key]) \ {t}
      BY <1>0, <1>1, <3>1 DEF WindowAt
    <3> QED BY <1>2, <2>1, <3>1, <3>2 DEF RefusalsAreDue
  <2>2. CASE t \notin called[key]
    <3>1. t = now /\ ~fits
      BY <1>1, <2>2
    <3>2. counted \ {now} \subseteq WindowAt(t, called'[key]) \ {t}
      BY <1>0, <1>1, <1>3, <1>5, <3>1 DEF WindowAt
    <3>3. IsFiniteSet(WindowAt(t, called'[key]) \ {t})
      <4>1. WindowAt(t, called'[key]) \ {t} \in SUBSET (0..now)
        BY <1>0, <1>1 DEF WindowAt
      <4> QED BY <1>0, <4>1, TimesAreFinite
    <3>4. Cardinality(counted \ {now}) = Cardinality(counted) - 1
      BY <1>3, <1>4, FS_RemoveElement
    <3>5. Cardinality(counted \ {now}) <= Cardinality(WindowAt(t, called'[key]) \ {t})
          /\ Cardinality(WindowAt(t, called'[key]) \ {t}) \in Nat
      BY <3>2, <3>3, FS_Subset, FS_CardinalityType
    <3> QED BY <1>0, <1>4, <3>1, <3>4, <3>5
  <2> QED BY <2>1, <2>2
<1> QED BY <1>1, <1>6, <1>7, <1>8, <1>9

\* A step that leaves a key's calls alone, and counts no less of them than the window has.
LEMMA KeyLeftAlone ==
  ASSUME TypeOK, KeysInv, WindowIsKept, RefusalsAreDue, TypeOK', NEW key \in Keys,
         now' \in {now, now + 1},
         called'[key] = called[key], allowed'[key] = allowed[key],
         members'[key] \subseteq members[key],
         \A m \in members[key] \ members'[key] : m <= now' - Window
  PROVE  /\ members'[key] \subseteq called'[key]
         /\ allowed'[key] \subseteq called'[key]
         /\ {a \in allowed'[key] : a > now' - Window} \subseteq members'[key]
         /\ \A t \in 0..now' : Cardinality(WindowAt(t, allowed'[key])) <= Limit[key.route]
         /\ \A t \in called'[key] \ allowed'[key] :
              Cardinality(WindowAt(t, called'[key]) \ {t}) >= Limit[key.route]
<1>0. /\ now \in Nat /\ Window \in Nat /\ Limit[key.route] \in Nat
      /\ members[key] \in SUBSET (0..now) /\ allowed[key] \in SUBSET (0..now)
  <2>1. key.route \in LimitedRoutes
    BY DEF Keys
  <2>2. Limit[key.route] \in Nat
    BY <2>1, AdmissionAssumption
  <2> QED BY <2>2, AdmissionAssumption DEF TypeOK
<1>1. {a \in allowed[key] : a > now' - Window} \subseteq members'[key]
  <2>1. {a \in allowed[key] : a > now - Window} \subseteq members[key]
    BY DEF KeysInv
  <2> QED BY <1>0, <2>1
<1>2. ASSUME NEW t \in 0..now' PROVE Cardinality(WindowAt(t, allowed[key])) <= Limit[key.route]
  <2>1. CASE t \in 0..now
    BY <2>1 DEF WindowIsKept
  <2>2. CASE t \notin 0..now
    <3>1. WindowAt(t, allowed[key]) \subseteq WindowAt(now, allowed[key])
      BY <1>0, <2>2 DEF WindowAt
    <3>2. IsFiniteSet(WindowAt(now, allowed[key]))
      <4>1. WindowAt(now, allowed[key]) \in SUBSET (0..now)
        BY <1>0 DEF WindowAt
      <4> QED BY <1>0, <4>1, TimesAreFinite
    <3>3. Cardinality(WindowAt(now, allowed[key])) <= Limit[key.route]
      BY <1>0 DEF WindowIsKept
    <3> QED BY <1>0, <3>1, <3>2, <3>3, FS_Subset, FS_CardinalityType
  <2> QED BY <2>1, <2>2
<1>3. members'[key] \subseteq called[key] /\ allowed[key] \subseteq called[key]
  BY DEF KeysInv
<1> QED BY <1>1, <1>2, <1>3 DEF RefusalsAreDue

\* Steps keep the windows.
LEMMA WindowsStep ==
  TypeOK /\ TypeOK' /\ KeysInv /\ WindowIsKept /\ RefusalsAreDue /\ [Next]_vars =>
    KeysInv' /\ WindowIsKept' /\ RefusalsAreDue'
<1> SUFFICES ASSUME TypeOK, TypeOK', KeysInv, WindowIsKept, RefusalsAreDue, [Next]_vars
             PROVE  KeysInv' /\ WindowIsKept' /\ RefusalsAreDue'
  OBVIOUS
<1> DEFINE Kept(key) ==
      /\ members'[key] \subseteq called'[key]
      /\ allowed'[key] \subseteq called'[key]
      /\ {a \in allowed'[key] : a > now' - Window} \subseteq members'[key]
      /\ \A t \in 0..now' : Cardinality(WindowAt(t, allowed'[key])) <= Limit[key.route]
      /\ \A t \in called'[key] \ allowed'[key] :
           Cardinality(WindowAt(t, called'[key]) \ {t}) >= Limit[key.route]
<1> SUFFICES ASSUME NEW key \in Keys PROVE Kept(key)
  BY DEF KeysInv, WindowIsKept, RefusalsAreDue, WindowAt
<1>0. now \in Nat /\ Window \in Nat /\ members[key] \in SUBSET (0..now)
  BY AdmissionAssumption DEF TypeOK
<1>1. ASSUME NEW c \in Callers, NEW route \in Asked[c], NEW header \in Tenants \cup {"none"},
             Check(c, route, header)
      PROVE  Kept(key)
  <2>1. now' = now
    BY <1>1 DEF Check
  <2>2. CASE key = KeyOf(c, route)
    <3>1. key.route = route
      BY <1>1, <2>2, KeyIsAKey DEF Check
    <3> QED BY <1>1, <2>1, <2>2, <3>1, CalledKey
  <2>3. CASE key # KeyOf(c, route)
    <3>1. called'[key] = called[key] /\ allowed'[key] = allowed[key] /\ members'[key] = members[key]
      BY <1>1, <2>3 DEF Check, TypeOK
    <3> QED BY <2>1, <3>1, KeyLeftAlone
  <2> QED BY <2>2, <2>3
<1>2. ASSUME NEW other \in Keys, Expire(other) PROVE Kept(key)
  <2>1. now' = now /\ called' = called /\ allowed' = allowed
    BY <1>2 DEF Expire
  <2>2. members'[key] \subseteq members[key]
    BY <1>2 DEF Expire, TypeOK
  <2>3. \A m \in members[key] \ members'[key] : m <= now' - Window
    BY <1>0, <1>2, <2>1 DEF Expire, TypeOK
  <2> QED BY <2>1, <2>2, <2>3, KeyLeftAlone
<1>3. CASE UNCHANGED <<members, called, allowed>> /\ now' \in {now, now + 1}
  BY <1>3, KeyLeftAlone
<1>4. ASSUME NEW c \in Callers, NEW route, NEW header, Pass(c, route, header) PROVE Kept(key)
  BY <1>3, <1>4 DEF Pass
<1>5. ASSUME NEW c \in Callers, NEW u, NEW right,
             CheckPassword(c, u, right) \/ IssueToken(c) \/ Authorise(c) \/ Serve(c)
      PROVE  Kept(key)
  BY <1>3, <1>5 DEF CheckPassword, IssueToken, Authorise, Serve
<1>6. ASSUME NEW u, Change(u) PROVE Kept(key)
  BY <1>3, <1>6 DEF Change
<1>7. CASE Tick
  BY <1>3, <1>7 DEF Tick
<1>8. CASE UNCHANGED vars
  BY <1>3, <1>8 DEF vars
<1> HIDE DEF Kept
<1> QED BY <1>1, <1>2, <1>4, <1>5, <1>6, <1>7, <1>8 DEF Next

\* The limiter lets through no more than the limit in any window.
THEOREM WindowKept == Spec => []WindowIsKept
<1>1. Init => TypeOK /\ LoginsInv /\ KeysInv /\ WindowIsKept /\ RefusalsAreDue
  BY TypeInit, WindowsInit
<1>2. TypeOK /\ LoginsInv /\ KeysInv /\ WindowIsKept /\ RefusalsAreDue /\ [Next]_vars =>
        (TypeOK /\ LoginsInv /\ KeysInv /\ WindowIsKept /\ RefusalsAreDue)'
  BY TypeStep, LoginsStep, WindowsStep
<1> QED BY <1>1, <1>2, PTL DEF Spec

\* It refuses nobody before that.
THEOREM RefusalsDue == Spec => []RefusalsAreDue
<1>1. Init => TypeOK /\ LoginsInv /\ KeysInv /\ WindowIsKept /\ RefusalsAreDue
  BY TypeInit, WindowsInit
<1>2. TypeOK /\ LoginsInv /\ KeysInv /\ WindowIsKept /\ RefusalsAreDue /\ [Next]_vars =>
        (TypeOK /\ LoginsInv /\ KeysInv /\ WindowIsKept /\ RefusalsAreDue)'
  BY TypeStep, LoginsStep, WindowsStep
<1> QED BY <1>1, <1>2, PTL DEF Spec

-----------------------------------------------------------------------------
(* Who is served *)

\* Nobody has asked for anything at first.
LEMMA RequestsInit == Init => RequestsInv
  BY DEF Init, RequestsInv, RequestInv, Idle

\* A request that has just arrived.
LEMMA ArrivalIsKnown ==
  ASSUME TypeOK, NEW c \in Callers, NEW route, NEW header,
         Meant(c, header), Arrive(c, route, header), UNCHANGED <<user, now>>
  PROVE  RequestInv(client[c])'
<1> DEFINE token == client[c].token
<1>1. client'[c] =
        [token |-> token, phase |-> "admitted", route |-> route, header |-> header,
         who |-> token.user, seen |-> NoRow,
         was |-> route # "login" /\ token # NoToken /\ Entitled(user[token.user], token, route)]
  BY DEF Arrive, TypeOK
<1>2. /\ client'[c].token = token /\ client'[c].who = token.user /\ client'[c].header = header
      /\ client'[c].phase = "admitted" /\ client'[c].route = route
      /\ client'[c].was = (route # "login" /\ token # NoToken
                          /\ Entitled(user[token.user], token, route))
  BY <1>1
<1>3. Valid(client[c].token)' => header \in {"none", token.tenant}
  BY <1>2 DEF Meant, Valid
<1> QED BY <1>2, <1>3 DEF RequestInv, Entitled

\* A request that the caller still waits for, or that is not a request.
LEMMA RequestIsKept ==
  ASSUME TypeOK, NEW c \in Callers, RequestInv(client[c]), now' \in {now, now + 1},
         UNCHANGED user, client'[c] = client[c]
  PROVE  RequestInv(client[c])'
<1>1. client[c].token \in Tokens \cup {NoToken} /\ now \in Nat
  BY DEF TypeOK, Clients
<1>2. Valid(client[c].token)' => Valid(client[c].token)
  BY <1>1 DEF Valid, Tokens
<1> QED BY <1>2 DEF RequestInv, Entitled

\* A caller that was answered waits for nothing.
LEMMA AnsweredIsKept ==
  ASSUME TypeOK, NEW c \in Callers, NEW d \in Callers, RequestInv(client[c]),
         NEW token, Answer(d, token), UNCHANGED <<user, now>>
  PROVE  RequestInv(client[c])'
<1>1. CASE c = d
  <2>1. client'[c].phase = "idle"
    BY <1>1 DEF Answer, Idle, TypeOK
  <2> QED BY <2>1 DEF RequestInv
<1>2. CASE c # d
  <2>1. client'[c] = client[c]
    BY <1>2 DEF Answer, TypeOK
  <2> QED BY <2>1, RequestIsKept
<1> QED BY <1>1, <1>2

\* Who is authorised is entitled.
LEMMA AuthorisedIsKept ==
  ASSUME TypeOK, NEW c \in Callers, RequestInv(client[c]), Authorise(c)
  PROVE  RequestInv(client[c])'
<1> DEFINE k == client[c]
           token == client[c].token
<1>0. k \in Clients /\ client \in [Callers -> Clients]
  BY DEF TypeOK
<1>1. CASE LetThrough(token, k.route)
  <2>1. client' = [client EXCEPT ![c] = [k EXCEPT !.phase = "serving", !.seen = user[token.user]]]
    BY <1>1 DEF Authorise
  <2>2. client'[c] = [k EXCEPT !.phase = "serving", !.seen = user[token.user]]
    BY <1>0, <2>1
  <2>3. /\ client'[c].token = token /\ client'[c].who = k.who /\ client'[c].header = k.header
        /\ client'[c].was = k.was /\ client'[c].route = k.route
        /\ client'[c].seen = user[token.user]
    BY <1>0, <2>2 DEF Clients
  <2>4. k.phase = "admitted" /\ k.route # "login" /\ UNCHANGED <<user, now>>
    BY DEF Authorise
  <2>5. Valid(token) /\ token # NoToken /\ Entitled(user[token.user], token, k.route)
    BY <1>1 DEF LetThrough, Valid
  <2>6. k.was /\ k.header \in {"none", token.tenant} /\ k.who = token.user
    BY <2>4, <2>5 DEF RequestInv
  <2>7. user[token.user].tenant = token.tenant
    BY <2>5 DEF Entitled
  <2> QED BY <2>3, <2>6, <2>7 DEF RequestInv
<1>2. CASE ~LetThrough(token, k.route)
  BY <1>2, AnsweredIsKept DEF Authorise
<1> QED BY <1>1, <1>2

\* A changed row is remembered by the requests that it allows.
LEMMA ChangedIsKept ==
  ASSUME TypeOK, NEW c \in Callers, RequestInv(client[c]), NEW u \in Users, Change(u)
  PROVE  RequestInv(client[c])'
<1> DEFINE k == client[c]
           token == client[c].token
<1>0. k \in Clients /\ token \in Tokens \cup {NoToken} /\ user \in [Users -> Rows]
  BY DEF TypeOK, Clients
<1>1. PICK row \in Rows \ {user[u]} :
        /\ user' = [user EXCEPT ![u] = row]
        /\ client' = [d \in Callers |->
             [client[d] EXCEPT !.was = @ \/ Allows(row, u, client[d])]]
  BY DEF Change
<1>2. client'[c] = [k EXCEPT !.was = k.was \/ Allows(row, u, k)]
  BY <1>1
<1>3. /\ client'[c].token = token /\ client'[c].who = k.who /\ client'[c].header = k.header
      /\ client'[c].route = k.route /\ client'[c].phase = k.phase /\ client'[c].seen = k.seen
      /\ client'[c].was = (k.was \/ Allows(row, u, k))
  BY <1>0, <1>2 DEF Clients
<1>4. now' = now
  BY DEF Change
<1> SUFFICES ASSUME k.phase # "idle", k.route # "login"
             PROVE  /\ client'[c].who = token.user
                    /\ Valid(token)' => k.header \in {"none", token.tenant}
                    /\ token # NoToken /\ Entitled(user'[token.user], token, k.route) => client'[c].was
                    /\ k.phase = "serving" => client'[c].was /\ k.header \in {"none", k.seen.tenant}
  BY <1>3 DEF RequestInv, Entitled
<1>5. /\ k.who = token.user
      /\ Valid(token) => k.header \in {"none", token.tenant}
      /\ token # NoToken /\ Entitled(user[token.user], token, k.route) => k.was
      /\ k.phase = "serving" => k.was /\ k.header \in {"none", k.seen.tenant}
  BY DEF RequestInv
<1>6. Valid(token)' => Valid(token)
  BY <1>3, <1>4 DEF Valid
<1>7. ASSUME token # NoToken, Entitled(user'[token.user], token, k.route) PROVE client'[c].was
  <2>1. CASE token.user = u
    <3>1. user'[token.user] = row
      BY <1>0, <1>1, <2>1
    <3>2. Allows(row, u, k)
      BY <1>5, <1>7, <2>1, <3>1 DEF Allows
    <3> QED BY <1>3, <3>2
  <2>2. CASE token.user # u
    <3>1. user'[token.user] = user[token.user]
      BY <1>0, <1>1, <1>7, <2>2 DEF Tokens
    <3> QED BY <1>3, <1>5, <1>7, <3>1
  <2> QED BY <2>1, <2>2
<1> QED BY <1>3, <1>5, <1>6, <1>7

\* Steps keep what is known of the requests.
LEMMA RequestsStep == TypeOK /\ RequestsInv /\ [Next]_vars => RequestsInv'
<1> SUFFICES ASSUME TypeOK, RequestsInv, [Next]_vars, NEW c \in Callers PROVE RequestInv(client[c])'
  BY DEF RequestsInv
<1>0. RequestInv(client[c]) /\ client \in [Callers -> Clients]
  BY DEF RequestsInv, TypeOK
<1>1. ASSUME NEW d \in Callers, NEW route, NEW header, Meant(d, header), Arrive(d, route, header),
             UNCHANGED <<user, now>>
      PROVE  RequestInv(client[c])'
  <2>1. CASE c = d
    BY <1>1, <2>1, ArrivalIsKnown
  <2>2. CASE c # d
    <3>1. client'[c] = client[c]
      BY <1>0, <1>1, <2>2 DEF Arrive
    <3> QED BY <1>0, <1>1, <3>1, RequestIsKept
  <2> QED BY <2>1, <2>2
<1>2. CASE UNCHANGED <<client, user>> /\ now' \in {now, now + 1}
  BY <1>0, <1>2, RequestIsKept
<1>3. ASSUME NEW d \in Callers, NEW route, NEW header, Pass(d, route, header)
      PROVE  RequestInv(client[c])'
  BY <1>1, <1>3 DEF Pass
<1>4. ASSUME NEW d \in Callers, NEW route, NEW header, Check(d, route, header)
      PROVE  RequestInv(client[c])'
  <2>1. CASE UNCHANGED client
    BY <1>2, <1>4, <2>1 DEF Check
  <2>2. CASE Arrive(d, route, header)
    BY <1>1, <1>4, <2>2 DEF Check
  <2> QED BY <1>4, <2>1, <2>2 DEF Check
<1>5. ASSUME NEW d \in Callers, NEW u \in Users, NEW right, CheckPassword(d, u, right)
      PROVE  RequestInv(client[c])'
  <2>1. UNCHANGED <<user, now>>
    BY <1>5 DEF CheckPassword
  <2>2. CASE user[u].active /\ right
    <3>1. client' = [client EXCEPT ![d] = [client[d] EXCEPT !.phase = "serving", !.who = u, !.seen = user[u]]]
      BY <1>5, <2>2 DEF CheckPassword
    <3>2. CASE c = d
      <4>1. client'[c].route = client[c].route
        BY <1>0, <3>1, <3>2 DEF Clients
      <4>2. client'[c].route = "login"
        BY <1>5, <3>2, <4>1 DEF CheckPassword
      <4> QED BY <4>2 DEF RequestInv
    <3>3. CASE c # d
      <4>1. client'[c] = client[c]
        BY <1>0, <3>1, <3>3
      <4> QED BY <1>0, <2>1, <4>1, RequestIsKept
    <3> QED BY <3>2, <3>3
  <2>3. CASE ~(user[u].active /\ right)
    BY <1>0, <1>5, <2>1, <2>3, AnsweredIsKept DEF CheckPassword
  <2> QED BY <2>2, <2>3
<1>6. ASSUME NEW d \in Callers, IssueToken(d) \/ Serve(d) PROVE RequestInv(client[c])'
  BY <1>0, <1>6, AnsweredIsKept DEF IssueToken, Serve
<1>7. ASSUME NEW d \in Callers, Authorise(d) PROVE RequestInv(client[c])'
  <2>1. CASE c = d
    BY <1>0, <1>7, <2>1, AuthorisedIsKept
  <2>2. CASE c # d
    <3>1. client'[c] = client[c] /\ UNCHANGED <<user, now>>
      BY <1>0, <1>7, <2>2 DEF Authorise, Answer
    <3> QED BY <1>0, <3>1, RequestIsKept
  <2> QED BY <2>1, <2>2
<1>8. ASSUME NEW u \in Users, Change(u) PROVE RequestInv(client[c])'
  BY <1>0, <1>8, ChangedIsKept
<1> QED BY <1>2, <1>3, <1>4, <1>5, <1>6, <1>7, <1>8 DEF Next, vars, Expire, Tick

\* Whoever is served is entitled to it.
THEOREM ServedEntitled == Spec => []ServedAreEntitled
<1>1. Init => TypeOK /\ LoginsInv /\ RequestsInv
  BY TypeInit, RequestsInit
<1>2. TypeOK /\ LoginsInv /\ RequestsInv /\ [Next]_vars => (TypeOK /\ LoginsInv /\ RequestsInv)'
  BY TypeStep, LoginsStep, RequestsStep
<1>3. RequestsInv => ServedAreEntitled
  BY DEF RequestsInv, RequestInv, ServedAreEntitled
<1> QED BY <1>1, <1>2, <1>3, PTL DEF Spec
=============================================================================
