-------------------------- MODULE CloudShellProofs --------------------------
(***************************************************************************)
(* What CloudShell promises for any connections, servers and lines, proved. *)
(***************************************************************************)
EXTENDS CloudShell, FiniteSetTheorems, TLAPS

-----------------------------------------------------------------------------
(* One connection: how its phase, its audit row and its effect go together *)

Before == {"closed", "open", "sent"}
Running == {"read", "written"}

\* Until its turn a command has left nothing; while it runs its audit row is
\* flushed and nothing is committed; after that the two go together.
AuditFollows(k) ==
  /\ k.phase \in Before => k.audit = "none" /\ ~k.effect
  /\ k.phase \in Running => k.audit = "flushed" /\ ~k.effect
  /\ k.phase = "acted" => k.audit = "RECEIVED"
  /\ k.phase = "answered" => k.audit \in FinalAudits \/ (k.poisoned /\ k.audit = "none" /\ ~k.effect)
  /\ k.phase = "dropped" => k.audit # "flushed" /\ (k.audit = "none" => ~k.effect)
  /\ k.effect => k.audit \notin {"REJECTED", "BLOCKED"}

\* What runs or has an effect was permitted.
RoleSuffices(k) ==
  k.phase \in Running \cup {"acted"} \/ k.effect => Entitled(k.role, k.line.name)

\* A status was read of a request only, and terraform runs for one only.
TargetIsKnown(k) ==
  /\ k.seen # "none" => k.phase \notin Before /\ k.line.target \in Numbers
  /\ k.runs => k.phase \in {"written", "acted"} /\ k.line.target \in Numbers
               /\ k.line.name = "terraform apply"

ConnectionSound(k) == k \in Connections /\ AuditFollows(k) /\ RoleSuffices(k) /\ TargetIsKnown(k)

ConnInv == TypeOK /\ \A c \in Conns : ConnectionSound(conn[c])

\* A connection without a command is sound.
LEMMA BlankIsSound ==
  ASSUME NEW role \in DOMAIN ROLE_RANK, NEW phase \in {"closed", "open"}, NEW poisoned \in BOOLEAN
  PROVE  ConnectionSound(Blank(phase, role, poisoned))
<1> DEFINE k == Blank(phase, role, poisoned)
<1>1. k \in Connections
  BY DEF Blank, Connections
<1>2. AuditFollows(k) /\ RoleSuffices(k) /\ TargetIsKnown(k)
  BY DEF Blank, AuditFollows, RoleSuffices, TargetIsKnown, Before, Running
<1> QED  BY <1>1, <1>2 DEF ConnectionSound

\* A command line that arrives leaves its connection sound.
LEMMA SentIsSound ==
  ASSUME NEW k, ConnectionSound(k), k.phase = "open", NEW line \in CommandLines
  PROVE  ConnectionSound([k EXCEPT !.phase = "sent", !.line = line])
BY DEF ConnectionSound, Connections, AuditFollows, RoleSuffices, TargetIsKnown, Before, Running

\* An answer leaves its connection sound, if a change is not answered as a refusal.
LEMMA AnsweredIsSound ==
  ASSUME NEW k, ConnectionSound(k), NEW audit \in FinalAudits,
         k.effect => audit \notin {"REJECTED", "BLOCKED"}
  PROVE  ConnectionSound(Answered(k, audit))
<1> DEFINE a == Answered(k, audit)
<1>1. k \in Connections /\ RoleSuffices(k) /\ a \in Connections
  BY DEF ConnectionSound, Connections, Answered
<1>2. /\ a.phase = "answered" /\ a.audit = audit /\ a.seen = "none" /\ a.runs = FALSE
      /\ a.effect = k.effect /\ a.role = k.role /\ a.line = k.line
  BY <1>1 DEF Connections, Answered
<1> HIDE DEF a
<1>3. AuditFollows(a)
  BY <1>2 DEF AuditFollows, Before, Running
<1>4. RoleSuffices(a) /\ TargetIsKnown(a)
  BY <1>1, <1>2 DEF RoleSuffices, TargetIsKnown, Before, Running
<1>5. ConnectionSound(a)
  BY <1>1, <1>3, <1>4 DEF ConnectionSound
<1> QED  BY <1>5 DEF a

\* So does its end: with a flushed audit row there was no effect.
LEMMA DroppedIsSound ==
  ASSUME NEW k, ConnectionSound(k)
  PROVE  ConnectionSound(Dropped(k))
<1> DEFINE left == IF k.audit = "flushed" THEN "none" ELSE k.audit
<1>1. /\ left \in {"none", "flushed", "RECEIVED"} \cup FinalAudits
      /\ left # "flushed"
      /\ left = "none" => ~k.effect
      /\ k.effect => left \notin {"REJECTED", "BLOCKED"}
  BY DEF ConnectionSound, Connections, AuditFollows, Before, Running, FinalAudits
<1>2. Dropped(k) = [k EXCEPT !.phase = "dropped", !.audit = left, !.seen = "none", !.runs = FALSE]
  BY DEF Dropped
<1> HIDE DEF left
<1>3. Dropped(k) \in Connections
  BY <1>1, <1>2 DEF ConnectionSound, Connections
<1>4. AuditFollows(Dropped(k)) /\ RoleSuffices(Dropped(k)) /\ TargetIsKnown(Dropped(k))
  BY <1>1, <1>2 DEF ConnectionSound, Connections, AuditFollows, RoleSuffices, TargetIsKnown, Before, Running
<1> QED  BY <1>3, <1>4 DEF ConnectionSound

\* A commit takes the audit row with the effect.
LEMMA CommittedIsSound ==
  ASSUME NEW k, ConnectionSound(k), k.phase = "written"
  PROVE  ConnectionSound(Committed(k))
BY DEF ConnectionSound, Connections, AuditFollows, RoleSuffices, TargetIsKnown, Before, Running,
       Committed, FinalAudits

\* A handler that has read its request, of a permitted command.
LEMMA RunningIsSound ==
  ASSUME NEW k, ConnectionSound(k), k.phase = "sent", Entitled(k.role, k.line.name),
         NEW seen \in {"none", "open", "ready", "approved", "applied"},
         seen # "none" => k.line.target \in Numbers
  PROVE  ConnectionSound([k EXCEPT !.phase = "read", !.audit = "flushed", !.seen = seen])
BY DEF ConnectionSound, Connections, AuditFollows, RoleSuffices, TargetIsKnown, Before, Running

\* A handler that has written, with terraform running or not.
LEMMA WrittenIsSound ==
  ASSUME NEW k, ConnectionSound(k), k.phase = "read", NEW runs \in BOOLEAN,
         runs => k.line.target \in Numbers /\ k.line.name = "terraform apply"
  PROVE  ConnectionSound([k EXCEPT !.phase = "written", !.runs = runs])
BY DEF ConnectionSound, Connections, AuditFollows, RoleSuffices, TargetIsKnown, Before, Running

\* A handler that raises after its flush.
LEMMA RaisedIsSound ==
  ASSUME NEW k, ConnectionSound(k), k.phase = "written"
  PROVE  ConnectionSound(Answered([k EXCEPT !.effect = TRUE], "FAILED"))
BY DEF ConnectionSound, Connections, AuditFollows, RoleSuffices, TargetIsKnown, Before, Running,
       Answered, FinalAudits

\* A command whose audit row could not be flushed.
LEMMA UnstartedIsSound ==
  ASSUME NEW k, ConnectionSound(k), k.phase = "sent"
  PROVE  ConnectionSound(Answered([k EXCEPT !.poisoned = TRUE], "none"))
BY DEF ConnectionSound, Connections, AuditFollows, RoleSuffices, TargetIsKnown, Before, Running,
       Answered, FinalAudits

-----------------------------------------------------------------------------
(* Every step leaves every connection sound *)

ConnectionsSound == \A c \in Conns : ConnectionSound(conn[c])

\* A step that changes one connection only.
LEMMA OneChanges ==
  ASSUME ConnInv, NEW c \in Conns, NEW k, ConnectionSound(k), conn' = [conn EXCEPT ![c] = k]
  PROVE  conn' \in [Conns -> Connections] /\ ConnectionsSound'
BY DEF ConnInv, TypeOK, ConnectionsSound, ConnectionSound

\* The target of a command is a request number, or none.
LEMMA TargetIsNumber ==
  ASSUME NEW k \in Connections
  PROVE  k.line.target \in 0..MaxRequests
<1>1. k.line \in CommandLines \cup {NoLine}
  BY DEF Connections
<1>2. NoLine.target \in 0..MaxRequests
  BY CloudShellAssumption DEF NoLine
<1> QED  BY <1>1, <1>2 DEF CommandLines

\* What a connection, its command and their failures do leaves every connection sound.
LEMMA ConnectionActions ==
  ASSUME ConnInv, NEW c \in Conns
  PROVE  /\ Open(c) \/ Close(c) \/ (\E line \in Lines[c] : Send(c, line)) \/ Forget(c)
              => conn' \in [Conns -> Connections] /\ ConnectionsSound'
         /\ TakeTurn(c) => conn' \in [Conns -> Connections] /\ ConnectionsSound'
         /\ Proceed(c) => conn' \in [Conns -> Connections] /\ ConnectionsSound'
         /\ Raise(c) \/ DatabaseFails(c) => conn' \in [Conns -> Connections] /\ ConnectionsSound'
<1> DEFINE Goal == conn' \in [Conns -> Connections] /\ ConnectionsSound'
<1>0. /\ ConnectionSound(conn[c])
      /\ conn \in [Conns -> Connections]
  BY DEF ConnInv, TypeOK
<1>1. ASSUME Open(c)  PROVE Goal
  <2>1. PICK role \in UserRoles : conn' = [conn EXCEPT ![c] = Blank("open", role, FALSE)]
    BY <1>1 DEF Open
  <2> QED  BY <2>1, BlankIsSound, OneChanges, CloudShellAssumption
<1>2. ConnectionSound(Closed)
  BY BlankIsSound DEF Closed, ROLE_RANK
<1>3. ASSUME Close(c)  PROVE Goal
  BY <1>2, <1>3, OneChanges DEF Close
<1>4. ASSUME NEW line \in Lines[c], Send(c, line)  PROVE Goal
  <2>1. line \in CommandLines
    BY CloudShellAssumption
  <2>2. conn' = [conn EXCEPT ![c] = [conn[c] EXCEPT !.phase = "sent", !.line = line]]
    BY <1>4 DEF Send
  <2>3. ConnectionSound([conn[c] EXCEPT !.phase = "sent", !.line = line])
    BY <1>0, <1>4, <2>1, SentIsSound DEF Send
  <2> QED  BY <2>2, <2>3, OneChanges
<1>5. ASSUME Forget(c)  PROVE Goal
  <2>1. CASE conn' = [conn EXCEPT ![c] = Closed]
    BY <1>2, <2>1, OneChanges
  <2>2. CASE conn' = [conn EXCEPT ![c] = Blank("open", conn[c].role, conn[c].poisoned)]
    <3>1. conn[c].role \in DOMAIN ROLE_RANK /\ conn[c].poisoned \in BOOLEAN
      BY <1>0 DEF Connections
    <3> QED  BY <2>2, <3>1, BlankIsSound, OneChanges
  <2> QED  BY <1>5, <2>1, <2>2 DEF Forget
<1>6. ASSUME NEW audit \in FinalAudits, conn' = [conn EXCEPT ![c] = Answered(@, audit)],
             conn[c].effect => audit \notin {"REJECTED", "BLOCKED"}
      PROVE  Goal
  BY <1>0, <1>6, AnsweredIsSound, OneChanges
<1>7. ASSUME Turn(c)  PROVE ~conn[c].effect
  BY <1>0, <1>7 DEF Turn, ConnectionSound, AuditFollows, Before
<1>8. ASSUME Refuse(c)  PROVE Goal
  <2>1. RefusalOf(conn[c].line) \in FinalAudits
    BY DEF RefusalOf, FinalAudits
  <2> QED  BY <1>6, <1>7, <1>8, <2>1 DEF Refuse, Audited
<1>9. ASSUME Answer(c)  PROVE Goal
  <2>1. PICK audit \in {"SUCCEEDED", "FAILED"} : conn' = [conn EXCEPT ![c] = Answered(@, audit)]
    BY <1>9 DEF Answer
  <2> QED  BY <1>6, <2>1 DEF FinalAudits
<1>10. ASSUME Read(c)  PROVE Goal
  <2> DEFINE seen == StatusOf(conn[c].line)
  <2>1. conn' = [conn EXCEPT ![c] = [conn[c] EXCEPT !.phase = "read", !.audit = "flushed", !.seen = seen]]
    BY <1>10 DEF Read
  <2>2. conn[c].line.target \in 0..MaxRequests
    BY <1>0, TargetIsNumber DEF ConnectionSound
  <2>3. /\ seen \in {"none", "open", "ready", "approved", "applied"}
        /\ seen # "none" => conn[c].line.target \in Numbers
    BY <2>2, CloudShellAssumption DEF StatusOf, ConnInv, TypeOK, Requests, Numbers
  <2>4. conn[c].phase = "sent" /\ Entitled(conn[c].role, conn[c].line.name)
    BY <1>10 DEF Read, Audited, Turn, Permitted
  <2> HIDE DEF seen
  <2> QED  BY <1>0, <2>1, <2>3, <2>4, RunningIsSound, OneChanges
<1>11. ASSUME StartFails(c)  PROVE Goal
  BY <1>0, <1>11, UnstartedIsSound, OneChanges DEF StartFails, Turn
<1>12. ASSUME Drop(c)  PROVE Goal
  BY <1>0, <1>12, DroppedIsSound, OneChanges DEF Drop
<1>13. ASSUME Insert(c)  PROVE Goal
  <2>1. conn[c].runs = FALSE
    BY <1>0, <1>13 DEF Insert, ConnectionSound, Connections, TargetIsKnown
  <2>2. conn' = [conn EXCEPT ![c] = [conn[c] EXCEPT !.phase = "written", !.runs = FALSE]]
    BY <1>0, <1>13, <2>1 DEF Insert, Connections
  <2> QED  BY <1>0, <1>13, <2>2, WrittenIsSound, OneChanges DEF Insert
<1>14. ASSUME Write(c)  PROVE Goal
  <2>1. conn[c].runs = FALSE /\ conn[c].phase = "read"
    BY <1>0, <1>14 DEF Write, ConnectionSound, Connections, TargetIsKnown
  <2>2. CASE conn' = [conn EXCEPT ![c].phase = "written"]
    <3>1. conn' = [conn EXCEPT ![c] = [conn[c] EXCEPT !.phase = "written", !.runs = FALSE]]
      BY <1>0, <2>1, <2>2 DEF Connections
    <3> QED  BY <1>0, <2>1, <3>1, WrittenIsSound, OneChanges
  <2>3. CASE /\ conn[c].line.name = "terraform apply" /\ conn[c].seen = "approved"
             /\ conn' = [conn EXCEPT ![c].phase = "written", ![c].runs = TRUE]
    <3>1. conn' = [conn EXCEPT ![c] = [conn[c] EXCEPT !.phase = "written", !.runs = TRUE]]
      BY <2>3
    <3>2. conn[c].line.target \in Numbers
      BY <1>0, <2>3 DEF ConnectionSound, TargetIsKnown
    <3> QED  BY <1>0, <2>1, <2>3, <3>1, <3>2, WrittenIsSound, OneChanges
  <2> QED  BY <1>14, <2>2, <2>3 DEF Write, PrecheckPasses
<1>15. ASSUME Commit(c)  PROVE Goal
  BY <1>0, <1>15, CommittedIsSound, OneChanges DEF Commit
<1>16. ASSUME Finish(c)  PROVE Goal
  <2>1. PICK audit \in {"SUCCEEDED", "FAILED"} : conn' = [conn EXCEPT ![c] = Answered(@, audit)]
    BY <1>16 DEF Finish
  <2> QED  BY <1>6, <2>1 DEF FinalAudits
<1>17. ASSUME Raise(c)  PROVE Goal
  <2>1. CASE conn[c].phase = "written" /\ conn' = [conn EXCEPT ![c] = Answered([@ EXCEPT !.effect = TRUE], "FAILED")]
    BY <1>0, <2>1, RaisedIsSound, OneChanges
  <2>2. CASE conn' = [conn EXCEPT ![c] = Answered(@, "FAILED")]
    BY <1>6, <2>2 DEF FinalAudits
  <2> QED  BY <1>17, <2>1, <2>2 DEF Raise
<1> QED
  BY <1>1, <1>3, <1>4, <1>5, <1>8, <1>9, <1>10, <1>11, <1>12, <1>13, <1>14, <1>15, <1>16, <1>17
  DEF TakeTurn, Proceed, DatabaseFails, Collide

-----------------------------------------------------------------------------
(* The other variables *)

Rest ==
  /\ thread \in [Threads -> {"idle", "counted", "inserted"}]
  /\ number \in [Sessions -> 0..MaxRequests]
  /\ request \in [Numbers -> Requests]
  /\ uses \in [Numbers -> Nat]

\* What a command settles is of the right types, whatever it was.
LEMMA SettledIsTyped ==
  ASSUME ConnInv, NEW c \in Conns, NEW status \in {"open", "ready", "approved", "applied"},
         request' \in Settled(c, status)
  PROVE  request' \in [Numbers -> Requests]
<1>0. request \in [Numbers -> Requests]
  BY DEF ConnInv, TypeOK
<1> DEFINE n == conn[c].line.target
<1>1. CASE request' = WithCreated(number[c])
  <2>1. [status |-> "open", cleared |-> FALSE] \in Requests
    BY DEF Requests
  <2> QED  BY <1>0, <1>1, <2>1 DEF WithCreated
<1>2. CASE request' = request
  BY <1>0, <1>2
<1>3. ASSUME NEW b \in BOOLEAN, request' = [request EXCEPT ![n] = [status |-> status, cleared |-> b]]
      PROVE  request' \in [Numbers -> Requests]
  <2>1. [status |-> status, cleared |-> b] \in Requests
    BY DEF Requests
  <2> QED  BY <1>0, <1>3, <2>1
<1>4. \/ request' = WithCreated(number[c])
      \/ request' = request
      \/ /\ n # 0
         /\ conn[c].line.name # "fix plan"
         /\ \E b \in IF conn[c].line.name = "approve" THEN BOOLEAN
                     ELSE IF conn[c].line.name = "reject" THEN {FALSE}
                     ELSE {request[n].cleared} :
              request' = [request EXCEPT ![n] = [status |-> status, cleared |-> b]]
  <2>1. CASE conn[c].line.name = "fix plan"
    <3>1. Settled(c, status) = {WithCreated(number[c])}
      BY <2>1 DEF Settled
    <3> QED  BY <3>1
  <2>2. CASE conn[c].line.name # "fix plan" /\ n = 0
    <3>1. Settled(c, status) = {request}
      BY <2>2 DEF Settled
    <3> QED  BY <3>1
  <2>3. CASE conn[c].line.name # "fix plan" /\ n # 0
    <3>1. PICK b \in IF conn[c].line.name = "approve" THEN BOOLEAN
                     ELSE IF conn[c].line.name = "reject" THEN {FALSE}
                     ELSE {request[n].cleared} :
            request' = [request EXCEPT ![n] = [status |-> status, cleared |-> b]]
      BY <2>3, Zenon DEF Settled
    <3> QED  BY <2>3, <3>1
  <2> QED  BY <2>1, <2>2, <2>3
<1>5. n \in 0..MaxRequests
  BY TargetIsNumber DEF ConnInv, ConnectionSound
<1>6. n # 0 => request[n].cleared \in BOOLEAN
  BY <1>0, <1>5, CloudShellAssumption DEF Requests, Numbers
<1> QED  BY <1>1, <1>2, <1>3, <1>4, <1>6

\* Uses are counted, and begin anew with an approval.
LEMMA UsesAreTyped ==
  ASSUME ConnInv, NEW c \in Conns
  PROVE  UsesAfter(c) \in [Numbers -> Nat]
<1>1. uses \in [Numbers -> Nat]
  BY DEF ConnInv, TypeOK
<1> DEFINE n == conn[c].line.target
<1>2. UsesAfter(c) \in {uses, [uses EXCEPT ![n] = 0], [uses EXCEPT ![n] = uses[n] + 1]}
  BY DEF UsesAfter
<1>3. [uses EXCEPT ![n] = 0] \in [Numbers -> Nat]
  BY <1>1
<1>4. [uses EXCEPT ![n] = uses[n] + 1] \in [Numbers -> Nat]
  <2>1. CASE n \in Numbers
    BY <1>1, <2>1
  <2>2. CASE n \notin Numbers
    <3>1. [uses EXCEPT ![n] = uses[n] + 1] = uses
      BY <1>1, <2>2
    <3> QED  BY <1>1, <3>1
  <2> QED  BY <2>1, <2>2
<1> QED  BY <1>1, <1>2, <1>3, <1>4

\* A number that is computed is one of the instance's.
LEMMA CountIsTyped ==
  ASSUME ConnInv, NEW s \in Sessions, CountFor(s)
  PROVE  number' \in [Sessions -> 0..MaxRequests]
<1>1. NextNumber \in 0..MaxRequests
  BY CloudShellAssumption DEF CountFor, Numbers
<1>2. number \in [Sessions -> 0..MaxRequests]
  BY DEF ConnInv, TypeOK
<1> QED  BY <1>1, <1>2 DEF CountFor

\* A statement of the statuses a command may leave.
LEMMA OutcomesAreTyped ==
  ASSUME NEW c \in Conns
  PROVE  Outcomes(c) \subseteq {"open", "ready", "approved", "applied"}
BY DEF Outcomes

\* Every step leaves the other variables of their types.
LEMMA RestIsTyped ==
  ASSUME ConnInv, Next
  PROVE  Rest'
<1>0. /\ Rest
      /\ request \in [Numbers -> Requests]
      /\ number \in [Sessions -> 0..MaxRequests]
      /\ uses \in [Numbers -> Nat]
      /\ thread \in [Threads -> {"idle", "counted", "inserted"}]
  BY DEF ConnInv, TypeOK, Rest
<1>1. ASSUME NEW c \in Conns, UNCHANGED <<thread, number, request, uses>>  PROVE Rest'
  BY <1>0, <1>1 DEF Rest
<1>2. ASSUME NEW c \in Conns, Read(c)  PROVE Rest'
  <2>1. c \in Sessions
    BY DEF Sessions
  <2>2. number' \in [Sessions -> 0..MaxRequests]
    BY <1>0, <1>2, <2>1, CountIsTyped DEF Read
  <2> QED  BY <1>0, <1>2, <2>2 DEF Read, Rest
<1>3. ASSUME NEW c \in Conns, Write(c)  PROVE Rest'
  <2>1. request' \in [Numbers -> Requests]
    <3>1. ASSUME NEW n, request' = [request EXCEPT ![n].cleared = FALSE]
          PROVE  request' \in [Numbers -> Requests]
      <4>1. ASSUME NEW m \in Numbers  PROVE [request[m] EXCEPT !.cleared = FALSE] \in Requests
        BY <1>0 DEF Requests
      <4>2. request' = [request EXCEPT ![n] = [request[n] EXCEPT !.cleared = FALSE]]
        BY <3>1
      <4> QED  BY <1>0, <4>1, <4>2
    <3>2. request' = request \/ \E n : request' = [request EXCEPT ![n].cleared = FALSE]
      BY <1>3 DEF Write
    <3> QED  BY <1>0, <3>1, <3>2
  <2> QED  BY <1>0, <1>3, <2>1 DEF Write, Rest
<1>4. ASSUME NEW c \in Conns, Commit(c)  PROVE Rest'
  <2>1. PICK status \in Outcomes(c) : request' \in Settled(c, status)
    BY <1>4 DEF Commit
  <2>2. request' \in [Numbers -> Requests]
    BY <2>1, OutcomesAreTyped, SettledIsTyped
  <2> QED  BY <1>0, <1>4, <2>2, UsesAreTyped DEF Commit, Rest
<1>5. ASSUME NEW c \in Conns, Raise(c)  PROVE Rest'
  <2>1. CASE request' \in Settled(c, "open") /\ uses' = UsesAfter(c)
    <3>1. request' \in [Numbers -> Requests]
      BY <2>1, SettledIsTyped DEF Outcomes
    <3> QED  BY <1>0, <1>5, <2>1, <3>1, UsesAreTyped DEF Raise, Rest
  <2>2. CASE UNCHANGED <<request, uses>>
    BY <1>0, <1>5, <2>2 DEF Raise, Rest
  <2> QED  BY <1>5, <2>1, <2>2 DEF Raise
<1>6. ASSUME NEW c \in Conns, Connection(c)  PROVE Rest'
  <2>1. \/ Read(c) \/ Write(c) \/ Commit(c) \/ Raise(c)
        \/ UNCHANGED <<thread, number, request, uses>>
    BY <1>6 DEF Connection, TakeTurn, Proceed, Open, Close, Send, Forget, Refuse, Answer, StartFails,
                Insert, Collide, Finish, DatabaseFails, Drop
  <2> QED  BY <1>1, <1>2, <1>3, <1>4, <1>5, <2>1
<1>7. ASSUME NEW t \in Threads, ThreadCounts(t) \/ ThreadProceeds(t)  PROVE Rest'
  <2>1. t \in Sessions
    BY DEF Sessions
  <2>2. CASE ThreadCounts(t)
    BY <1>0, <2>1, <2>2, CountIsTyped DEF ThreadCounts, Rest
  <2>3. CASE ThreadInserts(t) \/ ThreadFails(t)
    BY <1>0, <2>3 DEF ThreadInserts, ThreadFails, Rest
  <2>4. CASE ThreadCommits(t)
    <3>1. [status |-> "open", cleared |-> FALSE] \in Requests
      BY DEF Requests
    <3> QED  BY <1>0, <2>4, <3>1 DEF ThreadCommits, WithCreated, Rest
  <2> QED  BY <1>7, <2>2, <2>3, <2>4 DEF ThreadProceeds
<1>8. ASSUME NEW server \in Servers, Die(server)  PROVE Rest'
  BY <1>0, <1>8 DEF Die, Rest
<1> QED  BY <1>6, <1>7, <1>8 DEF Next

\* Every step leaves the connections sound.
LEMMA ConnectionsStaySound ==
  ASSUME ConnInv, Next
  PROVE  conn' \in [Conns -> Connections] /\ ConnectionsSound'
<1>0. conn \in [Conns -> Connections] /\ ConnectionsSound
  BY DEF ConnInv, TypeOK, ConnectionsSound
<1>1. ASSUME NEW c \in Conns, Connection(c)
      PROVE  conn' \in [Conns -> Connections] /\ ConnectionsSound'
  BY <1>1, ConnectionActions DEF Connection
<1>2. ASSUME NEW t \in Threads, ThreadCounts(t) \/ ThreadProceeds(t)  PROVE conn' = conn
  BY <1>2 DEF ThreadCounts, ThreadProceeds, ThreadInserts, ThreadCommits, ThreadFails
<1>3. ASSUME NEW server \in Servers, Die(server)
      PROVE  conn' \in [Conns -> Connections] /\ ConnectionsSound'
  <2>1. ASSUME NEW c \in Conns  PROVE ConnectionSound(conn'[c]) /\ conn'[c] \in Connections
    <3>1. conn'[c] = conn[c] \/ conn'[c] = Dropped(conn[c])
      BY <1>3 DEF Die
    <3>2. ConnectionSound(conn[c]) /\ ConnectionSound(Dropped(conn[c]))
      BY <1>0, DroppedIsSound DEF ConnectionsSound
    <3> QED  BY <3>1, <3>2 DEF ConnectionSound
  <2>2. conn' = [c \in Conns |-> conn'[c]]
    BY <1>3 DEF Die
  <2> QED  BY <2>1, <2>2 DEF ConnectionsSound
<1> QED  BY <1>0, <1>1, <1>2, <1>3 DEF Next, ConnectionsSound

\* The connections are sound, and the types right, in every reachable state.
THEOREM ConnectionInvariant == Spec => []ConnInv
<1>1. Init => ConnInv
  <2> SUFFICES ASSUME Init  PROVE ConnInv
    OBVIOUS
  <2>1. ConnectionSound(Closed)
    BY BlankIsSound DEF Closed, ROLE_RANK
  <2>2. Rest
    <3>1. Nothing \in Requests
      BY DEF Nothing, Requests
    <3> QED  BY <3>1, CloudShellAssumption DEF Init, Rest
  <2>3. conn \in [Conns -> Connections]
    BY <2>1 DEF Init, ConnectionSound
  <2> QED  BY <2>1, <2>2, <2>3 DEF Init, ConnInv, TypeOK, Rest
<1>2. ConnInv /\ [Next]_vars => ConnInv'
  <2>1. CASE Next
    BY <2>1, RestIsTyped, ConnectionsStaySound DEF ConnInv, TypeOK, Rest, ConnectionsSound
  <2>2. CASE UNCHANGED vars
    BY <2>2 DEF vars, ConnInv, TypeOK, Inserted
  <2> QED  BY <2>1, <2>2
<1> QED  BY <1>1, <1>2, PTL DEF Spec

\* Every reachable state is of the right type.
THEOREM TypeCorrect == Spec => []TypeOK
<1>1. ConnInv => TypeOK
  BY DEF ConnInv
<1> QED  BY <1>1, ConnectionInvariant, PTL

\* Whatever raises, fails or dies: what is changed has a committed audit row.
THEOREM EffectsAudited == Spec => []EffectsAreAudited
<1>1. ConnInv => EffectsAreAudited
  <2> SUFFICES ASSUME ConnInv, NEW c \in Conns, conn[c].effect
               PROVE  conn[c].audit \notin {"none", "flushed"}
    BY DEF EffectsAreAudited
  <2>1. conn[c] \in Connections /\ AuditFollows(conn[c])
    BY DEF ConnInv, ConnectionSound
  <2> QED  BY <2>1 DEF Connections, AuditFollows, Before, Running, FinalAudits
<1> QED  BY <1>1, ConnectionInvariant, PTL

\* An answered command has its final audit row, or a failed session and no effect.
THEOREM AnswersAudited == Spec => []AnswersAreAudited
<1>1. ConnInv => AnswersAreAudited
  BY DEF ConnInv, ConnectionSound, AuditFollows, AnswersAreAudited
<1> QED  BY <1>1, ConnectionInvariant, PTL

\* A committed change was permitted to the role the connection was opened with.
THEOREM EffectsEntitled == Spec => []EffectsAreEntitled
<1>1. ConnInv => EffectsAreEntitled
  BY DEF ConnInv, ConnectionSound, AuditFollows, RoleSuffices, EffectsAreEntitled
<1> QED  BY <1>1, ConnectionInvariant, PTL

-----------------------------------------------------------------------------
(* Row locks, and the applies they keep apart *)

\* What the phase of a connection is after each step of it.
LEMMA PhaseAfter ==
  ASSUME ConnInv, NEW c \in Conns
  PROVE  /\ Open(c) \/ Close(c) \/ (\E line \in Lines[c] : Send(c, line)) \/ Forget(c)
              => conn'[c].phase \notin Running
         /\ Refuse(c) \/ Answer(c) \/ StartFails(c) => conn'[c].phase \notin Running
         /\ Commit(c) \/ Finish(c) \/ Drop(c) \/ Raise(c) => conn'[c].phase \notin Running
<1>0. conn \in [Conns -> Connections] /\ conn[c] \in Connections
  BY DEF ConnInv, TypeOK
<1>1. ASSUME NEW k, conn' = [conn EXCEPT ![c] = k], k.phase \notin Running  PROVE conn'[c].phase \notin Running
  BY <1>0, <1>1
<1>2. ASSUME NEW k \in Connections, NEW audit  PROVE Answered(k, audit).phase \notin Running
  BY <1>2 DEF Answered, Connections, Running
<1>3. ASSUME NEW role, NEW poisoned  PROVE Blank("open", role, poisoned).phase \notin Running
  BY DEF Blank, Running
<1>4. Closed.phase \notin Running
  BY DEF Closed, Blank, Running
<1>5. ASSUME Open(c)  PROVE conn'[c].phase \notin Running
  <2>1. PICK role \in UserRoles : conn' = [conn EXCEPT ![c] = Blank("open", role, FALSE)]
    BY <1>5 DEF Open
  <2> QED  BY <1>1, <1>3, <2>1
<1>6. ASSUME Close(c)  PROVE conn'[c].phase \notin Running
  BY <1>1, <1>4, <1>6 DEF Close
<1>7. ASSUME NEW line, Send(c, line)  PROVE conn'[c].phase \notin Running
  BY <1>0, <1>7 DEF Send, Connections, Running
<1>8. ASSUME Forget(c)  PROVE conn'[c].phase \notin Running
  BY <1>1, <1>3, <1>4, <1>8 DEF Forget
<1>9. ASSUME Refuse(c) \/ Answer(c) \/ Finish(c)  PROVE conn'[c].phase \notin Running
  BY <1>0, <1>1, <1>2, <1>9 DEF Refuse, Answer, Finish
<1>10. ASSUME StartFails(c)  PROVE conn'[c].phase \notin Running
  <2>1. [conn[c] EXCEPT !.poisoned = TRUE] \in Connections
    BY <1>0 DEF Connections
  <2> QED  BY <1>1, <1>2, <1>10, <2>1 DEF StartFails
<1>11. ASSUME Commit(c)  PROVE conn'[c].phase \notin Running
  <2>1. Committed(conn[c]).phase \notin Running
    BY <1>0 DEF Committed, Connections, Running
  <2> QED  BY <1>1, <1>11, <2>1 DEF Commit
<1>12. ASSUME Drop(c)  PROVE conn'[c].phase \notin Running
  <2>1. Dropped(conn[c]).phase \notin Running
    BY <1>0 DEF Dropped, Connections, Running
  <2> QED  BY <1>1, <1>12, <2>1 DEF Drop
<1>13. ASSUME Raise(c)  PROVE conn'[c].phase \notin Running
  <2>1. [conn[c] EXCEPT !.effect = TRUE] \in Connections
    BY <1>0 DEF Connections
  <2> QED  BY <1>0, <1>1, <1>2, <1>13, <2>1 DEF Raise
<1> QED  BY <1>5, <1>6, <1>7, <1>8, <1>9, <1>10, <1>11, <1>12, <1>13

\* What a connection does changes no other connection, and only its INSERT and its
\* first UPDATE make it one that has written.
LEMMA OthersStay ==
  ASSUME ConnInv, NEW c \in Conns, Connection(c)
  PROVE  /\ \A d \in Conns \ {c} : conn'[d] = conn[d]
         /\ conn'[c].phase = "written" => Insert(c) \/ Write(c)
<1>0. conn \in [Conns -> Connections] /\ conn[c] \in Connections
  BY DEF ConnInv, TypeOK
<1>1. \A d \in Conns \ {c} : conn'[d] = conn[d]
  BY <1>0 DEF Connection, TakeTurn, Proceed, Open, Close, Send, Forget, Refuse, Answer, Read, StartFails,
              Insert, Collide, Write, Commit, Finish, Raise, DatabaseFails, Drop
<1>2. ASSUME Read(c)  PROVE conn'[c].phase = "read"
  BY <1>0, <1>2 DEF Read, Connections
<1> QED
  BY <1>1, <1>2, PhaseAfter DEF Connection, TakeTurn, Proceed, Collide, DatabaseFails, Running

\* A row is locked by one session at a time.
LocksExclude == \A c, d \in Conns : \A n \in Numbers : Holds(c, n) /\ Holds(d, n) => c = d

\* Neither an INSERT nor an answer locks a row, and a first UPDATE waits for its lock.
LEMMA LocksStayExclusive ==
  ASSUME ConnInv, LocksExclude, Next
  PROVE  LocksExclude'
<1>0. conn \in [Conns -> Connections]
  BY DEF ConnInv, TypeOK
<1>1. ASSUME NEW c \in Conns, Connection(c)  PROVE LocksExclude'
  <2>1. ASSUME NEW d \in Conns \ {c}, NEW n \in Numbers, Holds(d, n)'  PROVE Holds(d, n)
    BY <1>1, <2>1, OthersStay DEF Holds
  <2>2. ASSUME NEW n \in Numbers, Holds(c, n)', NEW d \in Conns \ {c}  PROVE ~Holds(d, n)
    <3>1. CASE Insert(c)
      <4>1. conn'[c].line = conn[c].line
        BY <1>0, <3>1 DEF Insert, Connections
      <4>2. "fix plan" \notin Changing
        BY DEF Changing, Preparing, TerraformSteps, Assessments, Validations
      <4> QED  BY <2>2, <3>1, <4>1, <4>2 DEF Insert, Holds
    <3>2. CASE Write(c)
      <4>1. conn'[c].line = conn[c].line
        <5>1. \/ conn' = [conn EXCEPT ![c] = [conn[c] EXCEPT !.phase = "written", !.runs = TRUE]]
              \/ conn' = [conn EXCEPT ![c] = [conn[c] EXCEPT !.phase = "written"]]
          BY <3>2 DEF Write
        <5>2. conn[c] \in Connections
          BY <1>0
        <5>3. /\ [conn[c] EXCEPT !.phase = "written", !.runs = TRUE].line = conn[c].line
              /\ [conn[c] EXCEPT !.phase = "written"].line = conn[c].line
          BY <5>2 DEF Connections
        <5> QED  BY <1>0, <5>1, <5>3
      <4>2. conn[c].line.target = n /\ n # 0
        BY <2>2, <4>1, CloudShellAssumption DEF Holds, Numbers
      <4> QED  BY <2>2, <3>2, <4>2 DEF Write, LockIsFree
    <3> QED  BY <1>1, <2>2, <3>1, <3>2, OthersStay DEF Holds
  <2> QED  BY <2>1, <2>2 DEF LocksExclude
<1>2. ASSUME NEW t \in Threads, ThreadCounts(t) \/ ThreadProceeds(t)  PROVE conn' = conn
  BY <1>2 DEF ThreadCounts, ThreadProceeds, ThreadInserts, ThreadCommits, ThreadFails
<1>3. ASSUME NEW server \in Servers, Die(server)  PROVE LocksExclude'
  <2>1. ASSUME NEW d \in Conns, NEW n \in Numbers, Holds(d, n)'  PROVE Holds(d, n)
    <3>1. conn'[d] = conn[d] \/ conn'[d] = Dropped(conn[d])
      BY <1>3 DEF Die
    <3>2. conn[d] \in Connections
      BY <1>0
    <3>3. Dropped(conn[d]).phase # "written"
      BY <3>2 DEF Dropped, Connections
    <3> QED  BY <2>1, <3>1, <3>3 DEF Holds
  <2> QED  BY <2>1 DEF LocksExclude
<1> QED  BY <1>1, <1>2, <1>3 DEF Next, LocksExclude, Holds

\* Two terraform runs never apply the same request at once, on whichever servers:
\* each holds the lock of its request's row.
THEOREM AppliesAlone == Spec => []AppliesAreAlone
<1>1. Init => LocksExclude
  BY DEF Init, Closed, Blank, Holds, LocksExclude
<1>2. ConnInv /\ LocksExclude /\ [Next]_vars => LocksExclude'
  <2>1. CASE UNCHANGED vars
    BY <2>1 DEF vars, LocksExclude, Holds
  <2> QED  BY <2>1, LocksStayExclusive
<1>3. ConnInv /\ LocksExclude => AppliesAreAlone
  <2> SUFFICES ASSUME ConnInv, LocksExclude, NEW c \in Conns, NEW d \in Conns,
                      conn[c].phase = "written", conn[c].runs, conn[d].phase = "written", conn[d].runs
               PROVE  c = d \/ conn[c].line.target # conn[d].line.target
    BY DEF AppliesAreAlone
  <2>1. ASSUME NEW e \in Conns, conn[e].phase = "written", conn[e].runs
        PROVE  conn[e].line.target \in Numbers /\ Holds(e, conn[e].line.target)
    <3>1. "terraform apply" \in Changing
      BY DEF Changing
    <3> QED  BY <2>1, <3>1 DEF ConnInv, ConnectionSound, TargetIsKnown, Holds
  <2> QED  BY <2>1 DEF LocksExclude
<1> QED  BY <1>1, <1>2, <1>3, ConnectionInvariant, PTL DEF Spec

-----------------------------------------------------------------------------
(* Request numbers *)

\* A session that has computed a number and not yet used it.
Counted(s) ==
  IF s \in Threads THEN thread[s] \in {"counted", "inserted"}
  ELSE conn[s].phase \in Running /\ conn[s].line.name = "fix plan"

\* A command that has read its request.
Working(c) == conn[c].phase \in Running /\ conn[c].line.name # "fix plan" /\ conn[c].line.target # 0

\* A computed number may be taken meanwhile, an inserted one is the next.
NumbersInv ==
  /\ NumbersAreDense
  /\ \A s \in Sessions : Counted(s) => number[s] \in 1..(Cardinality(Created) + 1)
  /\ \A s \in Sessions : Inserted(s) => number[s] = Cardinality(Created) + 1
  /\ \A s, o \in Sessions : Inserted(s) /\ Inserted(o) => s = o
  /\ \A c \in Conns : Working(c) => conn[c].line.target \in Created

\* There are finitely many requests.
LEMMA CreatedIsFinite == IsFiniteSet(Created) /\ Cardinality(Created) \in Nat
<1>1. IsFiniteSet(Numbers)
  BY FS_Interval, CloudShellAssumption DEF Numbers
<1>2. Created \subseteq Numbers
  BY DEF Created
<1> QED  BY <1>1, <1>2, FS_Subset, FS_CardinalityType

\* A connection is no thread, and an inserted number is a computed one.
LEMMA InsertedIsCounted ==
  /\ \A c \in Conns : c \in Sessions /\ c \notin Threads
  /\ \A t \in Threads : t \in Sessions
  /\ \A s \in Sessions : s \notin Threads => s \in Conns
  /\ \A s \in Sessions : Inserted(s) => Counted(s)
BY CloudShellAssumption DEF Sessions, Inserted, Counted, Running

\* A step that creates nothing, and inserts nothing that was not.
LEMMA NumbersStay ==
  ASSUME NumbersInv, Created' = Created,
         \A s \in Sessions : Counted(s)' => Counted(s) /\ number'[s] = number[s],
         \A s \in Sessions : Inserted(s)' => Inserted(s) /\ number'[s] = number[s],
         \A c \in Conns : Working(c)' => Working(c) /\ conn'[c].line = conn[c].line
  PROVE  NumbersInv'
BY DEF NumbersInv, NumbersAreDense

\* A session that counts.
LEMMA NumbersCount ==
  ASSUME ConnInv, NumbersInv, NEW x \in Sessions, CountFor(x), Created' = Created, ~Inserted(x)',
         \A s \in Sessions \ {x} : Counted(s)' => Counted(s),
         \A s \in Sessions \ {x} : Inserted(s)' => Inserted(s),
         \A c \in Conns : Working(c)' => Working(c) /\ conn'[c].line = conn[c].line
  PROVE  NumbersInv'
<1>1. number'[x] = Cardinality(Created) + 1 /\ \A s \in Sessions \ {x} : number'[s] = number[s]
  BY DEF CountFor, NextNumber, ConnInv, TypeOK
<1> QED  BY <1>1, CreatedIsFinite DEF NumbersInv, NumbersAreDense

\* A session that inserts a number that is neither committed nor inserted.
LEMMA NumbersInsert ==
  ASSUME NumbersInv, NEW x \in Sessions, Counted(x), ~InsertWaits(x), number[x] \notin Created,
         UNCHANGED <<number, request>>,
         \A s \in Sessions : Counted(s)' => Counted(s),
         \A s \in Sessions \ {x} : Inserted(s)' => Inserted(s),
         \A c \in Conns : Working(c)' => Working(c) /\ conn'[c].line = conn[c].line
  PROVE  NumbersInv'
<1>1. Created' = Created
  BY DEF Created
<1>2. number[x] = Cardinality(Created) + 1
  BY CreatedIsFinite DEF NumbersInv, NumbersAreDense
<1>3. \A s \in Sessions \ {x} : ~Inserted(s)
  BY <1>2 DEF NumbersInv, InsertWaits
<1> QED  BY <1>1, <1>2, <1>3 DEF NumbersInv, NumbersAreDense

\* A session that commits what it has inserted.
LEMMA NumbersCreate ==
  ASSUME ConnInv, NumbersInv, NEW x \in Sessions, Inserted(x), request' = WithCreated(number[x]),
         number' = number, ~Counted(x)',
         \A s \in Sessions \ {x} : Counted(s)' => Counted(s),
         \A s \in Sessions \ {x} : Inserted(s)' => Inserted(s),
         \A c \in Conns : Working(c)' => Working(c) /\ conn'[c].line = conn[c].line
  PROVE  NumbersInv'
<1> DEFINE K == Cardinality(Created)
<1>1. K \in Nat /\ number[x] = K + 1 /\ Created = 1..K
  BY CreatedIsFinite DEF NumbersInv, NumbersAreDense
<1>2. number[x] \in Numbers
  <2>1. number[x] \in 0..MaxRequests
    BY DEF ConnInv, TypeOK
  <2> QED  BY <1>1, <2>1, CloudShellAssumption DEF Numbers
<1>3. Created' = Created \cup {number[x]}
  BY <1>2 DEF Created, WithCreated, ConnInv, TypeOK
<1>4. Created' = 1..(K + 1)
  BY <1>1, <1>3
<1>5. Cardinality(1..(K + 1)) = K + 1
  BY <1>1, FS_Interval
<1>6. Cardinality(Created)' = K + 1
  BY <1>4, <1>5
<1>7. NumbersAreDense'
  BY <1>4, <1>6 DEF NumbersAreDense
<1>8. \A s \in Sessions : ~Inserted(s)'
  <2>1. ~Inserted(x)'
    BY DEF Inserted, Counted, Running
  <2> QED  BY <2>1 DEF NumbersInv
<1>9. \A s \in Sessions : Counted(s)' => number'[s] \in 1..(K + 1 + 1)
  BY <1>1 DEF NumbersInv
<1>10. \A c \in Conns : Working(c)' => conn'[c].line.target \in Created'
  BY <1>3 DEF NumbersInv
<1> QED  BY <1>6, <1>7, <1>8, <1>9, <1>10 DEF NumbersInv

\* What another connection does with its phase does not matter to a session.
LEMMA OthersKeepTheirs ==
  ASSUME ConnInv, NEW c \in Conns, Connection(c), thread' = thread
  PROVE  /\ \A s \in Sessions \ {c} : Counted(s)' => Counted(s)
         /\ \A s \in Sessions \ {c} : Inserted(s)' => Inserted(s)
         /\ \A d \in Conns \ {c} : Working(d)' => Working(d) /\ conn'[d].line = conn[d].line
BY OthersStay, InsertedIsCounted DEF Counted, Inserted, Working

\* A step of a connection that is not running afterwards, and that creates nothing.
LEMMA NotRunning ==
  ASSUME ConnInv, NumbersInv, NEW c \in Conns, Connection(c), UNCHANGED <<thread, number>>,
         Created' = Created, conn'[c].phase \notin Running
  PROVE  NumbersInv'
<1>1. ~Counted(c)' /\ ~Inserted(c)' /\ ~Working(c)'
  BY InsertedIsCounted DEF Counted, Inserted, Working, Running
<1> QED  BY <1>1, OthersKeepTheirs, NumbersStay

\* A command that settles its request creates one, if it is fix plan, or none.
LEMMA SettledCreates ==
  ASSUME ConnInv, NumbersInv, NEW c \in Conns, conn[c].phase = "written",
         NEW status \in {"open", "ready", "approved", "applied"}, request' \in Settled(c, status)
  PROVE  \/ Inserted(c) /\ request' = WithCreated(number[c])
         \/ Created' = Created
<1>1. CASE conn[c].line.name = "fix plan"
  <2>1. Settled(c, status) = {WithCreated(number[c])}
    BY <1>1 DEF Settled
  <2> QED  BY <1>1, <2>1, InsertedIsCounted DEF Inserted
<1>2. CASE conn[c].line.name # "fix plan"
  <2> DEFINE n == conn[c].line.target
  <2>1. CASE n = 0
    <3>1. Settled(c, status) = {request}
      BY <1>2, <2>1 DEF Settled
    <3> QED  BY <3>1 DEF Created
  <2>2. CASE n # 0
    <3>1. PICK b \in IF conn[c].line.name = "approve" THEN BOOLEAN
                     ELSE IF conn[c].line.name = "reject" THEN {FALSE}
                     ELSE {request[n].cleared} :
            request' = [request EXCEPT ![n] = [status |-> status, cleared |-> b]]
      BY <1>2, <2>2, Zenon DEF Settled
    <3>2. n \in Created
      BY <1>2, <2>2 DEF NumbersInv, Working, Running
    <3> QED  BY <3>1, <3>2 DEF Created, ConnInv, TypeOK
  <2> QED  BY <2>1, <2>2
<1> QED  BY <1>1, <1>2

\* A command that ends with its rows as they are or settled.
LEMMA EndsSettled ==
  ASSUME ConnInv, NumbersInv, NEW c \in Conns, Connection(c), UNCHANGED <<thread, number>>,
         conn'[c].phase \notin Running,
         request' = request \/ (conn[c].phase = "written"
                                /\ \E status \in {"open", "ready", "approved", "applied"} : request' \in Settled(c, status))
  PROVE  NumbersInv'
<1>1. CASE Created' = Created
  BY <1>1, NotRunning
<1>2. CASE Inserted(c) /\ request' = WithCreated(number[c])
  <2>1. ~Counted(c)' /\ ~Working(c)'
    BY InsertedIsCounted DEF Counted, Working
  <2> QED  BY <1>2, <2>1, OthersKeepTheirs, NumbersCreate, InsertedIsCounted
<1> QED  BY <1>1, <1>2, SettledCreates DEF Created

\* Every step keeps the numbers dense.
LEMMA NumbersStayDense ==
  ASSUME ConnInv, NumbersInv, Next
  PROVE  NumbersInv'
<1>0. conn \in [Conns -> Connections] /\ \A c \in Conns : conn[c] \in Connections
  BY DEF ConnInv, TypeOK
<1>1. ASSUME NEW c \in Conns, Read(c)  PROVE NumbersInv'
  <2>1. Created' = Created
    BY <1>1 DEF Read, Created
  <2>2. conn'[c].phase = "read" /\ conn'[c].line = conn[c].line
    BY <1>0, <1>1 DEF Read, Connections
  <2>3. Connection(c) /\ thread' = thread
    BY <1>1 DEF Connection, TakeTurn, Read
  <2>4. ~Inserted(c)'
    BY <2>2, InsertedIsCounted DEF Inserted
  <2>5. CASE conn[c].line.name = "fix plan"
    <3>1. CountFor(c)
      BY <1>1, <2>5 DEF Read
    <3>2. ~Working(c)'
      BY <2>2, <2>5 DEF Working
    <3> QED  BY <2>1, <2>3, <2>4, <3>1, <3>2, OthersKeepTheirs, NumbersCount, InsertedIsCounted
  <2>6. CASE conn[c].line.name # "fix plan"
    <3>1. number' = number /\ Readable(conn[c].line)
      BY <1>1, <2>6 DEF Read
    <3>2. ~Counted(c)'
      BY <2>2, <2>6, InsertedIsCounted DEF Counted
    <3>3. Working(c)' => conn'[c].line.target \in Created'
      BY <2>1, <2>2, <3>1 DEF Working, Readable
    <3>4. \A d \in Conns : Working(d)' => conn'[d].line.target \in Created'
      BY <2>1, <2>3, <3>3, OthersKeepTheirs DEF NumbersInv
    <3> QED  BY <2>1, <2>3, <2>4, <3>1, <3>2, <3>4, OthersKeepTheirs DEF NumbersInv, NumbersAreDense
  <2> QED  BY <2>5, <2>6
<1>2. ASSUME NEW c \in Conns, Insert(c)  PROVE NumbersInv'
  <2>1. Connection(c) /\ thread' = thread /\ UNCHANGED <<number, request>>
    BY <1>2 DEF Connection, Proceed, Insert
  <2>2. conn'[c].line = conn[c].line
    BY <1>0, <1>2 DEF Insert, Connections
  <2>3. Counted(c) /\ ~Working(c)'
    BY <1>2, <2>2, InsertedIsCounted DEF Insert, Counted, Working, Running
  <2> QED  BY <1>2, <2>1, <2>3, OthersKeepTheirs, NumbersInsert, InsertedIsCounted DEF Insert
<1>3. ASSUME NEW c \in Conns, Write(c)  PROVE NumbersInv'
  <2>1. Connection(c) /\ UNCHANGED <<thread, number>>
    BY <1>3 DEF Connection, Proceed, Write
  <2>2. conn'[c].line = conn[c].line
    <3>1. \/ conn' = [conn EXCEPT ![c] = [conn[c] EXCEPT !.phase = "written", !.runs = TRUE]]
          \/ conn' = [conn EXCEPT ![c] = [conn[c] EXCEPT !.phase = "written"]]
      BY <1>3 DEF Write
    <3>2. /\ [conn[c] EXCEPT !.phase = "written", !.runs = TRUE].line = conn[c].line
          /\ [conn[c] EXCEPT !.phase = "written"].line = conn[c].line
      BY <1>0 DEF Connections
    <3> QED  BY <1>0, <3>1, <3>2
  <2>3. ~Counted(c)' /\ ~Inserted(c)' /\ (Working(c)' => Working(c))
    BY <1>3, <2>2, InsertedIsCounted DEF Write, Counted, Inserted, Working, Running
  <2>4. Created' = Created
    <3>1. ASSUME NEW n, request' = [request EXCEPT ![n].cleared = FALSE]  PROVE Created' = Created
      BY <3>1 DEF Created, ConnInv, TypeOK, Requests
    <3> QED  BY <1>3, <3>1 DEF Write, Created
  <2> QED  BY <2>1, <2>2, <2>3, <2>4, OthersKeepTheirs, NumbersStay
<1>4. ASSUME NEW c \in Conns, Connection(c)  PROVE NumbersInv'
  <2>1. CASE Read(c) \/ Insert(c) \/ Write(c)
    BY <1>1, <1>2, <1>3, <2>1
  <2>2. CASE \/ Open(c) \/ Close(c) \/ (\E line \in Lines[c] : Send(c, line)) \/ Forget(c)
             \/ Refuse(c) \/ Answer(c) \/ StartFails(c) \/ Finish(c) \/ Drop(c)
    <3>1. UNCHANGED <<thread, number, request>>
      BY <2>2 DEF Open, Close, Send, Forget, Refuse, Answer, StartFails, Finish, Drop
    <3> QED  BY <1>4, <2>2, <3>1, PhaseAfter, EndsSettled
  <2>3. CASE Commit(c)
    <3>1. /\ UNCHANGED <<thread, number>>
          /\ conn[c].phase = "written"
          /\ \E status \in {"open", "ready", "approved", "applied"} : request' \in Settled(c, status)
      BY <2>3, OutcomesAreTyped DEF Commit
    <3> QED  BY <1>4, <2>3, <3>1, PhaseAfter, EndsSettled
  <2>4. CASE Raise(c)
    <3>1. /\ UNCHANGED <<thread, number>>
          /\ request' = request \/ (conn[c].phase = "written" /\ request' \in Settled(c, "open"))
      BY <2>4 DEF Raise
    <3> QED  BY <1>4, <2>4, <3>1, PhaseAfter, EndsSettled
  <2> QED  BY <1>4, <2>1, <2>2, <2>3, <2>4 DEF Connection, TakeTurn, Proceed, Collide, DatabaseFails
<1>5. ASSUME NEW t \in Threads, ThreadCounts(t) \/ ThreadProceeds(t)  PROVE NumbersInv'
  <2>1. conn' = conn /\ thread \in [Threads -> {"idle", "counted", "inserted"}]
    BY <1>5 DEF ThreadCounts, ThreadProceeds, ThreadInserts, ThreadCommits, ThreadFails, ConnInv, TypeOK
  <2>2. \A s \in Threads \ {t} : thread'[s] = thread[s]
    BY <1>5, <2>1 DEF ThreadCounts, ThreadProceeds, ThreadInserts, ThreadCommits, ThreadFails
  <2>3. /\ \A s \in Sessions \ {t} : Counted(s)' => Counted(s)
        /\ \A s \in Sessions \ {t} : Inserted(s)' => Inserted(s)
        /\ \A c \in Conns : Working(c)' => Working(c) /\ conn'[c].line = conn[c].line
    BY <2>1, <2>2 DEF Counted, Inserted, Working
  <2>4. CASE ThreadCounts(t)
    <3>1. ~Inserted(t)' /\ Created' = Created /\ CountFor(t)
      BY <2>1, <2>4 DEF ThreadCounts, Inserted, Created
    <3> QED  BY <2>3, <3>1, NumbersCount, InsertedIsCounted
  <2>5. CASE ThreadInserts(t)
    BY <2>3, <2>5, NumbersInsert, InsertedIsCounted DEF ThreadInserts, Counted
  <2>6. CASE ThreadCommits(t)
    <3>1. ~Counted(t)' /\ Inserted(t)
      BY <2>1, <2>6 DEF ThreadCommits, Counted, Inserted
    <3> QED  BY <2>3, <2>6, <3>1, NumbersCreate, InsertedIsCounted DEF ThreadCommits
  <2>7. CASE ThreadFails(t)
    <3>1. ~Counted(t)' /\ ~Inserted(t)' /\ UNCHANGED <<number, request>>
      BY <2>1, <2>7 DEF ThreadFails, Counted, Inserted
    <3>2. Created' = Created
      BY <3>1 DEF Created
    <3> QED  BY <2>3, <3>1, <3>2, NumbersStay
  <2> QED  BY <1>5, <2>4, <2>5, <2>6, <2>7 DEF ThreadProceeds
<1>6. ASSUME NEW server \in Servers, Die(server)  PROVE NumbersInv'
  <2>1. Created' = Created /\ number' = number
    BY <1>6 DEF Die, Created
  <2>2. ASSUME NEW c \in Conns  PROVE conn'[c] = conn[c] \/ conn'[c].phase \notin Running
    <3>1. Dropped(conn[c]).phase \notin Running
      BY <1>0 DEF Dropped, Connections, Running
    <3> QED  BY <1>6, <3>1 DEF Die
  <2>3. \A t \in Threads : thread'[t] = thread[t] \/ thread'[t] = "idle"
    BY <1>6 DEF Die
  <2>4. \A c \in Conns : Working(c)' => Working(c) /\ conn'[c].line = conn[c].line
    BY <2>2 DEF Working
  <2>5. \A s \in Sessions : Counted(s)' => Counted(s)
    BY <2>2, <2>3, InsertedIsCounted DEF Counted
  <2>6. \A s \in Sessions : Inserted(s)' => Inserted(s)
    BY <2>2, <2>3, InsertedIsCounted DEF Inserted, Running
  <2> QED  BY <2>1, <2>4, <2>5, <2>6, NumbersStay
<1> QED  BY <1>4, <1>5, <1>6 DEF Next

\* The invariant of the numbers holds in every reachable state.
LEMMA NumbersInvariant == Spec => []NumbersInv
<1>1. Init => NumbersInv
  <2> SUFFICES ASSUME Init  PROVE NumbersInv
    OBVIOUS
  <2>1. Created = {} /\ Cardinality(Created) = 0
    <3>1. Created = {}
      BY DEF Init, Created, Nothing
    <3> QED  BY <3>1, FS_EmptySet
  <2>2. NumbersAreDense
    BY <2>1 DEF NumbersAreDense
  <2>3. \A s \in Sessions : ~Counted(s)
    BY InsertedIsCounted DEF Init, Closed, Blank, Counted, Running
  <2>4. \A c \in Conns : ~Working(c)
    BY DEF Init, Closed, Blank, Working, Running
  <2> QED  BY <2>2, <2>3, <2>4, InsertedIsCounted DEF NumbersInv
<1>2. ConnInv /\ NumbersInv /\ [Next]_vars => NumbersInv'
  <2>1. CASE UNCHANGED vars
    BY <2>1 DEF vars, NumbersInv, NumbersAreDense, Created, Counted, Inserted, Working
  <2> QED  BY <2>1, NumbersStayDense
<1> QED  BY <1>1, <1>2, ConnectionInvariant, PTL DEF Spec

\* Request numbers have no gaps, whatever creations collide, fail or die.
THEOREM NumbersDense == Spec => []NumbersAreDense
<1>1. NumbersInv => NumbersAreDense
  BY DEF NumbersInv
<1> QED  BY <1>1, NumbersInvariant, PTL

-----------------------------------------------------------------------------
(* Approvals, and the servers that may still use one *)

\* An apply that has read APPROVED and has not settled its request.
MayApply(c, n) ==
  /\ conn[c].line.name = "terraform apply"
  /\ conn[c].line.target = n
  /\ \/ conn[c].phase = "read" /\ conn[c].seen = "approved"
     \/ conn[c].phase = "written" /\ conn[c].runs

Appliers(n) == {server \in Servers : \E c \in Conns : Host[c] = server /\ MayApply(c, n)}

\* A server runs one command at a time.
LoopAlone ==
  \A c, d \in Conns :
    conn[c].phase \in Running /\ conn[d].phase \in Running /\ Host[c] = Host[d] => c = d

\* A request is APPROVED only until its first apply is settled, and whoever has
\* read APPROVED by then is the only one on its server.
ApprovalsInv ==
  /\ LoopAlone
  /\ \A n \in Numbers : request[n].status = "approved" => uses[n] = 0
  /\ \A n \in Numbers : uses[n] + Cardinality(Appliers(n)) <= Cardinality(Servers)

\* Servers are finitely many, and so are those that may still apply a request.
LEMMA AppliersAreFinite ==
  ASSUME NEW n
  PROVE  /\ IsFiniteSet(Appliers(n))
         /\ Cardinality(Appliers(n)) \in Nat
         /\ Cardinality(Servers) \in Nat
         /\ Cardinality(Appliers(n)) <= Cardinality(Servers)
<1>1. Appliers(n) \subseteq Servers /\ IsFiniteSet(Servers)
  BY CloudShellAssumption DEF Appliers
<1> QED  BY <1>1, FS_Subset, FS_CardinalityType

\* Where nobody else may apply a request, no more servers may.
LEMMA AppliersShrink ==
  ASSUME NEW n, \A c \in Conns : MayApply(c, n)' => MayApply(c, n)
  PROVE  Cardinality(Appliers(n)') <= Cardinality(Appliers(n)) /\ Cardinality(Appliers(n)') \in Nat
<1>1. Appliers(n)' \subseteq Appliers(n)
  BY DEF Appliers
<1> QED  BY <1>1, AppliersAreFinite, FS_Subset, FS_CardinalityType

\* Where one server may no more, they are fewer.
LEMMA AppliersAreFewer ==
  ASSUME NEW n, NEW server \in Appliers(n), server \notin Appliers(n)',
         \A c \in Conns : MayApply(c, n)' => MayApply(c, n)
  PROVE  Cardinality(Appliers(n)') + 1 <= Cardinality(Appliers(n)) /\ Cardinality(Appliers(n)') \in Nat
<1>1. Appliers(n)' \subseteq Appliers(n) \ {server}
  BY DEF Appliers
<1>2. /\ IsFiniteSet(Appliers(n) \ {server})
      /\ Cardinality(Appliers(n) \ {server}) = Cardinality(Appliers(n)) - 1
  BY AppliersAreFinite, FS_RemoveElement
<1>3. /\ Cardinality(Appliers(n)') <= Cardinality(Appliers(n) \ {server})
      /\ Cardinality(Appliers(n)') \in Nat
  BY <1>1, <1>2, FS_Subset, FS_CardinalityType
<1> QED  BY <1>2, <1>3, AppliersAreFinite

\* What a connection's step makes of those that run a command: a handler begins
\* only where the loop is free, and goes on as the connection it was.
LEMMA RunnersAfter ==
  ASSUME ConnInv, NEW c \in Conns, Connection(c)
  PROVE  /\ conn'[c].phase \in Running => Read(c) \/ Insert(c) \/ Write(c)
         /\ Insert(c) \/ Write(c) => conn[c].phase = "read" /\ conn'[c].phase = "written"
         /\ Read(c) \/ Insert(c) \/ Write(c) => conn'[c].line = conn[c].line
         /\ Read(c) => conn'[c].phase = "read" /\ conn'[c].seen = StatusOf(conn[c].line)
         /\ Insert(c) => conn'[c].runs = conn[c].runs
         /\ Write(c) => \/ conn'[c].runs = conn[c].runs
                        \/ conn[c].line.name = "terraform apply" /\ conn[c].seen = "approved"
<1>0. conn \in [Conns -> Connections] /\ conn[c] \in Connections
  BY DEF ConnInv, TypeOK
<1>1. ASSUME Read(c)
      PROVE  /\ conn'[c].line = conn[c].line
             /\ conn'[c].phase = "read"
             /\ conn'[c].seen = StatusOf(conn[c].line)
  BY <1>0, <1>1 DEF Read, Connections
<1>2. ASSUME Insert(c)
      PROVE  /\ conn'[c].line = conn[c].line
             /\ conn[c].phase = "read" /\ conn'[c].phase = "written"
             /\ conn'[c].runs = conn[c].runs
  BY <1>0, <1>2 DEF Insert, Connections
<1>3. ASSUME Write(c)
      PROVE  /\ conn'[c].line = conn[c].line
             /\ conn[c].phase = "read" /\ conn'[c].phase = "written"
             /\ \/ conn'[c].runs = conn[c].runs
                \/ conn[c].line.name = "terraform apply" /\ conn[c].seen = "approved"
  <2>1. CASE /\ conn[c].line.name = "terraform apply" /\ PrecheckPasses(c, conn[c].line.target)
             /\ conn' = [conn EXCEPT ![c] = [conn[c] EXCEPT !.phase = "written", !.runs = TRUE]]
    BY <1>0, <1>3, <2>1 DEF Write, PrecheckPasses, Connections
  <2>2. CASE conn' = [conn EXCEPT ![c] = [conn[c] EXCEPT !.phase = "written"]]
    BY <1>0, <1>3, <2>2 DEF Write, Connections
  <2> QED  BY <1>3, <2>1, <2>2 DEF Write
<1>4. conn'[c].phase \in Running => Read(c) \/ Insert(c) \/ Write(c)
  BY PhaseAfter DEF Connection, TakeTurn, Proceed, Collide, DatabaseFails
<1> QED  BY <1>1, <1>2, <1>3, <1>4

\* A server runs one command at a time, whatever step is taken.
LEMMA LoopStaysAlone ==
  ASSUME ConnInv, LoopAlone, Next
  PROVE  LoopAlone'
<1>0. conn \in [Conns -> Connections]
  BY DEF ConnInv, TypeOK
<1>1. ASSUME NEW c \in Conns, Connection(c)  PROVE LoopAlone'
  <2>1. ASSUME NEW d \in Conns \ {c}, conn'[d].phase \in Running, conn'[c].phase \in Running
        PROVE  Host[c] # Host[d]
    <3>1. conn[d].phase \in Running
      BY <1>1, <2>1, OthersStay
    <3>2. CASE Read(c)
      BY <3>1, <3>2 DEF Read, Audited, Turn, LoopIsFree, Running
    <3>3. CASE conn[c].phase \in Running
      BY <3>1, <3>3 DEF LoopAlone
    <3> QED  BY <1>1, <2>1, <3>2, <3>3, RunnersAfter DEF Running
  <2>2. \A d \in Conns \ {c} : conn'[d] = conn[d]
    BY <1>1, OthersStay
  <2> QED  BY <2>1, <2>2 DEF LoopAlone
<1>2. ASSUME NEW t \in Threads, ThreadCounts(t) \/ ThreadProceeds(t)  PROVE LoopAlone'
  BY <1>2 DEF ThreadCounts, ThreadProceeds, ThreadInserts, ThreadCommits, ThreadFails, LoopAlone
<1>3. ASSUME NEW server \in Servers, Die(server)  PROVE LoopAlone'
  <2>1. ASSUME NEW d \in Conns, conn'[d].phase \in Running  PROVE conn[d].phase \in Running
    <3>1. conn'[d] = conn[d] \/ conn'[d] = Dropped(conn[d])
      BY <1>3 DEF Die
    <3>2. Dropped(conn[d]).phase \notin Running
      BY <1>0 DEF Dropped, Connections, Running
    <3> QED  BY <2>1, <3>1, <3>2
  <2> QED  BY <2>1 DEF LoopAlone
<1> QED  BY <1>1, <1>2, <1>3 DEF Next

\* Who may apply a request after a connection's step might before, unless the step
\* is the read of its status; and a settled command may not.
LEMMA AppliersAfter ==
  ASSUME ConnInv, NEW c \in Conns, Connection(c), NEW n
  PROVE  /\ \A d \in Conns \ {c} : MayApply(d, n)' => MayApply(d, n)
         /\ MayApply(c, n)' => MayApply(c, n) \/ (Read(c) /\ StatusOf(conn[c].line) = "approved" /\ conn[c].line.target = n)
         /\ conn'[c].phase \notin Running => ~MayApply(c, n)'
<1>0. conn[c] \in Connections /\ TargetIsKnown(conn[c])
  BY DEF ConnInv, ConnectionSound, TypeOK
<1>1. \A d \in Conns \ {c} : MayApply(d, n)' => MayApply(d, n)
  BY OthersStay DEF MayApply
<1>2. conn'[c].phase \notin Running => ~MayApply(c, n)'
  BY DEF MayApply, Running
<1>3. ASSUME MayApply(c, n)'
      PROVE  MayApply(c, n) \/ (Read(c) /\ StatusOf(conn[c].line) = "approved" /\ conn[c].line.target = n)
  <2>1. CASE Read(c)
    BY <1>3, <2>1, RunnersAfter DEF MayApply
  <2>2. CASE Insert(c) \/ Write(c)
    BY <1>0, <1>3, <2>2, RunnersAfter DEF MayApply, TargetIsKnown
  <2> QED  BY <1>2, <1>3, <2>1, <2>2, RunnersAfter
<1> QED  BY <1>1, <1>2, <1>3

\* A step that approves nothing, and settles nothing.
LEMMA ApprovalsStay ==
  ASSUME ConnInv, ApprovalsInv, LoopAlone', uses' = uses,
         \A n \in Numbers : request'[n].status = "approved" => request[n].status = "approved",
         \A n \in Numbers : \A c \in Conns : MayApply(c, n)' => MayApply(c, n)
  PROVE  ApprovalsInv'
<1>1. ASSUME NEW n \in Numbers
      PROVE  uses'[n] + Cardinality(Appliers(n)') <= Cardinality(Servers)
  <2>1. uses[n] \in Nat /\ uses[n] + Cardinality(Appliers(n)) <= Cardinality(Servers)
    BY DEF ConnInv, TypeOK, ApprovalsInv
  <2>2. Cardinality(Appliers(n)') <= Cardinality(Appliers(n)) /\ Cardinality(Appliers(n)') \in Nat
    BY AppliersShrink
  <2> QED  BY <2>1, <2>2, AppliersAreFinite
<1> QED  BY <1>1 DEF ApprovalsInv

\* A read: where it finds APPROVED, the approval has not been used.
LEMMA ApprovalsAreRead ==
  ASSUME ConnInv, ApprovalsInv, LoopAlone', NEW c \in Conns, Read(c)
  PROVE  ApprovalsInv'
<1>1. Connection(c) /\ UNCHANGED <<request, uses>>
  BY DEF Connection, TakeTurn, Read
<1>2. ASSUME NEW n \in Numbers
      PROVE  uses'[n] + Cardinality(Appliers(n)') <= Cardinality(Servers)
  <2>1. uses[n] \in Nat /\ uses[n] + Cardinality(Appliers(n)) <= Cardinality(Servers)
    BY DEF ConnInv, TypeOK, ApprovalsInv
  <2>2. CASE \A d \in Conns : MayApply(d, n)' => MayApply(d, n)
    <3>1. Cardinality(Appliers(n)') <= Cardinality(Appliers(n)) /\ Cardinality(Appliers(n)') \in Nat
      BY <2>2, AppliersShrink
    <3> QED  BY <1>1, <2>1, <3>1, AppliersAreFinite
  <2>3. CASE ~\A d \in Conns : MayApply(d, n)' => MayApply(d, n)
    <3>1. StatusOf(conn[c].line) = "approved" /\ conn[c].line.target = n
      BY <1>1, <2>3, AppliersAfter
    <3>2. uses[n] = 0
      BY <3>1 DEF StatusOf, ApprovalsInv
    <3>3. Appliers(n)' \subseteq Servers /\ IsFiniteSet(Servers)
      BY CloudShellAssumption DEF Appliers
    <3>4. /\ Cardinality(Appliers(n)') <= Cardinality(Servers)
          /\ Cardinality(Appliers(n)') \in Nat
      BY <3>3, FS_Subset, FS_CardinalityType
    <3> QED  BY <1>1, <3>2, <3>4
  <2> QED  BY <2>2, <2>3
<1> QED  BY <1>1, <1>2 DEF ApprovalsInv

\* What a settled row may be.
LEMMA SettledStatus ==
  ASSUME ConnInv, NEW c \in Conns, NEW status \in {"open", "ready", "approved", "applied"},
         request' \in Settled(c, status), NEW m \in Numbers
  PROVE  /\ conn[c].line.name # "fix plan" /\ conn[c].line.target = m => request'[m].status = status
         /\ request'[m].status = "approved" =>
              request[m].status = "approved" \/ (conn[c].line.target = m /\ status = "approved")
<1>0. request \in [Numbers -> Requests] /\ m # 0
  BY CloudShellAssumption DEF ConnInv, TypeOK, Numbers
<1> DEFINE n == conn[c].line.target
<1>1. CASE conn[c].line.name = "fix plan"
  <2>1. request' = [request EXCEPT ![number[c]] = [status |-> "open", cleared |-> FALSE]]
    BY <1>1 DEF Settled, WithCreated
  <2> QED  BY <1>0, <1>1, <2>1
<1>2. CASE conn[c].line.name # "fix plan" /\ n = 0
  <2>1. request' = request
    BY <1>2 DEF Settled
  <2> QED  BY <1>0, <1>2, <2>1
<1>3. CASE conn[c].line.name # "fix plan" /\ n # 0
  <2>1. PICK b \in IF conn[c].line.name = "approve" THEN BOOLEAN
                   ELSE IF conn[c].line.name = "reject" THEN {FALSE}
                   ELSE {request[n].cleared} :
          request' = [request EXCEPT ![n] = [status |-> status, cleared |-> b]]
    BY <1>3, Zenon DEF Settled
  <2> QED  BY <1>0, <2>1
<1> QED  BY <1>1, <1>2, <1>3

\* A command that settles its request: an approval begins anew, an apply uses it.
LEMMA ApprovalsAreSettled ==
  ASSUME ConnInv, ApprovalsInv, LoopAlone', NEW c \in Conns, Connection(c),
         conn[c].phase = "written", conn'[c].phase \notin Running, uses' = UsesAfter(c),
         NEW status \in {"open", "ready", "approved", "applied"}, request' \in Settled(c, status),
         status = "approved" => conn[c].line.name = "approve"
  PROVE  ApprovalsInv'
<1> DEFINE n == conn[c].line.target
<1>0. /\ uses \in [Numbers -> Nat]
      /\ TargetIsKnown(conn[c])
      /\ 0 \notin Numbers
  BY CloudShellAssumption DEF ConnInv, ConnectionSound, TypeOK, Numbers
<1>1. \A m \in Numbers : \A d \in Conns : MayApply(d, m)' => d # c /\ MayApply(d, m)
  BY AppliersAfter
<1>2. ASSUME NEW m \in Numbers
      PROVE  /\ uses[m] \in Nat /\ uses[m] + Cardinality(Appliers(m)) <= Cardinality(Servers)
             /\ Cardinality(Appliers(m)') <= Cardinality(Appliers(m))
             /\ Cardinality(Appliers(m)') \in Nat
             /\ Cardinality(Appliers(m)) <= Cardinality(Servers)
             /\ Cardinality(Appliers(m)) \in Nat /\ Cardinality(Servers) \in Nat
  BY <1>0, <1>1, AppliersShrink, AppliersAreFinite DEF ApprovalsInv
<1>3. ASSUME NEW m \in Numbers, n # m \/ (conn[c].line.name # "approve" /\ ~conn[c].runs)
      PROVE  /\ uses'[m] = uses[m]
             /\ request'[m].status = "approved" => request[m].status = "approved"
  <2>1. uses'[m] = uses[m]
    BY <1>0, <1>3 DEF UsesAfter
  <2> QED  BY <1>3, <2>1, SettledStatus
<1>4. ASSUME NEW m \in Numbers, n = m, conn[c].line.name = "approve"
      PROVE  uses'[m] = 0
  BY <1>0, <1>4 DEF UsesAfter
<1>5. ASSUME NEW m \in Numbers, n = m, conn[c].line.name # "approve", conn[c].runs
      PROVE  /\ uses'[m] = uses[m] + 1
             /\ request'[m].status # "approved"
             /\ Cardinality(Appliers(m)') + 1 <= Cardinality(Appliers(m))
  <2>1. uses'[m] = uses[m] + 1
    BY <1>0, <1>5 DEF UsesAfter
  <2>2. request'[m].status = status /\ status # "approved"
    BY <1>0, <1>5, SettledStatus DEF TargetIsKnown
  <2>3. Host[c] \in Appliers(m)
    <3>1. MayApply(c, m)
      BY <1>0, <1>5 DEF MayApply, TargetIsKnown
    <3>2. Host[c] \in Servers
      BY CloudShellAssumption DEF Sessions
    <3> QED  BY <3>1, <3>2 DEF Appliers
  <2>4. Host[c] \notin Appliers(m)'
    <3>1. ASSUME NEW d \in Conns, Host[d] = Host[c], MayApply(d, m)'  PROVE FALSE
      <4>1. d # c /\ MayApply(d, m)
        BY <1>1, <1>5, <3>1
      <4>2. conn[d].phase \in Running /\ conn[c].phase \in Running
        BY <4>1 DEF MayApply, Running
      <4> QED  BY <3>1, <4>1, <4>2 DEF ApprovalsInv, LoopAlone
    <3> QED  BY <3>1 DEF Appliers
  <2>5. Cardinality(Appliers(m)') + 1 <= Cardinality(Appliers(m))
    BY <1>1, <1>5, <2>3, <2>4, AppliersAreFewer
  <2> QED  BY <2>1, <2>2, <2>5
<1>6. ASSUME NEW m \in Numbers
      PROVE  /\ request'[m].status = "approved" => uses'[m] = 0
             /\ uses'[m] + Cardinality(Appliers(m)') <= Cardinality(Servers)
  <2>1. CASE n # m \/ (conn[c].line.name # "approve" /\ ~conn[c].runs)
    BY <1>2, <1>3, <2>1 DEF ApprovalsInv
  <2>2. CASE n = m /\ conn[c].line.name = "approve"
    BY <1>2, <1>4, <2>2
  <2>3. CASE n = m /\ conn[c].line.name # "approve" /\ conn[c].runs
    BY <1>2, <1>5, <2>3
  <2> QED  BY <2>1, <2>2, <2>3
<1> QED  BY <1>6 DEF ApprovalsInv

\* Every step keeps the account of the approvals.
LEMMA ApprovalsStaySpent ==
  ASSUME ConnInv, ApprovalsInv, Next
  PROVE  ApprovalsInv'
<1>0. /\ LoopAlone'
      /\ conn \in [Conns -> Connections]
      /\ request \in [Numbers -> Requests]
  BY LoopStaysAlone DEF ApprovalsInv, ConnInv, TypeOK
<1>1. ASSUME NEW c \in Conns, Connection(c)  PROVE ApprovalsInv'
  <2>1. CASE Read(c)
    BY <1>0, <2>1, ApprovalsAreRead
  <2>2. ASSUME ~Read(c), uses' = uses,
               \A n \in Numbers : request'[n].status = "approved" => request[n].status = "approved"
        PROVE  ApprovalsInv'
    BY <1>0, <1>1, <2>2, AppliersAfter, ApprovalsStay
  <2>3. CASE /\ ~Read(c)
             /\ \/ Open(c) \/ Close(c) \/ (\E line \in Lines[c] : Send(c, line)) \/ Forget(c)
                \/ Refuse(c) \/ Answer(c) \/ StartFails(c) \/ Insert(c) \/ Finish(c) \/ Drop(c)
    BY <2>2, <2>3 DEF Open, Close, Send, Forget, Refuse, Answer, StartFails, Insert, Finish, Drop
  <2>4. CASE Write(c)
    <3>1. ~Read(c) /\ uses' = uses
      BY <2>4 DEF Write, Read, Audited, Turn
    <3>2. CASE request' = request
      BY <2>2, <3>1, <3>2
    <3>3. CASE request' = [request EXCEPT ![conn[c].line.target].cleared = FALSE]
      BY <1>0, <2>2, <3>1, <3>3 DEF Requests
    <3> QED  BY <2>4, <3>2, <3>3 DEF Write
  <2>5. CASE Commit(c)
    <3>1. PICK status \in Outcomes(c) : request' \in Settled(c, status)
      BY <2>5 DEF Commit
    <3>2. status \in {"open", "ready", "approved", "applied"}
      BY OutcomesAreTyped
    <3>3. status = "approved" => conn[c].line.name = "approve"
      BY DEF Outcomes
    <3>4. conn[c].phase = "written" /\ uses' = UsesAfter(c) /\ conn'[c].phase \notin Running
      BY <2>5, PhaseAfter DEF Commit
    <3> QED  BY <1>0, <1>1, <3>1, <3>2, <3>3, <3>4, ApprovalsAreSettled
  <2>6. CASE Raise(c)
    <3>1. ~Read(c) /\ conn'[c].phase \notin Running
      BY <2>6, PhaseAfter DEF Raise, Read, Audited, Turn
    <3>2. CASE conn[c].phase = "written"
      <4>1. request' \in Settled(c, "open") /\ uses' = UsesAfter(c)
        BY <2>6, <3>2 DEF Raise
      <4> QED  BY <1>0, <1>1, <3>1, <3>2, <4>1, ApprovalsAreSettled
    <3>3. CASE conn[c].phase # "written"
      BY <2>2, <2>6, <3>1, <3>3 DEF Raise
    <3> QED  BY <3>2, <3>3
  <2> QED  BY <1>1, <2>1, <2>3, <2>4, <2>5, <2>6 DEF Connection, TakeTurn, Proceed, Collide, DatabaseFails
<1>2. ASSUME NEW t \in Threads, ThreadCounts(t) \/ ThreadProceeds(t)  PROVE ApprovalsInv'
  <2>1. conn' = conn /\ uses' = uses
    BY <1>2 DEF ThreadCounts, ThreadProceeds, ThreadInserts, ThreadCommits, ThreadFails
  <2>2. request' = request \/ request' = WithCreated(number[t])
    BY <1>2 DEF ThreadCounts, ThreadProceeds, ThreadInserts, ThreadCommits, ThreadFails
  <2>3. \A n \in Numbers : request'[n].status = "approved" => request[n].status = "approved"
    BY <1>0, <2>2 DEF WithCreated
  <2> QED  BY <1>0, <2>1, <2>3, ApprovalsStay DEF MayApply
<1>3. ASSUME NEW server \in Servers, Die(server)  PROVE ApprovalsInv'
  <2>1. ASSUME NEW n \in Numbers, NEW c \in Conns, MayApply(c, n)'  PROVE MayApply(c, n)
    <3>1. conn'[c] = conn[c] \/ conn'[c] = Dropped(conn[c])
      BY <1>3 DEF Die
    <3>2. Dropped(conn[c]).phase \notin Running
      BY <1>0 DEF Dropped, Connections, Running
    <3> QED  BY <2>1, <3>1, <3>2 DEF MayApply, Running
  <2>2. uses' = uses /\ request' = request
    BY <1>3 DEF Die
  <2> QED  BY <1>0, <2>1, <2>2, ApprovalsStay
<1> QED  BY <1>1, <1>2, <1>3 DEF Next

\* The account of the approvals holds in every reachable state.
LEMMA ApprovalsInvariant == Spec => []ApprovalsInv
<1>1. Init => ApprovalsInv
  <2> SUFFICES ASSUME Init  PROVE ApprovalsInv
    OBVIOUS
  <2>1. \A c \in Conns : conn[c].phase \notin Running
    BY DEF Init, Closed, Blank, Running
  <2>2. LoopAlone
    BY <2>1 DEF LoopAlone
  <2>3. ASSUME NEW n \in Numbers  PROVE uses[n] = 0 /\ uses[n] + Cardinality(Appliers(n)) <= Cardinality(Servers)
    BY AppliersAreFinite DEF Init
  <2> QED  BY <2>2, <2>3 DEF ApprovalsInv
<1>2. ConnInv /\ ApprovalsInv /\ [Next]_vars => ApprovalsInv'
  <2>1. CASE UNCHANGED vars
    <3>1. UNCHANGED <<conn, request, uses>>
      BY <2>1 DEF vars
    <3>2. \A n \in Numbers : Appliers(n)' = Appliers(n)
      BY <3>1 DEF Appliers, MayApply
    <3>3. LoopAlone => LoopAlone'
      BY <3>1 DEF LoopAlone
    <3> QED  BY <3>1, <3>2, <3>3 DEF ApprovalsInv
  <2> QED  BY <2>1, ApprovalsStaySpent
<1> QED  BY <1>1, <1>2, ConnectionInvariant, PTL DEF Spec

\* An approval is used for at most one recorded apply per server: a server that
\* has read APPROVED may apply once more when the other's lock is gone, and no
\* server reads it after that.
THEOREM ApprovalsSpent == Spec => []ApprovalsAreSpent
<1>1. ConnInv /\ ApprovalsInv => ApprovalsAreSpent
  <2> SUFFICES ASSUME ConnInv, ApprovalsInv, NEW n \in Numbers  PROVE uses[n] <= Cardinality(Servers)
    BY DEF ApprovalsAreSpent
  <2> QED  BY AppliersAreFinite DEF ApprovalsInv, ConnInv, TypeOK
<1> QED  BY <1>1, ConnectionInvariant, ApprovalsInvariant, PTL

-----------------------------------------------------------------------------
(* Refinement *)

OneServer == \A c, d \in Conns : Host[c] = Host[d]

\* What a command has read of its request, and has passed, is still so.
ReadsHold(c) ==
  LET row == request[conn[c].line.target] IN
  /\ conn[c].seen = row.status
  /\ conn[c].line.name = "approve" => row.status = "ready"
  /\ conn[c].line.name = "reject" => row.status # "approved"
  /\ conn[c].runs => row.status = "approved" /\ row.cleared = TRUE

BoardInv == \A c \in Conns : Working(c) => ReadsHold(c)

\* A connection that does not run its command changes no request.
LEMMA IdleChangesNothing ==
  ASSUME NEW c \in Conns, Connection(c), conn[c].phase \notin Running
  PROVE  UNCHANGED <<request, uses>>
BY DEF Connection, TakeTurn, Proceed, Open, Close, Send, Forget, Refuse, Answer, Read, StartFails,
       Insert, Collide, Write, Commit, Finish, Raise, DatabaseFails, Drop, Running

\* What the first UPDATE of a command does.
LEMMA WriteKeepsStatus ==
  ASSUME ConnInv, NEW c \in Conns, Write(c)
  PROVE  /\ conn'[c].seen = conn[c].seen
         /\ \A n \in Numbers : request'[n].status = request[n].status
         /\ conn'[c].runs => conn[c].seen = "approved" /\ request[conn[c].line.target].cleared
                             /\ request' = request
<1>0. /\ conn \in [Conns -> Connections] /\ conn[c] \in Connections
      /\ request \in [Numbers -> Requests]
      /\ ~conn[c].runs
  BY DEF ConnInv, TypeOK, ConnectionSound, TargetIsKnown, Write
<1>1. CASE /\ PrecheckPasses(c, conn[c].line.target) /\ request' = request
           /\ conn' = [conn EXCEPT ![c] = [conn[c] EXCEPT !.phase = "written", !.runs = TRUE]]
  BY <1>0, <1>1 DEF PrecheckPasses, Connections
<1>2. CASE conn' = [conn EXCEPT ![c] = [conn[c] EXCEPT !.phase = "written"]]
  <2>1. conn'[c].seen = conn[c].seen /\ ~conn'[c].runs
    BY <1>0, <1>2 DEF Connections
  <2>2. ASSUME NEW n, request' = [request EXCEPT ![n].cleared = FALSE]
        PROVE  \A m \in Numbers : request'[m].status = request[m].status
    BY <1>0, <2>2 DEF Requests
  <2>3. request' = request \/ \E n : request' = [request EXCEPT ![n].cleared = FALSE]
    BY DEF Write
  <2> QED  BY <2>1, <2>2, <2>3
<1> QED  BY <1>1, <1>2 DEF Write

\* Another creation leaves the requests that exist as they are.
LEMMA CreationKeepsRequests ==
  ASSUME ConnInv, NumbersInv, NEW s \in Sessions, Inserted(s), request' = WithCreated(number[s])
  PROVE  \A n \in Created : request'[n] = request[n]
<1>1. number[s] \notin Created
  BY CreatedIsFinite DEF NumbersInv, NumbersAreDense
<1> QED  BY <1>1 DEF WithCreated, Created, ConnInv, TypeOK

\* On one server nothing changes the request a command has read but the command itself.
LEMMA ReadsStay ==
  ASSUME OneServer, ConnInv, ConnInv', NumbersInv, LoopAlone, LoopAlone', BoardInv, Next
  PROVE  BoardInv'
<1>0. /\ conn \in [Conns -> Connections]
      /\ \A c \in Conns : TargetIsKnown(conn[c]) /\ TargetIsKnown(conn'[c])
      /\ \A c \in Conns : Working(c) => conn[c].line.target \in Created
      /\ request \in [Numbers -> Requests]
  BY DEF ConnInv, TypeOK, ConnectionSound, NumbersInv
<1>1. ASSUME NEW c \in Conns, Connection(c), NEW d \in Conns, Working(d)'  PROVE ReadsHold(d)'
  <2>1. CASE d # c
    <3>1. conn'[d] = conn[d]
      BY <1>1, <2>1, OthersStay
    <3>2. Working(d) /\ ReadsHold(d)
      BY <1>1, <3>1 DEF Working, BoardInv
    <3>3. conn[c].phase \notin Running
      BY <2>1, <3>2 DEF OneServer, LoopAlone, Working
    <3>4. request' = request
      BY <1>1, <3>3, IdleChangesNothing
    <3> QED  BY <3>1, <3>2, <3>4 DEF ReadsHold
  <2>2. CASE d = c /\ Read(c)
    <3>1. /\ conn'[c].line = conn[c].line
          /\ conn'[c].phase = "read"
          /\ conn'[c].seen = StatusOf(conn[c].line)
      BY <1>1, <2>2, RunnersAfter
    <3>2. ~conn'[c].runs
      BY <1>0, <3>1 DEF TargetIsKnown
    <3>3. conn[c].line.name # "fix plan" /\ conn[c].line.target # 0
      BY <1>1, <2>2, <3>1 DEF Working
    <3>4. Readable(conn[c].line) /\ request' = request
      BY <2>2, <3>3 DEF Read
    <3> QED  BY <2>2, <3>1, <3>2, <3>3, <3>4 DEF ReadsHold, Readable, StatusOf
  <2>3. CASE d = c /\ Insert(c)
    BY <1>1, <2>3, RunnersAfter DEF Insert, Working
  <2>4. CASE d = c /\ Write(c)
    <3>1. conn'[c].line = conn[c].line /\ conn[c].phase = "read"
      BY <1>1, <2>4, RunnersAfter
    <3>2. Working(c) /\ ReadsHold(c) /\ conn[c].line.target \in Numbers
      BY <1>0, <1>1, <2>4, <3>1 DEF Working, Running, BoardInv, Created
    <3> QED  BY <2>4, <3>1, <3>2, WriteKeepsStatus DEF ReadsHold
  <2> QED  BY <1>1, <2>1, <2>2, <2>3, <2>4, RunnersAfter DEF Working
<1>2. ASSUME NEW t \in Threads, ThreadCounts(t) \/ ThreadProceeds(t), NEW d \in Conns, Working(d)'
      PROVE  ReadsHold(d)'
  <2>1. conn' = conn
    BY <1>2 DEF ThreadCounts, ThreadProceeds, ThreadInserts, ThreadCommits, ThreadFails
  <2>2. request' = request \/ (Inserted(t) /\ request' = WithCreated(number[t]))
    BY <1>2 DEF ThreadCounts, ThreadProceeds, ThreadInserts, ThreadCommits, ThreadFails, Inserted
  <2>3. Working(d) /\ ReadsHold(d) /\ conn[d].line.target \in Created
    BY <1>0, <1>2, <2>1 DEF Working, BoardInv
  <2>4. request'[conn[d].line.target] = request[conn[d].line.target]
    BY <2>2, <2>3, CreationKeepsRequests, InsertedIsCounted
  <2> QED  BY <2>1, <2>3, <2>4 DEF ReadsHold
<1>3. ASSUME NEW server \in Servers, Die(server), NEW d \in Conns, Working(d)'  PROVE ReadsHold(d)'
  <2>1. Dropped(conn[d]).phase \notin Running
    BY <1>0 DEF Dropped, Connections, Running
  <2>2. conn'[d] = conn[d] /\ request' = request
    BY <1>3, <2>1 DEF Die, Working
  <2> QED  BY <1>3, <2>2 DEF Working, ReadsHold, BoardInv
<1> QED  BY <1>1, <1>2, <1>3 DEF Next, BoardInv

Used == {n \in Numbers : uses[n] > 0}

\* The names RequestBoard has for the same things.
LEMMA BoardTerms == Board!Numbers = Numbers /\ Board!Created = Created
BY DEF Board!Numbers, Board!Created, Numbers, Created

\* What counts as used when uses are counted, and when they begin anew.
LEMMA UsedAfter ==
  ASSUME uses \in [Numbers -> Nat], NEW n \in Numbers
  PROVE  /\ uses' = uses => Used' = Used
         /\ uses' = [uses EXCEPT ![n] = 0] => Used' = Used \ {n}
         /\ uses' = [uses EXCEPT ![n] = @ + 1] => Used' = Used \cup {n}
BY DEF Used

\* A command's step on the board is one of the board.
LEMMA CommandIsNext ==
  ASSUME NEW n \in Created, Board!Work(n) \/ Board!MakeReady(n) \/ Board!Approve(n) \/ Board!Reject(n) \/ Board!Apply(n)
  PROVE  Board!Next
<1>1. n \in Board!Created
  BY BoardTerms
<1> QED  BY <1>1 DEF Board!Next

\* A creation is one on the board.
LEMMA CreationOnBoard ==
  ASSUME ConnInv, NumbersInv, NEW s \in Sessions, Inserted(s), request' = WithCreated(number[s]),
         uses' = uses
  PROVE  Board!Create
<1> DEFINE n == number[s]
<1>1. Created = 1..(n - 1) /\ n \in Numbers
  <2>1. n = Cardinality(Created) + 1 /\ n \in 0..MaxRequests
    BY DEF NumbersInv, ConnInv, TypeOK
  <2> QED  BY <2>1, CreatedIsFinite, CloudShellAssumption DEF NumbersInv, NumbersAreDense, Numbers
<1>2. Board!Becomes(n, "open", FALSE)
  BY DEF Board!Becomes, WithCreated
<1> QED  BY <1>1, <1>2, BoardTerms DEF Board!Create

\* A settled command is one step on the board.
LEMMA CommandOnBoard ==
  ASSUME ConnInv, NumbersInv, ApprovalsInv, BoardInv, NEW c \in Conns, conn[c].phase = "written",
         NEW status \in {"open"} \cup Outcomes(c), request' \in Settled(c, status), uses' = UsesAfter(c)
  PROVE  [Board!Next]_(Board!vars)
<1> DEFINE name == conn[c].line.name
           n == conn[c].line.target
<1>0. /\ request \in [Numbers -> Requests]
      /\ uses \in [Numbers -> Nat]
      /\ conn[c] \in Connections
      /\ conn[c].runs => name = "terraform apply" /\ n \in Numbers
  BY DEF ConnInv, TypeOK, ConnectionSound, TargetIsKnown
<1>1. CASE name = "fix plan"
  <2>1. request' = WithCreated(number[c])
    BY <1>1 DEF Settled
  <2>2. uses' = uses
    BY <1>0, <1>1 DEF UsesAfter
  <2> QED  BY <1>1, <2>1, <2>2, CreationOnBoard, InsertedIsCounted DEF Inserted, Board!Next
<1>2. CASE name # "fix plan" /\ n = 0
  <2>1. request' = request
    BY <1>2 DEF Settled
  <2>2. uses' = uses
    BY <1>2 DEF UsesAfter
  <2> QED  BY <2>1, <2>2 DEF Board!vars
<1>3. CASE name # "fix plan" /\ n # 0
  <2>1. PICK m \in Created : m = n /\ m \in Numbers /\ Working(c) /\ ReadsHold(c)
    BY <1>3 DEF Working, Running, BoardInv, NumbersInv, Created
  <2>2. PICK b \in IF name = "approve" THEN BOOLEAN
                   ELSE IF name = "reject" THEN {FALSE}
                   ELSE {request[m].cleared} :
          request' = [request EXCEPT ![m] = [status |-> status, cleared |-> b]]
    BY <1>3, <2>1, Zenon DEF Settled
  <2>3. Board!Becomes(m, status, b)
    BY <2>1, <2>2 DEF Board!Becomes
  <2>4. CASE name = "approve"
    <3>1. status \in {"approved", "open"} /\ b \in BOOLEAN
      BY <2>2, <2>4 DEF Outcomes
    <3>2. Used' = Used \ {m}
      BY <1>0, <1>3, <2>1, <2>4, UsedAfter DEF UsesAfter
    <3>3. request[m].status = "ready"
      BY <2>1, <2>4 DEF ReadsHold
    <3>4. Board!Approve(m)
      BY <2>3, <3>1, <3>2, <3>3 DEF Board!Approve, Used
    <3> QED  BY <2>1, <3>4, CommandIsNext
  <2>5. CASE name = "terraform apply" /\ conn[c].runs
    <3>1. status \in {"applied", "open"}
      BY <2>5 DEF Outcomes
    <3>2. uses' = [uses EXCEPT ![m] = @ + 1]
      BY <1>3, <2>1, <2>5 DEF UsesAfter
    <3>3. Used' = Used \cup {m}
      BY <1>0, <2>1, <3>2, UsedAfter
    <3>4. request[m].status = "approved" /\ request[m].cleared = TRUE
      BY <2>1, <2>5 DEF ReadsHold
    <3>5. request[m] = [status |-> "approved", cleared |-> TRUE] /\ b = TRUE
      BY <1>0, <2>1, <2>2, <2>5, <3>4 DEF Requests
    <3>6. m \notin Used
      BY <2>1, <3>4 DEF Used, ApprovalsInv
    <3>7. Board!Apply(m)
      BY <2>3, <3>1, <3>3, <3>5, <3>6 DEF Board!Apply, Used
    <3> QED  BY <2>1, <3>7, CommandIsNext
  <2>6. CASE name # "approve" /\ ~conn[c].runs
    <3>1. uses' = uses
      BY <2>6 DEF UsesAfter
    <3>2. Used' = Used
      BY <1>0, <2>1, <3>1, UsedAfter
    <3>3. CASE name = "reject"
      <4>1. status = "open" /\ b = FALSE /\ request[m].status # "approved"
        BY <2>1, <2>2, <2>6, <3>3 DEF Outcomes, ReadsHold
      <4>2. Board!Reject(m)
        BY <2>3, <3>2, <4>1 DEF Board!Reject, Used
      <4> QED  BY <2>1, <4>2, CommandIsNext
    <3>4. CASE name # "reject"
      <4>1. status \in {"open", "ready"} /\ b = request[m].cleared
        BY <2>2, <2>6, <3>4 DEF Outcomes
      <4>2. Board!Work(m) \/ Board!MakeReady(m)
        BY <2>3, <3>2, <4>1 DEF Board!Work, Board!MakeReady, Used
      <4> QED  BY <2>1, <4>2, CommandIsNext
    <3> QED  BY <3>3, <3>4
  <2> QED  BY <1>0, <2>4, <2>5, <2>6
<1> QED  BY <1>1, <1>2, <1>3

\* So is the change of the files that comes with the first UPDATE.
LEMMA WriteOnBoard ==
  ASSUME ConnInv, NumbersInv, NEW c \in Conns, Write(c)
  PROVE  [Board!Next]_(Board!vars)
<1> DEFINE n == conn[c].line.target
<1>0. request \in [Numbers -> Requests] /\ uses' = uses
  BY DEF ConnInv, TypeOK, Write
<1>1. CASE request' = request
  BY <1>0, <1>1 DEF Board!vars
<1>2. CASE n # 0 /\ request' = [request EXCEPT ![n].cleared = FALSE]
  <2>1. n \in Created
    BY <1>2 DEF Write, NumbersInv, Working, Running
  <2>2. Board!Work(n)
    BY <1>0, <1>2 DEF Board!Work
  <2> QED  BY <2>1, <2>2, CommandIsNext
<1> QED  BY <1>1, <1>2 DEF Write

\* Every step is a step on the board, or changes nothing there.
LEMMA BoardStep ==
  ASSUME ConnInv, NumbersInv, ApprovalsInv, BoardInv, [Next]_vars
  PROVE  [Board!Next]_(Board!vars)
<1>1. ASSUME UNCHANGED <<request, uses>>  PROVE [Board!Next]_(Board!vars)
  BY <1>1 DEF Board!vars
<1>2. ASSUME NEW c \in Conns, Connection(c)  PROVE [Board!Next]_(Board!vars)
  <2>1. CASE Commit(c)
    BY <2>1, CommandOnBoard DEF Commit
  <2>2. CASE Raise(c)
    BY <1>1, <2>2, CommandOnBoard DEF Raise
  <2>3. CASE Write(c)
    BY <2>3, WriteOnBoard
  <2> QED
    BY <1>1, <1>2, <2>1, <2>2, <2>3
    DEF Connection, TakeTurn, Proceed, Open, Close, Send, Forget, Refuse, Answer, Read, StartFails,
        Insert, Collide, Finish, DatabaseFails, Drop
<1>3. ASSUME NEW t \in Threads, ThreadCounts(t) \/ ThreadProceeds(t)  PROVE [Board!Next]_(Board!vars)
  <2>1. CASE ThreadCommits(t)
    <3>1. Inserted(t) /\ t \in Sessions
      BY <2>1, InsertedIsCounted DEF ThreadCommits, Inserted
    <3> QED  BY <2>1, <3>1, CreationOnBoard DEF ThreadCommits, Board!Next
  <2> QED  BY <1>1, <1>3, <2>1 DEF ThreadCounts, ThreadProceeds, ThreadInserts, ThreadFails
<1>4. ASSUME NEW server \in Servers, Die(server)  PROVE [Board!Next]_(Board!vars)
  BY <1>1, <1>4 DEF Die
<1> QED  BY <1>1, <1>2, <1>3, <1>4 DEF Next, vars

\* Nothing has been read at first, and no request exists.
LEMMA BoardInit == Init => Board!Init /\ BoardInv
<1> SUFFICES ASSUME Init  PROVE Board!Init /\ BoardInv
  OBVIOUS
<1>1. \A c \in Conns : ~Working(c)
  BY DEF Init, Closed, Blank, Working, Running
<1>2. {n \in Numbers : uses[n] > 0} = {}
  BY DEF Init
<1>3. Board!Init
  BY <1>2 DEF Init, Board!Init, Board!Numbers, Numbers, Nothing
<1> QED  BY <1>1, <1>3 DEF BoardInv

\* With one server, of any connections and REST threads, commands do to the requests
\* what they would do in a single step: no decision is made on a status that was read
\* before another command changed it, whatever raises, fails or dies.
THEOREM BoardImplemented ==
  ASSUME OneServer
  PROVE  Spec => ImplementsRequestBoard
<1>1. ConnInv /\ ConnInv' /\ NumbersInv /\ ApprovalsInv /\ ApprovalsInv' /\ BoardInv /\ [Next]_vars => BoardInv'
  <2>1. CASE UNCHANGED vars
    BY <2>1 DEF vars, BoardInv, Working, ReadsHold
  <2> QED  BY <2>1, ReadsStay DEF ApprovalsInv
<1>2. ConnInv /\ NumbersInv /\ ApprovalsInv /\ BoardInv /\ [Next]_vars => [Board!Next]_(Board!vars)
  BY BoardStep
<1> QED
  BY <1>1, <1>2, BoardInit, ConnectionInvariant, NumbersInvariant, ApprovalsInvariant, PTL
  DEF Spec, ImplementsRequestBoard, Board!Spec
=============================================================================
