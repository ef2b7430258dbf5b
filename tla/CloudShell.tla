----------------------------- MODULE CloudShell -----------------------------
(***************************************************************************)
(* The Cloud Shell as a whole: WebSocket connections that send command     *)
(* lines, the executor that parses, authorises, runs and audits them, and  *)
(* the requests they create, approve and apply, beside REST threads that   *)
(* create requests too.                                                    *)
(*                                                                         *)
(* A server runs one command at a time, because its event loop executes    *)
(* commands without awaiting; several servers share the database and the   *)
(* workspaces only.  A connection keeps one database session for all its   *)
(* commands and nothing rolls it back: after a failed flush it is of no    *)
(* use, while the connection may stay.  An UPDATE locks the row of its     *)
(* request until the session commits, fails or dies.                       *)
(*                                                                         *)
(* What the commands between creation and approval do to a request is in   *)
(* Provisioning; here they leave it open or ready for approval.            *)
(***************************************************************************)
EXTENDS Naturals, FiniteSets

CONSTANTS
  Conns,        \* WebSocket connections, one after another where one closes
  Threads,      \* threads that serve POST /provisioning/requests/from-finding
  Servers,      \* server processes, one in the repository's compose file
  Host,         \* the server of each connection and thread
  UserRoles,    \* the roles the user of the shells may have, in the course of time
  Lines,        \* what may be typed at each connection
  MaxRequests,  \* a bound: how many requests are ever created
  Faults        \* which of "database", "raise", "death" can happen

Sessions == Conns \cup Threads

-----------------------------------------------------------------------------
(* The registry and its roles *)

ViewerCommands ==
  {"help", "status", "findings list", "findings show", "evidence show", "outputs show",
   "remediation report"}

OperatorCommands ==
  {"fix suggest", "fix plan", "templates list", "templates show", "requests list",
   "requests show", "terraform validate", "terraform plan", "security scan", "cost estimate",
   "risk summary", "gates evaluate", "terraform apply", "terraform destroy",
   "validate request", "validate finding", "rescan account"}

ApproverCommands == {"approvals list", "approvals show", "approve", "reject"}

Registered == ViewerCommands \cup OperatorCommands \cup ApproverCommands

\* What the handlers of the others do.  Those that read:
FindingViews == {"findings list", "findings show", "fix suggest"}
RequestViews == {"requests list", "requests show"}
EvidenceViews == {"evidence show", "outputs show", "remediation report"}
TemplateViews == {"templates list", "templates show"}
ShellViews == {"help", "status"}

\* Those that commit, on a request unless they say otherwise.  The pending approvals
\* that the approver's views add leave the status as it is; a rescan changes
\* the inventory.
TerraformSteps == {"terraform validate", "terraform plan"}
Assessments == {"security scan", "cost estimate", "risk summary"}
Validations == {"validate request", "validate finding"}
ApprovalViews == {"approvals list", "approvals show"}
Rescans == {"rescan account"}

Preparing == TerraformSteps \cup Assessments \cup {"gates evaluate"}

Changing == Preparing \cup Validations \cup {"approve", "reject", "terraform apply"}

Writing == Changing \cup ApprovalViews \cup Rescans \cup {"fix plan"}

WithoutArgument ==
  {"help", "status", "findings list", "templates list", "requests list", "approvals list",
   "terraform destroy"}

ROLE_RANK ==
  [VIEWER |-> 10, ANALYST |-> 20, OPERATOR |-> 20, APPROVER |-> 30, ADMIN |-> 40,
   BREAKGLASS_ADMIN |-> 50]

RequiredRole(name) ==
  IF name \in ApproverCommands THEN "APPROVER"
  ELSE IF name \in OperatorCommands THEN "OPERATOR"
  ELSE "VIEWER"

Entitled(role, name) == ROLE_RANK[role] >= ROLE_RANK[RequiredRole(name)]

-----------------------------------------------------------------------------
(* The parser: a line is of one of these kinds *)

\* "nb": of registered form; the others are what the parser tells apart.
BlockedTexts == {"path", "phrase", "not nb", "shell token"}
UnparsableTexts == {"empty", "unbalanced", "only nb", "bad flag"}
Texts == {"nb", "nb, spaced"} \cup BlockedTexts \cup UnparsableTexts

Numbers == 1..MaxRequests

\* target: the request whose row the command writes; 0 if it writes none.
CommandLines == [text: Texts, name: STRING, args: BOOLEAN, target: 0..MaxRequests]

NoLine == [text |-> "empty", name |-> "", args |-> FALSE, target |-> 0]

ASSUME CloudShellAssumption ==
  /\ MaxRequests \in Nat
  /\ Conns \cap Threads = {}
  /\ IsFiniteSet(Servers)
  /\ Host \in [Sessions -> Servers]
  /\ UserRoles \subseteq DOMAIN ROLE_RANK
  /\ Lines \in [Conns -> SUBSET CommandLines]

\* The parser compares what was typed with its prefix before it splits words.
Blocked(line) ==
  \/ line.text \in BlockedTexts
  \/ line.text = "nb" /\ line.name = "terraform destroy"

Understood(line) == line.text \notin UnparsableTexts /\ line.name \in Registered

\* Mutant of Permitted: the role is looked at for approvals only.
PermittedToAll(line, role) ==
  ~Blocked(line) /\ Understood(line) /\ (line.name \in {"approve", "reject"} => Entitled(role, line.name))

Permitted(line, role) ==
  ~Blocked(line) /\ Understood(line) /\ Entitled(role, line.name)

\* Mutant of RefusalOf: a status that audit rows do not have.
RefusalByAnswer(line) == IF Blocked(line) THEN "blocked" ELSE "rejected"

RefusalOf(line) == IF Blocked(line) THEN "BLOCKED" ELSE "REJECTED"

\* The commands that end without a commit of their own.
OnlyAnswers(line) ==
  \/ line.name \notin Writing
  \/ ~line.args /\ line.name \notin WithoutArgument

-----------------------------------------------------------------------------

VARIABLES
  conn,     \* each connection, and the command it has received
  thread,   \* what each REST thread is doing
  number,   \* the request number a session has computed; 0 if none
  request,  \* the committed requests, by number
  uses      \* applies committed since the request was last approved; read by no code

vars == <<conn, thread, number, request, uses>>

\* cleared: its approval is decided, and the files are those approved.
Requests == [status: {"none", "open", "ready", "approved", "applied"}, cleared: BOOLEAN]

Nothing == [status |-> "none", cleared |-> FALSE]

FinalAudits == {"SUCCEEDED", "FAILED", "REJECTED", "BLOCKED"}

\* audit: the row of the command, "flushed" before it is committed.
\* effect: a change of the command is committed.  seen: the status it has read.
\* runs: its pre-check has passed, and terraform apply runs.
Connections ==
  [phase: {"closed", "open", "sent", "read", "written", "acted", "answered", "dropped"},
   role: DOMAIN ROLE_RANK, poisoned: BOOLEAN, line: CommandLines \cup {NoLine},
   audit: {"none", "flushed", "RECEIVED"} \cup FinalAudits,
   effect: BOOLEAN, seen: {"none", "open", "ready", "approved", "applied"}, runs: BOOLEAN]

Created == {n \in Numbers : request[n].status # "none"}

\* A session that has inserted a request it has not committed.
Inserted(s) ==
  IF s \in Threads THEN thread[s] = "inserted"
  ELSE conn[s].phase = "written" /\ conn[s].line.name = "fix plan"

\* A connection that holds the row lock of a request.
Holds(c, n) == conn[c].phase = "written" /\ conn[c].line.target = n /\ conn[c].line.name \in Changing

\* Mutant of LoopIsFree: commands run in threads of their own.
LoopIsFreeAlways(c) == TRUE

\* The event loop of a connection's server runs no other command.
LoopIsFree(c) ==
  \A d \in Conns : Host[d] = Host[c] => conn[d].phase \notin {"read", "written", "acted"}

\* A connection without a command.
Blank(phase, role, poisoned) ==
  [phase |-> phase, role |-> role, poisoned |-> poisoned, line |-> NoLine,
   audit |-> "none", effect |-> FALSE, seen |-> "none", runs |-> FALSE]

Closed == Blank("closed", "VIEWER", FALSE)

Init ==
  /\ conn = [c \in Conns |-> Closed]
  /\ thread = [t \in Threads |-> "idle"]
  /\ number = [s \in Sessions |-> 0]
  /\ request = [n \in Numbers |-> Nothing]
  /\ uses = [n \in Numbers |-> 0]

-----------------------------------------------------------------------------
(* Request numbers: _next_request_number *)

\* Mutant of NextNumber: one too many.
NextNumberButOne == Cardinality(Created) + 2

NextNumber == Cardinality(Created) + 1

\* An INSERT waits for a session that has inserted the same number.
InsertWaits(s) == \E o \in Sessions \ {s} : Inserted(o) /\ number[o] = number[s]

\* The number is kept until it is used or given up.
CountFor(s) ==
  /\ NextNumber \in Numbers
  /\ number' = [number EXCEPT ![s] = NextNumber]

WithCreated(n) == [request EXCEPT ![n] = [status |-> "open", cleared |-> FALSE]]

-----------------------------------------------------------------------------
(* The connection: router.py *)

\* The user and the role are read once, when the connection opens.
Open(c) ==
  /\ conn[c].phase = "closed"
  /\ \E role \in UserRoles : conn' = [conn EXCEPT ![c] = Blank("open", role, FALSE)]
  /\ UNCHANGED <<thread, number, request, uses>>

\* The client goes, and the session with it.
Close(c) ==
  /\ conn[c].phase = "open"
  /\ conn' = [conn EXCEPT ![c] = Closed]
  /\ UNCHANGED <<thread, number, request, uses>>

Send(c, line) ==
  /\ conn[c].phase = "open"
  /\ conn' = [conn EXCEPT ![c].phase = "sent", ![c].line = line]
  /\ UNCHANGED <<thread, number, request, uses>>

\* A command that has ended with this audit row, its answer on the way.
Answered(k, audit) == [k EXCEPT !.phase = "answered", !.audit = audit, !.seen = "none", !.runs = FALSE]

\* What is left of one when its exception reaches the router, or the server dies.
Dropped(k) ==
  [k EXCEPT !.phase = "dropped", !.audit = IF @ = "flushed" THEN "none" ELSE @,
            !.seen = "none", !.runs = FALSE]

\* The loop goes on to the next command, or has ended; the session stays as it is.
Forget(c) ==
  /\ \/ /\ conn[c].phase = "answered"
        /\ conn' = [conn EXCEPT ![c] = Blank("open", conn[c].role, conn[c].poisoned)]
     \/ conn[c].phase = "dropped" /\ conn' = [conn EXCEPT ![c] = Closed]
  /\ UNCHANGED <<thread, number, request, uses>>

-----------------------------------------------------------------------------
(* The executor *)

Turn(c) == conn[c].phase = "sent" /\ LoopIsFree(c)

Audited(c) == Turn(c) /\ ~conn[c].poisoned

\* A line that is blocked, not understood, or not permitted to the role.
Refuse(c) ==
  /\ Audited(c)
  /\ ~Permitted(conn[c].line, conn[c].role)
  /\ conn' = [conn EXCEPT ![c] = Answered(@, RefusalOf(@.line))]
  /\ UNCHANGED <<thread, number, request, uses>>

\* A handler that writes nothing, or that finds nothing it could work on.
Answer(c) ==
  /\ Audited(c)
  /\ Permitted(conn[c].line, conn[c].role)
  /\ \E audit \in IF OnlyAnswers(conn[c].line) THEN {"SUCCEEDED", "FAILED"} ELSE {"FAILED"} :
       conn' = [conn EXCEPT ![c] = Answered(@, audit)]
  /\ UNCHANGED <<thread, number, request, uses>>

Readable(line) ==
  \/ line.target = 0
  \/ /\ line.target \in Created
     /\ line.name = "approve" => request[line.target].status = "ready"
     /\ line.name = "reject" => request[line.target].status # "approved"
     /\ line.name \in Validations => request[line.target].status = "applied"

StatusOf(line) == IF line.target = 0 THEN "none" ELSE request[line.target].status

\* A handler that will write has read the request count, or its request.
Read(c) ==
  LET line == conn[c].line IN
  /\ Audited(c)
  /\ Permitted(line, conn[c].role)
  /\ ~OnlyAnswers(line)
  /\ IF line.name = "fix plan"
     THEN CountFor(c)
     ELSE Readable(line) /\ UNCHANGED number
  /\ conn' = [conn EXCEPT ![c].phase = "read", ![c].audit = "flushed", ![c].seen = StatusOf(line)]
  /\ UNCHANGED <<thread, request, uses>>

\* The INSERT of fix plan.
Insert(c) ==
  /\ conn[c].phase = "read"
  /\ conn[c].line.name = "fix plan"
  /\ ~InsertWaits(c)
  /\ number[c] \notin Created
  /\ conn' = [conn EXCEPT ![c].phase = "written"]
  /\ UNCHANGED <<thread, number, request, uses>>

\* Mutant of LockIsFree: the status is written at the commit only.
LockIsFreeAlways(c, n) == TRUE

LockIsFree(c, n) == n = 0 \/ \A d \in Conns \ {c} : ~Holds(d, n)

\* Mutant of PrecheckPasses: the pre-check asks the approval for all it knows.
PrecheckByApproval(c, n) == request[n].cleared

\* The pre-check: the status as it was read, approval and files as they are now.
PrecheckPasses(c, n) == conn[c].seen = "approved" /\ request[n].cleared

\* The first UPDATE of a request, which waits for its lock, and what the command
\* does then: files may change, and terraform apply may run.
Write(c) ==
  LET line == conn[c].line  n == line.target IN
  /\ conn[c].phase = "read"
  /\ line.name # "fix plan"
  /\ LockIsFree(c, n)
  /\ \/ /\ line.name = "terraform apply" /\ PrecheckPasses(c, n)
        /\ conn' = [conn EXCEPT ![c].phase = "written", ![c].runs = TRUE]
        /\ UNCHANGED request
     \/ /\ conn' = [conn EXCEPT ![c].phase = "written"]
        /\ \/ UNCHANGED request
           \/ line.name \in Preparing /\ n # 0 /\ request' = [request EXCEPT ![n].cleared = FALSE]
  /\ UNCHANGED <<thread, number, uses>>

\* The statuses a command may leave.
Outcomes(c) ==
  LET line == conn[c].line IN
  IF line.name = "approve" THEN {"approved"}
  ELSE IF line.name = "gates evaluate" THEN {"open", "ready"}
  ELSE IF line.name = "terraform apply" THEN {"open"} \cup (IF conn[c].runs THEN {"applied"} ELSE {})
  ELSE {"open"}

\* The rows as the command leaves them, with this status.
Settled(c, status) ==
  LET line == conn[c].line  n == line.target IN
  IF line.name = "fix plan" THEN {WithCreated(number[c])}
  ELSE IF n = 0 THEN {request}
  ELSE {[request EXCEPT ![n] = [status |-> status, cleared |-> b]] :
          b \in IF line.name = "approve" THEN BOOLEAN
                ELSE IF line.name = "reject" THEN {FALSE}
                ELSE {request[n].cleared}}

UsesAfter(c) ==
  LET line == conn[c].line  n == line.target IN
  IF n = 0 THEN uses
  ELSE IF line.name = "approve" THEN [uses EXCEPT ![n] = 0]
  ELSE IF conn[c].runs THEN [uses EXCEPT ![n] = @ + 1]
  ELSE uses

\* Mutant of Committed: the audit row is in a session of its own.
CommittedAlone(k) == [k EXCEPT !.phase = "acted", !.effect = TRUE]

Committed(k) == [k EXCEPT !.phase = "acted", !.effect = TRUE, !.audit = "RECEIVED"]

\* The handler's commit takes the audit row with it.
Commit(c) ==
  /\ conn[c].phase = "written"
  /\ \E status \in Outcomes(c) : request' \in Settled(c, status)
  /\ uses' = UsesAfter(c)
  /\ conn' = [conn EXCEPT ![c] = Committed(@)]
  /\ UNCHANGED <<thread, number>>

\* The audit logger's commit, and the answer.
Finish(c) ==
  /\ conn[c].phase = "acted"
  /\ \E audit \in {"SUCCEEDED", "FAILED"} : conn' = [conn EXCEPT ![c] = Answered(@, audit)]
  /\ UNCHANGED <<thread, number, request, uses>>

-----------------------------------------------------------------------------
(* What goes wrong *)

\* A handler raises: what it has flushed is committed with the audit row.
Raise(c) ==
  /\ "raise" \in Faults
  /\ conn[c].phase \in {"read", "written", "acted"}
  /\ IF conn[c].phase = "written"
     THEN /\ request' \in Settled(c, "open")
          /\ uses' = UsesAfter(c)
          /\ conn' = [conn EXCEPT ![c] = Answered([@ EXCEPT !.effect = TRUE], "FAILED")]
     ELSE /\ conn' = [conn EXCEPT ![c] = Answered(@, "FAILED")]
          /\ UNCHANGED <<request, uses>>
  /\ UNCHANGED <<thread, number>>

\* Mutant of StartFails: the answer is given only where a row was written.
StartFailsUnanswered(c) ==
  /\ Turn(c)
  /\ conn[c].poisoned \/ "database" \in Faults
  /\ conn' = [conn EXCEPT ![c].phase = "open", ![c].poisoned = TRUE]
  /\ UNCHANGED <<thread, number, request, uses>>

\* The audit row cannot be flushed: the answer is sent, and no row is written
\* for this command nor for any later one of the connection.
StartFails(c) ==
  /\ Turn(c)
  /\ conn[c].poisoned \/ "database" \in Faults
  /\ conn' = [conn EXCEPT ![c] = Answered([@ EXCEPT !.poisoned = TRUE], "none")]
  /\ UNCHANGED <<thread, number, request, uses>>

\* Mutant of Drop: the executor answers, although its audit could not be written.
DropAnswering(c) ==
  /\ conn' = [conn EXCEPT ![c] = [Dropped(@) EXCEPT !.phase = "answered"]]
  /\ UNCHANGED <<thread, number, request, uses>>

\* The audit logger's flush raises again, and the exception ends the connection.
Drop(c) ==
  /\ conn' = [conn EXCEPT ![c] = Dropped(@)]
  /\ UNCHANGED <<thread, number, request, uses>>

DatabaseFails(c) ==
  /\ "database" \in Faults
  /\ conn[c].phase \in {"read", "written", "acted"}
  /\ Drop(c)

\* The number was committed by another session meanwhile.
Collide(c) ==
  /\ conn[c].phase = "read"
  /\ conn[c].line.name = "fix plan"
  /\ ~InsertWaits(c)
  /\ number[c] \in Created
  /\ Drop(c)

\* A server dies with its terraform; what it had not committed is gone.
Die(server) ==
  /\ "death" \in Faults
  /\ conn' = [c \in Conns |-> IF Host[c] = server /\ conn[c].phase # "closed" THEN Dropped(conn[c]) ELSE conn[c]]
  /\ thread' = [t \in Threads |-> IF Host[t] = server THEN "idle" ELSE thread[t]]
  /\ UNCHANGED <<number, request, uses>>

-----------------------------------------------------------------------------
(* POST /provisioning/requests/from-finding *)

ThreadCounts(t) ==
  /\ thread[t] = "idle"
  /\ CountFor(t)
  /\ thread' = [thread EXCEPT ![t] = "counted"]
  /\ UNCHANGED <<conn, request, uses>>

ThreadInserts(t) ==
  /\ thread[t] = "counted"
  /\ ~InsertWaits(t)
  /\ number[t] \notin Created
  /\ thread' = [thread EXCEPT ![t] = "inserted"]
  /\ UNCHANGED <<conn, number, request, uses>>

ThreadCommits(t) ==
  /\ thread[t] = "inserted"
  /\ request' = WithCreated(number[t])
  /\ thread' = [thread EXCEPT ![t] = "idle"]
  /\ UNCHANGED <<conn, number, uses>>

\* The number is taken, or the database fails: the client has a 500.
ThreadFails(t) ==
  /\ \/ thread[t] = "counted" /\ ~InsertWaits(t) /\ number[t] \in Created
     \/ thread[t] \in {"counted", "inserted"} /\ "database" \in Faults
  /\ thread' = [thread EXCEPT ![t] = "idle"]
  /\ UNCHANGED <<conn, number, request, uses>>

-----------------------------------------------------------------------------

\* A connection's turn, and the steps of its command.
TakeTurn(c) == Refuse(c) \/ Answer(c) \/ Read(c) \/ StartFails(c)

Proceed(c) == Insert(c) \/ Collide(c) \/ Write(c) \/ Commit(c) \/ Finish(c)

Connection(c) ==
  \/ Open(c) \/ Close(c) \/ (\E line \in Lines[c] : Send(c, line)) \/ Forget(c)
  \/ TakeTurn(c) \/ Proceed(c) \/ Raise(c) \/ DatabaseFails(c)

ThreadProceeds(t) == ThreadInserts(t) \/ ThreadCommits(t) \/ ThreadFails(t)

Next ==
  \/ \E c \in Conns : Connection(c)
  \/ \E t \in Threads : ThreadCounts(t) \/ ThreadProceeds(t)
  \/ \E server \in Servers : Die(server)

\* The event loop serves what is ready in turn, subprocesses have a timeout,
\* and the database grants locks to those that wait in turn.
Fairness ==
  /\ \A c \in Conns : SF_vars(TakeTurn(c) \/ Proceed(c))
  /\ \A t \in Threads : SF_vars(ThreadProceeds(t))

Spec == Init /\ [][Next]_vars

FairSpec == Spec /\ Fairness

-----------------------------------------------------------------------------
(* Properties *)

TypeOK ==
  /\ conn \in [Conns -> Connections]
  /\ thread \in [Threads -> {"idle", "counted", "inserted"}]
  /\ number \in [Sessions -> 0..MaxRequests]
  /\ request \in [Numbers -> Requests]
  /\ uses \in [Numbers -> Nat]

\* Whatever raises, fails or dies in a command, what it has changed is never
\* without a committed audit row of the command.  (cloud_shell/audit_logger.py:39, 61)
EffectsAreAudited == \A c \in Conns : conn[c].effect => conn[c].audit \notin {"none", "flushed"}

\* A command that was answered has its final audit row, unless the session of
\* its connection has failed: then it has changed nothing, and no later command
\* of the connection is audited.  (docs/cloud-shell-security-model.md:93 knows
\* no exception.)
AnswersAreAudited ==
  \A c \in Conns : conn[c].phase = "answered" =>
    conn[c].audit \in FinalAudits \/ (conn[c].poisoned /\ conn[c].audit = "none" /\ ~conn[c].effect)

\* A committed change is one of a command that its user's role permitted when
\* the connection opened, and no line that was refused has one.
EffectsAreEntitled ==
  \A c \in Conns : conn[c].effect =>
    Entitled(conn[c].role, conn[c].line.name) /\ conn[c].audit \notin {"REJECTED", "BLOCKED"}

\* Request numbers have no gaps, whatever creations collide, fail or die: so the
\* next creation that meets no other one finds its number free, and a collision
\* is never for ever.  (provisioning/service.py:18)
NumbersAreDense == Created = 1..Cardinality(Created)

\* Two terraform runs never apply the same request at once, on whichever servers.
\* The lock table does not ensure it (its rows are only flushed), the row lock
\* that the pre-check's first UPDATE takes does.
AppliesAreAlone ==
  \A c, d \in Conns :
    conn[c].phase = "written" /\ conn[c].runs /\ conn[d].phase = "written" /\ conn[d].runs =>
      c = d \/ conn[c].line.target # conn[d].line.target

\* An approval is used for at most one recorded apply per server: a server that
\* has read APPROVED applies once more when the other's lock is gone, but then
\* no status is APPROVED that was not approved anew.
ApprovalsAreSpent == \A n \in Numbers : uses[n] <= Cardinality(Servers)

\* The requests, and which of them have used their approval up, for RequestBoard.
Board == INSTANCE RequestBoard WITH used <- {n \in Numbers : uses[n] > 0}

\* On one server commands do to the requests what they would do in a single step, although
\* they read, write and commit in three, REST threads create requests meanwhile, and
\* commands raise, fail and die: no decision is made on a status that was read before
\* another command changed it.  (cloud_shell/router.py:74)
ImplementsRequestBoard == Board!Spec

\* A command that was sent comes to its answer or to the end of its connection,
\* although servers run one command at a time and commands wait for locks.
CommandsAreAnswered ==
  \A c \in Conns : conn[c].phase = "sent" ~> conn[c].phase \in {"answered", "dropped"}
=============================================================================
