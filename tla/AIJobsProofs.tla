---------------------------- MODULE AIJobsProofs ----------------------------
(***************************************************************************)
(* What AIJobs promises for any number of analyses, workers and retries.   *)
(***************************************************************************)
EXTENDS AIJobs, TLAPS

-----------------------------------------------------------------------------
(* Types *)

\* The next try of a task that has one is a task.
LEMMA RetryTyped ==
  ASSUME NEW task \in Tasks, Retriable(task)
  PROVE  [task EXCEPT !.retries = @ + 1] \in Tasks
BY AIJobsAssumption DEF Tasks, Retriable

\* A worker that is not idle has a task.
BusyHasTask == \A w \in Workers : ~At(w, "idle") => attempt[w].task # None

TypeInv == TypeOK /\ BusyHasTask

\* The task of a busy worker speaks of an analysis.
LEMMA SubjectTyped ==
  ASSUME TypeInv, NEW w \in Workers, ~At(w, "idle")
  PROVE  /\ attempt[w].task \in Tasks
         /\ Subject(w) \in Analyses
<1>1. attempt[w].task \in Tasks
  BY DEF TypeInv, TypeOK, BusyHasTask, Attempts
<1> QED
  BY <1>1 DEF Subject, Tasks

\* A worker that goes on to another step with its task stays well-typed.
LEMMA AttemptTyped ==
  ASSUME TypeInv, NEW w \in Workers, ~At(w, "idle"),
         NEW step \in {"loaded", "started", "calling"},
         NEW seen \in {"none", "pending", "running"} \cup Ended,
         attempt' = [attempt EXCEPT ![w].step = step, ![w].seen = seen]
  PROVE  /\ attempt' \in [Workers -> Attempts]
         /\ BusyHasTask'
<1>1. attempt[w] \in Attempts /\ attempt[w].task # None
  BY DEF TypeInv, TypeOK, BusyHasTask
<1>2. attempt' = [attempt EXCEPT ![w] = [attempt[w] EXCEPT !.step = step, !.seen = seen]]
  BY DEF TypeInv, TypeOK
<1>3. [attempt[w] EXCEPT !.step = step, !.seen = seen] \in Attempts
  BY <1>1 DEF Attempts
<1>4. attempt' \in [Workers -> Attempts]
  BY <1>2, <1>3 DEF TypeInv, TypeOK
<1>5. attempt'[w].task = attempt[w].task
  BY <1>1, <1>2 DEF TypeInv, TypeOK, Attempts
<1>6. \A v \in Workers : v # w => attempt'[v] = attempt[v]
  BY <1>2 DEF TypeInv, TypeOK
<1>7. BusyHasTask'
  BY <1>1, <1>5, <1>6 DEF TypeInv, BusyHasTask, At
<1> QED
  BY <1>4, <1>7

\* A worker that has just let go of its task is well-typed.
LEMMA IdleTyped == Idle \in Attempts
BY DEF Idle, Attempts

\* Writing a status and its flags leaves rows.
LEMMA FailedRowsTyped ==
  ASSUME TypeInv, NEW w \in Workers, ~At(w, "idle"), NEW rows \in FailedRows(w)
  PROVE  rows \in [Analyses -> Rows]
<1>1. PICK seen \in LastSeen(w) :
        rows = [row EXCEPT ![Subject(w)].status = Flushed(@, seen, "failed"),
                           ![Subject(w)].error = TRUE]
  BY DEF FailedRows
<1>2. Subject(w) \in Analyses
  BY SubjectTyped
<1>3. Flushed(row[Subject(w)].status, seen, "failed")
        \in {"none", "pending", "running"} \cup Ended
  BY <1>2 DEF TypeInv, TypeOK, Rows, Flushed, Ended
<1>4. DEFINE s == Flushed(row[Subject(w)].status, seen, "failed")
<1>5. rows = [row EXCEPT ![Subject(w)] = [row[Subject(w)] EXCEPT !.status = s, !.error = TRUE]]
  BY <1>1, <1>2 DEF TypeInv, TypeOK, Rows
<1>6. row[Subject(w)] \in Rows
  BY <1>2 DEF TypeInv, TypeOK
<1>7. [row[Subject(w)] EXCEPT !.status = s, !.error = TRUE] \in Rows
  <2> HIDE DEF s
  <2> QED BY <1>3, <1>6 DEF Rows, s
<1> QED
  BY <1>5, <1>7 DEF TypeInv, TypeOK

\* Writing a completed analysis leaves rows.
LEMMA CompleteTyped ==
  ASSUME TypeInv, NEW w \in Workers, Complete(w)
  PROVE  row' \in [Analyses -> Rows]
<1> DEFINE s == Flushed(row[Subject(w)].status, attempt[w].seen, "completed")
<1>1. Subject(w) \in Analyses
  BY SubjectTyped DEF Complete, At
<1>2. row[Subject(w)] \in Rows
  BY <1>1 DEF TypeInv, TypeOK
<1>3. s \in {"none", "pending", "running"} \cup Ended
  BY <1>2 DEF Rows, Flushed, Ended
<1>4. row' = [row EXCEPT ![Subject(w)] = [row[Subject(w)] EXCEPT !.status = s, !.output = TRUE]]
  BY <1>1 DEF Complete, TypeInv, TypeOK
<1>5. [row[Subject(w)] EXCEPT !.status = s, !.output = TRUE] \in Rows
  <2> HIDE DEF s
  <2> QED BY <1>2, <1>3 DEF Rows
<1> QED
  BY <1>4, <1>5 DEF TypeInv, TypeOK

\* Retrying keeps the broker's and the workers' state well-typed.
LEMMA RetryStepTyped ==
  ASSUME TypeInv, NEW w \in Workers, ~At(w, "idle"), Retry(w)
  PROVE  /\ queue' \subseteq Tasks
         /\ attempt' \in [Workers -> Attempts]
         /\ failures' \subseteq Analyses
<1>1. attempt[w].task \in Tasks
  BY SubjectTyped
<1>2. CASE Retriable(attempt[w].task)
  BY <1>1, <1>2, RetryTyped, IdleTyped DEF Retry, TypeInv, TypeOK
<1>3. CASE ~Retriable(attempt[w].task)
  BY <1>1, <1>3, IdleTyped DEF Retry, TypeInv, TypeOK, Tasks
<1> QED
  BY <1>2, <1>3

\* The system starts well-typed.
LEMMA TypeInit == Init => TypeInv
BY DEF Init, TypeInv, TypeOK, BusyHasTask, At, Idle, Rows, Attempts

\* Every step leaves it well-typed.
LEMMA TypeStep == TypeInv /\ [Next]_vars => TypeInv'
<1> SUFFICES ASSUME TypeInv, [Next]_vars
             PROVE  TypeInv'
  OBVIOUS
<1>1. ASSUME NEW a \in Analyses, Create(a)
      PROVE  TypeInv'
  BY <1>1 DEF Create, TypeInv, TypeOK, BusyHasTask, At, Rows
<1>2. ASSUME NEW a \in Analyses, Publish(a)
      PROVE  TypeInv'
  <2>1. FirstTask(a, 1) \in Tasks /\ FirstTask(a, 2) \in Tasks
    BY AIJobsAssumption DEF FirstTask, Tasks
  <2> QED
    BY <1>2, <2>1 DEF Publish, TypeInv, TypeOK, BusyHasTask, At
<1>3. ASSUME NEW a \in Analyses, PublishFails(a)
      PROVE  TypeInv'
  BY <1>3 DEF PublishFails, TypeInv, TypeOK, BusyHasTask, At
<1>4. ASSUME NEW w \in Workers, NEW task \in queue, Take(w, task)
      PROVE  TypeInv'
  <2>1. task \in Tasks /\ task # None
    BY NoTaskIsNone DEF TypeInv, TypeOK
  <2> QED
    BY <1>4, <2>1 DEF Take, TypeInv, TypeOK, BusyHasTask, At, Attempts
<1>5. ASSUME NEW w \in Workers, Load(w)
      PROVE  TypeInv'
  <2>1. Subject(w) \in Analyses /\ ~At(w, "idle")
    BY <1>5, SubjectTyped DEF Load, At
  <2>2. row[Subject(w)].status \in {"none", "pending", "running"} \cup Ended
    BY <2>1 DEF TypeInv, TypeOK, Rows
  <2>3. attempt' \in [Workers -> Attempts] /\ BusyHasTask'
    BY <1>5, <2>1, <2>2, AttemptTyped DEF Load
  <2> QED
    BY <1>5, <2>3 DEF Load, TypeInv, TypeOK
<1>6. ASSUME NEW w \in Workers, Start(w)
      PROVE  TypeInv'
  <2>1. Subject(w) \in Analyses /\ ~At(w, "idle")
    BY <1>6, SubjectTyped DEF Start, At
  <2>2. row' \in [Analyses -> Rows]
    BY <1>6, <2>1 DEF Start, TypeInv, TypeOK, Rows, Flushed
  <2>3. attempt' \in [Workers -> Attempts] /\ BusyHasTask'
    BY <1>6, <2>1, AttemptTyped DEF Start
  <2> QED
    BY <1>6, <2>2, <2>3 DEF Start, TypeInv, TypeOK
<1>7. ASSUME NEW w \in Workers, CallProvider(w)
      PROVE  TypeInv'
  <2>1. Subject(w) \in Analyses /\ ~At(w, "idle")
    BY <1>7, SubjectTyped DEF CallProvider, At
  <2>2. row[Subject(w)].status \in {"none", "pending", "running"} \cup Ended
    BY <2>1 DEF TypeInv, TypeOK, Rows
  <2>3. attempt' \in [Workers -> Attempts] /\ BusyHasTask'
    BY <1>7, <2>1, <2>2, AttemptTyped DEF CallProvider
  <2>4. calls' \in [Analyses -> Nat]
    BY <1>7, <2>1 DEF CallProvider, TypeInv, TypeOK
  <2> QED
    BY <1>7, <2>3, <2>4 DEF CallProvider, TypeInv, TypeOK
<1>8. ASSUME NEW w \in Workers, Complete(w)
      PROVE  TypeInv'
  <2>1. row' \in [Analyses -> Rows]
    BY <1>8, CompleteTyped
  <2> QED
    BY <1>8, <2>1, IdleTyped DEF Complete, TypeInv, TypeOK, BusyHasTask, At, Idle
<1>9. ASSUME NEW w \in Workers, Fail(w)
      PROVE  TypeInv'
  <2>1. row' \in [Analyses -> Rows]
    BY <1>9, FailedRowsTyped DEF Fail, At
  <2> QED
    BY <1>9, <2>1, IdleTyped DEF Fail, TypeInv, TypeOK, BusyHasTask, At, Idle
<1>10. ASSUME NEW w \in Workers, DatabaseFails(w)
       PROVE  TypeInv'
  BY <1>10, RetryStepTyped DEF DatabaseFails, Retry, TypeInv, TypeOK, BusyHasTask, At, Idle
<1>11. ASSUME NEW w \in Workers, RefreshFails(w)
       PROVE  TypeInv'
  <2>1. ~At(w, "idle")
    BY <1>11 DEF RefreshFails, At
  <2>2. row' \in [Analyses -> Rows]
    BY <1>11, <2>1, FailedRowsTyped DEF RefreshFails
  <2> QED
    BY <1>11, <2>1, <2>2, RetryStepTyped
    DEF RefreshFails, Retry, TypeInv, TypeOK, BusyHasTask, At, Idle
<1>12. ASSUME NEW w \in Workers, Die(w)
       PROVE  TypeInv'
  BY <1>12, IdleTyped DEF Die, TypeInv, TypeOK, BusyHasTask, At, Idle
<1>13. CASE UNCHANGED vars
  BY <1>13 DEF vars, TypeInv, TypeOK, BusyHasTask, At
<1> QED
  BY <1>1, <1>2, <1>3, <1>4, <1>5, <1>6, <1>7, <1>8, <1>9, <1>10, <1>11, <1>12, <1>13
  DEF Next, Request, Work, Proceed

\* Every state of AIJobs is well-typed, whatever fails.
THEOREM TypeCorrect == Spec => []TypeOK
<1>1. TypeInv => TypeOK
  BY DEF TypeInv
<1> QED
  BY <1>1, TypeInit, TypeStep, PTL DEF Spec

-----------------------------------------------------------------------------
(* Ends, where no task is delivered twice and no refresh fails *)

Open(a) == row[a].status \notin Ended

Busy(w) == ~At(w, "idle")

\* A task at the broker is the only one of its analysis, which is open.
QueuedAlone ==
  /\ \A t \in queue : request[t.analysis] = "accepted" /\ Open(t.analysis)
  /\ \A t, u \in queue : t.analysis = u.analysis => t = u

\* So is a task in hand; and its worker has seen the analysis open.
HeldAlone ==
  /\ \A w \in Workers :
       Busy(w) => /\ request[Subject(w)] = "accepted"
                  /\ Open(Subject(w))
                  /\ attempt[w].seen \notin Ended
  /\ \A v, w \in Workers : Busy(v) /\ Busy(w) /\ Subject(v) = Subject(w) => v = w
  /\ \A w \in Workers, t \in queue : Busy(w) => t.analysis # Subject(w)

\* Before it ends, an analysis has neither an error nor an output; and none has
\* ended before its task was published.
OpenIsBlank ==
  \A a \in Analyses :
    /\ Open(a) => ~row[a].error /\ ~row[a].output
    /\ request[a] # "accepted" => Open(a)

EndsInv == TypeInv /\ QueuedAlone /\ HeldAlone /\ OpenIsBlank /\ EndsAreClear

\* Before anything is asked for there is no task and no end.
LEMMA EndsInit == Init => EndsInv
BY TypeInit
DEF Init, EndsInv, QueuedAlone, HeldAlone, OpenIsBlank, EndsAreClear, Open, Busy, At, Idle, Ended

\* A worker that lets go of its task leaves the other workers as they are.
LEMMA Released ==
  ASSUME TypeInv, NEW w \in Workers, attempt' = [attempt EXCEPT ![w] = Idle]
  PROVE  /\ ~Busy(w)'
         /\ \A v \in Workers : v # w => attempt'[v] = attempt[v]
BY DEF TypeInv, TypeOK, Busy, At, Idle

\* A worker that goes on keeps its task.
LEMMA Advanced ==
  ASSUME TypeInv, NEW w \in Workers, Busy(w), NEW step, step # "idle", NEW seen,
         attempt' = [attempt EXCEPT ![w].step = step, ![w].seen = seen]
  PROVE  /\ Busy(w)' /\ Subject(w)' = Subject(w) /\ attempt'[w].seen = seen
         /\ \A v \in Workers : v # w => attempt'[v] = attempt[v]
<1>1. attempt[w] \in Attempts
  BY DEF TypeInv, TypeOK
<1>2. attempt' = [attempt EXCEPT ![w] = [attempt[w] EXCEPT !.step = step, !.seen = seen]]
  BY DEF TypeInv, TypeOK
<1>3. attempt'[w] = [attempt[w] EXCEPT !.step = step, !.seen = seen]
  BY <1>2 DEF TypeInv, TypeOK
<1>4. attempt'[w].step = step /\ attempt'[w].seen = seen /\ attempt'[w].task = attempt[w].task
  BY <1>1, <1>3 DEF Attempts
<1> QED
  BY <1>2, <1>4 DEF TypeInv, TypeOK, Busy, At, Subject

\* An end that a worker writes is written, and no other row is.
LEMMA EndWritten ==
  ASSUME EndsInv, NEW w \in Workers, Busy(w),
         \/ Complete(w)
         \/ row' \in FailedRows(w)
  PROVE  /\ \A a \in Analyses : a # Subject(w) => row'[a] = row[a]
         /\ row'[Subject(w)].status \in Ended
         /\ row'[Subject(w)].status = "completed"
              => ~row'[Subject(w)].error /\ row'[Subject(w)].output
         /\ row'[Subject(w)].status = "failed"
              => row'[Subject(w)].error /\ ~row'[Subject(w)].output
<1> DEFINE a == Subject(w)
<1>1. a \in Analyses /\ row[a] \in Rows
  BY SubjectTyped DEF EndsInv, TypeInv, TypeOK, Busy
<1>2. attempt[w].seen \notin Ended /\ ~row[a].error /\ ~row[a].output
  BY <1>1 DEF EndsInv, HeldAlone, OpenIsBlank
<1>3. CASE Complete(w)
  <2>1. Flushed(row[a].status, attempt[w].seen, "completed") = "completed"
    BY <1>2 DEF Flushed, Ended
  <2>2. row' = [row EXCEPT ![a] = [row[a] EXCEPT !.status = "completed", !.output = TRUE]]
    BY <1>1, <1>3, <2>1 DEF Complete, EndsInv, TypeInv, TypeOK
  <2>3. row'[a] = [row[a] EXCEPT !.status = "completed", !.output = TRUE]
    BY <1>1, <2>2 DEF EndsInv, TypeInv, TypeOK
  <2>4. row'[a].status = "completed" /\ row'[a].error = row[a].error /\ row'[a].output = TRUE
    BY <1>1, <2>3 DEF Rows
  <2> QED
    BY <1>2, <2>2, <2>4 DEF EndsInv, TypeInv, TypeOK, Ended
<1>4. CASE row' \in FailedRows(w)
  <2>1. PICK seen \in LastSeen(w) :
          row' = [row EXCEPT ![a].status = Flushed(@, seen, "failed"), ![a].error = TRUE]
    BY <1>4 DEF FailedRows
  <2>2. seen \notin Ended
    BY <1>2 DEF LastSeen, Ended
  <2>3. Flushed(row[a].status, seen, "failed") = "failed"
    BY <2>2 DEF Flushed, Ended
  <2>4. row' = [row EXCEPT ![a] = [row[a] EXCEPT !.status = "failed", !.error = TRUE]]
    BY <1>1, <2>1, <2>3 DEF EndsInv, TypeInv, TypeOK
  <2>5. row'[a] = [row[a] EXCEPT !.status = "failed", !.error = TRUE]
    BY <1>1, <2>4 DEF EndsInv, TypeInv, TypeOK
  <2>6. row'[a].status = "failed" /\ row'[a].error = TRUE /\ row'[a].output = row[a].output
    BY <1>1, <2>5 DEF Rows
  <2> QED
    BY <1>2, <2>4, <2>6 DEF EndsInv, TypeInv, TypeOK, Ended
<1> QED
  BY <1>3, <1>4

\* Letting go of a task after an end was written keeps the invariant.
LEMMA EndStep ==
  ASSUME EndsInv, TypeInv', NEW w \in Workers, Busy(w),
         attempt' = [attempt EXCEPT ![w] = Idle],
         Complete(w) \/ row' \in FailedRows(w),
         UNCHANGED <<request, queue>>
  PROVE  EndsInv'
<1>1. /\ ~Busy(w)'
      /\ \A v \in Workers : v # w => attempt'[v] = attempt[v]
  BY Released DEF EndsInv
<1>2. /\ Subject(w) \in Analyses
      /\ \A a \in Analyses : a # Subject(w) => row'[a] = row[a]
      /\ row'[Subject(w)].status \in Ended
      /\ row'[Subject(w)].status = "completed"
           => ~row'[Subject(w)].error /\ row'[Subject(w)].output
      /\ row'[Subject(w)].status = "failed"
           => row'[Subject(w)].error /\ ~row'[Subject(w)].output
  BY EndWritten, SubjectTyped DEF EndsInv, Busy
<1>3. \A t \in queue : t.analysis \in Analyses /\ t.analysis # Subject(w)
  BY DEF EndsInv, TypeInv, TypeOK, Tasks, HeldAlone
<1>4. \A v \in Workers : Busy(v) /\ v # w => Subject(v) \in Analyses /\ Subject(v) # Subject(w)
  BY SubjectTyped DEF EndsInv, HeldAlone, Busy
<1>5. QueuedAlone'
  BY <1>2, <1>3 DEF EndsInv, QueuedAlone, Open
<1>6. HeldAlone'
  BY <1>1, <1>2, <1>4 DEF EndsInv, HeldAlone, Open, Busy, At, Subject
<1>7. OpenIsBlank'
  BY <1>2 DEF EndsInv, OpenIsBlank, Open, HeldAlone
<1>8. EndsAreClear'
  BY <1>2 DEF EndsInv, EndsAreClear
<1> QED
  BY <1>5, <1>6, <1>7, <1>8 DEF EndsInv

\* So does going on with a task while the analysis stays open.
LEMMA AdvanceStep ==
  ASSUME EndsInv, TypeInv', NEW w \in Workers, Busy(w),
         NEW step, step # "idle", NEW seen, seen \notin Ended,
         attempt' = [attempt EXCEPT ![w].step = step, ![w].seen = seen],
         \A a \in Analyses : row'[a] = row[a]
            \/ /\ a = Subject(w)
               /\ row'[a].status \notin Ended
               /\ row'[a].error = row[a].error /\ row'[a].output = row[a].output,
         UNCHANGED <<request, queue>>
  PROVE  EndsInv'
<1>1. /\ Busy(w)' /\ Subject(w)' = Subject(w) /\ attempt'[w].seen = seen
      /\ \A v \in Workers : v # w => attempt'[v] = attempt[v]
  BY Advanced DEF EndsInv
<1>2. Subject(w) \in Analyses /\ request[Subject(w)] = "accepted" /\ Open(Subject(w))
  BY SubjectTyped DEF EndsInv, Busy, HeldAlone
<1>3. \A a \in Analyses : Open(a)' = Open(a)
  BY <1>2 DEF Open
<1>4. \A t \in queue : t.analysis \in Analyses
  BY DEF EndsInv, TypeInv, TypeOK, Tasks
<1>5. QueuedAlone'
  BY <1>3, <1>4 DEF EndsInv, QueuedAlone
<1>6. \A v \in Workers : /\ Busy(v)' = Busy(v)
                         /\ Subject(v)' = Subject(v)
                         /\ Busy(v) => Subject(v) \in Analyses
  BY <1>1, SubjectTyped DEF EndsInv, Busy, At, Subject
<1>7. \A v \in Workers : Busy(v)' => attempt'[v].seen \notin Ended
  BY <1>1, <1>6 DEF EndsInv, HeldAlone
<1>8. HeldAlone'
  BY <1>3, <1>6, <1>7 DEF EndsInv, HeldAlone
<1>9. OpenIsBlank'
  BY <1>3 DEF EndsInv, OpenIsBlank
<1>10. EndsAreClear'
  BY <1>2 DEF EndsInv, EndsAreClear, Open, Ended
<1> QED
  BY <1>5, <1>8, <1>9, <1>10 DEF EndsInv

\* So does letting go of a task with or without another try at the broker.
LEMMA RetryStep ==
  ASSUME EndsInv, TypeInv', NEW w \in Workers, Busy(w),
         attempt' = [attempt EXCEPT ![w] = Idle],
         \/ queue' = queue
         \/ queue' = queue \cup {[attempt[w].task EXCEPT !.retries = @ + 1]},
         UNCHANGED <<request, row>>
  PROVE  EndsInv'
<1> DEFINE again == [attempt[w].task EXCEPT !.retries = @ + 1]
<1>1. /\ ~Busy(w)'
      /\ \A v \in Workers : v # w => attempt'[v] = attempt[v]
  BY Released DEF EndsInv
<1>2. attempt[w].task \in Tasks /\ Subject(w) \in Analyses
  BY SubjectTyped DEF EndsInv, Busy
<1>3. again.analysis = Subject(w)
  BY <1>2 DEF Subject, Tasks
<1>4. request[Subject(w)] = "accepted" /\ Open(Subject(w))
  BY DEF EndsInv, HeldAlone
<1>5. \A t \in queue : t.analysis # Subject(w)
  BY DEF EndsInv, HeldAlone
<1>6. \A t \in queue' : t \in queue \/ t = again
  OBVIOUS
<1>7. QueuedAlone'
  <2> HIDE DEF again
  <2> QED BY <1>3, <1>4, <1>5, <1>6 DEF EndsInv, QueuedAlone, Open
<1>8. \A v \in Workers : Busy(v)' => /\ v # w /\ Busy(v) /\ Subject(v)' = Subject(v)
                                     /\ attempt'[v] = attempt[v]
                                     /\ Subject(v) # Subject(w)
  BY <1>1 DEF EndsInv, HeldAlone, Busy, At, Subject
<1>9. HeldAlone'
  <2> HIDE DEF again
  <2> QED BY <1>3, <1>6, <1>8 DEF EndsInv, HeldAlone, Open
<1>10. OpenIsBlank' /\ EndsAreClear'
  BY DEF EndsInv, OpenIsBlank, EndsAreClear, Open
<1> QED
  BY <1>7, <1>9, <1>10 DEF EndsInv

\* Every step keeps tasks alone and ends clear, unless a task is doubled or runs
\* again after its end.
LEMMA EndsStep ==
  ASSUME "duplicate" \notin Faults, "refresh" \notin Faults
  PROVE  EndsInv /\ [Next]_vars => EndsInv'
<1> SUFFICES ASSUME EndsInv, [Next]_vars
             PROVE  EndsInv'
  OBVIOUS
<1>0. TypeInv'
  BY TypeStep DEF EndsInv
<1>1. ASSUME NEW a \in Analyses, Create(a)
      PROVE  EndsInv'
  <2>1. row' = [row EXCEPT ![a] = [row[a] EXCEPT !.status = "pending"]]
    BY <1>1 DEF Create, EndsInv, TypeInv, TypeOK
  <2>2. row[a] \in Rows
    BY DEF EndsInv, TypeInv, TypeOK
  <2>3. /\ row'[a].status = "pending"
        /\ row'[a].error = row[a].error
        /\ row'[a].output = row[a].output
    BY <2>1, <2>2 DEF EndsInv, TypeInv, TypeOK, Rows
  <2>4. \A b \in Analyses : b # a => row'[b] = row[b] /\ request'[b] = request[b]
    BY <1>1, <2>1 DEF Create, EndsInv, TypeInv, TypeOK
  <2>5. Open(a) /\ Open(a)' /\ request[a] = "none" /\ request'[a] = "created"
    BY <1>1, <2>3 DEF Create, EndsInv, TypeInv, TypeOK, OpenIsBlank, Open, Ended
  <2>6. QueuedAlone'
    <3>1. \A t \in queue : t.analysis \in Analyses /\ t.analysis # a
      BY <2>5 DEF EndsInv, QueuedAlone, TypeInv, TypeOK, Tasks
    <3> QED
      BY <1>1, <2>4, <3>1 DEF Create, EndsInv, QueuedAlone, Open
  <2>7. HeldAlone'
    <3>1. \A w \in Workers : Busy(w) => Subject(w) \in Analyses /\ Subject(w) # a
      BY <2>5, SubjectTyped DEF EndsInv, HeldAlone, Busy
    <3> QED
      BY <1>1, <2>4, <3>1 DEF Create, EndsInv, HeldAlone, Open, Busy, At, Subject
  <2>8. OpenIsBlank' /\ EndsAreClear'
    BY <2>3, <2>4, <2>5 DEF EndsInv, OpenIsBlank, EndsAreClear, Open, Ended
  <2> QED
    BY <1>0, <2>6, <2>7, <2>8 DEF EndsInv
<1>2. ASSUME NEW a \in Analyses, Publish(a)
      PROVE  EndsInv'
  <2>1. queue' = queue \cup {FirstTask(a, 1)}
    BY <1>2 DEF Publish
  <2>2. FirstTask(a, 1).analysis = a
    BY DEF FirstTask
  <2>3. request[a] = "created" /\ Open(a) /\ request' = [request EXCEPT ![a] = "accepted"]
    BY <1>2 DEF Publish, EndsInv, OpenIsBlank
  <2>4. \A t \in queue : t.analysis \in Analyses /\ t.analysis # a
    BY <2>3 DEF EndsInv, QueuedAlone, TypeInv, TypeOK, Tasks
  <2>5. \A w \in Workers : Busy(w) => Subject(w) \in Analyses /\ Subject(w) # a
    BY <2>3, SubjectTyped DEF EndsInv, HeldAlone, Busy
  <2>6. /\ request'[a] = "accepted"
        /\ \A b \in Analyses : b # a => request'[b] = request[b]
    BY <2>3 DEF EndsInv, TypeInv, TypeOK
  <2>7. QueuedAlone'
    BY <1>2, <2>1, <2>2, <2>3, <2>4, <2>6 DEF Publish, EndsInv, QueuedAlone, Open
  <2>8. HeldAlone'
    BY <1>2, <2>1, <2>2, <2>5, <2>6 DEF Publish, EndsInv, HeldAlone, Open, Busy, At, Subject
  <2>9. OpenIsBlank' /\ EndsAreClear'
    BY <1>2, <2>6 DEF Publish, EndsInv, OpenIsBlank, EndsAreClear, Open
  <2> QED
    BY <1>0, <2>7, <2>8, <2>9 DEF EndsInv
<1>3. ASSUME NEW a \in Analyses, PublishFails(a)
      PROVE  EndsInv'
  <2>1. /\ request[a] = "created" /\ request'[a] = "refused"
        /\ \A b \in Analyses : b # a => request'[b] = request[b]
    BY <1>3 DEF PublishFails, EndsInv, TypeInv, TypeOK
  <2>2. QueuedAlone'
    <3>1. \A t \in queue : t.analysis \in Analyses /\ t.analysis # a
      BY <2>1 DEF EndsInv, QueuedAlone, TypeInv, TypeOK, Tasks
    <3> QED
      BY <1>3, <2>1, <3>1 DEF PublishFails, EndsInv, QueuedAlone, Open
  <2>3. HeldAlone'
    <3>1. \A w \in Workers : Busy(w) => Subject(w) \in Analyses /\ Subject(w) # a
      BY <2>1, SubjectTyped DEF EndsInv, HeldAlone, Busy
    <3> QED
      BY <1>3, <2>1, <3>1 DEF PublishFails, EndsInv, HeldAlone, Open, Busy, At, Subject
  <2>4. OpenIsBlank' /\ EndsAreClear'
    BY <1>3, <2>1 DEF PublishFails, EndsInv, OpenIsBlank, EndsAreClear, Open
  <2> QED
    BY <1>0, <2>2, <2>3, <2>4 DEF EndsInv
<1>4. ASSUME NEW w \in Workers, NEW task \in queue, Take(w, task)
      PROVE  EndsInv'
  <2>1. /\ attempt'[w] = [step |-> "taken", task |-> task, seen |-> "none"]
        /\ \A v \in Workers : v # w => attempt'[v] = attempt[v]
    BY <1>4 DEF Take, EndsInv, TypeInv, TypeOK
  <2>2. /\ queue' = queue \ {task} /\ row' = row /\ request' = request
        /\ ~Busy(w)
    BY <1>4 DEF Take, Busy
  <2>3. Subject(w)' = task.analysis /\ attempt'[w].seen \notin Ended
    BY <2>1 DEF Subject, Ended
  <2>4. request[task.analysis] = "accepted" /\ Open(task.analysis)
    BY DEF EndsInv, QueuedAlone
  <2>5. \A v \in Workers : v # w => /\ Busy(v)' = Busy(v)
                                    /\ Subject(v)' = Subject(v)
                                    /\ Busy(v) => Subject(v) # task.analysis
    BY <2>1 DEF EndsInv, HeldAlone, Busy, At, Subject
  <2>6. \A t \in queue' : t.analysis # task.analysis
    BY <2>2 DEF EndsInv, QueuedAlone
  <2>7. QueuedAlone'
    BY <2>2 DEF EndsInv, QueuedAlone, Open
  <2>8. HeldAlone'
    <3>1. \A v \in Workers : Busy(v)' => /\ request'[Subject(v)'] = "accepted"
                                         /\ Open(Subject(v))'
                                         /\ attempt'[v].seen \notin Ended
      BY <2>1, <2>2, <2>3, <2>4, <2>5 DEF EndsInv, HeldAlone, Open
    <3>2. \A u, v \in Workers : Busy(u)' /\ Busy(v)' /\ Subject(u)' = Subject(v)' => u = v
      BY <2>3, <2>5 DEF EndsInv, HeldAlone
    <3>3. \A v \in Workers, t \in queue' : Busy(v)' => t.analysis # Subject(v)'
      BY <2>2, <2>3, <2>5, <2>6 DEF EndsInv, HeldAlone
    <3> QED
      BY <3>1, <3>2, <3>3 DEF HeldAlone
  <2>9. OpenIsBlank' /\ EndsAreClear'
    BY <2>2 DEF EndsInv, OpenIsBlank, EndsAreClear, Open
  <2> QED
    BY <1>0, <2>7, <2>8, <2>9 DEF EndsInv
<1>5. ASSUME NEW w \in Workers, Load(w)
      PROVE  EndsInv'
  <2>1. Busy(w)
    BY <1>5 DEF Load, Busy, At
  <2>2. row[Subject(w)].status \notin Ended
    BY <2>1 DEF EndsInv, HeldAlone, Open
  <2> QED
    BY <1>0, <1>5, <2>1, <2>2, AdvanceStep DEF Load
<1>6. ASSUME NEW w \in Workers, Start(w)
      PROVE  EndsInv'
  <2> DEFINE a == Subject(w)
             s == Flushed(row[a].status, attempt[w].seen, "running")
  <2>1. Busy(w)
    BY <1>6 DEF Start, Busy, At
  <2>2. a \in Analyses /\ row[a] \in Rows /\ row[a].status \notin Ended
    BY <2>1, SubjectTyped DEF EndsInv, TypeInv, TypeOK, HeldAlone, Open, Busy
  <2>3. s \notin Ended
    BY <2>2 DEF Flushed, Ended
  <2>4. row' = [row EXCEPT ![a] = [row[a] EXCEPT !.status = s]]
    BY <1>6, <2>2 DEF Start, EndsInv, TypeInv, TypeOK
  <2>5. row'[a].status = s /\ row'[a].error = row[a].error /\ row'[a].output = row[a].output
    <3> HIDE DEF s
    <3> QED BY <2>2, <2>4 DEF EndsInv, TypeInv, TypeOK, Rows
  <2>6. \A b \in Analyses : b # a => row'[b] = row[b]
    BY <2>4 DEF EndsInv, TypeInv, TypeOK
  <2>7. "none" \notin Ended
    BY DEF Ended
  <2> QED
    BY <1>0, <1>6, <2>1, <2>3, <2>5, <2>6, <2>7, AdvanceStep DEF Start
<1>7. ASSUME NEW w \in Workers, CallProvider(w)
      PROVE  EndsInv'
  <2>1. Busy(w)
    BY <1>7 DEF CallProvider, Busy, At
  <2>2. row[Subject(w)].status \notin Ended
    BY <2>1 DEF EndsInv, HeldAlone, Open
  <2> QED
    BY <1>0, <1>7, <2>1, <2>2, AdvanceStep DEF CallProvider
<1>8. ASSUME NEW w \in Workers, Complete(w)
      PROVE  EndsInv'
  <2>1. Busy(w)
    BY <1>8 DEF Complete, Busy, At
  <2>2. attempt' = [attempt EXCEPT ![w] = Idle] /\ UNCHANGED <<request, queue>>
    BY <1>8 DEF Complete
  <2> QED
    BY <1>0, <1>8, <2>1, <2>2, EndStep
<1>9. ASSUME NEW w \in Workers, Fail(w)
      PROVE  EndsInv'
  <2>1. Busy(w)
    BY <1>9 DEF Fail, Busy, At
  <2>2. /\ row' \in FailedRows(w) /\ attempt' = [attempt EXCEPT ![w] = Idle]
        /\ UNCHANGED <<request, queue>>
    BY <1>9 DEF Fail
  <2> QED
    BY <1>0, <2>1, <2>2, EndStep
<1>10. ASSUME NEW w \in Workers, DatabaseFails(w)
       PROVE  EndsInv'
  <2>1. Busy(w) /\ UNCHANGED <<request, row>> /\ attempt' = [attempt EXCEPT ![w] = Idle]
    BY <1>10 DEF DatabaseFails, Retry, Busy
  <2>2. \/ queue' = queue
        \/ queue' = queue \cup {[attempt[w].task EXCEPT !.retries = @ + 1]}
    BY <1>10 DEF DatabaseFails, Retry
  <2> QED
    BY <1>0, <2>1, <2>2, RetryStep
<1>11. ASSUME NEW w \in Workers, Die(w)
       PROVE  EndsInv'
  <2>1. /\ Busy(w) /\ UNCHANGED <<request, row>> /\ queue' = queue
        /\ attempt' = [attempt EXCEPT ![w] = Idle]
    BY <1>11 DEF Die, Busy
  <2> QED
    BY <1>0, <2>1, RetryStep
<1>12. CASE UNCHANGED vars
  BY <1>0, <1>12
  DEF vars, EndsInv, QueuedAlone, HeldAlone, OpenIsBlank, EndsAreClear, Open, Busy, At, Subject
<1>13. \A w \in Workers : ~RefreshFails(w)
  BY DEF RefreshFails
<1> QED
  BY <1>1, <1>2, <1>3, <1>4, <1>5, <1>6, <1>7, <1>8, <1>9, <1>10, <1>11, <1>12, <1>13
  DEF Next, Request, Work, Proceed

\* A completed analysis shows no error and a failed one no output, as long as no
\* task is delivered twice and no refresh raises after "failed" is committed.
THEOREM EndsClear ==
  ASSUME "duplicate" \notin Faults, "refresh" \notin Faults
  PROVE  Spec => []EndsAreClear
<1>1. EndsInv => EndsAreClear
  BY DEF EndsInv
<1> QED
  BY <1>1, EndsInit, EndsStep, PTL DEF Spec

\* Nobody writes a row whose analysis has ended: no task of it is left.
LEMMA EndKept ==
  ASSUME EndsInv, [Next]_vars, NEW a \in Analyses, row[a].status \in Ended
  PROVE  row'[a].status = row[a].status
<1>1. \A w \in Workers : Busy(w) => Subject(w) \in Analyses /\ Subject(w) # a
  BY SubjectTyped DEF EndsInv, HeldAlone, Open, Busy
<1>2. request[a] # "none"
  BY DEF EndsInv, OpenIsBlank, Open
<1>3. ASSUME NEW b \in Analyses, Create(b)
      PROVE  row'[a] = row[a]
  BY <1>2, <1>3 DEF Create, EndsInv, TypeInv, TypeOK
<1>4. ASSUME NEW w \in Workers, Start(w) \/ Complete(w)
      PROVE  row'[a] = row[a]
  <2>1. Busy(w)
    BY <1>4 DEF Start, Complete, Busy, At
  <2> QED
    BY <1>1, <1>4, <2>1 DEF Start, Complete, EndsInv, TypeInv, TypeOK
<1>5. ASSUME NEW w \in Workers, Fail(w) \/ RefreshFails(w)
      PROVE  row'[a] = row[a]
  <2>1. Busy(w) /\ row' \in FailedRows(w)
    BY <1>5 DEF Fail, RefreshFails, Busy, At
  <2> QED
    BY <1>1, <2>1 DEF FailedRows, EndsInv, TypeInv, TypeOK
<1>6. CASE UNCHANGED row
  BY <1>6
<1>7. \/ UNCHANGED row
      \/ \E b \in Analyses : Create(b)
      \/ \E w \in Workers : Start(w) \/ Complete(w) \/ Fail(w) \/ RefreshFails(w)
  BY DEF Next, Request, Work, Proceed, Publish, PublishFails, Take, Load, CallProvider,
         DatabaseFails, Die, vars
<1> QED
  BY <1>3, <1>4, <1>5, <1>6, <1>7

\* What a client read as the end of an analysis stays its end, under the same
\* condition: workers may die and the database fail as they like.
THEOREM EndsFinal ==
  ASSUME "duplicate" \notin Faults, "refresh" \notin Faults
  PROVE  Spec => EndsAreFinal
<1>1. EndsInv /\ [Next]_vars
        => [\A a \in Analyses : row[a].status \in Ended => row'[a].status = row[a].status]_vars
  BY EndKept
<1> QED
  BY <1>1, EndsInit, EndsStep, PTL DEF Spec, EndsAreFinal

-----------------------------------------------------------------------------
(* Provider requests, whatever fails *)

SameDelivery(t, u) == t.analysis = u.analysis /\ t.copy = u.copy

\* Of each delivery of a task there is one try, at the broker or in hand.
TriesAlone ==
  /\ \A t, u \in queue : SameDelivery(t, u) => t = u
  /\ \A v, w \in Workers :
       Busy(v) /\ Busy(w) /\ SameDelivery(attempt[v].task, attempt[w].task) => v = w
  /\ \A w \in Workers, t \in queue : Busy(w) => ~SameDelivery(attempt[w].task, t)

Delivered(t) == request[t.analysis] = "accepted" /\ t.copy <= Deliveries

TasksDelivered ==
  /\ \A t \in queue : Delivered(t)
  /\ \A w \in Workers : Busy(w) => Delivered(attempt[w].task)

\* The requests that a try and those before it may have made by now.
TriesOf(w) == attempt[w].task.retries + (IF At(w, "calling") THEN 1 ELSE 0)

\* spent: how many of an analysis' requests each of its deliveries has made.
Accounted(a, spent) ==
  /\ calls[a] = spent[1] + spent[2]
  /\ request[a] # "accepted" => spent[1] = 0 /\ spent[2] = 0
  /\ Deliveries = 1 => spent[2] = 0
  /\ \A t \in queue : t.analysis = a => spent[t.copy] <= t.retries
  /\ \A w \in Workers : Busy(w) /\ Subject(w) = a => spent[attempt[w].task.copy] <= TriesOf(w)

Spendings == [{1, 2} -> 0..(MaxRetries + 1)]

CallsAccounted == \A a \in Analyses : \E spent \in Spendings : Accounted(a, spent)

CallsInv == TypeInv /\ TriesAlone /\ TasksDelivered /\ CallsAccounted

\* Nothing is spent before anything is asked for.
LEMMA CallsInit == Init => CallsInv
<1> SUFFICES ASSUME Init PROVE CallsInv
  OBVIOUS
<1>1. TypeInv
  BY TypeInit
<1>2. TriesAlone /\ TasksDelivered
  BY DEF Init, TriesAlone, TasksDelivered, Busy, At, Idle
<1>3. ASSUME NEW a \in Analyses PROVE \E spent \in Spendings : Accounted(a, spent)
  <2> DEFINE spent == [c \in {1, 2} |-> 0]
  <2>1. spent \in Spendings
    BY AIJobsAssumption DEF Spendings
  <2>2. Accounted(a, spent)
    BY DEF Init, Accounted, Busy, At, Idle
  <2> QED BY <2>1, <2>2
<1> QED BY <1>1, <1>2, <1>3 DEF CallsInv, CallsAccounted

\* A step that neither calls nor publishes, and adds no try, needs no new account.
LEMMA CallsKept ==
  ASSUME CallsInv, TypeInv', calls' = calls, queue' \subseteq queue,
         \A a \in Analyses : request'[a] = "accepted" <=> request[a] = "accepted",
         \A w \in Workers : Busy(w)' =>
           Busy(w) /\ attempt'[w].task = attempt[w].task /\ (At(w, "calling") => At(w, "calling")')
  PROVE  CallsInv'
<1>1. TriesAlone'
  BY DEF CallsInv, TriesAlone
<1>2. ASSUME NEW t \in Tasks, Delivered(t) PROVE Delivered(t)'
  BY <1>2 DEF Delivered, Tasks
<1>3. /\ \A t \in queue : t \in Tasks
      /\ \A w \in Workers : Busy(w) => attempt[w].task \in Tasks
  BY SubjectTyped DEF CallsInv, TypeInv, TypeOK, Busy
<1>4. TasksDelivered'
  BY <1>2, <1>3 DEF CallsInv, TasksDelivered, Delivered
<1>5. ASSUME NEW a \in Analyses PROVE \E spent \in Spendings : Accounted(a, spent)'
  <2>1. PICK spent \in Spendings : Accounted(a, spent)
    BY DEF CallsInv, CallsAccounted
  <2>2. ASSUME NEW w \in Workers, Busy(w)', Subject(w)' = a
        PROVE  spent[attempt'[w].task.copy] <= TriesOf(w)'
    <3>1. Busy(w) /\ Subject(w) = a /\ attempt'[w].task = attempt[w].task
      BY <2>2 DEF Subject
    <3>2. spent[attempt[w].task.copy] <= TriesOf(w)
      BY <2>1, <3>1 DEF Accounted
    <3>3. TriesOf(w) <= TriesOf(w)'
      BY <1>3, <2>2, <3>1, AIJobsAssumption DEF TriesOf, Tasks
    <3>4. attempt[w].task \in Tasks
      BY <1>3, <3>1
    <3>5. spent[attempt[w].task.copy] \in Nat /\ TriesOf(w) \in Nat /\ TriesOf(w)' \in Nat
      BY <3>1, <3>4, AIJobsAssumption DEF TriesOf, Tasks, Spendings
    <3> QED BY <3>1, <3>2, <3>3, <3>5
  <2>3. Accounted(a, spent)'
    BY <2>1, <2>2 DEF Accounted
  <2> QED BY <2>3
<1> QED BY <1>1, <1>4, <1>5 DEF CallsInv, CallsAccounted

\* A published task is the first try of its delivery, and nothing is spent on it yet.
LEMMA PublishAccounted ==
  ASSUME CallsInv, TypeInv', NEW a \in Analyses, Publish(a)
  PROVE  CallsInv'
<1>1. /\ request[a] = "created" /\ request' = [request EXCEPT ![a] = "accepted"]
      /\ attempt' = attempt /\ calls' = calls
      /\ \A t \in queue' : t \in queue \/ (t = FirstTask(a, 1) \/ (Deliveries = 2 /\ t = FirstTask(a, 2)))
  BY DEF Publish, Deliveries
<1>2. \A b \in Analyses : request'[b] = IF b = a THEN "accepted" ELSE request[b]
  BY <1>1 DEF CallsInv, TypeInv, TypeOK
<1>3. /\ \A t \in queue : t \in Tasks /\ t.analysis # a
      /\ \A w \in Workers : Busy(w) => attempt[w].task \in Tasks /\ Subject(w) # a
  BY <1>1, SubjectTyped DEF CallsInv, TypeInv, TypeOK, TasksDelivered, Delivered, Subject, Busy
<1>4. \A c \in {1, 2} : FirstTask(a, c).analysis = a /\ FirstTask(a, c).retries = 0 /\ FirstTask(a, c).copy = c
  BY DEF FirstTask
<1>5. TriesAlone'
  BY <1>1, <1>3, <1>4 DEF CallsInv, TriesAlone, SameDelivery, Busy, At, Subject
<1>6. TasksDelivered'
  <2>1. Deliveries \in {1, 2}
    BY DEF Deliveries
  <2>2. \A t \in queue : Delivered(t)'
    BY <1>2, <1>3 DEF CallsInv, TasksDelivered, Delivered, Deliveries, Tasks
  <2>3. \A t \in queue' : Delivered(t)'
    BY <1>1, <1>2, <1>4, <2>1, <2>2 DEF Delivered, Deliveries
  <2>4. \A w \in Workers : Busy(w)' => Delivered(attempt[w].task)'
    BY <1>1, <1>2, <1>3 DEF CallsInv, TasksDelivered, Delivered, Deliveries, Tasks, Busy, At
  <2> QED BY <1>1, <2>3, <2>4 DEF TasksDelivered
<1>7. ASSUME NEW b \in Analyses PROVE \E spent \in Spendings : Accounted(b, spent)'
  <2>1. PICK spent \in Spendings : Accounted(b, spent)
    BY DEF CallsInv, CallsAccounted
  <2>2. \A t \in queue' : t.analysis = b => spent[t.copy] <= t.retries
    <3>1. CASE b = a
      <4>1. spent[1] = 0 /\ spent[2] = 0
        BY <1>1, <2>1, <3>1 DEF Accounted
      <4> QED BY <1>1, <1>3, <1>4, <3>1, <4>1
    <3>2. CASE b # a
      BY <1>1, <1>4, <2>1, <3>2 DEF Accounted
    <3> QED BY <3>1, <3>2
  <2>3. Accounted(b, spent)'
    BY <1>1, <1>2, <2>1, <2>2 DEF Accounted, Deliveries, Busy, At, Subject, TriesOf
  <2> QED BY <2>3
<1> QED BY <1>5, <1>6, <1>7 DEF CallsInv, CallsAccounted

\* A worker takes over the account of what it takes.
LEMMA TakeAccounted ==
  ASSUME CallsInv, TypeInv', NEW w \in Workers, NEW task \in queue, Take(w, task)
  PROVE  CallsInv'
<1>1. /\ ~Busy(w) /\ queue' = queue \ {task} /\ calls' = calls /\ request' = request
      /\ attempt' = [attempt EXCEPT ![w] = [step |-> "taken", task |-> task, seen |-> "none"]]
  BY DEF Take, Busy
<1>2. /\ attempt'[w].task = task /\ attempt'[w].step = "taken"
      /\ \A v \in Workers : v # w => attempt'[v] = attempt[v]
  BY <1>1 DEF CallsInv, TypeInv, TypeOK
<1>3. TriesAlone'
  BY <1>1, <1>2 DEF CallsInv, TriesAlone, SameDelivery, Busy, At
<1>4. TasksDelivered'
  BY <1>1, <1>2 DEF CallsInv, TasksDelivered, Delivered, Deliveries, Busy, At
<1>5. ASSUME NEW a \in Analyses PROVE \E spent \in Spendings : Accounted(a, spent)'
  <2>1. PICK spent \in Spendings : Accounted(a, spent)
    BY DEF CallsInv, CallsAccounted
  <2>2. task.retries \in Nat
    BY AIJobsAssumption DEF CallsInv, TypeInv, TypeOK, Tasks
  <2>3. Subject(w)' = a => spent[attempt'[w].task.copy] <= TriesOf(w)'
    BY <1>2, <2>1, <2>2 DEF Accounted, Subject, TriesOf, At
  <2>4. \A v \in Workers : v # w => (Subject(v)' = Subject(v) /\ TriesOf(v)' = TriesOf(v) /\ Busy(v)' = Busy(v))
    BY <1>2 DEF Subject, TriesOf, Busy, At
  <2>5. Accounted(a, spent)'
    BY <1>1, <1>2, <2>1, <2>3, <2>4 DEF Accounted, Deliveries
  <2> QED BY <2>5
<1> QED BY <1>3, <1>4, <1>5 DEF CallsInv, CallsAccounted

\* A request is put down to the delivery whose try makes it.
LEMMA CallAccounted ==
  ASSUME CallsInv, TypeInv', NEW w \in Workers, CallProvider(w)
  PROVE  CallsInv'
<1>0. Busy(w) /\ attempt[w].task \in Tasks /\ Subject(w) \in Analyses
  BY SubjectTyped DEF CallProvider, CallsInv, Busy, At
<1> PICK a \in Analyses : a = Subject(w)
  BY <1>0
<1> PICK copy \in {1, 2} : copy = attempt[w].task.copy
  BY <1>0 DEF Tasks
<1>1. /\ At(w, "started") /\ Busy(w) /\ queue' = queue /\ request' = request
      /\ attempt' = [attempt EXCEPT ![w].step = "calling", ![w].seen = row[a].status]
      /\ calls' = [calls EXCEPT ![a] = @ + 1]
  BY DEF CallProvider, Busy, At
<1>2. attempt[w] \in Attempts
  BY DEF CallsInv, TypeInv, TypeOK
<1>3. /\ attempt'[w].task = attempt[w].task /\ attempt'[w].step = "calling"
      /\ \A v \in Workers : v # w => attempt'[v] = attempt[v]
  BY <1>1, <1>2 DEF CallsInv, TypeInv, TypeOK, Attempts
<1>4. TriesAlone' /\ TasksDelivered'
  <2>1. \A v \in Workers : attempt'[v].task = attempt[v].task /\ (Busy(v)' <=> Busy(v))
    BY <1>1, <1>3 DEF Busy, At
  <2>2. TriesAlone'
    BY <1>1, <2>1 DEF CallsInv, TriesAlone
  <2> QED BY <1>1, <2>1, <2>2 DEF CallsInv, TasksDelivered, Delivered, Deliveries
<1>5. /\ \A v \in Workers : v # w => Subject(v)' = Subject(v) /\ TriesOf(v)' = TriesOf(v) /\ (Busy(v)' <=> Busy(v))
      /\ Subject(w)' = a /\ TriesOf(w) = attempt[w].task.retries /\ TriesOf(w)' = attempt[w].task.retries + 1
  <2>1. \A v \in Workers : v # w => Subject(v)' = Subject(v) /\ TriesOf(v)' = TriesOf(v) /\ (Busy(v)' <=> Busy(v))
    BY <1>3 DEF Subject, TriesOf, Busy, At
  <2>2. attempt[w].task.retries \in Nat /\ attempt[w].step = "started"
    BY <1>0, <1>1 DEF Tasks, At
  <2>3. Subject(w)' = a
    BY <1>3 DEF Subject
  <2>4. TriesOf(w) = attempt[w].task.retries /\ TriesOf(w)' = attempt[w].task.retries + 1
    BY <1>3, <2>2 DEF TriesOf, At
  <2> QED BY <2>1, <2>3, <2>4
<1>6. ASSUME NEW b \in Analyses, b # a PROVE \E spent \in Spendings : Accounted(b, spent)'
  <2>1. PICK spent \in Spendings : Accounted(b, spent)
    BY DEF CallsInv, CallsAccounted
  <2>2. calls'[b] = calls[b]
    BY <1>1, <1>6 DEF CallsInv, TypeInv, TypeOK
  <2>3. Accounted(b, spent)'
    BY <1>1, <1>3, <1>5, <1>6, <2>1, <2>2 DEF Accounted, Deliveries
  <2> QED BY <2>3
<1>7. \E spent \in Spendings : Accounted(a, spent)'
  <2>1. PICK spent \in Spendings : Accounted(a, spent)
    BY <1>2 DEF CallsInv, CallsAccounted
  <2> DEFINE more == [spent EXCEPT ![copy] = @ + 1]
  <2>2. spent[copy] <= attempt[w].task.retries
    BY <1>1, <1>5, <2>1 DEF Accounted
  <2>3. /\ copy \in {1, 2} /\ spent[1] \in Nat /\ spent[2] \in Nat
        /\ attempt[w].task.retries \in Nat /\ attempt[w].task.retries <= MaxRetries /\ MaxRetries \in Nat
    BY <1>0, <2>1, AIJobsAssumption DEF Tasks, Spendings
  <2>4. more[copy] = spent[copy] + 1 /\ \A c \in {1, 2} : c # copy => more[c] = spent[c]
    BY <2>1, <2>3 DEF Spendings
  <2>5. more \in Spendings
    BY <2>1, <2>2, <2>3 DEF Spendings
  <2> HIDE DEF more
  <2>6. calls'[a] = more[1] + more[2]
    <3>1. calls'[a] = calls[a] + 1 /\ calls[a] = spent[1] + spent[2]
      BY <1>1, <1>2, <2>1 DEF CallsInv, TypeInv, TypeOK, Accounted
    <3>2. copy = 1 \/ copy = 2
      BY <2>3
    <3> QED BY <2>3, <2>4, <3>1, <3>2
  <2>7. request'[a] = "accepted" /\ copy <= Deliveries
    BY <1>1 DEF CallsInv, TasksDelivered, Delivered, Subject
  <2>8. Deliveries = 1 => more[2] = 0
    BY <2>1, <2>3, <2>4, <2>7 DEF Accounted
  <2>9. \A t \in queue : t.analysis = a => t.copy # copy
    BY <1>1 DEF CallsInv, TriesAlone, SameDelivery, Subject
  <2>10. \A v \in Workers : v # w /\ Busy(v) /\ Subject(v) = a => attempt[v].task.copy # copy
    BY <1>1 DEF CallsInv, TriesAlone, SameDelivery, Subject
  <2>11. \A t \in queue : t.analysis = a => more[t.copy] <= t.retries
    <3>1. \A t \in queue : t.copy \in {1, 2}
      BY DEF CallsInv, TypeInv, TypeOK, Tasks
    <3> QED BY <2>1, <2>4, <2>9, <3>1 DEF Accounted
  <2>12. ASSUME NEW v \in Workers, Busy(v)', Subject(v)' = a
         PROVE  more[attempt'[v].task.copy] <= TriesOf(v)'
    <3>1. CASE v = w
      BY <1>3, <1>5, <2>2, <2>3, <2>4, <3>1
    <3>2. CASE v # w
      <4>1. Busy(v) /\ Subject(v) = a
        BY <1>5, <2>12, <3>2
      <4>2. attempt[v].task.copy \in {1, 2}
        BY <4>1, SubjectTyped DEF CallsInv, Busy, Tasks
      <4> QED BY <1>3, <1>5, <2>1, <2>4, <2>10, <3>2, <4>1, <4>2 DEF Accounted
    <3> QED BY <3>1, <3>2
  <2>13. Accounted(a, more)'
    BY <1>1, <2>6, <2>7, <2>8, <2>11, <2>12 DEF Accounted, Deliveries
  <2> QED BY <2>5, <2>13
<1> QED BY <1>4, <1>6, <1>7 DEF CallsInv, CallsAccounted

\* A task that is published again has room for one request more.
LEMMA RetryAccounted ==
  ASSUME CallsInv, TypeInv', NEW w \in Workers, Busy(w), Retry(w), request' = request, calls' = calls
  PROVE  CallsInv'
<1> DEFINE task == attempt[w].task
           again == [task EXCEPT !.retries = @ + 1]
<1>1. CASE queue' = queue
  <2>1. ~Busy(w)' /\ \A v \in Workers : v # w => attempt'[v] = attempt[v]
    BY Released DEF Retry, CallsInv
  <2> QED BY <1>1, <2>1, CallsKept DEF Busy, At
<1>2. CASE queue' = queue \cup {again}
  <2>1. ~Busy(w)' /\ \A v \in Workers : v # w => attempt'[v] = attempt[v]
    BY Released DEF Retry, CallsInv
  <2>2. task \in Tasks
    BY SubjectTyped DEF CallsInv, Busy
  <2>3. again.analysis = task.analysis /\ again.copy = task.copy /\ again.retries = task.retries + 1
    BY <2>2 DEF Tasks
  <2> HIDE DEF again
  <2>4. \A v \in Workers : Busy(v)' => v # w /\ Busy(v) /\ Subject(v)' = Subject(v) /\ TriesOf(v)' = TriesOf(v)
    BY <2>1 DEF Busy, At, Subject, TriesOf
  <2>5. TriesAlone'
    BY <1>2, <2>1, <2>3, <2>4 DEF CallsInv, TriesAlone, SameDelivery
  <2>6. TasksDelivered'
    BY <1>2, <2>1, <2>3, <2>4 DEF CallsInv, TasksDelivered, Delivered, Deliveries
  <2>7. ASSUME NEW a \in Analyses PROVE \E spent \in Spendings : Accounted(a, spent)'
    <3>1. PICK spent \in Spendings : Accounted(a, spent)
      BY DEF CallsInv, CallsAccounted
    <3>2. again.analysis = a => spent[again.copy] <= again.retries
      <4>1. again.analysis = a => spent[task.copy] <= TriesOf(w)
        BY <2>3, <3>1 DEF Accounted, Subject
      <4>2. TriesOf(w) <= task.retries + 1 /\ TriesOf(w) \in Nat /\ task.retries \in Nat
        BY <2>2, AIJobsAssumption DEF TriesOf, Tasks
      <4>3. spent[task.copy] \in Nat
        BY <2>2, AIJobsAssumption DEF Tasks, Spendings
      <4> QED BY <2>3, <4>1, <4>2, <4>3
    <3>3. Accounted(a, spent)'
      BY <1>2, <2>1, <2>4, <3>1, <3>2 DEF Accounted, Deliveries
    <3> QED BY <3>3
  <2> QED BY <2>5, <2>6, <2>7 DEF CallsInv, CallsAccounted
<1> QED BY <1>1, <1>2 DEF Retry

LEMMA CallsStep == CallsInv /\ [Next]_vars => CallsInv'
<1> SUFFICES ASSUME CallsInv, [Next]_vars PROVE CallsInv'
  OBVIOUS
<1>1. TypeInv'
  BY TypeStep DEF CallsInv
<1>2. ASSUME NEW a \in Analyses, Create(a) \/ PublishFails(a) PROVE CallsInv'
  <2>1. /\ request[a] # "accepted" /\ request'[a] # "accepted"
        /\ \A b \in Analyses : b # a => request'[b] = request[b]
    BY <1>2 DEF Create, PublishFails, CallsInv, TypeInv, TypeOK
  <2>2. calls' = calls /\ queue' = queue /\ attempt' = attempt
    BY <1>2 DEF Create, PublishFails
  <2> QED BY <1>1, <2>1, <2>2, CallsKept DEF Busy, At
<1>3. ASSUME NEW w \in Workers, Load(w) \/ Start(w) PROVE CallsInv'
  <2>1. /\ Busy(w) /\ ~At(w, "calling")
        /\ attempt'[w].task = attempt[w].task
        /\ \A v \in Workers : v # w => attempt'[v] = attempt[v]
    BY <1>3 DEF Load, Start, Busy, At, CallsInv, TypeInv, TypeOK, Attempts
  <2>2. calls' = calls /\ queue' = queue /\ request' = request
    BY <1>3 DEF Load, Start
  <2> QED BY <1>1, <2>1, <2>2, CallsKept DEF Busy, At
<1>4. ASSUME NEW w \in Workers, Complete(w) \/ Fail(w) \/ Die(w) PROVE CallsInv'
  <2>1. attempt' = [attempt EXCEPT ![w] = Idle] /\ calls' = calls /\ queue' = queue /\ request' = request
    BY <1>4 DEF Complete, Fail, Die
  <2>2. ~Busy(w)' /\ \A v \in Workers : v # w => attempt'[v] = attempt[v]
    BY <2>1, Released DEF CallsInv
  <2> QED BY <1>1, <2>1, <2>2, CallsKept DEF Busy, At
<1>5. ASSUME NEW w \in Workers, DatabaseFails(w) \/ RefreshFails(w) PROVE CallsInv'
  <2>1. Busy(w) /\ Retry(w) /\ request' = request /\ calls' = calls
    BY <1>5 DEF DatabaseFails, RefreshFails, Busy, At
  <2> QED BY <1>1, <2>1, RetryAccounted
<1>6. CASE UNCHANGED vars
  BY <1>1, <1>6, CallsKept DEF vars, Busy, At
<1> QED
  BY <1>1, <1>2, <1>3, <1>4, <1>5, <1>6, PublishAccounted, TakeAccounted, CallAccounted
  DEF Next, Request, Work, Proceed

\* The provider is asked at most MaxRetries + 1 times for each delivery of a task, for any
\* number of analyses, workers and retries, whatever is lost, doubled, killed or raised.
\* (workers/tasks.py)
THEOREM CallsBounded == Spec => []CallsAreBounded
<1>1. CallsInv => CallsAreBounded
  <2> SUFFICES ASSUME CallsInv, NEW a \in Analyses
               PROVE  calls[a] <= Deliveries * (MaxRetries + 1)
    BY DEF CallsAreBounded
  <2>1. PICK spent \in Spendings : Accounted(a, spent)
    BY DEF CallsInv, CallsAccounted
  <2>2. /\ calls[a] = spent[1] + spent[2]
        /\ spent[1] \in 0..(MaxRetries + 1) /\ spent[2] \in 0..(MaxRetries + 1)
    BY <2>1 DEF Accounted, Spendings
  <2>3. CASE Deliveries = 1
    BY <2>1, <2>2, <2>3, AIJobsAssumption DEF Accounted
  <2>4. CASE Deliveries = 2
    BY <2>2, <2>4, AIJobsAssumption
  <2> QED BY <2>3, <2>4 DEF Deliveries
<1> QED BY <1>1, CallsInit, CallsStep, PTL DEF Spec
=============================================================================
