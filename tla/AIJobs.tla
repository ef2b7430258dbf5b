------------------------------- MODULE AIJobs -------------------------------
(***************************************************************************)
(* AI analyses as background jobs: POST /ai/analyze commits a pending row  *)
(* and publishes a Celery task; a worker calls the provider and writes the *)
(* result into the row; clients poll the row.  API processes, the broker   *)
(* and the workers run side by side and share nothing but the row.         *)
(*                                                                         *)
(* Celery acknowledges a task when a worker starts it (acks_late is not    *)
(* set), so a task in hand is in no queue; self.retry publishes it again   *)
(* with its count; a task that has no retry left is stored as a failure in *)
(* the result backend.  Publishing is retried by Celery itself when the    *)
(* connection breaks, and may then deliver twice.                          *)
(*                                                                         *)
(* A worker's session expires what it has loaded at each commit, and an    *)
(* UPDATE carries only the columns whose value differs from the one loaded *)
(* last: a status is not written by a worker that has already seen it.     *)
(***************************************************************************)
EXTENDS Naturals

CONSTANTS Analyses,    \* the analyses clients ask for
          Workers,     \* the processes of the Celery worker
          None,        \* no task in hand
          MaxRetries,  \* max_retries of ai.run_analysis (2 in the code)
          Faults       \* which of "outage", "duplicate", "death", "database", "refresh" can happen

ASSUME AIJobsAssumption ==
  /\ MaxRetries \in Nat
  /\ Faults \subseteq {"outage", "duplicate", "death", "database", "refresh"}

\* `copy' tells the deliveries of one publication apart.
Tasks == [analysis: Analyses, retries: 0..MaxRetries, copy: {1, 2}]

ASSUME NoTaskIsNone == None \notin Tasks

VARIABLES
  request,   \* POST /ai/analyze for each analysis, as its client knows it
  row,       \* the ai_analyses row as it is committed
  queue,     \* tasks at the broker
  attempt,   \* what each worker is doing
  failures,  \* analyses whose task the result backend stores as a failure
  calls      \* provider requests made for each analysis; read by no code

vars == <<request, row, queue, attempt, failures, calls>>

Ended == {"completed", "failed"}

\* "none": no row.  error: error_message is set; output: output and raw_text are.
Rows == [status: {"none", "pending", "running"} \cup Ended, error: BOOLEAN, output: BOOLEAN]

\* seen: the status last loaded, where the next write depends on it.
Attempts ==
  [step: {"idle", "taken", "loaded", "started", "calling"}, task: Tasks \cup {None},
   seen: {"none", "pending", "running"} \cup Ended]

Idle == [step |-> "idle", task |-> None, seen |-> "none"]

Subject(w) == attempt[w].task.analysis

At(w, step) == attempt[w].step = step

\* What a flush makes of a status the worker sets to `new' having last seen `seen'.
Flushed(current, seen, new) == IF seen = new THEN current ELSE new

Init ==
  /\ request = [a \in Analyses |-> "none"]
  /\ row = [a \in Analyses |-> [status |-> "none", error |-> FALSE, output |-> FALSE]]
  /\ queue = {}
  /\ attempt = [w \in Workers |-> Idle]
  /\ failures = {}
  /\ calls = [a \in Analyses |-> 0]

-----------------------------------------------------------------------------
(* POST /ai/analyze *)

\* create_pending: the row is committed before the task is published.
Create(a) ==
  /\ request[a] = "none"
  /\ request' = [request EXCEPT ![a] = "created"]
  /\ row' = [row EXCEPT ![a].status = "pending"]
  /\ UNCHANGED <<queue, attempt, failures, calls>>

FirstTask(a, copy) == [analysis |-> a, retries |-> 0, copy |-> copy]

\* run_ai_analysis.delay, and 202 to the client.
Publish(a) ==
  /\ request[a] = "created"
  /\ request' = [request EXCEPT ![a] = "accepted"]
  /\ \/ queue' = queue \cup {FirstTask(a, 1)}
     \/ "duplicate" \in Faults /\ queue' = queue \cup {FirstTask(a, 1), FirstTask(a, 2)}
  /\ UNCHANGED <<row, attempt, failures, calls>>

\* The broker cannot be reached, or the API process dies: the client has no
\* answer or a 500, and the pending row stays.
PublishFails(a) ==
  /\ "outage" \in Faults
  /\ request[a] = "created"
  /\ request' = [request EXCEPT ![a] = "refused"]
  /\ UNCHANGED <<row, queue, attempt, failures, calls>>

-----------------------------------------------------------------------------
(* The worker: run_ai_analysis, resume_pending *)

\* Mutant of Take: the task is acknowledged late and stays visible.
TakeLeavingIt(w, task) ==
  /\ At(w, "idle")
  /\ task \in queue
  /\ attempt' = [attempt EXCEPT ![w] = [step |-> "taken", task |-> task, seen |-> "none"]]
  /\ UNCHANGED <<request, row, queue, failures, calls>>

Take(w, task) ==
  /\ At(w, "idle")
  /\ task \in queue
  /\ queue' = queue \ {task}
  /\ attempt' = [attempt EXCEPT ![w] = [step |-> "taken", task |-> task, seen |-> "none"]]
  /\ UNCHANGED <<request, row, failures, calls>>

\* The SELECT by id: any status is taken up, one that has ended too.
Load(w) ==
  /\ At(w, "taken")
  /\ attempt' = [attempt EXCEPT ![w].step = "loaded", ![w].seen = row[Subject(w)].status]
  /\ UNCHANGED <<request, row, queue, failures, calls>>

Start(w) ==
  /\ At(w, "loaded")
  /\ row' = [row EXCEPT ![Subject(w)].status = Flushed(@, attempt[w].seen, "running")]
  /\ attempt' = [attempt EXCEPT ![w].step = "started", ![w].seen = "none"]
  /\ UNCHANGED <<request, queue, failures, calls>>

\* The context is built, which loads the row again, and the provider is called.
CallProvider(w) ==
  /\ At(w, "started")
  /\ attempt' = [attempt EXCEPT ![w].step = "calling", ![w].seen = row[Subject(w)].status]
  /\ calls' = [calls EXCEPT ![Subject(w)] = @ + 1]
  /\ UNCHANGED <<request, row, queue, failures>>

\* Mutant of Retriable: one retry too many.
RetriableOnceMore(task) == task.retries <= MaxRetries

Retriable(task) == task.retries < MaxRetries

\* Mutant of Retry: the task returns where it should raise self.retry.
Swallow(w) ==
  /\ attempt' = [attempt EXCEPT ![w] = Idle]
  /\ UNCHANGED <<queue, failures>>

\* self.retry
Retry(w) ==
  /\ attempt' = [attempt EXCEPT ![w] = Idle]
  /\ LET task == attempt[w].task
     IN  IF Retriable(task)
         THEN /\ queue' = queue \cup {[task EXCEPT !.retries = @ + 1]}
              /\ UNCHANGED failures
         ELSE /\ failures' = failures \cup {task.analysis}
              /\ UNCHANGED queue

\* The answer is valid.  error_message is left as it is.
Complete(w) ==
  /\ At(w, "calling")
  /\ row' = [row EXCEPT ![Subject(w)].status = Flushed(@, attempt[w].seen, "completed"),
                        ![Subject(w)].output = TRUE]
  /\ attempt' = [attempt EXCEPT ![w] = Idle]
  /\ UNCHANGED <<request, queue, failures, calls>>

\* _fail_analysis: the provider is not configured, raises, times out, or its
\* answer is not valid.  The task itself succeeds, so it is not tried again.
\* output is left as it is.  A commit that fails expires what was loaded.
LastSeen(w) == {attempt[w].seen} \cup (IF "database" \in Faults THEN {"none"} ELSE {})

FailedRows(w) ==
  {[row EXCEPT ![Subject(w)].status = Flushed(@, seen, "failed"), ![Subject(w)].error = TRUE] :
     seen \in LastSeen(w)}

\* Mutant of Fail: the exception is raised again once the row says "failed".
FailAndRaise(w) ==
  /\ At(w, "started") \/ At(w, "calling")
  /\ row' \in FailedRows(w)
  /\ Retry(w)
  /\ UNCHANGED <<request, calls>>

Fail(w) ==
  /\ At(w, "started") \/ At(w, "calling")
  /\ row' \in FailedRows(w)
  /\ attempt' = [attempt EXCEPT ![w] = Idle]
  /\ UNCHANGED <<request, queue, failures, calls>>

\* A statement or a commit fails, outside the try block or inside
\* _fail_analysis too, and the exception reaches the task.
DatabaseFails(w) ==
  /\ "database" \in Faults
  /\ ~At(w, "idle")
  /\ Retry(w)
  /\ UNCHANGED <<request, row, calls>>

\* _fail_analysis has committed "failed", and the refresh after it raises.
RefreshFails(w) ==
  /\ "refresh" \in Faults
  /\ At(w, "started") \/ At(w, "calling")
  /\ row' \in FailedRows(w)
  /\ Retry(w)
  /\ UNCHANGED <<request, calls>>

\* The worker is killed with the task in hand.
Die(w) ==
  /\ "death" \in Faults
  /\ ~At(w, "idle")
  /\ attempt' = [attempt EXCEPT ![w] = Idle]
  /\ UNCHANGED <<request, row, queue, failures, calls>>

-----------------------------------------------------------------------------

Request(a) == Create(a) \/ Publish(a) \/ PublishFails(a)

\* What a worker with a task does of its own accord.
Proceed(w) == Load(w) \/ Start(w) \/ CallProvider(w) \/ Complete(w) \/ Fail(w)

Work(w) ==
  \/ \E task \in queue : Take(w, task)
  \/ Proceed(w)
  \/ DatabaseFails(w)
  \/ RefreshFails(w)
  \/ Die(w)

Next == (\E a \in Analyses : Request(a)) \/ (\E w \in Workers : Work(w))

\* A request goes on to publish; an idle worker polls the queue; and a worker
\* with a task goes on, the provider's client having a timeout.
Fairness ==
  /\ \A a \in Analyses : WF_vars(Publish(a))
  /\ \A w \in Workers : WF_vars(Proceed(w)) /\ WF_vars(\E task \in queue : Take(w, task))

Spec == Init /\ [][Next]_vars

FairSpec == Spec /\ Fairness

-----------------------------------------------------------------------------
(* Properties *)

TypeOK ==
  /\ request \in [Analyses -> {"none", "created", "accepted", "refused"}]
  /\ row \in [Analyses -> Rows]
  /\ queue \subseteq Tasks
  /\ attempt \in [Workers -> Attempts]
  /\ failures \subseteq Analyses
  /\ calls \in [Analyses -> Nat]

\* What a client read as the end of an analysis stays its end.  (It does not
\* where a task is delivered twice, or raises after it has written "failed".)
EndsAreFinal ==
  [][\A a \in Analyses : row[a].status \in Ended => row'[a].status = row[a].status]_vars

\* A completed analysis shows no error, a failed one no output.
\* (planning/RISKS.md:12)
EndsAreClear ==
  \A a \in Analyses :
    /\ row[a].status = "completed" => ~row[a].error /\ row[a].output
    /\ row[a].status = "failed" => row[a].error /\ ~row[a].output

\* The provider is paid for at most MaxRetries + 1 requests of each delivery of
\* a task, whatever fails.  (workers/tasks.py)
Deliveries == IF "duplicate" \in Faults THEN 2 ELSE 1

CallsAreBounded == \A a \in Analyses : calls[a] <= Deliveries * (MaxRetries + 1)

\* An analysis a client was promised comes to an end and stays there, or its
\* task is stored as a failure.  (planning/DECISIONS.md:14)
PromisesAreKept ==
  \A a \in Analyses :
    request[a] = "accepted" ~> [](row[a].status \in Ended \/ a \in failures)
=============================================================================
