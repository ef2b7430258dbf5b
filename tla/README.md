# Formal models of the Northbound Control Tower

The Control Tower collects the inventory of cloud accounts, finds faults in it,
and lets an operator remediate a finding through a change-controlled Terraform
run driven from a restricted "Cloud Shell". Beside that it scores accounts,
writes reports, and asks AI providers for analyses in background jobs. This
directory holds TLA+ models of its core logic, TLC configurations that check
them on small instances, and proofs checked by TLAPS.

All paths below are relative to `src/backend/` unless they start with `docs/` or
`planning/` (those are in `src/`).

## 1. Inventory

### The parts

| Part | State it keeps | Operations | Talks to |
|---|---|---|---|
| Cloud Shell (`cloud_shell/`) | one database session and one user context per WebSocket; an audit row per command | parse, authorise, execute, audit | calls every provisioning service, in the event loop, one command at a time |
| Provisioning requests (`provisioning/service.py`, `models/provisioning_request.py`) | `provisioning_requests` row: status, workspace path, evidence | create from a finding, list, show | shell; the services below all write its status |
| Terraform runner and workspace | a directory per request: `plan.out`, `plan.json`, logs | validate, plan, show | the terraform CLI; artifacts |
| Artifacts | `provisioning_artifacts` rows with content and SHA-256 | record a file | all provisioning services |
| Scan, cost, risk, gates | evidence in the request, `risk-summary.json`, `gates-result.json` | run Checkov, run Infracost, summarise, decide | workspace files, evidence |
| Approvals | one `provisioning_approvals` row per request: decision, snapshots, checksums | list pending, show, approve, reject | artifacts, evidence |
| Apply | `provisioning_execution_locks` rows, apply log, outputs | precheck, lock, `terraform apply`, outputs | approval, workspace, the cloud |
| Post-validation | `post_remediation_validations`, `collector_runs`; finding status | rescan, diff, report | inventory, findings engine |
| Inventory (`services/inventory.py`, `collectors/`, `normalization/`) | `inventory_scans`, `resources` | scan AWS, scan OCI, upsert | cloud APIs |
| Findings (`findings/`) | `findings` rows, unique by fingerprint | run the rules, upsert, change a status | resources |
| Normalization (`normalization/`, `collectors/*/normalizers.py`) | none: from what a provider says to a row of `resources` | normalize | inventory |
| Scoring (`scoring/`) | `cloud_scores` rows: six types per calculation, with trends | calculate, latest, history, summary | findings |
| Reports, cost cases | rows derived from findings and resources; the cost case is a demonstration that one route seeds and others read | render, seed, read | findings, resources |
| AI jobs (`ai/service.py`, `workers/`) | `ai_analyses` rows, Celery queue and result backend | accept, publish, run, retry | AI providers |
| Admission (`auth/`, `middleware/`, `security/rate_limit.py`) | `users` rows, tokens, a sorted set per rate-limit key in Redis | compare tenants, limit, log in, authorise | every route |
| Audit, observability, frontend | append-only rows, metrics, none | write, show | — |

### How they interact, and what is hard

* **Database transactions and files move apart.** A shell command is one
  transaction that also writes files. When it raises,
  `CommandExecutor.execute` (`cloud_shell/command_executor.py:75`) catches the
  exception and the audit logger *commits* what had been flushed; when the
  process dies, the rows roll back and the files stay. Three copies of a plan
  (file, artifact row, approved checksum) must agree when apply runs.
* **No status machine is enforced.** Most commands accept any status and
  replace it, so long sequences of legal commands reach unusual states.
* **Each shell has its own session.** `created_at` of an artifact is the start
  of the writing transaction, and the next transaction of a shell begins when
  its last command ended. "The newest artifact" is therefore not the artifact
  written last.
* **AI jobs** run in several processes that share only rows: lost and
  duplicated tasks, retries, killed workers, stale ORM state.
* **Post-validation and findings runs** interleave, read findings before a
  commit and use them after it.
* **One event loop** runs every shell: a long apply blocks the API, and a
  command may wait in it for a row lock or a request number that something else
  holds. The compose file has one server process; nothing in the code relies on
  that, and with two the status a command read may be stale when it writes.
* **A session that has failed stays.** Nothing rolls back a connection's
  session after a failed flush: later commands are answered, not audited.
* **Scores are read from rows that three writers leave behind**: scans rewrite
  resources, findings runs rewrite severities, users and validations decide on
  findings; calculations overlap, and each row looks its predecessor up alone.
* **Time**: the limiter's window moves, its keys expire, tokens age, and a
  user's row may change between the middleware and the handler.

### What makes each part correct

* Provisioning: terraform only applies the plan that was reviewed, and that
  plan deletes and replaces nothing; a clearance is earned by passing gates;
  the reviewed plan does not change under review; an approval describes the
  plan whose checksums it keeps; findings block; a rejection is final; an apply
  leaves a record.
* AI jobs: an end is final and clear; a bounded number of paid calls; every
  accepted analysis ends or is stored as failed.
* Findings and post-validation: a remediation is RESOLVED only if the rescan
  saw the resource clean; it is partial or open only if the rescan saw the
  fault; what was decided is not undone by a findings run; a validation comes to
  an outcome.
* Cloud Shell: no change without its audit row and its role; numbers without
  gaps; never two terraform runs on one request; every command is answered.
* Assessment: scores do not rise without a cause; a trend follows the history;
  a summary shows one calculation.
* Admission: in no window more calls than the limit, no refusal that is not
  due; a request is served only by a row that allows it, in its own tenant.

Every hazard, with its line and the properties aimed at it, is in
`PROJECT.json` under "hazards"; those no property covers yet say why.

## 2. Modules

| Module | What it is |
|---|---|
| `ChangeControl` | the abstract promise: a plan is cleared, the clearance may be withdrawn, and only what is cleared is run |
| `Provisioning` | one provisioning request: every shell command that changes it, with interruptions by exception and by process death |
| `MCProvisioning` | instances of `Provisioning`, the view and the one bound of its runs |
| `MCRejection` | `Provisioning` with one history variable, for what follows a rejection |
| `ProvisioningProofs` | proofs about `Provisioning` and that it implements `ChangeControl` |
| `AIJobs` | the AI analysis jobs: API processes, queue, workers, rows |
| `MCAIJobs` | instances of `AIJobs` |
| `AIJobsProofs` | proofs about `AIJobs` |
| `Remediation` | post-validation of one request: rescan, findings engine, diff, beside findings runs, scans and users |
| `RemediationCase` | the abstract promise of a validation: announced, looked at and decided once, from what was seen |
| `MCRemediation` | instances of `Remediation`: what a collection can say |
| `RemediationProofs` | proofs about `Remediation` |
| `RequestBoard` | the abstract promise of the Cloud Shell: each command is a single step on the requests |
| `CloudShell` | connections, parser, registry, roles, executor and audit on several servers, with the creation, approval and application of requests |
| `MCCloudShell` | instances of `CloudShell` and their view |
| `CloudShellProofs` | proofs about `CloudShell` |
| `Normalization` | what a scan makes of what a provider says of a resource |
| `NormalizationProofs` | proofs about `Normalization` |
| `Assessment` | extends `Normalization`: scans, the five rules, findings runs, decisions, score calculations, the summary |
| `MCAssessment` | an instance of `Assessment`, its view, the one restriction of its steps |
| `AssessmentProofs` | proofs about `Assessment` |
| `Sums` | lemmas about sums over finite sets, for the proofs about scores |
| `Admission` | middlewares, limiter, login, tokens and permissions, with the clock and changing users |
| `MCAdmission` | an instance of `Admission` |
| `AdmissionProofs` | proofs about `Admission` |

The modules meet in the request and in the finding. `CloudShell` creates the
request that `Provisioning` follows, and reduces what `Provisioning` does between
creation and approval to `open` or `ready`; `Remediation` starts where
`Provisioning` has applied; `Assessment` takes the statuses `Remediation` gives as
decisions (`Decide`). They are separate modules because their product is out of
TLC's reach.

### Provisioning

One request is followed: other requests have workspaces, artifacts, approvals
and locks of their own. The state is `status`; `workspace` (the path is set and
the directory exists); `disk`, the four reviewed files `plan.out`, `plan.json`,
`risk-summary.json`, `gates-result.json`; `artifact`, the newest row of each;
`evidence`; `approval`; `lock`; and `applied`, the last execution of
`terraform apply`, which no command reads.

A plan is a model value: equal content means equal checksum, so a checksum is
modelled by the content. `Destructive` are the plans the parser says delete or
replace something. A risk summary is reduced to the plan and scan it was made
from, a gates result to its decision and its plan.

One action is one command of the shell, with all its writes, because commands
of one server process cannot overlap: the WebSocket handler calls the executor
without awaiting. Three variants of a command exist where they differ:

* the command returns (`PlanSucceeds`, `RiskSummary`, `GatesEvaluate`, `Apply`, ...);
* it raises at some point, and what was flushed is committed (`...Raises`,
  enabled by `"raise" \in Interruptions`);
* the process dies, rows roll back, files stay (`...Crashes`, enabled by
  `"crash"`).

`ManyShells` adds what several sessions do to the order of artifacts: a row
just recorded may not become the newest (`Newest`). The rows of plan.out and
plan.json are written in one transaction, so they become the newest together
(`PlanRows`).

Left out, because no guard reads them: logs and other artifacts, markdown, the
cost figures (they only warn), approval notes and levels, the approval's expiry
(never set). A refused command that changes nothing is no action. A commit whose
acknowledgement is lost is not modelled.

### AIJobs

`request` is what the client of `POST /ai/analyze` saw; `row` the committed
`ai_analyses` row (status, whether an error message and an output are set);
`queue` the tasks at the broker; `attempt` what each worker is doing, step by
step; `failures` what the result backend stores; `calls` counts provider
requests. Celery (acknowledgement when a task starts, `self.retry` publishing
again) and SQLAlchemy (expiry at commit, UPDATE of changed columns only) are
modelled from how the code uses them; the entries marked external in
`PROJECT.json` are those. `seen` is the status a session loaded last: the code
writes a status only where it differs from it.

`Faults` selects what may go wrong: `"outage"` (publication fails or the API
process dies before it), `"duplicate"` (a publication delivered twice),
`"death"` (a worker is killed), `"database"` (a statement or commit fails),
`"refresh"` (the refresh after `_fail_analysis`'s commit fails).

### Remediation

`nb validate request` collects the account again, runs the findings engine and
decides from the request's finding. It commits twice in between, and the API's
threads scan the account, run the engine and patch statuses meanwhile, so its
steps are actions of their own: `Begin` (read), `Announce` (POST_VALIDATION_RUNNING
and `validating`, committed with the scan row), `Rescan` (the collector answers),
`StoreRescan` (the upserts, committed), `Load`, `Evaluate`, `Flush` of each
finding, `Compare`, `Finish`. A findings run is `Load` to `Flush` and then
`CommitRun`; a scan `Collect` and `Store`; a user's PATCH `LoadForPatch` and
`CommitPatch`.

`resource` and `finding` are the committed rows. A session keeps what it read
(`engine[s].rows`, `engine[s].seen`, `validation.seen`, `scan[s].rows`) and
writes only columns that differ from that (`Flushed`). A flushed finding is
locked until its session ends (`engine[s].locks`); whoever wants it waits, two
sessions may wait for each other (`Deadlocks`), and a new finding may collide
with one that was committed meanwhile (`FlushCollides`). In a findings run that
ends in a rollback; in the validation no handler rolls the session back, so each
of them raises again and the command is `lost`.

`resource[i]` is reduced to what the rule makes of the row (no fault, or a fault
of low or high severity); times to `fresh` (last seen since the validation
began) and `dated` (resolved_at is set). `Collections` is what a collection may
say of the items; `"missing"` stands for a resource that is gone and for a
service that did not answer, which the code cannot tell apart.
`validation.evidence` (`"none"` until the collection has answered) and `disturbed`
(what others committed since the start) are history for the properties.

`RemediationCase` has only the request, its finding's status, the severity before,
the evidence and who else has written. It is announced, looked at and decided at most
once each, in this order; nothing but a failure is decided where the look failed; what
the evidence says decides the rest, except where others wrote the rows that it is read
from; and only the two commits of the validation and users set the status.
`ImplementsRemediationCase` is the refinement.

`Faults` selects `"collector"` (it raises), `"rule"` (rules raise on some
resources), `"raise"` (writing an artifact or the report raises), `"death"` (the
server is killed). Left out: the scan, collector-run and validation rows, which
only their own session reads; a second validation of the same finding by another
request (shells of one process do not overlap); the order in which new findings
are inserted, which follows a SELECT without ORDER BY and is taken to be the
same in all sessions.

### CloudShell

`conn[c]` is a WebSocket connection with the command it has received, `thread[t]`
a REST thread that creates a request, `number[s]` the request number a session has
computed, `request[n]` the committed row. A command goes through phases: `sent`
(its line is in the socket), `read` (its audit row is flushed, its handler has read
what it needs), `written` (it holds the lock of the row it updated), `acted` (the
handler has committed, which commits the audit row too), `answered`; or `dropped`
when an exception reaches the router. `LoopIsFree` is the event loop: on a server,
only one connection is between `read` and `acted`.

`Refuse`, `Answer`, `Read` and `StartFails` are what `CloudShellExecutor.execute` may
do with a line; `Insert`, `Collide`, `Write`, `Commit` and `Finish` the steps of a
handler that commits; `Raise` an exception the executor catches; `DatabaseFails`
one that its audit row cannot survive; `Die` the end of a server process. A line is
reduced to the way the parser sees it (`Texts`), its command name, whether it has
arguments, and the request whose row it writes. All 28 commands are registered
with their roles and grouped by what their handlers do.

`Faults` selects `"database"`, `"raise"`, `"death"`. `seen` and `runs` are history of
the handler's local variables; `uses` counts applies since the last approval and is
read by no code. Two servers are a generalisation of the compose file.

`RequestBoard` has the requests, and which of them were applied since they were
approved. There a command is one step, with the guard its service is written with:
`Approve` of what is ready, `Reject` of what is not approved, `Apply` of what is
approved, cleared and unused. `ImplementsRequestBoard` says that with one server the
three steps of a handler (read, first UPDATE, commit) amount to one of those or to
nothing, whatever is created, raised or killed meanwhile. With a thread per command
(`LoopIsFreeAlways`) or a second server it fails: a command decides on a status that
another has changed.

### Normalization and Assessment

`Normalization` is operators only. `Descriptions` is what a provider may say of a
resource: its kind, its tags in order (what a key means, how it is spelled, what its
value is), its state, whether it has a public address, an attachment, or a text that
names 0.0.0.0/0. `Normalized(d)` is the row that the collector's normalizer and
`ResourceNormalizationService.normalize_many` make of it, reduced to what the rules
read. It follows `sanitize_metadata` (a public address keeps its key, attachments
move to `provider_details`), `_tag_value` (the first key of a meaning decides, and of
keys equal in lower case the last), `normalize_environment`, and the fallback of a
record that fails (`Malformed`, `Unnormalized`).

`Assessment` keeps `resource` (those rows), `finding` (status and severity by resource
and type), `runs` (the calculations, with their scope, the findings they loaded and
how many rows they have made) and `rows` (the scores). `Scan` stores the row of what
the provider says now; `Decide` is a user or a validation; `FindingsRun` asks the five
rules about every resource; `Start`, `PersistScore`, `Commit` and `Fail` are one
`POST /scores/calculate`: findings are loaded once, each row looks the previous one of
its scope and type up among the committed ones, six rows are committed together.
`LatestScores` and `ScoreSummary` are the reads of the dashboard.

Scores are computed exactly, in halves of a point and twentieths of a weight.
Python rounds half to even; whether the floating-point sum of the weighted mean falls
on either side of a half is not decided by the exact value, so `TiesUp` lists the
domain scores for which it is rounded up, and the instance names the ones it meets.
`alone`, `steady` and `before` are history for the properties.

### Admission

`members[key]` is the sorted set of Redis, `user[u]` the row, `client[c]` the token
and the request of a caller. `Check` is the rate-limit middleware, tenant middleware
included (`Meant`): it removes old members, adds this millisecond, counts, lets the
request through or refuses it; `Pass` is a route without a rule; `Expire` is Redis
dropping a key; `CheckPassword` and `IssueToken` are the login; `Authorise` and `Serve`
are `get_current_user`, `require_permission` and the handler; `Change` alters a user's
row (no route does: it is external), `Tick` is the clock. `called`, `allowed` and
`was` are history. Roles and permissions are those of `auth/roles.py`; one route
stands for the routes of each permission.

## 3. Runs

| Run | Shows |
|---|---|
| `provisioning_crash` | several shells and crashes: `AppliedPlanIsSafe`, `ClearanceIsEarned`, `PlanFrozenUnderReview`, and that the request implements `ChangeControl` |
| `provisioning_faults` | commands that raise: the plan.json beside an applied plan is readable and safe (`AppliedReviewIsSafe`) |
| `provisioning_scans` | every answer of Checkov, three plans: `FindingsPreventApproval`, `SnapshotIsOfOnePlan` |
| `ai_jobs` | outages, deaths, database errors: `EndsAreClear`, `EndsAreFinal` |
| `ai_retries` | duplicates and retries: `CallsAreBounded`, `PromisesAreKept` |
| `rejection` | *violated* (`RejectionBlocksApply`): a rejected request is applied |
| `remediation` | a validation beside a findings run, with every fault: `ResolutionIsEarned`, `PersistenceIsSeen`, `OutcomesStand`, `ValidationEnds` |
| `remediation_users` | scans, a run, users and failing collectors at once: `ResolutionIsEarned`, `StatusesAreDecided`, and that the validation implements `RemediationCase` (`ImplementsRemediationCase`) |
| `cloud_shell` | two servers, every failure: `EffectsAreAudited`, `AnswersAreAudited`, `EffectsAreEntitled`, `NumbersAreDense`, `AppliesAreAlone`, `ApprovalsAreSpent` (at most one use per server) |
| `shell_loop` | one server: an approval is used once (`ApprovalsAreSpent`), the shell implements `RequestBoard` (`ImplementsRequestBoard`), every command ends (`CommandsAreAnswered`) |
| `assessment` | scans, findings, decisions and overlapping or failing calculations: `DecayShows`, `ImprovementIsEarned`, `TrendsFollowHistory`, `SummaryIsWhole` |
| `admission` | moving windows, expiring keys, ageing tokens, changing users: `WindowIsKept`, `RefusalsAreDue`, `ServedAreEntitled` |

### Bounds, and why they are enough

* **Plans.** One safe and one destructive plan make every confusion between
  two plans visible; `provisioning_scans` adds a second safe one, because the
  snapshot of an approval never shows a destructive plan.
* **View.** The runs compare states through `LiveState` (or a variant of it):
  statuses no guard tells apart are one, and the snapshot of an approval counts
  only under status APPROVED, since every Approve overwrites it. The comments
  in `MCProvisioning` give the reasons; states with the same view enable the
  same commands with the same effect on the properties checked.
  `LiveReviewState` keeps of the last apply only what its run's property
  speaks of.
* **`FewDisagreements`** (run `provisioning_faults` only) bounds to one the
  files that interrupted commands left different from their rows. The theorem
  `AppliedReviewSafe` covers any number.
* **AI jobs.** Analyses interact only through workers and queue: three analyses
  and two workers for safety, one analysis and two workers where tasks are
  duplicated. `MaxRetries = 2` is the code's value. Symmetry (of analyses and
  of workers) is used in `ai_jobs` only, which checks no liveness property.
* **Remediation.** Two resources, the original and one more, are what a deadlock
  and a collision need. In `remediation` the collection says anything of the
  original and either a fault or nothing of the other; in `remediation_users`,
  which adds a scan and a user, severities play no part and the other resource
  is clean. One run, one scan and one user suffice: each repeats as often as it
  likes, and the proofs cover any number.
* **Cloud Shell.** Two connections and a REST thread are what a collision of
  numbers, a wait for a row and a stale status need; a third adds another waiter.
  `MaxRequests = 2` lets a number be taken while another is counted. `LiveState`
  leaves out a computed number that nobody will use. In `cloud_shell` one
  connection may type lines of each kind the parser and the roles tell apart, the
  other only those that can meet it. In `shell_loop` the second connection types what
  changes the status under the first: approve, reject, gates evaluate, apply.
* **Assessment.** A machine whose tags and address get worse or better, a volume
  that every scan finds unattached, a security group open to anywhere: together
  four of the five rules find something (idle compute cannot, see below). Two scopes, one within
  the other; up to two calculations that overlap, or three in turn
  (`MaxOverlapping`, `MaxRuns`), because a trend needs two and a wrong predecessor
  three; one scan or decision (`MaxScans`). The view `RankedState` replaces times
  by ranks within a type, which is all that is compared. `RowsAreUndisturbed`
  lets resources and findings change only while no running calculation has made
  a row: a calculation reads neither after it has loaded the findings, so such a
  change could as well have come before its first row. `RowsAreReadable` evaluates
  `Normalized` on some 10000 descriptions.
* **Admission.** Two callers at one address, one user, two tenants, three rows;
  a limit of one call in a window of two milliseconds, tokens that live two, a
  clock that counts to three: a window can begin, end, and begin again, and a
  token expires between a middleware and its handler. The proofs cover every
  limit, window and number of callers.
* Every other counter of the code is finite in the model by itself, `calls`
  included (each task is taken once).

`CHECK_DEADLOCK FALSE` is set for the AI runs, where every analysis may have
been settled, for the remediation runs, where the request may have its outcome,
and for `assessment`, where the bounded number of calculations may be used up. A
shell can always be opened or closed, callers can always call, and a
provisioning request always accepts another command.

### Fairness

`FairSpec` of `AIJobs` assumes weak fairness of `Publish` (a request handler
that has committed the row goes on to publish), of each worker's `Proceed` (the
provider client has a timeout, so a call ends), and of each idle worker taking
*some* task. It assumes nothing about a particular task's order, and none of the
failures. `PromisesAreKept` does not hold with `"death"`: a killed worker leaves
the row running for ever, which `planning/RISKS.md:18` acknowledges; the run has
the faults under which the promise is kept.

`FairSpec` of `Remediation` assumes strong fairness of the validation and of
each started engine: PostgreSQL grants a row lock to those that wait in turn, so
a session that can go on again and again does. No run, scan or user need ever
start. `ValidationEnds` counts a lost command as an end, because the code has no
way on from there; without that clause the property fails.

`FairSpec` of `CloudShell` assumes strong fairness of each connection's turn and
steps together, and of each REST thread: the event loop serves its sockets in the order in which
they become ready, subprocesses have timeouts, and PostgreSQL grants locks in
turn. Nobody need connect, send or close, and no failure need happen.

### Findings

`rejection` is a disagreement between the code and a document; `PROJECT.json`
quotes both. Disagreements with documents that no run states:

* `docs/apply-precheck-model.md:15`: "Plan must not include delete or replace
  actions." When `nb terraform plan` raises after plan.out is recorded and before
  plan.json is written, the executor commits what was flushed, the old plan.json
  stays beside the new plan.out, and the new plan is applied on the review of the
  old. This is why `AppliedPlanIsSafe` assumes that no command raises.
* `docs/change-control-model.md:35`: "Every phase writes artifacts so a reviewer
  can reconstruct what happened." Status and lock are only flushed while terraform
  runs; a process that dies then leaves APPROVED and no record.
* `docs/approval-workflow.md:7`: an approval keeps the snapshots "that were
  reviewed". The newest artifact is chosen by the start of its transaction, so
  with several shells an approval can keep the checksum of one plan and the
  summary of another.
* `docs/findings-diff-model.md:16`: "Absence of data is not resolution." A scan
  that could not read a service is COMPLETED; the resource keeps its old row, and
  if that is clean the remediation is RESOLVED. This is why `ResolutionIsEarned`
  leaves out a collection that did not mention the resource. The sentence after it, that
  a failing collector always blocks `RESOLVED`, does hold.
* `docs/cloud-shell-security-model.md:93` and `docs/cloud-shell.md:49`: every
  command is audited. After a failed flush the session of the connection is never
  rolled back: its commands are answered without a row. `AnswersAreAudited` says
  what is left: those commands change nothing.
* `planning/RISKS.md:12` promises that `resume_pending` leaves a clear state. With
  the fault `"refresh"` (the refresh after `_fail_analysis`'s commit raises) the
  task runs again and the row ends `completed` with the error message of the
  failure, which is why `ai_jobs` and its theorems exclude that fault.
* `planning/DECISIONS.md:19` speaks of retries of provider errors;
  `resume_pending` turns them into `failed`, and the task is not retried.
* `docs/architecture/risk-scoring-engine.md:31` excludes resolved and false-positive findings
  from the scores. The code counts only `open` and `acknowledged` ones
  (`scoring/engine.py:112`), so a finding that is `still_open` or
  `validation_failed` after a failed remediation no longer weighs, and nothing
  sets it back.
* `ARCHITECTURE.md:619` and the hardening notes describe a limiter in memory; the
  code uses Redis.

Other things met while reading:

* After PLAN_FAILED, two evaluations of the gates make a request with its *old*
  plan ready for approval: the first replaces PLAN_FAILED by GATES_BLOCKED, which
  the plan-status gate accepts. A risk summary made before the current plan does
  not prevent approval. OUTPUTS_CAPTURE_FAILED is not accepted by
  post-validation. `requires_double_approval` and `expires_at` are never enforced
  or set.
* A user who sets `risk_accepted` during a validation makes it RESOLVED, because
  the diff calls every status outside its list not active
  (`provisioning/findings_diff_service.py:81`). A validation whose report raises
  after the outcome was flushed ends failed with `resolved_at` set; a PATCH that
  raced another may leave status and `resolved_at` in disagreement.
* What keeps two terraform runs apart is the row lock of the precheck's first
  UPDATE, not the lock table, whose rows are only flushed. With two servers a
  status read as APPROVED before the lock was granted lets an approval be used
  once more.
* `nb terraform destroy` typed with one space is BLOCKED by the parser, with two
  it reaches its handler and FAILED; the registry's NOT_IMPLEMENTED is
  unreachable.
* Utilisation and monitoring are never collected: `idle_compute` finds nothing,
  and every machine, database and network in production has a `high`
  observability gap, while one known to have no monitoring would have a `medium`
  one. `attached_to` is never collected: every volume looks unattached. Databases,
  buckets, identities and AWS alarms carry no tags, so `missing_tags` always finds
  them. A tag value longer than its column fails the whole record, which is stored
  as of unknown category and drops out of most rules, while its findings stay.
* Two tags of one meaning ("Env" and "environment") are decided by the order in
  which the provider lists them; without such tags order plays no part
  (`RowIsOrderFree`).
* A findings run never closes a finding. An unfiltered `score_summary` shows, for
  each type, the scope that was calculated longest ago; calculations that overlap
  may be shown mixed.
* The limiter counts calls of one millisecond once, and counts calls that it
  refuses. A malformed `X-Tenant-ID` is ignored. A tenant's status is never
  consulted. The role APPROVER has no permission over the REST API.

## 4. Proofs

`ProvisioningProofs`, for any sets `Plans` and `Destructive`:

* `TypeCorrect`: `Spec => []TypeOK`.
* `AppliedReviewSafe`, `FindingsAlwaysPreventApproval`, `PlanStaysFrozen`: with
  any interruptions, from the invariant `ReviewInv`: while a request is under
  review or approved, the plan.json in the workspace is safe and the last scan
  did not block. It is inductive because the only way into that set of statuses
  is an evaluation of the gates, and every command that changes plan.json or the
  scan leaves it.
* `AppliedPlanSafe`, `ClearanceEarned`, `ControlImplemented`: if no command
  raises (`"raise" \notin Interruptions`; the first disagreement above is why), with any crashes and any number of shells. `ClearanceInv` adds that
  the newest plan.out row and plan.json row are of one plan (`PairedRows`), that
  under review the gates row passed the plan in the plan.json row
  (`ReviewedGatesArePassed`), and that the approved checksums are those of the
  rows (`ApprovalKeepsRows`). The precheck then ties the files to the rows.
  `ControlImplemented` is the refinement, `Spec => ImplementsChangeControl`: `ControlInit` and `ControlStep` map
  initial states and steps to those of `ChangeControl`.
* `SnapshotOfOnePlan`, for one shell that nothing interrupts (`ManyShells = FALSE`,
  `Interruptions = {}`). Each hypothesis is needed: TLC finds an approval that shows
  the summary of another plan with two shells, with a crash, and with an exception
  that commits half a command. Every command may still fail by itself.
  `SnapshotInv` says that the rows are those of the files, that evidence
  follows the plan, and that a request that awaits an approval has a plan.json to
  show.

`AIJobsProofs`, for any finite or infinite set of analyses and workers and any
`MaxRetries`:

* `TypeCorrect`.
* `EndsClear`, `EndsFinal`: if no task is delivered twice and the refresh does
  not fail. The invariant `EndsInv` says that of the tasks of an analysis at
  most one exists, in the queue (`QueuedAlone`) or in a worker's hand
  (`HeldAlone`), and only while the analysis has not ended, and that a row that
  has not ended is blank (`OpenIsBlank`).
* `CallsBounded`: the provider is asked at most `MaxRetries + 1` times per delivery,
  whatever fails, is lost or comes twice. The counter of calls does not say which
  delivery it counts, so `CallsInv` splits it: for some `spent`, calls are the sum of
  what either delivery has spent, and each try that exists, queued or in hand, has
  spent no more than its number of retries (`CallsAccounted`). Each delivery has one
  try at a time (`TriesAlone`), and deliveries are those the broker has accepted
  (`TasksDelivered`).

`RemediationProofs`, for any resources, sessions, collections and faults:

* `TypeCorrect`, with `HitsAreFaults`: the rule has findings only where it has
  seen the fault, so a severity written is one.
* `StatusesDecided`. The invariant `LockInv` says who holds which lock, and that
  what a session has flushed as new is still new (`LocksHold`), and how far
  request and engine are at each step of the command (`PhasesHold`). A commit
  then inserts a finding or keeps its status (`UpsertsKeepStatuses`).
* `DecisionsStand`. `StatusKept` adds that unless a user comes between, the
  finding is `validating` and the validation's session knows it, so that
  `Finish` does write the new status.
* `ResolutionEarned`, `PersistenceSeen`. `EvidenceKept` follows the answer about
  the resource from the collection to the inventory, the engine and the finding;
  `OutcomeJustified` says what an outcome that was compared implies, and `SeenOnce`
  that there is one only if the collection has answered, once.
* `CaseImplemented`, the refinement `Spec => ImplementsRemediationCase`, without
  hypotheses: one lemma for each step that the case sees (`BeginIsBegin`,
  `AnnounceIsAnnounce`, `RescanIsLook`, `FinishIsDecide`, `PatchIsUser`); the other
  steps leave what it sees of request and finding (`Unseen`) and at most count as another
  writer.

`CloudShellProofs`, for any connections, threads, servers, lines and faults:

* `TypeCorrect`, `EffectsAudited`, `AnswersAudited`, `EffectsEntitled`, from
  `ConnInv`: in each phase of a command, what its audit row may be and whether an
  effect may be committed (`ConnectionSound`). The key is that a handler's commit
  takes the flushed audit row with it, and that a failed session commits nothing.
* `AppliesAlone`, from `LocksExclude`: two connections never hold one row. A run
  of terraform is always under the lock of its request.
* `NumbersDense`, from `NumbersInv`: committed numbers are 1..n, and a session
  that has inserted a number has inserted n + 1, alone. It needs that an INSERT
  waits for another of the same number.
* `ApprovalsSpent`, for any finite set of servers: recorded uses of an approval are at
  most one per server. `ApprovalsInv` adds to the uses the servers that may still apply
  (those in whose turn an approved status has been read and not yet acted on): the
  sum never exceeds the number of servers, because after the first commit nobody
  reads an approved status again.
* `BoardImplemented`: with one server (`OneServer`), of any number of connections and
  REST threads, commands do to requests what `RequestBoard` does in single steps.
  `BoardInv` says that what a working command has read of its request, and has passed,
  is still so, whatever the other connections do meanwhile: that is the event loop of
  one process at work, and with two servers it is false.

`NormalizationProofs`, for every description: `RowIsOrderFree`, from the lemma that
a meaning which one tag has has one value in every order; and `RowIsReadable`, that
what a collector asks for becomes a row that every rule can read, with no utilisation
in it. `AssessmentProofs` uses the second as its fact about what scans store.

`Sums`: a sum over a finite set is a natural number, is monotone and splits at a
member, and a sum of terms that are no larger, taken along an injection, is no larger.
There is no induction over sets in reach of the provers, so each is proved from
the smallest subset for which it would fail (`SmallestSubset`, from the library's
well-foundedness of the strict subset order), and that the recursive function of
`SumFunctionOnSet` exists is proved the same way.

`AssessmentProofs`, for any resources, accounts, scopes and number of calculations:

* `RulesSeeDecay` (one lemma per rule) and `ClampKeepsOrder`: one resource's findings,
  and the rounding of a sum of deductions.
* `ScoreIsMonotone`: more or graver findings never raise a domain's score, nor the
  weighted mean, however the mean is rounded. It rests on `Sums` and on the two above.
* `TypeCorrect`, `DecayShown` and `ImprovementEarned`, from `ScoreInv`. What a
  calculation has counted of its scope (`CountedInScope`) is, while nothing
  has improved or been decided since, still there and no graver than the finding
  and the resource (`SteadyAreKept`); so a later calculation of a wider scope that
  has loaded up-to-date findings has counted a match for each (`BeforeAreMatched`); a row has the
  score of what was counted (`RowsScored`), and an improving row is three points above
  an earlier one (`RowsRose`). `ScoreIsMonotone` does the rest.
* `TrendsFollow` and `SummaryWhole`, from `CalcInv`. A row is of a calculation that
  has made one of its type (`RowsKnown`, `RowsMade`, `RowsDiffer`); of calculations
  that run, one that is alone is the only one (`AloneIsOne`), its rows are the last
  (`AloneIsLast`), what was made before them is committed (`EarlierAreCommitted`), so
  no other calculation has rows on both sides of it (`AloneIsSeparate`). The trend
  is then right when it is made and stays right, and if the summary showed two such
  calculations, the earlier one's row of the later one's type would have to be hidden
  by a calculation that surrounds it.

`AdmissionProofs`, for any callers, users, tenants, limits and windows:

* `TypeCorrect`, with `LoginsInv`.
* `WindowKept` and `RefusalsDue`, from `KeysInv`: what a key holds, and what it has let
  through, are milliseconds in which it was called, and everything it let through
  within the last window is still a member.
* `ServedEntitled`, from `RequestsInv`: a request on its way carries its token's user,
  asks for the token's tenant while the token is valid, and is marked by `was` from
  the moment on that the user's row allowed it.

Each invariant was checked with TLC before it was proved. The assumptions on
constants (`...Assumption`) say only of which sets they are; TLC evaluates them on
every run. Every property of a passing run has a theorem except the three of liveness
(`PromisesAreKept`, `ValidationEnds`, `CommandsAreAnswered`), which rest on fairness
and so on ENABLED, out of the prover's reach: they are only model-checked.

The proofs corrected the model, or made it say more, where TLC's instances did not:

* `DecayShows` was false for more resources than the run had: an active
  finding that no later findings run has updated is counted with its old severity. The condition that a
  calculation is up to date (`UpToDate`) now asks that the active findings of the
  scope are those of its rows.
* `Upserted` was a CASE whose guards overlapped, which TLC reads in
  order and TLA+ does not; it is now written as the code's `if`.
* `validation.evidence` began as `"missing"`, so that a collection that never
  answered was excused like one that did not mention the resource. It begins as `"none"`
  now: a failing collector must block RESOLVED.
* What the runs had silently supplied is now stated: finitely many resources and servers,
  and the range of the bounds (`AssessmentAssumption`, `DecisionsAssumption`, `CloudShellAssumption`).

## 5. Not modelled

* AI providers, prompts and output validation, report rendering, the evidence and
  texts of findings and scores: pure functions of rows, or I/O, whose results no
  guard of the modelled code reads.
* Cost optimization: one route seeds a demonstration case in one transaction, the
  others read it. There is no protocol.
* Bootstrap and the registration of tenants; the audit rows of the REST API, which
  nothing reads back to decide anything; credential encryption; metrics and
  configuration; migrations, seed scripts and the compose file.
* The frontend keeps no state of the system.
* The commit whose acknowledgement is lost, and a clock that steps back (the
  limiter would then forget calls late).

`PROJECT.json` lists every part with its status and reason.

## 6. Plan

What would add most next, in this order:

1. The steps of a findings run (`Remediation`) within `Assessment`, where they are
   one step.
2. The scan rows and their statuses, with two scans of one account at once.
