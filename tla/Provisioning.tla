---------------------------- MODULE Provisioning ----------------------------
(***************************************************************************)
(* The life of one provisioning request, from the DRAFT written by         *)
(* create_from_finding to the remediation outcome, as the Cloud Shell      *)
(* commands of src/backend/cloud_shell drive it.                           *)
(*                                                                         *)
(* A command runs in one database transaction and writes files into the    *)
(* request's Terraform workspace as it goes.  It can end in three ways:    *)
(*   - it returns: the transaction commits;                                *)
(*   - it raises: CommandExecutor.execute catches the exception and        *)
(*     commits whatever had been flushed, beside the audit row ("raise");  *)
(*   - the process dies: the transaction rolls back, the files stay        *)
(*     ("crash").                                                          *)
(* Commands of one process never overlap (the WebSocket handler calls the  *)
(* executor without awaiting), so here a command is one step.              *)
(*                                                                         *)
(* They come from several shells: the operator's, the approver's.  A shell *)
(* keeps one database session, whose next transaction begins when its last *)
(* command ends; and created_at, by which the newest artifact is chosen,   *)
(* is the time the transaction began.  So what a shell that sat idle       *)
(* records can be older than the row it was meant to replace.              *)
(*                                                                         *)
(* Other requests have workspaces, artifacts and approvals of their own,   *)
(* so the module follows one.  A refused command (unknown request, missing *)
(* role, missing workspace, missing remediation role) changes nothing and  *)
(* is not an action.                                                       *)
(***************************************************************************)
CONSTANTS Plans,         \* contents `terraform plan' may save: equal content, equal checksum
          Destructive,   \* plans with a delete or a replace action
          None,          \* no file, no row, no evidence
          Garbage,       \* a plan.json that is not JSON
          ScanResults,   \* what the Checkov runs of this instance say: some of Scans
          ManyShells,    \* commands come from more than one shell
          ApplyEnabled,  \* settings.terraform_apply_enabled
          Interruptions  \* which of "crash" and "raise" can happen

ASSUME ProvisioningAssumption ==
  /\ Destructive \subseteq Plans
  /\ None \notin Plans
  /\ Garbage \notin Plans /\ Garbage # None
  /\ ScanResults \subseteq {"unavailable", "unparsed", "clean", "blocking", "critical"}
  /\ ManyShells \in BOOLEAN /\ ApplyEnabled \in BOOLEAN
  /\ Interruptions \subseteq {"crash", "raise"}

VARIABLES
  status,     \* provisioning_requests.status
  workspace,  \* workspace_path is set and the directory exists
  disk,       \* the four reviewed files as they are in the workspace
  artifact,   \* the newest artifact row of each of them (content and checksum)
  evidence,   \* request.evidence: "terraform_plan" and "security_scan"
  approval,   \* the provisioning_approvals row of the request
  lock,       \* the newest provisioning_execution_locks row
  applied     \* the last execution of `terraform apply', or None: what the cloud
              \* knows, read by the properties and by no command

rowVars == <<status, workspace, artifact, evidence, approval, lock>>
vars    == <<status, workspace, disk, artifact, evidence, approval, lock, applied>>

-----------------------------------------------------------------------------
(* Statuses and contents *)

AwaitingStatuses == {"READY_FOR_APPROVAL", "PENDING_APPROVAL"}

TerminalStatuses == {"APPROVED", "REJECTED", "CANCELLED", "APPROVAL_EXPIRED"}

\* The statuses the plan-status gate accepts.
PostPlanStatuses ==
  {"PLAN_READY", "SECURITY_SCAN_PASSED", "SECURITY_SCAN_BLOCKED", "COST_ESTIMATE_READY",
   "COST_ESTIMATE_FAILED", "RISK_SUMMARY_READY", "GATES_EVALUATING", "GATES_FAILED",
   "GATES_BLOCKED", "READY_FOR_APPROVAL"}

OutcomeStatuses ==
  {"REMEDIATION_RESOLVED", "REMEDIATION_PARTIALLY_RESOLVED", "REMEDIATION_STILL_OPEN",
   "REMEDIATION_VALIDATION_FAILED"}

\* The statuses some command writes and commits; READY_FOR_PLAN, CANCELLED,
\* APPROVAL_EXPIRED and the legacy ones are read but never written.
Statuses ==
  {"DRAFT", "TERRAFORM_INIT_RUNNING", "TERRAFORM_INIT_FAILED", "TERRAFORM_VALIDATE_RUNNING",
   "TERRAFORM_VALIDATE_FAILED", "TERRAFORM_VALIDATE_SUCCEEDED", "PLAN_RUNNING", "PLAN_FAILED",
   "SECURITY_SCAN_RUNNING", "SECURITY_SCAN_FAILED", "COST_ESTIMATE_RUNNING", "PENDING_APPROVAL",
   "APPROVED", "REJECTED", "APPLY_PRECHECK_RUNNING", "APPLY_READY", "APPLY_PRECHECK_FAILED", "APPLY_RUNNING",
   "APPLY_FAILED", "OUTPUTS_CAPTURE_RUNNING", "OUTPUTS_CAPTURE_FAILED", "OUTPUTS_CAPTURED",
   "POST_VALIDATION_RUNNING"}
  \cup PostPlanStatuses \cup OutcomeStatuses

Safe == Plans \ Destructive

\* What the security_scan evidence says.  "unparsed": Checkov answered
\* something that is not JSON, and tool_available stays true.  An empty answer
\* counts as "clean", whatever Checkov's exit code.
Scans == {"unavailable", "unparsed", "clean", "blocking", "critical"}

GateDecisions == {"READY_FOR_APPROVAL", "GATES_BLOCKED", "GATES_FAILED"}

RiskSummaries == [plan: Plans \cup {None}, scan: Scans \cup {None}]

\* gates-result.json, reduced to its decision and the plan it looked at.
GatesResults == [decision: GateDecisions, plan: Plans \cup {None}]

Files == {"planOut", "planJson", "risk", "gates"}

FileContents ==
  [planOut: Plans \cup {None}, planJson: Plans \cup {None, Garbage},
   risk: RiskSummaries \cup {None}, gates: GatesResults \cup {None}]

NoFiles == [planOut |-> None, planJson |-> None, risk |-> None, gates |-> None]

Approvals ==
  [decision: {"none", "PENDING", "APPROVED", "REJECTED"},
   sums: FileContents,            \* checksums of the reviewed artifacts
   plan: Plans \cup {None}]       \* plan_summary_snapshot_json

Executions ==
  [plan: Plans, json: Plans \cup {Garbage}, recorded: BOOLEAN]

\* Nothing that is there is mistaken for None.
ASSUME NoneAssumption ==
  None \notin RiskSummaries /\ None \notin GatesResults /\ None \notin Executions

CanCrash == "crash" \in Interruptions
CanRaise == "raise" \in Interruptions

\* What can be the newest of a kind of artifact once `new' is recorded.
Newest(old, new) == IF ManyShells /\ old # None THEN {old, new} ELSE {new}

Init ==
  /\ status = "DRAFT"
  /\ workspace = FALSE
  /\ disk = NoFiles
  /\ artifact = NoFiles
  /\ evidence = [plan |-> None, scan |-> None]
  /\ approval = [decision |-> "none", sums |-> NoFiles, plan |-> None]
  /\ lock = "free"
  /\ applied = None

-----------------------------------------------------------------------------
(* nb terraform validate, nb terraform plan *)

\* No status is refused: an approved or applied request is validated again, in
\* the same directory, and keeps its old plan files.  An exception while the
\* directory is prepared comes before the first status.
Validate ==
  /\ workspace' = TRUE
  /\ \/ status' \in {"TERRAFORM_INIT_FAILED", "TERRAFORM_VALIDATE_FAILED",
                     "TERRAFORM_VALIDATE_SUCCEEDED"}
     \/ CanRaise /\ status' \in {status, "TERRAFORM_INIT_RUNNING", "TERRAFORM_VALIDATE_RUNNING"}
  /\ UNCHANGED <<disk, artifact, evidence, approval, lock, applied>>

\* Mutant of Plannable: a request under review can be planned again.
PlannableUnderReview ==
  /\ status \in {"TERRAFORM_VALIDATE_SUCCEEDED", "READY_FOR_PLAN", "PLAN_READY"} \cup AwaitingStatuses
  /\ workspace

Plannable ==
  /\ status \in {"TERRAFORM_VALIDATE_SUCCEEDED", "READY_FOR_PLAN", "PLAN_READY"}
  /\ workspace

\* plan.out saved, and then plan.json written from show's stdout.
Saved(files, p) == [files EXCEPT !.planOut = p]
Shown(files, p, json) == [files EXCEPT !.planOut = p, !.planJson = json]

NewestPairs(p, json) == Newest(artifact.planOut, p) \X Newest(artifact.planJson, json)

\* Mutant of PlanRows: each row is stamped for itself, as if shells took turns
\* within a command.
PlanRowsApart(p, json) == {Shown(artifact, pair[1], pair[2]) : pair \in NewestPairs(p, json)}

\* The newest rows after plan records both.  They carry one time, so they are
\* both the newest or neither is, unless an exception left plan.out with a row
\* that has no plan.json beside it.
PlanRows(p, json) ==
  {Shown(artifact, pair[1], pair[2]) :
     pair \in {pair \in NewestPairs(p, json) :
                 CanRaise \/ pair \in {<<p, json>>, <<artifact.planOut, artifact.planJson>>}}}

\* terraform is missing, fails, or is killed at its timeout, which may be just
\* after it saved plan.out.
PlanFails(p) ==
  /\ Plannable
  /\ status' = "PLAN_FAILED"
  /\ disk' \in {disk, Saved(disk, p)}
  /\ UNCHANGED <<workspace, artifact, evidence, approval, lock, applied>>

PlanSucceeds(p) ==
  /\ Plannable
  /\ disk' = Shown(disk, p, p)
  /\ artifact' \in PlanRows(p, p)
  /\ evidence' = [evidence EXCEPT !.plan = p]
  /\ status' = "PLAN_READY"
  /\ UNCHANGED <<workspace, approval, lock, applied>>

\* plan.json takes show's stdout even when show fails; the evidence keeps the
\* summary of the plan before.
PlanShowFails(p) ==
  /\ Plannable
  /\ disk' = Shown(disk, p, Garbage)
  /\ artifact' \in PlanRows(p, Garbage)
  /\ status' = "PLAN_FAILED"
  /\ UNCHANGED <<workspace, evidence, approval, lock, applied>>

\* An exception between two steps of plan: before terraform has saved anything,
\* before or after plan.out is recorded, before or after plan.json is.
PlanOutRows(p) == {Saved(artifact, out) : out \in Newest(artifact.planOut, p)}

PlanRaises(p) ==
  /\ CanRaise
  /\ Plannable
  /\ status' = "PLAN_RUNNING"
  /\ \/ UNCHANGED <<disk, artifact>>
     \/ disk' = Saved(disk, p) /\ artifact' \in {artifact} \cup PlanOutRows(p)
     \/ \E json \in {p, Garbage} :
          /\ disk' = Shown(disk, p, json)
          /\ artifact' \in PlanOutRows(p) \cup PlanRows(p, json)
  /\ UNCHANGED <<workspace, evidence, approval, lock, applied>>

PlanCrashes(p) ==
  /\ CanCrash
  /\ Plannable
  /\ disk' \in {Saved(disk, p), Shown(disk, p, p), Shown(disk, p, Garbage)}
  /\ UNCHANGED <<rowVars, applied>>

-----------------------------------------------------------------------------
(* nb security scan, nb cost estimate, nb risk summary: no status is refused *)

ScanStatus(scan) ==
  CASE scan \in {"unavailable", "unparsed"} -> "SECURITY_SCAN_FAILED"
    [] scan \in {"blocking", "critical"}    -> "SECURITY_SCAN_BLOCKED"
    [] OTHER                                -> "SECURITY_SCAN_PASSED"

SecurityScan ==
  /\ workspace
  /\ \/ \E scan \in ScanResults :
          /\ status' = ScanStatus(scan)
          /\ evidence' = [evidence EXCEPT !.scan = scan]
     \/ CanRaise /\ status' = "SECURITY_SCAN_RUNNING" /\ UNCHANGED evidence
  /\ UNCHANGED <<workspace, disk, artifact, approval, lock, applied>>

\* The cost evidence only ever warns, so it is left out.
CostEstimate ==
  /\ workspace
  /\ \/ status' \in {"COST_ESTIMATE_READY", "COST_ESTIMATE_FAILED"}
     \/ CanRaise /\ status' = "COST_ESTIMATE_RUNNING"
  /\ UNCHANGED <<workspace, disk, artifact, evidence, approval, lock, applied>>

\* Built from plan.json as it is in the workspace now and from the last scan,
\* whichever plan that scan was made beside.
RiskSummaryNow == [plan |-> disk.planJson, scan |-> evidence.scan]

WithRisk == [disk EXCEPT !.risk = RiskSummaryNow]

RiskRows == {[artifact EXCEPT !.risk = risk] : risk \in Newest(artifact.risk, RiskSummaryNow)}

RiskSummarisable == workspace /\ disk.planJson # Garbage

RiskSummary ==
  /\ RiskSummarisable
  /\ disk' = WithRisk
  /\ artifact' \in RiskRows
  /\ status' = "RISK_SUMMARY_READY"
  /\ UNCHANGED <<workspace, evidence, approval, lock, applied>>

\* No RUNNING status: an exception leaves the status as it was.
RiskSummaryRaises ==
  /\ CanRaise
  /\ RiskSummarisable
  /\ disk' = WithRisk
  /\ artifact' \in {artifact} \cup RiskRows
  /\ UNCHANGED <<status, workspace, evidence, approval, lock, applied>>

RiskSummaryCrashes ==
  /\ CanCrash
  /\ RiskSummarisable
  /\ disk' = WithRisk
  /\ UNCHANGED <<rowVars, applied>>

-----------------------------------------------------------------------------
(* nb gates evaluate *)

PlanReadable == workspace /\ disk.planJson \in Plans

\* Mutants of GateBlocked: without the destructive-changes gate, and with a
\* security gate that knows critical findings only.
GateIgnoresDestruction ==
  \/ ~ApplyEnabled
  \/ ~PlanReadable
  \/ status \notin PostPlanStatuses
  \/ evidence.scan \in {None, "blocking", "critical"}

GateIgnoresBlocking ==
  \/ ~ApplyEnabled
  \/ ~PlanReadable
  \/ disk.planJson \in Destructive
  \/ status \notin PostPlanStatuses
  \/ evidence.scan \in {None, "critical"}

GateBlocked ==
  \/ ~ApplyEnabled
  \/ ~PlanReadable
  \/ disk.planJson \in Destructive
  \/ status \notin PostPlanStatuses
  \/ evidence.scan \in {None, "blocking", "critical"}

\* Mutant of GateDecision: the result's "status" is written for its "decision".
GateDecisionPassed == IF GateBlocked THEN "GATES_BLOCKED" ELSE "GATES_PASSED"

GateDecision ==
  CASE GateBlocked                                    -> "GATES_BLOCKED"
    [] ~GateBlocked /\ evidence.scan = "unavailable" -> "GATES_FAILED"
    [] OTHER                                          -> "READY_FOR_APPROVAL"

GatesResultNow ==
  [decision |-> GateDecision, plan |-> IF PlanReadable THEN disk.planJson ELSE None]

WithGates == [disk EXCEPT !.gates = GatesResultNow]
GatesRows == {[artifact EXCEPT !.gates = gates] : gates \in Newest(artifact.gates, GatesResultNow)}

\* No status is refused outright: whatever it was, the decision replaces it.
GatesEvaluate ==
  /\ status' = GateDecision
  /\ \/ /\ workspace
        /\ disk' = WithGates
        /\ artifact' \in GatesRows
     \/ ~workspace /\ UNCHANGED <<disk, artifact>>
  /\ UNCHANGED <<workspace, evidence, approval, lock, applied>>

\* The decision is written to the request before gates-result.json is written.
GatesRaise ==
  /\ CanRaise
  /\ \/ status' = "GATES_EVALUATING" /\ UNCHANGED disk
     \/ /\ workspace
        /\ status' = GateDecision
        /\ disk' \in {disk, WithGates}
  /\ UNCHANGED <<workspace, artifact, evidence, approval, lock, applied>>

GatesCrash ==
  /\ CanCrash
  /\ workspace
  /\ disk' = WithGates
  /\ UNCHANGED <<rowVars, applied>>

-----------------------------------------------------------------------------
(* nb approvals list and show, nb approve, nb reject *)

\* A request has at most one approval row: once it exists it is used again
\* for every later decision.
ListApprovals ==
  /\ status \in AwaitingStatuses
  /\ approval.decision = "none"
  /\ approval' = [approval EXCEPT !.decision = "PENDING"]
  /\ status' = "PENDING_APPROVAL"
  /\ UNCHANGED <<workspace, disk, artifact, evidence, lock, applied>>

Coalesce(a, b) == IF a # None THEN a ELSE b
PlanOf(file) == IF file = None THEN None ELSE file.plan
ScanOf(file) == IF file = None THEN None ELSE file.scan

\* Mutant of PlanSnapshot: the risk summary's plan before the evidence's.
PlanSnapshotRiskFirst ==
  Coalesce(PlanOf(artifact.risk), Coalesce(evidence.plan, PlanOf(artifact.gates)))

\* approval_snapshots
PlanSnapshot == Coalesce(evidence.plan, Coalesce(PlanOf(artifact.risk), PlanOf(artifact.gates)))
ScanSnapshot == Coalesce(evidence.scan, ScanOf(artifact.risk))

GatesBlockedIn(files) == files.gates # None /\ files.gates.decision = "GATES_BLOCKED"

ApprovedRow == [decision |-> "APPROVED", sums |-> artifact, plan |-> PlanSnapshot]

\* A rejection takes the same snapshots, which nothing reads: they are left out.
RejectedRow == [decision |-> "REJECTED", sums |-> NoFiles, plan |-> None]

Approvable ==
  /\ status \in AwaitingStatuses
  /\ artifact.planJson # None /\ artifact.risk # None /\ artifact.gates # None
  /\ ~GatesBlockedIn(artifact)
  /\ PlanSnapshot \notin Destructive
  /\ ScanSnapshot # "critical"

Approve ==
  /\ Approvable
  /\ approval' = ApprovedRow
  /\ status' = "APPROVED"
  /\ UNCHANGED <<workspace, disk, artifact, evidence, lock, applied>>

Reject ==
  /\ status \notin TerminalStatuses
  /\ approval' = RejectedRow
  /\ status' = "REJECTED"
  /\ UNCHANGED <<workspace, disk, artifact, evidence, lock, applied>>

-----------------------------------------------------------------------------
(* nb terraform apply *)

\* ApplyPrecheckService.run.  approval.expires_at is never set, so no approval
\* expires.
\* Mutants of Verified: one of the four checksums is not compared.
VerifiedButPlanOut(file) ==
  approval.sums[file] # None /\ (file = "planOut" \/ disk[file] = approval.sums[file])

VerifiedButGates(file) ==
  approval.sums[file] # None /\ (file = "gates" \/ disk[file] = approval.sums[file])

Verified(file) == approval.sums[file] # None /\ disk[file] = approval.sums[file]

PrecheckPasses ==
  /\ status = "APPROVED"
  /\ approval.decision = "APPROVED"
  /\ workspace
  /\ \A file \in Files : artifact[file] # None /\ Verified(file)
  /\ ~GatesBlockedIn(approval.sums)
  /\ approval.plan \notin Destructive

Execution(recorded) ==
  [plan |-> disk.planOut, json |-> disk.planJson, recorded |-> recorded]

\* A failed precheck or a lock in use; any status is replaced, an applied one too.
ApplyRefused ==
  /\ ~PrecheckPasses \/ lock = "active"
  /\ status' = "APPLY_PRECHECK_FAILED"
  /\ UNCHANGED <<workspace, disk, artifact, evidence, approval, lock, applied>>

\* terraform is not installed, or runs and fails or succeeds; then the lock is
\* released with the rest of the transaction.
Apply ==
  /\ PrecheckPasses
  /\ lock = "free"
  /\ lock' = "free"
  /\ \/ status' = "APPLY_FAILED" /\ UNCHANGED applied
     \/ /\ status' \in {"APPLY_FAILED", "OUTPUTS_CAPTURED", "OUTPUTS_CAPTURE_FAILED"}
        /\ applied' = Execution(TRUE)
  /\ UNCHANGED <<workspace, disk, artifact, evidence, approval>>

\* In the precheck; before, during or after terraform, with the lock held; or
\* while the outputs are captured.
ApplyRaises ==
  /\ CanRaise
  /\ \/ /\ status' \in {"APPLY_PRECHECK_RUNNING",
                        IF PrecheckPasses THEN "APPLY_READY" ELSE "APPLY_PRECHECK_FAILED"}
        /\ UNCHANGED <<lock, applied>>
     \/ /\ PrecheckPasses
        /\ lock = "free"
        /\ lock' = "active"
        /\ \/ status' = "APPLY_RUNNING" /\ applied' \in {applied, Execution(FALSE)}
           \/ status' = "OUTPUTS_CAPTURE_RUNNING" /\ applied' = Execution(TRUE)
  /\ UNCHANGED <<workspace, disk, artifact, evidence, approval>>

\* Precheck result, lock, status and apply record are flushed and not committed
\* while terraform runs, so the whole of it is rolled back.
ApplyCrashes ==
  /\ CanCrash
  /\ PrecheckPasses
  /\ lock = "free"
  /\ applied' = Execution(FALSE)
  /\ UNCHANGED <<rowVars, disk>>

\* LOCK_TTL_MINUTES pass: acquire reads a lock that has expired as no lock.
LockLapses ==
  /\ lock = "active"
  /\ lock' = "free"
  /\ UNCHANGED <<status, workspace, disk, artifact, evidence, approval, applied>>

-----------------------------------------------------------------------------
(* nb validate request, nb validate finding *)

\* The rescan commits on its way, so a crash leaves POST_VALIDATION_RUNNING.  An
\* exception is turned into an outcome by the service itself.
PostValidate ==
  /\ status \in {"APPLY_SUCCEEDED", "OUTPUTS_CAPTURED"}
  /\ workspace
  /\ \/ status' \in OutcomeStatuses
     \/ CanCrash /\ status' = "POST_VALIDATION_RUNNING"
  /\ UNCHANGED <<workspace, disk, artifact, evidence, approval, lock, applied>>

-----------------------------------------------------------------------------

PlanCommand ==
  \E p \in Plans :
    PlanFails(p) \/ PlanSucceeds(p) \/ PlanShowFails(p) \/ PlanRaises(p) \/ PlanCrashes(p)

EvidenceCommands ==
  \/ SecurityScan
  \/ CostEstimate
  \/ RiskSummary \/ RiskSummaryRaises \/ RiskSummaryCrashes
  \/ GatesEvaluate \/ GatesRaise \/ GatesCrash

ApprovalCommands == ListApprovals \/ Approve \/ Reject

ApplyCommand == ApplyRefused \/ Apply \/ ApplyRaises \/ ApplyCrashes

Next ==
  \/ Validate
  \/ PlanCommand
  \/ EvidenceCommands
  \/ ApprovalCommands
  \/ ApplyCommand
  \/ LockLapses
  \/ PostValidate

Spec == Init /\ [][Next]_vars

-----------------------------------------------------------------------------
(* Properties *)

TypeOK ==
  /\ status \in Statuses
  /\ workspace \in BOOLEAN
  /\ disk \in FileContents
  /\ artifact \in FileContents
  /\ evidence \in [plan: Plans \cup {None}, scan: Scans \cup {None}]
  /\ approval \in Approvals
  /\ lock \in {"free", "active"}
  /\ applied \in Executions \cup {None}

\* terraform apply has never run a plan that deletes or replaces something.  The
\* checks read plan.json and its summaries, and never plan.out, which is what is
\* applied.  (apply_precheck_service.py, policy_gates.py)
AppliedPlanIsSafe == applied # None => applied.plan \in Safe

\* What apply would run was earned: the gates passed the very plan.json in the
\* workspace, it deletes and replaces nothing, and plan.out was saved with it.
\* (apply_precheck_service.py, policy_gates.py, terraform_runner.py)
ClearanceIsEarned ==
  PrecheckPasses =>
    /\ disk.gates = [decision |-> "READY_FOR_APPROVAL", plan |-> disk.planJson]
    /\ disk.planJson \in Safe
    /\ disk.planOut = disk.planJson

\* The plan summary an approval shows is that of the plan whose checksum it
\* keeps.  (docs/approval-workflow.md:7)
SnapshotIsOfOnePlan ==
  status = "APPROVED" => approval.plan = approval.sums.planJson

\* Neither a critical nor a blocking finding of the last scan stands beside a
\* request that awaits its decision or has it.  (docs/checkov-integration.md:41,
\* docs/change-control-model.md:15)
FindingsPreventApproval ==
  status \in AwaitingStatuses \cup {"APPROVED"} => evidence.scan \notin {"critical", "blocking"}

\* The plan.json beside the applied plan.out was readable and safe when apply
\* ran, whatever was interrupted before.
AppliedReviewIsSafe == applied # None => applied.json \in Safe

\* Whatever terraform changed, the request has the apply record of it.
\* (docs/change-control-model.md:35)
AppliesAreRecorded == applied # None => applied.recorded

\* While a request waits for a decision or for apply, its plan.out and plan.json
\* stay as they are: nothing a command does, finished or interrupted, swaps the
\* plan under the reviewer.
PlanFrozenUnderReview ==
  [][LET Reviewed == AwaitingStatuses \cup {"APPROVED"}
     IN  status \in Reviewed /\ status' \in Reviewed
           => UNCHANGED <<disk.planOut, disk.planJson>>]_vars

\* What apply would run now, and what it ran last, for ChangeControl.
ClearedPlan == IF PrecheckPasses THEN disk.planOut ELSE None
AppliedPlan == IF applied = None THEN None ELSE applied.plan

Control == INSTANCE ChangeControl WITH cleared <- ClearedPlan, infra <- AppliedPlan

\* Every step of the request is a step ChangeControl allows, or changes nothing
\* of what it speaks of.
ImplementsChangeControl == Control!Spec
=============================================================================
