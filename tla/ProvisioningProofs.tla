------------------------- MODULE ProvisioningProofs -------------------------
(***************************************************************************)
(* What Provisioning promises for any set of plans, proved.                *)
(***************************************************************************)
EXTENDS Provisioning, TLAPS

-----------------------------------------------------------------------------
(* The operators *)

\* The gates decide one of three things.
LEMMA DecisionTyped == GateDecision \in GateDecisions
BY DEF GateDecision, GateDecisions

\* What gates evaluate writes to gates-result.json is a gates result.
LEMMA GatesResultTyped ==
  ASSUME TypeOK
  PROVE  GatesResultNow \in GatesResults
BY DecisionTyped DEF TypeOK, GatesResultNow, GatesResults, PlanReadable

\* What risk summary writes, where it can write, is a risk summary.
LEMMA RiskSummaryTyped ==
  ASSUME TypeOK, RiskSummarisable
  PROVE  RiskSummaryNow \in RiskSummaries
BY DEF TypeOK, FileContents, RiskSummarisable, RiskSummaryNow, RiskSummaries

\* The rows and the files each command leaves are of the type of the rows and
\* files there were.
LEMMA PlanRowsTyped ==
  ASSUME TypeOK, NEW p \in Plans, NEW json \in Plans \cup {Garbage}
  PROVE  /\ PlanRows(p, json) \subseteq FileContents
         /\ PlanOutRows(p) \subseteq FileContents
<1>1. Newest(artifact.planOut, p) \subseteq Plans \cup {None}
  BY DEF TypeOK, FileContents, Newest
<1>2. Newest(artifact.planJson, json) \subseteq Plans \cup {None, Garbage}
  BY DEF TypeOK, FileContents, Newest
<1>3. ASSUME NEW out \in Plans \cup {None}, NEW js \in Plans \cup {None, Garbage}
      PROVE  Shown(artifact, out, js) \in FileContents
  BY DEF TypeOK, FileContents, Shown
<1>4. ASSUME NEW out \in Plans \cup {None}
      PROVE  Saved(artifact, out) \in FileContents
  BY DEF TypeOK, FileContents, Saved
<1>5. ASSUME NEW pair \in NewestPairs(p, json)
      PROVE  Shown(artifact, pair[1], pair[2]) \in FileContents
  BY <1>1, <1>2, <1>3 DEF NewestPairs
<1>6. PlanRows(p, json) \subseteq FileContents
  BY <1>5 DEF PlanRows
<1>7. PlanOutRows(p) \subseteq FileContents
  BY <1>1, <1>4 DEF PlanOutRows
<1> QED
  BY <1>6, <1>7

\* The rows and files a risk summary leaves are rows and files.
LEMMA RiskRowsTyped ==
  ASSUME TypeOK, RiskSummarisable
  PROVE  /\ RiskRows \subseteq FileContents
         /\ WithRisk \in FileContents
<1>1. Newest(artifact.risk, RiskSummaryNow) \subseteq RiskSummaries \cup {None}
  BY RiskSummaryTyped DEF TypeOK, FileContents, Newest
<1> QED
  BY <1>1, RiskSummaryTyped DEF TypeOK, FileContents, RiskRows, WithRisk

\* The rows and files gates evaluate leaves are rows and files.
LEMMA GatesRowsTyped ==
  ASSUME TypeOK
  PROVE  /\ GatesRows \subseteq FileContents
         /\ WithGates \in FileContents
<1>1. Newest(artifact.gates, GatesResultNow) \subseteq GatesResults \cup {None}
  BY GatesResultTyped DEF TypeOK, FileContents, Newest
<1> QED
  BY <1>1, GatesResultTyped DEF TypeOK, FileContents, GatesRows, WithGates

\* The row approve writes is an approval.
LEMMA ApprovedRowTyped ==
  ASSUME TypeOK
  PROVE  ApprovedRow \in Approvals
<1>1. PlanOf(artifact.risk) \in Plans \cup {None}
  BY DEF TypeOK, FileContents, PlanOf, RiskSummaries
<1>2. PlanOf(artifact.gates) \in Plans \cup {None}
  BY DEF TypeOK, FileContents, PlanOf, GatesResults
<1>3. PlanSnapshot \in Plans \cup {None}
  BY <1>1, <1>2 DEF TypeOK, PlanSnapshot, Coalesce
<1> QED
  BY <1>3 DEF TypeOK, ApprovedRow, Approvals

\* A workspace without files is one.
LEMMA NoFilesTyped == NoFiles \in FileContents
BY DEF NoFiles, FileContents

\* What apply runs, both files being there, is an execution.
LEMMA ExecutionTyped ==
  ASSUME TypeOK, disk.planOut # None, disk.planJson # None, NEW recorded \in BOOLEAN
  PROVE  Execution(recorded) \in Executions
BY DEF TypeOK, FileContents, Execution, Executions

\* A passed precheck sees to that.
LEMMA PrecheckedExecutionTyped ==
  ASSUME TypeOK, PrecheckPasses, NEW recorded \in BOOLEAN
  PROVE  Execution(recorded) \in Executions
<1>1. /\ disk["planOut"] # None
      /\ disk["planJson"] # None
  BY DEF PrecheckPasses, Verified, Files
<1> QED
  BY <1>1, ExecutionTyped

-----------------------------------------------------------------------------
(* Types *)

\* A request is created well-typed.
LEMMA InitTyped == Init => TypeOK
<1> SUFFICES ASSUME Init
             PROVE  TypeOK
  OBVIOUS
<1>1. status \in Statuses /\ disk \in FileContents /\ artifact \in FileContents
  BY NoFilesTyped DEF Init, Statuses
<1>2. evidence \in [plan: Plans \cup {None}, scan: Scans \cup {None}]
  BY DEF Init
<1>3. approval \in Approvals
  BY NoFilesTyped DEF Init, Approvals
<1>4. workspace \in BOOLEAN
  BY DEF Init
<1> QED
  BY <1>1, <1>2, <1>3, <1>4 DEF Init, TypeOK

\* Every command, finished or interrupted, leaves the state well-typed.
LEMMA StepTyped == TypeOK /\ [Next]_vars => TypeOK'
<1> SUFFICES ASSUME TypeOK, [Next]_vars
             PROVE  TypeOK'
  OBVIOUS
<1>1. CASE Validate
  BY <1>1 DEF TypeOK, Validate, Statuses
<1>2. ASSUME NEW p \in Plans, PlanFails(p)
      PROVE  TypeOK'
  <2>1. Saved(disk, p) \in FileContents
    BY DEF TypeOK, FileContents, Saved
  <2> QED
    BY <1>2, <2>1 DEF TypeOK, PlanFails, Statuses
<1>3. ASSUME NEW p \in Plans, PlanSucceeds(p)
      PROVE  TypeOK'
  <2>1. Shown(disk, p, p) \in FileContents
    BY DEF TypeOK, FileContents, Shown
  <2> QED
    BY <1>3, <2>1, PlanRowsTyped DEF TypeOK, PlanSucceeds, Statuses, PostPlanStatuses
<1>4. ASSUME NEW p \in Plans, PlanShowFails(p)
      PROVE  TypeOK'
  <2>1. Shown(disk, p, Garbage) \in FileContents
    BY DEF TypeOK, FileContents, Shown
  <2> QED
    BY <1>4, <2>1, PlanRowsTyped DEF TypeOK, PlanShowFails, Statuses
<1>5. ASSUME NEW p \in Plans, PlanRaises(p)
      PROVE  TypeOK'
  <2>1. /\ Saved(disk, p) \in FileContents
        /\ \A json \in {p, Garbage} : Shown(disk, p, json) \in FileContents
    BY DEF TypeOK, FileContents, Saved, Shown
  <2>2. artifact' \in FileContents /\ disk' \in FileContents
    BY <1>5, <2>1, PlanRowsTyped DEF TypeOK, PlanRaises
  <2> QED
    BY <1>5, <2>2 DEF TypeOK, PlanRaises, Statuses
<1>6. ASSUME NEW p \in Plans, PlanCrashes(p)
      PROVE  TypeOK'
  <2>1. {Saved(disk, p), Shown(disk, p, p), Shown(disk, p, Garbage)} \subseteq FileContents
    BY DEF TypeOK, FileContents, Saved, Shown
  <2> QED
    BY <1>6, <2>1 DEF TypeOK, PlanCrashes, rowVars
<1>7. CASE SecurityScan
  <2>1. ScanResults \subseteq Scans
    BY ProvisioningAssumption DEF Scans
  <2>2. \A scan \in Scans : ScanStatus(scan) \in Statuses
    BY DEF ScanStatus, Statuses, PostPlanStatuses
  <2> QED
    BY <1>7, <2>1, <2>2 DEF TypeOK, SecurityScan, Statuses
<1>8. CASE CostEstimate
  BY <1>8 DEF TypeOK, CostEstimate, Statuses, PostPlanStatuses
<1>9. CASE RiskSummary \/ RiskSummaryRaises \/ RiskSummaryCrashes
  BY <1>9, RiskRowsTyped
     DEF TypeOK, RiskSummary, RiskSummaryRaises, RiskSummaryCrashes, rowVars, Statuses, PostPlanStatuses
<1>10. CASE GatesEvaluate \/ GatesRaise \/ GatesCrash
  <2>1. GateDecision \in Statuses
    BY DecisionTyped DEF GateDecisions, Statuses, PostPlanStatuses
  <2> QED
    BY <1>10, <2>1, GatesRowsTyped
       DEF TypeOK, GatesEvaluate, GatesRaise, GatesCrash, rowVars, Statuses, PostPlanStatuses
<1>11. CASE ListApprovals
  BY <1>11 DEF TypeOK, ListApprovals, Statuses, Approvals
<1>12. CASE Approve
  BY <1>12, ApprovedRowTyped DEF TypeOK, Approve, Statuses
<1>13. CASE Reject
  BY <1>13, NoFilesTyped DEF TypeOK, Reject, RejectedRow, Approvals, Statuses
<1>14. CASE ApplyRefused
  BY <1>14 DEF TypeOK, ApplyRefused, Statuses
<1>15. CASE Apply
  BY <1>15, PrecheckedExecutionTyped DEF TypeOK, Apply, Statuses
<1>16. CASE ApplyRaises
  BY <1>16, PrecheckedExecutionTyped DEF TypeOK, ApplyRaises, Statuses
<1>17. CASE ApplyCrashes
  BY <1>17, PrecheckedExecutionTyped DEF TypeOK, ApplyCrashes, rowVars
<1>18. CASE LockLapses
  BY <1>18 DEF TypeOK, LockLapses
<1>19. CASE PostValidate
  BY <1>19 DEF TypeOK, PostValidate, Statuses, OutcomeStatuses
<1>20. CASE UNCHANGED vars
  BY <1>20 DEF TypeOK, vars
<1> QED
  BY <1>1, <1>2, <1>3, <1>4, <1>5, <1>6, <1>7, <1>8, <1>9, <1>10, <1>11, <1>12, <1>13, <1>14,
     <1>15, <1>16, <1>17, <1>18, <1>19, <1>20
     DEF Next, PlanCommand, EvidenceCommands, ApprovalCommands, ApplyCommand

\* Every variable keeps its type, whatever is interrupted.
THEOREM TypeCorrect == Spec => []TypeOK
<1> QED
  BY InitTyped, StepTyped, PTL DEF Spec

-----------------------------------------------------------------------------
(* What every step keeps *)

Reviewed == AwaitingStatuses \cup {"APPROVED"}

\* The gates let a request into a Reviewed status for the plan.json and the scan
\* they read; both can only change in a step that leaves Reviewed.
ReviewedPlanIsSafe == status \in Reviewed => disk.planJson \in Safe
ReviewedScanIsAllowed == status \in Reviewed => evidence.scan \in {"clean", "unparsed"}

ReviewInv == TypeOK /\ ReviewedPlanIsSafe /\ ReviewedScanIsAllowed /\ AppliedReviewIsSafe

\* Of plan.out the gates know nothing: it is the pairing of the two rows, and
\* the checksums of both, that carry the verdict over to it.
PairedRows == artifact.planJson \in Plans => artifact.planOut = artifact.planJson

\* Gates that die after they wrote the file can only have blocked.
ReviewedGatesArePassed ==
  status \in Reviewed =>
    /\ disk.gates # None
    /\ disk.gates.plan = disk.planJson
    /\ disk.gates.decision \in {"READY_FOR_APPROVAL", "GATES_BLOCKED"}

ApprovalKeepsRows == status = "APPROVED" => approval.sums = artifact

ClearanceInv ==
  ReviewInv /\ PairedRows /\ ReviewedGatesArePassed /\ ApprovalKeepsRows /\ AppliedPlanIsSafe

\* What a decision of the gates says of what they read.
LEMMA GatesReadSafePlan ==
  ASSUME TypeOK, GateDecision = "READY_FOR_APPROVAL"
  PROVE  workspace /\ disk.planJson \in Safe /\ evidence.scan \in {"clean", "unparsed"}
<1>1. ~GateBlocked /\ evidence.scan # "unavailable"
  BY DEF GateDecision
<1>2. evidence.scan \in Scans \cup {None}
  BY DEF TypeOK
<1> QED
  BY <1>1, <1>2 DEF GateBlocked, PlanReadable, Safe, Scans

\* A request enters or stays in a Reviewed status in few ways.
LEMMA ReviewedSteps ==
  ASSUME TypeOK, [Next]_vars, status' \in Reviewed
  PROVE  \/ /\ status \in Reviewed
            /\ UNCHANGED <<disk.planOut, disk.planJson, evidence>>
         \/ /\ GateDecision = "READY_FOR_APPROVAL"
            /\ status' = "READY_FOR_APPROVAL"
            /\ UNCHANGED <<disk.planOut, disk.planJson, evidence>>
<1> DEFINE Kept == UNCHANGED <<disk.planOut, disk.planJson, evidence>>
<1> USE DEF Reviewed, AwaitingStatuses
<1>1. CASE Validate
  BY <1>1 DEF Validate
<1>2. ASSUME NEW p \in Plans,
             PlanFails(p) \/ PlanSucceeds(p) \/ PlanShowFails(p) \/ PlanRaises(p) \/ PlanCrashes(p)
      PROVE  FALSE
  BY <1>2 DEF PlanFails, PlanSucceeds, PlanShowFails, PlanRaises, PlanCrashes, rowVars, Plannable
<1>3. CASE SecurityScan \/ CostEstimate
  BY <1>3 DEF SecurityScan, CostEstimate, ScanStatus
<1>4. CASE RiskSummary \/ RiskSummaryRaises \/ RiskSummaryCrashes
  <2>1. WithRisk.planOut = disk.planOut /\ WithRisk.planJson = disk.planJson
    BY DEF WithRisk, TypeOK, FileContents
  <2> QED
    BY <1>4, <2>1 DEF RiskSummary, RiskSummaryRaises, RiskSummaryCrashes, rowVars
<1>5. CASE GatesEvaluate \/ GatesRaise \/ GatesCrash
  <2>1. WithGates.planOut = disk.planOut /\ WithGates.planJson = disk.planJson
    BY DEF WithGates, TypeOK, FileContents
  <2>2. GateDecision \in Reviewed => GateDecision = "READY_FOR_APPROVAL"
    BY DecisionTyped DEF GateDecisions
  <2>3. CASE GatesCrash
    BY <2>1, <2>3 DEF GatesCrash, rowVars
  <2>4. CASE GatesEvaluate \/ GatesRaise
    BY <2>1, <2>2, <2>4 DEF GatesEvaluate, GatesRaise
  <2> QED
    BY <1>5, <2>3, <2>4
<1>6. CASE ListApprovals \/ Approve \/ Reject
  BY <1>6 DEF ListApprovals, Approve, Approvable, Reject
<1>7. CASE ApplyRefused \/ Apply \/ ApplyRaises \/ ApplyCrashes
  BY <1>7 DEF ApplyRefused, Apply, ApplyRaises, ApplyCrashes, rowVars
<1>8. CASE LockLapses \/ PostValidate \/ UNCHANGED vars
  BY <1>8 DEF LockLapses, PostValidate, OutcomeStatuses, vars
<1> QED
  BY <1>1, <1>2, <1>3, <1>4, <1>5, <1>6, <1>7, <1>8
     DEF Next, PlanCommand, EvidenceCommands, ApprovalCommands, ApplyCommand

\* What a step can add to the history of applies.
LEMMA AppliedSteps ==
  ASSUME [Next]_vars, applied' # applied
  PROVE  /\ PrecheckPasses
         /\ \E recorded \in BOOLEAN : applied' = Execution(recorded)
<1>1. ASSUME NEW p \in Plans,
             PlanFails(p) \/ PlanSucceeds(p) \/ PlanShowFails(p) \/ PlanRaises(p) \/ PlanCrashes(p)
      PROVE  applied' = applied
  BY <1>1 DEF PlanFails, PlanSucceeds, PlanShowFails, PlanRaises, PlanCrashes
<1>2. CASE EvidenceCommands
  BY <1>2 DEF EvidenceCommands, SecurityScan, CostEstimate, RiskSummary, RiskSummaryRaises,
     RiskSummaryCrashes, GatesEvaluate, GatesRaise, GatesCrash
<1>3. CASE Validate \/ ApprovalCommands \/ LockLapses \/ PostValidate \/ UNCHANGED vars
  BY <1>3 DEF Validate, ApprovalCommands, ListApprovals, Approve, Reject, LockLapses, PostValidate, vars
<1>4. CASE ApplyCommand
  BY <1>4 DEF ApplyCommand, ApplyRefused, Apply, ApplyRaises, ApplyCrashes
<1> QED
  BY <1>1, <1>2, <1>3, <1>4 DEF Next, PlanCommand

\* A new request is not under review and was not applied.
LEMMA ReviewInit == Init => ReviewInv
BY InitTyped
   DEF Init, ReviewInv, ReviewedPlanIsSafe, ReviewedScanIsAllowed, AppliedReviewIsSafe, Reviewed, AwaitingStatuses

\* Every step keeps what a review rests on, whatever is interrupted.
LEMMA ReviewStep == ReviewInv /\ [Next]_vars => ReviewInv'
<1> SUFFICES ASSUME ReviewInv, [Next]_vars
             PROVE  ReviewInv'
  OBVIOUS
<1>1. TypeOK /\ TypeOK'
  BY StepTyped DEF ReviewInv
<1>2. ReviewedPlanIsSafe'
  BY <1>1, ReviewedSteps, GatesReadSafePlan DEF ReviewInv, ReviewedPlanIsSafe, Safe
<1>3. ReviewedScanIsAllowed'
  BY <1>1, ReviewedSteps, GatesReadSafePlan DEF ReviewInv, ReviewedScanIsAllowed
<1>4. AppliedReviewIsSafe'
  <2>1. CASE applied' = applied
    BY <2>1 DEF ReviewInv, AppliedReviewIsSafe, Safe
  <2>2. CASE applied' # applied
    <3>1. PICK recorded \in BOOLEAN : applied' = Execution(recorded)
      BY <2>2, AppliedSteps
    <3>2. disk.planJson \in Safe
      BY <2>2, AppliedSteps DEF PrecheckPasses, ReviewInv, ReviewedPlanIsSafe, Reviewed
    <3> QED
      BY <3>1, <3>2 DEF Execution, AppliedReviewIsSafe, Safe
  <2> QED
    BY <2>1, <2>2
<1> QED
  BY <1>1, <1>2, <1>3, <1>4 DEF ReviewInv

\* Whatever is interrupted, the plan.json beside an applied plan.out was safe.
THEOREM AppliedReviewSafe == Spec => []AppliedReviewIsSafe
<1>1. ReviewInv => AppliedReviewIsSafe
  BY DEF ReviewInv
<1> QED
  BY <1>1, ReviewInit, ReviewStep, PTL DEF Spec

\* Whatever is interrupted, a request beside a critical or a blocking finding
\* is not under review.
THEOREM FindingsAlwaysPreventApproval == Spec => []FindingsPreventApproval
<1>1. ReviewInv => FindingsPreventApproval
  BY DEF ReviewInv, ReviewedScanIsAllowed, FindingsPreventApproval, Reviewed
<1> QED
  BY <1>1, ReviewInit, ReviewStep, PTL DEF Spec

\* Whatever is interrupted, no step of a request under review changes its plan.
THEOREM PlanStaysFrozen == Spec => PlanFrozenUnderReview
<1>1. TypeOK /\ [Next]_vars =>
        [LET Under == AwaitingStatuses \cup {"APPROVED"}
         IN  status \in Under /\ status' \in Under
               => UNCHANGED <<disk.planOut, disk.planJson>>]_vars
  BY ReviewedSteps DEF Reviewed
<1> QED
  BY <1>1, TypeCorrect, PTL DEF Spec, PlanFrozenUnderReview

-----------------------------------------------------------------------------
(* Without exceptions half way through a command *)

\* A clearance is earned in every state of the invariant.
LEMMA ClearanceFollows == ClearanceInv => ClearanceIsEarned
<1> SUFFICES ASSUME ClearanceInv, PrecheckPasses
             PROVE  /\ disk.gates = [decision |-> "READY_FOR_APPROVAL", plan |-> disk.planJson]
                    /\ disk.planJson \in Safe
                    /\ disk.planOut = disk.planJson
  BY DEF ClearanceIsEarned
<1>1. status = "APPROVED" /\ status \in Reviewed
  BY DEF PrecheckPasses, Reviewed
<1>2. disk.planJson \in Safe
  BY <1>1 DEF ClearanceInv, ReviewInv, ReviewedPlanIsSafe
<1>3. /\ disk["planOut"] = artifact["planOut"]
      /\ disk["planJson"] = artifact["planJson"]
      /\ disk["gates"] = approval.sums["gates"]
  BY <1>1 DEF ClearanceInv, ApprovalKeepsRows, PrecheckPasses, Verified, Files
<1>4. disk.planOut = disk.planJson
  BY <1>2, <1>3 DEF ClearanceInv, PairedRows, Safe
<1>5. disk.gates.decision # "GATES_BLOCKED" /\ disk.gates # None
  BY <1>1, <1>3 DEF PrecheckPasses, GatesBlockedIn, ClearanceInv, ReviewedGatesArePassed
<1>6. disk.gates \in GatesResults
  BY <1>5 DEF ClearanceInv, ReviewInv, TypeOK, FileContents
<1>7. disk.gates.decision = "READY_FOR_APPROVAL" /\ disk.gates.plan = disk.planJson
  BY <1>1, <1>5 DEF ClearanceInv, ReviewedGatesArePassed
<1>8. disk.gates = [decision |-> "READY_FOR_APPROVAL", plan |-> disk.planJson]
  BY <1>6, <1>7 DEF GatesResults
<1> QED
  BY <1>2, <1>4, <1>8

\* A plan that no exception cuts short records plan.out and plan.json together.
LEMMA PairedRowsStep ==
  ASSUME "raise" \notin Interruptions, TypeOK, PairedRows, [Next]_vars
  PROVE  PairedRows'
<1>1. ASSUME NEW p \in Plans, NEW json \in {p, Garbage}, artifact' \in PlanRows(p, json)
      PROVE  PairedRows'
  <2>1. PICK pair \in NewestPairs(p, json) :
          /\ artifact' = Shown(artifact, pair[1], pair[2])
          /\ pair \in {<<p, json>>, <<artifact.planOut, artifact.planJson>>}
    BY <1>1 DEF PlanRows, CanRaise
  <2>2. artifact'.planOut = pair[1] /\ artifact'.planJson = pair[2]
    BY <2>1 DEF Shown, TypeOK, FileContents
  <2> QED
    BY <2>1, <2>2, ProvisioningAssumption DEF PairedRows
<1>2. ASSUME artifact'.planOut = artifact.planOut, artifact'.planJson = artifact.planJson
      PROVE  PairedRows'
  BY <1>2 DEF PairedRows
<1>3. ASSUME NEW p \in Plans,
             PlanFails(p) \/ PlanSucceeds(p) \/ PlanShowFails(p) \/ PlanRaises(p) \/ PlanCrashes(p)
      PROVE  PairedRows'
  <2>1. CASE PlanSucceeds(p) \/ PlanShowFails(p)
    BY <1>1, <2>1 DEF PlanSucceeds, PlanShowFails
  <2>2. CASE PlanFails(p) \/ PlanRaises(p) \/ PlanCrashes(p)
    BY <1>2, <2>2 DEF PlanFails, PlanRaises, PlanCrashes, CanRaise, rowVars
  <2> QED
    BY <1>3, <2>1, <2>2
<1>4. CASE RiskSummary \/ RiskSummaryRaises \/ RiskSummaryCrashes
  <2>1. \A rows \in RiskRows : rows.planOut = artifact.planOut /\ rows.planJson = artifact.planJson
    BY DEF RiskRows, TypeOK, FileContents
  <2> QED
    BY <1>2, <1>4, <2>1 DEF RiskSummary, RiskSummaryRaises, RiskSummaryCrashes, rowVars
<1>5. CASE GatesEvaluate \/ GatesRaise \/ GatesCrash
  <2>1. \A rows \in GatesRows : rows.planOut = artifact.planOut /\ rows.planJson = artifact.planJson
    BY DEF GatesRows, TypeOK, FileContents
  <2> QED
    BY <1>2, <1>5, <2>1 DEF GatesEvaluate, GatesRaise, GatesCrash, rowVars
<1>6. CASE Validate \/ SecurityScan \/ CostEstimate \/ ApprovalCommands
  BY <1>2, <1>6
     DEF Validate, SecurityScan, CostEstimate, ApprovalCommands, ListApprovals, Approve, Reject
<1>7. CASE ApplyCommand \/ LockLapses \/ PostValidate \/ UNCHANGED vars
  BY <1>2, <1>7
     DEF ApplyCommand, ApplyRefused, Apply, ApplyRaises, ApplyCrashes, LockLapses, PostValidate, rowVars, vars
<1> QED
  BY <1>3, <1>4, <1>5, <1>6, <1>7 DEF Next, PlanCommand, EvidenceCommands

\* The gates file of a request under review was written for its plan.json.
LEMMA GatesWriteVerdict ==
  ASSUME TypeOK, workspace, disk.planJson \in Safe, evidence.scan # "unavailable"
  PROVE  /\ WithGates.planJson = disk.planJson
         /\ WithGates.gates # None
         /\ WithGates.gates.plan = disk.planJson
         /\ WithGates.gates.decision \in {"READY_FOR_APPROVAL", "GATES_BLOCKED"}
<1>1. GateDecision \in {"READY_FOR_APPROVAL", "GATES_BLOCKED"}
  BY DEF GateDecision
<1>2. PlanReadable
  BY DEF PlanReadable, Safe
<1>3. GatesResultNow = [decision |-> GateDecision, plan |-> disk.planJson]
  BY <1>2 DEF GatesResultNow
<1>4. WithGates.gates = GatesResultNow /\ WithGates.planJson = disk.planJson
  BY DEF WithGates, TypeOK, FileContents
<1>5. GatesResultNow # None
  BY GatesResultTyped, NoneAssumption
<1> QED
  BY <1>1, <1>3, <1>4, <1>5

\* A request under review keeps the gates result that let it in.
LEMMA ReviewedGatesStep ==
  ASSUME "raise" \notin Interruptions, ReviewInv, ReviewedGatesArePassed, [Next]_vars
  PROVE  ReviewedGatesArePassed'
<1> SUFFICES ASSUME status' \in Reviewed
             PROVE  /\ disk'.gates # None
                    /\ disk'.gates.plan = disk'.planJson
                    /\ disk'.gates.decision \in {"READY_FOR_APPROVAL", "GATES_BLOCKED"}
  BY DEF ReviewedGatesArePassed
<1>1. TypeOK
  BY DEF ReviewInv
<1>2. \/ status \in Reviewed /\ disk'.planJson = disk.planJson
      \/ GateDecision = "READY_FOR_APPROVAL" /\ status' = "READY_FOR_APPROVAL" /\ disk'.planJson = disk.planJson
  BY <1>1, ReviewedSteps
<1>3. disk.planJson \in Safe /\ evidence.scan # "unavailable"
  BY <1>1, <1>2, GatesReadSafePlan DEF ReviewInv, ReviewedPlanIsSafe, ReviewedScanIsAllowed
<1>4. ASSUME workspace, disk' = WithGates
      PROVE  /\ disk'.gates # None
             /\ disk'.gates.plan = disk'.planJson
             /\ disk'.gates.decision \in {"READY_FOR_APPROVAL", "GATES_BLOCKED"}
  BY <1>1, <1>3, <1>4, GatesWriteVerdict
<1>5. CASE disk'.gates = disk.gates /\ status \in Reviewed
  BY <1>2, <1>5 DEF ReviewedGatesArePassed
<1>6. CASE GatesEvaluate
  <2>1. CASE workspace
    BY <1>4, <1>6, <2>1 DEF GatesEvaluate
  <2>2. CASE ~workspace
    <3>1. GateDecision # "READY_FOR_APPROVAL"
      BY <1>1, <2>2, GatesReadSafePlan
    <3>2. status' \notin Reviewed
      BY <1>6, <3>1, DecisionTyped DEF GatesEvaluate, GateDecisions, Reviewed, AwaitingStatuses
    <3> QED
      BY <3>2
  <2> QED
    BY <2>1, <2>2
<1>7. CASE GatesCrash
  BY <1>4, <1>7 DEF GatesCrash
<1>8. CASE GatesRaise
  BY <1>8 DEF GatesRaise, CanRaise
<1>9. ASSUME disk'.gates = disk.gates, ~GatesEvaluate, ~GatesRaise
      PROVE  status \in Reviewed
  <2> USE DEF Reviewed, AwaitingStatuses
  <2>1. ASSUME NEW p \in Plans,
               PlanFails(p) \/ PlanSucceeds(p) \/ PlanShowFails(p) \/ PlanRaises(p) \/ PlanCrashes(p)
        PROVE  FALSE
    BY <2>1 DEF PlanFails, PlanSucceeds, PlanShowFails, PlanRaises, PlanCrashes, rowVars, Plannable
  <2>2. CASE EvidenceCommands
    BY <1>9, <2>2 DEF EvidenceCommands, SecurityScan, ScanStatus, CostEstimate, RiskSummary,
       RiskSummaryRaises, RiskSummaryCrashes, GatesCrash, rowVars
  <2>3. CASE Validate \/ ApprovalCommands \/ LockLapses \/ PostValidate \/ UNCHANGED vars
    BY <2>3 DEF Validate, ApprovalCommands, ListApprovals, Approve, Approvable, Reject, LockLapses,
       PostValidate, OutcomeStatuses, vars
  <2>4. CASE ApplyCommand
    BY <2>4 DEF ApplyCommand, ApplyRefused, Apply, ApplyRaises, ApplyCrashes, rowVars
  <2> QED
    BY <2>1, <2>2, <2>3, <2>4 DEF Next, PlanCommand
<1>10. CASE disk'.gates # disk.gates /\ ~GatesEvaluate /\ ~GatesCrash /\ ~GatesRaise
  <2>1. ASSUME NEW p \in Plans,
               PlanFails(p) \/ PlanSucceeds(p) \/ PlanShowFails(p) \/ PlanRaises(p) \/ PlanCrashes(p)
        PROVE  FALSE
    BY <2>1 DEF PlanFails, PlanSucceeds, PlanShowFails, PlanRaises, PlanCrashes, rowVars, Plannable,
       Reviewed, AwaitingStatuses
  <2>2. CASE EvidenceCommands
    <3>1. WithRisk.gates = disk.gates
      BY <1>1 DEF WithRisk, TypeOK, FileContents
    <3> QED
      BY <1>10, <2>2, <3>1 DEF EvidenceCommands, SecurityScan, CostEstimate, RiskSummary,
         RiskSummaryRaises, RiskSummaryCrashes
  <2>3. CASE Validate \/ ApprovalCommands \/ LockLapses \/ PostValidate \/ UNCHANGED vars
    BY <1>10, <2>3 DEF Validate, ApprovalCommands, ListApprovals, Approve, Reject, LockLapses,
       PostValidate, vars
  <2>4. CASE ApplyCommand
    BY <1>10, <2>4 DEF ApplyCommand, ApplyRefused, Apply, ApplyRaises, ApplyCrashes
  <2> QED
    BY <2>1, <2>2, <2>3, <2>4 DEF Next, PlanCommand
<1> QED
  BY <1>5, <1>6, <1>7, <1>8, <1>9, <1>10

\* No command records an artifact of a request and leaves it approved.
LEMMA ApprovalKeepsRowsStep ==
  ASSUME "raise" \notin Interruptions, TypeOK, ApprovalKeepsRows, [Next]_vars
  PROVE  ApprovalKeepsRows'
<1> SUFFICES ASSUME status' = "APPROVED"
             PROVE  approval'.sums = artifact'
  BY DEF ApprovalKeepsRows
<1>1. CASE Approve
  BY <1>1 DEF Approve, ApprovedRow
<1>2. CASE ~Approve
  <2>1. ASSUME NEW p \in Plans,
               PlanFails(p) \/ PlanSucceeds(p) \/ PlanShowFails(p) \/ PlanRaises(p) \/ PlanCrashes(p)
        PROVE  FALSE
    BY <2>1 DEF PlanFails, PlanSucceeds, PlanShowFails, PlanRaises, PlanCrashes, rowVars, Plannable
  <2>2. CASE EvidenceCommands
    BY <2>2, DecisionTyped DEF EvidenceCommands, SecurityScan, ScanStatus, CostEstimate, RiskSummary,
       RiskSummaryRaises, RiskSummaryCrashes, GatesEvaluate, GatesRaise, GatesCrash, GateDecisions,
       CanRaise, rowVars, ApprovalKeepsRows
  <2>3. CASE Validate \/ ApprovalCommands \/ LockLapses \/ PostValidate \/ UNCHANGED vars
    BY <1>2, <2>3 DEF Validate, ApprovalCommands, ListApprovals, Reject, LockLapses,
       PostValidate, OutcomeStatuses, vars, ApprovalKeepsRows
  <2>4. CASE ApplyCommand
    BY <2>4 DEF ApplyCommand, ApplyRefused, Apply, ApplyRaises, ApplyCrashes, rowVars, ApprovalKeepsRows
  <2> QED
    BY <2>1, <2>2, <2>3, <2>4 DEF Next, PlanCommand
<1> QED
  BY <1>1, <1>2

\* A new request has no clearance.
LEMMA ClearanceInit == Init => ClearanceInv
<1> SUFFICES ASSUME Init
             PROVE  ClearanceInv
  OBVIOUS
<1>1. artifact.planJson = None /\ status = "DRAFT" /\ applied = None
  BY DEF Init, NoFiles
<1> QED
  BY <1>1, ReviewInit, ProvisioningAssumption
     DEF ClearanceInv, PairedRows, ReviewedGatesArePassed, ApprovalKeepsRows, AppliedPlanIsSafe,
         Reviewed, AwaitingStatuses

\* Without exceptions half way, every step keeps what a clearance rests on.
LEMMA ClearanceStep ==
  ASSUME "raise" \notin Interruptions
  PROVE  ClearanceInv /\ [Next]_vars => ClearanceInv'
<1> SUFFICES ASSUME ClearanceInv, [Next]_vars
             PROVE  ClearanceInv'
  OBVIOUS
<1>1. ReviewInv /\ TypeOK
  BY DEF ClearanceInv, ReviewInv
<1>2. ReviewInv'
  BY <1>1, ReviewStep
<1>3. PairedRows'
  BY <1>1, PairedRowsStep DEF ClearanceInv
<1>4. ReviewedGatesArePassed'
  BY <1>1, ReviewedGatesStep DEF ClearanceInv
<1>5. ApprovalKeepsRows'
  BY <1>1, ApprovalKeepsRowsStep DEF ClearanceInv
<1>6. AppliedPlanIsSafe'
  <2>1. CASE applied' = applied
    BY <2>1 DEF ClearanceInv, AppliedPlanIsSafe, Safe
  <2>2. CASE applied' # applied
    <3>1. PICK recorded \in BOOLEAN : applied' = Execution(recorded)
      BY <2>2, AppliedSteps
    <3>2. disk.planOut \in Safe
      BY <2>2, AppliedSteps, ClearanceFollows DEF ClearanceIsEarned
    <3> QED
      BY <3>1, <3>2 DEF Execution, AppliedPlanIsSafe, Safe
  <2> QED
    BY <2>1, <2>2
<1> QED
  BY <1>2, <1>3, <1>4, <1>5, <1>6 DEF ClearanceInv

\* Where no command is left half done by an exception, terraform apply never
\* runs a plan that deletes or replaces something.
THEOREM AppliedPlanSafe ==
  ASSUME "raise" \notin Interruptions
  PROVE  Spec => []AppliedPlanIsSafe
<1>1. ClearanceInv => AppliedPlanIsSafe
  BY DEF ClearanceInv
<1> QED
  BY <1>1, ClearanceInit, ClearanceStep, PTL DEF Spec

\* Under the same assumption, what apply would run has always been earned.
THEOREM ClearanceEarned ==
  ASSUME "raise" \notin Interruptions
  PROVE  Spec => []ClearanceIsEarned
<1> QED
  BY ClearanceFollows, ClearanceInit, ClearanceStep, PTL DEF Spec

-----------------------------------------------------------------------------
(* What an approval shows, where one shell is used and nothing is interrupted *)

\* The plan.json in the workspace is the one recorded last.
FilesAreRecorded == disk.planJson = artifact.planJson

\* The evidence is that of the plan.json recorded last, unless show failed.
EvidenceFollowsPlan == artifact.planJson \in Plans => evidence.plan = artifact.planJson

AwaitedIsReadable == status \in AwaitingStatuses => artifact.planJson \in Plans

SnapshotInv ==
  TypeOK /\ FilesAreRecorded /\ EvidenceFollowsPlan /\ AwaitedIsReadable /\ SnapshotIsOfOnePlan

LEMMA SnapshotInit == Init => SnapshotInv
BY InitTyped, ProvisioningAssumption
   DEF Init, SnapshotInv, FilesAreRecorded, EvidenceFollowsPlan, AwaitedIsReadable, SnapshotIsOfOnePlan,
       AwaitingStatuses, NoFiles

\* A plan that nothing interrupts leaves its rows, its files and its evidence together.
LEMMA PlanKeepsSnapshot ==
  ASSUME SnapshotInv, ManyShells = FALSE, Interruptions = {}, TypeOK', NEW p \in Plans,
         PlanFails(p) \/ PlanSucceeds(p) \/ PlanShowFails(p)
  PROVE  SnapshotInv'
<1> USE DEF SnapshotInv, FilesAreRecorded, EvidenceFollowsPlan, AwaitedIsReadable, SnapshotIsOfOnePlan
<1>1. status' \notin AwaitingStatuses /\ status' # "APPROVED"
  BY DEF PlanFails, PlanSucceeds, PlanShowFails, AwaitingStatuses
<1>2. \A json : PlanRows(p, json) \subseteq {Shown(artifact, p, json)}
  BY DEF PlanRows, NewestPairs, Newest
<1>3. \A json : Shown(artifact, p, json).planJson = json /\ Shown(disk, p, json).planJson = json
  BY DEF TypeOK, FileContents, Shown
<1>4. CASE PlanFails(p)
  <2>1. Saved(disk, p).planJson = disk.planJson
    BY DEF TypeOK, FileContents, Saved
  <2> QED BY <1>1, <1>4, <2>1 DEF PlanFails
<1>5. CASE PlanSucceeds(p)
  <2>1. artifact' = Shown(artifact, p, p) /\ disk' = Shown(disk, p, p) /\ evidence' = [evidence EXCEPT !.plan = p]
    BY <1>2, <1>5 DEF PlanSucceeds
  <2>2. evidence'.plan = p
    BY <2>1 DEF TypeOK
  <2> QED BY <1>1, <1>3, <2>1, <2>2
<1>6. CASE PlanShowFails(p)
  <2>1. artifact' = Shown(artifact, p, Garbage) /\ disk' = Shown(disk, p, Garbage)
    BY <1>2, <1>6 DEF PlanShowFails
  <2> QED BY <1>1, <1>3, <2>1, ProvisioningAssumption
<1> QED BY <1>4, <1>5, <1>6

\* Nor do the commands that gather evidence touch plan.json, and the gates pass only one
\* they can read.
LEMMA EvidenceKeepsSnapshot ==
  ASSUME SnapshotInv, ManyShells = FALSE, Interruptions = {}, TypeOK', EvidenceCommands
  PROVE  SnapshotInv'
<1> USE DEF SnapshotInv, FilesAreRecorded, EvidenceFollowsPlan, AwaitedIsReadable, SnapshotIsOfOnePlan
<1>1. ~CanRaise /\ ~CanCrash
  BY DEF CanRaise, CanCrash
<1>2. CASE SecurityScan \/ CostEstimate
  <2>1. disk' = disk /\ artifact' = artifact /\ evidence'.plan = evidence.plan
    BY <1>2 DEF SecurityScan, CostEstimate, TypeOK
  <2>2. status' \notin AwaitingStatuses /\ status' # "APPROVED"
    BY <1>1, <1>2 DEF SecurityScan, CostEstimate, ScanStatus, AwaitingStatuses
  <2> QED BY <2>1, <2>2
<1>3. CASE RiskSummary
  <2>1. PICK risk : artifact' = [artifact EXCEPT !.risk = risk]
    BY <1>3 DEF RiskSummary, RiskRows
  <2>2. artifact'.planJson = artifact.planJson /\ disk'.planJson = disk.planJson
    BY <1>3, <2>1 DEF RiskSummary, WithRisk, TypeOK, FileContents
  <2>3. evidence' = evidence /\ status' = "RISK_SUMMARY_READY"
    BY <1>3 DEF RiskSummary
  <2> QED BY <2>2, <2>3 DEF AwaitingStatuses
<1>4. CASE GatesEvaluate
  <2>1. \/ artifact' = artifact
        \/ \E gates : artifact' = [artifact EXCEPT !.gates = gates]
    BY <1>4 DEF GatesEvaluate, GatesRows
  <2>2. artifact'.planJson = artifact.planJson /\ disk'.planJson = disk.planJson
    BY <1>4, <2>1 DEF GatesEvaluate, WithGates, TypeOK, FileContents
  <2>3. evidence' = evidence /\ status' = GateDecision
    BY <1>4 DEF GatesEvaluate
  <2>4. status' # "APPROVED" /\ (status' \in AwaitingStatuses => GateDecision = "READY_FOR_APPROVAL")
    BY <2>3, DecisionTyped DEF GateDecisions, AwaitingStatuses
  <2> QED BY <2>2, <2>3, <2>4, GatesReadSafePlan DEF Safe
<1> QED
  BY <1>1, <1>2, <1>3, <1>4
  DEF EvidenceCommands, RiskSummaryRaises, RiskSummaryCrashes, GatesRaise, GatesCrash

\* An approval takes its snapshot from the evidence of the plan it keeps the checksum of.
LEMMA ApproveTakesOnePlan ==
  ASSUME SnapshotInv, TypeOK', Approve
  PROVE  SnapshotInv'
<1> USE DEF SnapshotInv, FilesAreRecorded, EvidenceFollowsPlan, AwaitedIsReadable, SnapshotIsOfOnePlan
<1>1. disk' = disk /\ artifact' = artifact /\ evidence' = evidence /\ status' = "APPROVED"
  BY DEF Approve
<1>2. artifact.planJson \in Plans /\ evidence.plan = artifact.planJson /\ evidence.plan # None
  BY ProvisioningAssumption DEF Approve, Approvable
<1>3. PlanSnapshot = artifact.planJson
  BY <1>2 DEF PlanSnapshot, Coalesce
<1>4. approval'.plan = PlanSnapshot /\ approval'.sums = artifact
  BY DEF Approve, ApprovedRow
<1> QED BY <1>1, <1>3, <1>4 DEF AwaitingStatuses

LEMMA SnapshotStep ==
  ASSUME ManyShells = FALSE, Interruptions = {}, SnapshotInv, [Next]_vars
  PROVE  SnapshotInv'
<1>1. TypeOK'
  BY StepTyped DEF SnapshotInv
<1>2. ~CanRaise /\ ~CanCrash
  BY DEF CanRaise, CanCrash
<1>3. ASSUME UNCHANGED <<disk, artifact, evidence>>,
             \/ status' \notin AwaitingStatuses /\ status' # "APPROVED"
             \/ status' \in AwaitingStatuses /\ status \in AwaitingStatuses
             \/ UNCHANGED <<status, approval>>
      PROVE  SnapshotInv'
  BY <1>1, <1>3
  DEF SnapshotInv, FilesAreRecorded, EvidenceFollowsPlan, AwaitedIsReadable, SnapshotIsOfOnePlan, AwaitingStatuses
<1>4. CASE Validate
  BY <1>2, <1>3, <1>4 DEF Validate, AwaitingStatuses
<1>5. CASE PlanCommand
  BY <1>1, <1>2, <1>5, PlanKeepsSnapshot DEF PlanCommand, PlanRaises, PlanCrashes
<1>6. CASE EvidenceCommands
  BY <1>1, <1>6, EvidenceKeepsSnapshot
<1>7. CASE Approve
  BY <1>1, <1>7, ApproveTakesOnePlan
<1>8. CASE ListApprovals \/ Reject
  BY <1>3, <1>8 DEF ListApprovals, Reject, AwaitingStatuses
<1>9. CASE ApplyCommand
  BY <1>2, <1>3, <1>9 DEF ApplyCommand, ApplyRefused, Apply, ApplyRaises, ApplyCrashes, AwaitingStatuses
<1>10. CASE LockLapses \/ PostValidate \/ UNCHANGED vars
  BY <1>2, <1>3, <1>10 DEF LockLapses, PostValidate, OutcomeStatuses, AwaitingStatuses, vars
<1> QED
  BY <1>4, <1>5, <1>6, <1>7, <1>8, <1>9, <1>10 DEF Next, ApprovalCommands

\* Where one shell is used and nothing is interrupted, the plan summary that an approval
\* shows is that of the plan whose checksum it keeps, whatever fails by itself.
\* (docs/approval-workflow.md:7)
THEOREM SnapshotOfOnePlan ==
  ASSUME ManyShells = FALSE, Interruptions = {}
  PROVE  Spec => []SnapshotIsOfOnePlan
<1>1. SnapshotInv => SnapshotIsOfOnePlan
  BY DEF SnapshotInv
<1>2. SnapshotInv /\ [Next]_vars => SnapshotInv'
  BY SnapshotStep
<1> QED
  BY <1>1, <1>2, SnapshotInit, PTL DEF Spec

-----------------------------------------------------------------------------
(* Refinement *)

\* A new request is an initial state of ChangeControl.
LEMMA ControlInit == Init => Control!Init
BY DEF Init, Control!Init, ClearedPlan, AppliedPlan, PrecheckPasses

\* Every step is a step of ChangeControl, or changes nothing it speaks of.
LEMMA ControlStep ==
  ASSUME "raise" \notin Interruptions, ClearanceInv, ClearanceInv', [Next]_vars
  PROVE  [Control!Next]_(Control!vars)
<1>1. TypeOK /\ ClearanceIsEarned /\ ClearanceIsEarned'
  BY ClearanceFollows, PTL DEF ClearanceInv, ReviewInv
<1>2. PrecheckPasses => ClearedPlan = disk.planOut /\ ClearedPlan \in Safe
  BY <1>1 DEF ClearedPlan, ClearanceIsEarned
<1>3. PrecheckPasses' => ClearedPlan' = disk'.planOut /\ ClearedPlan' \in Safe
  BY <1>1 DEF ClearedPlan, ClearanceIsEarned
<1>4. PrecheckPasses /\ PrecheckPasses' => disk'.planOut = disk.planOut
  BY <1>1, ReviewedSteps DEF PrecheckPasses, Reviewed, AwaitingStatuses
<1>5. None \notin Safe
  BY ProvisioningAssumption DEF Safe
<1>6. CASE applied' # applied
  <2>1. PrecheckPasses
    BY <1>6, AppliedSteps
  <2>2. PICK recorded \in BOOLEAN : applied' = Execution(recorded)
    BY <1>6, AppliedSteps
  <2>3. applied' # None
    BY <1>1, <2>1, <2>2, PrecheckedExecutionTyped, NoneAssumption
  <2>4. AppliedPlan' = disk.planOut
    BY <2>2, <2>3 DEF AppliedPlan, Execution
  <2>5. ClearedPlan' \in {None, ClearedPlan}
    BY <1>2, <1>3, <1>4, <2>1 DEF ClearedPlan
  <2> QED
    BY <1>2, <1>5, <2>1, <2>4, <2>5 DEF Control!Next, Control!Run
<1>7. CASE applied' = applied
  <2>1. AppliedPlan' = AppliedPlan
    BY <1>7 DEF AppliedPlan
  <2>2. CASE ~PrecheckPasses'
    BY <2>1, <2>2 DEF Control!Next, Control!Withdraw, ClearedPlan
  <2>3. CASE PrecheckPasses' /\ ~PrecheckPasses
    <3>1. ClearedPlan = None
      BY <2>3 DEF ClearedPlan
    <3> QED
      BY <1>3, <2>1, <2>3, <3>1 DEF Control!Next, Control!Clear, Control!Safe, Safe
  <2>4. CASE PrecheckPasses' /\ PrecheckPasses
    BY <1>2, <1>3, <1>4, <2>1, <2>4 DEF Control!vars
  <2> QED
    BY <2>2, <2>3, <2>4
<1> QED
  BY <1>6, <1>7

\* Under the same assumption, the commands of a request do what ChangeControl
\* allows and nothing else.
THEOREM ControlImplemented ==
  ASSUME "raise" \notin Interruptions
  PROVE  Spec => ImplementsChangeControl
<1>1. ClearanceInv /\ ClearanceInv' /\ [Next]_vars => [Control!Next]_(Control!vars)
  BY ControlStep
<1> QED
  BY <1>1, ControlInit, ClearanceInit, ClearanceStep, PTL DEF Spec, ImplementsChangeControl, Control!Spec
=============================================================================
