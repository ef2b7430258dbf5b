--------------------------- MODULE MCProvisioning ---------------------------
(***************************************************************************)
(* Instances: one plan that is safe and one that destroys, with or without *)
(* a second safe one.                                                      *)
(***************************************************************************)
EXTENDS Provisioning, Naturals, FiniteSets
CONSTANTS p1, p2, d1

TwoPlans == {p1, d1}
ThreePlans == {p1, p2, d1}
MCDestructive == {d1}

\* The view under which the runs compare states.  It is exact: states it takes
\* for the same enable the same commands, with the same effect on every property.
\*   - No guard tells apart two statuses of one of these classes.
StatusClass ==
  CASE status \in PostPlanStatuses \ {"PLAN_READY", "READY_FOR_APPROVAL"} -> "post-plan"
    [] status \in Statuses \ (PostPlanStatuses \cup AwaitingStatuses \cup TerminalStatuses
                              \cup {"TERRAFORM_VALIDATE_SUCCEEDED", "OUTPUTS_CAPTURED"}) -> "other"
    [] OTHER -> status

\*   - An approval's snapshot is read under status APPROVED only, and every
\*     Approve overwrites it.
LiveApproval ==
  IF status = "APPROVED" THEN approval ELSE [approval EXCEPT !.sums = NoFiles, !.plan = None]

LiveRows == <<StatusClass, workspace, disk, artifact, evidence, LiveApproval, lock>>

LiveState == <<LiveRows, applied>>

\* For a run that asks of the last apply nothing but the plan.json beside it.
LiveReviewState == <<LiveRows, IF applied = None THEN None ELSE applied.json>>

\* A bound: how many of the four files interrupted commands have left different
\* from their artifact rows.
MaxDisagreements == 1

FewDisagreements == Cardinality({f \in Files : disk[f] # artifact[f]}) <= MaxDisagreements
=============================================================================
