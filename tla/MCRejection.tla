----------------------------- MODULE MCRejection -----------------------------
(***************************************************************************)
(* Provisioning with one history variable: an approver rejected the        *)
(* request when nothing had been applied yet.                              *)
(***************************************************************************)
EXTENDS MCProvisioning
VARIABLE refused

RejectionInit == Init /\ refused = FALSE

RejectionNext ==
  /\ Next
  /\ refused' = (refused \/ (Reject /\ applied = None))

RejectionSpec == RejectionInit /\ [][RejectionNext]_<<vars, refused>>

RejectionState == <<LiveState, refused>>

\* A rejected request is not applied afterwards.  (docs/approval-workflow.md:31)
RejectionBlocksApply == refused => applied = None
=============================================================================
