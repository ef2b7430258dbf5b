--------------------------- MODULE ChangeControl ---------------------------
(***************************************************************************)
(* What the change-control workflow promises about the infrastructure,     *)
(* without any of the machinery: a plan is cleared by a human decision,    *)
(* the clearance may be withdrawn, and `terraform apply' only ever runs    *)
(* the plan that is cleared at that moment.  A cleared plan deletes and    *)
(* replaces nothing.  (docs/apply-precheck-model.md, "Rules".)             *)
(***************************************************************************)
CONSTANTS Plans,        \* the plans terraform can save; a plan stands for its content
          Destructive,  \* those with a delete or replace action
          None          \* no plan, and not one of Plans

VARIABLES cleared,      \* the plan `apply' would run now, or None
          infra         \* the plan terraform last ran against the cloud, or None

vars == <<cleared, infra>>

Safe == Plans \ Destructive

Init == cleared = None /\ infra = None

Clear ==
  /\ cleared = None
  /\ cleared' \in Safe
  /\ UNCHANGED infra

Withdraw ==
  /\ cleared' = None
  /\ UNCHANGED infra

\* A run uses up the clearance, except when the process dies before the
\* database hears of it.
Run ==
  /\ cleared # None
  /\ infra' = cleared
  /\ cleared' \in {None, cleared}

Next == Clear \/ Withdraw \/ Run

Spec == Init /\ [][Next]_vars
=============================================================================
