---------------------------- MODULE MCRemediation ----------------------------
(***************************************************************************)
(* Instances of Remediation.                                               *)
(***************************************************************************)
EXTENDS Remediation, TLC

\* Everything of the original resource; the other one has the fault or is missing.
OneWithAFault ==
  {1 :> a @@ 2 :> b : a \in Answers, b \in {"missing", "high"}}

\* Only the original resource, which has the fault or not.
One == [{1} -> {"missing", "clean", "high"}]

\* Beside it, another one that is clean, and that the inventory may not know yet.
OneBesideAClean == {1 :> a @@ 2 :> "clean" : a \in {"missing", "clean", "high"}}
=============================================================================
