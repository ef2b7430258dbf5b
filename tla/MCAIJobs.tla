------------------------------ MODULE MCAIJobs ------------------------------
(***************************************************************************)
(* Instances of AIJobs.  Analyses do not touch each other and workers are  *)
(* alike, so both are symmetric where only safety is asked for.            *)
(***************************************************************************)
EXTENDS AIJobs, TLC

Interchangeable == Permutations(Analyses) \cup Permutations(Workers)
=============================================================================
