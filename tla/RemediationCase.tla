-------------------------- MODULE RemediationCase --------------------------
(***************************************************************************)
(* What a request's remediation goes through, without the inventory, the   *)
(* engine, the sessions and their locks.  It is announced once; then the   *)
(* resource is looked at, at most once; then it is decided, at most once,  *)
(* from what was seen; and the finding has the status that was decided.    *)
(* Users may set the finding's status at any time.  Whoever else has       *)
(* written the same rows meanwhile may have changed the decision, and what *)
(* they may change is all that is said of them.                            *)
(***************************************************************************)
CONSTANTS Severities, Answers,  \* of the finding; what a look at its resource may say
          Choices,              \* the statuses that users choose from
          Outcomes, RequestStatus, FindingStatus  \* what is decided, and the statuses it gives

VARIABLES request,   \* status of the request
          status,    \* status of its finding
          before,    \* severity of the finding when the validation began
          evidence,  \* what was seen of the resource, or "none"
          touched    \* who else has written: "run", "scan", "patch"

vars == <<request, status, before, evidence, touched>>

Init ==
  /\ request = "OUTPUTS_CAPTURED"
  /\ status = "open"
  /\ before \in Severities
  /\ evidence = "none"
  /\ touched = {}

\* A validation that dies before it is announced begins again.
Begin ==
  /\ request = "OUTPUTS_CAPTURED"
  /\ before' \in Severities
  /\ touched' = {}
  /\ UNCHANGED <<request, status, evidence>>

\* The finding is given this status, unless a user has set another.
Becomes(decided) ==
  /\ status' \in {status, decided}
  /\ "patch" \notin touched => status' = decided

Announce ==
  /\ request = "OUTPUTS_CAPTURED"
  /\ request' = "POST_VALIDATION_RUNNING"
  /\ Becomes("validating")
  /\ UNCHANGED <<before, evidence, touched>>

Look ==
  /\ request = "POST_VALIDATION_RUNNING"
  /\ evidence = "none"
  /\ evidence' \in Answers
  /\ UNCHANGED <<request, status, before, touched>>

\* Nothing is decided but a failure where the look failed.  What it said decides
\* the rest; where it did not mention the resource, anything may be decided.
Justified(o) ==
  \/ o = "VALIDATION_FAILED"
  \/ evidence = "missing"
  \/ /\ o = "RESOLVED"
     /\ touched \cap {"scan", "patch"} = {} => evidence = "clean"
     /\ evidence # "none"
  \/ /\ o \in {"PARTIALLY_RESOLVED", "STILL_OPEN"}
     /\ touched \cap {"scan", "run"} = {} =>
          /\ evidence \in Severities
          /\ o = "PARTIALLY_RESOLVED" <=> before = "high" /\ evidence = "low"
     /\ evidence # "none"

Decide(o) ==
  /\ request = "POST_VALIDATION_RUNNING"
  /\ Justified(o)
  /\ request' = RequestStatus[o]
  /\ Becomes(FindingStatus[o])
  /\ UNCHANGED <<before, evidence, touched>>

\* A user's change counts from the beginning of the validation.
User ==
  /\ status' \in Choices \cup {status}
  /\ touched' \in {touched, touched \cup {"patch"}}
  /\ request # "OUTPUTS_CAPTURED" => "patch" \in touched'
  /\ UNCHANGED <<request, before, evidence>>

Touch(kind) ==
  /\ touched' = touched \cup {kind}
  /\ UNCHANGED <<request, status, before, evidence>>

Next ==
  \/ Begin
  \/ Announce
  \/ Look
  \/ \E o \in Outcomes : Decide(o)
  \/ User
  \/ Touch("run") \/ Touch("scan")

Spec == Init /\ [][Next]_vars
=============================================================================
