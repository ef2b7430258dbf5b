---------------------------- MODULE RequestBoard ----------------------------
(***************************************************************************)
(* What the requests go through when each command of the Cloud Shell is a  *)
(* single step, as the approval and apply services are written: what is    *)
(* approved is ready at that moment, and what is applied is at that moment *)
(* approved and cleared, by an approval that no apply has used.            *)
(***************************************************************************)
EXTENDS Integers

CONSTANT MaxRequests  \* how many requests are ever created

VARIABLES request,  \* the requests by number: their status, and whether the files are the approved ones
          used      \* those of them that were applied since they were last approved

vars == <<request, used>>

Numbers == 1..MaxRequests

Created == {n \in Numbers : request[n].status # "none"}

Init ==
  /\ request = [n \in Numbers |-> [status |-> "none", cleared |-> FALSE]]
  /\ used = {}

Becomes(n, status, cleared) ==
  request' = [request EXCEPT ![n] = [status |-> status, cleared |-> cleared]]

\* Numbers are given in order.
Create ==
  /\ \E n \in Numbers : Created = 1..(n - 1) /\ Becomes(n, "open", FALSE)
  /\ UNCHANGED used

\* A command changes the files, or leaves the request open.
Work(n) ==
  /\ \/ request' = [request EXCEPT ![n].cleared = FALSE]
     \/ Becomes(n, "open", request[n].cleared)
  /\ UNCHANGED used

\* What is approved is no longer rejected.
Reject(n) ==
  /\ request[n].status # "approved"
  /\ Becomes(n, "open", FALSE)
  /\ UNCHANGED used

MakeReady(n) ==
  /\ Becomes(n, "ready", request[n].cleared)
  /\ UNCHANGED used

\* An approval that raises may be decided and leave its request open.
Approve(n) ==
  /\ request[n].status = "ready"
  /\ \E status \in {"approved", "open"}, cleared \in BOOLEAN : Becomes(n, status, cleared)
  /\ used' = used \ {n}

Apply(n) ==
  /\ request[n] = [status |-> "approved", cleared |-> TRUE]
  /\ n \notin used
  /\ \E status \in {"applied", "open"} : Becomes(n, status, TRUE)
  /\ used' = used \cup {n}

Next ==
  \/ Create
  \/ \E n \in Created : Work(n) \/ MakeReady(n) \/ Approve(n) \/ Reject(n) \/ Apply(n)

Spec == Init /\ [][Next]_vars
=============================================================================
