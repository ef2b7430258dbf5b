---------------------------- MODULE MCCloudShell ----------------------------
(***************************************************************************)
(* Instances of CloudShell: two connections and a REST thread, on two       *)
(* servers or on one.                                                      *)
(***************************************************************************)
EXTENDS CloudShell, TLC
CONSTANTS c1, c2, t1, s1, s2

TwoHosts == c1 :> s1 @@ t1 :> s1 @@ c2 :> s2
OneHost == c1 :> s1 @@ t1 :> s1 @@ c2 :> s1

Line(text, name, target) == [text |-> text, name |-> name, args |-> TRUE, target |-> target]

\* What can meet at two servers, and at one of them what else a line can be.
MeetingLines ==
  {Line("nb", "fix plan", 0), Line("nb", "gates evaluate", 1), Line("nb", "terraform apply", 1)}

AllKinds ==
  c1 :> MeetingLines \cup {Line("nb", "terraform destroy", 0), Line("nb, spaced", "terraform destroy", 0),
                           Line("nb", "approve", 1)}
  @@ c2 :> MeetingLines

\* What makes others wait: for the loop, for a row and for a number.
Waiting ==
  c1 :> {Line("nb", "fix plan", 0), Line("nb", "gates evaluate", 1), Line("nb", "approve", 1)}
  @@ c2 :> {Line("nb", "terraform apply", 1), Line("nb", "reject", 1), Line("nb", "status", 0)}

\* A number that is not in use is not told apart.
LiveNumber ==
  [s \in Sessions |->
     IF s \in Threads THEN IF thread[s] = "idle" THEN 0 ELSE number[s]
     ELSE IF conn[s].phase \in {"read", "written"} /\ conn[s].line.name = "fix plan" THEN number[s] ELSE 0]

LiveState == <<conn, thread, LiveNumber, request, uses>>
=============================================================================
