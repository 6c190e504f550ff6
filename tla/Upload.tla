------------------------------- MODULE Upload -------------------------------
(***************************************************************************)
(* What xchange promises of one transfer, seen from the two ends only: the *)
(* server may take the payload over, once and for good, and the client     *)
(* reports success only after that.  A client that reports a failure, or   *)
(* is gone, knows nothing: the payload may still be taken over.            *)
(***************************************************************************)
VARIABLES
  delivered,  \* the whole payload is with the server
  outcome     \* what the client has reported: "pending", "success", "failure"

vars == <<delivered, outcome>>

Init == delivered = FALSE /\ outcome = "pending"

Deliver ==
  /\ ~delivered
  /\ delivered' = TRUE
  /\ UNCHANGED outcome

Succeed ==
  /\ outcome = "pending" /\ delivered
  /\ outcome' = "success"
  /\ UNCHANGED delivered

Fail ==
  /\ outcome = "pending"
  /\ outcome' = "failure"
  /\ UNCHANGED delivered

Report == Succeed \/ Fail

Next == Deliver \/ Report

\* The client does report in the end.
Spec == Init /\ [][Next]_vars /\ WF_vars(Report)

SafetySpec == Init /\ [][Next]_vars
=============================================================================
