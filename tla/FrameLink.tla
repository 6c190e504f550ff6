------------------------------ MODULE FrameLink ------------------------------
(***************************************************************************)
(* What one direction of a connection promises to the protocol above it:   *)
(* frames arrive whole and in order, and all that were sent do arrive,     *)
(* unless the receiver is disturbed.  This is the connection as module     *)
(* Transfer sees it.                                                       *)
(***************************************************************************)
EXTENDS Naturals

CONSTANT NFrames  \* the frames of the stream, the last of which ends it

VARIABLES
  sent,       \* frames the sender has written without an error
  delivered,  \* frames the receiver has taken over
  writer,     \* "open", "stopped"
  reader,     \* "open", "done", "failed"
  disturbed   \* a read was broken off, or the connection was reset

vars == <<sent, delivered, writer, reader, disturbed>>

Init ==
  /\ sent = 0 /\ delivered = 0
  /\ writer = "open" /\ reader = "open"
  /\ disturbed = FALSE

Send ==
  /\ writer = "open" /\ sent < NFrames
  /\ sent' = sent + 1
  /\ UNCHANGED <<delivered, writer, reader, disturbed>>

\* A frame the sender was still writing is lost as a whole.
Stop ==
  /\ writer = "open"
  /\ writer' = "stopped"
  /\ disturbed' \in {disturbed, TRUE}
  /\ UNCHANGED <<sent, delivered, reader>>

Disturb ==
  /\ reader = "open"
  /\ disturbed' = TRUE
  /\ UNCHANGED <<sent, delivered, writer, reader>>

Deliver ==
  /\ reader = "open" /\ delivered < sent
  /\ delivered' = delivered + 1
  /\ reader' = IF delivered' = NFrames THEN "done" ELSE "open"
  /\ UNCHANGED <<sent, writer, disturbed>>

\* Without a disturbance the receiver gives up only after everything the sender
\* managed to send, and only if the sender has stopped.
Fail ==
  /\ reader = "open"
  /\ disturbed' \in {disturbed, TRUE}
  /\ disturbed' \/ (writer = "stopped" /\ delivered = sent)
  /\ reader' = "failed"
  /\ UNCHANGED <<sent, delivered, writer>>

Next == Send \/ Stop \/ Disturb \/ Deliver \/ Fail

\* What was sent is taken over in the end, and a sender that has stopped is noticed.
Settled == delivered = sent /\ (writer = "stopped" => reader # "open")
Spec == Init /\ [][Next]_vars /\ []<>(reader # "open" \/ Settled)

SafetySpec == Init /\ [][Next]_vars
=============================================================================
