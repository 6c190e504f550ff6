------------------------------ MODULE SendLoop ------------------------------
(***************************************************************************)
(* sendFile of xcc_protocol_handler.hpp for encrypted files, over several  *)
(* transfers: every frame goes through enc of module Cipher, the data      *)
(* frames also through the bandwidth limit of module Throttle.             *)
(***************************************************************************)
EXTENDS Cipher, Throttle

VARIABLES
  step   \* of the client: "connect", "name", "loop", "done"

vars == <<cipherVars, throttleVars, step>>

\* The ACK of the server has been received.
Admitted == cphase = "sending" /\ sphase \notin {"new", "salted"}

Connect == step = "connect" /\ Handshake /\ UNCHANGED <<throttleVars, step>>

\* The budget is computed first, and one below a frame fails only here, after the
\* server has accepted the transfer.
OpenFile ==
  /\ step = "connect" /\ Admitted
  /\ IF TooLow THEN StopClient /\ step' = "done"
     ELSE step' = "name" /\ UNCHANGED cipherVars
  /\ UNCHANGED throttleVars

\* The name is sent before the loop and its clock begin.
SendName ==
  /\ step = "name"
  /\ encrypt
  /\ frameBudget' = (IF Limited THEN framesPerBucket ELSE 0)
  /\ step' = "loop"
  /\ UNCHANGED <<bandwidth, clock, start_time, passed, asleep>>

SendBlock ==
  /\ step = "loop"
  /\ encrypt /\ FramePassed
  /\ UNCHANGED step

\* Without a limit nobody looks at the clock.
PassTime ==
  /\ step = "loop" /\ Limited
  /\ WakeUp \/ Tick
  /\ UNCHANGED <<cipherVars, step>>

\* The source is at its end.
SendEot ==
  /\ step = "loop" /\ ~asleep
  /\ encrypt
  /\ step' = "done"
  /\ UNCHANGED throttleVars

\* The end of xcc, after the last frame, an error or a kill
Stop == StopClient /\ step' = "done" /\ UNCHANGED throttleVars

\* The limits main lets through; sendFile refuses the rest.
Settings == {b \in Bandwidths : b = 0 \/ b >= FrameBytes}

NextTransfer ==
  /\ NewSession
  /\ bandwidth' \in Settings
  /\ clock' = 0 /\ start_time' = 0 /\ frameBudget' = 0 /\ passed' = 0 /\ asleep' = FALSE
  /\ step' = "connect"

Server == (ServerSide \/ SpoilWire) /\ UNCHANGED <<throttleVars, step>>

Init ==
  /\ CipherInit
  /\ bandwidth \in Settings
  /\ clock = 0 /\ start_time = 0 /\ frameBudget = 0 /\ passed = 0 /\ asleep = FALSE
  /\ step = "connect"

Client == Connect \/ OpenFile \/ SendName \/ SendBlock \/ PassTime \/ SendEot \/ Stop

Next == Client \/ Server \/ NextTransfer

Spec == Init /\ [][Next]_vars

-----------------------------------------------------------------------------
TypeOK ==
  /\ CipherTypeOK /\ ThrottleTypeOK
  /\ step \in {"connect", "name", "loop", "done"}
=============================================================================
