--------------------------- MODULE MCConnManager ---------------------------
(* Small instances of ConnManager for TLC. *)
EXTENDS ConnManager

\* Enough numbers for two managers with a socket and a file each, and one
\* connection that waits to be accepted: the process never runs out of them.
ServerFds == 3..7
=============================================================================
