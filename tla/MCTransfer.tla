----------------------------- MODULE MCTransfer -----------------------------
(* The transfers TLC explores, by family. *)
EXTENDS Transfer

CONSTANTS MCMaxBlocks

\* Sizes: no block, a tail only, full blocks only, full blocks and a tail.
Base ==
  [mode |-> "file", stdin |-> FALSE, sv |-> "SV_PLAIN", allowed |-> SecurityVersions,
   ckey |-> "k1", skey |-> "k1", full |-> 1, tail |-> TRUE, source |-> "whole",
   nameOk |-> TRUE, taken |-> FALSE, dir |-> TRUE, room |-> MCMaxBlocks + 1, admitted |-> TRUE,
   slow |-> FALSE]

Sizes   == [full : 0..MCMaxBlocks, tail : BOOLEAN]
Sized(c, S) == { [c EXCEPT !.full = s.full, !.tail = s.tail] : s \in S }
Ciphers(C)  == { [c EXCEPT !.sv = v] : c \in C, v \in {"SV_PLAIN", "SV_AES_GCM"} }
Slow(C)     == { [c EXCEPT !.slow = TRUE] : c \in C }

\* files of every size, plain and encrypted
Files == Ciphers(Sized(Base, Sizes))
\* messages that fit, from -m and stdin, and ones that are too long or empty
Texts ==
  { c \in Ciphers({ [b EXCEPT !.mode = "text", !.stdin = d] :
                      b \in Sized(Base, [full : {0, 1}, tail : BOOLEAN]), d \in BOOLEAN }) :
      c.stdin \/ Blocks(c) > 0 }
\* the ciphers with the other IV length and the other name
Others ==
  { [c EXCEPT !.sv = v] : c \in {Base, [Base EXCEPT !.mode = "text", !.full = 0]},
                          v \in {"SV_CHACHA20", "SV_XCHACHA20POLY"} }
\* something is in the way
Refused ==
  Ciphers({ [Base EXCEPT !.source = "broken"], [Base EXCEPT !.source = "missing"],
            [Base EXCEPT !.nameOk = FALSE], [Base EXCEPT !.taken = TRUE],
            [Base EXCEPT !.admitted = FALSE],
            [Base EXCEPT !.allowed = {"SV_PLAIN"}], [Base EXCEPT !.allowed = {"SV_AES_GCM"}] })
WrongKeys ==
  { [c EXCEPT !.sv = "SV_AES_GCM", !.ckey = k[1], !.skey = k[2]] :
      c \in {Base, [Base EXCEPT !.mode = "text", !.full = 0]},
      k \in {<<"k1", "k2">>, <<"k1", "unreadable">>, <<"unreadable", "k1">>} }
\* the disk cannot take the file
BadDisks == { [Base EXCEPT !.dir = FALSE], [Base EXCEPT !.room = 1] }

Good == Files \cup Texts \cup Others \cup Refused \cup WrongKeys
MCSlowConfigs  == Slow(Good \cup BadDisks)
MCBothConfigs  == Good \cup Slow(Good)
MCDiskConfigs  == BadDisks \cup {Base}
MCSizeConfigs  == Files
MCOneConfig    == {Base}
\* plain clients of a server that wants encryption
MCWhitelistConfigs ==
  { [c EXCEPT !.allowed = {"SV_AES_GCM"}] : c \in {Base, [Base EXCEPT !.mode = "text", !.full = 0]} }
=============================================================================
