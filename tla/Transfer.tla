------------------------------ MODULE Transfer ------------------------------
(***************************************************************************)
(* One transfer of xchange: the client xcc (DefaultProtocolHandler of      *)
(* xcc_protocol_handler.hpp) and one connection of the server xcd          *)
(* (ConnectionManager of xcd.hpp, which runs DefaultProtocolHandler of     *)
(* xcd_protocol_handler.hpp), over the frames socketIO_handler.hpp writes  *)
(* to and reads from one TCP connection.                                   *)
(*                                                                         *)
(* Data is abstracted to positions: block i of the source is the sequence  *)
(* <<i>>, the file name is <<0>>, and an empty frame carries <<>>.  What   *)
(* the user and the machines bring along (mode, keys, whitelist, size of   *)
(* the source, an existing file of the same name, ...) is the record cfg,  *)
(* chosen in Init and never changed.                                       *)
(***************************************************************************)
EXTENDS Integers, Sequences

CONSTANTS
  Configs,     \* the transfers considered, a subset of Transfers
  MaxBlocks,   \* bound: full data blocks of the largest source
  CounterMod,  \* modulus of the frame counter, 2^32 in the code
  Cap,         \* frames the socket buffers hold before write() blocks
  MaxFaults    \* bound: faults of the channel during one transfer

KeyFiles == {"k1", "k2", "unreadable"}
SecurityVersions == {"SV_PLAIN", "SV_CHACHA20", "SV_XCHACHA20POLY", "SV_AES_GCM"}
ProtocolVersions == {"PV_00_01", "PV_CHACHA20", "PV_XCHACHA20POLY", "PV_AES_GCM"}

\* A source has `full' full blocks and, if `tail', one shorter block.
\* "broken": reading the last block fails; "missing": it cannot be opened.
\* slow: the 5 s waits may run out although the peer is alive.
Transfers ==
  [mode : {"file", "text"}, stdin : BOOLEAN, sv : SecurityVersions,
   allowed : SUBSET SecurityVersions, ckey : KeyFiles, skey : KeyFiles,
   full : 0..MaxBlocks, tail : BOOLEAN, source : {"whole", "broken", "missing"},
   nameOk : BOOLEAN, taken : BOOLEAN, dir : BOOLEAN, room : 0..(MaxBlocks + 1),
   admitted : BOOLEAN, slow : BOOLEAN]

ASSUME BoundsAssumption ==
  /\ MaxBlocks \in Nat
  /\ Cap \in Nat /\ Cap >= 2
  /\ MaxFaults \in Nat
  \* far fewer frames than 2^32 are in flight
  /\ CounterMod \in Nat /\ Cap + 2 * MaxFaults + 2 < CounterMod

ASSUME ConfigsAssumption ==
  /\ Configs \subseteq Transfers
  /\ \A c \in Configs : c.source = "broken" => c.tail
  /\ \A c \in Configs : c.mode = "text" =>
       /\ c.source = "whole"
       \* -m "" leaves the mode unset and never gets this far
       /\ c.full > 0 \/ c.tail \/ c.stdin

VARIABLES
  cfg,
  \* client
  cState,          \* state of ctrl_loop, with the steps of sendFile/sendMessage
  cErr,            \* error, the exit status of xcc
  frameCounter,    \* order number of the last data frame sent
  read,            \* blocks taken from the source
  cNonce,          \* increments of the IV of enc
  \* server
  sState,          \* state of mainLoop / ctrl_loop
  ctrl_frame,      \* the received control frame
  saltOk,          \* dec holds the IV the client chose
  sNonce,          \* increments of the IV of dec
  frame_order_nbr, \* order number of the next frame
  file,            \* "absent", "foreign" (there before), "partial", "complete"
  stored,          \* blocks in the file this transfer created
  printed,         \* the message written to stdout or the message file
  \* connection
  c2s,             \* frames from client to server
  acks,            \* ACK frames from server to client
  sOpen,           \* the server's socket is open
  faults           \* faults so far

clientVars == <<cState, cErr, frameCounter, read, cNonce>>
serverVars == <<sState, ctrl_frame, saltOk, sNonce, frame_order_nbr,
                file, stored, printed>>
netVars    == <<c2s, acks, sOpen, faults>>
vars       == <<cfg, clientVars, serverVars, netVars>>

-----------------------------------------------------------------------------
(* Frames and flags *)

\* The flag bytes as the sets of their bits: 0x02, 0x04, 0x08 and 0x16.
FLAG_NEW_TRANSMISSION    == {1}
FLAG_END_OF_TRANSMISSION == {2}
FLAG_BINARY_TRANSMISSION == {3}
\* slip: the bits of another flag
FLAG_ENCRYPTED_as_NEW    == {1}
FLAG_ENCRYPTED           == {1, 2, 4}

\* The versions name the same ciphers twice: the client looks up the protocol
\* version of its security version, the server goes the other way.
proVersionLookupMap ==
  [SV_PLAIN |-> "PV_00_01", SV_CHACHA20 |-> "PV_CHACHA20",
   SV_XCHACHA20POLY |-> "PV_XCHACHA20POLY", SV_AES_GCM |-> "PV_AES_GCM"]
secVersionLookupMap ==
  [PV_00_01 |-> "SV_PLAIN", PV_CHACHA20 |-> "SV_CHACHA20",
   PV_XCHACHA20POLY |-> "SV_XCHACHA20POLY", PV_AES_GCM |-> "SV_AES_GCM"]

TransmissionID == 1

NoCtrl == [type |-> "ctrl", pv |-> "PV_NONE", sv |-> "SV_NONE", flags |-> {}, transmission_id |-> 0]

\* What SendCtrlFramePlain and SendCtrlFrameEncrypted put into the frame.
CtrlOf(c) ==
  [type |-> "ctrl", pv |-> proVersionLookupMap[c.sv], sv |-> c.sv,
   flags |-> FLAG_NEW_TRANSMISSION
             \cup (IF c.sv # "SV_PLAIN" THEN FLAG_ENCRYPTED ELSE {})
             \cup (IF c.mode = "file" THEN FLAG_BINARY_TRANSMISSION ELSE {}),
   transmission_id |-> TransmissionID]

\* The server checks sv against the whitelist, but takes the cipher of the
\* SocketIO_Manager from pv, and the handler's `encrypted' from the flags.
svIsValid(sv)  == sv \in cfg.allowed
pvIsValid(pv)  == pv \in ProtocolVersions
validFlags(fl) == FLAG_NEW_TRANSMISSION \subseteq fl \/ FLAG_BINARY_TRANSMISSION \subseteq fl
\* slip: the whitelist is not asked
ctrlFrameValid_open(cf) ==
  pvIsValid(cf.pv) /\ validFlags(cf.flags) /\ cf.transmission_id > 0
ctrlFrameValid(cf) ==
  svIsValid(cf.sv) /\ pvIsValid(cf.pv) /\ validFlags(cf.flags) /\ cf.transmission_id > 0

IoCipher(cf)    == secVersionLookupMap[cf.pv]
IoEncrypted(cf) == IoCipher(cf) # "SV_PLAIN"
Encrypted(cf)   == FLAG_ENCRYPTED \subseteq cf.flags
Binary(cf)      == FLAG_BINARY_TRANSMISSION \cap cf.flags # {}

\* Bytes of an IV
IVLength(sv) == IF sv = "SV_XCHACHA20POLY" THEN 24 ELSE 12

\* slip: a counter wider than the field it is compared with
Inc_wide(n) == n + 1
Inc(n) == IF n = CounterMod - 1 THEN 0 ELSE n + 1

\* What the client hands over: all of a file, at most one block of a message
\* (a longer one from stdin is cut off, a longer -m message is refused).
Blocks(c)  == c.full + (IF c.tail THEN 1 ELSE 0)
Payload(c) == IF c.mode = "file" THEN [i \in 1..Blocks(c) |-> i] ELSE <<1>>
Unsendable(c) ==
  IF c.mode = "file" THEN c.source = "missing"
  ELSE Blocks(c) = 0 \/ (~c.stdin /\ Blocks(c) > 1)

-----------------------------------------------------------------------------
(* The connection *)

ClientOpen == cState \notin {"Stopped", "Crashed"}
PeerGone   == c2s = <<>> /\ ~ClientOpen

\* A frame written after the server closed is lost without an error.
Put(frames) ==
  IF sOpen THEN Len(c2s) < Cap /\ c2s' = c2s \o frames ELSE UNCHANGED c2s

\* Closing a socket that holds unread data resets the connection, and may
\* destroy what the other side has not read yet.
ClientHangsUp ==
  /\ acks' = 0
  /\ c2s' \in (IF acks > 0 THEN {c2s, <<>>} ELSE {c2s})
  /\ UNCHANGED <<sOpen, faults>>
ServerHangsUp ==
  /\ sOpen' = FALSE
  /\ c2s' = <<>>
  /\ acks' \in (IF c2s # <<>> THEN {acks, 0} ELSE {acks})
  /\ UNCHANGED faults

-----------------------------------------------------------------------------
(* The client *)

Stop(err) ==
  /\ cState' = "Stopped"
  /\ cErr' = err
  /\ ClientHangsUp
  /\ UNCHANGED <<frameCounter, read, cNonce, cfg, serverVars>>

\* SendDataFrame: encrypt() increments the IV before it seals the frame.
SendDataFrame(order, data, eot) ==
  LET nonce == IF cfg.sv # "SV_PLAIN" THEN cNonce + 1 ELSE 0 IN
  /\ Put(<<[type |-> "data", order |-> order, data |-> data, eot |-> eot,
            intact |-> TRUE, nonce |-> nonce]>>)
  /\ cNonce' = nonce
  /\ frameCounter' = order
  /\ UNCHANGED <<cErr, cfg, serverVars, acks, sOpen, faults>>

\* STATE_GET_TYPE and STATE_SET_CHACHA20_KEY
Prepare ==
  /\ cState = "Prepare"
  /\ \/ /\ cfg.sv # "SV_PLAIN" /\ cfg.ckey = "unreadable"
        /\ Stop(TRUE)
     \/ /\ cfg.sv # "SV_PLAIN" => cfg.ckey # "unreadable"
        /\ cState' = "SendCtrl"
        /\ UNCHANGED <<cErr, frameCounter, read, cNonce, cfg, serverVars, netVars>>

\* STATE_SEND_INIT_CTRL_FRAME: one write carries control frame and IV.
SendCtrl ==
  /\ cState = "SendCtrl"
  /\ Put(<<CtrlOf(cfg)>>
         \o (IF cfg.sv # "SV_PLAIN" THEN <<[type |-> "iv", intact |-> TRUE]>> ELSE <<>>))
  /\ cState' = "RcvInitAck"
  /\ UNCHANGED <<cErr, frameCounter, read, cNonce, cfg, serverVars, acks, sOpen, faults>>

\* slip: the client does not wait for the initial ACK
RcvInitAck_early ==
  /\ cState = "RcvInitAck"
  /\ cState' = "OpenSource"
  /\ UNCHANGED <<cErr, frameCounter, read, cNonce, cfg, serverVars, netVars>>

\* STATE_RCV_INIT_ACK, and the checks of sendFile and sendMessage that come
\* before their first frame.
RcvInitAck ==
  /\ cState = "RcvInitAck" /\ acks > 0
  /\ acks' = acks - 1
  /\ cState' = "OpenSource"
  /\ UNCHANGED <<cErr, frameCounter, read, cNonce, cfg, serverVars, c2s, sOpen, faults>>

OpenSource ==
  /\ cState = "OpenSource"
  /\ \/ Unsendable(cfg) /\ Stop(TRUE)
     \/ /\ ~Unsendable(cfg)
        /\ cState' = IF cfg.mode = "file" THEN "SendName" ELSE "SendText"
        /\ UNCHANGED <<cErr, frameCounter, read, cNonce, cfg, serverVars, netVars>>

SendName ==
  /\ cState = "SendName"
  /\ SendDataFrame(0, <<0>>, FALSE)
  /\ cState' = "SendBlocks"
  /\ UNCHANGED read

\* One round of the loop `while(file_io->isGood())'.  The stream stays good
\* after a full block even when no byte is left, so that the last round of a
\* file without a tail, or with a tail that cannot be read, sends no data.
SendBlock ==
  /\ cState = "SendBlocks"
  /\ \/ /\ read < cfg.full
        /\ SendDataFrame(Inc(frameCounter), <<read + 1>>, FALSE)
        /\ read' = read + 1
        /\ cState' = "SendBlocks"
     \/ /\ read = cfg.full
        /\ SendDataFrame(Inc(frameCounter),
                         IF cfg.tail /\ cfg.source = "whole" THEN <<read + 1>> ELSE <<>>,
                         FALSE)
        /\ read' = read + 1
        /\ cState' = "SendEot"

\* The only data frame of a message has order number 1.
SendText ==
  /\ cState = "SendText"
  /\ SendDataFrame(1, <<1>>, FALSE)
  /\ read' = 1
  /\ cState' = "SendEot"

SendEot ==
  /\ cState = "SendEot"
  /\ SendDataFrame(Inc(frameCounter), <<>>, TRUE)
  /\ cState' = "RcvFinalAck"
  /\ UNCHANGED read

RcvFinalAck ==
  /\ cState = "RcvFinalAck" /\ acks > 0
  /\ cState' = "Stopped"
  /\ cErr' = FALSE
  /\ acks' = acks - 1
  /\ UNCHANGED <<frameCounter, read, cNonce, cfg, serverVars, c2s, sOpen, faults>>

\* write() reports that the peer has closed the connection.
WriteFails ==
  /\ cState \in {"SendCtrl", "SendName", "SendBlocks", "SendText", "SendEot"}
  /\ ~sOpen
  /\ Stop(TRUE)

\* SO_RCVTIMEO or 5 s of empty reads in GetAckFromSocket.  A prompt server
\* answers in time if it is going to answer at all.
ServerIdle ==
  \/ sState \in {"Done", "Killed"}
  \/ sState \in {"RcvCtrl", "ReadIv", "RcvName", "RcvBlocks", "RcvText"} /\ c2s = <<>>
\* slip: a missing ACK does not set the error
AckTimeout_ignored ==
  /\ cState \in {"RcvInitAck", "RcvFinalAck"} /\ acks = 0
  /\ cfg.slow \/ ServerIdle
  /\ Stop(FALSE)
\* slip: a client that gets no answer tries again, and again
AckTimeout_again ==
  /\ cState \in {"RcvInitAck", "RcvFinalAck"} /\ acks = 0
  /\ cfg.slow \/ ServerIdle
  /\ cState' = "SendCtrl"
  /\ UNCHANGED <<cErr, frameCounter, read, cNonce, cfg, serverVars, netVars>>
AckTimeout ==
  /\ cState \in {"RcvInitAck", "RcvFinalAck"} /\ acks = 0
  /\ cfg.slow \/ ServerIdle
  /\ Stop(TRUE)

\* The client is killed, or its host goes away.
ClientCrash ==
  /\ ClientOpen
  /\ cState' = "Crashed"
  /\ ClientHangsUp
  /\ UNCHANGED <<cErr, frameCounter, read, cNonce, cfg, serverVars>>

ClientStep ==
  \/ Prepare \/ SendCtrl \/ RcvInitAck \/ OpenSource \/ SendName \/ SendBlock
  \/ SendText \/ SendEot \/ RcvFinalAck \/ WriteFails \/ AckTimeout

-----------------------------------------------------------------------------
(* The server *)

\* STATE_RCV_CTRL_FRAME.  A refused connection is left open: the clean-up
\* thread of xcd.cpp closes it (Reap).
RcvCtrlFrame ==
  /\ sState = "RcvCtrl"
  /\ \/ /\ c2s # <<>>
        /\ ctrl_frame' = Head(c2s)
        /\ sState' = IF ~ctrlFrameValid(Head(c2s)) THEN "Done"
                     ELSE IF Encrypted(Head(c2s)) THEN "ReadIv" ELSE "Accept"
        /\ c2s' = Tail(c2s)
     \/ PeerGone /\ sState' = "Done" /\ UNCHANGED <<ctrl_frame, c2s>>
  /\ UNCHANGED <<saltOk, sNonce, frame_order_nbr, file, stored, printed,
                 cfg, clientVars, acks, sOpen, faults>>

\* STATE_READ_IV and STATE_READ_KEY_FILE: the IV comes first, because it is
\* the salt the session key is derived with.  A cipher with longer IVs than the
\* client's waits for the rest.
ReadIvAndKey ==
  /\ sState = "ReadIv" /\ IoEncrypted(ctrl_frame)
  /\ \/ /\ c2s # <<>>
        /\ IF IVLength(IoCipher(ctrl_frame)) > IVLength(cfg.sv)
           THEN UNCHANGED <<saltOk, sState>>
           ELSE /\ saltOk' = (Head(c2s).type = "iv" /\ Head(c2s).intact)
                /\ sState' = IF cfg.skey = "unreadable" THEN "Close" ELSE "Accept"
        /\ c2s' = Tail(c2s)
     \/ PeerGone /\ sState' = "Close" /\ UNCHANGED <<saltOk, c2s>>
  /\ UNCHANGED <<ctrl_frame, sNonce, frame_order_nbr, file, stored, printed,
                 cfg, clientVars, acks, sOpen, faults>>

\* The flags say encrypted and the version says plain: SetIVFromSocket calls
\* getIVSize() on a dec that was never made, which ends the process.
NoDecryption ==
  /\ sState = "ReadIv" /\ ~IoEncrypted(ctrl_frame)
  /\ sState' = "Killed"
  /\ ServerHangsUp
  /\ UNCHANGED <<ctrl_frame, saltOk, sNonce, frame_order_nbr, file, stored, printed,
                 cfg, clientVars>>

\* SendAck.  When the client is gone the write fails, or succeeds and draws a
\* reset that may destroy the frames not read yet.
SendAck(next, failed) ==
  \/ ClientOpen /\ acks' = acks + 1 /\ sState' = next /\ UNCHANGED c2s
  \/ ~ClientOpen /\ sState' \in {next, failed} /\ c2s' \in {c2s, <<>>} /\ UNCHANGED acks

AcceptConnection ==
  /\ sState = "Accept"
  /\ SendAck(IF Binary(ctrl_frame) THEN "RcvName" ELSE "RcvText", "Close")
  /\ UNCHANGED <<ctrl_frame, saltOk, sNonce, frame_order_nbr, file, stored, printed,
                 cfg, clientVars, sOpen, faults>>

\* slip: the result of DecryptAndVerify is not looked at
Opens_unchecked(f) == TRUE
\* slip: VerifyDataFrame without the order number, without the checksum
Verified_unordered(f, expected) == f.intact
Verified_unsummed(f, expected)  == f.order = expected
\* What ReadDataFrame makes of a frame: it is decrypted, verified against the
\* number expected, and told to be data, EOT or an error.
Opens(f) ==
  /\ IoCipher(ctrl_frame) = cfg.sv
  /\ \/ ~IoEncrypted(ctrl_frame)
     \/ f.intact /\ cfg.ckey = cfg.skey /\ saltOk /\ f.nonce = sNonce + 1
Verified(f, expected) ==
  /\ Opens(f) /\ f.order = expected /\ f.intact
  /\ ctrl_frame.transmission_id = TransmissionID
\* slip: no check for the rollover
Outcome_rolling(f, expected) ==
  IF ~Verified(f, expected) THEN "error"
  ELSE IF f.data # <<>> THEN "data"
  ELSE IF f.eot THEN "eot" ELSE "error"
Outcome(f, expected) ==
  IF ~Verified(f, expected) \/ Inc(expected) = 0 THEN "error"
  ELSE IF f.data # <<>> THEN "data"
  ELSE IF f.eot THEN "eot" ELSE "error"

\* slip: the IV of dec is not incremented
ReadDataFrame_sameIV(expected) ==
  /\ c2s # <<>>
  /\ c2s' = Tail(c2s)
  /\ UNCHANGED sNonce
  /\ frame_order_nbr' = IF Verified(Head(c2s), expected) THEN Inc(expected) ELSE expected
\* ReadDataFrame takes one frame from the socket, increments the IV before it
\* looks at it, and counts the frames it could verify.
ReadDataFrame(expected) ==
  /\ c2s # <<>>
  /\ c2s' = Tail(c2s)
  /\ sNonce' = IF IoEncrypted(ctrl_frame) THEN sNonce + 1 ELSE sNonce
  /\ frame_order_nbr' = IF Verified(Head(c2s), expected) THEN Inc(expected) ELSE expected

\* slip: empty reads are repeated for ever
ReadFails_never == FALSE /\ UNCHANGED <<c2s, sNonce, frame_order_nbr>>
ReadFails ==
  PeerGone /\ UNCHANGED <<c2s, sNonce, frame_order_nbr>>

\* Where the two sides use different ciphers, frames have other sizes than the
\* server expects, and a read may go on behind the first of them.
ReadOn ==
  /\ sState \in {"RcvName", "RcvText"} /\ IoCipher(ctrl_frame) # cfg.sv
  /\ c2s # <<>> /\ c2s' = Tail(c2s)
  /\ UNCHANGED <<cfg, clientVars, serverVars, acks, sOpen, faults>>

\* recv_filename, and the part of recv_file before its loop.  The result of
\* opening the output file is not looked at.
RcvFilename ==
  /\ sState = "RcvName"
  /\ \/ /\ ReadDataFrame(frame_order_nbr)
        /\ IF /\ Outcome(Head(c2s), frame_order_nbr) = "data"
              /\ frame_order_nbr' - 1 = 0
              /\ cfg.nameOk
              /\ file = "absent"
           THEN /\ sState' = "RcvBlocks"
                /\ file' = IF cfg.dir THEN "partial" ELSE "absent"
           ELSE sState' = "Close" /\ UNCHANGED file
     \/ ReadFails /\ sState' = "Close" /\ UNCHANGED file
  /\ UNCHANGED <<ctrl_frame, saltOk, stored, printed, cfg, clientVars, acks, sOpen, faults>>

\* The output stream drops a block it has no room for, and all that follow.
Write(data) == IF file = "partial" /\ Len(stored) < cfg.room THEN stored \o data ELSE stored

\* slip: the incomplete file is left behind
DropFile_kept == sState' = "Close" /\ UNCHANGED <<file, stored>>
DropFile == sState' = "Close" /\ file' = "absent" /\ stored' = <<>>

\* One round of the loop of recv_file; the round that ends the loop keeps the
\* file or removes it.
RcvBlock ==
  /\ sState = "RcvBlocks"
  /\ \/ /\ ReadDataFrame(frame_order_nbr)
        /\ CASE Outcome(Head(c2s), frame_order_nbr) = "data" ->
                  stored' = Write(Head(c2s).data) /\ UNCHANGED <<sState, file>>
             [] Outcome(Head(c2s), frame_order_nbr) = "eot" ->
                  /\ sState' = "FinalAck"
                  /\ file' = IF file = "partial" THEN "complete" ELSE file
                  /\ UNCHANGED stored
             [] OTHER -> DropFile
     \/ ReadFails /\ DropFile
  /\ UNCHANGED <<ctrl_frame, saltOk, printed, cfg, clientVars, acks, sOpen, faults>>

\* recv_message: one frame, with SetFrameOrder(1); the EOT frame stays unread.
RcvMessage ==
  /\ sState = "RcvText"
  /\ \/ /\ ReadDataFrame(1)
        /\ IF Outcome(Head(c2s), 1) = "error"
           THEN sState' = "Close" /\ UNCHANGED printed
           ELSE sState' = "FinalAck" /\ printed' = Head(c2s).data
     \/ ReadFails /\ sState' = "Close" /\ UNCHANGED printed
  /\ UNCHANGED <<ctrl_frame, saltOk, file, stored, cfg, clientVars, acks, sOpen, faults>>

\* STATE_FINAL_ACK up to its 5 s sleep
FinalAck ==
  /\ sState = "FinalAck"
  /\ SendAck("Confirm", "Confirm")
  /\ UNCHANGED <<ctrl_frame, saltOk, sNonce, frame_order_nbr, file, stored, printed,
                 cfg, clientVars, sOpen, faults>>

\* slip: no sleep between the final ACK and the close
CloseConn_atonce ==
  /\ sState \in {"Close", "Confirm"}
  /\ sState' = "Done"
  /\ ServerHangsUp
  /\ UNCHANGED <<ctrl_frame, saltOk, sNonce, frame_order_nbr, file, stored, printed,
                 cfg, clientVars>>

\* STATE_PM_CLOSE_CONN.  A prompt client has read the final ACK by the end of
\* the sleep.
CloseConn ==
  /\ sState = "Close" \/ (sState = "Confirm" /\ (cfg.slow \/ acks = 0))
  /\ sState' = "Done"
  /\ ServerHangsUp
  /\ UNCHANGED <<ctrl_frame, saltOk, sNonce, frame_order_nbr, file, stored, printed,
                 cfg, clientVars>>

\* The clean-up thread closes the socket of a connection that is done.
Reap ==
  /\ sState = "Done" /\ sOpen
  /\ ServerHangsUp
  /\ UNCHANGED <<cfg, clientVars, serverVars>>

\* SIGINT or a crash ends the process while the connection is open.  A file
\* being received stays as far as the stream has been flushed.
ServerKill ==
  /\ sOpen
  /\ sState' = "Killed"
  /\ ServerHangsUp
  /\ stored' \in (IF file = "partial" THEN { SubSeq(stored, 1, n) : n \in 0..Len(stored) }
                                      ELSE {stored})
  /\ UNCHANGED <<ctrl_frame, saltOk, sNonce, frame_order_nbr, file, printed,
                 cfg, clientVars>>

ServerStep ==
  \/ RcvCtrlFrame \/ ReadIvAndKey \/ NoDecryption \/ AcceptConnection \/ ReadOn
  \/ RcvFilename \/ RcvBlock \/ RcvMessage \/ FinalAck \/ CloseConn \/ Reap

-----------------------------------------------------------------------------
(* Faults of the channel that the checksum, the frame counter and the MAC    *)
(* are there to notice; they hit data frames, and may damage the IV and, of  *)
(* the control frame, which has no checksum, the versions and the id.        *)

DataAt(i) == i \in 1..Len(c2s) /\ c2s[i].type = "data"

DamagedCtrl(f) ==
  ({[f EXCEPT !.pv = v] : v \in ProtocolVersions \cup {"PV_LAST"}}
     \cup {[f EXCEPT !.sv = v] : v \in SecurityVersions \cup {"SV_LAST"}}
     \cup {[f EXCEPT !.transmission_id = t] : t \in 0..2}) \ {f}

\* A damaged frame carries some other payload than the one it was made for.
Corrupt(i) ==
  \/ /\ i \in 1..Len(c2s) /\ c2s[i].type = "ctrl"
     /\ \E f \in DamagedCtrl(c2s[i]) : c2s' = [c2s EXCEPT ![i] = f]
  \/ /\ DataAt(i)
     /\ c2s' = [c2s EXCEPT ![i] = [@ EXCEPT !.intact = FALSE, !.data = <<0>>]]
  \/ /\ i \in 1..Len(c2s) /\ c2s[i].type = "iv"
     /\ c2s' = [c2s EXCEPT ![i] = [@ EXCEPT !.intact = FALSE]]
Lose(i) ==
  /\ DataAt(i)
  /\ c2s' = [j \in 1..(Len(c2s) - 1) |-> IF j < i THEN c2s[j] ELSE c2s[j + 1]]
Duplicate(i) ==
  /\ DataAt(i)
  /\ c2s' = [j \in 1..(Len(c2s) + 1) |-> IF j <= i THEN c2s[j] ELSE c2s[j - 1]]
Reorder(i) ==
  /\ DataAt(i) /\ DataAt(i + 1)
  /\ c2s' = [c2s EXCEPT ![i] = c2s[i + 1], ![i + 1] = c2s[i]]

ChannelFault ==
  /\ faults < MaxFaults
  /\ faults' = faults + 1
  /\ \E i \in 1..Len(c2s) : Corrupt(i) \/ Lose(i) \/ Duplicate(i) \/ Reorder(i)
  /\ UNCHANGED <<cfg, clientVars, serverVars, acks, sOpen>>

-----------------------------------------------------------------------------
Init ==
  /\ cfg \in Configs
  /\ cState = "Prepare" /\ cErr = FALSE
  /\ frameCounter = 0 /\ read = 0 /\ cNonce = 0
  \* a connection beyond MAX_CONNECTED_CLIENTS is accepted and closed at once
  /\ sState = (IF cfg.admitted THEN "RcvCtrl" ELSE "Done")
  /\ sOpen = cfg.admitted
  /\ ctrl_frame = NoCtrl /\ saltOk = FALSE /\ sNonce = 0 /\ frame_order_nbr = 0
  /\ file = (IF cfg.taken THEN "foreign" ELSE "absent")
  /\ stored = <<>> /\ printed = <<>>
  /\ c2s = <<>> /\ acks = 0 /\ faults = 0

\* Both sides are through; there is nothing left to do.
Ended == ~ClientOpen /\ sState \in {"Done", "Killed"} /\ ~sOpen
Finished == Ended /\ UNCHANGED vars

Next ==
  \/ ClientStep \/ ClientCrash
  \/ ServerStep \/ ServerKill
  \/ ChannelFault
  \/ Finished

Spec == Init /\ [][Next]_vars

\* The threads of both programs keep running.  A client that reads stdin may
\* wait for it for ever: see ServerFairSpec.
FairSpec == Spec /\ WF_vars(ClientStep) /\ WF_vars(ServerStep)
ServerFairSpec == Spec /\ WF_vars(ServerStep)

-----------------------------------------------------------------------------
(* Properties *)

DataFrames ==
  [type : {"data"}, order : 0..(CounterMod - 1), data : {<<>>} \cup {<<i>> : i \in 0..(MaxBlocks + 1)},
   eot : BOOLEAN, intact : BOOLEAN, nonce : Nat]
CtrlFrames ==
  [type : {"ctrl"}, pv : ProtocolVersions \cup {"PV_NONE", "PV_LAST"},
   sv : SecurityVersions \cup {"SV_NONE", "SV_LAST"}, flags : SUBSET (1..4),
   transmission_id : 0..2]
IvFrames   == [type : {"iv"}, intact : BOOLEAN]

\* The values the variables take; the channel never holds more than its
\* buffers plus what the faults duplicate.
TypeOK ==
  /\ cfg \in Configs
  /\ cState \in {"Prepare", "SendCtrl", "RcvInitAck", "OpenSource", "SendName", "SendBlocks",
                 "SendText", "SendEot", "RcvFinalAck", "Stopped", "Crashed"}
  /\ cErr \in BOOLEAN
  /\ frameCounter \in 0..(CounterMod - 1)
  /\ read \in 0..(MaxBlocks + 1)
  /\ cNonce \in Nat
  /\ sState \in {"RcvCtrl", "ReadIv", "Accept", "RcvName", "RcvBlocks", "RcvText",
                 "FinalAck", "Confirm", "Close", "Done", "Killed"}
  /\ ctrl_frame \in CtrlFrames
  /\ saltOk \in BOOLEAN
  /\ sNonce \in Nat
  /\ frame_order_nbr \in 0..(CounterMod - 1)
  /\ file \in {"absent", "foreign", "partial", "complete"}
  /\ stored \in Seq(0..(MaxBlocks + 1))
  /\ printed \in Seq(0..(MaxBlocks + 1))
  /\ c2s \in Seq(CtrlFrames \cup IvFrames \cup DataFrames)
  /\ acks \in Nat
  /\ sOpen \in BOOLEAN
  /\ faults \in 0..MaxFaults

Success   == cState = "Stopped" /\ ~cErr
Delivered ==
  IF cfg.mode = "file" THEN file = "complete" /\ stored = Payload(cfg)
                       ELSE printed = Payload(cfg)
DiskWorks == cfg.mode = "file" => cfg.dir /\ Blocks(cfg) <= cfg.room

\* A client that reports success has its whole payload on the server, in
\* order and undamaged, whatever the channel did (README.md:38).  The other
\* direction is not promised: the final ACK may come too late.
AckedDelivery == Success /\ DiskWorks => Delivered

\* What is in the file so far is a prefix of the source: no block is skipped,
\* repeated or damaged at any time, not only at the end.
StoredPrefix ==
  Len(stored) <= Blocks(cfg) /\ \A i \in 1..Len(stored) : stored[i] = i

\* A transfer that ends early drops what it received (README.md:24): when the
\* connection is done the file is whole or gone, and it is never the one that
\* was there before.  (Only a server that is killed leaves a part behind.)
NoLeftovers ==
  /\ sState \in {"Close", "Done"} => file # "partial"
  /\ file = "complete" /\ DiskWorks => stored = Payload(cfg)
  /\ cfg.taken <=> file = "foreign"

\* Something of this transfer has reached the user's disk or terminal.
Kept == file \in {"partial", "complete"} \/ stored # <<>> \/ printed # <<>>

\* Whatever is kept of a client came through the cipher the client had chosen,
\* with one key on both sides, even if the control frame was damaged; and unless
\* the security version was, the whitelist has that cipher.
OnlyAdmitted ==
  Kept =>
    /\ IoCipher(ctrl_frame) = cfg.sv
    /\ cfg.sv # "SV_PLAIN" => cfg.ckey = cfg.skey
    /\ ctrl_frame.sv = cfg.sv => cfg.sv \in cfg.allowed

\* The initial ACK is read before the final one is sent, so the client never
\* takes one for the other; and no data leaves the client before the server
\* has accepted the connection.
AcksApart ==
  /\ acks <= 1
  /\ acks = 1 /\ cState \in {"SendName", "SendBlocks", "SendEot"} =>
       cfg.mode = "text" /\ printed = Payload(cfg)
  /\ (\E i \in 1..Len(c2s) : c2s[i].type = "data") =>
       sState \notin {"RcvCtrl", "ReadIv", "Accept"}

\* While nothing has gone wrong, the server is behind the client by exactly
\* the frames in the buffers, in both counters that have to keep in step; the
\* client's frame counter may have rolled over, the nonces never do.
Lockstep ==
  faults = 0 /\ sState \in {"RcvName", "RcvBlocks"} /\ ClientOpen
    /\ cState \in {"SendBlocks", "SendEot"} =>
       /\ LET next == frame_order_nbr + Len(c2s)
          IN  frameCounter + 1 \in {next, next - CounterMod}
       /\ cfg.sv # "SV_PLAIN" => cNonce = sNonce + Len(c2s)

\* The server closes a transfer whose frame counter rolls over (README.md:46):
\* name, blocks and EOT of an accepted file have different numbers.
RolloverRefused == file = "complete" => cfg.full + 3 < CounterMod

\* What is left to do: the states ahead of client and server, and for the client
\* three times as many, as each puts at most two frames on the connection; the
\* blocks and frames to go; the faults to come.
ClientSteps ==
  [Prepare |-> 8, SendCtrl |-> 7, RcvInitAck |-> 6, OpenSource |-> 5, SendName |-> 4,
   SendBlocks |-> 3, SendText |-> 3, SendEot |-> 2, RcvFinalAck |-> 1, Stopped |-> 0, Crashed |-> 0]
ServerSteps ==
  [RcvCtrl |-> 7, ReadIv |-> 6, Accept |-> 5, RcvName |-> 4, RcvBlocks |-> 3, RcvText |-> 3,
   FinalAck |-> 2, Confirm |-> 1, Close |-> 1, Done |-> 0, Killed |-> 0]
BlocksLeft == IF read < cfg.full THEN cfg.full - read ELSE 0
WorkLeft ==
  3 * (ClientSteps[cState] + BlocksLeft) + ServerSteps[sState] + Len(c2s)
    + (IF sOpen THEN 1 ELSE 0) + 2 * (MaxFaults - faults)

\* Every step of a transfer brings it nearer to its end, whichever thread runs and
\* whatever goes wrong: no wait, error or fault leads back to what was done before,
\* so there are at most as many steps as there is work left at the start.
EveryStepCounts == [][WorkLeft' \in 0..(WorkLeft - 1)]_vars

\* Both programs come to an end, and the server's socket is closed.
Terminates == <>Ended

\* Something from outside came in between; a server that ends by itself because
\* flags and version disagree does not count.
Disturbed ==
  \/ cState = "Crashed" \/ faults > 0
  \/ sState = "Killed" /\ (Encrypted(ctrl_frame) => IoEncrypted(ctrl_frame))

\* A transfer on a prompt network nothing stands against.
Honest ==
  /\ ~cfg.slow
  /\ cfg.admitted /\ cfg.sv \in cfg.allowed
  /\ cfg.sv # "SV_PLAIN" => cfg.ckey = cfg.skey /\ cfg.ckey # "unreadable"
  /\ ~Unsendable(cfg) /\ cfg.source = "whole"
  /\ cfg.mode = "file" =>
       cfg.nameOk /\ ~cfg.taken /\ DiskWorks /\ cfg.full + 3 < CounterMod

\* Where the disk works, a transfer is what module Upload promises: the client
\* succeeds only after the delivery, and nothing undoes a delivery.
Contract == INSTANCE Upload WITH
  delivered <- Delivered,
  outcome <- IF Success THEN "success" ELSE IF ClientOpen THEN "pending" ELSE "failure"
ImplementsUpload == Contract!Spec

\* On a prompt network such a transfer succeeds, if the file has a last block
\* that is not full.
HonestSucceeds ==
  Honest /\ (cfg.mode = "file" => cfg.tail)
    => <>(Success \/ Disturbed)

\* The same of every file up to the largest possible size (README.md:45).
EverySizeSucceeds == Honest => <>(Success \/ Disturbed)

\* An ACK after the data acknowledges its reception, whatever the disk did
\* (comment in STATE_FINAL_ACK, xcd_protocol_handler.hpp:300).
AckMeansStored == Success => Delivered

\* "To prevent unencrypted traffic and/or unauthorized clients from uploading xcd
\* has the option --whitelist" (README.md:35): what is kept came through a cipher
\* on the list.
OnlyWhitelisted == Kept => IoCipher(ctrl_frame) \in cfg.allowed

\* "make sure recv times out after SOCKET_RCVTIMEO_SEC if nothing is received"
\* (read_from_socket, xchange.hpp:614): the server does not wait for ever.
ServerGivesUp == (sState \in {"RcvName", "RcvBlocks", "RcvText"}) ~> (sState \in {"Done", "Killed"})
=============================================================================
