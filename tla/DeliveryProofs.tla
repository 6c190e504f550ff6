--------------------------- MODULE DeliveryProofs ---------------------------
(***************************************************************************)
(* What a transfer delivers: proofs of the safety properties of module     *)
(* Transfer, on top of the type correctness proved in TransferProofs.      *)
(***************************************************************************)
EXTENDS TransferProofs

-----------------------------------------------------------------------------
(* First part: who is admitted, and what becomes of the file.              *)

Before   == {"RcvCtrl", "ReadIv", "Accept"}
Entitled == IoCipher(ctrl_frame) = cfg.sv /\ (cfg.sv # "SV_PLAIN" => cfg.ckey = cfg.skey)

Admitted ==
  /\ sState \in {"ReadIv", "Accept"} \cup Receiving =>
       Sent(ctrl_frame) /\ ctrl_frame.sv \in cfg.allowed
  /\ sState \in {"RcvName", "RcvBlocks"} => cfg.mode = "file"
  /\ sState = "RcvText" => cfg.mode = "text"
  /\ \/ sState \in {"RcvBlocks", "FinalAck", "Confirm"}
     \/ file \in {"partial", "complete"}
     \/ stored # <<>> \/ printed # <<>>
     => Entitled /\ ctrl_frame.sv \in cfg.allowed

FileKept ==
  /\ cfg.taken <=> file = "foreign"
  /\ sState \in Before \cup {"RcvName", "RcvText"} =>
       file \in {"absent", "foreign"} /\ stored = <<>> /\ printed = <<>> /\ frame_order_nbr = 0
  /\ sState = "RcvBlocks" => file = (IF cfg.dir THEN "partial" ELSE "absent")
  /\ sState \in Receiving \cup {"Done"} /\ file = "partial" => sState = "RcvBlocks"

AdmitInv == TypeInv /\ Admitted /\ FileKept

LEMMA AdmitInit == Init => AdmitInv
<1> SUFFICES ASSUME Init PROVE AdmitInv
  OBVIOUS
<1>1. TypeInv
  BY TypeInit
<1>2. cfg \in Transfers
  BY ConfigsAssumption DEF Init
<1>3. Admitted
  BY <1>2 DEF Init, Admitted, Receiving, Transfers
<1>4. FileKept
  BY <1>2 DEF Init, FileKept, Before, Receiving, Transfers
<1> QED
  BY <1>1, <1>3, <1>4 DEF AdmitInv

\* The client and the channel leave the server's variables alone.
LEMMA OthersKeepServer ==
  ASSUME ClientStep \/ ClientCrash \/ ChannelFault \/ UNCHANGED vars
  PROVE  UNCHANGED <<cfg, sState, ctrl_frame, saltOk, sNonce, frame_order_nbr,
                     file, stored, printed>>
<1>1. CASE ClientStep
  BY <1>1, Zenon
  DEF ClientStep, Prepare, SendCtrl, RcvInitAck, OpenSource, SendName, SendBlock, SendText,
      SendEot, RcvFinalAck, WriteFails, AckTimeout, Stop, SendDataFrame, serverVars
<1>2. CASE ClientCrash \/ ChannelFault \/ UNCHANGED vars
  BY <1>2, Zenon DEF ClientCrash, ChannelFault, vars, serverVars
<1> QED
  BY <1>1, <1>2

\* What was sent stays what was sent, whatever is damaged later.
LEMMA SentLater ==
  ASSUME TypeInv, [Next]_vars, NEW f, Sent(f)
  PROVE  cfg' = cfg /\ f \in CtrlFrames /\ f.flags = CtrlOf(cfg)'.flags
         /\ (faults' = 0 => f = CtrlOf(cfg)')
<1>1. CASE ChannelFault
  <2>1. faults \in Nat /\ faults' = faults + 1 /\ cfg' = cfg
    BY <1>1 DEF ChannelFault, TypeInv, TypeOK
  <2>2. faults' # 0
    BY <2>1
  <2> QED
    BY <2>1, <2>2, CtrlKept DEF Sent
<1>2. CASE ~ChannelFault
  <2>1. cfg' = cfg /\ faults' = faults
    BY <1>2, Zenon
    DEF Next, ClientStep, ClientCrash, ServerStep, ServerKill, Finished, Stop, SendDataFrame,
        Prepare, SendCtrl, RcvInitAck, OpenSource, SendName, SendBlock, SendText, SendEot,
        RcvFinalAck, WriteFails, AckTimeout, RcvCtrlFrame, ReadIvAndKey, NoDecryption,
        AcceptConnection, ReadOn, RcvFilename, RcvBlock, RcvMessage, FinalAck, CloseConn, Reap,
        ClientHangsUp, ServerHangsUp, vars, netVars
  <2> QED
    BY <2>1, CtrlKept DEF Sent
<1> QED
  BY <1>1, <1>2

\* What the server has read when it looks at a control frame.
LEMMA CtrlFrameRead ==
  ASSUME TypeInv, RcvCtrlFrame, c2s # <<>>
  PROVE  Sent(Head(c2s))
<1>1. c2s \in Seq(Frames)
  BY DEF TypeInv, TypeOK, Frames
<1>2. Head(c2s) = c2s[1] /\ 1 \in 1..Len(c2s)
  BY <1>1, HeadTailProperties
<1> QED
  BY <1>2 DEF TypeInv, Wire, RcvCtrlFrame

\* A frame that is not refused was undamaged and in order, and if the
\* connection is encrypted the keys are the same.
LEMMA Accepted ==
  ASSUME TypeInv, NEW f, NEW expected,
         Outcome(f, expected) # "error"
  PROVE  /\ IoCipher(ctrl_frame) = cfg.sv
         /\ f.intact /\ f.order = expected /\ Inc(expected) # 0
         /\ cfg.sv # "SV_PLAIN" => cfg.ckey = cfg.skey
         /\ Verified(f, expected)
         /\ Outcome(f, expected) = "data" => f.data # <<>>
         /\ Outcome(f, expected) = "eot" => f.data = <<>> /\ f.eot
<1>1. Verified(f, expected) /\ Inc(expected) # 0
  BY DEF Outcome
<1>2. IoCipher(ctrl_frame) = cfg.sv /\ (IoEncrypted(ctrl_frame) <=> cfg.sv # "SV_PLAIN")
  BY <1>1 DEF Verified, Opens, IoEncrypted
<1>3. Opens(f) /\ f.order = expected /\ f.intact
  BY <1>1 DEF Verified
<1>4. cfg.sv # "SV_PLAIN" => cfg.ckey = cfg.skey
  BY <1>2, <1>3 DEF Opens
<1>5. Outcome(f, expected) =
        IF f.data # <<>> THEN "data" ELSE IF f.eot THEN "eot" ELSE "error"
  BY <1>1 DEF Outcome
<1> QED
  BY <1>1, <1>2, <1>3, <1>4, <1>5

LEMMA AdmitStep == AdmitInv /\ [Next]_vars => AdmitInv'
<1> SUFFICES ASSUME AdmitInv, [Next]_vars PROVE Admitted' /\ FileKept'
  BY TypeStep DEF AdmitInv
<1> USE DEF AdmitInv
<1>0. TypeOK /\ Wire /\ cfg \in Transfers
  BY CtrlOfType DEF TypeInv
<1>00. /\ cfg' = cfg
       /\ ctrl_frame' = ctrl_frame =>
            /\ Sent(ctrl_frame) => Sent(ctrl_frame)'
            /\ IoCipher(ctrl_frame)' = IoCipher(ctrl_frame)
  <2>1. cfg' = cfg
    BY Zenon
    DEF Next, ClientStep, ClientCrash, ServerStep, ServerKill, Finished, Stop, SendDataFrame,
        Prepare, SendCtrl, RcvInitAck, OpenSource, SendName, SendBlock, SendText, SendEot,
        RcvFinalAck, WriteFails, AckTimeout, RcvCtrlFrame, ReadIvAndKey, NoDecryption,
        AcceptConnection, ReadOn, RcvFilename, RcvBlock, RcvMessage, FinalAck, CloseConn, Reap,
        ChannelFault, vars
  <2>2. ASSUME ctrl_frame' = ctrl_frame, Sent(ctrl_frame) PROVE Sent(ctrl_frame)'
    BY <2>2, SentLater DEF Sent
  <2>3. ctrl_frame' = ctrl_frame => IoCipher(ctrl_frame)' = IoCipher(ctrl_frame)
    BY DEF IoCipher
  <2> QED
    BY <2>1, <2>2, <2>3
<1>1. CASE ClientStep \/ ClientCrash \/ ChannelFault \/ UNCHANGED vars
  <2>1. UNCHANGED <<cfg, sState, ctrl_frame, frame_order_nbr, file, stored, printed>>
    BY <1>1, OthersKeepServer
  <2> QED
    BY <1>00, <2>1 DEF Admitted, FileKept, Entitled, Before, Receiving
<1>2. CASE RcvCtrlFrame
  <2>1. CASE c2s # <<>> /\ ctrl_frame' = Head(c2s)
             /\ sState' = IF ~ctrlFrameValid(Head(c2s)) THEN "Done"
                          ELSE IF Encrypted(Head(c2s)) THEN "ReadIv" ELSE "Accept"
    <3>1. Sent(ctrl_frame)'
      BY <1>2, <2>1, CtrlFrameRead, SentLater DEF Sent
    <3>2. /\ sState' \in {"ReadIv", "Accept", "Done"}
          /\ sState' # "Done" => ctrl_frame'.sv \in cfg.allowed
      BY <2>1 DEF ctrlFrameValid, svIsValid
    <3>3. /\ UNCHANGED <<file, stored, printed, frame_order_nbr>> /\ sState = "RcvCtrl"
          /\ file \in {"absent", "foreign"} /\ stored = <<>> /\ printed = <<>>
      BY <1>2 DEF RcvCtrlFrame, FileKept, Before
    <3> QED
      BY <1>00, <3>1, <3>2, <3>3
      DEF Admitted, FileKept, Entitled, Before, Receiving
  <2>2. CASE sState' = "Done" /\ UNCHANGED ctrl_frame
    BY <1>00, <1>2, <2>2 DEF RcvCtrlFrame, Admitted, FileKept, Entitled, Before, Receiving
  <2> QED
    BY <1>2, <2>1, <2>2 DEF RcvCtrlFrame
<1>3. CASE ReadIvAndKey
  <2>1. sState' \in {"ReadIv", "Close", "Accept"} /\ sState = "ReadIv"
    BY <1>3, Zenon DEF ReadIvAndKey
  <2> QED
    BY <1>00, <1>3, <2>1 DEF ReadIvAndKey, Admitted, FileKept, Entitled, Before, Receiving
<1>4. CASE AcceptConnection
  <2>1. Binary(ctrl_frame) <=> cfg.mode = "file"
    BY <1>0, <1>4, FlagsDecode DEF AcceptConnection, Admitted
  <2>2. sState' \in {IF Binary(ctrl_frame) THEN "RcvName" ELSE "RcvText", "Close"}
    BY <1>4 DEF AcceptConnection, SendAck
  <2>3. sState' = "Close" \/ sState' = (IF cfg.mode = "file" THEN "RcvName" ELSE "RcvText")
    BY <2>1, <2>2
  <2>4. cfg.mode \in {"file", "text"}
    BY <1>0 DEF Transfers
  <2> QED
    BY <1>00, <1>4, <2>3, <2>4 DEF AcceptConnection, Admitted, FileKept, Entitled, Before, Receiving
<1>5. CASE RcvFilename
  <2>1. CASE Outcome(Head(c2s), frame_order_nbr) = "data" /\ sState' = "RcvBlocks"
             /\ file = "absent" /\ file' = IF cfg.dir THEN "partial" ELSE "absent"
    <3>1. Entitled /\ cfg.mode = "file" /\ Sent(ctrl_frame) /\ ctrl_frame.sv \in cfg.allowed
      BY <1>5, <2>1, Accepted DEF RcvFilename, Admitted, Receiving, Entitled
    <3> QED
      BY <1>00, <1>5, <2>1, <3>1 DEF RcvFilename, Admitted, FileKept, Entitled, Before, Receiving
  <2>2. CASE sState' = "Close" /\ UNCHANGED file
    BY <1>00, <1>5, <2>2 DEF RcvFilename, Admitted, FileKept, Entitled, Before, Receiving
  <2> QED
    BY <1>5, <2>1, <2>2 DEF RcvFilename
<1>6. CASE RcvBlock
  <2>1. Entitled /\ cfg.mode = "file" /\ Sent(ctrl_frame) /\ ctrl_frame.sv \in cfg.allowed
    BY <1>6 DEF RcvBlock, Admitted, Receiving
  <2>2. \/ sState' = sState /\ file' = file
        \/ sState' = "FinalAck" /\ file' = IF file = "partial" THEN "complete" ELSE file
        \/ sState' = "Close" /\ file' = "absent"
    BY <1>6 DEF RcvBlock, DropFile
  <2> QED
    BY <1>00, <1>6, <2>1, <2>2 DEF RcvBlock, Admitted, FileKept, Entitled, Before, Receiving
<1>7. CASE RcvMessage
  <2>1. CASE Outcome(Head(c2s), 1) # "error" /\ sState' = "FinalAck"
    <3>1. Entitled /\ cfg.mode = "text" /\ Sent(ctrl_frame) /\ ctrl_frame.sv \in cfg.allowed
      BY <1>7, <2>1, Accepted DEF RcvMessage, Admitted, Receiving, Entitled
    <3> QED
      BY <1>00, <1>7, <2>1, <3>1 DEF RcvMessage, Admitted, FileKept, Entitled, Before, Receiving
  <2>2. CASE sState' = "Close" /\ UNCHANGED printed
    BY <1>00, <1>7, <2>2 DEF RcvMessage, Admitted, FileKept, Entitled, Before, Receiving
  <2> QED
    BY <1>7, <2>1, <2>2 DEF RcvMessage
<1>8. CASE FinalAck
  <2>1. sState' = "Confirm"
    BY <1>8 DEF FinalAck, SendAck
  <2> QED
    BY <1>00, <1>8, <2>1 DEF FinalAck, Admitted, FileKept, Entitled, Before, Receiving
<1>9. CASE CloseConn
  BY <1>00, <1>9 DEF CloseConn, Admitted, FileKept, Entitled, Before, Receiving
<1>10. CASE Reap
  BY <1>00, <1>10 DEF Reap, serverVars, Admitted, FileKept, Entitled, Before, Receiving
<1>11. CASE ServerKill
  <2>1. file # "partial" => stored' = stored
    BY <1>11 DEF ServerKill
  <2> QED
    BY <1>00, <1>11, <2>1 DEF ServerKill, Admitted, FileKept, Entitled, Before, Receiving
<1>12. CASE NoDecryption
  BY <1>00, <1>12 DEF NoDecryption, Admitted, FileKept, Entitled, Before, Receiving
<1>13. CASE ReadOn
  BY <1>00, <1>13 DEF ReadOn, serverVars, Admitted, FileKept, Entitled, Before, Receiving
<1> QED
  BY <1>1, <1>2, <1>3, <1>4, <1>5, <1>6, <1>7, <1>8, <1>9, <1>10, <1>11, <1>12, <1>13
  DEF Next, ServerStep, Finished

\* Whatever is kept of a client came through the cipher the client had chosen,
\* with one key on both sides, and unless its security version was damaged on the
\* way, through one the whitelist has.
THEOREM AdmissionCorrect == Spec => []OnlyAdmitted
<1>1. AdmitInv => OnlyAdmitted
  BY DEF AdmitInv, Admitted, Entitled, OnlyAdmitted, Kept
<1> QED
  BY <1>1, AdmitInit, AdmitStep, PTL DEF Spec

-----------------------------------------------------------------------------
(* Second part: the two ACKs.                                              *)

\* The client has not sent a data frame yet.
Early == {"Prepare", "SendCtrl", "RcvInitAck", "OpenSource", "SendName", "SendText"}

Turns ==
  /\ sState \notin {"Done", "Killed"} => sOpen
  /\ ~ClientOpen => acks = 0
  /\ acks <= 1
  /\ cState \in Early => read = 0 /\ frameCounter = 0
  /\ sState \in Before => read = 0
  /\ cState \in Early => sState \notin {"RcvBlocks", "FinalAck", "Confirm"}
  /\ cState \in Early /\ sState \in Receiving => c2s = <<>>
  /\ acks > 0 /\ cState \notin {"Prepare", "SendCtrl", "RcvInitAck"} =>
       sState \in {"Confirm", "Done", "Killed"}
  /\ cState \in {"SendName", "SendBlocks"} => cfg.mode = "file"
  /\ cState = "SendText" => cfg.mode = "text"
  /\ cState = "SendBlocks" => read <= cfg.full
  /\ cState = "SendEot" =>
       IF cfg.mode = "file" THEN read = cfg.full + 1 ELSE frameCounter = 1

TurnInv == AdmitInv /\ Turns

LEMMA TurnInit == Init => TurnInv
<1> SUFFICES ASSUME Init PROVE Turns
  BY AdmitInit DEF TurnInv
<1> QED
  BY DEF Init, Turns, Before, Early, Receiving, ClientOpen

LEMMA HangsUpAcks ==
  ASSUME acks \in Nat, ServerHangsUp
  PROVE  sOpen' = FALSE /\ c2s' = <<>> /\ (acks' = acks \/ acks' = 0) /\ faults' = faults
BY Zenon DEF ServerHangsUp

LEMMA TurnClient ==
  ASSUME TurnInv, ClientStep \/ ClientCrash
  PROVE  Turns'
<1> USE DEF TurnInv, AdmitInv, TypeInv
<1>0. /\ acks \in Nat /\ read \in Nat /\ frameCounter \in Nat
      /\ cfg.full \in Nat /\ cfg.mode \in {"file", "text"}
      /\ UNCHANGED <<cfg, sState, frame_order_nbr, file, stored, printed>>
  BY CtrlOfType, OthersKeepServer DEF TypeOK, Transfers
<1>1. ASSUME cState' \in {"Stopped", "Crashed"}, acks' = 0, UNCHANGED <<sOpen, read, frameCounter>>
      PROVE  Turns'
  BY <1>0, <1>1 DEF Turns, Before, Early, Receiving, ClientOpen
<1>2. ASSUME NEW err, Stop(err) PROVE Turns'
  BY <1>1, <1>2 DEF Stop, ClientHangsUp
<1>3. CASE ClientCrash
  BY <1>1, <1>3 DEF ClientCrash, ClientHangsUp
<1>4. CASE Prepare
  <2>1. CASE cState' = "SendCtrl" /\ cState = "Prepare" /\ UNCHANGED <<read, frameCounter, netVars>>
    BY <1>0, <2>1 DEF netVars, Turns, Before, Early, Receiving, ClientOpen
  <2> QED
    BY <1>2, <1>4, <2>1 DEF Prepare
<1>5. CASE SendCtrl
  BY <1>0, <1>5 DEF SendCtrl, Wire, Turns, Before, Early, Receiving, ClientOpen
<1>6. CASE RcvInitAck
  BY <1>0, <1>6 DEF RcvInitAck, Wire, Turns, Before, Early, Receiving, ClientOpen
<1>7. CASE OpenSource
  <2>1. CASE /\ cState' = IF cfg.mode = "file" THEN "SendName" ELSE "SendText"
             /\ cState = "OpenSource" /\ UNCHANGED <<read, frameCounter, netVars>>
    BY <1>0, <2>1 DEF netVars, Turns, Before, Early, Receiving, ClientOpen
  <2> QED
    BY <1>2, <1>7, <2>1 DEF OpenSource
<1>8. CASE SendName
  BY <1>0, <1>8 DEF SendName, SendDataFrame, Wire, Turns, Before, Early, Receiving, ClientOpen
<1>9. CASE SendBlock
  <2>1. /\ cState = "SendBlocks" /\ read' = read + 1 /\ UNCHANGED <<acks, sOpen>>
        /\ \/ read < cfg.full /\ cState' = "SendBlocks"
           \/ read = cfg.full /\ cState' = "SendEot"
    BY <1>9, Zenon DEF SendBlock, SendDataFrame
  <2>2. sState \notin Before
    BY <2>1 DEF Wire, Before, Ends
  <2>3. read' \in Nat /\ (cState' = "SendBlocks" => read' <= cfg.full)
        /\ (cState' = "SendEot" => read' = cfg.full + 1)
    BY <1>0, <2>1
  <2>4. cfg.mode = "file"
    BY <2>1 DEF Turns
  <2> QED
    BY <1>0, <2>1, <2>2, <2>3, <2>4 DEF Turns, Before, Early, Receiving, ClientOpen
<1>10. CASE SendText
  <2>1. /\ cState = "SendText" /\ cState' = "SendEot" /\ read' = 1 /\ frameCounter' = 1
        /\ UNCHANGED <<acks, sOpen>>
    BY <1>10 DEF SendText, SendDataFrame
  <2>2. sState \notin Before
    BY <2>1 DEF Wire, Before, Ends
  <2>3. cfg.mode = "text"
    BY <2>1 DEF Turns
  <2> QED
    BY <1>0, <2>1, <2>2, <2>3 DEF Turns, Before, Early, Receiving, ClientOpen
<1>11. CASE SendEot
  BY <1>0, <1>11 DEF SendEot, SendDataFrame, Wire, Turns, Before, Early, Receiving, ClientOpen
<1>12. CASE RcvFinalAck
  BY <1>0, <1>12 DEF RcvFinalAck, Wire, Turns, Before, Early, Receiving, ClientOpen
<1>13. CASE WriteFails \/ AckTimeout
  BY <1>2, <1>13 DEF WriteFails, AckTimeout
<1> QED
  BY <1>3, <1>4, <1>5, <1>6, <1>7, <1>8, <1>9, <1>10, <1>11, <1>12, <1>13 DEF ClientStep

LEMMA TurnServer ==
  ASSUME TurnInv, ServerStep \/ ServerKill
  PROVE  Turns'
<1> USE DEF TurnInv, AdmitInv, TypeInv
<1>0. /\ c2s \in Seq(Frames) /\ acks \in Nat
      /\ UNCHANGED <<cfg, cState, read, frameCounter>>
  <2>1. UNCHANGED <<cfg, clientVars>>
    BY Zenon
    DEF ServerStep, ServerKill, RcvCtrlFrame, ReadIvAndKey, NoDecryption, AcceptConnection,
        ReadOn, RcvFilename, RcvBlock, RcvMessage, FinalAck, CloseConn, Reap
  <2> QED
    BY <2>1 DEF TypeOK, Frames, clientVars
<1>1. CASE RcvCtrlFrame
  <2>1. sState' \in {"Done", "ReadIv", "Accept"} /\ sState = "RcvCtrl" /\ UNCHANGED <<acks, sOpen>>
    BY <1>1 DEF RcvCtrlFrame
  <2> QED
    BY <1>0, <2>1 DEF Wire, Turns, Before, Early, Receiving, ClientOpen
<1>2. CASE ReadIvAndKey
  <2>1. sState' \in {"ReadIv", "Close", "Accept"} /\ sState = "ReadIv" /\ UNCHANGED <<acks, sOpen>>
    BY <1>2, Zenon DEF ReadIvAndKey
  <2>2. cState \in Early => c2s' = <<>>
    <3>1. CASE c2s # <<>> /\ c2s' = Tail(c2s)
      <4>1. c2s' \in Seq(Frames) /\ \A i \in 1..Len(c2s') : i + 1 \in 1..Len(c2s)
        BY <1>0, <3>1, TailType
      <4>2. \A i \in 1..Len(c2s') : i + 1 = 1
        BY <2>1, <4>1 DEF Wire
      <4> QED
        BY <4>1, <4>2, EmptySeq
    <3>2. CASE PeerGone
      BY <3>2 DEF PeerGone, ClientOpen, Early
    <3>3. (c2s # <<>> /\ c2s' = Tail(c2s)) \/ PeerGone
      BY <1>2, Zenon DEF ReadIvAndKey
    <3> QED
      BY <3>1, <3>2, <3>3
  <2> QED
    BY <1>0, <2>1, <2>2 DEF Wire, Turns, Before, Early, Receiving, ClientOpen
<1>3. CASE AcceptConnection
  <2>1. /\ sState = "Accept" /\ c2s' = <<>> /\ sOpen' = sOpen
        /\ sState' \in {"RcvName", "RcvText", "Close"}
        /\ acks' = IF ClientOpen THEN acks + 1 ELSE acks
    BY <1>3 DEF AcceptConnection, SendAck, Wire
  <2> QED
    BY <1>0, <2>1 DEF Wire, Turns, Before, Early, Receiving, Ends, ClientOpen
<1>4. CASE RcvFilename \/ RcvBlock \/ RcvMessage
  <2>1. /\ sState \in {"RcvName", "RcvBlocks", "RcvText"} /\ UNCHANGED <<acks, sOpen>>
        /\ sState' \in {"RcvBlocks", "FinalAck", "Close"}
        /\ c2s # <<>> \/ ~ClientOpen
    BY <1>4 DEF RcvFilename, RcvBlock, RcvMessage, DropFile, ReadDataFrame, ReadFails, PeerGone
  <2>2. cState \notin Early
    BY <2>1 DEF Turns, Receiving, ClientOpen, Early
  <2> QED
    BY <1>0, <2>1, <2>2 DEF Wire, Turns, Before, Early, Receiving, ClientOpen
<1>5. CASE FinalAck
  <2>1. /\ sState = "FinalAck" /\ sState' = "Confirm" /\ sOpen' = sOpen
        /\ acks' = IF ClientOpen THEN acks + 1 ELSE acks
    BY <1>5 DEF FinalAck, SendAck
  <2>2. cState \notin Early /\ acks = 0
    BY <1>0, <2>1 DEF Turns, Early
  <2> QED
    BY <1>0, <2>1, <2>2 DEF Wire, Turns, Before, Early, Receiving, ClientOpen
<1>6. CASE CloseConn \/ Reap \/ ServerKill \/ NoDecryption
  <2>1. /\ sOpen' = FALSE /\ c2s' = <<>> /\ (acks' = acks \/ acks' = 0)
        /\ sState' \in {"Done", "Killed"}
    BY <1>0, <1>6, HangsUpAcks DEF CloseConn, Reap, ServerKill, NoDecryption, serverVars
  <2> QED
    BY <1>0, <2>1 DEF Wire, Turns, Before, Early, Receiving, ClientOpen
<1>7. CASE ReadOn
  <2>1. /\ sState \in {"RcvName", "RcvText"} /\ UNCHANGED <<sState, acks, sOpen>>
        /\ c2s # <<>> /\ c2s' = Tail(c2s)
    BY <1>7 DEF ReadOn, serverVars
  <2>2. cState \notin Early
    BY <2>1 DEF Turns, Receiving
  <2> QED
    BY <1>0, <2>1, <2>2 DEF Wire, Turns, Before, Early, Receiving, ClientOpen
<1> QED
  BY <1>1, <1>2, <1>3, <1>4, <1>5, <1>6, <1>7 DEF ServerStep

LEMMA TurnStep == TurnInv /\ [Next]_vars => TurnInv'
<1> SUFFICES ASSUME TurnInv, [Next]_vars PROVE Turns'
  BY AdmitStep DEF TurnInv
<1>1. CASE ChannelFault
  <2>1. UNCHANGED <<cfg, sState, cState, read, frameCounter, acks, sOpen>> /\ c2s # <<>>
    <3>1. \E i \in 1..Len(c2s) : TRUE
      BY <1>1 DEF ChannelFault
    <3> QED
      BY <1>1, <3>1, EmptySeq DEF ChannelFault, clientVars, serverVars
  <2> QED
    BY <2>1 DEF TurnInv, Turns, Before, Early, Receiving, ClientOpen
<1>2. CASE UNCHANGED vars
  BY <1>2
  DEF vars, clientVars, serverVars, netVars, TurnInv, Turns, Before, Early, Receiving, ClientOpen
<1> QED
  BY <1>1, <1>2, TurnClient, TurnServer DEF Next, Finished

-----------------------------------------------------------------------------
(* Third part: frames in flight.  Frame number p of a file has the order   *)
(* number Order(p).  While the server receives, the client is less than one *)
(* round of the counter ahead of it.                                        *)

EotSent  == {"RcvFinalAck"} \cup Ends
Order(p) == IF p < CounterMod THEN p ELSE p - CounterMod

IsFrame(f, p) ==
  /\ f.order = Order(p)
  /\ \/ p = 0
     \/ p \in 1..Blocks(cfg) /\ f.data = <<p>>
     \/ f.data = <<>> /\ ~f.eot
     \/ f.data = <<>> /\ p = cfg.full + 2 /\ cState \in EotSent

AllFile ==
  \A i \in 1..Len(c2s) : c2s[i].intact => \E p \in 0..(read + 1) : IsFrame(c2s[i], p)
AllText ==
  \A i \in 1..Len(c2s) : c2s[i].intact /\ c2s[i].order = 1 => c2s[i].data = <<1>>

\* A file may be on its way that both sides use the same cipher for.
FileComes == sState \in {"RcvName", "RcvBlocks"} /\ IoCipher(ctrl_frame) = cfg.sv

Flight ==
  /\ FileComes =>
       /\ cState \in {"SendBlocks", "SendEot"} => frameCounter = Order(read)
       /\ Len(c2s) <= Cap + faults
       /\ ClientOpen \/ c2s # <<>> => read <= frame_order_nbr + Len(c2s) + faults
       /\ AllFile
  /\ sState = "RcvText" => AllText

Saved ==
  /\ StoredPrefix
  /\ sState = "RcvBlocks" =>
       /\ frame_order_nbr >= 1 /\ frame_order_nbr - 1 <= Blocks(cfg)
       /\ Len(stored) <= frame_order_nbr - 1
       /\ file = "partial" =>
            Len(stored) = frame_order_nbr - 1 \/ Len(stored) >= cfg.room

\* What the final ACK stands for.
Handed == DiskWorks => Delivered

Final ==
  /\ sState \in {"FinalAck", "Confirm"} =>
       Handed /\ (cfg.mode = "file" => cState \in EotSent)
  /\ acks > 0 /\ cState \notin {"Prepare", "SendCtrl", "RcvInitAck"} =>
       Handed /\ (cfg.mode = "file" => cState \in EotSent)
  /\ Success => Handed /\ sState \in {"Confirm", "Done", "Killed"}
  /\ file = "complete" => cfg.full + 3 < CounterMod /\ (DiskWorks => stored = Payload(cfg))

DeliveryInv == TurnInv /\ Flight /\ Saved /\ Final

-----------------------------------------------------------------------------
(* Order numbers and frames *)

LEMMA OrderMeets ==
  ASSUME NEW p \in Nat, NEW n \in 1..(CounterMod - 1), p < n + CounterMod, Order(p) = n
  PROVE  p = n
BY BoundsAssumption DEF Order

LEMMA OrderNext ==
  ASSUME NEW p \in Nat, p + 1 < 2 * CounterMod
  PROVE  Inc(Order(p)) = Order(p + 1)
BY BoundsAssumption DEF Order, Inc

LEMMA AheadBound ==
  ASSUME TypeOK, Flight, FileComes, ClientOpen \/ c2s # <<>>
  PROVE  read + 2 < frame_order_nbr + CounterMod
<1>1. /\ read \in Nat /\ frame_order_nbr \in Nat /\ faults \in Nat /\ faults <= MaxFaults
      /\ Len(c2s) \in Nat
  BY BoundsAssumption DEF TypeOK
<1>2. Len(c2s) <= Cap + faults /\ read <= frame_order_nbr + Len(c2s) + faults
  BY DEF Flight
<1> QED
  BY <1>1, <1>2, BoundsAssumption

LEMMA Wider == \A a, b \in Nat : a <= b => 0..(a + 1) \subseteq 0..(b + 1)
OBVIOUS

\* Frames that were there before stay what they are.
LEMMA FramesFrom ==
  ASSUME cfg' = cfg, read \in Nat, read' \in Nat, read <= read',
         cState \in EotSent => cState' \in EotSent,
         \A i \in 1..Len(c2s') : c2s'[i].intact => \E j \in 1..Len(c2s) : c2s'[i] = c2s[j]
  PROVE  (AllFile => AllFile') /\ (AllText => AllText')
<1>1. ASSUME AllFile, NEW i \in 1..Len(c2s'), c2s'[i].intact
      PROVE  \E p \in 0..(read' + 1) : IsFrame(c2s[i], p)'
  <2>1. PICK j \in 1..Len(c2s) : c2s'[i] = c2s[j]
    BY <1>1
  <2>2. PICK p \in 0..(read + 1) : IsFrame(c2s[j], p)
    BY <1>1, <2>1 DEF AllFile
  <2>3. p \in 0..(read' + 1)
    BY <2>2, Wider, Zenon
  <2>4. IsFrame(c2s[i], p)'
    BY <2>1, <2>2 DEF IsFrame, Blocks, Order, EotSent, Ends
  <2> QED
    BY <2>3, <2>4
<1>2. ASSUME AllText PROVE AllText'
  BY <1>2 DEF AllText
<1> QED
  BY <1>1, <1>2 DEF AllFile

\* Nothing but a frame with this content is new in the buffers.
Appended(order, data, eot) ==
  \A i \in 1..Len(c2s') :
    \/ i \in 1..Len(c2s) /\ c2s'[i] = c2s[i]
    \/ c2s'[i].order = order /\ c2s'[i].data = data /\ c2s'[i].eot = eot

\* It is the frame of some number after the step.
Fits(order, data, eot) ==
  \E p \in 0..(read' + 1) :
    /\ order = Order(p)
    /\ \/ p = 0
       \/ p \in 1..Blocks(cfg) /\ data = <<p>>
       \/ data = <<>> /\ ~eot
       \/ data = <<>> /\ p = cfg.full + 2 /\ cState' \in EotSent

LEMMA NewFrame ==
  ASSUME c2s \in Seq(Frames), sOpen, NEW order, NEW data, NEW eot,
         SendDataFrame(order, data, eot)
  PROVE  /\ Len(c2s') = Len(c2s) + 1 /\ Len(c2s) < Cap /\ frameCounter' = order
         /\ UNCHANGED <<acks, sOpen, faults>>
         /\ Appended(order, data, eot)
<1> DEFINE f == [type |-> "data", order |-> order, data |-> data, eot |-> eot,
                 intact |-> TRUE, nonce |-> IF cfg.sv # "SV_PLAIN" THEN cNonce + 1 ELSE 0]
<1>1. /\ Len(c2s) < Cap /\ c2s' = c2s \o <<f>> /\ frameCounter' = order
      /\ UNCHANGED <<acks, sOpen, faults>>
  BY DEF SendDataFrame, Put
<1>2. f.order = order /\ f.data = data /\ f.eot = eot
  OBVIOUS
<1> HIDE DEF f
<1>3. Len(c2s') = Len(c2s) + 1
  BY <1>1
<1>4. ASSUME NEW i \in 1..Len(c2s')
      PROVE  \/ i \in 1..Len(c2s) /\ c2s'[i] = c2s[i]
             \/ c2s'[i] = f
  BY <1>1
<1> QED
  BY <1>1, <1>2, <1>3, <1>4 DEF Appended

\* It is the frame of a message, or one the server will refuse.
FitsText(order, data) == order = 1 => data = <<1>>

LEMMA FileAppended ==
  ASSUME NEW order, NEW data, NEW eot, Appended(order, data, eot), Fits(order, data, eot),
         cfg' = cfg, read \in Nat, read' \in Nat, read <= read',
         cState \in EotSent => cState' \in EotSent, AllFile
  PROVE  AllFile'
<1> SUFFICES ASSUME NEW i \in 1..Len(c2s'), c2s'[i].intact
             PROVE  \E q \in 0..(read' + 1) : IsFrame(c2s[i], q)'
  BY DEF AllFile
<1>1. CASE i \in 1..Len(c2s) /\ c2s'[i] = c2s[i]
  <2>1. PICK q \in 0..(read + 1) : IsFrame(c2s[i], q)
    BY <1>1 DEF AllFile
  <2>2. IsFrame(c2s[i], q)'
    BY <1>1, <2>1 DEF IsFrame, Blocks, Order, EotSent, Ends
  <2>3. q \in 0..(read' + 1)
    BY <2>1, Wider, Zenon
  <2> QED
    BY <2>2, <2>3
<1>2. CASE c2s'[i].order = order /\ c2s'[i].data = data /\ c2s'[i].eot = eot
  <2>1. PICK p \in 0..(read' + 1) :
          /\ order = Order(p)
          /\ \/ p = 0
             \/ p \in 1..Blocks(cfg) /\ data = <<p>>
             \/ data = <<>> /\ ~eot
             \/ data = <<>> /\ p = cfg.full + 2 /\ cState' \in EotSent
    BY DEF Fits
  <2>2. IsFrame(c2s[i], p)'
    BY <1>2, <2>1 DEF IsFrame, Blocks, Order, EotSent, Ends
  <2> QED
    BY <2>2
<1> QED
  BY <1>1, <1>2 DEF Appended

LEMMA TextAppended ==
  ASSUME NEW order, NEW data, NEW eot, Appended(order, data, eot), FitsText(order, data),
         AllText
  PROVE  AllText'
BY DEF AllText, Appended, FitsText

-----------------------------------------------------------------------------
(* Flight *)

LEMMA FlightHangsUp ==
  ASSUME DeliveryInv, cState' \in Ends, ClientHangsUp,
         UNCHANGED <<cfg, sState, ctrl_frame, frame_order_nbr, read, frameCounter>>
  PROVE  Flight'
<1> USE DEF DeliveryInv
<1>0. FileComes' <=> FileComes
  BY DEF FileComes, IoCipher
<1>1. /\ c2s' \in {c2s, <<>>} /\ faults' = faults
      /\ cState' \in EotSent /\ cState' \notin {"SendBlocks", "SendEot"} /\ ~ClientOpen'
  BY DEF ClientHangsUp, EotSent, Ends, ClientOpen
<1>2. /\ read \in Nat /\ faults \in Nat /\ frame_order_nbr \in Nat /\ Len(c2s) \in Nat
      /\ Len(<<>>) = 0
  BY BoundsAssumption, CtrlOfType DEF TurnInv, AdmitInv, TypeInv, TypeOK
<1>3. (AllFile => AllFile') /\ (AllText => AllText')
  <2>1. \A i \in 1..Len(c2s') : \E j \in 1..Len(c2s) : c2s'[i] = c2s[j]
    BY <1>1, <1>2
  <2> QED
    BY <1>1, <1>2, <2>1, FramesFrom
<1>4. FileComes => Len(c2s') <= Cap + faults
  BY <1>1, <1>2, BoundsAssumption DEF Flight
<1> QED
  BY <1>0, <1>1, <1>3, <1>4, EmptySeq DEF Flight

LEMMA FlightClient ==
  ASSUME DeliveryInv, ClientStep \/ ClientCrash
  PROVE  Flight'
<1> USE DEF DeliveryInv
<1>0. /\ c2s \in Seq(Frames) /\ read \in Nat /\ frame_order_nbr \in 0..(CounterMod - 1)
      /\ faults \in Nat /\ cfg.full \in Nat /\ cfg.tail \in BOOLEAN
      /\ cfg.mode \in {"file", "text"}
      /\ UNCHANGED <<cfg, sState, ctrl_frame, frame_order_nbr>>
      /\ FileComes' <=> FileComes
  <2>1. UNCHANGED <<cfg, sState, ctrl_frame, frame_order_nbr>>
    BY OthersKeepServer
  <2>2. FileComes' <=> FileComes
    BY <2>1 DEF FileComes, IoCipher
  <2> QED
    BY <2>1, <2>2, CtrlOfType, BoundsAssumption
    DEF TurnInv, AdmitInv, TypeInv, TypeOK, Frames, Transfers
<1>1. CASE ClientCrash
  BY <1>0, <1>1, FlightHangsUp DEF ClientCrash, Ends
<1>2. ASSUME NEW err, Stop(err) PROVE Flight'
  BY <1>0, <1>2, FlightHangsUp DEF Stop, Ends
\* steps that send nothing
<1>3. ASSUME UNCHANGED <<read, frameCounter, c2s, faults>>, ClientOpen,
             cState' \notin {"SendBlocks", "SendEot"}, cState \in EotSent => cState' \in EotSent
      PROVE  Flight'
  <2>1. (AllFile => AllFile') /\ (AllText => AllText')
    BY <1>0, <1>3, FramesFrom
  <2> QED
    BY <1>0, <1>3, <2>1 DEF Flight
<1>4. CASE Prepare
  <2>1. CASE UNCHANGED <<read, netVars, frameCounter>> /\ cState = "Prepare" /\ cState' = "SendCtrl"
    BY <1>3, <2>1 DEF netVars, ClientOpen, EotSent, Ends
  <2> QED
    BY <1>2, <1>4, <2>1 DEF Prepare
<1>5. CASE SendCtrl
  <2>1. sState \in {"RcvCtrl", "Done", "Killed"}
    BY <1>5 DEF SendCtrl, TurnInv, AdmitInv, TypeInv, Wire
  <2> QED
    BY <1>0, <2>1 DEF Flight, FileComes
<1>6. CASE RcvInitAck
  BY <1>3, <1>6 DEF RcvInitAck, ClientOpen, EotSent, Ends
<1>7. CASE OpenSource
  <2>1. CASE /\ UNCHANGED <<read, netVars, frameCounter>> /\ cState = "OpenSource"
             /\ cState' = IF cfg.mode = "file" THEN "SendName" ELSE "SendText"
    BY <1>3, <2>1 DEF netVars, ClientOpen, EotSent, Ends
  <2> QED
    BY <1>2, <1>7, <2>1 DEF OpenSource
<1>8. CASE RcvFinalAck
  BY <1>3, <1>8 DEF RcvFinalAck, ClientOpen, EotSent, Ends
<1>9. CASE WriteFails \/ AckTimeout
  BY <1>2, <1>9 DEF WriteFails, AckTimeout
\* steps that send a frame of a file
<1>10. ASSUME NEW order, NEW data, NEW eot, SendDataFrame(order, data, eot),
              ClientOpen, cfg.mode = "file", cState \notin EotSent,
              read' \in Nat, read <= read', read' <= read + 1,
              FileComes => Fits(order, data, eot),
              FileComes /\ cState' # "RcvFinalAck" =>
                order = Order(read')
       PROVE  Flight'
  <2>1. sState # "RcvText"
    BY <1>10 DEF TurnInv, AdmitInv, Admitted
  <2>2. SUFFICES ASSUME FileComes
                 PROVE  Flight'
    BY <1>0, <2>1 DEF Flight
  <2>3. sOpen
    BY <2>2 DEF TurnInv, Turns, FileComes
  <2>4. /\ Len(c2s') = Len(c2s) + 1 /\ Len(c2s) < Cap /\ frameCounter' = order
        /\ UNCHANGED <<acks, sOpen, faults>>
        /\ Appended(order, data, eot)
    BY <1>0, <1>10, <2>3, NewFrame
  <2>5. AllFile
    BY <2>2 DEF Flight
  <2>6. AllFile'
    BY <1>0, <1>10, <2>2, <2>4, <2>5, FileAppended
  <2>7. Len(c2s) \in Nat /\ read <= frame_order_nbr + Len(c2s) + faults
    BY <1>0, <1>10, <2>2 DEF Flight
  <2>8. /\ Len(c2s') <= Cap + faults'
        /\ read' <= frame_order_nbr' + Len(c2s') + faults'
    <3>1. Cap \in Nat /\ frame_order_nbr \in Nat /\ frame_order_nbr' = frame_order_nbr
      BY <1>0, BoundsAssumption
    <3>2. read' \in Nat /\ read' <= read + 1
      BY <1>10
    <3> QED
      BY <1>0, <2>4, <2>7, <3>1, <3>2
  <2>9. cState' # "RcvFinalAck" => frameCounter' = Order(read')
    BY <1>10, <2>2, <2>4
  <2> QED
    BY <1>0, <2>1, <2>6, <2>8, <2>9 DEF Flight, Order
\* the only data frame of a message, and the frame that ends it
<1>11. ASSUME NEW order, NEW data, NEW eot, SendDataFrame(order, data, eot),
              cfg.mode = "text", FitsText(order, data)
       PROVE  Flight'
  <2>1. ~FileComes
    BY <1>11 DEF TurnInv, AdmitInv, Admitted, FileComes
  <2>2. SUFFICES ASSUME sState = "RcvText" PROVE AllText'
    BY <1>0, <2>1 DEF Flight
  <2>3. sOpen /\ AllText
    BY <2>2 DEF TurnInv, Turns, Flight
  <2>4. Appended(order, data, eot)
    BY <1>0, <1>11, <2>3, NewFrame
  <2> QED
    BY <1>11, <2>3, <2>4, TextAppended
\* the order number of frame read + 1
<1>12. ASSUME FileComes, cState \in {"SendBlocks", "SendEot"}
       PROVE  Inc(frameCounter) = Order(read + 1)
  <2>1. frameCounter = Order(read)
    BY <1>12 DEF Flight
  <2>2. read + 2 < frame_order_nbr + CounterMod
    BY <1>12, AheadBound DEF TurnInv, AdmitInv, TypeInv, ClientOpen
  <2>3. read + 1 < 2 * CounterMod
    BY <1>0, <2>2, BoundsAssumption
  <2> QED
    BY <1>0, <2>1, <2>3, OrderNext
<1>13. CASE SendName
  <2>1. /\ SendDataFrame(0, <<0>>, FALSE) /\ read' = read /\ cState = "SendName"
        /\ cState' = "SendBlocks"
    BY <1>13 DEF SendName
  <2>2. cfg.mode = "file" /\ read = 0 /\ ClientOpen /\ cState \notin EotSent
    BY <2>1 DEF TurnInv, Turns, Early, ClientOpen, EotSent, Ends
  <2>3. Order(0) = 0
    BY BoundsAssumption DEF Order
  <2>4. 0 \in 0..(read' + 1)
    BY <2>1, <2>2
  <2>5. Fits(0, <<0>>, FALSE)
    BY <2>3, <2>4 DEF Fits
  <2>6. read' \in Nat /\ read <= read' /\ read' <= read + 1 /\ Order(read') = 0
    BY <2>1, <2>2, <2>3
  <2> QED
    BY <1>10, <2>1, <2>2, <2>5, <2>6
<1>14. CASE SendBlock
  <2>1. /\ cState = "SendBlocks" /\ read' = read + 1
        /\ (cState' = "SendBlocks" \/ cState' = "SendEot")
    BY <1>14, Zenon DEF SendBlock
  <2>2. PICK data : /\ SendDataFrame(Inc(frameCounter), data, FALSE)
                    /\ \/ data = <<>>
                       \/ data = <<read + 1>> /\ (read < cfg.full \/ (read = cfg.full /\ cfg.tail))
    BY <1>14 DEF SendBlock
  <2>3. cfg.mode = "file" /\ ClientOpen /\ cState \notin EotSent
    BY <2>1 DEF TurnInv, Turns, ClientOpen, EotSent, Ends
  <2>4. data = <<>> \/ (data = <<read + 1>> /\ read + 1 \in 1..Blocks(cfg))
    BY <1>0, <2>2 DEF Blocks
  <2>5. read' \in Nat /\ read <= read' /\ read' <= read + 1 /\ read + 1 \in 0..(read' + 1)
    BY <1>0, <2>1
  <2>6. ASSUME FileComes
        PROVE  Inc(frameCounter) = Order(read') /\ Fits(Inc(frameCounter), data, FALSE)
    <3>1. Inc(frameCounter) = Order(read + 1)
      BY <1>12, <2>1, <2>6
    <3> QED
      BY <2>1, <2>4, <2>5, <3>1 DEF Fits
  <2> QED
    BY <1>10, <2>2, <2>3, <2>5, <2>6
<1>15. CASE SendText
  <2>1. SendDataFrame(1, <<1>>, FALSE) /\ cState = "SendText"
    BY <1>15 DEF SendText
  <2>2. cfg.mode = "text"
    BY <2>1 DEF TurnInv, Turns
  <2>3. FitsText(1, <<1>>)
    BY DEF FitsText
  <2> QED
    BY <1>11, <2>1, <2>2, <2>3
<1>16. CASE SendEot
  <2>1. /\ SendDataFrame(Inc(frameCounter), <<>>, TRUE) /\ read' = read /\ cState = "SendEot"
        /\ cState' = "RcvFinalAck"
    BY <1>16 DEF SendEot
  <2>2. cState \notin EotSent /\ cState' \in EotSent /\ ClientOpen
    BY <2>1 DEF EotSent, Ends, ClientOpen
  <2>3. CASE cfg.mode = "text"
    <3>1. frameCounter = 1
      BY <2>1, <2>3 DEF TurnInv, Turns
    <3>2. FitsText(Inc(frameCounter), <<>>)
      BY <3>1, BoundsAssumption DEF Inc, FitsText
    <3> QED
      BY <1>11, <2>1, <2>3, <3>2
  <2>4. CASE cfg.mode = "file"
    <3>1. read = cfg.full + 1
      BY <2>1, <2>4 DEF TurnInv, Turns
    <3>2. cfg.full + 2 = read + 1 /\ cfg.full + 2 \in 0..(read' + 1)
      BY <1>0, <2>1, <3>1
    <3>3. FileComes => Fits(Inc(frameCounter), <<>>, TRUE)
      BY <1>12, <2>1, <2>2, <3>2 DEF Fits
    <3>4. read' \in Nat /\ read <= read' /\ read' <= read + 1
      BY <1>0, <2>1
    <3> QED
      BY <1>10, <2>1, <2>2, <2>4, <3>3, <3>4
  <2> QED
    BY <1>0, <2>3, <2>4
<1> QED
  BY <1>1, <1>4, <1>5, <1>6, <1>7, <1>8, <1>9, <1>13, <1>14, <1>15, <1>16 DEF ClientStep

LEMMA FlightFault ==
  ASSUME DeliveryInv, ChannelFault
  PROVE  Flight'
<1> USE DEF DeliveryInv
<1>1. /\ read \in Nat /\ faults \in Nat /\ frame_order_nbr \in Nat /\ c2s \in Seq(Frames)
      /\ Len(c2s) \in Nat /\ TypeOK
  BY BoundsAssumption DEF TurnInv, AdmitInv, TypeInv, TypeOK, Frames
<1>2. /\ UNCHANGED <<cfg, cState, read, frameCounter, sState, frame_order_nbr>>
      /\ faults' = faults + 1 /\ (FileComes' <=> FileComes)
  BY DEF ChannelFault, clientVars, serverVars, FileComes, IoCipher
<1>3. /\ c2s' \in Seq(Frames)
      /\ Len(c2s') <= Len(c2s) + 1 /\ Len(c2s) <= Len(c2s') + 1
      /\ \A i \in 1..Len(c2s') : c2s'[i].type = "data" /\ c2s'[i].intact =>
           \E j \in 1..Len(c2s) : c2s'[i] = c2s[j]
      /\ (\A i \in 1..Len(c2s) : c2s[i].type = "data")
           => \A i \in 1..Len(c2s') : c2s'[i].type = "data"
  BY <1>1, ChannelFaultType
<1>4. c2s # <<>>
  <2>1. \E i \in 1..Len(c2s) : TRUE
    BY DEF ChannelFault
  <2> QED
    BY <2>1, EmptySeq
<1>5. ASSUME sState \in {"RcvName", "RcvBlocks", "RcvText"}
      PROVE  (AllFile => AllFile') /\ (AllText => AllText')
  <2>1. \A i \in 1..Len(c2s) : c2s[i].type = "data"
    BY <1>5 DEF TurnInv, AdmitInv, TypeInv, Wire, Receiving
  <2>2. \A i \in 1..Len(c2s') : c2s'[i].intact => \E j \in 1..Len(c2s) : c2s'[i] = c2s[j]
    BY <1>3, <2>1
  <2> QED
    BY <1>1, <1>2, <2>2, FramesFrom
<1>6. ASSUME FileComes
      PROVE  Len(c2s') <= Cap + faults' /\ read' <= frame_order_nbr' + Len(c2s') + faults'
  <2>1. Len(c2s) <= Cap + faults /\ read <= frame_order_nbr + Len(c2s) + faults
    BY <1>4, <1>6 DEF Flight
  <2>2. Cap \in Nat /\ Len(c2s') \in Nat
    BY <1>3, BoundsAssumption
  <2> QED
    BY <1>1, <1>2, <1>3, <2>1, <2>2
<1>7. cState \in {"SendBlocks", "SendEot"} /\ FileComes
        => frameCounter' = Order(read')
  BY <1>2 DEF Flight, Order
<1>8. FileComes' =>
        /\ cState' \in {"SendBlocks", "SendEot"} => frameCounter' = Order(read')
        /\ AllFile'
        /\ Len(c2s') <= Cap + faults' /\ read' <= frame_order_nbr' + Len(c2s') + faults'
  <2>1. FileComes => AllFile'
    BY <1>5 DEF Flight, FileComes
  <2> QED
    BY <1>2, <1>6, <1>7, <2>1
<1>9. sState' = "RcvText" => AllText'
  BY <1>2, <1>5 DEF Flight
<1> QED
  BY <1>8, <1>9 DEF Flight

\* What is left after the first frame was read.
LEMMA RestFlies ==
  ASSUME DeliveryInv, c2s # <<>>, c2s' = Tail(c2s), UNCHANGED <<cfg, cState, read>>
  PROVE  /\ Len(c2s') = Len(c2s) - 1 /\ Len(c2s) \in Nat
         /\ (AllFile => AllFile') /\ (AllText => AllText')
<1>1. c2s \in Seq(Frames) /\ read \in Nat
  BY DEF DeliveryInv, TurnInv, AdmitInv, TypeInv, TypeOK, Frames
<1>2. \A i \in 1..Len(c2s') : i + 1 \in 1..Len(c2s) /\ c2s'[i] = c2s[i + 1]
  BY <1>1, TailType
<1>3. \A i \in 1..Len(c2s') : \E j \in 1..Len(c2s) : c2s'[i] = c2s[j]
  BY <1>2
<1>4. Len(c2s') = Len(c2s) - 1 /\ Len(c2s) \in Nat
  BY <1>1
<1>5. (AllFile => AllFile') /\ (AllText => AllText')
  BY <1>1, <1>3, FramesFrom
<1> QED
  BY <1>4, <1>5

\* The frame a file is written from, or ended by, is the one that is due.
LEMMA HeadFrame ==
  ASSUME DeliveryInv, sState = "RcvBlocks", c2s # <<>>,
         Outcome(Head(c2s), frame_order_nbr) # "error"
  PROVE  /\ Inc(frame_order_nbr) = frame_order_nbr + 1 /\ frame_order_nbr + 1 < CounterMod
         /\ Verified(Head(c2s), frame_order_nbr)
         /\ Outcome(Head(c2s), frame_order_nbr) = "data" =>
              Head(c2s).data = <<frame_order_nbr>> /\ frame_order_nbr \in 1..Blocks(cfg)
         /\ Outcome(Head(c2s), frame_order_nbr) = "eot" =>
              frame_order_nbr = cfg.full + 2 /\ cState \in EotSent
<1> DEFINE f == Head(c2s)
           n == frame_order_nbr
<1> USE DEF DeliveryInv
<1>1. /\ TypeOK /\ c2s \in Seq(Frames) /\ n \in 0..(CounterMod - 1) /\ read \in Nat
      /\ FileComes /\ TypeInv /\ CounterMod \in Nat
  BY BoundsAssumption
  DEF TurnInv, AdmitInv, Admitted, Entitled, FileComes, TypeInv, TypeOK, Frames
<1>2. f = c2s[1] /\ 1 \in 1..Len(c2s)
  BY <1>1, HeadTailProperties
<1>3. /\ f.intact /\ f.order = n /\ Inc(n) # 0 /\ Verified(f, n)
      /\ Outcome(f, n) = "data" => f.data # <<>>
      /\ Outcome(f, n) = "eot" => f.data = <<>> /\ f.eot
  BY <1>1, Accepted
<1>4. Inc(n) = n + 1 /\ n + 1 < CounterMod /\ n \in 1..(CounterMod - 1)
  BY <1>1, <1>3 DEF Inc, Saved
<1>5. PICK p \in 0..(read + 1) : IsFrame(f, p)
  BY <1>1, <1>2, <1>3 DEF Flight, AllFile
<1>6. p = n
  <2>1. read + 2 < n + CounterMod
    BY <1>1, AheadBound
  <2>2. p \in Nat /\ p < n + CounterMod
    BY <1>1, <1>5, <2>1
  <2>3. Order(p) = n
    BY <1>3, <1>5 DEF IsFrame
  <2> QED
    BY <1>4, <2>2, <2>3, OrderMeets
<1>7. \/ n \in 1..Blocks(cfg) /\ f.data = <<n>>
      \/ f.data = <<>> /\ ~f.eot
      \/ f.data = <<>> /\ n = cfg.full + 2 /\ cState \in EotSent
  BY <1>4, <1>5, <1>6 DEF IsFrame
<1>8. <<n>> # <<>>
  OBVIOUS
<1> QED
  BY <1>3, <1>4, <1>7, <1>8

LEMMA FlightServer ==
  ASSUME DeliveryInv, ServerStep \/ ServerKill
  PROVE  Flight'
<1> USE DEF DeliveryInv
<1>0. /\ c2s \in Seq(Frames) /\ read \in Nat /\ frame_order_nbr \in Nat /\ faults \in Nat
      /\ Cap \in Nat /\ UNCHANGED <<cfg, cState, read, frameCounter>>
  <2>1. UNCHANGED <<cfg, clientVars>>
    BY Zenon
    DEF ServerStep, ServerKill, RcvCtrlFrame, ReadIvAndKey, NoDecryption, AcceptConnection,
        ReadOn, RcvFilename, RcvBlock, RcvMessage, FinalAck, CloseConn, Reap
  <2> QED
    BY <2>1, BoundsAssumption DEF TurnInv, AdmitInv, TypeInv, TypeOK, Frames, clientVars
<1>1. ASSUME sState' \notin {"RcvName", "RcvBlocks", "RcvText"} PROVE Flight'
  BY <1>1 DEF Flight, FileComes
<1>2. CASE \/ RcvCtrlFrame \/ ReadIvAndKey \/ NoDecryption \/ FinalAck \/ CloseConn \/ Reap
           \/ ServerKill \/ RcvMessage
  <2>1. sState' \notin {"RcvName", "RcvBlocks", "RcvText"}
    BY <1>2, Zenon
    DEF RcvCtrlFrame, ReadIvAndKey, NoDecryption, FinalAck, SendAck, CloseConn, Reap, ServerKill,
        serverVars, RcvMessage
  <2> QED
    BY <1>1, <2>1
<1>3. CASE AcceptConnection
  <2>1. /\ sState = "Accept" /\ c2s' = <<>> /\ frame_order_nbr' = frame_order_nbr
        /\ faults' = faults
    BY <1>3 DEF AcceptConnection, SendAck, TurnInv, AdmitInv, TypeInv, Wire
  <2>2. read = 0 /\ cState \notin {"SendBlocks", "SendEot"}
    BY <2>1 DEF TurnInv, Turns, AdmitInv, TypeInv, Wire, Before, Ends
  <2>3. Len(c2s') = 0
    BY <2>1
  <2>4. AllFile' /\ AllText'
    BY <2>3 DEF AllFile, AllText
  <2>5. Len(c2s') <= Cap + faults' /\ read' <= frame_order_nbr' + Len(c2s') + faults'
    BY <1>0, <2>1, <2>2, <2>3
  <2> QED
    BY <1>0, <2>2, <2>4, <2>5 DEF Flight
<1>4. ASSUME c2s # <<>>, c2s' = Tail(c2s), faults' = faults,
             FileComes, sState' = "RcvBlocks", ctrl_frame' = ctrl_frame,
             frame_order_nbr' = frame_order_nbr + 1
      PROVE  Flight'
  <2>1. /\ Len(c2s') = Len(c2s) - 1 /\ Len(c2s) \in Nat
        /\ AllFile => AllFile'
    BY <1>0, <1>4, RestFlies
  <2>2. AllFile /\ Len(c2s) <= Cap + faults /\ read <= frame_order_nbr + Len(c2s) + faults
    BY <1>4 DEF Flight
  <2>3. Len(c2s') <= Cap + faults' /\ read' <= frame_order_nbr' + Len(c2s') + faults'
    BY <1>0, <1>4, <2>1, <2>2
  <2>4. cState' \in {"SendBlocks", "SendEot"} => frameCounter' = Order(read')
    BY <1>0, <1>4 DEF Flight, Order
  <2> QED
    BY <1>4, <2>1, <2>2, <2>3, <2>4 DEF Flight
<1>5. CASE RcvFilename
  <2>1. CASE ReadDataFrame(frame_order_nbr) /\ sState' = "RcvBlocks"
             /\ Outcome(Head(c2s), frame_order_nbr) = "data"
    <3>1. frame_order_nbr = 0 /\ sState = "RcvName" /\ ctrl_frame' = ctrl_frame /\ TypeInv
      BY <1>5 DEF RcvFilename, TurnInv, AdmitInv, Admitted, FileKept, Receiving
    <3>2. Verified(Head(c2s), frame_order_nbr) /\ Inc(0) = 1 /\ FileComes
      BY <2>1, <3>1, Accepted, BoundsAssumption DEF Inc, FileComes
    <3>3. c2s # <<>> /\ c2s' = Tail(c2s) /\ frame_order_nbr' = 1 /\ faults' = faults
      BY <1>5, <2>1, <3>1, <3>2 DEF ReadDataFrame, RcvFilename
    <3> QED
      BY <1>4, <2>1, <3>1, <3>2, <3>3
  <2>2. CASE sState' = "Close"
    BY <1>1, <2>2
  <2> QED
    BY <1>5, <2>1, <2>2 DEF RcvFilename
<1>6. CASE RcvBlock
  <2>1. CASE ReadDataFrame(frame_order_nbr) /\ sState' = sState
             /\ Outcome(Head(c2s), frame_order_nbr) = "data"
    <3>1. /\ sState = "RcvBlocks" /\ c2s # <<>> /\ c2s' = Tail(c2s) /\ faults' = faults
          /\ ctrl_frame' = ctrl_frame /\ FileComes
      BY <1>6, <2>1
      DEF RcvBlock, ReadDataFrame, TurnInv, AdmitInv, Admitted, Entitled, FileComes
    <3>2. Verified(Head(c2s), frame_order_nbr) /\ Inc(frame_order_nbr) = frame_order_nbr + 1
      BY <2>1, <3>1, HeadFrame
    <3>3. frame_order_nbr' = frame_order_nbr + 1
      BY <2>1, <3>2 DEF ReadDataFrame
    <3> QED
      BY <1>4, <2>1, <3>1, <3>3
  <2>2. CASE sState' \in {"FinalAck", "Close"}
    BY <1>1, <2>2
  <2> QED
    BY <1>6, <2>1, <2>2 DEF RcvBlock, DropFile
<1>7. CASE ReadOn
  <2>1. /\ ~FileComes /\ sState' = sState /\ ctrl_frame' = ctrl_frame
        /\ c2s # <<>> /\ c2s' = Tail(c2s)
    BY <1>7 DEF ReadOn, FileComes, serverVars
  <2>2. ~FileComes'
    BY <1>0, <2>1 DEF FileComes, IoCipher
  <2>3. AllText => AllText'
    BY <1>0, <2>1, RestFlies
  <2> QED
    BY <2>1, <2>2, <2>3 DEF Flight
<1> QED
  BY <1>2, <1>3, <1>5, <1>6, <1>7 DEF ServerStep

-----------------------------------------------------------------------------
(* What is in the file *)

LEMMA SavedStep ==
  ASSUME DeliveryInv, [Next]_vars
  PROVE  Saved'
<1> USE DEF DeliveryInv
<1>0. /\ stored \in Seq(0..(MaxBlocks + 1)) /\ Len(stored) \in Nat
      /\ frame_order_nbr \in Nat /\ cfg.room \in Nat /\ Blocks(cfg) \in Nat /\ TypeInv
      /\ StoredPrefix
  BY CtrlOfType DEF TurnInv, AdmitInv, TypeInv, TypeOK, Transfers, Blocks, Saved
<1>1. CASE ClientStep \/ ClientCrash \/ ChannelFault \/ UNCHANGED vars
  <2>1. UNCHANGED <<cfg, sState, frame_order_nbr, file, stored>>
    BY <1>1, OthersKeepServer
  <2> QED
    BY <2>1 DEF Saved, StoredPrefix, Blocks
<1>2. ASSUME cfg' = cfg, sState' # "RcvBlocks", stored' = stored PROVE Saved'
  BY <1>2 DEF Saved, StoredPrefix, Blocks
<1>3. ASSUME cfg' = cfg, sState' # "RcvBlocks", stored' = <<>> PROVE Saved'
  <2>1. Len(stored') = 0
    BY <1>3
  <2> QED
    BY <1>0, <1>3, <2>1 DEF Saved, StoredPrefix, Blocks
<1>4. CASE \/ RcvCtrlFrame \/ ReadIvAndKey \/ NoDecryption \/ AcceptConnection \/ ReadOn
           \/ RcvMessage \/ FinalAck \/ CloseConn \/ Reap
  <2>1. sState' # "RcvBlocks" /\ UNCHANGED <<cfg, stored>>
    BY <1>4
    DEF RcvCtrlFrame, ReadIvAndKey, NoDecryption, AcceptConnection, ReadOn, RcvMessage, FinalAck,
        CloseConn, Reap, SendAck, serverVars
  <2> QED
    BY <1>2, <2>1
<1>5. CASE RcvFilename
  <2>1. CASE ReadDataFrame(frame_order_nbr) /\ sState' = "RcvBlocks"
             /\ Outcome(Head(c2s), frame_order_nbr) = "data"
    <3>1. /\ frame_order_nbr = 0 /\ stored' = stored /\ cfg' = cfg
          /\ stored = <<>>
      BY <1>5 DEF RcvFilename, TurnInv, AdmitInv, Admitted, FileKept, Receiving
    <3>2. frame_order_nbr' = 1
      <4>1. Verified(Head(c2s), frame_order_nbr) /\ Inc(0) = 1
        BY <1>0, <2>1, <3>1, Accepted, BoundsAssumption DEF Inc
      <4> QED
        BY <2>1, <3>1, <4>1 DEF ReadDataFrame
    <3>3. Len(stored') = 0
      BY <3>1
    <3> QED
      BY <1>0, <3>1, <3>2, <3>3 DEF Saved, StoredPrefix, Blocks
  <2>2. CASE sState' = "Close"
    BY <1>2, <1>5, <2>2 DEF RcvFilename
  <2> QED
    BY <1>5, <2>1, <2>2 DEF RcvFilename
<1>6. CASE RcvBlock
  <2>0. cfg' = cfg /\ sState = "RcvBlocks"
    BY <1>6 DEF RcvBlock
  <2>1. CASE /\ ReadDataFrame(frame_order_nbr) /\ stored' = Write(Head(c2s).data)
             /\ Outcome(Head(c2s), frame_order_nbr) = "data" /\ UNCHANGED <<sState, file>>
    <3> DEFINE n == frame_order_nbr
    <3>1. /\ n \in 1..Blocks(cfg) /\ Head(c2s).data = <<n>>
          /\ Verified(Head(c2s), n) /\ Inc(n) = n + 1
      BY <2>0, <2>1, HeadFrame DEF ReadDataFrame
    <3>2. frame_order_nbr' = n + 1
      BY <2>1, <3>1 DEF ReadDataFrame
    <3>3. Len(stored) <= n - 1 /\ (file = "partial" => Len(stored) = n - 1 \/ Len(stored) >= cfg.room)
      BY <2>0 DEF Saved
    <3>4. CASE file = "partial" /\ Len(stored) < cfg.room
      <4>1. Len(stored) = n - 1
        BY <1>0, <3>3, <3>4
      <4>2. stored' = stored \o <<n>>
        BY <2>1, <3>1, <3>4 DEF Write
      <4>3. Len(stored') = n /\ \A i \in 1..n : stored'[i] = i
        <5>1. Len(stored') = n /\ n \in Nat
          BY <1>0, <3>1, <4>1, <4>2
        <5>2. \A i \in 1..n : stored'[i] = IF i <= n - 1 THEN stored[i] ELSE n
          BY <1>0, <3>1, <4>1, <4>2
        <5>3. \A i \in 1..(n - 1) : stored[i] = i
          BY <1>0, <4>1 DEF StoredPrefix
        <5> QED
          BY <5>1, <5>2, <5>3
      <4> QED
        BY <2>0, <3>1, <3>2, <4>3 DEF Saved, StoredPrefix, Blocks
    <3>5. CASE ~(file = "partial" /\ Len(stored) < cfg.room)
      <4>1. stored' = stored
        BY <2>1, <3>5 DEF Write
      <4>2. n \in Nat /\ file' = file
        BY <2>1, <3>1
      <4>3. StoredPrefix'
        BY <1>0, <2>0, <4>1 DEF StoredPrefix, Blocks
      <4>4. /\ frame_order_nbr' >= 1 /\ frame_order_nbr' - 1 <= Blocks(cfg)
            /\ Len(stored') <= frame_order_nbr' - 1
            /\ file = "partial" => Len(stored') >= cfg.room
        BY <1>0, <3>1, <3>2, <3>3, <3>5, <4>1, <4>2
      <4> QED
        BY <2>0, <4>2, <4>3, <4>4 DEF Saved, Blocks
    <3> QED
      BY <3>4, <3>5
  <2>2. CASE sState' = "FinalAck" /\ UNCHANGED stored
    BY <1>2, <2>0, <2>2
  <2>3. CASE DropFile
    BY <1>3, <2>0, <2>3 DEF DropFile
  <2> QED
    BY <1>6, <2>1, <2>2, <2>3 DEF RcvBlock
<1>7. CASE ServerKill
  <2>1. cfg' = cfg /\ sState' # "RcvBlocks"
    BY <1>7 DEF ServerKill
  <2>2. CASE stored' = stored
    BY <1>2, <2>1, <2>2
  <2>3. CASE \E n \in 0..Len(stored) : stored' = SubSeq(stored, 1, n)
    <3>1. PICK n \in 0..Len(stored) : stored' = SubSeq(stored, 1, n)
      BY <2>3
    <3>2. Len(stored') = n /\ \A i \in 1..n : stored'[i] = stored[i]
      BY <1>0, <3>1, SubSeqProperties
    <3> QED
      BY <1>0, <2>1, <3>1, <3>2 DEF Saved, StoredPrefix, Blocks
  <2> QED
    BY <1>7, <2>2, <2>3 DEF ServerKill
<1> QED
  BY <1>1, <1>4, <1>5, <1>6, <1>7 DEF Next, ServerStep, Finished

-----------------------------------------------------------------------------
(* What the final ACK means *)

\* The client has got its initial ACK, and there is an ACK to read.
FinalAckSent == acks > 0 /\ cState \notin {"Prepare", "SendCtrl", "RcvInitAck"}
Ready        == Handed /\ (cfg.mode = "file" => cState \in EotSent)

LEMMA HandedKept ==
  ASSUME UNCHANGED <<cfg, printed, file>>, file # "partial" => stored' = stored, Handed
  PROVE  Handed'
BY DEF Handed, DiskWorks, Delivered, Blocks, Payload

LEMMA NotYet ==
  ASSUME DeliveryInv, sState \notin {"Confirm", "Done", "Killed"}
  PROVE  ~Success /\ ~FinalAckSent
BY DEF DeliveryInv, TurnInv, Turns, Final, FinalAckSent

LEMMA FinalClient ==
  ASSUME DeliveryInv, ClientStep \/ ClientCrash
  PROVE  Final'
<1> USE DEF DeliveryInv
<1>0. /\ UNCHANGED <<cfg, sState, file, stored, printed>>
      /\ acks \in Nat /\ acks <= 1
  BY OthersKeepServer DEF TurnInv, AdmitInv, TypeInv, TypeOK, Turns
<1>1. ASSUME cState \in EotSent => cState' \in EotSent,
             FinalAckSent' => FinalAckSent,
             Success' => FinalAckSent
      PROVE  Final'
  <2>1. Handed => Handed'
    BY <1>0, HandedKept
  <2>2. FinalAckSent => Ready /\ sState \in {"Confirm", "Done", "Killed"}
    BY DEF Final, FinalAckSent, Ready, TurnInv, Turns
  <2>3. Ready => Ready'
    BY <1>0, <1>1, <2>1 DEF Ready, EotSent, Ends
  <2>4. sState' \in {"FinalAck", "Confirm"} => Ready'
    BY <1>0, <2>3 DEF Final, Ready
  <2>5. /\ FinalAckSent' => Ready'
        /\ Success' => Handed' /\ sState' \in {"Confirm", "Done", "Killed"}
    BY <1>0, <1>1, <2>2, <2>3 DEF Ready
  <2>6. file' = "complete" =>
          cfg'.full + 3 < CounterMod /\ (DiskWorks' => stored' = Payload(cfg'))
    BY <1>0 DEF Final, DiskWorks, Blocks, Payload
  <2> QED
    BY <2>4, <2>5, <2>6 DEF Final, FinalAckSent, Ready
<1>2. ASSUME NEW err \in {TRUE}, Stop(err) PROVE Final'
  <2>1. cState' = "Stopped" /\ cErr' = TRUE /\ acks' = 0
    BY <1>2 DEF Stop, ClientHangsUp
  <2> QED
    BY <1>1, <2>1 DEF FinalAckSent, Success, EotSent, Ends
<1>3. CASE ClientCrash
  <2>1. cState' = "Crashed" /\ acks' = 0
    BY <1>3 DEF ClientCrash, ClientHangsUp
  <2> QED
    BY <1>1, <2>1 DEF FinalAckSent, Success, EotSent, Ends
<1>4. CASE Prepare
  <2>1. CASE cState' = "SendCtrl" /\ cState = "Prepare"
    BY <1>1, <2>1 DEF FinalAckSent, Success, EotSent, Ends
  <2> QED
    BY <1>2, <1>4, <2>1 DEF Prepare
<1>5. CASE SendCtrl
  BY <1>1, <1>5 DEF SendCtrl, FinalAckSent, Success, EotSent, Ends
<1>6. CASE RcvInitAck
  <2>1. cState = "RcvInitAck" /\ cState' = "OpenSource" /\ ~(acks' > 0)
    BY <1>0, <1>6 DEF RcvInitAck
  <2> QED
    BY <1>1, <2>1 DEF FinalAckSent, Success, EotSent, Ends
<1>7. CASE OpenSource
  <2>1. CASE /\ cState' = IF cfg.mode = "file" THEN "SendName" ELSE "SendText"
             /\ cState = "OpenSource" /\ UNCHANGED netVars
    BY <1>1, <2>1 DEF netVars, FinalAckSent, Success, EotSent, Ends
  <2> QED
    BY <1>2, <1>7, <2>1 DEF OpenSource
<1>8. CASE SendName \/ SendBlock \/ SendText \/ SendEot
  <2>1. /\ cState \in {"SendName", "SendBlocks", "SendText", "SendEot"}
        /\ cState' \in {"SendBlocks", "SendEot", "RcvFinalAck"} /\ acks' = acks
    BY <1>8 DEF SendName, SendBlock, SendText, SendEot, SendDataFrame
  <2> QED
    BY <1>1, <2>1 DEF FinalAckSent, Success, EotSent, Ends
<1>9. CASE RcvFinalAck
  <2>1. cState = "RcvFinalAck" /\ cState' = "Stopped" /\ acks > 0 /\ ~(acks' > 0)
    BY <1>0, <1>9 DEF RcvFinalAck
  <2> QED
    BY <1>1, <2>1 DEF FinalAckSent, EotSent, Ends
<1>10. CASE WriteFails \/ AckTimeout
  BY <1>2, <1>10 DEF WriteFails, AckTimeout
<1> QED
  BY <1>3, <1>4, <1>5, <1>6, <1>7, <1>8, <1>9, <1>10 DEF ClientStep

\* A file that is ended by its EOT frame is whole, and small enough.
LEMMA EotComplete ==
  ASSUME DeliveryInv, sState = "RcvBlocks", c2s # <<>>,
         Outcome(Head(c2s), frame_order_nbr) = "eot"
  PROVE  /\ cState \in EotSent /\ cfg.full + 3 < CounterMod
         /\ DiskWorks => file = "partial" /\ stored = Payload(cfg)
<1> USE DEF DeliveryInv
<1>1. /\ frame_order_nbr = cfg.full + 2 /\ cState \in EotSent
      /\ frame_order_nbr + 1 < CounterMod
  BY HeadFrame
<1>2. /\ cfg.full \in Nat /\ cfg.tail \in BOOLEAN /\ cfg.room \in Nat /\ CounterMod \in Nat
      /\ stored \in Seq(0..(MaxBlocks + 1)) /\ cfg.mode = "file"
  BY CtrlOfType, BoundsAssumption
  DEF TurnInv, AdmitInv, Admitted, TypeInv, TypeOK, Transfers
<1>3. ASSUME DiskWorks PROVE file = "partial" /\ stored = Payload(cfg)
  <2>1. cfg.dir /\ Blocks(cfg) <= cfg.room
    BY <1>2, <1>3 DEF DiskWorks
  <2>2. file = "partial"
    BY <2>1 DEF TurnInv, AdmitInv, FileKept
  <2>3. /\ frame_order_nbr - 1 <= Blocks(cfg) /\ Len(stored) <= frame_order_nbr - 1
        /\ Len(stored) = frame_order_nbr - 1 \/ Len(stored) >= cfg.room
    BY <2>2 DEF Saved
  <2>4. Len(stored) = Blocks(cfg)
    BY <1>1, <1>2, <2>1, <2>3 DEF Blocks
  <2>5. \A i \in 1..Len(stored) : stored[i] = i
    BY DEF Saved, StoredPrefix
  <2>6. stored = [i \in 1..Blocks(cfg) |-> i]
    BY <1>2, <2>4, <2>5
  <2> QED
    BY <1>2, <2>2, <2>6 DEF Payload
<1> QED
  BY <1>1, <1>2, <1>3

LEMMA FinalServer ==
  ASSUME DeliveryInv, ServerStep \/ ServerKill
  PROVE  Final'
<1> USE DEF DeliveryInv
<1>0. acks \in Nat /\ UNCHANGED <<cfg, cState, cErr>>
  <2>1. UNCHANGED <<cfg, clientVars>>
    BY Zenon
    DEF ServerStep, ServerKill, RcvCtrlFrame, ReadIvAndKey, NoDecryption, AcceptConnection,
        ReadOn, RcvFilename, RcvBlock, RcvMessage, FinalAck, CloseConn, Reap
  <2> QED
    BY <2>1 DEF TurnInv, AdmitInv, TypeInv, TypeOK, clientVars
<1>1. /\ (Success' <=> Success) /\ (DiskWorks' <=> DiskWorks)
      /\ cState' \in EotSent <=> cState \in EotSent
      /\ Payload(cfg') = Payload(cfg) /\ cfg'.full = cfg.full
  BY <1>0 DEF Success, DiskWorks, Blocks, EotSent, Ends
\* the final ACK has not been sent, and is not sent now
<1>2. ASSUME sState \notin {"Confirm", "Done", "Killed"}, acks' = acks,
             sState' \in {"FinalAck", "Confirm"} => Ready',
             file' = "complete" => cfg.full + 3 < CounterMod /\ (DiskWorks => stored' = Payload(cfg))
      PROVE  Final'
  <2>1. ~Success /\ ~FinalAckSent
    BY <1>2, NotYet
  <2> QED
    BY <1>0, <1>1, <1>2, <2>1 DEF Final, FinalAckSent, Ready
\* the file and the printed message stay as they are
<1>3. ASSUME UNCHANGED <<file, printed>>, file # "partial" => stored' = stored,
             FinalAckSent' => FinalAckSent \/ sState = "FinalAck",
             sState' \in {"FinalAck", "Confirm"} => sState \in {"FinalAck", "Confirm"},
             sState \in {"Confirm", "Done", "Killed"} => sState' \in {"Confirm", "Done", "Killed"}
      PROVE  Final'
  <2>1. Handed => Handed'
    BY <1>0, <1>3, HandedKept
  <2>2. Ready => Ready'
    BY <1>0, <1>1, <2>1 DEF Ready
  <2>3. sState' \in {"FinalAck", "Confirm"} => Ready'
    BY <1>3, <2>2 DEF Final, Ready
  <2>4. FinalAckSent' => Ready'
    BY <1>3, <2>2 DEF Final, Ready, FinalAckSent
  <2>5. Success' => Handed' /\ sState' \in {"Confirm", "Done", "Killed"}
    BY <1>1, <1>3, <2>1 DEF Final
  <2>6. file' = "complete" =>
          cfg'.full + 3 < CounterMod /\ (DiskWorks' => stored' = Payload(cfg'))
    BY <1>1, <1>3 DEF Final
  <2> QED
    BY <2>3, <2>4, <2>5, <2>6 DEF Final, FinalAckSent, Ready
<1>4. CASE RcvCtrlFrame \/ ReadIvAndKey
  <2>1. /\ UNCHANGED <<file, printed, stored, acks>> /\ sState \in {"RcvCtrl", "ReadIv"}
        /\ sState' \notin {"FinalAck", "Confirm"}
    BY <1>4 DEF RcvCtrlFrame, ReadIvAndKey
  <2> QED
    BY <1>0, <1>3, <2>1 DEF FinalAckSent
<1>5. CASE AcceptConnection
  <2>1. /\ UNCHANGED <<file, printed, stored>> /\ sState = "Accept"
        /\ sState' \in {"RcvName", "RcvText", "Close"}
        /\ acks' = acks \/ ClientOpen
    BY <1>5 DEF AcceptConnection, SendAck
  <2>2. cState \in {"Prepare", "SendCtrl", "RcvInitAck"} \cup Ends
    BY <2>1 DEF TurnInv, AdmitInv, TypeInv, Wire
  <2>3. FinalAckSent' => FinalAckSent
    BY <1>0, <2>1, <2>2 DEF FinalAckSent, ClientOpen, Ends
  <2> QED
    BY <1>3, <2>1, <2>3
<1>6. CASE RcvFilename
  <2>1. /\ sState = "RcvName" /\ acks' = acks /\ UNCHANGED <<stored, printed>>
        /\ sState' \in {"RcvBlocks", "Close"}
        /\ file' = file \/ file' \in {"partial", "absent"}
    BY <1>6 DEF RcvFilename
  <2>2. file # "complete"
    BY <2>1 DEF TurnInv, AdmitInv, FileKept
  <2> QED
    BY <1>2, <2>1, <2>2
<1>7. CASE RcvBlock
  <2>1. sState = "RcvBlocks" /\ acks' = acks /\ printed' = printed
    BY <1>7 DEF RcvBlock
  <2>2. file # "complete" /\ cfg.mode = "file"
    BY <2>1 DEF TurnInv, AdmitInv, FileKept, Admitted
  <2>3. CASE UNCHANGED <<sState, file>>
    BY <1>2, <2>1, <2>2, <2>3
  <2>4. CASE DropFile
    BY <1>2, <2>1, <2>4 DEF DropFile
  <2>5. CASE /\ ReadDataFrame(frame_order_nbr) /\ sState' = "FinalAck"
             /\ Outcome(Head(c2s), frame_order_nbr) = "eot"
             /\ file' = IF file = "partial" THEN "complete" ELSE file
             /\ UNCHANGED stored
    <3>1. /\ cState \in EotSent /\ cfg.full + 3 < CounterMod
          /\ DiskWorks => file = "partial" /\ stored = Payload(cfg)
      BY <2>1, <2>5, EotComplete DEF ReadDataFrame
    <3>2. DiskWorks => file' = "complete" /\ stored' = Payload(cfg)
      BY <2>5, <3>1
    <3>3. Ready'
      BY <1>0, <1>1, <2>2, <3>1, <3>2 DEF Ready, Handed, Delivered
    <3> QED
      BY <1>2, <2>1, <2>5, <3>1, <3>2, <3>3
  <2> QED
    BY <1>7, <2>3, <2>4, <2>5 DEF RcvBlock
<1>8. CASE RcvMessage
  <2>1. sState = "RcvText" /\ acks' = acks /\ UNCHANGED <<file, stored>>
    BY <1>8 DEF RcvMessage
  <2>2. /\ cfg.mode = "text" /\ TypeInv /\ file # "complete"
        /\ c2s \in Seq(Frames)
    BY <2>1 DEF TurnInv, AdmitInv, Admitted, FileKept, Receiving, TypeInv, TypeOK, Frames
  <2>3. CASE sState' = "Close"
    BY <1>2, <2>1, <2>2, <2>3
  <2>4. CASE /\ ReadDataFrame(1) /\ Outcome(Head(c2s), 1) # "error" /\ sState' = "FinalAck"
             /\ printed' = Head(c2s).data
    <3>1. c2s # <<>> /\ Head(c2s) = c2s[1] /\ 1 \in 1..Len(c2s)
      BY <2>2, <2>4, HeadTailProperties DEF ReadDataFrame
    <3>2. Head(c2s).intact /\ Head(c2s).order = 1
      BY <2>2, <2>4, Accepted
    <3>3. printed' = <<1>>
      BY <2>1, <2>4, <3>1, <3>2 DEF Flight, AllText
    <3>4. Ready'
      BY <1>0, <1>1, <2>2, <3>3 DEF Ready, Handed, Delivered, Payload
    <3> QED
      BY <1>2, <2>1, <2>2, <3>4
  <2> QED
    BY <1>8, <2>3, <2>4 DEF RcvMessage
<1>9. CASE FinalAck
  <2>1. UNCHANGED <<file, printed, stored>> /\ sState = "FinalAck" /\ sState' = "Confirm"
    BY <1>9 DEF FinalAck, SendAck
  <2> QED
    BY <1>3, <2>1
<1>10. CASE NoDecryption \/ CloseConn \/ Reap \/ ServerKill
  <2>1. /\ UNCHANGED <<file, printed>> /\ sState' \in {"Done", "Killed"}
        /\ acks' = acks \/ acks' = 0
    BY <1>0, <1>10, HangsUpAcks DEF NoDecryption, CloseConn, Reap, ServerKill, serverVars
  <2>2. file # "partial" => stored' = stored
    BY <1>10 DEF NoDecryption, CloseConn, Reap, ServerKill, serverVars
  <2>3. FinalAckSent' => FinalAckSent
    BY <1>0, <2>1 DEF FinalAckSent
  <2> QED
    BY <1>3, <2>1, <2>2, <2>3
<1>11. CASE ReadOn
  <2>1. UNCHANGED <<file, printed, stored, acks, sState>>
    BY <1>11 DEF ReadOn, serverVars
  <2> QED
    BY <1>0, <1>3, <2>1 DEF FinalAckSent
<1> QED
  BY <1>4, <1>5, <1>6, <1>7, <1>8, <1>9, <1>10, <1>11 DEF ServerStep

-----------------------------------------------------------------------------
(* The theorems *)

LEMMA DeliveryInit == Init => DeliveryInv
<1> SUFFICES ASSUME Init PROVE Flight /\ Saved /\ Final
  BY TurnInit DEF DeliveryInv
<1>1. cfg.full \in Nat /\ Blocks(cfg) \in Nat /\ Len(stored) = 0
  BY ConfigsAssumption DEF Init, Transfers, Blocks
<1>2. Flight
  BY DEF Init, Flight, FileComes
<1>3. Saved
  BY <1>1 DEF Init, Saved, StoredPrefix
<1>4. Final
  BY DEF Init, Final, Success
<1> QED
  BY <1>2, <1>3, <1>4

LEMMA DeliveryStep == DeliveryInv /\ [Next]_vars => DeliveryInv'
<1> SUFFICES ASSUME DeliveryInv, [Next]_vars PROVE DeliveryInv'
  OBVIOUS
<1>1. TurnInv' /\ Saved'
  BY TurnStep, SavedStep DEF DeliveryInv
<1>2. Flight' /\ Final'
  <2>1. CASE ClientStep \/ ClientCrash
    BY <2>1, FlightClient, FinalClient
  <2>2. CASE ServerStep \/ ServerKill
    BY <2>2, FlightServer, FinalServer
  <2>3. CASE ChannelFault \/ UNCHANGED vars
    <3>1. UNCHANGED <<cfg, cState, cErr, sState, file, stored, printed, acks>>
      BY <2>3, Zenon DEF ChannelFault, vars, clientVars, serverVars, netVars
    <3>2. Final'
      BY <3>1
      DEF DeliveryInv, Final, Handed, DiskWorks, Delivered, Success, Blocks, Payload, EotSent, Ends
    <3>3. Flight'
      <4>1. CASE UNCHANGED vars
        BY <4>1
        DEF vars, clientVars, serverVars, netVars, DeliveryInv, Flight, AllFile, AllText, IsFrame,
            FileComes, IoCipher, Blocks, Order, EotSent, Ends, ClientOpen
      <4> QED
        BY <2>3, <4>1, FlightFault
    <3> QED
      BY <3>2, <3>3
  <2> QED
    BY <2>1, <2>2, <2>3 DEF Next, Finished
<1> QED
  BY <1>1, <1>2 DEF DeliveryInv

\* A successful client has its whole payload on the server, whatever was lost,
\* damaged, repeated or put into another order, if the disk took it.
THEOREM DeliveryCorrect == Spec => []AckedDelivery
<1>1. DeliveryInv => AckedDelivery
  BY DEF DeliveryInv, Final, Handed, AckedDelivery
<1> QED
  BY <1>1, DeliveryInit, DeliveryStep, PTL DEF Spec

\* At any time the file being received is a prefix of the source.
THEOREM PrefixCorrect == Spec => []StoredPrefix
<1>1. DeliveryInv => StoredPrefix
  BY DEF DeliveryInv, Saved
<1> QED
  BY <1>1, DeliveryInit, DeliveryStep, PTL DEF Spec

\* A transfer that is over has left a whole file or none, and a file that was
\* there before is never touched.
THEOREM LeftoversCorrect == Spec => []NoLeftovers
<1>1. DeliveryInv => NoLeftovers
  BY DEF DeliveryInv, TurnInv, AdmitInv, FileKept, Final, Receiving, NoLeftovers
<1> QED
  BY <1>1, DeliveryInit, DeliveryStep, PTL DEF Spec

\* The client never takes one ACK for the other, and sends no data before the
\* server has accepted the connection.
THEOREM AcksCorrect == Spec => []AcksApart
<1>1. DeliveryInv => AcksApart
  <2> SUFFICES ASSUME DeliveryInv PROVE AcksApart
    OBVIOUS
  <2> USE DEF DeliveryInv, TurnInv, AdmitInv, TypeInv
  <2>1. acks <= 1
    BY DEF Turns
  <2>2. ASSUME acks = 1, cState \in {"SendName", "SendBlocks", "SendEot"}
        PROVE  cfg.mode = "text" /\ printed = Payload(cfg)
    <3>1. Handed /\ (cfg.mode = "file" => cState \in EotSent)
      BY <2>2 DEF Final
    <3>2. cfg.mode = "text"
      BY <2>2, <3>1, CtrlOfType DEF EotSent, Ends, Transfers
    <3> QED
      BY <3>1, <3>2 DEF Handed, DiskWorks, Delivered
  <2>3. ASSUME NEW i \in 1..Len(c2s), c2s[i].type = "data"
        PROVE  sState \notin {"RcvCtrl", "ReadIv", "Accept"}
    <3>1. sState = "RcvCtrl" => c2s[i].type \in {"ctrl", "iv"}
      BY DEF Wire, Sent, CtrlFrames
    <3>2. sState = "ReadIv" => c2s[i].type = "iv"
      BY DEF Wire
    <3>3. sState = "Accept" => FALSE
      BY EmptySeq DEF Wire
    <3> QED
      BY <2>3, <3>1, <3>2, <3>3
  <2> QED
    BY <2>1, <2>2, <2>3 DEF AcksApart
<1> QED
  BY <1>1, DeliveryInit, DeliveryStep, PTL DEF Spec

\* No file is accepted whose frames need an order number twice.
THEOREM RolloverCorrect == Spec => []RolloverRefused
<1>1. DeliveryInv => RolloverRefused
  BY DEF DeliveryInv, Final, RolloverRefused
<1> QED
  BY <1>1, DeliveryInit, DeliveryStep, PTL DEF Spec

-----------------------------------------------------------------------------
(* The contract: where the disk works, every step of a transfer is one of     *)
(* module Upload or leaves what that module sees as it is.                    *)

Outcomes == IF Success THEN "success" ELSE IF ClientOpen THEN "pending" ELSE "failure"

\* Who runs decides what may change: the client only the outcome, the server
\* only the delivery, and that once.
LEMMA ClientReports ==
  ASSUME DeliveryInv, DiskWorks, ClientStep \/ ClientCrash
  PROVE  /\ Delivered' = Delivered
         /\ \/ Outcomes' = Outcomes
            \/ /\ Outcomes = "pending"
               /\ Outcomes' = "failure" \/ (Outcomes' = "success" /\ Delivered)
<1>1. UNCHANGED <<cfg, file, stored, printed>>
  BY OthersKeepServer
<1>2. Delivered' = Delivered
  BY <1>1 DEF Delivered, Payload, Blocks
<1>3. ClientOpen
  BY Zenon
  DEF ClientStep, ClientCrash, Prepare, SendCtrl, RcvInitAck, OpenSource, SendName, SendBlock,
      SendText, SendEot, RcvFinalAck, WriteFails, AckTimeout, ClientOpen
<1>4. Outcomes = "pending"
  BY <1>3 DEF Outcomes, Success, ClientOpen
<1>5. Outcomes' \in {"pending", "failure", "success"}
  BY DEF Outcomes
<1>6. ASSUME Outcomes' = "success" PROVE Delivered
  <2>1. Final'
    BY FinalClient
  <2>2. Success'
    BY <1>6 DEF Outcomes
  <2>3. Delivered'
    BY <1>1, <2>1, <2>2 DEF Final, Handed, DiskWorks, Blocks
  <2> QED
    BY <1>2, <2>3
<1> QED
  BY <1>2, <1>4, <1>5, <1>6

LEMMA ServerDelivers ==
  ASSUME DeliveryInv, ServerStep \/ ServerKill
  PROVE  Outcomes' = Outcomes /\ (Delivered => Delivered')
<1> USE DEF DeliveryInv
<1>1. UNCHANGED <<cfg, cState, cErr>>
  <2>1. UNCHANGED <<cfg, clientVars>>
    BY Zenon
    DEF ServerStep, ServerKill, RcvCtrlFrame, ReadIvAndKey, NoDecryption, AcceptConnection,
        ReadOn, RcvFilename, RcvBlock, RcvMessage, FinalAck, CloseConn, Reap
  <2> QED
    BY <2>1 DEF clientVars
<1>2. Outcomes' = Outcomes
  BY <1>1 DEF Outcomes, Success, ClientOpen
<1>3. ASSUME UNCHANGED <<file, printed>>, file = "complete" => stored' = stored
      PROVE  Delivered => Delivered'
  BY <1>1, <1>3 DEF Delivered, Payload, Blocks
<1>4. CASE \/ RcvCtrlFrame \/ ReadIvAndKey \/ NoDecryption \/ AcceptConnection \/ ReadOn
           \/ FinalAck \/ CloseConn \/ Reap \/ ServerKill
  <2>1. UNCHANGED <<file, printed>> /\ (file = "complete" => stored' = stored)
    BY <1>4
    DEF RcvCtrlFrame, ReadIvAndKey, NoDecryption, AcceptConnection, ReadOn, FinalAck, CloseConn,
        Reap, ServerKill, serverVars
  <2> QED
    BY <1>2, <1>3, <2>1
\* while the server receives there is no delivery that it could undo
<1>5. CASE RcvFilename \/ RcvBlock \/ RcvMessage
  <2>1. sState \in {"RcvName", "RcvBlocks", "RcvText"}
    BY <1>5 DEF RcvFilename, RcvBlock, RcvMessage
  <2>2. file # "complete" /\ (sState = "RcvText" => printed = <<>> /\ cfg.mode = "text")
        /\ (sState # "RcvText" => cfg.mode = "file")
    BY <2>1 DEF TurnInv, AdmitInv, Admitted, FileKept
  <2>3. ~Delivered
    BY <2>2 DEF Delivered, Payload
  <2> QED
    BY <1>2, <2>3
<1> QED
  BY <1>2, <1>4, <1>5 DEF ServerStep

\* A transfer on a working disk does what Upload allows: the payload is taken
\* over once and for good, and a success is reported only afterwards.
THEOREM UploadCorrect == Spec /\ DiskWorks => Contract!SafetySpec
<1>1. Init => Contract!Init
  <2> SUFFICES ASSUME Init PROVE ~Delivered /\ Outcomes = "pending"
    BY DEF Contract!Init, Outcomes
  <2> QED
    BY DEF Init, Delivered, Payload, Outcomes, Success, ClientOpen
<1>2. DeliveryInv /\ DiskWorks /\ [Next]_vars => DiskWorks'
  <2> SUFFICES ASSUME DiskWorks, [Next]_vars PROVE DiskWorks'
    OBVIOUS
  <2>1. cfg' = cfg
    BY Zenon
    DEF Next, vars, Finished, ClientStep, ClientCrash, ServerStep, ServerKill, ChannelFault,
        Prepare, SendCtrl, RcvInitAck, OpenSource, SendName, SendBlock, SendText, SendEot,
        RcvFinalAck, WriteFails, AckTimeout, Stop, SendDataFrame,
        RcvCtrlFrame, ReadIvAndKey, NoDecryption, AcceptConnection, ReadOn, RcvFilename,
        RcvBlock, RcvMessage, FinalAck, CloseConn, Reap
  <2> QED
    BY <2>1 DEF DiskWorks, Blocks
<1>3. DeliveryInv /\ DiskWorks /\ [Next]_vars => [Contract!Next]_(Contract!vars)
  <2> SUFFICES ASSUME DeliveryInv, DiskWorks, [Next]_vars
               PROVE  [Contract!Next]_(Contract!vars)
    OBVIOUS
  <2>0. Delivered \in BOOLEAN /\ Delivered' \in BOOLEAN
    BY DEF Delivered
  <2>1. CASE ClientStep \/ ClientCrash
    <3>1. /\ Delivered' = Delivered
          /\ \/ Outcomes' = Outcomes
             \/ /\ Outcomes = "pending"
                /\ Outcomes' = "failure" \/ (Outcomes' = "success" /\ Delivered)
      BY <2>1, ClientReports
    <3> QED
      BY <3>1
      DEF Outcomes, Contract!Next, Contract!Deliver, Contract!Report, Contract!Succeed,
          Contract!Fail, Contract!vars
  <2>2. CASE ServerStep \/ ServerKill
    <3>1. Outcomes' = Outcomes /\ (Delivered => Delivered')
      BY <2>2, ServerDelivers
    <3> QED
      BY <2>0, <3>1 DEF Outcomes, Contract!Next, Contract!Deliver, Contract!vars
  <2>3. CASE ChannelFault \/ UNCHANGED vars
    <3>1. UNCHANGED <<cfg, cState, cErr, file, stored, printed>>
      BY <2>3, Zenon DEF ChannelFault, vars, clientVars, serverVars
    <3>2. Delivered' = Delivered /\ Outcomes' = Outcomes
      BY <3>1 DEF Delivered, Payload, Blocks, Outcomes, Success, ClientOpen
    <3> QED
      BY <3>2 DEF Outcomes, Contract!vars
  <2> QED
    BY <2>1, <2>2, <2>3 DEF Next, Finished
<1> QED
  BY <1>1, <1>2, <1>3, DeliveryInit, DeliveryStep, PTL DEF Spec, Contract!SafetySpec
-----------------------------------------------------------------------------
(* Last part: both sides in step.  Every frame the client sends and every   *)
(* frame the server takes moves one frame number and, if the connection is  *)
(* encrypted, one nonce, so what is between the sides is in the buffers.    *)

Apart == read + 1 = frame_order_nbr + Len(c2s)
Keyed == cfg.sv # "SV_PLAIN" => cNonce = sNonce + Len(c2s)

Steps ==
  /\ cState \in Early => cNonce = 0
  /\ sState \in Before \cup {"RcvName"} => sNonce = 0
  /\ faults = 0 /\ sState \in {"RcvName", "RcvBlocks"} /\ cState \in {"SendBlocks", "SendEot"} =>
       Apart /\ Keyed

StepsInv == DeliveryInv /\ Steps

LEMMA StepsInit == Init => StepsInv
<1> SUFFICES ASSUME Init PROVE Steps
  BY DeliveryInit DEF StepsInv
<1> QED
  BY DEF Init, Steps, Early

\* The effect of a frame sent on the distance between the sides.
LEMMA SentApart ==
  ASSUME c2s \in Seq(Frames), sOpen, cNonce \in Nat, sNonce \in Nat,
         NEW order, NEW data, NEW eot, SendDataFrame(order, data, eot)
  PROVE  /\ Len(c2s') = Len(c2s) + 1
         /\ UNCHANGED <<cfg, frame_order_nbr, sNonce, faults>>
         /\ Keyed => Keyed'
<1>1. Len(c2s') = Len(c2s) + 1 /\ faults' = faults
  BY NewFrame
<1>2. /\ cNonce' = (IF cfg.sv # "SV_PLAIN" THEN cNonce + 1 ELSE 0)
      /\ UNCHANGED <<cfg, frame_order_nbr, sNonce>>
  BY DEF SendDataFrame, serverVars
<1>3. Len(c2s) \in Nat
  OBVIOUS
<1>4. ASSUME Keyed, cfg.sv # "SV_PLAIN" PROVE cNonce' = sNonce' + Len(c2s')
  <2>1. cNonce = sNonce + Len(c2s) /\ cNonce' = cNonce + 1 /\ sNonce' = sNonce
    BY <1>2, <1>4 DEF Keyed
  <2> QED
    BY <1>1, <1>3, <2>1
<1>5. Keyed => Keyed'
  BY <1>2, <1>4, Zenon DEF Keyed
<1> QED
  BY <1>1, <1>2, <1>5

LEMMA StepsClient ==
  ASSUME StepsInv, ClientStep \/ ClientCrash
  PROVE  Steps'
<1> USE DEF StepsInv, DeliveryInv, TurnInv, AdmitInv, TypeInv
<1>0. /\ c2s \in Seq(Frames) /\ read \in Nat /\ frame_order_nbr \in Nat
      /\ cNonce \in Nat /\ sNonce \in Nat /\ cfg.mode \in {"file", "text"}
      /\ UNCHANGED <<cfg, sState, sNonce, frame_order_nbr>>
  BY CtrlOfType, OthersKeepServer, BoundsAssumption DEF TypeOK, Frames, Transfers
\* steps that send no data frame
<1>1. ASSUME cState' \notin {"SendBlocks", "SendEot"},
             cState' \in Early => cState \in Early /\ cNonce' = cNonce
      PROVE  Steps'
  BY <1>0, <1>1 DEF Steps
<1>2. ASSUME NEW err, Stop(err) PROVE Steps'
  BY <1>1, <1>2 DEF Stop, Early
<1>3. CASE Prepare
  <2>1. CASE cState = "Prepare" /\ cState' = "SendCtrl" /\ cNonce' = cNonce
    BY <1>1, <2>1 DEF Early
  <2> QED
    BY <1>2, <1>3, <2>1 DEF Prepare
<1>4. CASE SendCtrl \/ RcvInitAck \/ RcvFinalAck \/ ClientCrash
  <2>1. /\ cState' \in {"RcvInitAck", "OpenSource", "Stopped", "Crashed"}
        /\ cNonce' = cNonce
        /\ cState \in {"SendCtrl", "RcvInitAck"} \/ cState' \in {"Stopped", "Crashed"}
    BY <1>4 DEF SendCtrl, RcvInitAck, RcvFinalAck, ClientCrash
  <2> QED
    BY <1>1, <2>1 DEF Early
<1>5. CASE OpenSource
  <2>1. CASE /\ cState = "OpenSource" /\ cNonce' = cNonce
             /\ cState' = IF cfg.mode = "file" THEN "SendName" ELSE "SendText"
    BY <1>1, <2>1 DEF Early
  <2> QED
    BY <1>2, <1>5, <2>1 DEF OpenSource
<1>6. CASE WriteFails \/ AckTimeout
  BY <1>2, <1>6 DEF WriteFails, AckTimeout
<1>7. CASE SendEot
  BY <1>1, <1>7 DEF SendEot, Early
<1>8. CASE SendName
  <2>1. SendDataFrame(0, <<0>>, FALSE) /\ cState = "SendName" /\ cState' = "SendBlocks" /\ read' = read
    BY <1>8 DEF SendName
  <2>2. SUFFICES ASSUME sState \in {"RcvName", "RcvBlocks"} PROVE Apart' /\ Keyed'
    BY <1>0, <2>1 DEF Steps, Early, Before
  <2>3. /\ read = 0 /\ cNonce = 0 /\ c2s = <<>> /\ sOpen
        /\ sState = "RcvName" /\ sNonce = 0 /\ frame_order_nbr = 0
    BY <2>1, <2>2 DEF Turns, Steps, Early, Receiving, Before, FileKept
  <2>4. Keyed
    BY <2>3 DEF Keyed
  <2>5. Len(c2s') = Len(c2s) + 1 /\ Keyed'
    BY <1>0, <2>1, <2>3, <2>4, SentApart
  <2>6. Len(c2s) = 0
    BY <2>3
  <2> QED
    BY <1>0, <2>1, <2>3, <2>5, <2>6 DEF Apart
<1>9. CASE SendBlock
  <2>1. /\ cState = "SendBlocks" /\ read' = read + 1 /\ cState' \in {"SendBlocks", "SendEot"}
        /\ \E data : SendDataFrame(Inc(frameCounter), data, FALSE)
    BY <1>9, Zenon DEF SendBlock
  <2>2. SUFFICES ASSUME faults' = 0, sState \in {"RcvName", "RcvBlocks"} PROVE Apart' /\ Keyed'
    BY <1>0, <2>1 DEF Steps, Early, Before
  <2>3. PICK data : SendDataFrame(Inc(frameCounter), data, FALSE)
    BY <2>1
  <2>4. sOpen
    BY <2>2 DEF Turns
  <2>5. Len(c2s') = Len(c2s) + 1 /\ faults' = faults /\ (Keyed => Keyed')
    BY <1>0, <2>3, <2>4, SentApart
  <2>6. Apart /\ Keyed
    BY <2>1, <2>2, <2>5 DEF Steps
  <2>7. Len(c2s) \in Nat
    BY <1>0
  <2>8. Apart'
    BY <1>0, <2>1, <2>5, <2>6, <2>7 DEF Apart
  <2> QED
    BY <2>5, <2>6, <2>8
<1>10. CASE SendText
  <2>1. /\ cState = "SendText" /\ cState' = "SendEot"
    BY <1>10 DEF SendText
  <2>2. sState \notin {"RcvName", "RcvBlocks"}
    BY <2>1 DEF Turns, Admitted
  <2> QED
    BY <1>0, <2>1, <2>2 DEF Steps, Early
<1> QED
  BY <1>3, <1>4, <1>5, <1>6, <1>7, <1>8, <1>9, <1>10 DEF ClientStep

LEMMA StepsServer ==
  ASSUME StepsInv, ServerStep \/ ServerKill
  PROVE  Steps'
<1> USE DEF StepsInv, DeliveryInv, TurnInv, AdmitInv, TypeInv
<1>0. /\ c2s \in Seq(Frames) /\ read \in Nat /\ frame_order_nbr \in Nat
      /\ cNonce \in Nat /\ sNonce \in Nat
      /\ UNCHANGED <<cfg, cState, read, cNonce>>
  <2>1. UNCHANGED <<cfg, clientVars>>
    BY Zenon
    DEF ServerStep, ServerKill, RcvCtrlFrame, ReadIvAndKey, NoDecryption, AcceptConnection,
        ReadOn, RcvFilename, RcvBlock, RcvMessage, FinalAck, CloseConn, Reap
  <2> QED
    BY <2>1, BoundsAssumption DEF TypeOK, Frames, clientVars
<1>1. ASSUME sState' \notin Before \cup {"RcvName", "RcvBlocks"} PROVE Steps'
  BY <1>0, <1>1 DEF Steps, Early
<1>2. CASE FinalAck \/ NoDecryption \/ CloseConn \/ ServerKill \/ Reap \/ RcvMessage
  <2>1. sState' \notin Before \cup {"RcvName", "RcvBlocks"}
    BY <1>2
    DEF FinalAck, SendAck, NoDecryption, CloseConn, Reap, ServerKill, serverVars, RcvMessage,
        Before
  <2> QED
    BY <1>1, <2>1
<1>3. CASE RcvCtrlFrame \/ ReadIvAndKey \/ AcceptConnection
  <2>1. /\ sState \in Before /\ sState' # "RcvBlocks" /\ UNCHANGED sNonce
    BY <1>3, Zenon DEF RcvCtrlFrame, ReadIvAndKey, AcceptConnection, SendAck, Before
  <2>2. cState \notin {"SendBlocks", "SendEot"}
    BY <2>1 DEF Wire, Before, Ends
  <2> QED
    BY <1>0, <2>1, <2>2 DEF Steps
\* a frame that was taken
<1>4. ASSUME c2s # <<>>, ReadDataFrame(frame_order_nbr), faults' = faults,
             sState \in {"RcvName", "RcvBlocks"}, sState' = "RcvBlocks",
             Outcome(Head(c2s), frame_order_nbr) = "data"
      PROVE  Steps'
  <2>1. IoEncrypted(ctrl_frame) <=> cfg.sv # "SV_PLAIN"
    BY <1>4, Accepted DEF IoEncrypted
  <2>2. Verified(Head(c2s), frame_order_nbr) /\ Inc(frame_order_nbr) # 0
    BY <1>4, Accepted
  <2>3. /\ frame_order_nbr' = frame_order_nbr + 1
        /\ cfg.sv # "SV_PLAIN" => sNonce' = sNonce + 1
    BY <1>4, <2>1, <2>2 DEF ReadDataFrame, Inc
  <2>4. Len(c2s') = Len(c2s) - 1 /\ Len(c2s) \in Nat
    BY <1>0, <1>4, RestFlies DEF ReadDataFrame
  <2>5. Apart => Apart'
    BY <1>0, <2>3, <2>4 DEF Apart
  <2>6. ASSUME Keyed, cfg.sv # "SV_PLAIN" PROVE cNonce' = sNonce' + Len(c2s')
    <3>1. cNonce = sNonce + Len(c2s)
      BY <2>6 DEF Keyed
    <3> QED
      BY <1>0, <2>3, <2>4, <2>6, <3>1
  <2>7. Keyed => Keyed'
    BY <1>0, <2>6, Zenon DEF Keyed
  <2> QED
    BY <1>0, <1>4, <2>5, <2>7 DEF Steps, Early, Before
<1>5. CASE RcvFilename
  <2>1. CASE ReadDataFrame(frame_order_nbr) /\ sState' = "RcvBlocks"
             /\ Outcome(Head(c2s), frame_order_nbr) = "data"
    <3>1. c2s # <<>> /\ sState = "RcvName" /\ faults' = faults
      BY <1>5, <2>1 DEF RcvFilename, ReadDataFrame
    <3> QED
      BY <1>4, <2>1, <3>1
  <2>2. CASE sState' = "Close"
    BY <1>1, <2>2 DEF Before
  <2> QED
    BY <1>5, <2>1, <2>2 DEF RcvFilename
<1>6. CASE RcvBlock
  <2>1. CASE ReadDataFrame(frame_order_nbr) /\ sState' = sState
             /\ Outcome(Head(c2s), frame_order_nbr) = "data"
    <3>1. c2s # <<>> /\ sState = "RcvBlocks" /\ faults' = faults
      BY <1>6, <2>1 DEF RcvBlock, ReadDataFrame
    <3> QED
      BY <1>4, <2>1, <3>1
  <2>2. CASE sState' \in {"FinalAck", "Close"}
    BY <1>1, <2>2 DEF Before
  <2> QED
    BY <1>6, <2>1, <2>2 DEF RcvBlock, DropFile
\* only a damaged control frame makes the ciphers differ
<1>7. CASE ReadOn
  <2>1. /\ sState \in {"RcvName", "RcvText"} /\ IoCipher(ctrl_frame) # cfg.sv
        /\ UNCHANGED <<sState, sNonce, faults>>
    BY <1>7 DEF ReadOn, serverVars
  <2>2. faults # 0
    BY <2>1, SameCipher DEF Admitted, Receiving
  <2> QED
    BY <1>0, <2>1, <2>2 DEF Steps, Early
<1> QED
  BY <1>2, <1>3, <1>5, <1>6, <1>7 DEF ServerStep

LEMMA StepsStep == StepsInv /\ [Next]_vars => StepsInv'
<1> SUFFICES ASSUME StepsInv, [Next]_vars PROVE Steps'
  BY DeliveryStep DEF StepsInv
<1>1. CASE ChannelFault
  <2>1. faults' # 0
    BY <1>1 DEF StepsInv, DeliveryInv, TurnInv, AdmitInv, TypeInv, TypeOK, ChannelFault
  <2> QED
    BY <1>1, <2>1 DEF ChannelFault, clientVars, serverVars, StepsInv, Steps
<1>2. CASE UNCHANGED vars
  BY <1>2 DEF vars, clientVars, serverVars, netVars, StepsInv, Steps, Apart, Keyed
<1> QED
  BY <1>1, <1>2, StepsClient, StepsServer DEF Next, Finished

\* While no frame was damaged, lost, repeated or swapped, enc and dec never
\* fall out of step, nor do the two frame counters, for files of every size
\* and whether or not the client's counter has rolled over.
THEOREM LockstepCorrect == Spec => []Lockstep
<1>1. ASSUME StepsInv, faults = 0, sState \in {"RcvName", "RcvBlocks"},
             cState \in {"SendBlocks", "SendEot"}
      PROVE  /\ frameCounter + 1 \in {frame_order_nbr + Len(c2s),
                                      (frame_order_nbr + Len(c2s)) - CounterMod}
             /\ Keyed
  <2>1. Apart /\ Keyed
    BY <1>1 DEF StepsInv, Steps
  <2>2. frameCounter = read \/ frameCounter = read - CounterMod
    <3>1. FileComes
      BY <1>1, SameCipher
      DEF StepsInv, DeliveryInv, TurnInv, AdmitInv, TypeInv, Admitted, Receiving, FileComes
    <3> QED
      BY <1>1, <3>1 DEF StepsInv, DeliveryInv, Flight, Order
  <2>3. read \in Nat /\ CounterMod \in Nat /\ frame_order_nbr \in Nat /\ Len(c2s) \in Nat
    BY <1>1, BoundsAssumption
    DEF StepsInv, DeliveryInv, TurnInv, AdmitInv, TypeInv, TypeOK, Frames
  <2>4. \/ frameCounter + 1 = frame_order_nbr + Len(c2s)
        \/ frameCounter + 1 = (frame_order_nbr + Len(c2s)) - CounterMod
    BY <2>1, <2>2, <2>3 DEF Apart
  <2> QED
    BY <2>1, <2>4
<1>2. StepsInv => Lockstep
  BY <1>1, Zenon DEF Lockstep, Keyed
<1> QED
  BY <1>2, StepsInit, StepsStep, PTL DEF Spec

-----------------------------------------------------------------------------
(* The end *)

\* A transfer takes no more steps than there is work left at its start, however long
\* the file is, and whatever waits run out, frames are lost or programs are killed:
\* neither control loop ever goes back to what it has done.
THEOREM StepsCount == Spec => EveryStepCounts
<1>1. TurnInv /\ [Next]_vars => [WorkLeft' \in 0..(WorkLeft - 1)]_vars
  <2> SUFFICES ASSUME TurnInv, [Next]_vars, vars' # vars PROVE WorkLeft' \in 0..(WorkLeft - 1)
    OBVIOUS
  <2>1. TypeInv /\ (cState = "SendText" => read = 0)
    BY DEF TurnInv, AdmitInv, Turns, Early
  <2> QED
    BY <2>1, StepWorks
<1> QED
  BY <1>1, TurnInit, TurnStep, PTL DEF Spec, EveryStepCounts
=============================================================================
