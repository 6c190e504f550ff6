--------------------------- MODULE TransferProofs ---------------------------
(***************************************************************************)
(* Proofs about module Transfer, for every set of transfers, every size of *)
(* the source, of the buffers and of the frame counter, and any number of  *)
(* faults of the channel.                                                  *)
(***************************************************************************)
EXTENDS Transfer, TLAPS, SequenceTheorems

Frames == CtrlFrames \cup IvFrames \cup DataFrames

-----------------------------------------------------------------------------
(* What the connection carries in each state of the server.  TypeOK is not  *)
(* inductive without it: the type of what the server reads depends on the   *)
(* client having sent the right thing.                                      *)

Ends      == {"Stopped", "Crashed"}
Receiving == {"RcvName", "RcvBlocks", "RcvText", "FinalAck", "Confirm", "Close"}

\* A control frame as the client sent it, but for what a fault may have damaged.
Sent(f) ==
  /\ f \in CtrlFrames /\ f.flags = CtrlOf(cfg).flags
  /\ faults = 0 => f = CtrlOf(cfg)

Wire ==
  /\ cState \in {"Prepare", "SendCtrl"} =>
       c2s = <<>> /\ acks = 0 /\ sState \in {"RcvCtrl", "Done", "Killed"}
  /\ sState \in {"RcvCtrl", "ReadIv", "Accept"} =>
       /\ acks = 0
       /\ cState \in {"Prepare", "SendCtrl", "RcvInitAck"} \cup Ends
  /\ sState = "RcvCtrl" =>
       \A i \in 1..Len(c2s) :
         IF i = 1 THEN Sent(c2s[i])
                  ELSE i = 2 /\ c2s[i].type = "iv" /\ cfg.sv # "SV_PLAIN"
  /\ sState = "ReadIv" => \A i \in 1..Len(c2s) : i = 1 /\ c2s[i].type = "iv"
  /\ sState = "Accept" => c2s = <<>>
  /\ sState \in Receiving => \A i \in 1..Len(c2s) : c2s[i].type = "data"

LEMMA CtrlOfType ==
  ASSUME TypeOK
  PROVE  /\ CtrlOf(cfg) \in CtrlFrames
         /\ CtrlOf(cfg).type = "ctrl" /\ CtrlOf(cfg).sv \in SecurityVersions
         /\ cfg \in Transfers /\ Sent(CtrlOf(cfg))
<1>1. cfg \in Transfers /\ cfg.sv \in SecurityVersions
  BY ConfigsAssumption DEF TypeOK, Transfers
<1>2. proVersionLookupMap[cfg.sv] \in ProtocolVersions
  BY <1>1 DEF proVersionLookupMap, SecurityVersions, ProtocolVersions
<1>3. CtrlOf(cfg).flags \in SUBSET (1..4)
  BY DEF CtrlOf, FLAG_NEW_TRANSMISSION, FLAG_ENCRYPTED, FLAG_BINARY_TRANSMISSION
<1>4. CtrlOf(cfg) \in CtrlFrames
  BY <1>1, <1>2, <1>3 DEF CtrlOf, CtrlFrames, TransmissionID
<1> QED
  BY <1>1, <1>4 DEF CtrlOf, Sent

\* What was sent does not change with the frames on their way.
LEMMA CtrlKept == cfg' = cfg => CtrlOf(cfg)' = CtrlOf(cfg)
BY DEF CtrlOf

LEMMA PutType ==
  ASSUME NEW fs \in Seq(Frames), Put(fs), c2s \in Seq(Frames)
  PROVE  /\ c2s' \in Seq(Frames)
         /\ \A i \in 1..Len(c2s') :
              \/ i \in 1..Len(c2s) /\ c2s'[i] = c2s[i]
              \/ i - Len(c2s) \in 1..Len(fs) /\ c2s'[i] = fs[i - Len(c2s)]
<1>1. CASE sOpen
  <2>1. c2s' = c2s \o fs
    BY <1>1 DEF Put
  <2> QED
    BY <2>1, ConcatProperties
<1>2. CASE ~sOpen
  BY <1>2 DEF Put
<1> QED
  BY <1>1, <1>2

LEMMA SendDataFrameType ==
  ASSUME TypeOK, NEW order \in 0..(CounterMod - 1),
         NEW data \in {<<>>} \cup {<<i>> : i \in 0..(MaxBlocks + 1)},
         NEW eot \in BOOLEAN, SendDataFrame(order, data, eot)
  PROVE  /\ c2s' \in Seq(Frames) /\ cNonce' \in Nat /\ frameCounter' = order
         /\ \A i \in 1..Len(c2s') :
              \/ i \in 1..Len(c2s) /\ c2s'[i] = c2s[i]
              \/ c2s'[i].type = "data"
<1> DEFINE nonce == IF cfg.sv # "SV_PLAIN" THEN cNonce + 1 ELSE 0
           f == [type |-> "data", order |-> order, data |-> data, eot |-> eot,
                 intact |-> TRUE, nonce |-> nonce]
<1>1. nonce \in Nat
  BY DEF TypeOK
<1>2. f \in DataFrames
  BY <1>1 DEF DataFrames
<1>3. <<f>> \in Seq(Frames) /\ Len(<<f>>) = 1 /\ <<f>>[1] = f /\ f.type = "data"
  BY <1>2 DEF Frames
<1>4. Put(<<f>>) /\ cNonce' = nonce /\ frameCounter' = order
  BY DEF SendDataFrame
<1>5. c2s \in Seq(Frames)
  BY DEF TypeOK, Frames
<1> HIDE DEF f, nonce
<1>6. /\ c2s' \in Seq(Frames)
      /\ \A i \in 1..Len(c2s') :
           \/ i \in 1..Len(c2s) /\ c2s'[i] = c2s[i]
           \/ i - Len(c2s) \in 1..Len(<<f>>) /\ c2s'[i] = <<f>>[i - Len(c2s)]
  BY <1>3, <1>4, <1>5, PutType
<1> QED
  BY <1>1, <1>3, <1>4, <1>6

LEMMA TailType ==
  ASSUME c2s \in Seq(Frames), c2s # <<>>, c2s' = Tail(c2s)
  PROVE  /\ c2s' \in Seq(Frames)
         /\ Head(c2s) = c2s[1] /\ 1 \in 1..Len(c2s) /\ Head(c2s) \in Frames
         /\ \A i \in 1..Len(c2s') : i + 1 \in 1..Len(c2s) /\ c2s'[i] = c2s[i + 1]
BY HeadTailProperties

LEMMA FunctionIsSeq ==
  ASSUME NEW S, NEW n \in Nat, NEW g \in [1..n -> S]
  PROVE  g \in Seq(S) /\ Len(g) = n
OBVIOUS

LEMMA DataFields ==
  ASSUME NEW f \in Frames
  PROVE  /\ f.type = "data" => f \in DataFrames
         /\ f.type = "iv" => f \in IvFrames
         /\ f.type = "ctrl" => f \in CtrlFrames
BY DEF Frames, DataFrames, IvFrames, CtrlFrames

LEMMA DataIsSeq ==
  ASSUME NEW f \in DataFrames
  PROVE  f.data \in Seq(0..(MaxBlocks + 1))
<1>1. f.data = <<>> \/ \E i \in 0..(MaxBlocks + 1) : f.data = <<i>>
  BY DEF DataFrames
<1>2. CASE f.data = <<>>
  BY <1>2, EmptySeq
<1>3. CASE \E i \in 0..(MaxBlocks + 1) : f.data = <<i>>
  <2>1. PICK i \in 0..(MaxBlocks + 1) : f.data = <<i>>
    BY <1>3
  <2>2. <<i>> \in Seq(0..(MaxBlocks + 1))
    OBVIOUS
  <2> QED
    BY <2>1, <2>2
<1> QED
  BY <1>1, <1>2, <1>3

LEMMA PrefixIsSeq ==
  ASSUME NEW S, NEW s \in Seq(S), NEW n \in 0..Len(s)
  PROVE  SubSeq(s, 1, n) \in Seq(S)
<1>1. n \in Nat /\ n <= Len(s) /\ Len(s) \in Nat
  OBVIOUS
<1>2. \A i \in 1..n : s[i] \in S
  BY <1>1
<1> QED
  BY <1>1, <1>2, SubSeqProperties

LEMMA ClientHangsUpType ==
  ASSUME c2s \in Seq(Frames), acks \in Nat, sOpen \in BOOLEAN, faults \in 0..MaxFaults,
         ClientHangsUp
  PROVE  /\ c2s' \in Seq(Frames) /\ acks' = 0 /\ sOpen' = sOpen /\ faults' = faults
         /\ c2s' \in {c2s, <<>>}
<1>1. <<>> \in Seq(Frames)
  BY EmptySeq
<1>2. c2s' \in {c2s, <<>>}
  BY Zenon DEF ClientHangsUp
<1> QED
  BY <1>1, <1>2 DEF ClientHangsUp

LEMMA ServerHangsUpType ==
  ASSUME c2s \in Seq(Frames), acks \in Nat, sOpen \in BOOLEAN, faults \in 0..MaxFaults,
         ServerHangsUp
  PROVE  /\ c2s' = <<>> /\ c2s' \in Seq(Frames) /\ sOpen' = FALSE /\ sOpen' \in BOOLEAN
         /\ acks' \in Nat /\ (acks = 0 => acks' = 0) /\ faults' = faults
<1>1. acks' = acks \/ acks' = 0
  BY Zenon DEF ServerHangsUp
<1>2. c2s' = <<>> /\ sOpen' = FALSE /\ faults' = faults
  BY DEF ServerHangsUp
<1>3. acks' \in Nat /\ (acks = 0 => acks' = 0)
  BY <1>1
<1>4. sOpen' \in BOOLEAN
  BY <1>2, Zenon
<1>5. c2s' \in Seq(Frames)
  BY <1>2, EmptySeq
<1> QED
  BY <1>2, <1>3, <1>4, <1>5

\* What a fault does to the sequence: every frame left is one that was there,
\* or a damaged copy of it, and the frames that are not data stay in place.
LEMMA ChannelFaultType ==
  ASSUME TypeOK, ChannelFault
  PROVE  /\ c2s' \in Seq(Frames) /\ faults' \in 0..MaxFaults
         /\ Len(c2s') <= Len(c2s) + 1 /\ Len(c2s) <= Len(c2s') + 1
         /\ \A i \in 1..Len(c2s') : c2s'[i].type = "data" /\ c2s'[i].intact =>
              \E j \in 1..Len(c2s) : c2s'[i] = c2s[j]
         /\ (\A i \in 1..Len(c2s) : c2s[i].type = "data")
              => \A i \in 1..Len(c2s') : c2s'[i].type = "data"
         /\ (\A i \in 1..Len(c2s) : c2s[i].type # "data")
              => /\ Len(c2s') = Len(c2s)
                 /\ \A i \in 1..Len(c2s) :
                      /\ c2s'[i].type = c2s[i].type
                      /\ c2s[i].type = "ctrl" => c2s'[i].flags = c2s[i].flags
<1>1. c2s \in Seq(Frames) /\ faults' \in 0..MaxFaults /\ MaxBlocks \in Nat
  BY BoundsAssumption DEF TypeOK, Frames, ChannelFault
<1>2. PICK i \in 1..Len(c2s) : Corrupt(i) \/ Lose(i) \/ Duplicate(i) \/ Reorder(i)
  BY DEF ChannelFault
<1>3. c2s[i] \in Frames /\ Len(c2s) \in Nat /\ i \in Nat
  BY <1>1, <1>2
<1>4. ASSUME NEW e \in Frames, e.type = c2s[i].type, c2s' = [c2s EXCEPT ![i] = e]
      PROVE  /\ c2s' \in Seq(Frames) /\ Len(c2s') = Len(c2s)
             /\ \A j \in 1..Len(c2s) : IF j = i THEN c2s'[j] = e ELSE c2s'[j] = c2s[j]
  BY <1>1, <1>2, <1>4, ExceptSeq
<1>5. CASE Corrupt(i) /\ c2s[i].type = "data"
  <2> DEFINE e == [c2s[i] EXCEPT !.intact = FALSE, !.data = <<0>>]
  <2>1. c2s[i] \in DataFrames
    BY <1>3, <1>5, DataFields
  <2>2. e \in DataFrames
    <3>1. <<0>> \in {<<k>> : k \in 0..(MaxBlocks + 1)}
      BY <1>1
    <3> QED
      BY <2>1, <3>1 DEF DataFrames
  <2>3. c2s' = [c2s EXCEPT ![i] = e]
    BY <1>5 DEF Corrupt
  <2>4. e \in Frames /\ e.type = "data" /\ ~e.intact
    BY <2>1, <2>2 DEF Frames, DataFrames
  <2> HIDE DEF e
  <2> QED
    BY <1>1, <1>4, <1>5, <2>3, <2>4
<1>10. CASE Corrupt(i) /\ c2s[i].type = "ctrl"
  <2>1. PICK e \in DamagedCtrl(c2s[i]) : c2s' = [c2s EXCEPT ![i] = e]
    BY <1>10 DEF Corrupt, DataAt
  <2>2. c2s[i] \in CtrlFrames
    BY <1>3, <1>10, DataFields
  <2>3. e \in CtrlFrames /\ e.flags = c2s[i].flags /\ e.type = "ctrl"
    BY <2>2 DEF DamagedCtrl, CtrlFrames
  <2>4. e \in Frames
    BY <2>3 DEF Frames
  <2> QED
    BY <1>1, <1>4, <1>10, <2>1, <2>3, <2>4
<1>6. CASE Corrupt(i) /\ c2s[i].type \notin {"data", "ctrl"}
  <2> DEFINE e == [c2s[i] EXCEPT !.intact = FALSE]
  <2>1. c2s[i].type = "iv" /\ c2s' = [c2s EXCEPT ![i] = e]
    BY <1>6 DEF Corrupt, DataAt
  <2>2. c2s[i] \in IvFrames
    BY <1>3, <2>1, DataFields
  <2>3. e \in IvFrames
    BY <2>2 DEF IvFrames
  <2>4. e \in Frames /\ e.type = "iv" /\ ~e.intact
    BY <2>2, <2>3 DEF Frames, IvFrames
  <2> HIDE DEF e
  <2> QED
    BY <1>1, <1>4, <1>6, <2>1, <2>4
<1>7. CASE Lose(i)
  <2>1. c2s' = [j \in 1..(Len(c2s) - 1) |-> IF j < i THEN c2s[j] ELSE c2s[j + 1]]
        /\ c2s[i].type = "data"
    BY <1>7 DEF Lose, DataAt
  <2>2. Len(c2s) - 1 \in Nat
    BY <1>2, <1>3
  <2>3. \A j \in 1..(Len(c2s) - 1) : c2s[j] \in Frames /\ c2s[j + 1] \in Frames
    BY <1>1
  <2>4. c2s' \in [1..(Len(c2s) - 1) -> Frames]
    BY <2>1, <2>3
  <2>5. c2s' \in Seq(Frames) /\ Len(c2s') = Len(c2s) - 1
    BY <2>2, <2>4, FunctionIsSeq
  <2> QED
    BY <1>1, <1>2, <1>3, <2>1, <2>5
<1>8. CASE Duplicate(i)
  <2>1. c2s' = [j \in 1..(Len(c2s) + 1) |-> IF j <= i THEN c2s[j] ELSE c2s[j - 1]]
        /\ c2s[i].type = "data"
    BY <1>8 DEF Duplicate, DataAt
  <2>2. Len(c2s) + 1 \in Nat
    BY <1>3
  <2>3. \A j \in 1..(Len(c2s) + 1) :
          /\ j <= i => c2s[j] \in Frames
          /\ ~(j <= i) => c2s[j - 1] \in Frames
    BY <1>1, <1>2
  <2>4. c2s' \in [1..(Len(c2s) + 1) -> Frames]
    BY <2>1, <2>3
  <2>5. c2s' \in Seq(Frames) /\ Len(c2s') = Len(c2s) + 1
    BY <2>2, <2>4, FunctionIsSeq
  <2> QED
    BY <1>1, <1>2, <1>3, <2>1, <2>5
<1>9. CASE Reorder(i)
  <2>1. /\ c2s' = [c2s EXCEPT ![i] = c2s[i + 1], ![i + 1] = c2s[i]]
        /\ c2s[i].type = "data" /\ c2s[i + 1].type = "data"
        /\ i + 1 \in 1..Len(c2s)
    BY <1>9 DEF Reorder, DataAt
  <2>2. c2s \in [1..Len(c2s) -> Frames]
    BY <1>1
  <2>3. c2s' \in [1..Len(c2s) -> Frames]
    BY <1>2, <2>1, <2>2
  <2>4. c2s' \in Seq(Frames) /\ Len(c2s') = Len(c2s)
    BY <1>3, <2>3, FunctionIsSeq
  <2>5. \A j \in 1..Len(c2s) : c2s'[j] = IF j = i + 1 THEN c2s[i]
                                         ELSE IF j = i THEN c2s[i + 1] ELSE c2s[j]
    BY <1>2, <2>1, <2>2
  <2> QED
    BY <1>1, <1>2, <2>1, <2>4, <2>5
<1> QED
  BY <1>2, <1>5, <1>6, <1>7, <1>8, <1>9, <1>10

-----------------------------------------------------------------------------
(* Type correctness: TypeOK and Wire together are inductive. *)

TypeInv == TypeOK /\ Wire

LEMMA TypeInit == Init => TypeInv
<1> SUFFICES ASSUME Init PROVE TypeInv
  OBVIOUS
<1>1. TypeOK
  <2>1. cfg \in Transfers /\ cfg.admitted \in BOOLEAN /\ cfg.taken \in BOOLEAN
    BY ConfigsAssumption DEF Init, Transfers
  <2>2. 0 \in 0..(CounterMod - 1) /\ 0 \in 0..(MaxBlocks + 1) /\ 0 \in 0..MaxFaults
    BY BoundsAssumption
  <2>3. NoCtrl \in CtrlFrames
    BY DEF NoCtrl, CtrlFrames
  <2>4. /\ <<>> \in Seq(0..(MaxBlocks + 1))
        /\ <<>> \in Seq(CtrlFrames \cup IvFrames \cup DataFrames)
    BY EmptySeq
  <2> QED
    BY <2>1, <2>2, <2>3, <2>4 DEF Init, TypeOK
<1>2. Wire
  BY DEF Init, Wire, Ends, Receiving
<1> QED
  BY <1>1, <1>2 DEF TypeInv

\* The client stops, whatever it was doing.
LEMMA StopType ==
  ASSUME TypeInv, NEW err \in BOOLEAN, Stop(err)
  PROVE  TypeInv'
<1>1. c2s \in Seq(Frames) /\ acks \in Nat /\ sOpen \in BOOLEAN /\ faults \in 0..MaxFaults
  BY DEF TypeInv, TypeOK, Frames
<1>2. /\ c2s' \in Seq(Frames) /\ acks' = 0 /\ sOpen' = sOpen /\ faults' = faults
      /\ c2s' \in {c2s, <<>>}
  BY <1>1, ClientHangsUpType DEF Stop
<1>3. TypeOK'
  BY <1>1, <1>2 DEF TypeInv, TypeOK, Stop, serverVars, Frames
<1>4. Wire'
  <2>1. CASE c2s' = c2s
    BY <1>2, <2>1, CtrlKept DEF TypeInv, Wire, Sent, Stop, serverVars, Ends, Receiving
  <2>2. CASE c2s' = <<>>
    BY <1>2, <2>2 DEF TypeInv, Wire, Stop, serverVars, Ends, Receiving
  <2> QED
    BY <1>2, <2>1, <2>2
<1> QED
  BY <1>3, <1>4 DEF TypeInv

LEMMA ClientStepType == ASSUME TypeInv, ClientStep PROVE TypeInv'
<1> USE DEF TypeInv
<1>0. c2s \in Seq(Frames) /\ acks \in Nat
  BY DEF TypeOK, Frames
<1>1. ASSUME NEW err \in BOOLEAN, Stop(err) PROVE TypeInv'
  BY <1>1, StopType
<1>2. CASE Prepare /\ cState' = "SendCtrl"
  <2>1. TypeOK'
    BY <1>2 DEF TypeOK, Prepare, Stop, serverVars, netVars
  <2>2. Wire'
    BY <1>2 DEF Wire, Prepare, Stop, serverVars, netVars, Ends, Receiving, CtrlOf
  <2> QED
    BY <2>1, <2>2
<1>3. CASE SendCtrl
  <2> DEFINE iv == IF cfg.sv # "SV_PLAIN" THEN <<[type |-> "iv", intact |-> TRUE]>> ELSE <<>>
             fs == <<CtrlOf(cfg)>> \o iv
  <2>1. iv \in Seq(Frames) /\ Len(iv) = (IF cfg.sv # "SV_PLAIN" THEN 1 ELSE 0)
        /\ (cfg.sv # "SV_PLAIN" => iv[1].type = "iv")
    <3>1. [type |-> "iv", intact |-> TRUE] \in Frames
      BY DEF Frames, IvFrames
    <3>2. CASE cfg.sv # "SV_PLAIN"
      BY <3>1, <3>2
    <3>3. CASE cfg.sv = "SV_PLAIN"
      BY <3>3, EmptySeq
    <3> QED
      BY <3>2, <3>3
  <2>2. <<CtrlOf(cfg)>> \in Seq(Frames) /\ Len(<<CtrlOf(cfg)>>) = 1
        /\ <<CtrlOf(cfg)>>[1] = CtrlOf(cfg)
    BY CtrlOfType DEF Frames
  <2> HIDE DEF iv
  <2>3. /\ fs \in Seq(Frames)
        /\ Len(fs) = 1 + Len(iv)
        /\ fs[1] = CtrlOf(cfg)
        /\ \A i \in 2..Len(fs) : fs[i] = iv[i - 1]
    BY <2>1, <2>2, ConcatProperties
  <2>4. Put(fs) /\ c2s = <<>> /\ acks = 0 /\ sState \in {"RcvCtrl", "Done", "Killed"}
    BY <1>3 DEF SendCtrl, Wire, iv
  <2> HIDE DEF fs
  <2>5. /\ c2s' \in Seq(Frames)
        /\ \A i \in 1..Len(c2s') : i \in 1..Len(fs) /\ c2s'[i] = fs[i]
    BY <1>0, <2>3, <2>4, PutType
  <2>6. TypeOK'
    BY <1>3, <2>5 DEF TypeOK, SendCtrl, serverVars, Frames
  <2>7. Wire'
    <3>1. CtrlOf(cfg)' = CtrlOf(cfg) /\ cfg' = cfg /\ faults' = faults /\ sState' = sState
          /\ acks' = acks /\ cState' = "RcvInitAck"
      BY <1>3, CtrlKept DEF SendCtrl, serverVars
    <3>2. ASSUME NEW i \in 1..Len(c2s')
          PROVE  IF i = 1 THEN Sent(c2s[i])'
                          ELSE i = 2 /\ c2s'[i].type = "iv" /\ cfg'.sv # "SV_PLAIN"
      <4>1. i \in 1..Len(fs) /\ c2s'[i] = fs[i]
        BY <2>5
      <4>2. CASE i = 1
        <5>1. c2s'[i] = CtrlOf(cfg)
          BY <2>3, <4>1, <4>2
        <5> QED
          BY <3>1, <4>2, <5>1, CtrlOfType DEF Sent
      <4>3. CASE i # 1
        BY <2>1, <2>3, <3>1, <4>1, <4>3
      <4> QED
        BY <4>2, <4>3
    <3> HIDE DEF Sent
    <3> QED
      BY <2>4, <3>1, <3>2 DEF Wire, Ends, Receiving
  <2> QED
    BY <2>6, <2>7
<1>4. CASE RcvInitAck
  <2>1. TypeOK'
    BY <1>4 DEF TypeOK, RcvInitAck, serverVars
  <2>2. Wire'
    BY <1>4 DEF Wire, TypeOK, RcvInitAck, serverVars, Ends, Receiving
  <2> QED
    BY <2>1, <2>2
<1>5. CASE OpenSource /\ cState' \in {"SendName", "SendText"}
  <2>1. TypeOK'
    BY <1>5 DEF TypeOK, OpenSource, Stop, serverVars, netVars
  <2>2. Wire'
    BY <1>5 DEF Wire, OpenSource, Stop, serverVars, netVars, Ends, Receiving
  <2> QED
    BY <2>1, <2>2
<1>6. ASSUME NEW order \in 0..(CounterMod - 1),
             NEW data \in {<<>>} \cup {<<i>> : i \in 0..(MaxBlocks + 1)},
             NEW eot \in BOOLEAN, SendDataFrame(order, data, eot),
             cState \in {"SendName", "SendBlocks", "SendText", "SendEot"},
             cState' \in {"SendBlocks", "SendEot", "RcvFinalAck"},
             read' \in 0..(MaxBlocks + 1)
      PROVE  TypeInv'
  <2>1. /\ c2s' \in Seq(Frames) /\ cNonce' \in Nat /\ frameCounter' = order
        /\ \A i \in 1..Len(c2s') :
              \/ i \in 1..Len(c2s) /\ c2s'[i] = c2s[i]
              \/ c2s'[i].type = "data"
    BY <1>6, SendDataFrameType
  <2>2. TypeOK'
    BY <1>6, <2>1 DEF TypeOK, SendDataFrame, serverVars, Frames
  <2>3. Wire'
    BY <1>6, <2>1 DEF Wire, SendDataFrame, serverVars, Ends, Receiving
  <2> QED
    BY <2>2, <2>3
<1>7. /\ 0 \in 0..(CounterMod - 1) /\ 1 \in 0..(CounterMod - 1)
      /\ Inc(frameCounter) \in 0..(CounterMod - 1)
      /\ 1 \in 0..(MaxBlocks + 1)
  BY BoundsAssumption DEF TypeOK, Inc
<1>8. /\ cfg.full \in 0..MaxBlocks
      /\ read \in 0..(MaxBlocks + 1)
      /\ read <= cfg.full => read + 1 \in 0..(MaxBlocks + 1)
  BY CtrlOfType, BoundsAssumption DEF TypeOK, Transfers
<1>9. CASE SendName
  <2>1. <<0>> \in {<<i>> : i \in 0..(MaxBlocks + 1)}
    BY BoundsAssumption
  <2> QED
    BY <1>6, <1>7, <1>8, <1>9, <2>1 DEF SendName
<1>10. CASE SendBlock
  <2>0. /\ read < cfg.full \/ read = cfg.full
        /\ cState = "SendBlocks" /\ read' = read + 1
        /\ cState' = "SendBlocks" \/ cState' = "SendEot"
    BY <1>10, Zenon DEF SendBlock
  <2>1. read <= cfg.full /\ cState' \in {"SendBlocks", "SendEot"}
    BY <1>8, <2>0
  <2>2. /\ <<read + 1>> \in {<<i>> : i \in 0..(MaxBlocks + 1)}
        /\ read' \in 0..(MaxBlocks + 1)
    BY <1>8, <2>0, <2>1
  <2>3. PICK data \in {<<>>, <<read + 1>>} : SendDataFrame(Inc(frameCounter), data, FALSE)
    BY <1>10 DEF SendBlock
  <2>4. data \in {<<>>} \cup {<<i>> : i \in 0..(MaxBlocks + 1)}
    BY <2>2, <2>3
  <2> QED
    BY <1>6, <1>7, <2>0, <2>1, <2>2, <2>3, <2>4
<1>11. CASE SendText
  <2>1. <<1>> \in {<<i>> : i \in 0..(MaxBlocks + 1)}
    BY BoundsAssumption
  <2> QED
    BY <1>6, <1>7, <1>8, <1>11, <2>1 DEF SendText
<1>12. CASE SendEot
  BY <1>6, <1>7, <1>8, <1>12 DEF SendEot
<1>13. CASE RcvFinalAck
  <2>1. acks' \in Nat
    BY <1>0, <1>13 DEF RcvFinalAck
  <2>3. cErr' \in BOOLEAN
    BY <1>13, Zenon DEF RcvFinalAck
  <2>4. TypeOK'
    BY <1>13, <2>1, <2>3 DEF TypeOK, RcvFinalAck, serverVars
  <2>2. Wire'
    BY <1>13 DEF Wire, TypeOK, RcvFinalAck, serverVars, Ends, Receiving, CtrlOf
  <2> QED
    BY <2>2, <2>4
<1>14. CASE WriteFails \/ AckTimeout
  BY <1>1, <1>14 DEF WriteFails, AckTimeout
<1>15. CASE Prepare
  BY <1>1, <1>2, <1>15 DEF Prepare
<1>16. CASE OpenSource
  BY <1>1, <1>5, <1>16 DEF OpenSource
<1> QED
  BY <1>3, <1>4, <1>9, <1>10, <1>11, <1>12, <1>13, <1>14, <1>15, <1>16 DEF ClientStep

\* The flags 0x02, 0x08 and 0x16 overlap, and are told apart all the same.
LEMMA FlagsDecode ==
  ASSUME TypeOK, NEW f, Sent(f)
  PROVE  /\ Encrypted(f) <=> cfg.sv # "SV_PLAIN"
         /\ Binary(f) <=> cfg.mode = "file"
         /\ f # NoCtrl
<1>2. /\ FLAG_NEW_TRANSMISSION = {1} /\ FLAG_ENCRYPTED = {1, 2, 4}
      /\ FLAG_BINARY_TRANSMISSION = {3}
  BY DEF FLAG_NEW_TRANSMISSION, FLAG_ENCRYPTED, FLAG_BINARY_TRANSMISSION
<1>3. f.flags = {1} \cup (IF cfg.sv # "SV_PLAIN" THEN {1, 2, 4} ELSE {})
                    \cup (IF cfg.mode = "file" THEN {3} ELSE {})
  BY <1>2 DEF Sent, CtrlOf
<1>4. 4 \in f.flags <=> cfg.sv # "SV_PLAIN"
  BY <1>3
<1>5. 3 \in f.flags <=> cfg.mode = "file"
  BY <1>3
<1>6. cfg.sv # "SV_PLAIN" => {1, 2, 4} \subseteq f.flags
  BY <1>3
<1>7. Encrypted(f) <=> cfg.sv # "SV_PLAIN"
  BY <1>2, <1>4, <1>6 DEF Encrypted
<1>8. Binary(f) <=> cfg.mode = "file"
  BY <1>2, <1>5 DEF Binary
<1>9. f # NoCtrl
  BY <1>3 DEF NoCtrl
<1> QED
  BY <1>7, <1>8, <1>9

\* The two lookup maps are inverses: an undamaged frame gives both sides the
\* same cipher.
LEMMA SameCipher ==
  ASSUME TypeOK, NEW f, Sent(f), faults = 0
  PROVE  IoCipher(f) = cfg.sv
<1>1. f.pv = proVersionLookupMap[cfg.sv] /\ cfg.sv \in SecurityVersions
  BY CtrlOfType DEF Sent, CtrlOf, Transfers
<1> QED
  BY <1>1 DEF IoCipher, proVersionLookupMap, secVersionLookupMap, SecurityVersions

LEMMA ReadDataFrameType ==
  ASSUME TypeOK, sState \in Receiving, Wire,
         NEW expected \in 0..(CounterMod - 1), ReadDataFrame(expected)
  PROVE  /\ c2s \in Seq(Frames) /\ c2s' \in Seq(Frames)
         /\ c2s # <<>> /\ c2s' = Tail(c2s) /\ Head(c2s) = c2s[1]
         /\ Head(c2s) \in DataFrames
         /\ \A i \in 1..Len(c2s') : c2s'[i].type = "data"
         /\ sNonce' \in Nat /\ frame_order_nbr' \in 0..(CounterMod - 1)
<1>1. c2s \in Seq(Frames) /\ c2s # <<>> /\ c2s' = Tail(c2s)
  BY DEF ReadDataFrame, TypeOK, Frames
<1>2. /\ c2s' \in Seq(Frames)
      /\ Head(c2s) = c2s[1] /\ 1 \in 1..Len(c2s) /\ Head(c2s) \in Frames
      /\ \A i \in 1..Len(c2s') : i + 1 \in 1..Len(c2s) /\ c2s'[i] = c2s[i + 1]
  BY <1>1, TailType
<1>3. \A i \in 1..Len(c2s) : c2s[i].type = "data"
  BY DEF Wire
<1>4. Head(c2s) \in DataFrames
  BY <1>2, <1>3, DataFields
<1>5. Inc(expected) \in 0..(CounterMod - 1)
  BY BoundsAssumption DEF Inc
<1>6. sNonce' \in Nat /\ frame_order_nbr' \in 0..(CounterMod - 1)
  BY <1>5 DEF ReadDataFrame, TypeOK
<1> QED
  BY <1>1, <1>2, <1>3, <1>4, <1>6

LEMMA ServerStepType == ASSUME TypeInv, ServerStep PROVE TypeInv'
<1> USE DEF TypeInv
<1>0. c2s \in Seq(Frames) /\ acks \in Nat /\ sOpen \in BOOLEAN /\ faults \in 0..MaxFaults
  BY DEF TypeOK, Frames
<1>1. CASE RcvCtrlFrame
  <2>1. CASE c2s # <<>> /\ ctrl_frame' = Head(c2s) /\ c2s' = Tail(c2s)
             /\ sState' = IF ~ctrlFrameValid(Head(c2s)) THEN "Done"
                          ELSE IF Encrypted(Head(c2s)) THEN "ReadIv" ELSE "Accept"
    <3>1. /\ c2s' \in Seq(Frames)
          /\ Head(c2s) = c2s[1] /\ 1 \in 1..Len(c2s)
          /\ \A i \in 1..Len(c2s') : i + 1 \in 1..Len(c2s) /\ c2s'[i] = c2s[i + 1]
      BY <1>0, <2>1, TailType
    <3>2. Sent(Head(c2s)) /\ Head(c2s) \in CtrlFrames
      BY <1>1, <3>1 DEF Wire, RcvCtrlFrame, Sent
    <3>3. \A i \in 1..Len(c2s') : i = 1 /\ c2s'[i].type = "iv" /\ cfg.sv # "SV_PLAIN"
      BY <1>1, <3>1 DEF Wire, RcvCtrlFrame
    <3>4. Encrypted(Head(c2s)) <=> cfg.sv # "SV_PLAIN"
      BY <3>2, FlagsDecode
    <3>5. sState' \in {"Done", "ReadIv", "Accept"} /\ (sState' = "Accept" => cfg.sv = "SV_PLAIN")
      BY <2>1, <3>4
    <3>6. sState' = "Accept" => c2s' = <<>>
      BY <3>1, <3>3, <3>5, EmptySeq
    <3>7. TypeOK'
      BY <1>1, <2>1, <3>1, <3>2, <3>5, CtrlOfType
      DEF TypeOK, RcvCtrlFrame, clientVars, Frames
    <3>8. Wire'
      BY <1>1, <3>3, <3>5, <3>6
      DEF Wire, RcvCtrlFrame, clientVars, Ends, Receiving
    <3> QED
      BY <3>7, <3>8
  <2>2. CASE PeerGone /\ sState' = "Done" /\ UNCHANGED <<ctrl_frame, c2s>>
    <3>1. TypeOK'
      BY <1>1, <2>2 DEF TypeOK, RcvCtrlFrame, clientVars
    <3>2. Wire'
      BY <1>1, <2>2 DEF Wire, RcvCtrlFrame, clientVars, Ends, Receiving, PeerGone, ClientOpen
    <3> QED
      BY <3>1, <3>2
  <2> QED
    BY <1>1, <2>1, <2>2 DEF RcvCtrlFrame
<1>2. CASE ReadIvAndKey
  <2>1. CASE c2s # <<>> /\ c2s' = Tail(c2s) /\ sState' \in {"ReadIv", "Close", "Accept"}
             /\ saltOk' \in BOOLEAN
    <3>1. /\ c2s' \in Seq(Frames)
          /\ \A i \in 1..Len(c2s') : i + 1 \in 1..Len(c2s)
      BY <1>0, <2>1, TailType
    <3>2. \A i \in 1..Len(c2s') : i + 1 = 1
      BY <1>2, <3>1 DEF Wire, ReadIvAndKey
    <3>3. c2s' = <<>>
      BY <3>1, <3>2, EmptySeq
    <3>4. TypeOK'
      BY <1>2, <2>1, <3>1 DEF TypeOK, ReadIvAndKey, clientVars, Frames
    <3>5. Wire'
      BY <1>2, <2>1, <3>3 DEF Wire, ReadIvAndKey, clientVars, Ends, Receiving
    <3> QED
      BY <3>4, <3>5
  <2>2. CASE PeerGone /\ sState' = "Close" /\ UNCHANGED <<saltOk, c2s>>
    <3>1. TypeOK'
      BY <1>2, <2>2 DEF TypeOK, ReadIvAndKey, clientVars
    <3>2. Wire'
      BY <1>2, <2>2 DEF Wire, ReadIvAndKey, clientVars, Ends, Receiving, PeerGone, ClientOpen
    <3> QED
      BY <3>1, <3>2
  <2>3. saltOk \in BOOLEAN /\ sState = "ReadIv"
    BY <1>2 DEF TypeOK, ReadIvAndKey
  <2>4. saltOk' \in BOOLEAN \/ saltOk' = saltOk
    BY <1>2, Zenon DEF ReadIvAndKey
  <2>5. \/ c2s # <<>> /\ c2s' = Tail(c2s) /\ sState' \in {sState, "Close", "Accept"}
        \/ PeerGone /\ sState' = "Close" /\ UNCHANGED <<saltOk, c2s>>
    BY <1>2, Zenon DEF ReadIvAndKey
  <2> QED
    BY <2>1, <2>2, <2>3, <2>4, <2>5
<1>3. ASSUME NEW next \in Receiving, NEW failed \in Receiving, SendAck(next, failed),
             sState \in {"Accept", "FinalAck"},
             UNCHANGED <<ctrl_frame, saltOk, sNonce, frame_order_nbr, file, stored, printed,
                         cfg, clientVars, sOpen, faults>>
      PROVE  TypeInv'
  <2>1. /\ acks' \in Nat /\ sState' \in {next, failed}
        /\ c2s' = c2s \/ c2s' = <<>>
    BY <1>0, <1>3 DEF SendAck
  <2>2. c2s' \in Seq(Frames)
    BY <1>0, <2>1, EmptySeq
  <2>3. TypeOK'
    BY <1>3, <2>1, <2>2 DEF TypeOK, clientVars, Frames, Receiving
  <2>4. Wire'
    BY <1>3, <2>1 DEF Wire, clientVars, Ends, Receiving
  <2> QED
    BY <2>3, <2>4
<1>4. CASE AcceptConnection
  <2>1. (IF Binary(ctrl_frame) THEN "RcvName" ELSE "RcvText") \in Receiving
        /\ "Close" \in Receiving
    BY DEF Receiving
  <2> QED
    BY <1>3, <1>4, <2>1 DEF AcceptConnection
<1>5. CASE RcvFilename
  <2>1. sState' \in {"RcvBlocks", "Close"} /\ file' \in {"absent", "partial", file}
    BY <1>5 DEF RcvFilename
  <2>2. /\ c2s' \in Seq(Frames) /\ sNonce' \in Nat /\ frame_order_nbr' \in 0..(CounterMod - 1)
        /\ \A i \in 1..Len(c2s') : c2s'[i].type = "data"
    <3>1. frame_order_nbr \in 0..(CounterMod - 1) /\ sState \in Receiving
      BY <1>5 DEF TypeOK, RcvFilename, Receiving
    <3>2. CASE ReadDataFrame(frame_order_nbr)
      BY <3>1, <3>2, ReadDataFrameType
    <3>3. CASE ReadFails
      BY <1>0, <3>1, <3>3 DEF ReadFails, TypeOK, Wire
    <3> QED
      BY <1>5, <3>2, <3>3 DEF RcvFilename
  <2>3. TypeOK'
    BY <1>5, <2>1, <2>2 DEF TypeOK, RcvFilename, clientVars, Frames
  <2>4. Wire'
    BY <1>5, <2>1, <2>2 DEF Wire, RcvFilename, clientVars, Ends, Receiving
  <2> QED
    BY <2>3, <2>4
<1>6. CASE RcvBlock
  <2> DEFINE Data == Outcome(Head(c2s), frame_order_nbr) = "data"
  <2>1. /\ sState' \in {"RcvBlocks", "FinalAck", "Close"}
        /\ file' \in {"absent", "complete", file}
    BY <1>6 DEF RcvBlock, DropFile
  <2>2. /\ c2s' \in Seq(Frames) /\ sNonce' \in Nat /\ frame_order_nbr' \in 0..(CounterMod - 1)
        /\ \A i \in 1..Len(c2s') : c2s'[i].type = "data"
        /\ stored' \in Seq(0..(MaxBlocks + 1))
    <3>1. /\ frame_order_nbr \in 0..(CounterMod - 1) /\ sState \in Receiving
          /\ stored \in Seq(0..(MaxBlocks + 1)) /\ <<>> \in Seq(0..(MaxBlocks + 1))
      BY <1>6, EmptySeq DEF TypeOK, RcvBlock, Receiving
    <3>2. CASE ReadDataFrame(frame_order_nbr)
      <4>1. Head(c2s) \in DataFrames
        BY <3>1, <3>2, ReadDataFrameType
      <4>2. Head(c2s).data \in Seq(0..(MaxBlocks + 1))
        BY <4>1, DataIsSeq
      <4>3. stored \o Head(c2s).data \in Seq(0..(MaxBlocks + 1))
        BY <3>1, <4>2, ConcatProperties
      <4>4. stored' \in {Write(Head(c2s).data), stored, <<>>}
        BY <1>6 DEF RcvBlock, DropFile
      <4> QED
        BY <3>1, <3>2, <4>3, <4>4, ReadDataFrameType DEF Write
    <3>3. CASE ReadFails /\ DropFile
      BY <1>0, <3>1, <3>3 DEF ReadFails, TypeOK, Wire, DropFile
    <3> QED
      BY <1>6, <3>2, <3>3 DEF RcvBlock
  <2>3. TypeOK'
    BY <1>6, <2>1, <2>2 DEF TypeOK, RcvBlock, clientVars, Frames
  <2>4. Wire'
    BY <1>6, <2>1, <2>2 DEF Wire, RcvBlock, clientVars, Ends, Receiving
  <2> QED
    BY <2>3, <2>4
<1>7. CASE RcvMessage
  <2>1. sState' \in {"FinalAck", "Close"}
    BY <1>7 DEF RcvMessage
  <2>2. /\ c2s' \in Seq(Frames) /\ sNonce' \in Nat /\ frame_order_nbr' \in 0..(CounterMod - 1)
        /\ \A i \in 1..Len(c2s') : c2s'[i].type = "data"
        /\ printed' \in Seq(0..(MaxBlocks + 1))
    <3>1. /\ 1 \in 0..(CounterMod - 1) /\ sState \in Receiving
          /\ printed \in Seq(0..(MaxBlocks + 1)) /\ <<>> \in Seq(0..(MaxBlocks + 1))
      BY <1>7, EmptySeq, BoundsAssumption DEF TypeOK, RcvMessage, Receiving
    <3>2. CASE ReadDataFrame(1)
      <4>1. Head(c2s) \in DataFrames
        BY <3>1, <3>2, ReadDataFrameType
      <4>2. Head(c2s).data \in Seq(0..(MaxBlocks + 1))
        BY <4>1, DataIsSeq
      <4>3. printed' \in {Head(c2s).data, printed}
        BY <1>7 DEF RcvMessage
      <4> QED
        BY <3>1, <3>2, <4>2, <4>3, ReadDataFrameType
    <3>3. CASE ReadFails /\ UNCHANGED printed
      BY <1>0, <3>1, <3>3 DEF ReadFails, TypeOK, Wire
    <3> QED
      BY <1>7, <3>2, <3>3 DEF RcvMessage
  <2>3. TypeOK'
    BY <1>7, <2>1, <2>2 DEF TypeOK, RcvMessage, clientVars, Frames
  <2>4. Wire'
    BY <1>7, <2>1, <2>2 DEF Wire, RcvMessage, clientVars, Ends, Receiving
  <2> QED
    BY <2>3, <2>4
<1>8. CASE FinalAck
  <2>1. "Confirm" \in Receiving
    BY DEF Receiving
  <2> QED
    BY <1>3, <1>8, <2>1 DEF FinalAck
<1>9. CASE CloseConn \/ Reap \/ NoDecryption
  <2>1. /\ c2s' = <<>> /\ c2s' \in Seq(Frames) /\ sOpen' = FALSE /\ sOpen' \in BOOLEAN
        /\ acks' \in Nat /\ (acks = 0 => acks' = 0) /\ faults' = faults
    BY <1>0, <1>9, ServerHangsUpType DEF CloseConn, Reap, NoDecryption
  <2>2. sState' \in {"Done", "Killed"}
    BY <1>9 DEF CloseConn, Reap, NoDecryption, serverVars
  <2>3. UNCHANGED <<cfg, clientVars, ctrl_frame, saltOk, sNonce, frame_order_nbr,
                    file, stored, printed>>
    BY <1>9 DEF CloseConn, Reap, NoDecryption, serverVars
  <2>4. TypeOK'
    BY <1>0, <2>1, <2>2, <2>3 DEF TypeOK, clientVars, Frames
  <2>5. Wire'
    BY <2>1, <2>2, <2>3 DEF Wire, clientVars, Ends, Receiving
  <2> QED
    BY <2>4, <2>5
<1>10. CASE ReadOn
  <2>1. /\ c2s' \in Seq(Frames)
        /\ \A i \in 1..Len(c2s') : i + 1 \in 1..Len(c2s) /\ c2s'[i] = c2s[i + 1]
    BY <1>0, <1>10, TailType DEF ReadOn
  <2>2. /\ sState \in {"RcvName", "RcvText"}
        /\ UNCHANGED <<cfg, clientVars, serverVars, acks, sOpen, faults>>
    BY <1>10 DEF ReadOn
  <2>3. TypeOK'
    BY <2>1, <2>2 DEF TypeOK, clientVars, serverVars, Frames
  <2>4. Wire'
    BY <2>1, <2>2 DEF Wire, clientVars, serverVars, Ends, Receiving
  <2> QED
    BY <2>3, <2>4
<1> QED
  BY <1>1, <1>2, <1>4, <1>5, <1>6, <1>7, <1>8, <1>9, <1>10 DEF ServerStep

LEMMA TypeStep == TypeInv /\ [Next]_vars => TypeInv'
<1> SUFFICES ASSUME TypeInv, [Next]_vars PROVE TypeInv'
  OBVIOUS
<1> USE DEF TypeInv
<1>0. c2s \in Seq(Frames) /\ acks \in Nat /\ sOpen \in BOOLEAN /\ faults \in 0..MaxFaults
  BY DEF TypeOK, Frames
<1>1. CASE ClientCrash
  <2>1. /\ c2s' \in Seq(Frames) /\ acks' = 0 /\ sOpen' = sOpen /\ faults' = faults
        /\ c2s' = c2s \/ c2s' = <<>>
    BY <1>0, <1>1, ClientHangsUpType DEF ClientCrash
  <2>2. TypeOK'
    BY <1>1, <2>1 DEF TypeOK, ClientCrash, serverVars, Frames
  <2>3. CASE c2s' = c2s
    BY <1>1, <2>1, <2>2, <2>3, CtrlKept DEF Wire, Sent, ClientCrash, serverVars, Ends, Receiving
  <2>4. CASE c2s' = <<>>
    BY <1>1, <2>1, <2>2, <2>4 DEF Wire, ClientCrash, serverVars, Ends, Receiving
  <2> QED
    BY <2>1, <2>3, <2>4
<1>2. CASE ServerKill
  <2>1. /\ c2s' = <<>> /\ c2s' \in Seq(Frames) /\ sOpen' = FALSE /\ sOpen' \in BOOLEAN
        /\ acks' \in Nat /\ (acks = 0 => acks' = 0) /\ faults' = faults
    BY <1>0, <1>2, ServerHangsUpType DEF ServerKill
  <2>2. stored' \in Seq(0..(MaxBlocks + 1))
    <3>1. stored \in Seq(0..(MaxBlocks + 1))
      BY DEF TypeOK
    <3>2. \A n \in 0..Len(stored) : SubSeq(stored, 1, n) \in Seq(0..(MaxBlocks + 1))
      BY <3>1, PrefixIsSeq
    <3> QED
      BY <1>2, <3>1, <3>2 DEF ServerKill
  <2>3. sState' = "Killed" /\ UNCHANGED <<cfg, clientVars, ctrl_frame, saltOk, sNonce,
                                          frame_order_nbr, file, printed>>
    BY <1>2 DEF ServerKill
  <2>4. TypeOK'
    BY <1>0, <2>1, <2>2, <2>3 DEF TypeOK, clientVars, Frames
  <2>5. Wire'
    BY <2>1, <2>3 DEF Wire, clientVars, Ends, Receiving
  <2> QED
    BY <2>4, <2>5
<1>3. CASE ChannelFault
  <2>1. /\ c2s' \in Seq(Frames) /\ faults' \in 0..MaxFaults
        /\ (\A i \in 1..Len(c2s) : c2s[i].type = "data")
             => \A i \in 1..Len(c2s') : c2s'[i].type = "data"
        /\ (\A i \in 1..Len(c2s) : c2s[i].type # "data")
             => /\ Len(c2s') = Len(c2s)
                /\ \A i \in 1..Len(c2s) :
                     /\ c2s'[i].type = c2s[i].type
                     /\ c2s[i].type = "ctrl" => c2s'[i].flags = c2s[i].flags
    BY <1>3, ChannelFaultType
  <2>2. TypeOK'
    BY <1>3, <2>1 DEF TypeOK, ChannelFault, clientVars, serverVars, Frames
  <2>3. c2s # <<>>
    BY <1>0, <1>3, EmptySeq DEF ChannelFault
  <2>4. UNCHANGED <<cfg, cState, sState, acks>>
    BY <1>3 DEF ChannelFault, clientVars, serverVars
  <2>5. CASE sState = "RcvCtrl"
    <3>1. ASSUME NEW i \in 1..Len(c2s)
          PROVE  IF i = 1 THEN Sent(c2s[i]) /\ c2s[i].type = "ctrl"
                          ELSE i = 2 /\ c2s[i].type = "iv" /\ cfg.sv # "SV_PLAIN"
      BY <2>5 DEF Wire, Sent, CtrlFrames
    <3>2. /\ Len(c2s') = Len(c2s)
          /\ \A i \in 1..Len(c2s) :
               /\ c2s'[i].type = c2s[i].type
               /\ c2s[i].type = "ctrl" => c2s'[i].flags = c2s[i].flags
      BY <2>1, <3>1
    <3>3. faults' # 0 /\ CtrlOf(cfg)' = CtrlOf(cfg)
      BY <1>0, <1>3, <2>4 DEF ChannelFault, CtrlOf
    <3>4. ASSUME NEW i \in 1..Len(c2s')
          PROVE  IF i = 1 THEN Sent(c2s[i])'
                          ELSE i = 2 /\ c2s'[i].type = "iv" /\ cfg'.sv # "SV_PLAIN"
      <4>1. CASE i = 1
        <5>1. c2s'[i] \in Frames /\ c2s'[i].type = "ctrl" /\ c2s'[i].flags = CtrlOf(cfg).flags
          BY <2>1, <3>1, <3>2, <4>1 DEF Sent
        <5>2. c2s'[i] \in CtrlFrames
          BY <5>1, DataFields
        <5> QED
          BY <3>3, <4>1, <5>1, <5>2 DEF Sent
      <4>2. CASE i # 1
        BY <2>4, <3>1, <3>2, <4>2
      <4> QED
        BY <4>1, <4>2
    <3>5. sState' = "RcvCtrl"
      BY <2>4, <2>5
    <3> HIDE DEF Sent
    <3> QED
      BY <2>1, <2>2, <2>3, <2>4, <2>5, <3>4, <3>5 DEF Wire, Receiving
  <2>6. CASE sState = "ReadIv"
    BY <2>1, <2>2, <2>3, <2>4, <2>6 DEF Wire, Receiving
  <2>7. CASE sState \notin {"RcvCtrl", "ReadIv"}
    BY <2>1, <2>2, <2>3, <2>4, <2>7 DEF Wire, Receiving
  <2> QED
    BY <2>5, <2>6, <2>7
<1>4. CASE UNCHANGED vars
  <2>1. TypeOK'
    BY <1>4 DEF TypeOK, vars, clientVars, serverVars, netVars
  <2>2. Wire'
    BY <1>4, CtrlKept DEF Wire, Sent, vars, clientVars, serverVars, netVars
  <2> QED
    BY <2>1, <2>2
<1> QED
  BY <1>1, <1>2, <1>3, <1>4, ClientStepType, ServerStepType DEF Next, Finished

-----------------------------------------------------------------------------
(* The work that is left *)

ClientWork == ClientSteps[cState] + BlocksLeft
Opened     == IF sOpen THEN 1 ELSE 0

LEMMA WorkIs ==
  ASSUME TypeOK
  PROVE  /\ ClientSteps[cState] \in Nat /\ BlocksLeft \in Nat /\ ClientWork \in Nat
         /\ ServerSteps[sState] \in Nat /\ Len(c2s) \in Nat /\ Opened \in 0..1
         /\ MaxFaults - faults \in Nat /\ read \in Nat /\ cfg.full \in Nat
         /\ WorkLeft = 3 * ClientWork + ServerSteps[sState] + Len(c2s) + Opened
                          + 2 * (MaxFaults - faults)
         /\ WorkLeft \in Nat
<1>1. read \in Nat /\ MaxFaults - faults \in Nat /\ MaxBlocks \in Nat
  BY BoundsAssumption DEF TypeOK
<1>2. cfg.full \in Nat
  BY <1>1, CtrlOfType DEF Transfers
<1>3. BlocksLeft \in Nat
  BY <1>1, <1>2 DEF BlocksLeft
<1>4. ClientSteps[cState] \in Nat
  BY DEF TypeOK, ClientSteps
<1>5. ServerSteps[sState] \in Nat
  BY DEF TypeOK, ServerSteps
<1>6. Len(c2s) \in Nat
  BY LenProperties DEF TypeOK
<1>7. Opened \in 0..1
  BY DEF Opened
<1>8. ClientWork \in Nat
  BY <1>3, <1>4 DEF ClientWork
<1>9. WorkLeft = 3 * ClientWork + ServerSteps[sState] + Len(c2s) + Opened
                   + 2 * (MaxFaults - faults)
  BY DEF WorkLeft, ClientWork, Opened
<1> HIDE DEF WorkLeft
<1> QED
  BY <1>1, <1>2, <1>3, <1>4, <1>5, <1>6, <1>7, <1>8, <1>9

LEMMA WorkIsThen ==
  ASSUME TypeOK'
  PROVE  /\ BlocksLeft' \in Nat /\ ClientWork' \in Nat /\ ServerSteps[sState'] \in Nat
         /\ Len(c2s') \in Nat /\ Opened' \in 0..1 /\ read' \in Nat
         /\ WorkLeft' = 3 * ClientWork' + ServerSteps[sState'] + Len(c2s') + Opened'
                          + 2 * (MaxFaults - faults')
<1>1. read' \in Nat /\ MaxBlocks \in Nat
  BY BoundsAssumption DEF TypeOK
<1>2. cfg'.full \in Nat
  BY <1>1, ConfigsAssumption DEF TypeOK, Transfers
<1>3. BlocksLeft' \in Nat
  BY <1>1, <1>2 DEF BlocksLeft
<1>4. ClientSteps[cState'] \in Nat
  <2>1. cState' \in DOMAIN ClientSteps
    BY DEF TypeOK, ClientSteps
  <2> QED
    BY <2>1 DEF ClientSteps
<1>5. ServerSteps[sState'] \in Nat
  <2>1. sState' \in DOMAIN ServerSteps
    BY DEF TypeOK, ServerSteps
  <2> QED
    BY <2>1 DEF ServerSteps
<1>6. Len(c2s') \in Nat
  BY LenProperties DEF TypeOK
<1>7. Opened' \in 0..1
  BY DEF Opened
<1>8. ClientWork' \in Nat
  BY <1>3, <1>4 DEF ClientWork
<1>9. WorkLeft' = 3 * ClientWork' + ServerSteps[sState'] + Len(c2s') + Opened'
                   + 2 * (MaxFaults - faults')
  BY DEF WorkLeft, ClientWork, Opened
<1> HIDE DEF WorkLeft
<1> QED
  BY <1>1, <1>3, <1>5, <1>6, <1>7, <1>8, <1>9

\* A step of the client adds two frames at most.
LEMMA ClientWorks ==
  ASSUME TypeOK, TypeOK', UNCHANGED <<sState, sOpen, faults>>,
         ClientWork' < ClientWork, Len(c2s') <= Len(c2s) + 2
  PROVE  WorkLeft' \in 0..(WorkLeft - 1)
<1> DEFINE c == ClientWork
           s == ServerSteps[sState]
           o == Opened
           f == MaxFaults - faults
           l == Len(c2s)
           d == ClientWork'
           m == Len(c2s')
<1>1. c \in Nat /\ s \in Nat /\ o \in 0..1 /\ f \in Nat /\ l \in Nat /\ d \in Nat /\ m \in Nat
  BY WorkIs, WorkIsThen
<1>2. WorkLeft = 3 * c + s + l + o + 2 * f
  BY WorkIs
<1>3. WorkLeft' = 3 * d + s + m + o + 2 * f
  <2>1. Opened' = o
    BY DEF Opened
  <2> QED
    BY <2>1, WorkIsThen
<1>4. d < c /\ m <= l + 2
  OBVIOUS
<1> HIDE DEF c, s, o, f, l, d, m
<1> QED
  BY <1>1, <1>2, <1>3, <1>4

\* A step of the server adds none.
LEMMA ServerWorks ==
  ASSUME TypeOK, TypeOK', UNCHANGED <<cfg, cState, read, faults>>,
         ServerSteps[sState'] <= ServerSteps[sState], Len(c2s') <= Len(c2s), Opened' <= Opened,
         \/ ServerSteps[sState'] < ServerSteps[sState]
         \/ Len(c2s') < Len(c2s)
         \/ Opened' < Opened
  PROVE  WorkLeft' \in 0..(WorkLeft - 1)
<1> DEFINE c == ClientWork
           s == ServerSteps[sState]
           o == Opened
           f == MaxFaults - faults
           l == Len(c2s)
           t == ServerSteps[sState']
           p == Opened'
           m == Len(c2s')
<1>1. c \in Nat /\ s \in Nat /\ o \in 0..1 /\ f \in Nat /\ l \in Nat
  BY WorkIs
<1>2. t \in Nat /\ p \in 0..1 /\ m \in Nat
  BY WorkIsThen
<1>3. ClientWork' = c
  BY DEF ClientWork, BlocksLeft
<1>4. WorkLeft = 3 * c + s + l + o + 2 * f
  BY WorkIs
<1>5. WorkLeft' = 3 * c + t + m + p + 2 * f
  BY <1>3, WorkIsThen
<1>6. t <= s /\ m <= l /\ p <= o /\ (t < s \/ m < l \/ p < o)
  OBVIOUS
<1> HIDE DEF c, s, o, f, l, t, p, m
<1> QED
  BY <1>1, <1>2, <1>4, <1>5, <1>6

LEMMA PutLength ==
  ASSUME TypeOK, NEW S, NEW fs \in Seq(S), Put(fs)
  PROVE  Len(c2s') <= Len(c2s) + Len(fs)
<1>1. Len(c2s) \in Nat /\ Len(fs) \in Nat
  BY LenProperties DEF TypeOK
<1>2. CASE sOpen
  <2>1. c2s' = c2s \o fs
    BY <1>2 DEF Put
  <2>2. Len(c2s \o fs) = Len(c2s) + Len(fs)
    BY ConcatProperties DEF TypeOK
  <2> QED
    BY <1>1, <2>1, <2>2
<1>3. CASE ~sOpen
  BY <1>1, <1>3 DEF Put
<1> QED
  BY <1>2, <1>3

\* Hanging up leaves the frames, or none.
LEMMA Emptied ==
  ASSUME TypeOK, c2s' \in {c2s, <<>>}
  PROVE  Len(c2s') <= Len(c2s) /\ Len(c2s') <= Len(c2s) + 2
<1>1. Len(c2s) \in Nat /\ Len(<<>>) = 0
  BY LenProperties, EmptySeq DEF TypeOK
<1>2. CASE c2s' = c2s
  BY <1>1, <1>2
<1>3. CASE c2s' = <<>>
  BY <1>1, <1>3
<1> QED
  BY <1>2, <1>3

LEMMA TakenLength ==
  ASSUME TypeOK, c2s # <<>>, c2s' = Tail(c2s)
  PROVE  Len(c2s') < Len(c2s) /\ Len(c2s') <= Len(c2s)
<1>1. Len(Tail(c2s)) = Len(c2s) - 1 /\ Len(c2s) \in Nat
  BY HeadTailProperties DEF TypeOK
<1> QED
  BY <1>1

\* A step of the client, unless it sends a block, takes it to a later state.
LEMMA ClientWorkDown ==
  ASSUME TypeInv, TypeInv', cState = "SendText" => read = 0, ClientStep \/ ClientCrash
  PROVE  /\ ClientWork' < ClientWork /\ Len(c2s') <= Len(c2s) + 2
         /\ UNCHANGED <<sState, sOpen, faults>>
<1>0. /\ TypeOK /\ read \in Nat /\ cfg.full \in Nat /\ BlocksLeft \in Nat /\ BlocksLeft' \in Nat
      /\ ClientSteps[cState] \in Nat /\ Len(c2s) \in Nat
  BY WorkIs, WorkIsThen DEF TypeInv
<1>1. ASSUME UNCHANGED <<cfg, read>>,
             \/ cState \notin {"Stopped", "Crashed"} /\ cState' \in {"Stopped", "Crashed"}
             \/ cState = "Prepare" /\ cState' = "SendCtrl"
             \/ cState = "SendCtrl" /\ cState' = "RcvInitAck"
             \/ cState = "RcvInitAck" /\ cState' = "OpenSource"
             \/ cState = "OpenSource" /\ cState' \in {"SendName", "SendText"}
             \/ cState = "SendName" /\ cState' = "SendBlocks"
             \/ cState = "SendEot" /\ cState' = "RcvFinalAck"
      PROVE  ClientWork' < ClientWork
  <2>1. BlocksLeft' = BlocksLeft
    BY <1>1 DEF BlocksLeft
  <2>2. ClientSteps[cState'] < ClientSteps[cState] /\ ClientSteps[cState'] \in Nat
    <3>1. cState \in DOMAIN ClientSteps
      BY <1>0 DEF TypeOK, ClientSteps
    <3> QED
      BY <1>1, <3>1 DEF ClientSteps
  <2> QED
    BY <1>0, <2>1, <2>2 DEF ClientWork
<1>2. ASSUME NEW err, Stop(err), cState \notin {"Stopped", "Crashed"}
      PROVE  /\ ClientWork' < ClientWork /\ Len(c2s') <= Len(c2s) + 2
             /\ UNCHANGED <<sState, sOpen, faults>>
  <2>1. UNCHANGED <<cfg, read, sState, sOpen, faults>> /\ cState' = "Stopped" /\ c2s' \in {c2s, <<>>}
    BY <1>2, Zenon DEF Stop, ClientHangsUp, serverVars
  <2> QED
    BY <1>0, <1>1, <1>2, <2>1, Emptied
<1>3. ASSUME NEW order, NEW data, NEW eot, SendDataFrame(order, data, eot)
      PROVE  Len(c2s') <= Len(c2s) + 2 /\ UNCHANGED <<cfg, sState, sOpen, faults>>
  <2>1. PICK fr : Put(<<fr>>)
    BY <1>3 DEF SendDataFrame
  <2>2. <<fr>> \in Seq({fr}) /\ Len(<<fr>>) = 1
    OBVIOUS
  <2>3. Len(c2s') <= Len(c2s) + 1 /\ Len(c2s') \in Nat
    BY <1>0, <2>1, <2>2, PutLength, WorkIsThen DEF TypeInv
  <2> QED
    BY <1>0, <1>3, <2>3 DEF SendDataFrame, serverVars
<1>4. CASE Prepare
  <2>1. CASE Stop(TRUE)
    BY <1>2, <1>4, <2>1 DEF Prepare
  <2>2. CASE cState' = "SendCtrl" /\ UNCHANGED <<read, cfg, serverVars, netVars>>
    BY <1>0, <1>1, <1>4, <2>2 DEF Prepare, serverVars, netVars
  <2> QED
    BY <1>4, <2>1, <2>2 DEF Prepare
<1>5. CASE SendCtrl
  <2>1. PICK iv \in {<<>>, <<[type |-> "iv", intact |-> TRUE]>>} : Put(<<CtrlOf(cfg)>> \o iv)
    BY <1>5 DEF SendCtrl
  <2> DEFINE fs == <<CtrlOf(cfg)>> \o iv
             S  == {CtrlOf(cfg), [type |-> "iv", intact |-> TRUE]}
  <2>2. /\ iv \in Seq(S) /\ Len(iv) <= 1 /\ Len(iv) \in Nat
        /\ <<CtrlOf(cfg)>> \in Seq(S) /\ Len(<<CtrlOf(cfg)>>) = 1
    <3>1. ASSUME NEW x \in S PROVE <<x>> \in Seq(S) /\ Len(<<x>>) = 1
      BY <3>1
    <3>2. CtrlOf(cfg) \in S /\ [type |-> "iv", intact |-> TRUE] \in S
      OBVIOUS
    <3> HIDE DEF S
    <3>3. <<CtrlOf(cfg)>> \in Seq(S) /\ Len(<<CtrlOf(cfg)>>) = 1
      BY <3>1, <3>2
    <3>4. CASE iv = <<>>
      BY <3>3, <3>4, EmptySeq
    <3>5. CASE iv = <<[type |-> "iv", intact |-> TRUE]>>
      BY <3>1, <3>2, <3>3, <3>5
    <3> QED
      BY <2>1, <3>4, <3>5
  <2> HIDE DEF S
  <2>3. fs \in Seq(S) /\ Len(fs) = 1 + Len(iv)
    BY <2>2, ConcatProperties
  <2>4. Len(c2s') <= Len(c2s) + Len(fs) /\ Len(c2s') \in Nat
    BY <1>0, <2>1, <2>3, PutLength, WorkIsThen DEF TypeInv
  <2>5. Len(c2s') <= Len(c2s) + 2
    BY <1>0, <2>2, <2>3, <2>4
  <2> QED
    BY <1>0, <1>1, <1>5, <2>5 DEF SendCtrl, serverVars
<1>6. CASE RcvInitAck
  BY <1>0, <1>1, <1>6 DEF RcvInitAck, serverVars
<1>7. CASE OpenSource
  <2>1. CASE Stop(TRUE)
    BY <1>2, <1>7, <2>1 DEF OpenSource
  <2>2. CASE cState' \in {"SendName", "SendText"} /\ UNCHANGED <<read, cfg, serverVars, netVars>>
    BY <1>0, <1>1, <1>7, <2>2 DEF OpenSource, serverVars, netVars
  <2> QED
    BY <1>7, <2>1, <2>2 DEF OpenSource
<1>8. CASE SendName
  BY <1>0, <1>1, <1>3, <1>8 DEF SendName
<1>9. CASE SendBlock
  <2>1. /\ cState = "SendBlocks" /\ read' = read + 1
        /\ \/ read < cfg.full /\ cState' = "SendBlocks"
           \/ read = cfg.full /\ cState' = "SendEot"
    BY <1>9 DEF SendBlock
  <2>2. UNCHANGED <<cfg, sState, sOpen, faults>> /\ Len(c2s') <= Len(c2s) + 2
    BY <1>3, <1>9 DEF SendBlock
  <2>3. CASE read < cfg.full
    <3>1. BlocksLeft' < BlocksLeft
      BY <1>0, <2>1, <2>2, <2>3 DEF BlocksLeft
    <3>2. ClientSteps[cState'] = ClientSteps[cState]
      BY <1>0, <2>1, <2>3
    <3> QED
      BY <1>0, <2>2, <3>1, <3>2 DEF ClientWork
  <2>4. CASE read = cfg.full
    <3>1. BlocksLeft' = BlocksLeft
      BY <1>0, <2>1, <2>2, <2>4 DEF BlocksLeft
    <3>2. cState' = "SendEot"
      BY <1>0, <2>1, <2>4
    <3>3. ClientSteps[cState'] = 2 /\ ClientSteps[cState] = 3
      BY <2>1, <3>2 DEF ClientSteps
    <3> QED
      BY <1>0, <2>2, <3>1, <3>3 DEF ClientWork
  <2> QED
    BY <2>1, <2>3, <2>4
<1>10. CASE SendText
  <2>1. /\ cState = "SendText" /\ cState' = "SendEot" /\ read' = 1
        /\ UNCHANGED <<cfg, sState, sOpen, faults>> /\ Len(c2s') <= Len(c2s) + 2
    BY <1>3, <1>10 DEF SendText
  <2>2. ClientSteps[cState'] = 2 /\ ClientSteps[cState] = 3
    BY <2>1 DEF ClientSteps
  <2>3. BlocksLeft' <= BlocksLeft
    BY <1>0, <2>1 DEF BlocksLeft
  <2>4. ClientWork = 3 + BlocksLeft /\ ClientWork' = 2 + BlocksLeft'
    BY <2>2 DEF ClientWork
  <2>5. ClientWork' < ClientWork
    <3>1. BlocksLeft \in Nat /\ BlocksLeft' \in Nat
      BY <1>0
    <3> DEFINE b == BlocksLeft
               d == BlocksLeft'
    <3>2. 2 + d < 3 + b
      <4> HIDE DEF b, d
      <4>1. b \in Nat /\ d \in Nat /\ d <= b
        BY <2>3, <3>1 DEF b, d
      <4> QED
        BY <4>1
    <3> QED
      BY <2>4, <3>2
  <2> QED
    BY <2>1, <2>5
<1>11. CASE SendEot
  BY <1>0, <1>1, <1>3, <1>11 DEF SendEot
<1>12. CASE RcvFinalAck
  BY <1>0, <1>1, <1>12 DEF RcvFinalAck, serverVars
<1>13. CASE WriteFails
  BY <1>2, <1>13 DEF WriteFails
<1>14. CASE AckTimeout
  BY <1>2, <1>14 DEF AckTimeout
<1>15. CASE ClientCrash
  <2>1. /\ UNCHANGED <<cfg, read, sState, sOpen, faults>> /\ cState' = "Crashed"
        /\ cState \notin {"Stopped", "Crashed"} /\ c2s' \in {c2s, <<>>}
    BY <1>15, Zenon DEF ClientCrash, ClientHangsUp, ClientOpen, serverVars
  <2> QED
    BY <1>0, <1>1, <2>1, Emptied
<1> QED
  BY <1>4, <1>5, <1>6, <1>7, <1>8, <1>9, <1>10, <1>11, <1>12, <1>13, <1>14, <1>15 DEF ClientStep

LEMMA ServerStepWorks ==
  ASSUME TypeInv, TypeInv', ServerStep \/ ServerKill
  PROVE  WorkLeft' \in 0..(WorkLeft - 1)
<1>0. TypeOK /\ TypeOK' /\ Len(c2s) \in Nat /\ Opened \in 0..1
  BY WorkIs DEF TypeInv
<1>1. ASSUME UNCHANGED <<cfg, cState, read, faults>>, Len(c2s') <= Len(c2s), Opened' <= Opened,
             \/ sState = "RcvCtrl" /\ sState' \in {"Done", "ReadIv", "Accept"}
             \/ sState = "ReadIv" /\ sState' \in {"Close", "Accept", "Killed"}
             \/ sState = "Accept" /\ sState' \in {"RcvName", "RcvText", "Close"}
             \/ sState = "RcvName" /\ sState' \in {"RcvBlocks", "Close"}
             \/ sState \in {"RcvBlocks", "RcvText"} /\ sState' \in {"FinalAck", "Close"}
             \/ sState = "FinalAck" /\ sState' = "Confirm"
             \/ sState \in {"Close", "Confirm"} /\ sState' = "Done"
      PROVE  WorkLeft' \in 0..(WorkLeft - 1)
  <2>1. ServerSteps[sState'] < ServerSteps[sState] /\ ServerSteps[sState'] <= ServerSteps[sState]
    BY <1>1 DEF ServerSteps
  <2> QED
    BY <1>0, <1>1, <2>1, ServerWorks
<1>2. ASSUME c2s' = c2s \/ c2s' = <<>> \/ (c2s # <<>> /\ c2s' = Tail(c2s)) PROVE Len(c2s') <= Len(c2s)
  BY <1>0, <1>2, Emptied, TakenLength
<1>3. sOpen' = sOpen => Opened' <= Opened
  BY <1>0 DEF Opened
<1>16. ASSUME UNCHANGED <<cfg, cState, read, sState, sOpen, faults>>, c2s # <<>>, c2s' = Tail(c2s)
       PROVE  WorkLeft' \in 0..(WorkLeft - 1)
  <2>1. Len(c2s') < Len(c2s) /\ Len(c2s') <= Len(c2s)
    BY <1>0, <1>16, TakenLength
  <2>2. ServerSteps[sState'] <= ServerSteps[sState]
    BY <1>0, <1>16, WorkIs
  <2> QED
    BY <1>0, <1>3, <1>16, <2>1, <2>2, ServerWorks
<1>4. CASE RcvCtrlFrame
  BY <1>1, <1>2, <1>3, <1>4 DEF RcvCtrlFrame, clientVars
<1>5. CASE ReadIvAndKey
  <2>1. /\ sState = "ReadIv" /\ UNCHANGED <<cfg, cState, read, sOpen, faults>>
        /\ \/ c2s # <<>> /\ c2s' = Tail(c2s) /\ sState' \in {sState, "Accept", "Close"}
           \/ c2s' = c2s /\ sState' = "Close"
    BY <1>5, Zenon DEF ReadIvAndKey, clientVars
  <2>2. CASE sState' = sState
    BY <2>1, <2>2, <1>16
  <2>3. CASE sState' \in {"Accept", "Close"}
    BY <1>1, <1>2, <1>3, <2>1, <2>3
  <2> QED
    BY <2>1, <2>2, <2>3
<1>6. ASSUME NEW next, NEW failed, SendAck(next, failed)
      PROVE  sState' \in {next, failed} /\ (c2s' = c2s \/ c2s' = <<>>)
  BY <1>6, Zenon DEF SendAck
<1>7. CASE AcceptConnection
  BY <1>1, <1>2, <1>3, <1>6, <1>7 DEF AcceptConnection, clientVars
<1>8. CASE RcvFilename
  <2>1. /\ sState = "RcvName" /\ sState' \in {"RcvBlocks", "Close"}
        /\ UNCHANGED <<cfg, cState, read, sOpen, faults>>
        /\ c2s' = c2s \/ (c2s # <<>> /\ c2s' = Tail(c2s))
    BY <1>8 DEF RcvFilename, ReadDataFrame, ReadFails, clientVars
  <2> QED
    BY <1>1, <1>2, <1>3, <2>1
<1>9. CASE RcvBlock
  <2>1. /\ sState = "RcvBlocks" /\ UNCHANGED <<cfg, cState, read, sOpen, faults>>
        /\ \/ c2s # <<>> /\ c2s' = Tail(c2s) /\ sState' \in {"RcvBlocks", "FinalAck", "Close"}
           \/ c2s' = c2s /\ sState' = "Close"
    BY <1>9 DEF RcvBlock, ReadDataFrame, ReadFails, DropFile, clientVars
  <2>2. CASE sState' = "RcvBlocks"
    BY <2>1, <2>2, <1>16
  <2>3. CASE sState' \in {"FinalAck", "Close"}
    BY <1>1, <1>2, <1>3, <2>1, <2>3
  <2> QED
    BY <2>1, <2>2, <2>3
<1>10. CASE RcvMessage
  <2>1. /\ sState = "RcvText" /\ sState' \in {"FinalAck", "Close"}
        /\ UNCHANGED <<cfg, cState, read, sOpen, faults>>
        /\ c2s' = c2s \/ (c2s # <<>> /\ c2s' = Tail(c2s))
    BY <1>10 DEF RcvMessage, ReadDataFrame, ReadFails, clientVars
  <2> QED
    BY <1>1, <1>2, <1>3, <2>1
<1>11. CASE FinalAck
  BY <1>1, <1>2, <1>3, <1>6, <1>11 DEF FinalAck, clientVars
<1>12. ASSUME ServerHangsUp PROVE c2s' = <<>> /\ faults' = faults /\ Opened' <= Opened
                                  /\ (sOpen => Opened' < Opened)
  BY <1>0, <1>12 DEF ServerHangsUp, Opened
<1>13. CASE CloseConn
  <2>1. /\ sState \in {"Close", "Confirm"} /\ sState' = "Done" /\ ServerHangsUp
        /\ UNCHANGED <<cfg, cState, read>>
    BY <1>13 DEF CloseConn, clientVars
  <2> QED
    BY <1>1, <1>2, <1>12, <2>1
<1>15. CASE ReadOn
  BY <1>15, <1>16 DEF ReadOn, clientVars, serverVars
<1>17. CASE NoDecryption
  <2>1. sState = "ReadIv" /\ sState' = "Killed" /\ ServerHangsUp /\ UNCHANGED <<cfg, cState, read>>
    BY <1>17 DEF NoDecryption, clientVars
  <2>2. Len(c2s') <= Len(c2s) /\ Opened' <= Opened /\ faults' = faults
    BY <1>2, <1>12, <2>1
  <2> QED
    BY <1>1, <2>1, <2>2
<1>14. CASE Reap \/ ServerKill
  <2>1. /\ sOpen /\ ServerHangsUp /\ UNCHANGED <<cfg, cState, read>>
        /\ sState' \in {sState, "Killed"}
    BY <1>14 DEF Reap, ServerKill, clientVars, serverVars
  <2>2. ServerSteps[sState] \in Nat
    BY <1>0, WorkIs
  <2>3. ServerSteps[sState'] <= ServerSteps[sState]
    BY <2>1, <2>2 DEF ServerSteps
  <2> QED
    BY <1>0, <1>2, <1>12, <2>1, <2>3, ServerWorks
<1> QED
  BY <1>4, <1>5, <1>7, <1>8, <1>9, <1>10, <1>11, <1>13, <1>14, <1>15, <1>17 DEF ServerStep

\* A fault leaves one frame more, at most, and one fault less.
LEMMA FaultWorks ==
  ASSUME TypeInv, TypeInv', ChannelFault
  PROVE  WorkLeft' \in 0..(WorkLeft - 1)
<1>1. /\ UNCHANGED <<cfg, cState, read, sState, sOpen>> /\ faults' = faults + 1
      /\ faults < MaxFaults
  BY DEF ChannelFault, clientVars, serverVars
<1>2. Len(c2s') <= Len(c2s) + 1
  BY ChannelFaultType DEF TypeInv
<1> DEFINE c == ClientWork
           s == ServerSteps[sState]
           o == Opened
           l == Len(c2s)
           m == Len(c2s')
<1>3. /\ c \in Nat /\ s \in Nat /\ o \in 0..1 /\ l \in Nat /\ m \in Nat
      /\ MaxFaults \in Nat /\ faults \in Nat
  BY WorkIs, WorkIsThen, BoundsAssumption DEF TypeInv, TypeOK
<1>4. ClientWork' = c /\ Opened' = o
  BY <1>1 DEF ClientWork, BlocksLeft, Opened
<1>5. WorkLeft = 3 * c + s + l + o + 2 * (MaxFaults - faults)
  BY WorkIs DEF TypeInv
<1>6. WorkLeft' = 3 * c + s + m + o + 2 * (MaxFaults - (faults + 1))
  BY <1>1, <1>4, WorkIsThen DEF TypeInv
<1>7. m <= l + 1 /\ faults + 1 <= MaxFaults
  BY <1>1, <1>2, <1>3
<1> HIDE DEF c, s, o, l, m
<1> QED
  BY <1>3, <1>5, <1>6, <1>7

LEMMA StepWorks ==
  ASSUME TypeInv, cState = "SendText" => read = 0, [Next]_vars, vars' # vars
  PROVE  WorkLeft' \in 0..(WorkLeft - 1)
<1>1. TypeInv' /\ TypeOK /\ TypeOK'
  BY TypeStep DEF TypeInv
<1>2. CASE ClientStep \/ ClientCrash
  BY <1>1, <1>2, ClientWorkDown, ClientWorks
<1> QED
  BY <1>1, <1>2, ServerStepWorks, FaultWorks DEF Next, Finished

\* The variables of a transfer keep to their types: in particular the server
\* reads a control frame, an IV and data frames only where they were sent.
THEOREM TypeCorrect == Spec => []TypeOK
<1>1. Spec => []TypeInv
  BY TypeInit, TypeStep, PTL DEF Spec
<1>2. TypeInv => TypeOK
  BY DEF TypeInv
<1> QED
  BY <1>1, <1>2, PTL
=============================================================================
