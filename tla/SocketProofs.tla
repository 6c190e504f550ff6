---------------------------- MODULE SocketProofs ----------------------------
(***************************************************************************)
(* The two loops of a connection keep to their buffers and their retry     *)
(* limits, and deliver frames in the way FrameLink promises, for streams   *)
(* of any length, frames and buffers of any size, and any limits that keep *)
(* the order they have in the code.                                        *)
(***************************************************************************)
EXTENDS SocketIO, Recursion, SequenceTheorems

\* The size of the frame that is next or being written
Current == FrameSize(sent + 1)

\* A writer in the middle of a call is below its limits and has a part of a frame
\* to go; between two calls nothing of a frame has been written.
WriterInv ==
  /\ wstate = "writing" =>
       sent < NFrames /\ resend_count <= MaxResend /\ retry_count_err <= MaxSendRetry
  /\ wstate = "idle" => bytes_sent = 0
  /\ sent < NFrames => bytes_sent < Current
  /\ sent = NFrames => bytes_sent = 0

\* The reader counts down only after the sender has gone.
ReaderInv ==
  ReaderOpen => delivered < NFrames /\ (~SenderGone => retry_counter = ReadRetries)

BoundsInv == TypeOK /\ WriterInv /\ ReaderInv /\ ReadInBounds

-----------------------------------------------------------------------------
(* Sequences of bytes *)

LEMMA FunctionSeq ==
  ASSUME NEW S, NEW n \in Nat, NEW g \in [1..n -> S]
  PROVE  g \in Seq(S) /\ Len(g) = n
OBVIOUS

LEMMA PrefixOf ==
  ASSUME NEW S, NEW s \in Seq(S), NEW k \in 0..Len(s)
  PROVE  /\ SubSeq(s, 1, k) \in Seq(S) /\ Len(SubSeq(s, 1, k)) = k
         /\ \A i \in 1..k : SubSeq(s, 1, k)[i] = s[i]
<1>1. k \in Int /\ 1 \in Int /\ k \in Nat /\ k <= Len(s) BY SMT
<1>2. \A i \in 1..k : s[i] \in S BY <1>1, ElementOfSeq, SMT
<1>3. /\ SubSeq(s, 1, k) \in Seq(S)
      /\ Len(SubSeq(s, 1, k)) = IF 1 <= k THEN k - 1 + 1 ELSE 0
      /\ \A i \in 1..(k - 1 + 1) : SubSeq(s, 1, k)[i] = s[1 + i - 1]
  BY <1>1, <1>2, SubSeqProperties
<1> QED BY <1>1, <1>3, SMT

LEMMA SuffixOf ==
  ASSUME NEW S, NEW s \in Seq(S), NEW k \in 0..Len(s)
  PROVE  /\ SubSeq(s, k + 1, Len(s)) \in Seq(S) /\ Len(SubSeq(s, k + 1, Len(s))) = Len(s) - k
         /\ \A i \in 1..(Len(s) - k) : SubSeq(s, k + 1, Len(s))[i] = s[k + i]
<1>1. k \in Nat /\ k <= Len(s) /\ Len(s) \in Nat /\ k + 1 \in Int BY LenProperties, SMT
<1>2. \A i \in (k + 1)..Len(s) : s[i] \in S BY <1>1, ElementOfSeq, SMT
<1>3. /\ SubSeq(s, k + 1, Len(s)) \in Seq(S)
      /\ Len(SubSeq(s, k + 1, Len(s))) = IF k + 1 <= Len(s) THEN Len(s) - (k + 1) + 1 ELSE 0
      /\ \A i \in 1..(Len(s) - (k + 1) + 1) : SubSeq(s, k + 1, Len(s))[i] = s[k + 1 + i - 1]
  BY <1>1, <1>2, SubSeqProperties
<1>4. Len(s) - (k + 1) + 1 = Len(s) - k BY <1>1, SMT
<1>5. \A i \in 1..(Len(s) - k) : k + 1 + i - 1 = k + i BY <1>1, SMT
<1>6. (IF k + 1 <= Len(s) THEN Len(s) - k ELSE 0) = Len(s) - k BY <1>1, SMT
<1> QED BY <1>3, <1>4, <1>5, <1>6

LEMMA LeastProperties ==
  ASSUME NEW a \in Int, NEW b \in Int
  PROVE  Least(a, b) \in {a, b} /\ Least(a, b) <= a /\ Least(a, b) <= b
BY SMT DEF Least

LEMMA FrameSizes ==
  ASSUME TypeOK, NEW f \in 1..NFrames
  PROVE  /\ FrameSize(f) \in Nat /\ HeaderSize <= FrameSize(f) /\ FrameSize(f) <= HeaderSize + MaxData
         /\ ~encrypted => FrameSize(f) = HeaderSize + size[f]
         /\ encrypted => FrameSize(f) = HeaderSize + MaxData
<1>1. size[f] \in 0..MaxData /\ HeaderSize \in Nat /\ MaxData \in Nat
  BY SizesAssumption DEF TypeOK
<1> QED BY <1>1, SMT DEF FrameSize

\* The bytes of a frame, and nothing else
LEMMA BytesType ==
  ASSUME NEW f \in 1..NFrames, NEW from \in Nat \ {0}, NEW to \in Nat,
         from <= to + 1, to <= HeaderSize + MaxData
  PROVE  /\ Bytes(f, from, to) \in Seq(AllBytes) /\ Len(Bytes(f, from, to)) = to - from + 1
         /\ \A i \in 1..(to - from + 1) : Bytes(f, from, to)[i] = <<f, from + i - 1>>
<1>1. to - from + 1 \in Nat /\ HeaderSize + MaxData \in Nat BY SizesAssumption, SMT
<1>2. ASSUME NEW i \in 1..(to - from + 1) PROVE <<f, from + i - 1>> \in AllBytes
  <2>1. from + i - 1 \in 1..(HeaderSize + MaxData) BY <1>1, <1>2, SMT
  <2> QED BY <2>1 DEF AllBytes
<1>3. Bytes(f, from, to) = [i \in 1..(to - from + 1) |-> <<f, from + i - 1>>] BY DEF Bytes
<1>4. Bytes(f, from, to) \in [1..(to - from + 1) -> AllBytes] BY <1>2, <1>3
<1>5. Bytes(f, from, to) \in Seq(AllBytes) /\ Len(Bytes(f, from, to)) = to - from + 1
  <2> DEFINE n == to - from + 1
  <2> HIDE DEF n
  <2>1. n \in Nat /\ Bytes(f, from, to) \in [1..n -> AllBytes] BY <1>1, <1>4 DEF n
  <2> QED BY <2>1, FunctionSeq DEF n
<1> QED BY <1>3, <1>5

-----------------------------------------------------------------------------
(* The writer *)

\* A step of the writer, or one that ends it
WriterStep ==
  \/ StartWrite \/ WriteInterrupted \/ WriteBroken \/ Finish \/ Crash
  \/ wstate = "writing" /\ \E k \in 1..Least(at_once, Remaining) : Write(k)

ReaderStep == Peek \/ Recv \/ RecvNothing \/ PeekShort \/ RecvInterrupted

LEMMA Sides == [Next]_vars => WriterStep \/ ReaderStep \/ UNCHANGED vars
BY DEF Next, WriteStep, ReadStep, WriterStep, ReaderStep

LEMMA WriterKeeps ==
  ASSUME WriterStep
  PROVE  UNCHANGED <<encrypted, size>> /\ UNCHANGED readVars
BY DEF WriterStep, StartWrite, WriteInterrupted, WriteBroken, Finish, Crash, HangUp, Write

LEMMA ReaderKeeps ==
  ASSUME ReaderStep
  PROVE  UNCHANGED <<encrypted, size>> /\ UNCHANGED writeVars
BY DEF ReaderStep, Peek, Recv, RecvNothing, PeekShort, RecvInterrupted

\* What is left of a frame in the middle of a call
LEMMA InCall ==
  ASSUME TypeOK, WriterInv, sent < NFrames
  PROVE  /\ sent \in Nat /\ sent + 1 \in 1..NFrames /\ bytes_sent \in Nat
         /\ FrameSize(sent + 1) \in Nat /\ FrameSize(sent + 1) <= HeaderSize + MaxData
         /\ Remaining \in Nat \ {0} /\ bytes_sent + Remaining = FrameSize(sent + 1)
<1>1. sent \in Nat /\ sent + 1 \in 1..NFrames /\ bytes_sent \in Nat
  BY SizesAssumption, SMT DEF TypeOK
<1>2. FrameSize(sent + 1) \in Nat /\ FrameSize(sent + 1) <= HeaderSize + MaxData
  BY <1>1, FrameSizes
<1>3. bytes_sent < FrameSize(sent + 1) BY DEF WriterInv, Current
<1> HIDE DEF FrameSize
<1> QED BY <1>1, <1>2, <1>3, SMT DEF Remaining

\* A piece fits into what is left.
LEMMA PieceType ==
  ASSUME TypeOK, WriterInv, sent < NFrames, NEW k \in Nat \ {0}, k <= Remaining
  PROVE  /\ Piece(k) \in Seq(AllBytes) /\ Len(Piece(k)) = k
         /\ \A i \in 1..k : Piece(k)[i] = <<sent + 1, bytes_sent + i>>
         /\ bytes_sent + k \in Nat /\ bytes_sent + k <= FrameSize(sent + 1)
         /\ (k = Remaining <=> bytes_sent + k = FrameSize(sent + 1))
<1> DEFINE from == bytes_sent + 1
           to == bytes_sent + k
<1>1. /\ sent + 1 \in 1..NFrames /\ from \in Nat \ {0} /\ to \in Nat /\ from <= to + 1
      /\ to <= FrameSize(sent + 1) /\ to <= HeaderSize + MaxData /\ to - from + 1 = k
      /\ (k = Remaining <=> to = FrameSize(sent + 1))
      /\ \A i \in 1..k : from + i - 1 = bytes_sent + i
  <2> HIDE DEF FrameSize, Remaining
  <2> QED BY InCall, SizesAssumption, SMT
<1>2. Piece(k) = Bytes(sent + 1, from, to) BY DEF Piece
<1> HIDE DEF from, to
<1>3. /\ Bytes(sent + 1, from, to) \in Seq(AllBytes) /\ Len(Bytes(sent + 1, from, to)) = k
      /\ \A i \in 1..k : Bytes(sent + 1, from, to)[i] = <<sent + 1, from + i - 1>>
  BY <1>1, BytesType
<1> QED BY <1>1, <1>2, <1>3 DEF to

\* The parts of TypeOK
FixedTypes == encrypted \in BOOLEAN /\ size \in [1..NFrames -> 0..MaxData]
WriteTypes ==
  /\ wstate \in {"idle", "writing", "closed"} /\ sent \in 0..NFrames
  /\ at_once \in 0..(HeaderSize + MaxData) /\ bytes_sent \in 0..(HeaderSize + MaxData)
  /\ resend_count \in 0..(MaxResend + 1) /\ retry_count_err \in 0..(MaxSendRetry + 1)
NetTypes ==
  /\ net \in Seq(AllBytes) /\ Len(net) <= Cap
  /\ interrupts \in 0..MaxInterrupts /\ disturbed \in BOOLEAN
ReadTypes ==
  /\ rstate \in {"header", "frame", "done", "failed"}
  /\ buffer \in Seq(AllBytes) /\ retry_counter \in 1..ReadRetries
  /\ data_header \in Seq(AllBytes) /\ data_size \in 0..MaxData
  /\ delivered \in 0..NFrames

LEMMA TypeParts == TypeOK <=> FixedTypes /\ WriteTypes /\ NetTypes /\ ReadTypes
BY DEF TypeOK, FixedTypes, WriteTypes, NetTypes, ReadTypes

LEMMA TypePartsPrimed ==
  ASSUME FixedTypes', WriteTypes', NetTypes', ReadTypes' PROVE TypeOK'
BY DEF TypeOK, FixedTypes, WriteTypes, NetTypes, ReadTypes

\* The constants as numbers
LEMMA Numbers ==
  /\ NFrames \in Nat \ {0} /\ HeaderSize \in Nat \ {0} /\ MaxData \in Nat \ {0}
  /\ Queue \in Nat \ {0} /\ Cap \in Nat /\ HeaderSize <= Cap
  /\ MaxResend \in Nat /\ MaxSendRetry \in Nat /\ MaxReadRetry \in Nat /\ MaxInterrupts \in Nat
  /\ ReadRetries \in Nat \ {0} /\ MaxReadRetry <= ReadRetries
BY SizesAssumption, RetriesAssumption, SMT

LEMMA SameFrames ==
  ASSUME UNCHANGED <<encrypted, size>>
  PROVE  /\ FixedTypes' = FixedTypes
         /\ \A f \in 1..NFrames : FrameSize(f)' = FrameSize(f)
BY DEF FixedTypes, FrameSize

\* The size of a frame does not change while it is current.
LEMMA SameCurrent ==
  ASSUME UNCHANGED <<encrypted, size>>, sent' = sent
  PROVE  Current' = Current
BY DEF Current, FrameSize

LEMMA NetTypesAfterHangUp ==
  ASSUME NetTypes, HangUp PROVE NetTypes'
<1>1. <<>> \in Seq(AllBytes) /\ Len(<<>>) = 0 BY EmptySeq
<1>2. 0 <= Cap BY Numbers, SMT
<1> QED BY <1>1, <1>2 DEF NetTypes, HangUp

LEMMA WriterTypes ==
  ASSUME TypeOK, WriterInv, WriterStep
  PROVE  WriteTypes' /\ NetTypes' /\ WriterInv'
<1>0. WriteTypes /\ NetTypes BY TypeParts
<1>a. UNCHANGED <<encrypted, size>> BY WriterKeeps
<1>1. CASE StartWrite
  <2>1. /\ wstate = "idle" /\ sent < NFrames /\ wstate' = "writing" /\ sent' = sent
        /\ bytes_sent' = 0 /\ resend_count' = 0 /\ retry_count_err' = 0
        /\ UNCHANGED <<net, interrupts, disturbed>>
    BY <1>1 DEF StartWrite
  <2>2. sent + 1 \in 1..NFrames /\ FrameSize(sent + 1) \in Nat /\ FrameSize(sent + 1) <= HeaderSize + MaxData
        /\ bytes_sent = 0 /\ bytes_sent < Current
    BY <2>1, InCall DEF WriterInv
  <2>3. at_once' \in 0..(HeaderSize + MaxData)
    <3> DEFINE s == FrameSize(sent + 1)
    <3>1. at_once' \in {Least(s, Queue), s} BY <1>1 DEF StartWrite
    <3>2. s \in Nat /\ s <= HeaderSize + MaxData BY <2>2
    <3> HIDE DEF s
    <3>3. Least(s, Queue) \in Nat /\ Least(s, Queue) <= s BY <3>2, Numbers, SMT DEF Least
    <3> QED BY <3>1, <3>2, <3>3, Numbers, SMT
  <2>4. WriteTypes' BY <1>0, <2>1, <2>3, Numbers, SMT DEF WriteTypes
  <2>5. Current' = Current BY <1>a, <2>1, SameCurrent
  <2>6. WriterInv'
    <3>1. sent # NFrames BY <2>1, Numbers, SMT
    <3> QED BY <2>1, <2>2, <2>5, <3>1, Numbers, SMT DEF WriterInv
  <2>7. NetTypes' BY <1>0, <2>1 DEF NetTypes
  <2> QED BY <2>4, <2>6, <2>7
<1>2. ASSUME wstate = "writing", NEW k \in 1..Least(at_once, Remaining), Write(k)
      PROVE  WriteTypes' /\ NetTypes' /\ WriterInv'
  <2>1. sent < NFrames /\ resend_count <= MaxResend /\ retry_count_err <= MaxSendRetry
    BY <1>2 DEF WriterInv
  <2>2. k \in Nat \ {0} /\ k <= Remaining
    <3>1. at_once \in Int /\ Remaining \in Int BY <1>0, <2>1, InCall, SMT DEF WriteTypes
    <3>2. Least(at_once, Remaining) <= Remaining /\ Least(at_once, Remaining) \in Int
      BY <3>1, LeastProperties
    <3> HIDE DEF Remaining
    <3> QED BY <1>2, <3>1, <3>2, SMT
  <2>3. /\ Piece(k) \in Seq(AllBytes) /\ Len(Piece(k)) = k
        /\ bytes_sent + k \in Nat /\ bytes_sent + k <= FrameSize(sent + 1)
        /\ (k = Remaining <=> bytes_sent + k = FrameSize(sent + 1))
    BY <2>1, <2>2, PieceType
  <2>4. NetTypes'
    <3>1. UNCHANGED <<interrupts, disturbed>> BY <1>2 DEF Write
    <3>2. CASE ~ReaderOpen BY <1>0, <1>2, <3>1, <3>2 DEF Write, NetTypes
    <3>3. CASE ReaderOpen
      <4>1. net' = net \o Piece(k) /\ Len(net) + k <= Cap BY <1>2, <3>3 DEF Write
      <4>2. net' \in Seq(AllBytes) /\ Len(net') = Len(net) + k
        BY <1>0, <2>3, <4>1, ConcatProperties DEF NetTypes
      <4> QED BY <1>0, <3>1, <4>1, <4>2 DEF NetTypes
    <3> QED BY <3>2, <3>3
  <2>5. at_once' = at_once /\ retry_count_err' = retry_count_err BY <1>2 DEF Write
  <2>6. sent \in 0..NFrames /\ sent + 1 \in 1..NFrames BY <2>1, InCall, Numbers, SMT
  <2>7. CASE k = Remaining
    <3>1. sent' = sent + 1 /\ wstate' = "idle" /\ bytes_sent' = 0 /\ resend_count' = resend_count
      BY <1>2, <2>7 DEF Write
    <3>2. WriteTypes' BY <1>0, <2>5, <2>6, <3>1, Numbers, SMT DEF WriteTypes
    <3>3. sent' < NFrames => 0 < Current'
      <4> SUFFICES ASSUME sent' < NFrames PROVE 0 < Current' OBVIOUS
      <4> DEFINE n == sent'
      <4>1. n + 1 \in 1..NFrames BY <2>6, <3>1, Numbers, SMT
      <4>2. FrameSize(n + 1) \in Nat /\ HeaderSize <= FrameSize(n + 1) BY <4>1, FrameSizes
      <4>3. Current' = FrameSize(n + 1) BY <1>a DEF Current, FrameSize
      <4> HIDE DEF FrameSize, n
      <4> QED BY <4>2, <4>3, Numbers, SMT
    <3>4. WriterInv' BY <3>1, <3>3 DEF WriterInv
    <3> QED BY <2>4, <3>2, <3>4
  <2>8. CASE k # Remaining
    <3>1. /\ sent' = sent /\ bytes_sent' = bytes_sent + k /\ resend_count' = resend_count + 1
          /\ wstate' = IF resend_count' > MaxResend THEN "closed" ELSE "writing"
      BY <1>2, <2>8 DEF Write, GivenUp
    <3>2. bytes_sent' \in Nat /\ bytes_sent' < Current
          /\ FrameSize(sent + 1) \in Nat /\ FrameSize(sent + 1) <= HeaderSize + MaxData
      <4>1. FrameSize(sent + 1) \in Nat /\ FrameSize(sent + 1) <= HeaderSize + MaxData
        BY <2>1, InCall
      <4> HIDE DEF FrameSize, Remaining
      <4> QED BY <2>3, <2>8, <3>1, <4>1, SMT DEF Current
    <3>3. WriteTypes'
      <4> HIDE DEF FrameSize, Remaining
      <4>1. bytes_sent' \in 0..(HeaderSize + MaxData) BY <3>2, Numbers, SMT DEF Current
      <4>2. resend_count' \in 0..(MaxResend + 1)
        BY <1>0, <2>1, <3>1, Numbers, SMT DEF WriteTypes
      <4>3. wstate' \in {"idle", "writing", "closed"} BY <3>1
      <4> QED BY <1>0, <2>5, <3>1, <4>1, <4>2, <4>3 DEF WriteTypes
    <3>4. Current' = Current BY <1>a, <3>1, SameCurrent
    <3>5. WriterInv'
      <4>1. wstate' # "idle" /\ (wstate' = "writing" => resend_count' <= MaxResend)
        BY <1>0, <3>1, Numbers, SMT DEF WriteTypes
      <4>2. sent # NFrames BY <2>1, <2>6, Numbers, SMT
      <4> QED BY <2>1, <2>5, <3>1, <3>2, <3>4, <4>1, <4>2 DEF WriterInv
    <3> QED BY <2>4, <3>3, <3>5
  <2> QED BY <2>7, <2>8
<1>3. CASE WriteInterrupted
  <2>1. /\ wstate = "writing" /\ interrupts < MaxInterrupts
        /\ interrupts' = interrupts + 1 /\ retry_count_err' = retry_count_err + 1
        /\ wstate' = IF retry_count_err' > MaxSendRetry THEN "closed" ELSE "writing"
        /\ UNCHANGED <<sent, at_once, bytes_sent, resend_count, net, disturbed>>
    BY <1>3 DEF WriteInterrupted, GivenUp
  <2>2. WriteTypes' /\ NetTypes'
    <3>1. retry_count_err' \in 0..(MaxSendRetry + 1) /\ interrupts' \in 0..MaxInterrupts
      BY <1>0, <2>1, Numbers, SMT DEF WriteTypes, NetTypes, WriterInv
    <3>2. wstate' \in {"idle", "writing", "closed"} BY <2>1
    <3> QED BY <1>0, <2>1, <3>1, <3>2 DEF WriteTypes, NetTypes
  <2>3. wstate' # "idle" /\ (wstate' = "writing" => retry_count_err' <= MaxSendRetry)
    BY <1>0, <2>1, Numbers, SMT DEF WriteTypes
  <2>4. Current' = Current BY <1>a, <2>1, SameCurrent
  <2>5. WriterInv' BY <2>1, <2>3, <2>4 DEF WriterInv
  <2> QED BY <2>2, <2>5
<1>4. ASSUME wstate' = "closed",
             UNCHANGED <<sent, at_once, bytes_sent, resend_count, retry_count_err>>
      PROVE  WriteTypes' /\ WriterInv'
  <2>1. Current' = Current BY <1>a, <1>4, SameCurrent
  <2>2. WriteTypes' BY <1>0, <1>4 DEF WriteTypes
  <2>3. WriterInv' BY <1>4, <2>1 DEF WriterInv
  <2> QED BY <2>2, <2>3
<1>5. CASE WriteBroken
  <2>1. NetTypes' BY <1>0, <1>5 DEF WriteBroken, NetTypes
  <2> QED BY <1>4, <1>5, <2>1 DEF WriteBroken, GivenUp
<1>6. CASE Finish \/ Crash
  <2>1. HangUp BY <1>6 DEF Finish, Crash
  <2>2. NetTypes' BY <1>0, <2>1, NetTypesAfterHangUp
  <2> QED BY <1>4, <2>1, <2>2 DEF HangUp
<1> QED BY <1>1, <1>2, <1>3, <1>5, <1>6 DEF WriterStep

\* The writer leaves the reader as it is, and does not come back.
LEMMA WriterKeepsReader ==
  ASSUME ReadTypes, ReaderInv, ReadInBounds, WriterStep
  PROVE  ReadTypes' /\ ReaderInv' /\ ReadInBounds'
<1>1. UNCHANGED <<encrypted, size>> /\ UNCHANGED readVars BY WriterKeeps
<1>2. SenderGone => SenderGone'
  BY DEF SenderGone, WriterStep, StartWrite, WriteInterrupted, WriteBroken, GivenUp, Finish,
         Crash, HangUp, Write
<1>3. ReadTypes' BY <1>1 DEF ReadTypes, readVars
<1>4. ReaderInv' BY <1>1, <1>2 DEF ReaderInv, ReaderOpen, readVars
<1>5. ReadInBounds' BY <1>1 DEF ReadInBounds, ReaderOpen, Wanted, Peeking, readVars
<1> QED BY <1>3, <1>4, <1>5

-----------------------------------------------------------------------------
(* The reader *)

ReaderOK == ReadTypes /\ ReaderInv /\ ReadInBounds

\* A new call starts with the whole buffer to fill.
LEMMA AfterNextCall ==
  ASSUME NEW state, NextCall(state), data_header' \in Seq(AllBytes), data_size' \in 0..MaxData,
         delivered' \in 0..NFrames, state \in {"header", "frame", "done", "failed"},
         state \in {"header", "frame"} => delivered' < NFrames
  PROVE  ReaderOK'
<1>1. /\ rstate' = state /\ buffer' = <<>> /\ received' = 0 /\ retry_counter' = ReadRetries
  BY DEF NextCall, StartCount
<1>2. <<>> \in Seq(AllBytes) /\ Len(<<>>) = 0 BY EmptySeq
<1>3. ReadTypes' BY <1>1, <1>2, Numbers, SMT DEF ReadTypes
<1>4. ReaderInv' BY <1>1 DEF ReaderInv, ReaderOpen
<1>5. Wanted' > 0
  <2>1. data_size' \in Nat BY Numbers, SMT
  <2>2. Wanted' = HeaderSize \/ Wanted' = HeaderSize + MaxData \/ Wanted' = HeaderSize + data_size'
    BY DEF Wanted
  <2> QED BY <2>1, <2>2, Numbers, SMT
<1>6. ReadInBounds' BY <1>1, <1>2, <1>5, Numbers, SMT DEF ReadInBounds
<1> QED BY <1>3, <1>4, <1>6 DEF ReaderOK

LEMMA AfterReadFailed ==
  ASSUME ReadTypes, ReadFailed PROVE ReaderOK'
<1>1. NextCall("failed") /\ data_header' = <<>> /\ data_size' = 0 /\ delivered' = delivered
  BY DEF ReadFailed
<1>2. <<>> \in Seq(AllBytes) BY EmptySeq
<1>3. 0 \in 0..MaxData /\ delivered' \in 0..NFrames BY <1>1, Numbers, SMT DEF ReadTypes
<1> QED BY <1>1, <1>2, <1>3, AfterNextCall

\* What has been received is the whole buffer.
LEMMA BufferAndMore ==
  ASSUME ReadTypes, ReadInBounds, NEW bytes \in Seq(AllBytes)
  PROVE  /\ SubSeq(buffer, 1, received) = buffer
         /\ buffer \o bytes \in Seq(AllBytes) /\ Len(buffer \o bytes) = received + Len(bytes)
         /\ received \in Nat /\ Len(bytes) \in Nat
<1>1. buffer \in Seq(AllBytes) /\ received = Len(buffer) BY DEF ReadTypes, ReadInBounds
<1>2. Len(buffer) \in Nat /\ Len(buffer) \in 0..Len(buffer) BY <1>1, LenProperties, SMT
<1>3. /\ SubSeq(buffer, 1, received) \in Seq(AllBytes) /\ Len(SubSeq(buffer, 1, received)) = received
      /\ \A i \in 1..received : SubSeq(buffer, 1, received)[i] = buffer[i]
  BY <1>1, <1>2, PrefixOf
<1>4. SubSeq(buffer, 1, received) = buffer BY <1>1, <1>3, SeqEqual
<1> QED BY <1>1, <1>2, <1>4, ConcatProperties, LenProperties

LEMMA WantedType ==
  ASSUME ReadTypes PROVE Wanted \in Nat /\ Wanted <= HeaderSize + MaxData
<1>1. data_size \in Nat /\ data_size <= MaxData BY Numbers, SMT DEF ReadTypes
<1>2. Wanted = HeaderSize \/ Wanted = HeaderSize + MaxData \/ Wanted = HeaderSize + data_size
  BY DEF Wanted
<1> QED BY <1>1, <1>2, Numbers, SMT

LEMMA AfterHeaderComplete ==
  ASSUME FixedTypes, ReaderOK, ReaderOpen, NEW bytes \in Seq(AllBytes), HeaderComplete(bytes)
  PROVE  ReaderOK'
<1> DEFINE says == IF \E f \in 1..NFrames : bytes = Header(f)
                   THEN { size[f] : f \in {g \in 1..NFrames : bytes = Header(g)} }
                   ELSE 0..(MaxData + 1)
<1>1. PICK n \in says :
        IF n > MaxData THEN ReadFailed
        ELSE /\ NextCall("frame") /\ data_header' = bytes /\ data_size' = n
             /\ UNCHANGED delivered
  BY DEF HeaderComplete
<1>2. n \in Nat
  <2>1. \A f \in 1..NFrames : size[f] \in Nat BY Numbers, SMT DEF FixedTypes
  <2>2. 0..(MaxData + 1) \subseteq Nat BY Numbers, SMT
  <2> QED BY <1>1, <2>1, <2>2
<1>3. CASE n > MaxData BY <1>1, <1>3, AfterReadFailed DEF ReaderOK
<1>4. CASE ~(n > MaxData)
  <2>1. NextCall("frame") /\ data_header' = bytes /\ data_size' = n /\ delivered' = delivered
    BY <1>1, <1>4
  <2>2. data_size' \in 0..MaxData BY <1>2, <1>4, <2>1, Numbers, SMT
  <2>3. delivered' \in 0..NFrames /\ delivered' < NFrames
    BY <2>1 DEF ReaderOK, ReaderInv, ReadTypes
  <2> QED BY <2>1, <2>2, <2>3, AfterNextCall
<1> QED BY <1>3, <1>4

LEMMA AfterFrameComplete ==
  ASSUME ReaderOK, ReaderOpen, NEW bytes, FrameComplete(bytes)
  PROVE  ReaderOK'
<1>1. CASE ~Verified(bytes) BY <1>1, AfterReadFailed DEF ReaderOK, FrameComplete
<1>2. CASE Verified(bytes)
  <2> DEFINE state == IF delivered' = NFrames THEN "done" ELSE "header"
  <2>1. delivered' = delivered + 1 /\ NextCall(state) /\ data_header' = <<>> /\ data_size' = 0
    BY <1>2 DEF FrameComplete
  <2>2. delivered' \in 0..NFrames /\ (state = "header" => delivered' < NFrames)
    BY <2>1, Numbers, SMT DEF ReaderOK, ReaderInv, ReadTypes
  <2>3. state \in {"done", "header"} OBVIOUS
  <2>4. <<>> \in Seq(AllBytes) /\ 0 \in 0..MaxData BY EmptySeq, Numbers, SMT
  <2> HIDE DEF state
  <2> QED BY <2>1, <2>2, <2>3, <2>4, AfterNextCall
<1> QED BY <1>1, <1>2

\* Whatever recv() returns, as long as it is not more than was asked for
LEMMA AfterGot ==
  ASSUME FixedTypes, ReaderOK, ReaderOpen, NEW bytes \in Seq(AllBytes), Got(bytes),
         UNCHANGED <<encrypted, size>>, UNCHANGED writeVars
  PROVE  ReaderOK'
<1>0. ReadTypes /\ ReaderInv /\ ReadInBounds BY DEF ReaderOK
<1> DEFINE all == SubSeq(buffer, 1, received) \o bytes
<1>1. all \in Seq(AllBytes) /\ Len(all) = received + Len(bytes) /\ received \in Nat /\ Len(bytes) \in Nat
  BY <1>0, BufferAndMore
<1>2. CASE Len(bytes) < Missing
  <2>1. /\ buffer' = all /\ received' = received + Len(bytes)
        /\ UNCHANGED <<rstate, retry_counter, data_header, data_size, delivered>>
    BY <1>2 DEF Got
  <2> HIDE DEF all
  <2>2. ReadTypes' BY <1>0, <1>1, <2>1 DEF ReadTypes
  <2>3. ReaderInv' BY <1>0, <2>1 DEF ReaderInv, ReaderOpen, SenderGone, writeVars
  <2>4. Wanted' = Wanted BY <2>1 DEF Wanted, Peeking
  <2>5. received + Len(bytes) < Wanted BY <1>0, <1>1, <1>2, WantedType, SMT DEF Missing
  <2>6. ReadInBounds' BY <1>1, <2>1, <2>4, <2>5 DEF ReadInBounds
  <2> QED BY <2>2, <2>3, <2>6 DEF ReaderOK
<1>3. CASE ~(Len(bytes) < Missing)
  <2>1. IF Peeking THEN HeaderComplete(all) ELSE FrameComplete(all) BY <1>3 DEF Got
  <2> HIDE DEF all
  <2> QED BY <1>1, <2>1, AfterHeaderComplete, AfterFrameComplete
<1> QED BY <1>2, <1>3

LEMMA ReaderTypes ==
  ASSUME TypeOK, ReaderInv, ReadInBounds, ReaderStep
  PROVE  ReaderOK' /\ NetTypes'
<1>0. FixedTypes /\ NetTypes /\ ReadTypes /\ ReaderOK BY TypeParts DEF ReaderOK
<1>a. UNCHANGED <<encrypted, size>> /\ UNCHANGED writeVars BY ReaderKeeps
<1>b. Missing \in Nat \ {0} \/ ~ReaderOpen
  <2>1. received \in Nat BY <1>0, LenProperties DEF ReadTypes, ReadInBounds
  <2> QED BY <1>0, <2>1, WantedType, SMT DEF ReadInBounds, Missing
<1>c. Len(net) \in Nat /\ net \in Seq(AllBytes) BY <1>0, LenProperties DEF NetTypes
<1>1. CASE Peek
  <2> DEFINE k == Least(Missing, Len(net))
  <2>1. ReaderOpen /\ Got(SubSeq(net, 1, k)) /\ UNCHANGED <<net, interrupts, disturbed>>
    BY <1>1 DEF Peek
  <2>2. k \in 0..Len(net)
    <3> HIDE DEF Missing
    <3> QED BY <1>b, <1>c, <2>1, SMT DEF Least
  <2> HIDE DEF k
  <2>3. SubSeq(net, 1, k) \in Seq(AllBytes) BY <1>c, <2>2, PrefixOf
  <2>4. ReaderOK' BY <1>0, <1>a, <2>1, <2>3, AfterGot
  <2> QED BY <1>0, <2>1, <2>4 DEF NetTypes
<1>2. CASE PeekShort
  <2>1. PICK k \in 1..Least(Missing - 1, Len(net)) : Got(SubSeq(net, 1, k))
    BY <1>2 DEF PeekShort
  <2>2. ReaderOpen /\ interrupts < MaxInterrupts /\ interrupts' = interrupts + 1
        /\ disturbed' = TRUE /\ net' = net
    BY <1>2 DEF PeekShort
  <2>3. k \in 0..Len(net)
    <3> HIDE DEF Missing
    <3> QED BY <1>b, <1>c, <2>1, <2>2, SMT DEF Least
  <2>4. SubSeq(net, 1, k) \in Seq(AllBytes) BY <1>c, <2>3, PrefixOf
  <2>5. ReaderOK' BY <1>0, <1>a, <2>1, <2>2, <2>4, AfterGot
  <2>6. interrupts' \in 0..MaxInterrupts BY <1>0, <2>2, Numbers, SMT DEF NetTypes
  <2> QED BY <1>0, <2>2, <2>5, <2>6 DEF NetTypes
<1>3. CASE Recv
  <2>1. PICK k \in 1..Least(Missing, Len(net)) :
          Got(SubSeq(net, 1, k)) /\ net' = SubSeq(net, k + 1, Len(net))
    BY <1>3 DEF Recv
  <2>2. ReaderOpen /\ UNCHANGED <<interrupts, disturbed>> BY <1>3 DEF Recv
  <2>3. k \in 0..Len(net)
    <3> HIDE DEF Missing
    <3> QED BY <1>b, <1>c, <2>1, <2>2, SMT DEF Least
  <2>4. SubSeq(net, 1, k) \in Seq(AllBytes) BY <1>c, <2>3, PrefixOf
  <2>5. ReaderOK' BY <1>0, <1>a, <2>1, <2>2, <2>4, AfterGot
  <2>6. net' \in Seq(AllBytes) /\ Len(net') = Len(net) - k BY <1>c, <2>1, <2>3, SuffixOf
  <2>7. Len(net') <= Cap
    <3> DEFINE m == Len(net')
    <3>1. m = Len(net) - k /\ Len(net) <= Cap BY <1>0, <2>6 DEF NetTypes
    <3> HIDE DEF m
    <3>2. m <= Cap BY <1>c, <2>3, <3>1, Numbers, SMT
    <3> QED BY <3>2 DEF m
  <2> QED BY <1>0, <2>2, <2>5, <2>6, <2>7 DEF NetTypes
<1>4. CASE RecvNothing
  <2>1. ReaderOpen /\ SenderGone /\ UNCHANGED <<net, interrupts, disturbed>>
    BY <1>4 DEF RecvNothing
  <2>2. NetTypes' BY <1>0, <2>1 DEF NetTypes
  <2>3. CASE ReadFailed BY <1>0, <2>2, <2>3, AfterReadFailed
  <2>4. CASE ~ReadFailed
    <3>1. /\ retry_counter # 1 /\ retry_counter' = retry_counter - 1
          /\ UNCHANGED <<rstate, buffer, received, data_header, data_size, delivered>>
      BY <1>4, <2>4 DEF RecvNothing, TimedOut
    <3>2. retry_counter' \in 1..ReadRetries BY <1>0, <3>1, Numbers, SMT DEF ReadTypes
    <3>3. ReadTypes' BY <1>0, <3>1, <3>2 DEF ReadTypes
    <3>4. SenderGone' BY <1>a, <2>1 DEF SenderGone, writeVars
    <3>5. ReaderInv' BY <3>1, <3>4 DEF ReaderInv, ReaderOpen
    <3>6. ReadInBounds' BY <1>a, <3>1 DEF ReadInBounds, ReaderOpen, Wanted, Peeking
    <3> QED BY <2>2, <3>3, <3>5, <3>6 DEF ReaderOK
  <2> QED BY <2>3, <2>4
<1>5. CASE RecvInterrupted
  <2>1. /\ ReaderOpen /\ ~SenderGone /\ interrupts < MaxInterrupts /\ interrupts' = interrupts + 1
        /\ disturbed' = TRUE /\ net' = net
    BY <1>5 DEF RecvInterrupted
  <2>2. interrupts' \in 0..MaxInterrupts BY <1>0, <2>1, Numbers, SMT DEF NetTypes
  <2>3. NetTypes' BY <1>0, <2>1, <2>2 DEF NetTypes
  <2>4. retry_counter + 1 > MaxReadRetry BY <2>1, Numbers, SMT DEF ReaderInv
  <2>5. ReadFailed BY <1>5, <2>4 DEF RecvInterrupted
  <2> QED BY <1>0, <2>3, <2>5, AfterReadFailed
<1> QED BY <1>1, <1>2, <1>3, <1>4, <1>5 DEF ReaderStep

-----------------------------------------------------------------------------
(* Types and bounds *)

LEMMA BoundsInit == Init => BoundsInv
<1> SUFFICES ASSUME Init PROVE BoundsInv OBVIOUS
<1>1. <<>> \in Seq(AllBytes) /\ Len(<<>>) = 0 BY EmptySeq
<1>2. FixedTypes BY DEF Init, FixedTypes
<1>3. WriteTypes BY Numbers, SMT DEF Init, WriteTypes
<1>4. NetTypes
  <2>1. net \in Seq(AllBytes) /\ Len(net) = 0 BY <1>1 DEF Init
  <2>2. interrupts \in 0..MaxInterrupts
    <3>1. interrupts = 0 BY DEF Init
    <3> QED BY <3>1, Numbers, SMT
  <2>4. disturbed \in BOOLEAN BY DEF Init
  <2>3. 0 <= Cap BY Numbers, SMT
  <2> QED BY <2>1, <2>2, <2>3, <2>4 DEF NetTypes
<1>5. ReadTypes BY <1>1, Numbers, SMT DEF Init, ReadTypes, StartCount
<1>6. TypeOK BY <1>2, <1>3, <1>4, <1>5, TypeParts
<1>7. WriterInv
  <2>1. 1 \in 1..NFrames /\ 0 + 1 = 1 BY Numbers, SMT
  <2>2. FrameSize(1) \in Nat /\ HeaderSize <= FrameSize(1) BY <1>6, <2>1, FrameSizes
  <2>3. Current = FrameSize(1) BY <2>1 DEF Current, Init
  <2>4. 0 < Current
    <3> HIDE DEF Current
    <3> DEFINE n == FrameSize(1)
    <3>1. n \in Nat /\ HeaderSize <= n /\ Current = n BY <2>2, <2>3
    <3> HIDE DEF n
    <3> QED BY <3>1, Numbers, SMT
  <2> QED BY <2>4, SMT DEF WriterInv, Init
<1>8. ReaderInv BY Numbers, SMT DEF ReaderInv, Init, StartCount
<1>9. ReadInBounds
  <2>1. received = Len(buffer) /\ received = 0 BY <1>1 DEF Init
  <2>2. Wanted > 0
    <3>1. Wanted = HeaderSize \/ Wanted = HeaderSize + MaxData \/ Wanted = HeaderSize + data_size
      BY DEF Wanted
    <3> QED BY <3>1, Numbers, SMT DEF Init
  <2> QED BY <2>1, <2>2, SMT DEF ReadInBounds
<1> QED BY <1>6, <1>7, <1>8, <1>9 DEF BoundsInv

LEMMA BoundsStep == BoundsInv /\ [Next]_vars => BoundsInv'
<1> SUFFICES ASSUME BoundsInv, [Next]_vars PROVE BoundsInv' OBVIOUS
<1>0. /\ TypeOK /\ WriterInv /\ ReaderInv /\ ReadInBounds
      /\ FixedTypes /\ WriteTypes /\ NetTypes /\ ReadTypes
  BY TypeParts DEF BoundsInv
<1>1. CASE WriterStep
  <2>1. FixedTypes' BY <1>0, <1>1, WriterKeeps DEF FixedTypes
  <2>2. WriteTypes' /\ NetTypes' /\ WriterInv' BY <1>0, <1>1, WriterTypes
  <2>3. ReadTypes' /\ ReaderInv' /\ ReadInBounds' BY <1>0, <1>1, WriterKeepsReader
  <2> QED BY <2>1, <2>2, <2>3, TypePartsPrimed DEF BoundsInv
<1>2. CASE ReaderStep
  <2>a. UNCHANGED <<encrypted, size>> /\ UNCHANGED writeVars BY <1>2, ReaderKeeps
  <2>1. FixedTypes' /\ WriteTypes' BY <1>0, <2>a DEF FixedTypes, WriteTypes, writeVars
  <2>2. Current' = Current BY <2>a, SameCurrent DEF writeVars
  <2>3. WriterInv' BY <1>0, <2>a, <2>2 DEF WriterInv, writeVars
  <2>4. ReaderOK' /\ NetTypes' BY <1>0, <1>2, ReaderTypes
  <2> QED BY <2>1, <2>3, <2>4, TypePartsPrimed DEF BoundsInv, ReaderOK
<1>3. CASE UNCHANGED vars
  <2>1. Current' = Current BY <1>3, SameCurrent DEF vars, writeVars
  <2>2. TypeOK' BY <1>0, <1>3 DEF TypeOK, vars, writeVars, readVars
  <2>3. WriterInv' BY <1>0, <1>3, <2>1 DEF WriterInv, vars, writeVars
  <2>4. ReaderInv' /\ ReadInBounds'
    BY <1>0, <1>3
    DEF ReaderInv, ReadInBounds, ReaderOpen, SenderGone, Wanted, Peeking, vars, writeVars, readVars
  <2> QED BY <2>2, <2>3, <2>4 DEF BoundsInv
<1> QED BY <1>1, <1>2, <1>3, Sides

LEMMA BoundsKept == Spec => []BoundsInv
BY BoundsInit, BoundsStep, PTL DEF Spec

\* The types of the variables of both loops: neither goes beyond its retry limits,
\* whatever these are.
THEOREM SocketTypeCorrect == Spec => []TypeOK
<1>1. BoundsInv => TypeOK BY DEF BoundsInv
<1> QED BY <1>1, BoundsKept, PTL

\* read_from_socket never writes outside of the buffer its caller has, for buffers
\* and headers of any size.
THEOREM BufferKept == Spec => []ReadInBounds
<1>1. BoundsInv => ReadInBounds BY DEF BoundsInv
<1> QED BY <1>1, BoundsKept, PTL

-----------------------------------------------------------------------------
(* Bytes in order *)

\* off[f] bytes precede frame f in the stream.  The sequence q holds the bytes from
\* frame d + 1 up to byte b of frame n + 1, each in its place.
InOrder(q, off, n, len, b, d) ==
  /\ off \in [1..(n + 1) -> Nat]
  /\ \A f \in 1..n : off[f + 1] = off[f] + len[f]
  /\ \A f, g \in 1..(n + 1) : f <= g => off[f] <= off[g]
  /\ Len(q) = off[n + 1] + b - off[d + 1]
  /\ \A i \in 1..Len(q), f \in 1..(n + 1) : \A p \in 1..(IF f = n + 1 THEN b ELSE len[f]) :
       off[d + 1] + i = off[f] + p => q[i] = <<f, p>>

\* What is first in such a sequence, and how much of it there is
Front(q, n, len, b, d) ==
  /\ d < n => len[d + 1] <= Len(q)
  /\ d = n => Len(q) = b
  /\ \A i \in 1..Len(q) : i <= len[d + 1] => q[i] = <<d + 1, i>>

LEMMA FrontInOrder ==
  ASSUME NEW q \in Seq(AllBytes), NEW off, NEW n \in Nat, NEW len, NEW b \in Nat, NEW d \in 0..n,
         \A f \in 1..(n + 1) : len[f] \in Nat, b <= len[n + 1], InOrder(q, off, n, len, b, d)
  PROVE  Front(q, n, len, b, d)
<1>1. d + 1 \in 1..(n + 1) /\ n + 1 \in 1..(n + 1) BY SMT
<1>2. off[d + 1] \in Nat /\ off[n + 1] \in Nat /\ Len(q) \in Nat
  BY <1>1, LenProperties DEF InOrder
<1>3. Len(q) = off[n + 1] + b - off[d + 1] BY DEF InOrder
<1>4. d = n => Len(q) = b BY <1>2, <1>3, SMT
<1>5. ASSUME d < n PROVE len[d + 1] <= Len(q)
  <2>1. d + 1 \in 1..n /\ d + 2 \in 1..(n + 1) /\ d + 2 <= n + 1 /\ d + 1 + 1 = d + 2
    BY <1>5, SMT
  <2>2. off[d + 2] = off[d + 1] + len[d + 1] BY <2>1 DEF InOrder
  <2>3. off[d + 2] <= off[n + 1] /\ off[d + 2] \in Nat BY <1>1, <2>1 DEF InOrder
  <2>4. len[d + 1] \in Nat BY <1>1
  <2> QED BY <1>2, <1>3, <2>2, <2>3, <2>4, SMT
<1>6. ASSUME NEW i \in 1..Len(q), i <= len[d + 1] PROVE q[i] = <<d + 1, i>>
  <2>1. i \in 1..(IF d + 1 = n + 1 THEN b ELSE len[d + 1])
    <3>1. CASE d = n BY <1>2, <1>4, <3>1, SMT
    <3>2. CASE d # n
      <4>1. d + 1 # n + 1 BY <3>2, SMT
      <4>2. i \in 1..len[d + 1] BY <1>1, <1>2, <1>6, SMT
      <4> QED BY <4>1, <4>2
    <3> QED BY <3>1, <3>2
  <2> QED BY <1>1, <2>1 DEF InOrder
<1> QED BY <1>4, <1>5, <1>6 DEF Front

\* More bytes of frame n + 1
LEMMA MoreInOrder ==
  ASSUME NEW S, NEW q \in Seq(S), NEW off, NEW n \in Nat, NEW len, NEW b \in Nat, NEW d \in 0..n,
         \A f \in 1..n : len[f] \in Nat, InOrder(q, off, n, len, b, d),
         NEW piece \in Seq(S), \A i \in 1..Len(piece) : piece[i] = <<n + 1, b + i>>
  PROVE  InOrder(q \o piece, off, n, len, b + Len(piece), d)
<1> DEFINE k == Len(piece)
           l == Len(q)
           more == q \o piece
           first == off[d + 1]
           last == off[n + 1]
<1>1. d + 1 \in 1..(n + 1) /\ n + 1 \in 1..(n + 1) BY SMT
<1>2. first \in Nat /\ last \in Nat /\ l \in Nat /\ k \in Nat
  BY <1>1, LenProperties DEF InOrder
<1>3. /\ Len(more) = l + k
      /\ \A i \in 1..(l + k) : more[i] = IF i <= l THEN q[i] ELSE piece[i - l]
  BY ConcatProperties
<1>4. l = last + b - first BY DEF InOrder
<1>c. \A i \in 1..k : piece[i] = <<n + 1, b + i>> OBVIOUS
<1>d. \A i \in 1..l, f \in 1..(n + 1) : \A p \in 1..(IF f = n + 1 THEN b ELSE len[f]) :
        first + i = off[f] + p => q[i] = <<f, p>>
  BY DEF InOrder
<1> HIDE DEF more, k, l, first, last
<1>5. Len(more) = last + (b + k) - first BY <1>2, <1>3, <1>4, SMT
<1>6. ASSUME NEW i \in 1..Len(more), NEW f \in 1..(n + 1),
             NEW p \in 1..(IF f = n + 1 THEN b + k ELSE len[f]),
             first + i = off[f] + p
      PROVE  more[i] = <<f, p>>
  <2>0. off[f] \in Nat /\ i \in 1..(l + k) BY <1>3 DEF InOrder
  <2>i. i \in Nat /\ 1 <= i /\ i <= l + k BY <1>2, <2>0, SMT
  <2>1. CASE i <= l
    <3>1. p \in 1..(IF f = n + 1 THEN b ELSE len[f])
      <4>1. CASE f = n + 1
        <5>1. p \in 1..(b + k) /\ off[f] = last BY <4>1 DEF last
        <5>2. p \in 1..b BY <1>2, <1>4, <1>6, <2>i, <2>1, <5>1, SMT
        <5> QED BY <4>1, <5>2
      <4>2. CASE f # n + 1 BY <4>2
      <4> QED BY <4>1, <4>2
    <3>2. i \in 1..l BY <2>i, <2>1, <1>2, SMT
    <3>3. q[i] = <<f, p>> BY <1>6, <1>d, <3>1, <3>2
    <3> QED BY <1>3, <2>0, <2>1, <3>3
  <2>2. CASE ~(i <= l)
    <3>1. f = n + 1
      <4> SUFFICES ASSUME f # n + 1 PROVE FALSE OBVIOUS
      <4> DEFINE here == off[f]
                 next == off[f + 1]
                 size_f == len[f]
      <4>1. f \in 1..n /\ f + 1 \in 1..(n + 1) /\ f + 1 <= n + 1 BY SMT
      <4>2. next = here + size_f /\ next <= last /\ next \in Nat /\ here \in Nat
        BY <1>1, <2>0, <4>1 DEF InOrder, last
      <4>3. p \in 1..size_f /\ size_f \in Nat BY <4>1
      <4>4. first + i = here + p BY <1>6
      <4> HIDE DEF here, next, size_f
      <4> QED BY <1>2, <1>4, <2>i, <2>2, <4>2, <4>3, <4>4, SMT
    <3>2. p \in 1..(b + k) /\ first + i = last + p BY <1>6, <3>1 DEF last
    <3>3. p \in Nat /\ i - l \in 1..k /\ p = b + (i - l)
      BY <1>2, <1>4, <2>i, <2>2, <3>2, SMT
    <3>4. piece[i - l] = <<n + 1, b + (i - l)>> BY <1>c, <3>3
    <3>5. more[i] = piece[i - l] BY <1>3, <2>0, <2>2
    <3> QED BY <3>1, <3>3, <3>4, <3>5
  <2> QED BY <2>1, <2>2
<1>7. InOrder(more, off, n, len, b + k, d)
  <2>1. /\ off \in [1..(n + 1) -> Nat]
        /\ \A f \in 1..n : off[f + 1] = off[f] + len[f]
        /\ \A f, g \in 1..(n + 1) : f <= g => off[f] <= off[g]
    BY DEF InOrder
  <2>2. Len(more) = off[n + 1] + (b + k) - off[d + 1] BY <1>5 DEF first, last
  <2>3. \A i \in 1..Len(more), f \in 1..(n + 1) :
          \A p \in 1..(IF f = n + 1 THEN b + k ELSE len[f]) :
            off[d + 1] + i = off[f] + p => more[i] = <<f, p>>
    BY <1>6 DEF first
  <2> QED BY <2>1, <2>2, <2>3 DEF InOrder
<1> QED BY <1>7 DEF more, k

\* Frame n + 1 is complete.
LEMMA FrameInOrder ==
  ASSUME NEW S, NEW q \in Seq(S), NEW off, NEW n \in Nat, NEW len, NEW b \in Nat, NEW d \in 0..n,
         len[n + 1] = b, InOrder(q, off, n, len, b, d)
  PROVE  \E longer : InOrder(q, longer, n + 1, len, 0, d)
<1> DEFINE m == n + 1
           longer == [f \in 1..(m + 1) |-> IF f = m + 1 THEN off[m] + b ELSE off[f]]
<1>1. m \in 1..m /\ d + 1 \in 1..m /\ m + 1 \in 1..(m + 1) /\ m \in Nat /\ d + 1 # m + 1
      /\ d + 1 \in 1..(m + 1)
  BY SMT
<1>2. /\ off \in [1..m -> Nat] /\ off[m] \in Nat
      /\ \A f \in 1..n : off[f + 1] = off[f] + len[f]
      /\ \A f, g \in 1..m : f <= g => off[f] <= off[g]
      /\ Len(q) = off[m] + b - off[d + 1]
      /\ \A i \in 1..Len(q), f \in 1..m : \A p \in 1..(IF f = m THEN b ELSE len[f]) :
           off[d + 1] + i = off[f] + p => q[i] = <<f, p>>
  BY <1>1 DEF InOrder
<1>3. \A f \in 1..m : f \in 1..(m + 1) /\ f # m + 1 BY <1>1, SMT
<1>4. /\ \A f \in 1..m : longer[f] = off[f]
      /\ longer[m + 1] = off[m] + b
  BY <1>1, <1>3
<1>5. longer \in [1..(m + 1) -> Nat]
  <2>1. \A f \in 1..(m + 1) : f # m + 1 => f \in 1..m BY <1>1, SMT
  <2>2. off[m] + b \in Nat BY <1>2, SMT
  <2> QED BY <1>2, <2>1, <2>2
<1> HIDE DEF longer
<1>6. \A f \in 1..m : longer[f + 1] = longer[f] + len[f]
  <2> TAKE f \in 1..m
  <2>1. CASE f = m BY <1>1, <1>4, <2>1 DEF m
  <2>2. CASE f # m
    <3>1. f \in 1..n /\ f + 1 \in 1..m BY <2>2, SMT DEF m
    <3> QED BY <1>2, <1>4, <3>1
  <2> QED BY <2>1, <2>2
<1>7. \A f, g \in 1..(m + 1) : f <= g => longer[f] <= longer[g]
  <2> TAKE f, g \in 1..(m + 1)
  <2> HAVE f <= g
  <2>1. CASE g # m + 1
    <3>1. f \in 1..m /\ g \in 1..m BY <1>1, <2>1, SMT
    <3> QED BY <1>2, <1>4, <3>1
  <2>2. CASE g = m + 1 /\ f # m + 1
    <3>1. f \in 1..m /\ f <= m BY <1>1, <2>2, SMT
    <3>2. off[f] <= off[m] /\ off[f] \in Nat BY <1>1, <1>2, <3>1
    <3>3. longer[f] = off[f] /\ longer[g] = off[m] + b BY <1>4, <2>2, <3>1
    <3> QED BY <1>2, <3>2, <3>3, SMT
  <2>3. CASE g = m + 1 /\ f = m + 1
    <3>1. longer[f] \in Nat BY <1>5
    <3> QED BY <2>3, <3>1, SMT
  <2> QED BY <2>1, <2>2, <2>3
<1>8. Len(q) = longer[m + 1] + 0 - longer[d + 1]
  <2>1. off[d + 1] \in Nat BY <1>1, <1>2
  <2> QED BY <1>1, <1>2, <1>4, <2>1, SMT
<1>9. ASSUME NEW i \in 1..Len(q), NEW f \in 1..(m + 1),
             NEW p \in 1..(IF f = m + 1 THEN 0 ELSE len[f]),
             longer[d + 1] + i = longer[f] + p
      PROVE  q[i] = <<f, p>>
  <2>1. f # m + 1 BY SMT
  <2>2. f \in 1..m BY <1>1, <2>1, SMT
  <2>3. off[d + 1] + i = off[f] + p BY <1>1, <1>4, <1>9, <2>2
  <2>4. p \in 1..(IF f = m THEN b ELSE len[f]) BY <2>1 DEF m
  <2> QED BY <1>2, <2>2, <2>3, <2>4
<1>10. InOrder(q, longer, m, len, 0, d) BY <1>5, <1>6, <1>7, <1>8, <1>9 DEF InOrder
<1> QED BY <1>10 DEF m

\* Frame d + 1 is taken away.
LEMMA RestInOrder ==
  ASSUME NEW S, NEW q \in Seq(S), NEW off, NEW n \in Nat, NEW len, NEW b \in Nat, NEW d \in 0..n,
         d < n, len[d + 1] \in Nat, InOrder(q, off, n, len, b, d),
         NEW rest \in Seq(S), Len(q) = len[d + 1] + Len(rest),
         \A j \in 1..Len(rest) : rest[j] = q[len[d + 1] + j]
  PROVE  InOrder(rest, off, n, len, b, d + 1)
<1> DEFINE l == len[d + 1]
           e == d + 1
           here == off[e]
           next == off[e + 1]
           last == off[n + 1]
           all == Len(q)
           left == Len(rest)
<1>1. /\ e \in 1..n /\ e \in 1..(n + 1) /\ e + 1 \in 1..(n + 1) /\ n + 1 \in 1..(n + 1)
      /\ left \in Nat /\ all \in Nat /\ l \in Nat
  BY LenProperties, SMT
<1>2. here \in Nat /\ next \in Nat /\ last \in Nat /\ next = here + l
  BY <1>1 DEF InOrder
<1>3. all = last + b - here /\ all = l + left BY DEF InOrder
<1>c. \A j \in 1..left : rest[j] = q[l + j] OBVIOUS
<1>d. \A i \in 1..all, f \in 1..(n + 1) : \A p \in 1..(IF f = n + 1 THEN b ELSE len[f]) :
        here + i = off[f] + p => q[i] = <<f, p>>
  BY DEF InOrder
<1>e. /\ off \in [1..(n + 1) -> Nat]
      /\ \A f \in 1..n : off[f + 1] = off[f] + len[f]
      /\ \A f, g \in 1..(n + 1) : f <= g => off[f] <= off[g]
  BY DEF InOrder
<1>4. left = last + b - next
  <2> HIDE DEF e, l, here, next, last, all, left
  <2> QED BY <1>1, <1>2, <1>3, SMT
<1>5. ASSUME NEW j \in 1..left, NEW f \in 1..(n + 1),
             NEW p \in 1..(IF f = n + 1 THEN b ELSE len[f]),
             next + j = off[f] + p
      PROVE  rest[j] = <<f, p>>
  <2> HIDE DEF e, l, here, next, last, all, left
  <2>1. l + j \in 1..all /\ here + (l + j) = off[f] + p
    <3>1. here + (l + j) = next + j BY <1>1, <1>2, SMT
    <3>2. l + j \in 1..all BY <1>1, <1>3, SMT
    <3> QED BY <1>5, <3>1, <3>2
  <2>2. q[l + j] = <<f, p>> BY <1>d, <2>1
  <2> QED BY <1>c, <2>2
<1>6. InOrder(rest, off, n, len, b, e) BY <1>e, <1>4, <1>5 DEF InOrder
<1> QED BY <1>6

-----------------------------------------------------------------------------
(* What is on its way *)

\* The bytes between the reader and the writer.  What was only looked at is still
\* on its way.
OnTheWay == (IF Peeking THEN <<>> ELSE buffer) \o net

Sizes == [f \in 1..(NFrames + 1) |-> IF f <= NFrames THEN FrameSize(f) ELSE 0]

\* The connection was reset: all a reader can do is to fail.
Dying == SenderGone /\ disturbed /\ net = <<>>

\* Of the frames sent completely none is left, and the reader may fail.
NothingLeft == SenderGone /\ delivered = sent

OrderInv ==
  ReaderOpen /\ ~Dying =>
    \E off : InOrder(OnTheWay, off, sent, Sizes, bytes_sent, delivered)

\* As long as nothing disturbs it, the reader looks at a whole header, and the one
\* it has looked at is that of the frame it reads.
HeaderInv ==
  ReaderOpen /\ ~disturbed /\ ~NothingLeft =>
    /\ Peeking => buffer = <<>>
    /\ rstate = "frame" =>
         data_header = Header(delivered + 1) /\ data_size = size[delivered + 1]

LinkInv == delivered <= sent /\ OrderInv /\ HeaderInv

LEMMA SizesType ==
  ASSUME TypeOK
  PROVE  /\ \A f \in 1..(NFrames + 1) : Sizes[f] \in Nat
         /\ \A f \in 1..NFrames : Sizes[f] = FrameSize(f)
         /\ Sizes[NFrames + 1] = 0
<1>1. \A f \in 1..NFrames : FrameSize(f) \in Nat BY FrameSizes
<1>2. \A f \in 1..(NFrames + 1) : f <= NFrames => f \in 1..NFrames BY Numbers, SMT
<1>3. \A f \in 1..NFrames : f \in 1..(NFrames + 1) /\ f <= NFrames BY Numbers, SMT
<1>4. NFrames + 1 \in 1..(NFrames + 1) /\ ~(NFrames + 1 <= NFrames) /\ 0 \in Nat BY Numbers, SMT
<1> HIDE DEF FrameSize
<1> QED BY <1>1, <1>2, <1>3, <1>4 DEF Sizes

LEMMA SameSizes ==
  ASSUME UNCHANGED <<encrypted, size>> PROVE Sizes' = Sizes
BY DEF Sizes, FrameSize

\* The shape of the counters, for the lemmas on bytes in order
LEMMA Counters ==
  ASSUME BoundsInv, LinkInv
  PROVE  /\ sent \in Nat /\ sent <= NFrames /\ delivered \in 0..sent /\ bytes_sent \in Nat
         /\ sent + 1 \in 1..(NFrames + 1)
         /\ \A f \in 1..(sent + 1) : Sizes[f] \in Nat
         /\ bytes_sent <= Sizes[sent + 1]
         /\ sent < NFrames => Sizes[sent + 1] = FrameSize(sent + 1)
         /\ OnTheWay \in Seq(AllBytes) /\ buffer \in Seq(AllBytes) /\ net \in Seq(AllBytes)
<1>0. TypeOK /\ WriterInv /\ delivered <= sent BY DEF BoundsInv, LinkInv
<1>1. /\ sent \in Nat /\ sent <= NFrames /\ delivered \in 0..sent /\ bytes_sent \in Nat
      /\ sent + 1 \in 1..(NFrames + 1)
  BY <1>0, Numbers, SMT DEF TypeOK
<1>2. \A f \in 1..(sent + 1) : f \in 1..(NFrames + 1) BY <1>1, Numbers, SMT
<1>3. \A f \in 1..(sent + 1) : Sizes[f] \in Nat BY <1>0, <1>2, SizesType
<1>4. sent < NFrames => Sizes[sent + 1] = FrameSize(sent + 1)
  <2>1. sent < NFrames => sent + 1 \in 1..NFrames BY <1>1, Numbers, SMT
  <2> QED BY <1>0, <2>1, SizesType
<1>5. bytes_sent <= Sizes[sent + 1]
  <2>1. CASE sent < NFrames
    <3>1. Current = Sizes[sent + 1] /\ bytes_sent < Current
      BY <1>0, <1>4, <2>1 DEF WriterInv, Current
    <3>2. Sizes[sent + 1] \in Nat BY <1>1, <1>3, SMT
    <3> QED BY <1>1, <3>1, <3>2, SMT
  <2>2. CASE ~(sent < NFrames)
    <3>1. sent = NFrames BY <1>1, <2>2, Numbers, SMT
    <3>2. bytes_sent = 0 /\ Sizes[sent + 1] = 0 BY <1>0, <3>1, SizesType DEF WriterInv
    <3> QED BY <3>2, SMT
  <2> QED BY <2>1, <2>2
<1>6. buffer \in Seq(AllBytes) /\ net \in Seq(AllBytes) BY <1>0 DEF TypeOK
<1>7. OnTheWay \in Seq(AllBytes) BY <1>6, ConcatProperties, EmptySeq DEF OnTheWay
<1> QED BY <1>1, <1>3, <1>4, <1>5, <1>6, <1>7

LEMMA LinkInit == Init => LinkInv
<1> SUFFICES ASSUME Init PROVE LinkInv OBVIOUS
<1>1. delivered <= sent BY SMT DEF Init
<1>2. HeaderInv BY DEF Init, HeaderInv
<1>3. OrderInv
  <2> DEFINE off == [f \in 1..(0 + 1) |-> 0]
  <2>1. OnTheWay = <<>>
    <3>1. buffer = <<>> /\ net = <<>> BY DEF Init
    <3>2. <<>> \o <<>> = <<>> BY EmptySeq, ConcatEmptySeq
    <3> QED BY <3>1, <3>2 DEF OnTheWay
  <2>2. InOrder(<<>>, off, 0, Sizes, 0, 0)
    <3>1. Len(<<>>) = 0 BY EmptySeq
    <3>2. 0 + 1 \in 1..(0 + 1) /\ 1..0 = {} /\ 0 <= 0 /\ 0 \in Nat /\ 0 = 0 + 0 - 0 BY SMT
    <3>3. off \in [1..(0 + 1) -> Nat] /\ \A f \in 1..(0 + 1) : off[f] = 0 BY <3>2
    <3> HIDE DEF off
    <3> QED BY <3>1, <3>2, <3>3 DEF InOrder
  <2>3. sent = 0 /\ bytes_sent = 0 /\ delivered = 0 BY DEF Init
  <2> HIDE DEF off
  <2> QED BY <2>1, <2>2, <2>3 DEF OrderInv
<1> QED BY <1>1, <1>2, <1>3 DEF LinkInv

LEMMA WriterOrder ==
  ASSUME BoundsInv, LinkInv, WriterStep
  PROVE  OrderInv'
<1> SUFFICES ASSUME ReaderOpen', ~Dying'
             PROVE  \E off : InOrder(OnTheWay', off, sent', Sizes', bytes_sent', delivered')
  BY DEF OrderInv
<1>0. TypeOK /\ WriterInv /\ OrderInv BY DEF BoundsInv, LinkInv
<1>a. UNCHANGED <<encrypted, size>> /\ UNCHANGED readVars BY WriterKeeps
<1>b. Sizes' = Sizes /\ delivered' = delivered BY <1>a, SameSizes DEF readVars
<1>c. ReaderOpen /\ ~SenderGone
  BY <1>a
  DEF ReaderOpen, readVars, SenderGone, WriterStep, StartWrite, WriteInterrupted, WriteBroken,
      Finish, Crash, HangUp, Write
<1>d. PICK off : InOrder(OnTheWay, off, sent, Sizes, bytes_sent, delivered)
  BY <1>0, <1>c DEF OrderInv, Dying
<1>e. net' = net => OnTheWay' = OnTheWay BY <1>a DEF OnTheWay, Peeking, readVars
<1>1. ASSUME net' = net, sent' = sent, bytes_sent' = bytes_sent
      PROVE  \E o : InOrder(OnTheWay', o, sent', Sizes', bytes_sent', delivered')
  BY <1>1, <1>b, <1>d, <1>e
<1>2. CASE StartWrite
  <2>1. net' = net /\ sent' = sent /\ bytes_sent' = bytes_sent
    BY <1>0, <1>2 DEF StartWrite, WriterInv
  <2> QED BY <1>1, <2>1
<1>3. CASE WriteInterrupted \/ WriteBroken
  <2>1. net' = net /\ sent' = sent /\ bytes_sent' = bytes_sent
    BY <1>3 DEF WriteInterrupted, WriteBroken
  <2> QED BY <1>1, <2>1
<1>4. CASE Finish \/ Crash
  <2>1. /\ wstate' = "closed" /\ sent' = sent /\ bytes_sent' = bytes_sent
        /\ net' = net \/ (net' = <<>> /\ disturbed' = TRUE)
    BY <1>4 DEF Finish, Crash, HangUp
  <2>2. net' = net BY <2>1 DEF Dying, SenderGone
  <2> QED BY <1>1, <2>1, <2>2
<1>5. ASSUME wstate = "writing", NEW k \in 1..Least(at_once, Remaining), Write(k)
      PROVE  \E o : InOrder(OnTheWay', o, sent', Sizes', bytes_sent', delivered')
  <2>1. sent < NFrames BY <1>0, <1>5 DEF WriterInv
  <2>2. k \in Nat \ {0} /\ k <= Remaining
    <3>1. at_once \in Int /\ Remaining \in Int BY <1>0, <2>1, InCall, SMT DEF TypeOK
    <3>2. Least(at_once, Remaining) <= Remaining /\ Least(at_once, Remaining) \in Int
      BY <3>1, LeastProperties
    <3> HIDE DEF Remaining
    <3> QED BY <1>5, <3>1, <3>2, SMT
  <2>3. /\ Piece(k) \in Seq(AllBytes) /\ Len(Piece(k)) = k
        /\ \A i \in 1..k : Piece(k)[i] = <<sent + 1, bytes_sent + i>>
        /\ (k = Remaining <=> bytes_sent + k = FrameSize(sent + 1))
    BY <1>0, <2>1, <2>2, PieceType
  <2>4. net' = net \o Piece(k) BY <1>c, <1>5 DEF Write
  <2>5. OnTheWay' = OnTheWay \o Piece(k)
    <3> DEFINE seen == IF Peeking THEN <<>> ELSE buffer
    <3>1. OnTheWay' = seen \o (net \o Piece(k)) BY <1>a, <2>4 DEF OnTheWay, Peeking, readVars
    <3>2. seen \in Seq(AllBytes) BY Counters, EmptySeq
    <3>3. OnTheWay = seen \o net BY DEF OnTheWay
    <3>4. net \in Seq(AllBytes) BY Counters
    <3>5. (seen \o net) \o Piece(k) = seen \o (net \o Piece(k))
      <4> DEFINE piece == Piece(k)
      <4>1. piece \in Seq(AllBytes) BY <2>3
      <4> HIDE DEF seen, piece
      <4>2. (seen \o net) \o piece = seen \o (net \o piece)
        BY <3>2, <3>4, <4>1, ConcatAssociative
      <4> QED BY <4>2 DEF piece
    <3> HIDE DEF seen
    <3> QED BY <3>1, <3>3, <3>5
  <2> DEFINE more == OnTheWay \o Piece(k)
  <2>6. InOrder(more, off, sent, Sizes, bytes_sent + k, delivered)
    <3>1. \A f \in 1..sent : f \in 1..(sent + 1) BY Counters, SMT
    <3>2. \A f \in 1..sent : Sizes[f] \in Nat BY <3>1, Counters
    <3>3. InOrder(more, off, sent, Sizes, bytes_sent + Len(Piece(k)), delivered)
      BY <1>d, <2>3, <3>2, Counters, MoreInOrder
    <3> QED BY <2>3, <3>3
  <2>7. more \in Seq(AllBytes) BY <2>3, Counters, ConcatProperties
  <2> HIDE DEF more
  <2>8. CASE k = Remaining
    <3>1. sent' = sent + 1 /\ bytes_sent' = 0 BY <1>5, <2>8 DEF Write
    <3>2. Sizes[sent + 1] = bytes_sent + k BY <2>1, <2>3, <2>8, Counters
    <3>3. bytes_sent + k \in Nat BY <2>2, Counters, SMT
    <3>4. \E o : InOrder(more, o, sent + 1, Sizes, 0, delivered)
      BY <2>6, <2>7, <3>2, <3>3, Counters, FrameInOrder
    <3> QED BY <1>b, <2>5, <3>1, <3>4 DEF more
  <2>9. CASE k # Remaining
    <3>1. sent' = sent /\ bytes_sent' = bytes_sent + k BY <1>5, <2>9 DEF Write
    <3> QED BY <1>b, <2>5, <2>6, <3>1 DEF more
  <2> QED BY <2>8, <2>9
<1> QED BY <1>2, <1>3, <1>4, <1>5 DEF WriterStep

LEMMA WriterLink ==
  ASSUME BoundsInv, LinkInv, WriterStep
  PROVE  LinkInv'
<1>a. UNCHANGED <<encrypted, size>> /\ UNCHANGED readVars BY WriterKeeps
<1>b. ~SenderGone
  BY DEF SenderGone, WriterStep, StartWrite, WriteInterrupted, WriteBroken, Finish, Crash, HangUp,
         Write
<1>1. sent' \in {sent, sent + 1}
  BY DEF WriterStep, StartWrite, WriteInterrupted, WriteBroken, Finish, Crash, HangUp, Write
<1>2. delivered' <= sent'
  <2>1. delivered' = delivered BY <1>a DEF readVars
  <2> QED BY <1>1, <2>1, Counters, SMT
<1>3. disturbed' = disturbed \/ disturbed' = TRUE
  BY DEF WriterStep, StartWrite, WriteInterrupted, WriteBroken, Finish, Crash, HangUp, Write
<1>4. HeaderInv'
  <2>1. Header(delivered + 1)' = Header(delivered + 1) BY <1>a DEF Header, Bytes, readVars
  <2> QED BY <1>a, <1>b, <1>3, <2>1 DEF LinkInv, HeaderInv, NothingLeft, ReaderOpen, Peeking, readVars
<1> QED BY <1>2, <1>4, WriterOrder DEF LinkInv

-----------------------------------------------------------------------------
(* What the reader finds *)

\* The first bytes on their way are those of the next frame; if there are too few
\* for it, it was not sent completely.
LEMMA NextFrame ==
  ASSUME BoundsInv, LinkInv, ReaderOpen, ~Dying
  PROVE  /\ delivered \in Nat /\ delivered < NFrames /\ delivered + 1 \in 1..NFrames
         /\ FrameSize(delivered + 1) \in Nat /\ HeaderSize <= FrameSize(delivered + 1)
         /\ FrameSize(delivered + 1) <= HeaderSize + MaxData
         /\ Len(OnTheWay) \in Nat
         /\ FrameSize(delivered + 1) <= Len(OnTheWay) => delivered < sent
         /\ Len(OnTheWay) < FrameSize(delivered + 1) => delivered = sent
         /\ \A i \in 1..Len(OnTheWay) :
              i <= FrameSize(delivered + 1) => OnTheWay[i] = <<delivered + 1, i>>
<1>0. TypeOK /\ WriterInv /\ ReaderInv /\ OrderInv BY DEF BoundsInv, LinkInv
<1>1. delivered \in Nat /\ delivered < NFrames /\ delivered + 1 \in 1..NFrames
  BY <1>0, Numbers, SMT DEF ReaderInv, TypeOK
<1>2. /\ FrameSize(delivered + 1) \in Nat /\ HeaderSize <= FrameSize(delivered + 1)
      /\ FrameSize(delivered + 1) <= HeaderSize + MaxData
  BY <1>0, <1>1, FrameSizes
<1>3. Sizes[delivered + 1] = FrameSize(delivered + 1) BY <1>0, <1>1, SizesType
<1>4. PICK off : InOrder(OnTheWay, off, sent, Sizes, bytes_sent, delivered)
  BY <1>0 DEF OrderInv
<1>5. /\ delivered < sent => Sizes[delivered + 1] <= Len(OnTheWay)
      /\ delivered = sent => Len(OnTheWay) = bytes_sent
      /\ \A i \in 1..Len(OnTheWay) : i <= Sizes[delivered + 1] => OnTheWay[i] = <<delivered + 1, i>>
  <2> DEFINE q == OnTheWay
             len == Sizes
             n == sent
             b == bytes_sent
             d == delivered
  <2>1. /\ q \in Seq(AllBytes) /\ n \in Nat /\ b \in Nat /\ d \in 0..n
        /\ \A f \in 1..(n + 1) : len[f] \in Nat
        /\ b <= len[n + 1]
    BY Counters
  <2>2. InOrder(q, off, n, len, b, d) BY <1>4
  <2> HIDE DEF q, len, n, b, d
  <2>3. Front(q, n, len, b, d) BY <2>1, <2>2, FrontInOrder
  <2> QED BY <2>3 DEF Front, q, len, n, b, d
<1>6. Len(OnTheWay) \in Nat BY Counters, LenProperties
<1> DEFINE l == Len(OnTheWay)
           s == FrameSize(delivered + 1)
<1>7. delivered = sent => l < s
  <2>1. delivered = sent => bytes_sent < s BY <1>0, <1>1 DEF WriterInv, Current
  <2> QED BY <1>5, <2>1
<1>8. delivered < sent => s <= l BY <1>3, <1>5
<1>9. l \in Nat /\ s \in Nat /\ delivered \in 0..sent /\ sent \in Nat BY <1>2, <1>6, Counters
<1>10. (s <= l => delivered < sent) /\ (l < s => delivered = sent)
  <2> HIDE DEF l, s
  <2> QED BY <1>7, <1>8, <1>9, SMT
<1>11. /\ FrameSize(delivered + 1) <= Len(OnTheWay) => delivered < sent
       /\ Len(OnTheWay) < FrameSize(delivered + 1) => delivered = sent
  BY <1>10
<1>12. \A i \in 1..Len(OnTheWay) :
         i <= FrameSize(delivered + 1) => OnTheWay[i] = <<delivered + 1, i>>
  <2> HIDE DEF FrameSize, l, s
  <2> QED BY <1>3, <1>5
<1> HIDE DEF FrameSize, l, s
<1> QED BY <1>1, <1>2, <1>6, <1>11, <1>12

LEMMA HeaderBytes ==
  ASSUME NEW f \in 1..NFrames
  PROVE  /\ Header(f) \in Seq(AllBytes) /\ Len(Header(f)) = HeaderSize
         /\ \A i \in 1..HeaderSize : Header(f)[i] = <<f, i>>
<1>1. /\ 1 \in Nat \ {0} /\ HeaderSize \in Nat /\ 1 <= HeaderSize + 1
      /\ HeaderSize <= HeaderSize + MaxData /\ HeaderSize - 1 + 1 = HeaderSize
      /\ \A i \in 1..HeaderSize : 1 + i - 1 = i
  BY Numbers, SMT
<1>2. /\ Bytes(f, 1, HeaderSize) \in Seq(AllBytes)
      /\ Len(Bytes(f, 1, HeaderSize)) = HeaderSize - 1 + 1
      /\ \A i \in 1..(HeaderSize - 1 + 1) : Bytes(f, 1, HeaderSize)[i] = <<f, 1 + i - 1>>
  BY <1>1, BytesType
<1> QED BY <1>1, <1>2 DEF Header

\* A header belongs to one frame.
LEMMA HeadersDiffer ==
  ASSUME NEW f \in 1..NFrames, NEW g \in 1..NFrames, Header(f) = Header(g)
  PROVE  f = g
<1>1. 1 \in 1..HeaderSize BY Numbers, SMT
<1>2. <<f, 1>> = <<g, 1>> BY <1>1, HeaderBytes
<1> QED BY <1>2

\* An undisturbed look at the header
LEMMA HeaderSeen ==
  ASSUME BoundsInv, LinkInv, ReaderOpen, Peeking, ~disturbed, ~NothingLeft,
         NEW k \in 1..Len(net), k = Missing
  PROVE  SubSeq(buffer, 1, received) \o SubSeq(net, 1, k) = Header(delivered + 1)
<1>0. ReadTypes /\ NetTypes /\ ReadInBounds BY TypeParts DEF BoundsInv
<1>1. buffer = <<>> BY DEF LinkInv, HeaderInv
<1>2. received = 0 BY <1>0, <1>1, EmptySeq DEF ReadInBounds
<1>3. k = HeaderSize BY <1>2, Numbers, SMT DEF Missing, Wanted
<1>4. OnTheWay = net
  <2>1. net \in Seq(AllBytes) BY Counters
  <2> QED BY <2>1, ConcatEmptySeq DEF OnTheWay
<1>5. Len(net) \in Nat /\ net \in Seq(AllBytes) /\ k \in 0..Len(net)
  <2>1. net \in Seq(AllBytes) BY Counters
  <2>2. Len(net) \in Nat BY <2>1, LenProperties
  <2> QED BY <2>1, <2>2, SMT
<1>6. /\ SubSeq(net, 1, k) \in Seq(AllBytes) /\ Len(SubSeq(net, 1, k)) = k
      /\ \A i \in 1..k : SubSeq(net, 1, k)[i] = net[i]
  BY <1>5, PrefixOf
<1>7. SubSeq(buffer, 1, received) = <<>> BY <1>1, <1>2, SubSeqEmpty, SMT
<1>8. SubSeq(buffer, 1, received) \o SubSeq(net, 1, k) = SubSeq(net, 1, k)
  BY <1>6, <1>7, ConcatEmptySeq
<1>9. delivered + 1 \in 1..NFrames /\ HeaderSize <= FrameSize(delivered + 1)
      /\ FrameSize(delivered + 1) \in Nat
  BY NextFrame DEF Dying
<1>10. ASSUME NEW i \in 1..k PROVE SubSeq(net, 1, k)[i] = Header(delivered + 1)[i]
  <2>1. i \in 1..Len(net) /\ i <= FrameSize(delivered + 1)
    <3> HIDE DEF FrameSize
    <3> QED BY <1>3, <1>5, <1>9, Numbers, SMT
  <2>2. net[i] = <<delivered + 1, i>> BY <1>4, <2>1, NextFrame DEF Dying
  <2> QED BY <1>3, <1>6, <1>9, <2>2, HeaderBytes
<1>11. SubSeq(net, 1, k) = Header(delivered + 1)
  <2> DEFINE seen == SubSeq(net, 1, k)
             head == Header(delivered + 1)
  <2>1. seen \in Seq(AllBytes) /\ head \in Seq(AllBytes) /\ Len(seen) = k /\ Len(head) = k
    BY <1>3, <1>6, <1>9, HeaderBytes
  <2>2. \A i \in 1..k : seen[i] = head[i] BY <1>10
  <2> HIDE DEF seen, head
  <2>3. seen = head BY <2>1, <2>2, SeqEqual
  <2> QED BY <2>3 DEF seen, head
<1> QED BY <1>8, <1>11

\* An undisturbed reader of a frame knows how long it is.
LEMMA WantedIsSize ==
  ASSUME BoundsInv, LinkInv, ReaderOpen, ~Peeking, ~disturbed, ~NothingLeft
  PROVE  Wanted = FrameSize(delivered + 1)
<1>1. CASE encrypted BY <1>1 DEF Wanted, FrameSize, Peeking
<1>2. CASE ~encrypted
  <2>1. rstate = "frame" BY <1>2 DEF ReaderOpen, Peeking
  <2>2. data_size = size[delivered + 1] BY <2>1 DEF LinkInv, HeaderInv
  <2> QED BY <1>2, <2>2 DEF Wanted, FrameSize, Peeking
<1> QED BY <1>1, <1>2

\* A read that comes to nothing, after the sender has gone
LEMMA NothingToCome ==
  ASSUME BoundsInv, LinkInv, ReaderOpen, SenderGone, net = <<>>
  PROVE  disturbed \/ NothingLeft
<1> SUFFICES ASSUME ~disturbed, ~NothingLeft PROVE FALSE OBVIOUS
<1>0. ReadTypes /\ ReadInBounds BY TypeParts DEF BoundsInv
<1>1. ~Dying BY DEF Dying
<1>2. Len(OnTheWay) < FrameSize(delivered + 1)
  <2>1. CASE Peeking
    <3>1. OnTheWay = <<>> BY <2>1, EmptySeq, ConcatEmptySeq DEF OnTheWay
    <3>2. Len(OnTheWay) = 0 BY <3>1, EmptySeq
    <3>3. FrameSize(delivered + 1) \in Nat /\ HeaderSize <= FrameSize(delivered + 1)
      BY <1>1, NextFrame
    <3> DEFINE l == Len(OnTheWay)
               s == FrameSize(delivered + 1)
    <3>4. l = 0 /\ s \in Nat /\ HeaderSize <= s BY <3>2, <3>3
    <3> HIDE DEF l, s
    <3>5. l < s BY <3>4, Numbers, SMT
    <3> QED BY <3>5 DEF l, s
  <2>2. CASE ~Peeking
    <3>1. OnTheWay = buffer
      <4>1. buffer \in Seq(AllBytes) BY <1>0 DEF ReadTypes
      <4> QED BY <2>2, <4>1, ConcatEmptySeq DEF OnTheWay
    <3>2. Len(buffer) < Wanted BY <1>0 DEF ReadInBounds
    <3> QED BY <2>2, <3>1, <3>2, WantedIsSize
  <2> QED BY <2>1, <2>2
<1>3. delivered = sent BY <1>1, <1>2, NextFrame
<1> QED BY <1>3 DEF NothingLeft

-----------------------------------------------------------------------------
(* The steps of the reader *)

\* What FrameLink sees of a step of the reader
Quiet == delivered' = delivered /\ ReaderOpen'
Failing == delivered' = delivered /\ rstate' = "failed" /\ (disturbed' \/ NothingLeft)
Delivering ==
  /\ delivered < sent /\ delivered' = delivered + 1 /\ disturbed' = disturbed
  /\ rstate' = IF delivered' = NFrames THEN "done" ELSE "header"

\* A reader that has failed is out of the picture.
LEMMA FailedLink ==
  ASSUME BoundsInv, LinkInv, ReadFailed, UNCHANGED writeVars
  PROVE  LinkInv' /\ delivered' = delivered /\ rstate' = "failed"
<1>1. rstate' = "failed" /\ delivered' = delivered BY DEF ReadFailed, NextCall
<1>2. ~ReaderOpen' BY <1>1 DEF ReaderOpen
<1>3. delivered' <= sent' BY <1>1 DEF LinkInv, writeVars
<1> QED BY <1>1, <1>2, <1>3 DEF LinkInv, OrderInv, HeaderInv

\* A step that changes neither what is on its way nor the counters
LEMMA SameOrder ==
  ASSUME LinkInv, ReaderOpen, UNCHANGED <<encrypted, size>>, UNCHANGED writeVars,
         OnTheWay' = OnTheWay, delivered' = delivered, Dying => Dying'
  PROVE  delivered' <= sent' /\ OrderInv'
<1>1. sent' = sent /\ bytes_sent' = bytes_sent BY DEF writeVars
<1>2. Sizes' = Sizes BY SameSizes
<1>3. delivered' <= sent' BY <1>1 DEF LinkInv
<1>4. ASSUME ~Dying'
      PROVE  \E off : InOrder(OnTheWay', off, sent', Sizes', bytes_sent', delivered')
  <2>1. \E off : InOrder(OnTheWay, off, sent, Sizes, bytes_sent, delivered)
    BY <1>4 DEF LinkInv, OrderInv
  <2> QED BY <1>1, <1>2, <2>1
<1> QED BY <1>3, <1>4 DEF OrderInv

\* While it looks at the header the reader takes nothing away.
LEMMA PeekLink ==
  ASSUME BoundsInv, LinkInv, ReaderOpen, Peeking, NEW k \in 1..Len(net), k <= Missing,
         Got(SubSeq(net, 1, k)), net' = net, UNCHANGED <<encrypted, size>>, UNCHANGED writeVars,
         disturbed' = disturbed \/ disturbed' = TRUE,
         k < Missing => disturbed' \/ (SenderGone /\ Len(net) < Missing)
  PROVE  LinkInv' /\ (Quiet \/ Failing)
<1> DEFINE all == SubSeq(buffer, 1, received) \o SubSeq(net, 1, k)
<1>0. ReadTypes /\ NetTypes /\ ReadInBounds BY TypeParts DEF BoundsInv
<1>a. net \in Seq(AllBytes) /\ Len(net) \in Nat /\ k \in 0..Len(net) /\ k \in Nat /\ net # <<>>
  <2>1. net \in Seq(AllBytes) BY Counters
  <2>2. Len(net) \in Nat BY <2>1, LenProperties
  <2>3. k \in 0..Len(net) /\ k \in Nat /\ Len(net) # 0 BY <2>2, SMT
  <2> QED BY <2>1, <2>2, <2>3, EmptySeq
<1>b. ~Dying BY <1>a DEF Dying
<1>c. OnTheWay = net BY <1>a, ConcatEmptySeq DEF OnTheWay
<1>d. Len(SubSeq(net, 1, k)) = k BY <1>a, PrefixOf
<1>e. Missing \in Int
  <2>1. received \in Nat BY <1>0, LenProperties DEF ReadTypes, ReadInBounds
  <2> QED BY <1>0, <2>1, WantedType, SMT DEF Missing
<1>1. CASE k < Missing
  <2>1. UNCHANGED <<rstate, data_header, data_size, delivered>> BY <1>1, <1>d DEF Got
  <2>2. Quiet BY <2>1 DEF Quiet, ReaderOpen
  <2>3. Peeking' BY <2>1 DEF Peeking
  <2>4. OnTheWay' = OnTheWay BY <1>a, <1>c, <2>3, ConcatEmptySeq DEF OnTheWay
  <2>5. delivered' <= sent' /\ OrderInv' BY <1>b, <2>1, <2>4, SameOrder
  <2>6. disturbed' \/ NothingLeft
    <3> SUFFICES ASSUME ~disturbed', ~NothingLeft PROVE FALSE OBVIOUS
    <3>1. ~disturbed /\ SenderGone /\ Len(net) < Missing BY <1>1
    <3>2. buffer = <<>> BY <3>1 DEF LinkInv, HeaderInv
    <3>3. received = 0 BY <1>0, <3>2, EmptySeq DEF ReadInBounds
    <3>4. Missing = HeaderSize BY <3>3, Numbers, SMT DEF Missing, Wanted
    <3> DEFINE l == Len(OnTheWay)
               s == FrameSize(delivered + 1)
    <3>5. l < HeaderSize /\ HeaderSize <= s /\ l \in Nat /\ s \in Nat
      BY <1>a, <1>b, <1>c, <3>1, <3>4, NextFrame
    <3>6. l < s => delivered = sent BY <1>b, NextFrame
    <3> HIDE DEF l, s
    <3>7. delivered = sent BY <3>5, <3>6, Numbers, SMT
    <3> QED BY <3>1, <3>7 DEF NothingLeft
  <2>7. NothingLeft => NothingLeft' BY <2>1 DEF NothingLeft, SenderGone, writeVars
  <2>8. HeaderInv' BY <2>6, <2>7 DEF HeaderInv
  <2> QED BY <2>2, <2>5, <2>8 DEF LinkInv
<1>2. CASE ~(k < Missing)
  <2>1. k = Missing BY <1>2, <1>a, <1>e, SMT
  <2>2. HeaderComplete(all) BY <1>2, <1>d DEF Got
  <2>3. ~disturbed /\ ~NothingLeft => all = Header(delivered + 1) BY <2>1, HeaderSeen
  <2>f. delivered + 1 \in 1..NFrames BY <1>b, NextFrame
  <2> HIDE DEF all
  <2> DEFINE says == IF \E f \in 1..NFrames : all = Header(f)
                     THEN { size[f] : f \in {g \in 1..NFrames : all = Header(g)} }
                     ELSE 0..(MaxData + 1)
  <2>4. PICK n \in says :
          IF n > MaxData THEN ReadFailed
          ELSE /\ NextCall("frame") /\ data_header' = all /\ data_size' = n
               /\ UNCHANGED delivered
    BY <2>2 DEF HeaderComplete
  <2>5. ~disturbed /\ ~NothingLeft => n = size[delivered + 1]
    <3> SUFFICES ASSUME ~disturbed, ~NothingLeft PROVE n = size[delivered + 1] OBVIOUS
    <3>1. all = Header(delivered + 1) BY <2>3
    <3>2. PICK g \in 1..NFrames : all = Header(g) /\ n = size[g] BY <2>4, <2>f, <3>1
    <3>3. g = delivered + 1 BY <2>f, <3>1, <3>2, HeadersDiffer
    <3> QED BY <3>2, <3>3
  <2>6. CASE n > MaxData
    <3>1. ReadFailed BY <2>4, <2>6
    <3>2. disturbed \/ NothingLeft
      <4> SUFFICES ASSUME ~disturbed, ~NothingLeft PROVE FALSE OBVIOUS
      <4>1. n = size[delivered + 1] BY <2>5
      <4>2. size[delivered + 1] \in 0..MaxData BY <2>f DEF BoundsInv, TypeOK
      <4> QED BY <2>6, <4>1, <4>2, Numbers, SMT
    <3> QED BY <3>1, <3>2, FailedLink DEF Failing
  <2>7. CASE ~(n > MaxData)
    <3>1. NextCall("frame") /\ data_header' = all /\ data_size' = n /\ delivered' = delivered
      BY <2>4, <2>7
    <3>2. rstate' = "frame" /\ buffer' = <<>> BY <3>1 DEF NextCall
    <3>3. ~Peeking' BY <3>2 DEF Peeking
    <3>4. OnTheWay' = OnTheWay BY <1>a, <1>c, <3>2, <3>3, ConcatEmptySeq DEF OnTheWay
    <3>5. delivered' <= sent' /\ OrderInv' BY <1>b, <3>1, <3>4, SameOrder
    <3>6. HeaderInv'
      <4> SUFFICES ASSUME ~disturbed', ~NothingLeft'
                   PROVE  data_header' = Header(delivered + 1)' /\ data_size' = size[delivered + 1]'
        BY <3>3 DEF HeaderInv
      <4>1. ~disturbed OBVIOUS
      <4>2. ~NothingLeft BY <3>1 DEF NothingLeft, SenderGone, writeVars
      <4>3. Header(delivered + 1)' = Header(delivered + 1) BY <3>1 DEF Header, Bytes
      <4>4. size[delivered + 1]' = size[delivered + 1] BY <3>1
      <4> QED BY <2>3, <2>5, <3>1, <4>1, <4>2, <4>3, <4>4
    <3>7. Quiet BY <3>1, <3>2 DEF Quiet, ReaderOpen
    <3> QED BY <3>5, <3>6, <3>7 DEF LinkInv
  <2> QED BY <2>6, <2>7
<1> QED BY <1>1, <1>2

\* What passes verification has the length of the frame.
LEMMA VerifiedLength ==
  ASSUME BoundsInv, ReaderOpen, ~Peeking, delivered + 1 \in 1..NFrames,
         NEW bytes \in Seq(AllBytes), Len(bytes) = Wanted, Verified(bytes)
  PROVE  Len(bytes) = FrameSize(delivered + 1)
<1> DEFINE f == delivered + 1
<1>0. TypeOK BY DEF BoundsInv
<1>1. FrameSize(f) \in Nat /\ HeaderSize <= FrameSize(f) /\ FrameSize(f) <= HeaderSize + MaxData
  BY <1>0, FrameSizes
<1>2. CASE encrypted BY <1>2 DEF Wanted, Peeking, FrameSize
<1>3. CASE ~encrypted
  <2>1. SubSeq(bytes, HeaderSize + 1, Len(bytes)) = Bytes(f, HeaderSize + 1, FrameSize(f))
    BY <1>3 DEF Verified
  <2>2. Wanted = HeaderSize + data_size /\ data_size \in 0..MaxData
    BY <1>0, <1>3 DEF Wanted, TypeOK
  <2>3. HeaderSize \in 0..Len(bytes) /\ Len(bytes) - HeaderSize = data_size
    BY <2>2, Numbers, SMT
  <2>4. Len(SubSeq(bytes, HeaderSize + 1, Len(bytes))) = Len(bytes) - HeaderSize
    BY <2>3, SuffixOf
  <2> DEFINE s == FrameSize(f)
  <2>5. s \in Nat /\ HeaderSize <= s /\ s <= HeaderSize + MaxData BY <1>1
  <2>6. f \in 1..NFrames OBVIOUS
  <2>7. SubSeq(bytes, HeaderSize + 1, Len(bytes)) = Bytes(f, HeaderSize + 1, s) BY <2>1
  <2> HIDE DEF s, f
  <2>8. HeaderSize + 1 \in Nat \ {0} /\ HeaderSize + 1 <= s + 1 BY <2>5, Numbers, SMT
  <2>9. Len(Bytes(f, HeaderSize + 1, s)) = s - (HeaderSize + 1) + 1
    BY <2>5, <2>6, <2>8, BytesType
  <2>10. Len(bytes) - HeaderSize = s - (HeaderSize + 1) + 1 BY <2>4, <2>7, <2>9
  <2>11. Len(bytes) = s BY <2>2, <2>3, <2>5, <2>10, Numbers, SMT
  <2> QED BY <2>11 DEF s, f
<1> QED BY <1>2, <1>3

\* A frame as it was sent passes verification.
LEMMA WholeIsVerified ==
  ASSUME BoundsInv, LinkInv, ReaderOpen, ~Peeking, ~disturbed, ~NothingLeft,
         NEW bytes \in Seq(AllBytes), Len(bytes) = Wanted,
         \A i \in 1..Len(bytes) : bytes[i] = <<delivered + 1, i>>
  PROVE  Verified(bytes)
<1> DEFINE f == delivered + 1
           s == FrameSize(f)
<1>0. TypeOK BY DEF BoundsInv
<1>1. f \in 1..NFrames /\ s \in Nat /\ HeaderSize <= s /\ s <= HeaderSize + MaxData
  BY NextFrame DEF Dying
<1>2. Len(bytes) = s BY WantedIsSize
<1>3. \A i \in 1..s : bytes[i] = <<f, i>> BY <1>2
<1>4. CASE encrypted
  <2>1. bytes = Bytes(f, 1, s)
    <3> HIDE DEF s, f
    <3>1. /\ 1 \in Nat \ {0} /\ 1 <= s + 1 /\ s - 1 + 1 = s /\ \A i \in 1..s : 1 + i - 1 = i
      BY <1>1, SMT
    <3>2. /\ Bytes(f, 1, s) \in Seq(AllBytes) /\ Len(Bytes(f, 1, s)) = s - 1 + 1
          /\ \A i \in 1..(s - 1 + 1) : Bytes(f, 1, s)[i] = <<f, 1 + i - 1>>
      BY <1>1, <3>1, BytesType
    <3> DEFINE whole == Bytes(f, 1, s)
    <3>3. whole \in Seq(AllBytes) /\ Len(whole) = s /\ \A i \in 1..s : whole[i] = <<f, i>>
      BY <3>1, <3>2
    <3> HIDE DEF whole
    <3>4. bytes = whole BY <1>2, <1>3, <3>3, SeqEqual
    <3> QED BY <3>4 DEF whole
  <2> QED BY <1>4, <2>1 DEF Verified
<1>5. CASE ~encrypted
  <2>1. rstate = "frame" BY <1>5 DEF ReaderOpen, Peeking
  <2>2. data_header = Header(f) BY <2>1 DEF LinkInv, HeaderInv
  <2>3. SubSeq(bytes, HeaderSize + 1, Len(bytes)) = Bytes(f, HeaderSize + 1, s)
    <3> HIDE DEF s, f
    <3>1. /\ HeaderSize + 1 \in Nat \ {0} /\ HeaderSize + 1 <= s + 1
          /\ s - (HeaderSize + 1) + 1 = s - HeaderSize /\ HeaderSize \in 0..s
          /\ \A i \in 1..(s - HeaderSize) : HeaderSize + 1 + i - 1 = HeaderSize + i /\ HeaderSize + i \in 1..s
      BY <1>1, Numbers, SMT
    <3>2. /\ Bytes(f, HeaderSize + 1, s) \in Seq(AllBytes)
          /\ Len(Bytes(f, HeaderSize + 1, s)) = s - (HeaderSize + 1) + 1
          /\ \A i \in 1..(s - (HeaderSize + 1) + 1) :
               Bytes(f, HeaderSize + 1, s)[i] = <<f, HeaderSize + 1 + i - 1>>
      BY <1>1, <3>1, BytesType
    <3>3. HeaderSize \in 0..Len(bytes) BY <1>2, <3>1
    <3>4. /\ SubSeq(bytes, HeaderSize + 1, Len(bytes)) \in Seq(AllBytes)
          /\ Len(SubSeq(bytes, HeaderSize + 1, Len(bytes))) = Len(bytes) - HeaderSize
          /\ \A i \in 1..(Len(bytes) - HeaderSize) :
               SubSeq(bytes, HeaderSize + 1, Len(bytes))[i] = bytes[HeaderSize + i]
      BY <3>3, SuffixOf
    <3> DEFINE data == Bytes(f, HeaderSize + 1, s)
               rest == SubSeq(bytes, HeaderSize + 1, Len(bytes))
               n == s - HeaderSize
    <3>5. data \in Seq(AllBytes) /\ Len(data) = n /\ \A i \in 1..n : data[i] = <<f, HeaderSize + i>>
      BY <3>1, <3>2
    <3>6. rest \in Seq(AllBytes) /\ Len(rest) = n /\ \A i \in 1..n : rest[i] = bytes[HeaderSize + i]
      BY <1>2, <3>4
    <3>7. \A i \in 1..n : bytes[HeaderSize + i] = <<f, HeaderSize + i>> BY <1>3, <3>1
    <3> HIDE DEF data, rest, n
    <3>8. rest = data BY <3>5, <3>6, <3>7, SeqEqual
    <3> QED BY <3>8 DEF data, rest
  <2> QED BY <1>5, <2>2, <2>3 DEF Verified
<1> QED BY <1>4, <1>5

\* The bytes read and those left behind are the ones that were on their way.
LEMMA TakeOver ==
  ASSUME NEW seen \in Seq(AllBytes), NEW ahead \in Seq(AllBytes), NEW k \in 0..Len(ahead)
  PROVE  /\ seen \o SubSeq(ahead, 1, k) \in Seq(AllBytes)
         /\ Len(seen \o SubSeq(ahead, 1, k)) = Len(seen) + k
         /\ SubSeq(ahead, k + 1, Len(ahead)) \in Seq(AllBytes)
         /\ (seen \o SubSeq(ahead, 1, k)) \o SubSeq(ahead, k + 1, Len(ahead)) = seen \o ahead
<1>1. SubSeq(ahead, 1, k) \in Seq(AllBytes) /\ Len(SubSeq(ahead, 1, k)) = k BY PrefixOf
<1>2. SubSeq(ahead, k + 1, Len(ahead)) \in Seq(AllBytes) BY SuffixOf
<1>3. SubSeq(ahead, 1, k) \o SubSeq(ahead, k + 1, Len(ahead)) = ahead
  <2>1. Len(ahead) \in Nat BY LenProperties
  <2>2. 1 \in 1..(Len(ahead) + 1) /\ k \in (1 - 1)..Len(ahead) /\ Len(ahead) \in k..Len(ahead)
    BY <2>1, SMT
  <2>3. SubSeq(ahead, 1, k) \o SubSeq(ahead, k + 1, Len(ahead)) = SubSeq(ahead, 1, Len(ahead))
    BY <2>2, ConcatAdjacentSubSeq
  <2> QED BY <2>3, SubSeqFull
<1> DEFINE first == SubSeq(ahead, 1, k)
           rest == SubSeq(ahead, k + 1, Len(ahead))
<1>4. first \in Seq(AllBytes) /\ rest \in Seq(AllBytes) /\ first \o rest = ahead /\ Len(first) = k
  BY <1>1, <1>2, <1>3
<1> HIDE DEF first, rest
<1>5. (seen \o first) \o rest = seen \o ahead
  <2>1. first \in Seq(AllBytes) /\ rest \in Seq(AllBytes) BY <1>4
  <2>2. (seen \o first) \o rest = seen \o (first \o rest) BY <2>1, ConcatAssociative
  <2> QED BY <1>4, <2>2
<1>6. seen \o first \in Seq(AllBytes) /\ Len(seen \o first) = Len(seen) + k
  BY <1>4, ConcatProperties
<1> QED BY <1>4, <1>5, <1>6 DEF first, rest

\* A read that takes bytes away
LEMMA RecvLink ==
  ASSUME BoundsInv, LinkInv, Recv
  PROVE  LinkInv' /\ (Quiet \/ Failing \/ Delivering)
<1>0. ReadTypes /\ NetTypes /\ ReadInBounds /\ delivered <= sent
  BY TypeParts DEF BoundsInv, LinkInv
<1>a. ReaderOpen /\ ~Peeking /\ UNCHANGED <<encrypted, size>> /\ UNCHANGED writeVars
      /\ disturbed' = disturbed
  BY DEF Recv
<1>b. PICK k \in 1..Least(Missing, Len(net)) :
        Got(SubSeq(net, 1, k)) /\ net' = SubSeq(net, k + 1, Len(net))
  BY DEF Recv
<1>c. net \in Seq(AllBytes) /\ buffer \in Seq(AllBytes) /\ Len(net) \in Nat
      /\ received = Len(buffer) /\ received \in Nat /\ Missing \in Int
  <2>1. net \in Seq(AllBytes) /\ buffer \in Seq(AllBytes) BY Counters
  <2>2. Len(net) \in Nat /\ Len(buffer) \in Nat BY <2>1, LenProperties
  <2>3. received = Len(buffer) BY <1>0 DEF ReadInBounds
  <2>4. Missing \in Int BY <1>0, <2>2, <2>3, WantedType, SMT DEF Missing
  <2> QED BY <2>1, <2>2, <2>3, <2>4
<1>d. k \in 0..Len(net) /\ k <= Missing /\ k \in Nat \ {0}
  <2> HIDE DEF Missing
  <2> QED BY <1>b, <1>c, SMT DEF Least
<1>e. ~Dying
  <2>1. net # <<>> BY <1>c, <1>d, EmptySeq, SMT
  <2> QED BY <2>1 DEF Dying
<1> DEFINE bytes == SubSeq(net, 1, k)
           all == SubSeq(buffer, 1, received) \o bytes
<1>f. /\ all \in Seq(AllBytes) /\ Len(all) = received + k /\ net' \in Seq(AllBytes)
      /\ all \o net' = OnTheWay /\ Len(bytes) = k
  <2>1. SubSeq(buffer, 1, received) = buffer BY <1>c, SubSeqFull
  <2>2. /\ buffer \o bytes \in Seq(AllBytes) /\ Len(buffer \o bytes) = Len(buffer) + k
        /\ SubSeq(net, k + 1, Len(net)) \in Seq(AllBytes)
        /\ (buffer \o bytes) \o SubSeq(net, k + 1, Len(net)) = buffer \o net
    BY <1>c, <1>d, TakeOver
  <2>3. OnTheWay = buffer \o net BY <1>a DEF OnTheWay
  <2>4. Len(bytes) = k BY <1>c, <1>d, PrefixOf
  <2> QED BY <1>b, <1>c, <2>1, <2>2, <2>3, <2>4
<1>g. Got(bytes) BY <1>b
<1>1. CASE k < Missing
  <2>1. buffer' = all /\ UNCHANGED <<rstate, data_header, data_size, delivered>>
    BY <1>1, <1>f, <1>g DEF Got
  <2>2. Quiet BY <1>a, <2>1 DEF Quiet, ReaderOpen
  <2>3. ~Peeking' BY <1>a, <2>1 DEF Peeking
  <2> HIDE DEF all
  <2>4. OnTheWay' = OnTheWay BY <1>f, <2>1, <2>3 DEF OnTheWay
  <2>5. delivered' <= sent' /\ OrderInv' BY <1>a, <1>e, <2>1, <2>4, SameOrder
  <2>6. Header(delivered + 1)' = Header(delivered + 1) BY <2>1 DEF Header, Bytes
  <2>7. NothingLeft' = NothingLeft BY <1>a, <2>1 DEF NothingLeft, SenderGone, writeVars
  <2>8. HeaderInv' BY <1>a, <2>1, <2>3, <2>6, <2>7 DEF LinkInv, HeaderInv
  <2> QED BY <2>2, <2>5, <2>8 DEF LinkInv
<1>2. CASE ~(k < Missing)
  <2>1. FrameComplete(all) BY <1>2, <1>a, <1>f, <1>g DEF Got
  <2> DEFINE s == FrameSize(delivered + 1)
             l == Len(OnTheWay)
             left == Len(net')
  <2>2. /\ delivered + 1 \in 1..NFrames /\ s \in Nat /\ l \in Nat /\ delivered \in Nat
        /\ s <= l => delivered < sent
        /\ \A i \in 1..l : i <= s => OnTheWay[i] = <<delivered + 1, i>>
    BY <1>a, <1>e, NextFrame
  <2>3. Len(all) = Wanted
    <3>1. k = Missing BY <1>2, <1>c, <1>d, SMT
    <3>2. Missing = Wanted - received /\ Wanted \in Nat BY <1>0, WantedType DEF Missing
    <3>3. Len(all) = received + k BY <1>f
    <3> HIDE DEF all, Missing, Wanted
    <3>4. received + k = Wanted BY <1>c, <3>1, <3>2, SMT
    <3> QED BY <3>3, <3>4
  <2> HIDE DEF all
  <2>4. l = Len(all) + left /\ left \in Nat /\ Len(all) \in Nat
        /\ \A i \in 1..l : OnTheWay[i] = IF i <= Len(all) THEN all[i] ELSE net'[i - Len(all)]
    <3> DEFINE rest == net'
    <3>1. all \in Seq(AllBytes) /\ rest \in Seq(AllBytes) BY <1>f
    <3>2. all \o rest = OnTheWay BY <1>f
    <3> HIDE DEF rest
    <3>3. /\ Len(all \o rest) = Len(all) + Len(rest) /\ Len(all) \in Nat /\ Len(rest) \in Nat
          /\ \A i \in 1..(Len(all) + Len(rest)) :
               (all \o rest)[i] = IF i <= Len(all) THEN all[i] ELSE rest[i - Len(all)]
      BY <3>1, ConcatProperties, LenProperties
    <3> QED BY <3>2, <3>3 DEF rest
  <2>5. CASE Verified(all)
    <3>1. Len(all) = s BY <1>a, <1>f, <2>2, <2>3, <2>5, VerifiedLength
    <3>2. delivered < sent
      <4>1. s <= l
        <5> HIDE DEF s, l, left
        <5> QED BY <2>2, <2>4, <3>1, SMT
      <4> QED BY <2>2, <4>1
    <3>3. /\ delivered' = delivered + 1
          /\ NextCall(IF delivered' = NFrames THEN "done" ELSE "header")
      BY <2>1, <2>5 DEF FrameComplete
    <3>4. Delivering BY <1>a, <3>2, <3>3 DEF Delivering, NextCall
    <3>5. rstate' \in {"done", "header"} /\ buffer' = <<>> BY <3>3 DEF NextCall
    <3>6. delivered' <= sent' BY <1>a, <2>2, <3>2, <3>3, Counters, SMT DEF writeVars
    <3>7. HeaderInv' BY <3>5 DEF HeaderInv
    <3>8. OnTheWay' = net' BY <1>f, <3>5, ConcatEmptySeq DEF OnTheWay
    <3>9. PICK off : InOrder(OnTheWay, off, sent, Sizes, bytes_sent, delivered)
      BY <1>a, <1>e DEF LinkInv, OrderInv
    <3>10. InOrder(net', off, sent, Sizes, bytes_sent, delivered + 1)
      <4> DEFINE q == OnTheWay
                 rest == net'
                 len == Sizes
                 n == sent
                 b == bytes_sent
                 d == delivered
      <4>1. q \in Seq(AllBytes) /\ n \in Nat /\ b \in Nat /\ d \in 0..n /\ d < n
            /\ rest \in Seq(AllBytes) /\ InOrder(q, off, n, len, b, d)
        BY <1>f, <3>2, <3>9, Counters
      <4>2. len[d + 1] = s /\ s \in Nat
        <5>1. Sizes[delivered + 1] = FrameSize(delivered + 1) BY <2>2, SizesType DEF BoundsInv
        <5> QED BY <2>2, <5>1
      <4>3. Len(q) = s + Len(rest) BY <2>4, <3>1
      <4>4. \A j \in 1..Len(rest) : rest[j] = q[s + j]
        <5> TAKE j \in 1..Len(rest)
        <5>1. OnTheWay[s + j] = net'[j]
          <6>1. j \in 1..left OBVIOUS
          <6> HIDE DEF s, l, left
          <6>2. s + j \in 1..l /\ ~(s + j <= s) /\ (s + j) - s = j
            BY <2>2, <2>4, <3>1, <6>1, SMT
          <6>3. OnTheWay[s + j] = IF s + j <= s THEN all[s + j] ELSE net'[(s + j) - s]
            BY <2>4, <3>1, <6>2
          <6> QED BY <6>2, <6>3
        <5> QED BY <5>1
      <4> HIDE DEF q, rest, len, n, b, d, s
      <4>5. InOrder(rest, off, n, len, b, d + 1)
        BY <4>1, <4>2, <4>3, <4>4, RestInOrder
      <4> QED BY <4>5 DEF q, rest, len, n, b, d
    <3>11. Sizes' = Sizes /\ sent' = sent /\ bytes_sent' = bytes_sent
      BY <1>a, SameSizes DEF writeVars
    <3>12. OrderInv'
      <4>1. \E o : InOrder(OnTheWay', o, sent', Sizes', bytes_sent', delivered')
        BY <3>3, <3>8, <3>10, <3>11
      <4> QED BY <4>1 DEF OrderInv
    <3> QED BY <3>4, <3>6, <3>7, <3>12 DEF LinkInv
  <2>6. CASE ~Verified(all)
    <3>1. ReadFailed BY <2>1, <2>6 DEF FrameComplete
    <3>2. disturbed \/ NothingLeft
      <4> SUFFICES ASSUME ~disturbed, ~NothingLeft PROVE FALSE OBVIOUS
      <4>1. Len(all) = s BY <1>a, <2>3, WantedIsSize
      <4>2. \A i \in 1..Len(all) : all[i] = <<delivered + 1, i>>
        <5> TAKE i \in 1..Len(all)
        <5>1. i \in 1..l /\ i <= s /\ i <= Len(all)
          <6> HIDE DEF s, l, left
          <6> QED BY <2>4, <4>1, SMT
        <5>2. OnTheWay[i] = all[i] BY <2>4, <5>1
        <5> QED BY <2>2, <5>1, <5>2
      <4>3. Verified(all) BY <1>a, <1>f, <2>3, <4>2, WholeIsVerified
      <4> QED BY <2>6, <4>3
    <3>3. Failing BY <1>a, <3>1, <3>2, FailedLink DEF Failing
    <3> QED BY <1>a, <3>1, <3>3, FailedLink
  <2> QED BY <2>5, <2>6
<1> QED BY <1>1, <1>2

LEMMA ReaderLink ==
  ASSUME BoundsInv, LinkInv, ReaderStep
  PROVE  LinkInv' /\ (Quiet \/ Failing \/ Delivering)
<1>0. ReadTypes /\ NetTypes /\ ReadInBounds /\ ReaderInv BY TypeParts DEF BoundsInv
<1>a. UNCHANGED <<encrypted, size>> /\ UNCHANGED writeVars BY ReaderKeeps
<1>b. net \in Seq(AllBytes) /\ Len(net) \in Nat
  <2>1. net \in Seq(AllBytes) BY Counters
  <2> QED BY <2>1, LenProperties
<1>c. ReaderOpen => Missing \in Nat \ {0}
  <2>1. received \in Nat BY <1>0, LenProperties DEF ReadTypes, ReadInBounds
  <2> QED BY <1>0, <2>1, WantedType, SMT DEF ReadInBounds, Missing
<1>1. CASE Peek
  <2> DEFINE k == Least(Missing, Len(net))
  <2>1. /\ ReaderOpen /\ Peeking /\ net # <<>> /\ Got(SubSeq(net, 1, k))
        /\ net' = net /\ disturbed' = disturbed
        /\ Len(net) >= Missing \/ SenderGone
    BY <1>1 DEF Peek
  <2>2. Len(net) # 0 BY <1>b, <2>1, EmptySeq
  <2>3. k \in 1..Len(net) /\ k <= Missing /\ (k < Missing => Len(net) < Missing)
        /\ (Len(net) < Missing => ~(Len(net) >= Missing))
    <3> HIDE DEF Missing
    <3> QED BY <1>b, <1>c, <2>1, <2>2, SMT DEF Least
  <2>4. k < Missing => SenderGone /\ Len(net) < Missing BY <2>1, <2>3
  <2> HIDE DEF k
  <2> QED BY <1>a, <2>1, <2>3, <2>4, PeekLink
<1>2. CASE PeekShort
  <2>1. /\ ReaderOpen /\ Peeking /\ net' = net /\ disturbed' = TRUE
    BY <1>2 DEF PeekShort
  <2>2. PICK k \in 1..Least(Missing - 1, Len(net)) : Got(SubSeq(net, 1, k))
    BY <1>2 DEF PeekShort
  <2>3. k \in 1..Len(net) /\ k <= Missing
    <3> HIDE DEF Missing
    <3> QED BY <1>b, <1>c, <2>1, <2>2, SMT DEF Least
  <2> QED BY <1>a, <2>1, <2>2, <2>3, PeekLink
<1>3. CASE Recv BY <1>3, RecvLink
<1>4. CASE RecvNothing
  <2>1. ReaderOpen /\ SenderGone /\ net = <<>> /\ UNCHANGED <<net, disturbed>>
    BY <1>4 DEF RecvNothing
  <2>2. disturbed \/ NothingLeft BY <2>1, NothingToCome
  <2>3. CASE ReadFailed
    <3>1. Failing BY <1>a, <2>1, <2>2, <2>3, FailedLink DEF Failing
    <3> QED BY <1>a, <2>3, <3>1, FailedLink
  <2>4. CASE ~ReadFailed
    <3>1. UNCHANGED <<rstate, buffer, received, data_header, data_size, delivered>>
      BY <1>4, <2>4 DEF RecvNothing
    <3>2. Quiet BY <2>1, <3>1 DEF Quiet, ReaderOpen
    <3>3. OnTheWay' = OnTheWay BY <1>a, <2>1, <3>1 DEF OnTheWay, Peeking
    <3>4. Dying => Dying' BY <1>a, <2>1 DEF Dying, SenderGone, writeVars
    <3>5. delivered' <= sent' /\ OrderInv' BY <1>a, <2>1, <3>1, <3>3, <3>4, SameOrder
    <3>6. NothingLeft' = NothingLeft BY <1>a, <3>1 DEF NothingLeft, SenderGone, writeVars
    <3>7. HeaderInv' BY <2>1, <2>2, <3>6 DEF HeaderInv
    <3> QED BY <3>2, <3>5, <3>7 DEF LinkInv
  <2> QED BY <2>3, <2>4
<1>5. CASE RecvInterrupted
  <2>1. ReaderOpen /\ ~SenderGone /\ disturbed' = TRUE BY <1>5 DEF RecvInterrupted
  <2>2. retry_counter + 1 > MaxReadRetry BY <1>0, <2>1, Numbers, SMT DEF ReaderInv
  <2>3. ReadFailed BY <1>5, <2>2 DEF RecvInterrupted
  <2>4. Failing BY <1>a, <2>1, <2>3, FailedLink DEF Failing
  <2> QED BY <1>a, <2>3, <2>4, FailedLink
<1> QED BY <1>1, <1>2, <1>3, <1>4, <1>5 DEF ReaderStep

-----------------------------------------------------------------------------
(* The refinement *)

LEMMA LinkKept == Spec => [](BoundsInv /\ LinkInv)
<1>1. Init => BoundsInv /\ LinkInv BY BoundsInit, LinkInit
<1>2. BoundsInv /\ LinkInv /\ [Next]_vars => (BoundsInv /\ LinkInv)'
  <2> SUFFICES ASSUME BoundsInv, LinkInv, [Next]_vars PROVE LinkInv'
    BY BoundsStep
  <2>1. CASE WriterStep BY <2>1, WriterLink
  <2>2. CASE ReaderStep BY <2>2, ReaderLink
  <2>3. CASE UNCHANGED vars
    <3>1. UNCHANGED <<encrypted, size>> /\ UNCHANGED writeVars /\ UNCHANGED readVars
          /\ UNCHANGED <<net, disturbed>>
      BY <2>3 DEF vars
    <3>2. OnTheWay' = OnTheWay BY <3>1 DEF OnTheWay, Peeking, readVars
    <3>3. Sizes' = Sizes BY <3>1, SameSizes
    <3>4. delivered' <= sent' BY <3>1 DEF LinkInv, writeVars, readVars
    <3>5. OrderInv'
      BY <3>1, <3>2, <3>3
      DEF LinkInv, OrderInv, ReaderOpen, Dying, SenderGone, writeVars, readVars
    <3>6. HeaderInv'
      <4>1. Header(delivered + 1)' = Header(delivered + 1) BY <3>1 DEF Header, Bytes, readVars
      <4> QED BY <3>1, <4>1
          DEF LinkInv, HeaderInv, ReaderOpen, NothingLeft, SenderGone, Peeking, writeVars, readVars
    <3> QED BY <3>4, <3>5, <3>6 DEF LinkInv
  <2> QED BY <2>1, <2>2, <2>3, Sides
<1> QED BY <1>1, <1>2, PTL DEF Spec

LEMMA LinkStart == Init => Link!Init
BY DEF Init, Link!Init, SenderGone, ReaderOpen

LEMMA WriterImplements ==
  ASSUME BoundsInv, WriterStep
  PROVE  [Link!Next]_(Link!vars)
<1>a. UNCHANGED readVars BY WriterKeeps
<1>b. ~SenderGone /\ ReaderOpen' = ReaderOpen /\ delivered' = delivered /\ rstate' = rstate
  <2>1. ~SenderGone
    BY DEF SenderGone, WriterStep, StartWrite, WriteInterrupted, WriteBroken, Finish, Crash, HangUp,
           Write
  <2> QED BY <1>a, <2>1 DEF ReaderOpen, readVars
<1>1. ASSUME sent' = sent, disturbed' = disturbed, ~SenderGone'
      PROVE  UNCHANGED Link!vars
  BY <1>1, <1>b DEF Link!vars
<1>2. ASSUME sent' = sent, disturbed' \in {disturbed, TRUE}, SenderGone'
      PROVE  Link!Stop
  BY <1>2, <1>b DEF Link!Stop
<1>3. ASSUME sent < NFrames, sent' = sent + 1, disturbed' = disturbed, ~SenderGone'
      PROVE  Link!Send
  BY <1>3, <1>b DEF Link!Send
<1>4. CASE StartWrite
  <2>1. sent' = sent /\ disturbed' = disturbed /\ ~SenderGone'
    BY <1>4 DEF StartWrite, SenderGone
  <2> QED BY <1>1, <2>1
<1>5. CASE WriteInterrupted \/ WriteBroken
  <2>1. sent' = sent /\ disturbed' = disturbed BY <1>5 DEF WriteInterrupted, WriteBroken
  <2>2. CASE SenderGone' BY <1>2, <2>1, <2>2 DEF Link!Next
  <2>3. CASE ~SenderGone' BY <1>1, <2>1, <2>3
  <2> QED BY <2>2, <2>3
<1>6. CASE Finish \/ Crash
  <2>1. sent' = sent /\ disturbed' \in {disturbed, TRUE} /\ SenderGone'
    BY <1>6 DEF Finish, Crash, HangUp, SenderGone
  <2> QED BY <1>2, <2>1 DEF Link!Next
<1>7. ASSUME wstate = "writing", NEW k \in 1..Least(at_once, Remaining), Write(k)
      PROVE  [Link!Next]_(Link!vars)
  <2>1. sent < NFrames BY <1>7 DEF BoundsInv, WriterInv
  <2>2. disturbed' = disturbed BY <1>7 DEF Write
  <2>3. CASE k = Remaining
    <3>1. sent' = sent + 1 /\ ~SenderGone' BY <1>7, <2>3 DEF Write, SenderGone
    <3> QED BY <1>3, <2>1, <2>2, <3>1 DEF Link!Next
  <2>4. CASE k # Remaining
    <3>1. sent' = sent BY <1>7, <2>4 DEF Write
    <3>2. CASE SenderGone' BY <1>2, <2>2, <3>1, <3>2 DEF Link!Next
    <3>3. CASE ~SenderGone' BY <1>1, <2>2, <3>1, <3>3
    <3> QED BY <3>2, <3>3
  <2> QED BY <2>3, <2>4
<1> QED BY <1>4, <1>5, <1>6, <1>7 DEF WriterStep

LEMMA ReaderImplements ==
  ASSUME BoundsInv, LinkInv, ReaderStep
  PROVE  [Link!Next]_(Link!vars)
<1>a. UNCHANGED writeVars BY ReaderKeeps
<1>b. sent' = sent /\ SenderGone' = SenderGone BY <1>a DEF SenderGone, writeVars
<1>c. ReaderOpen /\ disturbed' \in {disturbed, TRUE}
  BY DEF ReaderStep, Peek, PeekShort, Recv, RecvNothing, RecvInterrupted
<1>1. CASE Quiet
  <2>1. delivered' = delivered /\ ReaderOpen' BY <1>1 DEF Quiet
  <2>2. CASE disturbed' = disturbed BY <1>b, <1>c, <2>1, <2>2 DEF Link!vars
  <2>3. CASE disturbed' = TRUE
    <3>1. Link!Disturb BY <1>b, <1>c, <2>1, <2>3 DEF Link!Disturb
    <3> QED BY <3>1 DEF Link!Next
  <2> QED BY <1>c, <2>2, <2>3
<1>2. CASE Failing
  <2>1. /\ delivered' = delivered /\ rstate' = "failed" /\ ~ReaderOpen'
        /\ disturbed' \/ (SenderGone /\ delivered = sent)
    BY <1>2 DEF Failing, ReaderOpen, NothingLeft
  <2>2. Link!Fail BY <1>b, <1>c, <2>1 DEF Link!Fail
  <2> QED BY <2>2 DEF Link!Next
<1>3. CASE Delivering
  <2>1. delivered < sent /\ delivered' = delivered + 1 /\ disturbed' = disturbed
        /\ rstate' = IF delivered' = NFrames THEN "done" ELSE "header"
    BY <1>3 DEF Delivering
  <2>2. Link!Deliver BY <1>b, <1>c, <2>1 DEF Link!Deliver, ReaderOpen
  <2> QED BY <2>2 DEF Link!Next
<1> QED BY <1>1, <1>2, <1>3, ReaderLink

\* The two loops of a connection do what FrameLink allows: frames arrive whole and in
\* order, one that was not written completely never arrives, and an undisturbed
\* reader gives up only after the sender has gone and everything it sent has
\* arrived.  Streams, frames, buffers, pieces and retry limits may be of any size.
THEOREM FrameLinkCorrect == Spec => Link!SafetySpec
<1>1. BoundsInv /\ LinkInv /\ [Next]_vars => [Link!Next]_(Link!vars)
  <2> SUFFICES ASSUME BoundsInv, LinkInv, [Next]_vars PROVE [Link!Next]_(Link!vars)
    OBVIOUS
  <2>1. CASE UNCHANGED vars
    <3>1. UNCHANGED Link!vars
      BY <2>1 DEF vars, writeVars, readVars, Link!vars, SenderGone, ReaderOpen
    <3> QED BY <3>1
  <2> QED BY <2>1, WriterImplements, ReaderImplements, Sides
<1> QED BY <1>1, LinkStart, LinkKept, PTL DEF Spec, Link!SafetySpec

-----------------------------------------------------------------------------
(* The stream as a whole *)

LEMMA WholeFrame ==
  ASSUME TypeOK, NEW f \in 1..NFrames
  PROVE  /\ Bytes(f, 1, FrameSize(f)) \in Seq(AllBytes)
         /\ Len(Bytes(f, 1, FrameSize(f))) = FrameSize(f)
         /\ \A i \in 1..FrameSize(f) : Bytes(f, 1, FrameSize(f))[i] = <<f, i>>
<1> DEFINE s == FrameSize(f)
<1>1. s \in Nat /\ HeaderSize <= s /\ s <= HeaderSize + MaxData
  BY FrameSizes
<1> HIDE DEF s
<1>2. /\ 1 \in Nat \ {0} /\ 1 <= s + 1 /\ s - 1 + 1 = s
      /\ \A i \in 1..s : 1 + i - 1 = i
  BY <1>1, SMT
<1>3. /\ Bytes(f, 1, s) \in Seq(AllBytes) /\ Len(Bytes(f, 1, s)) = s - 1 + 1
      /\ \A i \in 1..(s - 1 + 1) : Bytes(f, 1, s)[i] = <<f, 1 + i - 1>>
  BY <1>1, <1>2, BytesType
<1>4. /\ Bytes(f, 1, s) \in Seq(AllBytes) /\ Len(Bytes(f, 1, s)) = s
      /\ \A i \in 1..s : Bytes(f, 1, s)[i] = <<f, i>>
  BY <1>2, <1>3
<1> QED
  BY <1>4 DEF s

LEMMA StreamIs ==
  ASSUME TypeOK
  PROVE  /\ \A f \in 0..NFrames : Stream[f] \in Seq(AllBytes)
         /\ \A f \in 1..NFrames : Stream[f] = Stream[f - 1] \o Bytes(f, 1, FrameSize(f))
<1> DEFINE S == Seq(AllBytes)
           Is(g) == g = [f \in 0..NFrames |-> IF f = 0 THEN <<>> ELSE g[f - 1] \o Bytes(f, 1, FrameSize(f))]
           go == [p \in Nat \X S |-> IF p[1] \in 1..NFrames THEN p[2] \o Bytes(p[1], 1, FrameSize(p[1])) ELSE p[2]]
<1>1. Stream = CHOOSE g : Is(g)
  BY DEF Stream
<1>2. \A f \in 1..NFrames : Bytes(f, 1, FrameSize(f)) \in S
  BY WholeFrame
<1>3. /\ <<>> \in S
      /\ \A s, t \in S : s \o t \in S
  BY EmptySeq, ConcatProperties
<1> HIDE DEF S
<1>4. go \in [Nat \X S -> S]
  BY <1>2, <1>3
<1>5. ASSUME NEW f \in 1..NFrames, NEW s \in S PROVE go[<<f, s>>] = s \o Bytes(f, 1, FrameSize(f))
  <2>1. f \in Nat
    BY Numbers
  <2>2. <<f, s>> \in Nat \X S /\ <<f, s>>[1] = f /\ <<f, s>>[2] = s
    BY <2>1
  <2> QED
    BY <2>2, Zenon
<1> HIDE DEF go
<1>6. PICK g : Runs(g, S, <<>>, go)
  BY <1>3, <1>4, RecursionExists
<1> DEFINE h == [f \in 0..NFrames |-> g[f]]
<1>7. ASSUME NEW f \in 0..NFrames
      PROVE  /\ f \in Nat /\ g[f] \in S
             /\ g[f] = IF f = 0 THEN <<>> ELSE h[f - 1] \o Bytes(f, 1, FrameSize(f))
  <2>1. f \in Nat /\ g[f] \in S
    BY <1>6, Numbers DEF Runs
  <2>2. CASE f = 0
    BY <1>6, <2>1, <2>2 DEF Runs
  <2>3. CASE f # 0
    <3>1. f - 1 \in Nat /\ f - 1 \in 0..NFrames /\ (f - 1) + 1 = f /\ f \in 1..NFrames
      BY <2>3, Numbers
    <3>2. g[f] = go[<<f, g[f - 1]>>] /\ g[f - 1] \in S
      BY <1>6, <3>1 DEF Runs
    <3> QED
      BY <1>5, <2>1, <2>3, <3>1, <3>2
  <2> QED
    BY <2>1, <2>2, <2>3
<1>8. Is(h)
  <2>1. h = [f \in 0..NFrames |-> g[f]]
    OBVIOUS
  <2>2. \A f \in 0..NFrames : g[f] = IF f = 0 THEN <<>> ELSE h[f - 1] \o Bytes(f, 1, FrameSize(f))
    BY <1>7
  <2> HIDE DEF h
  <2> QED
    BY <2>1, <2>2, Zenon
<1> HIDE DEF h, Is
<1>9. Is(Stream)
  BY <1>1, <1>8
<1>10. \A f \in 0..NFrames : Stream[f] = IF f = 0 THEN <<>> ELSE Stream[f - 1] \o Bytes(f, 1, FrameSize(f))
  BY <1>9 DEF Is
<1>11. ASSUME NEW f \in 1..NFrames
       PROVE  f \in 0..NFrames /\ f # 0 /\ f - 1 \in 0..NFrames /\ Stream[f] = Stream[f - 1] \o Bytes(f, 1, FrameSize(f))
  <2>1. f \in 0..NFrames /\ f # 0 /\ f - 1 \in 0..NFrames
    BY Numbers
  <2> QED
    BY <1>10, <2>1
<1> DEFINE T == {n \in Nat : n <= NFrames => Stream[n] \in S}
<1>12. 0 \in T
  BY <1>3, <1>10, Numbers
<1>13. ASSUME NEW n \in Nat, n \in T PROVE n + 1 \in T
  <2> SUFFICES ASSUME n + 1 <= NFrames PROVE Stream[n + 1] \in S
    OBVIOUS
  <2>1. n + 1 \in 1..NFrames /\ (n + 1) - 1 = n /\ n <= NFrames
    BY Numbers
  <2>2. Stream[n + 1] = Stream[n] \o Bytes(n + 1, 1, FrameSize(n + 1))
    BY <1>11, <2>1
  <2>3. Stream[n] \in S
    BY <1>13, <2>1
  <2> QED
    BY <1>2, <1>3, <2>1, <2>2, <2>3
<1> HIDE DEF T
<1>14. \A n \in Nat : n \in T
  BY <1>12, <1>13, SetInduction
<1>15. \A f \in 0..NFrames : Stream[f] \in S
  BY <1>14, Numbers DEF T
<1> QED
  BY <1>11, <1>15 DEF S

\* Frame n + 1, as far as it was written
LEMMA PartOfFrame ==
  ASSUME NEW n \in Nat, NEW b \in Nat, NEW q \in Seq(AllBytes), Len(q) = b,
         \A i \in 1..b : q[i] = <<n + 1, i>>
  PROVE  q = Bytes(n + 1, 1, b)
<1> DEFINE Marks == Nat \X Nat
           part == Bytes(n + 1, 1, b)
<1>1. AllBytes \subseteq Marks
  BY Numbers DEF AllBytes
<1>2. /\ b - 1 + 1 = b /\ n + 1 \in Nat
      /\ \A i \in 1..b : i \in Nat /\ 1 + i - 1 = i
  OBVIOUS
<1>3. part = [i \in 1..b |-> <<n + 1, i>>]
  BY <1>2 DEF Bytes
<1>4. part \in [1..b -> Marks] /\ \A i \in 1..b : part[i] = <<n + 1, i>>
  BY <1>2, <1>3
<1> HIDE DEF part, Marks
<1>5. part \in Seq(Marks) /\ Len(part) = b
  BY <1>4, FunctionSeq
<1>6. q \in Seq(Marks)
  BY <1>1, SeqMonotonic
<1>7. q = part
  BY <1>4, <1>5, <1>6, SeqEqual
<1> QED
  BY <1>7 DEF part

\* What is in order from frame d + 1 on continues the frames before it.
Continues(q, off, n, b, d) ==
  InOrder(q, off, n, Sizes, b, d) => Stream[d] \o q = Stream[n] \o Bytes(n + 1, 1, b)

LEMMA LastContinues ==
  ASSUME TypeOK, NEW q \in Seq(AllBytes), NEW off, NEW n \in 0..NFrames, NEW b \in Nat,
         b <= Sizes[n + 1]
  PROVE  Continues(q, off, n, b, n)
<1> SUFFICES ASSUME InOrder(q, off, n, Sizes, b, n) PROVE q = Bytes(n + 1, 1, b)
  BY DEF Continues
<1>1. n \in Nat /\ n \in 0..n /\ n + 1 \in 1..(n + 1) /\ n + 1 \in 1..(NFrames + 1)
      /\ \A f \in 1..(n + 1) : f \in 1..(NFrames + 1)
  BY Numbers
<1>2. \A f \in 1..(n + 1) : Sizes[f] \in Nat
  BY <1>1, SizesType
<1>3. Front(q, n, Sizes, b, n)
  BY <1>1, <1>2, FrontInOrder
<1> DEFINE l == Sizes[n + 1]
<1>4. Len(q) = b /\ l \in Nat /\ b <= l
  BY <1>1, <1>2, <1>3 DEF Front
<1>5. \A i \in 1..Len(q) : i <= l => q[i] = <<n + 1, i>>
  BY <1>3 DEF Front
<1> HIDE DEF l
<1>6. \A i \in 1..b : q[i] = <<n + 1, i>>
  BY <1>4, <1>5
<1> QED
  BY <1>1, <1>4, <1>6, PartOfFrame

LEMMA Regroup ==
  ASSUME NEW s \in Seq(AllBytes), NEW t \in Seq(AllBytes), NEW u \in Seq(AllBytes)
  PROVE  (s \o t) \o u = s \o (t \o u)
BY ConcatAssociative

LEMMA EarlierContinues ==
  ASSUME TypeOK, NEW off, NEW n \in 0..NFrames, NEW b \in Nat, b <= Sizes[n + 1],
         NEW d \in 0..n, d < n,
         \A rest \in Seq(AllBytes) : Continues(rest, off, n, b, d + 1),
         NEW q \in Seq(AllBytes)
  PROVE  Continues(q, off, n, b, d)
<1> SUFFICES ASSUME InOrder(q, off, n, Sizes, b, d)
             PROVE  Stream[d] \o q = Stream[n] \o Bytes(n + 1, 1, b)
  BY DEF Continues
<1>1. /\ n \in Nat /\ d \in Nat /\ d + 1 \in 1..NFrames /\ d \in 0..NFrames /\ (d + 1) - 1 = d
      /\ d + 1 \in 1..(n + 1) /\ \A f \in 1..(n + 1) : f \in 1..(NFrames + 1)
  BY Numbers
<1>2. \A f \in 1..(n + 1) : Sizes[f] \in Nat
  BY <1>1, SizesType
<1> DEFINE l == Sizes[d + 1]
<1>3. Front(q, n, Sizes, b, d)
  BY <1>1, <1>2, FrontInOrder
<1>4. l \in Nat /\ l <= Len(q) /\ l = FrameSize(d + 1) /\ Len(q) \in Nat
  BY <1>1, <1>2, <1>3, SizesType, LenProperties DEF Front
<1>5. \A i \in 1..Len(q) : i <= l => q[i] = <<d + 1, i>>
  BY <1>3 DEF Front
<1> HIDE DEF l
<1>6. l \in 0..Len(q)
  BY <1>4
<1> DEFINE first == SubSeq(q, 1, l)
           rest == SubSeq(q, l + 1, Len(q))
           frame == Bytes(d + 1, 1, FrameSize(d + 1))
<1>7. first = frame
  <2>1. first \in Seq(AllBytes) /\ Len(first) = l /\ \A i \in 1..l : first[i] = q[i]
    BY <1>6, PrefixOf
  <2>2. frame \in Seq(AllBytes) /\ Len(frame) = l /\ \A i \in 1..l : frame[i] = <<d + 1, i>>
    BY <1>1, <1>4, WholeFrame
  <2>3. \A i \in 1..l : q[i] = <<d + 1, i>>
    BY <1>4, <1>5
  <2> HIDE DEF first, frame
  <2> QED
    BY <2>1, <2>2, <2>3, SeqEqual
<1>8. /\ rest \in Seq(AllBytes) /\ Len(rest) = Len(q) - l
      /\ \A j \in 1..Len(rest) : rest[j] = q[l + j]
  BY <1>6, SuffixOf
<1>9. <<>> \o first \o rest = <<>> \o q /\ <<>> \o first \in Seq(AllBytes)
  BY <1>6, TakeOver, EmptySeq
<1>10. first \o rest = q
  <2>1. first \in Seq(AllBytes)
    BY <1>6, PrefixOf
  <2> HIDE DEF first, rest
  <2> QED
    BY <1>9, <2>1, ConcatEmptySeq
<1>11. InOrder(rest, off, n, Sizes, b, d + 1)
  <2> DEFINE len == Sizes
             s == Len(rest)
  <2>1. Len(q) = len[d + 1] + Len(rest)
    <3>1. s = Len(q) - l
      BY <1>8
    <3> DEFINE t == Len(q)
    <3> HIDE DEF s, t
    <3>2. t = l + s
      BY <3>1, <1>4 DEF t
    <3> QED
      BY <3>2 DEF l, s, t
  <2>2. \A j \in 1..Len(rest) : rest[j] = q[len[d + 1] + j]
    BY <1>8 DEF l
  <2>3. len[d + 1] \in Nat /\ InOrder(q, off, n, len, b, d) /\ rest \in Seq(AllBytes)
    BY <1>4, <1>8 DEF l
  <2> HIDE DEF len, rest, s
  <2>4. InOrder(rest, off, n, len, b, d + 1)
    BY <1>1, <2>1, <2>2, <2>3, RestInOrder
  <2> QED
    BY <2>4 DEF len
<1>12. Stream[d + 1] \o rest = Stream[n] \o Bytes(n + 1, 1, b)
  BY <1>8, <1>11 DEF Continues
<1>13. Stream[d + 1] = Stream[d] \o frame /\ Stream[d] \in Seq(AllBytes) /\ frame \in Seq(AllBytes)
  BY <1>1, StreamIs, WholeFrame
<1> DEFINE before == Stream[d]
<1> HIDE DEF first, rest, frame, before
<1>14. before \o (frame \o rest) = (before \o frame) \o rest
  <2>1. before \in Seq(AllBytes) /\ frame \in Seq(AllBytes) /\ rest \in Seq(AllBytes)
    BY <1>8, <1>13 DEF before
  <2>2. (before \o frame) \o rest = before \o (frame \o rest)
    BY <2>1, Regroup, Zenon
  <2> QED
    BY <2>2
<1> QED
  BY <1>7, <1>10, <1>12, <1>13, <1>14 DEF before

LEMMA StreamContinues ==
  ASSUME TypeOK, NEW off, NEW n \in 0..NFrames, NEW b \in Nat, b <= Sizes[n + 1]
  PROVE  \A d \in 0..n : \A q \in Seq(AllBytes) : Continues(q, off, n, b, d)
<1> DEFINE T == {k \in Nat : k <= n => \A q \in Seq(AllBytes) : Continues(q, off, n, b, n - k)}
<1>1. n \in Nat
  BY Numbers
<1>2. 0 \in T
  <2>1. n - 0 = n
    BY <1>1
  <2> QED
    BY <2>1, LastContinues
<1>3. ASSUME NEW k \in Nat, k \in T PROVE k + 1 \in T
  <2> SUFFICES ASSUME k + 1 <= n, NEW q \in Seq(AllBytes) PROVE Continues(q, off, n, b, n - (k + 1))
    OBVIOUS
  <2> DEFINE d == n - (k + 1)
  <2>1. d \in 0..n /\ d < n /\ d + 1 = n - k /\ k <= n
    BY <1>1
  <2>2. \A rest \in Seq(AllBytes) : Continues(rest, off, n, b, d + 1)
    BY <1>3, <2>1
  <2> HIDE DEF d, T
  <2>3. Continues(q, off, n, b, d)
    BY <2>1, <2>2, EarlierContinues
  <2> QED
    BY <2>3 DEF d
<1> HIDE DEF T
<1>4. \A k \in Nat : k \in T
  BY <1>2, <1>3, SetInduction
<1>5. ASSUME NEW d \in 0..n, NEW q \in Seq(AllBytes) PROVE Continues(q, off, n, b, d)
  <2>1. n - d \in Nat /\ n - d <= n /\ n - (n - d) = d
    BY <1>1
  <2> DEFINE k == n - d
  <2>2. k \in T /\ k <= n /\ n - k = d
    BY <1>4, <2>1
  <2> HIDE DEF k
  <2>3. Continues(q, off, n, b, n - k)
    BY <2>2 DEF T
  <2> QED
    BY <2>2, <2>3
<1> QED
  BY <1>5

\* The bytes on their way, in their places, are the ones between the two sides.
LEMMA NothingSkippedFollows == BoundsInv /\ LinkInv => NothingSkipped
<1> SUFFICES ASSUME BoundsInv, LinkInv, ReaderOpen, ~Dying
             PROVE  Stream[delivered] \o (IF Peeking THEN <<>> ELSE buffer) \o net
                      = Stream[sent] \o Bytes(sent + 1, 1, bytes_sent)
  BY DEF NothingSkipped, Dying
<1>1. PICK off : InOrder(OnTheWay, off, sent, Sizes, bytes_sent, delivered)
  BY DEF LinkInv, OrderInv
<1>2. /\ sent \in 0..NFrames /\ bytes_sent \in Nat /\ bytes_sent <= Sizes[sent + 1]
      /\ delivered \in 0..sent /\ delivered \in 0..NFrames
      /\ OnTheWay \in Seq(AllBytes) /\ buffer \in Seq(AllBytes) /\ net \in Seq(AllBytes)
  <2>1. /\ sent \in Nat /\ sent <= NFrames /\ delivered \in 0..sent
    BY Counters
  <2>2. sent \in 0..NFrames /\ delivered \in 0..NFrames
    BY <2>1, Numbers
  <2> QED
    BY <2>2, Counters
<1>3. TypeOK
  BY DEF BoundsInv
<1>4. Stream[delivered] \o OnTheWay = Stream[sent] \o Bytes(sent + 1, 1, bytes_sent)
  BY <1>1, <1>2, <1>3, StreamContinues DEF Continues
<1> DEFINE before == Stream[delivered]
           seen == IF Peeking THEN <<>> ELSE buffer
<1>5. before \in Seq(AllBytes)
  BY <1>2, <1>3, StreamIs
<1>6. seen \in Seq(AllBytes) /\ OnTheWay = seen \o net
  BY <1>2, EmptySeq DEF OnTheWay
<1> HIDE DEF before, seen
<1>7. (before \o seen) \o net = before \o OnTheWay
  <2>1. (before \o seen) \o net = before \o (seen \o net)
    BY <1>2, <1>5, <1>6, Regroup, Zenon
  <2> QED
    BY <1>6, <2>1
<1> QED
  BY <1>4, <1>7 DEF before, seen

\* What read_from_socket has taken, what the buffers of the connection hold and what
\* write_to_socket has handed over are always the same bytes: for any number and
\* size of frames, any way the calls are broken up, and any interruption.
THEOREM StreamKept == Spec => []NothingSkipped
BY LinkKept, NothingSkippedFollows, PTL

-----------------------------------------------------------------------------
(* The work that is left *)

LEMMA TimesFewer ==
  ASSUME NEW x \in Nat, NEW y \in Nat, y < x, NEW p \in Nat
  PROVE  x * p \in Nat /\ y * p \in Nat /\ y * p + p <= x * p
<1> DEFINE r == x - 1 - y
           xp == x * p
           yp == y * p
           rp == r * p
<1>1. r \in Nat /\ x = y + 1 + r
  OBVIOUS
<1> HIDE DEF r
<1>2. xp = yp + p + rp /\ xp \in Nat /\ yp \in Nat /\ rp \in Nat
  BY <1>1, SMT
<1> HIDE DEF xp, yp, rp
<1>3. yp + p <= xp
  BY <1>2
<1> QED
  BY <1>2, <1>3 DEF xp, yp

\* Bytes of the frames from s + 1 on, one more for each, without the b that are written
BytesLeft(s, b) == (NFrames - s) * (FullFrame + 1) - b

LEMMA FullFrameIs == FullFrame \in Nat \ {0}
BY Numbers DEF FullFrame

LEMMA BytesLeftIs ==
  ASSUME NEW s \in 0..NFrames, NEW b \in 0..FullFrame, s = NFrames => b = 0
  PROVE  /\ BytesLeft(s, b) \in Nat
         /\ s < NFrames /\ b < FullFrame => BytesLeft(s + 1, 0) + 1 < BytesLeft(s, b)
         /\ \A k \in Nat \ {0} : b + k <= FullFrame /\ s < NFrames => BytesLeft(s, b + k) < BytesLeft(s, b)
<1> DEFINE p == FullFrame + 1
           x == NFrames - s
           y == NFrames - (s + 1)
           xp == x * p
           yp == y * p
<1>1. p \in Nat /\ x \in Nat /\ b \in Nat /\ b < p /\ p = FullFrame + 1 /\ FullFrame \in Nat
  BY Numbers, FullFrameIs
<1>2. BytesLeft(s, b) = xp - b /\ BytesLeft(s + 1, 0) = yp - 0
      /\ \A k : BytesLeft(s, b + k) = xp - (b + k)
  BY DEF BytesLeft
<1>3. CASE s < NFrames
  <2>1. y \in Nat /\ y < x
    BY <1>3, Numbers
  <2> HIDE DEF x, y, p
  <2>2. xp \in Nat /\ yp \in Nat /\ yp + p <= xp
    BY <1>1, <2>1, TimesFewer
  <2> HIDE DEF xp, yp
  <2>3. BytesLeft(s, b) \in Nat
    BY <1>1, <1>2, <2>2
  <2>4. b < FullFrame => BytesLeft(s + 1, 0) + 1 < BytesLeft(s, b)
    <3>1. b < FullFrame => yp - 0 + 1 < xp - b
      BY <1>1, <2>2
    <3> QED
      BY <1>2, <3>1
  <2>5. ASSUME NEW k \in Nat \ {0} PROVE BytesLeft(s, b + k) < BytesLeft(s, b)
    <3>1. xp - (b + k) < xp - b
      BY <1>1, <2>2
    <3> QED
      BY <1>2, <3>1
  <2> QED
    BY <2>3, <2>4, <2>5
<1>4. CASE ~(s < NFrames)
  <2>1. s = NFrames /\ b = 0 /\ x = 0
    BY <1>4, Numbers
  <2> HIDE DEF x, p
  <2>2. xp = 0
    BY <1>1, <2>1
  <2> HIDE DEF xp
  <2> QED
    BY <1>2, <1>4, <2>1, <2>2
<1> QED
  BY <1>3, <1>4

LEMMA WriteLeftIs ==
  BoundsInv => /\ sent \in 0..NFrames /\ bytes_sent \in 0..FullFrame /\ (sent = NFrames => bytes_sent = 0)
               /\ WriteLeft = IF SenderGone THEN 0
                              ELSE BytesLeft(sent, bytes_sent) + (IF wstate = "idle" THEN 2 ELSE 1)
               /\ WriteLeft \in Nat /\ (~SenderGone => WriteLeft > 0)
<1> SUFFICES ASSUME BoundsInv
             PROVE  /\ sent \in 0..NFrames /\ bytes_sent \in 0..FullFrame
                    /\ (sent = NFrames => bytes_sent = 0)
                    /\ WriteLeft = IF SenderGone THEN 0
                                   ELSE BytesLeft(sent, bytes_sent) + (IF wstate = "idle" THEN 2 ELSE 1)
                    /\ WriteLeft \in Nat /\ (~SenderGone => WriteLeft > 0)
  OBVIOUS
<1>1. /\ sent \in 0..NFrames /\ bytes_sent \in 0..FullFrame
      /\ (sent = NFrames => bytes_sent = 0)
  BY DEF BoundsInv, TypeOK, WriterInv, FullFrame
<1>2. WriteLeft = IF SenderGone THEN 0
                  ELSE BytesLeft(sent, bytes_sent) + (IF wstate = "idle" THEN 2 ELSE 1)
  BY DEF WriteLeft, BytesLeft
<1> DEFINE l == BytesLeft(sent, bytes_sent)
<1>3. l \in Nat
  BY <1>1, BytesLeftIs
<1> HIDE DEF l
<1>4. l + 2 \in Nat /\ l + 2 > 0 /\ l + 1 \in Nat /\ l + 1 > 0
  BY <1>3
<1>5. WriteLeft = IF SenderGone THEN 0 ELSE l + (IF wstate = "idle" THEN 2 ELSE 1)
  BY <1>2 DEF l
<1>6. WriteLeft \in Nat /\ (~SenderGone => WriteLeft > 0)
  BY <1>4, <1>5
<1> QED
  BY <1>1, <1>2, <1>6

LEMMA WriteLeftThen ==
  BoundsInv' => /\ WriteLeft' = IF SenderGone' THEN 0
                                ELSE BytesLeft(sent', bytes_sent') + (IF wstate' = "idle" THEN 2 ELSE 1)
                /\ WriteLeft' \in Nat
<1>1. BoundsInv' => ( /\ WriteLeft = IF SenderGone THEN 0
                                ELSE BytesLeft(sent, bytes_sent) + (IF wstate = "idle" THEN 2 ELSE 1)
                      /\ WriteLeft \in Nat )'
  BY WriteLeftIs, PTL
<1> QED
  BY <1>1 DEF BytesLeft, FullFrame

\* write_to_socket gets on with its frames, or is interrupted once more.
LEMMA WriterWorks ==
  ASSUME BoundsInv, BoundsInv', WriterStep
  PROVE  \/ WriteLeft' < WriteLeft /\ interrupts' = interrupts
         \/ WriteLeft' <= WriteLeft /\ interrupts' = interrupts + 1
<1> DEFINE l == BytesLeft(sent, bytes_sent)
           m == BytesLeft(sent', bytes_sent')
<1>1. /\ sent \in 0..NFrames /\ bytes_sent \in 0..FullFrame /\ (sent = NFrames => bytes_sent = 0)
      /\ WriteLeft \in Nat /\ (~SenderGone => WriteLeft > 0)
      /\ WriteLeft = IF SenderGone THEN 0 ELSE l + (IF wstate = "idle" THEN 2 ELSE 1)
  BY WriteLeftIs
<1>2. WriteLeft' \in Nat /\ WriteLeft' = IF SenderGone' THEN 0 ELSE m + (IF wstate' = "idle" THEN 2 ELSE 1)
  BY WriteLeftThen
<1>3. l \in Nat
  BY <1>1, BytesLeftIs
<1>0. TypeOK /\ WriterInv
  BY DEF BoundsInv
<1>4. ASSUME ~SenderGone, SenderGone', interrupts' = interrupts
      PROVE  WriteLeft' < WriteLeft /\ interrupts' = interrupts
  <2>1. WriteLeft > 0 /\ WriteLeft' = 0
    BY <1>1, <1>2, <1>4
  <2> HIDE DEF WriteLeft, l, m
  <2> QED
    BY <1>4, <2>1
<1>5. CASE StartWrite
  <2>1. /\ wstate = "idle" /\ wstate' = "writing" /\ sent' = sent /\ bytes_sent' = 0
        /\ interrupts' = interrupts
    BY <1>5 DEF StartWrite
  <2>2. bytes_sent = 0
    BY <1>0, <2>1 DEF WriterInv
  <2>3. ~SenderGone /\ ~SenderGone' /\ m = l
    BY <2>1, <2>2 DEF SenderGone
  <2>4. WriteLeft = l + 2 /\ WriteLeft' = l + 1
    BY <1>1, <1>2, <2>1, <2>3
  <2> HIDE DEF WriteLeft, l, m
  <2> QED
    BY <1>3, <2>1, <2>4
<1>6. ASSUME wstate = "writing", NEW k \in 1..Least(at_once, Remaining), Write(k)
      PROVE  WriteLeft' < WriteLeft /\ interrupts' = interrupts
  <2>0. ~SenderGone /\ interrupts' = interrupts
    BY <1>6 DEF SenderGone, Write
  <2>1. sent < NFrames
    BY <1>0, <1>6 DEF WriterInv
  <2>2. k \in Nat \ {0} /\ k <= Remaining
    <3>1. at_once \in Int /\ Remaining \in Int
      BY <1>0, <2>1, InCall, Numbers DEF TypeOK
    <3>2. Least(at_once, Remaining) <= Remaining /\ Least(at_once, Remaining) \in Int
      BY <3>1, LeastProperties
    <3> HIDE DEF Remaining
    <3> QED
      BY <1>6, <3>1, <3>2
  <2>3. WriteLeft = l + 1
    BY <1>1, <1>6, <2>0
  <2>4. CASE k = Remaining
    <3>1. sent' = sent + 1 /\ wstate' = "idle" /\ bytes_sent' = 0
      BY <1>6, <2>4 DEF Write
    <3>2. m + 1 < l /\ m \in Nat
      <4>1. m = BytesLeft(sent + 1, 0)
        BY <3>1
      <4>2. bytes_sent < FullFrame
        <5> DEFINE z == FrameSize(sent + 1)
        <5>1. bytes_sent < z /\ z \in Nat /\ z <= FullFrame /\ bytes_sent \in Nat
          BY <1>0, <2>1, InCall DEF WriterInv, Current, FullFrame
        <5> HIDE DEF z
        <5> QED
          BY <5>1, FullFrameIs
      <4>3. BytesLeft(sent + 1, 0) + 1 < BytesLeft(sent, bytes_sent)
        BY <1>1, <2>1, <4>2, BytesLeftIs
      <4>4. sent + 1 \in 0..NFrames /\ 0 \in 0..FullFrame
        BY <1>1, <2>1, Numbers, FullFrameIs
      <4>5. BytesLeft(sent + 1, 0) \in Nat
        BY <4>4, BytesLeftIs
      <4> QED
        BY <4>1, <4>3, <4>5
    <3>3. WriteLeft' = m + 2
      BY <1>2, <3>1 DEF SenderGone
    <3> HIDE DEF WriteLeft, l, m
    <3> QED
      BY <1>3, <2>0, <2>3, <3>2, <3>3
  <2>5. CASE k # Remaining
    <3>1. sent' = sent /\ bytes_sent' = bytes_sent + k /\ wstate' # "idle"
      BY <1>6, <2>5 DEF Write, GivenUp
    <3>2. bytes_sent + k <= FullFrame
      BY <1>0, <2>1, <2>2, InCall, PieceType, Numbers DEF FullFrame
    <3>3. m < l
      <4>1. m = BytesLeft(sent, bytes_sent + k)
        BY <3>1
      <4> QED
        BY <1>1, <2>1, <2>2, <3>2, <4>1, BytesLeftIs
    <3>4. CASE SenderGone'
      BY <1>4, <2>0, <3>4
    <3>5. CASE ~SenderGone'
      <4>1. WriteLeft' = m + 1 /\ WriteLeft' \in Nat
        BY <1>2, <3>1, <3>5
      <4>2. m \in Nat
        <5>1. bytes_sent + k \in 0..FullFrame
          BY <1>1, <2>2, <3>2, FullFrameIs
        <5>2. m = BytesLeft(sent, bytes_sent + k) /\ sent # NFrames
          BY <1>1, <2>1, <3>1, Numbers
        <5> HIDE DEF m
        <5> QED
          BY <1>1, <5>1, <5>2, BytesLeftIs
      <4> HIDE DEF WriteLeft, l, m
      <4> QED
        BY <1>3, <2>0, <2>3, <3>3, <4>1, <4>2
    <3> QED
      BY <3>4, <3>5
  <2> QED
    BY <2>0, <2>4, <2>5
<1>7. CASE WriteInterrupted
  <2>1. /\ wstate = "writing" /\ wstate' # "idle" /\ sent' = sent /\ bytes_sent' = bytes_sent
        /\ interrupts' = interrupts + 1
    BY <1>7 DEF WriteInterrupted, GivenUp
  <2>2. m = l /\ ~SenderGone
    BY <2>1 DEF SenderGone
  <2>3. WriteLeft = l + 1 /\ WriteLeft' \in {0, l + 1}
    BY <1>1, <1>2, <2>1, <2>2
  <2> HIDE DEF WriteLeft, l, m
  <2> QED
    BY <1>3, <2>1, <2>3
<1>8. CASE WriteBroken
  BY <1>4, <1>8 DEF WriteBroken, GivenUp, SenderGone
<1>9. CASE Finish \/ Crash
  BY <1>4, <1>9 DEF Finish, Crash, HangUp, SenderGone
<1> QED
  BY <1>5, <1>6, <1>7, <1>8, <1>9 DEF WriterStep

LEMMA ReadLeftIs ==
  BoundsInv => /\ retry_counter \in 1..ReadRetries
               /\ ReaderOpen => /\ received \in 0..FullFrame
                                /\ CallsLeft \in Nat \ {0} /\ delivered \in 0..(NFrames - 1)
               /\ ReadLeft \in Nat /\ (ReaderOpen => ReadLeft > 0)
<1> SUFFICES ASSUME BoundsInv
             PROVE  /\ retry_counter \in 1..ReadRetries
                    /\ ReaderOpen => /\ received \in 0..FullFrame
                                     /\ CallsLeft \in Nat \ {0} /\ delivered \in 0..(NFrames - 1)
                    /\ ReadLeft \in Nat /\ (ReaderOpen => ReadLeft > 0)
  OBVIOUS
<1>1. retry_counter \in 1..ReadRetries /\ ReadTypes
  BY TypeParts DEF BoundsInv, TypeOK
<1>2. CASE ~ReaderOpen
  <2>1. ReadLeft = 0
    BY <1>2 DEF ReadLeft
  <2> QED
    BY <1>1, <1>2, <2>1
<1>3. CASE ReaderOpen
  <2> DEFINE c == CallsLeft
             p == FullFrame + ReadRetries
             w == Wanted
             cp == c * p
             r == received
             t == retry_counter
  <2>1. r \in 0..FullFrame
    <3>1. buffer \in Seq(AllBytes) /\ received = Len(buffer) /\ r < w
      BY <1>3 DEF BoundsInv, TypeOK, ReadInBounds
    <3>2. r \in Nat
      BY <3>1, LenProperties
    <3>3. w \in Nat /\ w <= FullFrame
      BY <1>1, WantedType DEF FullFrame
    <3> HIDE DEF w, r
    <3> QED
      BY <3>1, <3>2, <3>3, FullFrameIs
  <2>2. delivered \in 0..(NFrames - 1)
    BY <1>3, Numbers DEF BoundsInv, TypeOK, ReaderInv
  <2>3. c \in Nat \ {0}
    BY <2>2, Numbers DEF CallsLeft
  <2>4. p \in Nat
    BY Numbers, FullFrameIs
  <2> HIDE DEF c, p
  <2>5. cp \in Nat
    BY <2>3, <2>4
  <2>6. ReadLeft = cp + (FullFrame - r) + t
    BY <1>3 DEF ReadLeft, c, p
  <2> HIDE DEF cp, r, t
  <2>7. t \in Nat \ {0}
    BY <1>1, Numbers DEF t
  <2>8. ReadLeft \in Nat /\ ReadLeft > 0
    BY <2>1, <2>5, <2>6, <2>7, FullFrameIs
  <2> QED
    BY <1>1, <2>1, <2>2, <2>3, <2>8 DEF c, r
<1> QED
  BY <1>2, <1>3

LEMMA ReadLeftThen == BoundsInv' => ReadLeft' \in Nat
<1>1. BoundsInv' => (ReadLeft \in Nat)'
  BY ReadLeftIs, PTL
<1> QED
  BY <1>1

\* The current call has received more, or has a retry less.
LEMMA CallWorks ==
  ASSUME BoundsInv, ReaderOpen, NEW n \in Nat, NEW k \in Nat, n + k > 0,
         UNCHANGED <<rstate, delivered>>, received' = received + n, retry_counter' = retry_counter - k
  PROVE  ReadLeft' < ReadLeft
<1> DEFINE cp == CallsLeft * (FullFrame + ReadRetries)
           p == FullFrame + ReadRetries
           c == CallsLeft
           r == received
           t == retry_counter
<1>1. r \in 0..FullFrame /\ c \in Nat /\ t \in Nat
  BY ReadLeftIs, Numbers
<1>2. p \in Nat
  BY Numbers, FullFrameIs
<1>3. ReadLeft = cp + (FullFrame - r) + t
  BY DEF ReadLeft
<1>4. CallsLeft' = c /\ ReaderOpen'
  BY DEF CallsLeft, ReaderOpen
<1>5. ReadLeft' = cp + (FullFrame - (r + n)) + (t - k)
  BY <1>4 DEF ReadLeft, FullFrame
<1>6. cp \in Nat
  <2> HIDE DEF c, p
  <2>1. c * p \in Nat
    BY <1>1, <1>2
  <2> QED
    BY <2>1 DEF c, p
<1> HIDE DEF cp, c, p, r, t
<1> QED
  BY <1>1, <1>3, <1>5, <1>6, FullFrameIs

\* The next call starts, with fewer calls to go.
LEMMA CallsWork ==
  ASSUME BoundsInv, ReaderOpen, NEW d \in Nat, d < CallsLeft, CallsLeft' = d,
         received' = 0, retry_counter' = ReadRetries
  PROVE  ReadLeft' < ReadLeft
<1> DEFINE c == CallsLeft
           p == FullFrame + ReadRetries
           cp == c * p
           dp == d * p
           r == received
           t == retry_counter
<1>1. r \in 0..FullFrame /\ c \in Nat /\ t \in Nat \ {0}
  BY ReadLeftIs, Numbers
<1>2. p \in Nat
  BY Numbers, FullFrameIs
<1>3. ReadLeft = cp + (FullFrame - r) + t
  BY DEF ReadLeft
<1>4. ReadLeft' \in {0, dp + (FullFrame - 0) + ReadRetries}
  BY DEF ReadLeft, FullFrame
<1>5. d < c
  OBVIOUS
<1> HIDE DEF c
<1>6. p = FullFrame + ReadRetries
  OBVIOUS
<1> HIDE DEF p
<1>7. cp \in Nat /\ dp \in Nat /\ dp + p <= cp
  BY <1>1, <1>2, <1>5, TimesFewer
<1> HIDE DEF cp, dp, r, t
<1>8. dp + (FullFrame - 0) + ReadRetries <= cp /\ 0 <= cp
  BY <1>6, <1>7, FullFrameIs, Numbers
<1> QED
  BY <1>1, <1>3, <1>4, <1>7, <1>8, FullFrameIs, Numbers

\* No call follows.
LEMMA NoneWorks ==
  ASSUME BoundsInv, ReaderOpen, ~ReaderOpen' PROVE ReadLeft' < ReadLeft
<1>1. ReadLeft' = 0 /\ ReadLeft > 0
  BY ReadLeftIs DEF ReadLeft
<1> HIDE DEF ReadLeft
<1> QED
  BY <1>1

LEMMA FailedWorks ==
  ASSUME BoundsInv, ReaderOpen, ReadFailed PROVE ReadLeft' < ReadLeft
<1>1. ~ReaderOpen'
  BY DEF ReadFailed, NextCall, ReaderOpen
<1> QED
  BY <1>1, NoneWorks

LEMMA HeaderWorks ==
  ASSUME BoundsInv, ReaderOpen, Peeking, NEW bytes, HeaderComplete(bytes)
  PROVE  ReadLeft' < ReadLeft
<1>1. ReadFailed \/ (NextCall("frame") /\ delivered' = delivered)
  BY DEF HeaderComplete
<1>2. CASE NextCall("frame") /\ delivered' = delivered
  <2> DEFINE d == 2 * (NFrames - delivered) - 1
  <2>1. rstate = "header" /\ rstate' = "frame" /\ received' = 0 /\ retry_counter' = ReadRetries
    BY <1>2 DEF NextCall, StartCount, Peeking
  <2>2. d \in Nat /\ d < CallsLeft
    BY <2>1, ReadLeftIs, Numbers DEF CallsLeft
  <2>3. CallsLeft' = d
    BY <1>2, <2>1 DEF CallsLeft
  <2> HIDE DEF d
  <2> QED
    BY <2>1, <2>2, <2>3, CallsWork
<1> QED
  BY <1>1, <1>2, FailedWorks

LEMMA FrameWorks ==
  ASSUME BoundsInv, ReaderOpen, NEW bytes, FrameComplete(bytes)
  PROVE  ReadLeft' < ReadLeft
<1>1. CASE ~Verified(bytes)
  BY <1>1, FailedWorks DEF FrameComplete
<1>2. CASE Verified(bytes)
  <2> DEFINE state == IF delivered' = NFrames THEN "done" ELSE "header"
             d == 2 * (NFrames - (delivered + 1))
  <2>1. /\ delivered' = delivered + 1 /\ rstate' = state /\ received' = 0
        /\ retry_counter' = ReadRetries
    BY <1>2 DEF FrameComplete, NextCall, StartCount
  <2>2. d \in Nat /\ d < CallsLeft
    BY ReadLeftIs, Numbers DEF CallsLeft
  <2>3. CallsLeft' = d
    <3>1. CallsLeft' = d - 0
      BY <2>1 DEF CallsLeft
    <3> HIDE DEF d
    <3> QED
      BY <2>2, <3>1
  <2> HIDE DEF d
  <2> QED
    BY <2>1, <2>2, <2>3, CallsWork
<1> QED
  BY <1>1, <1>2

LEMMA GotWorks ==
  ASSUME BoundsInv, ReaderOpen, NEW bytes \in Seq(AllBytes), Len(bytes) # 0, Got(bytes)
  PROVE  ReadLeft' < ReadLeft
<1> DEFINE all == SubSeq(buffer, 1, received) \o bytes
<1>1. CASE Len(bytes) < Missing
  <2> DEFINE n == Len(bytes)
  <2>1. received' = received + n /\ UNCHANGED <<rstate, retry_counter, delivered>>
    BY <1>1 DEF Got
  <2>2. n \in Nat /\ n # 0
    BY LenProperties
  <2> HIDE DEF n
  <2>3. retry_counter' = retry_counter - 0 /\ n + 0 > 0
    BY <2>1, <2>2, ReadLeftIs, Numbers
  <2> QED
    BY <2>1, <2>2, <2>3, CallWorks
<1>2. CASE ~(Len(bytes) < Missing)
  BY <1>2, HeaderWorks, FrameWorks DEF Got
<1> QED
  BY <1>1, <1>2

\* read_from_socket gets on with its frame, has a retry less, or gives up.
LEMMA ReaderWorks ==
  ASSUME BoundsInv, ReaderStep
  PROVE  /\ ReadLeft' < ReadLeft
         /\ interrupts' \in {interrupts, interrupts + 1}
<1>0. ReaderOpen /\ interrupts' \in {interrupts, interrupts + 1}
  BY DEF ReaderStep, Peek, PeekShort, Recv, RecvNothing, RecvInterrupted
<1>1. net \in Seq(AllBytes) /\ Len(net) \in Nat
  BY LenProperties DEF BoundsInv, TypeOK
<1>2. Missing \in Nat \ {0}
  <2>1. received \in Nat /\ received < Wanted
    BY <1>0, ReadLeftIs, FullFrameIs DEF BoundsInv, ReadInBounds
  <2>2. Wanted \in Nat
    BY TypeParts, WantedType DEF BoundsInv
  <2> QED
    BY <2>1, <2>2 DEF Missing
<1>3. ASSUME NEW k \in Nat \ {0}, k <= Len(net), Got(SubSeq(net, 1, k))
      PROVE  ReadLeft' < ReadLeft
  <2>1. k \in 0..Len(net)
    BY <1>1, <1>3
  <2>2. SubSeq(net, 1, k) \in Seq(AllBytes) /\ Len(SubSeq(net, 1, k)) = k
    BY <1>1, <2>1, PrefixOf
  <2> QED
    BY <1>0, <1>3, <2>2, GotWorks
<1>4. CASE Peek
  <2> DEFINE k == Least(Missing, Len(net))
  <2>1. Got(SubSeq(net, 1, k)) /\ net # <<>>
    BY <1>4 DEF Peek
  <2>2. Len(net) # 0
    BY <1>1, <2>1, EmptySeq
  <2>3. k \in Nat \ {0} /\ k <= Len(net)
    <3> HIDE DEF Missing
    <3> QED
      BY <1>1, <1>2, <2>2 DEF Least
  <2> HIDE DEF k
  <2> QED
    BY <1>0, <1>3, <2>1, <2>3
<1>5. CASE PeekShort
  <2>1. PICK k \in 1..Least(Missing - 1, Len(net)) : Got(SubSeq(net, 1, k))
    BY <1>5 DEF PeekShort
  <2>2. k \in Nat \ {0} /\ k <= Len(net)
    <3> HIDE DEF Missing
    <3> QED
      BY <1>1, <1>2, <2>1 DEF Least
  <2> QED
    BY <1>0, <1>3, <2>1, <2>2
<1>6. CASE Recv
  <2>1. PICK k \in 1..Least(Missing, Len(net)) : Got(SubSeq(net, 1, k))
    BY <1>6 DEF Recv
  <2>2. k \in Nat \ {0} /\ k <= Len(net)
    <3> HIDE DEF Missing
    <3> QED
      BY <1>1, <1>2, <2>1 DEF Least
  <2> QED
    BY <1>0, <1>3, <2>1, <2>2
<1>7. CASE RecvNothing
  <2>1. CASE ReadFailed
    BY <1>0, <2>1, FailedWorks
  <2>2. CASE ~ReadFailed
    <3>1. retry_counter' = retry_counter - 1 /\ UNCHANGED <<rstate, received, delivered>>
      BY <1>7, <2>2 DEF RecvNothing
    <3>2. received' = received + 0
      BY <1>0, <3>1, ReadLeftIs, FullFrameIs
    <3> QED
      BY <1>0, <3>1, <3>2, CallWorks
  <2> QED
    BY <1>0, <2>1, <2>2
<1>8. CASE RecvInterrupted
  <2>1. retry_counter + 1 > MaxReadRetry
    BY <1>8, Numbers DEF RecvInterrupted, BoundsInv, ReaderInv
  <2>2. ReadFailed
    BY <1>8, <2>1 DEF RecvInterrupted
  <2> QED
    BY <1>0, <2>2, FailedWorks
<1> QED
  BY <1>0, <1>4, <1>5, <1>6, <1>7, <1>8 DEF ReaderStep

LEMMA InterruptsLeft ==
  ASSUME NEW j \in 0..MaxInterrupts, NEW k \in 0..MaxInterrupts
  PROVE  /\ MaxInterrupts - j \in Nat /\ MaxInterrupts - k \in Nat
         /\ k = j + 1 => MaxInterrupts - k = MaxInterrupts - j - 1
BY Numbers

\* Every system call of either loop leaves less to do, for streams, frames and
\* buffers of any size and any limits: an undisturbed call comes closer to the end of
\* its frame, an interrupted one uses up a retry, and no run of the two is longer than
\* what WorkLeft says at its start.
THEOREM CallsCount == Spec => EveryCallCounts
<1>1. BoundsInv /\ BoundsInv' /\ [Next]_vars => [WorkLeft' \in 0..(WorkLeft - 1)]_vars
  <2> SUFFICES ASSUME BoundsInv, BoundsInv', [Next]_vars, ~UNCHANGED vars
               PROVE  WorkLeft' \in 0..(WorkLeft - 1)
    OBVIOUS
  <2> DEFINE w == WriteLeft
             r == ReadLeft
             i == MaxInterrupts - interrupts
             ww == WriteLeft'
             rr == ReadLeft'
             ii == MaxInterrupts - interrupts'
  <2>1. w \in Nat /\ r \in Nat /\ ww \in Nat /\ rr \in Nat
    BY WriteLeftIs, WriteLeftThen, ReadLeftIs, ReadLeftThen
  <2>2. interrupts \in 0..MaxInterrupts /\ interrupts' \in 0..MaxInterrupts
    BY DEF BoundsInv, TypeOK
  <2>3. i \in Nat /\ ii \in Nat
    BY <2>2, InterruptsLeft
  <2>4. WorkLeft = w + r + i /\ WorkLeft' = ww + rr + ii
    BY DEF WorkLeft
  <2>5. CASE WriterStep
    <3>1. rr = r
      BY <2>5, WriterKeeps DEF ReadLeft, ReaderOpen, CallsLeft, FullFrame, readVars
    <3>2. (ww < w /\ interrupts' = interrupts) \/ (ww <= w /\ interrupts' = interrupts + 1)
      BY <2>5, WriterWorks
    <3>3. (ww < w /\ ii = i) \/ (ww <= w /\ ii = i - 1)
      BY <2>2, <3>2, InterruptsLeft
    <3> HIDE DEF w, r, i, ww, rr, ii, WorkLeft
    <3> QED
      BY <2>1, <2>3, <2>4, <3>1, <3>3
  <2>6. CASE ReaderStep
    <3>1. ww = w
      BY <2>6, ReaderKeeps DEF WriteLeft, SenderGone, FullFrame, writeVars
    <3>2. rr < r /\ interrupts' \in {interrupts, interrupts + 1}
      BY <2>6, ReaderWorks
    <3>3. ii = i \/ ii = i - 1
      BY <2>2, <3>2, InterruptsLeft
    <3> HIDE DEF w, r, i, ww, rr, ii, WorkLeft
    <3> QED
      BY <2>1, <2>3, <2>4, <3>1, <3>2, <3>3
  <2> QED
    BY <2>5, <2>6, Sides
<1> QED
  BY <1>1, BoundsKept, PTL DEF Spec, EveryCallCounts
=============================================================================
