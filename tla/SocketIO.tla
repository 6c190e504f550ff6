------------------------------ MODULE SocketIO ------------------------------
(***************************************************************************)
(* One direction of a connection, byte by byte: write_to_socket and        *)
(* read_from_socket of xchange.hpp, one system call per step, and the      *)
(* reads ReadDataFrame of socketIO_handler.hpp makes of a frame.  Byte p   *)
(* of frame f is <<f, p>>; what the bytes say is left out, except for the  *)
(* sizes in the headers of plain frames.                                   *)
(***************************************************************************)
EXTENDS Integers, Sequences

CONSTANTS
  NFrames,        \* bound: frames of the stream, the last of which is the EOT frame
  HeaderSize,     \* DATA_FRAME_HEADER_SIZE
  MaxData,        \* MAX_DATA_BLOCK_SIZE
  Queue,          \* half the send buffer of the socket, what is written at once
  Cap,            \* bytes the buffers of the connection hold
  MaxResend,      \* MAX_RESEND
  MaxSendRetry,   \* MAX_SEND_RETRY_ON_ERR
  MaxReadRetry,   \* MAX_READ_RETRY_ON_ERR
  ReadRetries,    \* (1000 / THREAD_PAUSE_TIME_MS) * SOCKET_RCVTIMEO_SEC
  MaxInterrupts   \* bound: signals and timeouts that break a call off

ASSUME SizesAssumption ==
  /\ NFrames \in Nat \ {0} /\ HeaderSize \in Nat \ {0} /\ MaxData \in Nat \ {0}
  /\ Queue \in Nat \ {0} /\ Cap \in Nat /\ Cap >= HeaderSize

ASSUME RetriesAssumption ==
  /\ MaxResend \in Nat /\ MaxSendRetry \in Nat /\ MaxReadRetry \in Nat
  /\ MaxInterrupts \in Nat
  /\ ReadRetries \in Nat /\ ReadRetries >= MaxReadRetry /\ ReadRetries > 0

VARIABLES
  encrypted,   \* the frames are encrypted, and all have the full size
  size,        \* data_size of each frame
  \* write_to_socket
  wstate,      \* "idle" between two calls, "writing", "closed"
  sent,        \* frames written completely
  at_once,     \* write_at_once
  bytes_sent,
  resend_count,
  retry_count_err,
  \* the connection
  net,         \* bytes on their way
  interrupts,  \* broken-off calls so far
  disturbed,   \* the reader was broken off, or bytes were lost
  \* read_from_socket and ReadDataFrame
  rstate,      \* "header", "frame", "done", "failed"
  buffer,      \* what the current call has put where it reads to
  received,    \* received_bytes
  retry_counter,
  data_header, \* the header, once it is complete
  data_size,   \* what it says
  delivered    \* frames taken over

writeVars == <<wstate, sent, at_once, bytes_sent, resend_count, retry_count_err>>
readVars  == <<rstate, buffer, received, retry_counter, data_header, data_size, delivered>>
vars      == <<encrypted, size, writeVars, net, interrupts, disturbed, readVars>>

Least(a, b) == IF a <= b THEN a ELSE b

Bytes(f, from, to) == [i \in 1..(to - from + 1) |-> <<f, from + i - 1>>]
FrameSize(f) == HeaderSize + (IF encrypted THEN MaxData ELSE size[f])
Header(f)    == Bytes(f, 1, HeaderSize)

SenderGone   == wstate = "closed"
ReaderOpen   == rstate \in {"header", "frame"}

-----------------------------------------------------------------------------
(* write_to_socket *)

\* SendDataBuffer.  The size of the send buffer is kept unsigned, so that the
\* test for an error never holds and a failed getsockopt means no limit at all.
StartWrite ==
  /\ wstate = "idle" /\ sent < NFrames
  /\ wstate' = "writing"
  /\ at_once' \in {Least(FrameSize(sent + 1), Queue), FrameSize(sent + 1)}
  /\ bytes_sent' = 0 /\ resend_count' = 0 /\ retry_count_err' = 0
  /\ UNCHANGED <<encrypted, size, sent, net, interrupts, disturbed, readVars>>

Remaining == FrameSize(sent + 1) - bytes_sent

\* slip: the position in the buffer is not advanced
Piece_again(k) == Bytes(sent + 1, 1, k)
Piece(k) == Bytes(sent + 1, bytes_sent + 1, bytes_sent + k)

\* slip: a client that tries a frame again after a part of it went out
GivenUp_again == "idle"
\* sendFile and sendMessage return, and the client closes the connection.
GivenUp == "closed"

\* write() takes k bytes.  The frame is complete, or the call goes on, unless it
\* has been resumed too often: it fails with a part of the frame on its way.  What
\* is written to a server that has closed is lost.
Write(k) ==
  /\ ReaderOpen => Len(net) + k <= Cap
  /\ net' = IF ReaderOpen THEN net \o Piece(k) ELSE net
  /\ IF k = Remaining
     THEN /\ sent' = sent + 1 /\ wstate' = "idle"
          /\ bytes_sent' = 0 /\ UNCHANGED resend_count
     ELSE /\ bytes_sent' = bytes_sent + k
          /\ resend_count' = resend_count + 1
          /\ wstate' = IF resend_count' > MaxResend THEN GivenUp ELSE "writing"
          /\ UNCHANGED sent
  /\ UNCHANGED <<encrypted, size, at_once, retry_count_err, interrupts, disturbed, readVars>>

\* EAGAIN, EWOULDBLOCK or EINTR
WriteInterrupted ==
  /\ wstate = "writing" /\ interrupts < MaxInterrupts
  /\ interrupts' = interrupts + 1
  /\ retry_count_err' = retry_count_err + 1
  /\ wstate' = IF retry_count_err' > MaxSendRetry THEN GivenUp ELSE "writing"
  /\ UNCHANGED <<encrypted, size, sent, at_once, bytes_sent, resend_count, net, disturbed, readVars>>

\* EPIPE, ECONNRESET: the server has closed
WriteBroken ==
  /\ wstate = "writing" /\ ~ReaderOpen
  /\ wstate' = GivenUp
  /\ UNCHANGED <<encrypted, size, sent, at_once, bytes_sent, resend_count, retry_count_err,
                 net, interrupts, disturbed, readVars>>

\* The connection is closed, or reset, which destroys what is on its way.
HangUp ==
  /\ wstate' = "closed"
  /\ \/ UNCHANGED <<net, disturbed>>
     \/ net' = <<>> /\ disturbed' = TRUE
  /\ UNCHANGED <<encrypted, size, sent, at_once, bytes_sent, resend_count, retry_count_err,
                 interrupts, readVars>>

\* The client waits for the final ACK, and for no longer than 5 s.
Finish == wstate = "idle" /\ sent = NFrames /\ HangUp

\* The client is killed, or its host goes away.
Crash == ~SenderGone /\ HangUp

WriteStep ==
  \/ StartWrite
  \/ /\ wstate = "writing"
     /\ \E k \in 1..Least(at_once, Remaining) : Write(k)
  \/ WriteBroken
  \/ Finish

-----------------------------------------------------------------------------
(* read_from_socket, as ReadDataFrame calls it *)

\* slip: a counter that starts at nothing, and counts errors only
StartCount_zero == 0
\* retry_counter counts down for empty reads, and up for errors.
StartCount == ReadRetries

\* A plain header is only looked at, with MSG_PEEK, and read again with its data.
Peeking == rstate = "header" /\ ~encrypted
Wanted  == IF Peeking THEN HeaderSize
           ELSE HeaderSize + (IF encrypted THEN MaxData ELSE data_size)
Missing == Wanted - received

\* VerifyDataFrame or the MAC: the number of the next frame, and its data as it
\* was sent.  The header of a plain frame is the one that was looked at.
Verified(bytes) ==
  LET f == delivered + 1 IN
  IF encrypted THEN bytes = Bytes(f, 1, FrameSize(f))
  ELSE /\ data_header = Header(f)
       /\ SubSeq(bytes, HeaderSize + 1, Len(bytes)) = Bytes(f, HeaderSize + 1, FrameSize(f))

\* The next call of read_from_socket, or none
NextCall(state) ==
  /\ rstate' = state
  /\ buffer' = <<>> /\ received' = 0 /\ retry_counter' = StartCount

ReadFailed ==
  NextCall("failed") /\ data_header' = <<>> /\ data_size' = 0 /\ UNCHANGED delivered

\* The header decides how much is read next.  One put together from two looks at
\* the same bytes may say anything; if it asks for too much, nothing is read and
\* VerifyDataFrame rejects it.
HeaderComplete(bytes) ==
  \E n \in IF \E f \in 1..NFrames : bytes = Header(f)
           THEN { size[f] : f \in {g \in 1..NFrames : bytes = Header(g)} }
           ELSE 0..(MaxData + 1) :
    IF n > MaxData THEN ReadFailed
    ELSE /\ NextCall("frame")
         /\ data_header' = bytes /\ data_size' = n
         /\ UNCHANGED delivered

FrameComplete(bytes) ==
  IF Verified(bytes)
  THEN /\ delivered' = delivered + 1
       /\ NextCall(IF delivered' = NFrames THEN "done" ELSE "header")
       /\ data_header' = <<>> /\ data_size' = 0
  ELSE ReadFailed

\* recv() returns some bytes, put behind those received before.
Got(bytes) ==
  LET all == SubSeq(buffer, 1, received) \o bytes IN
  IF Len(bytes) < Missing
  THEN /\ buffer' = all /\ received' = received + Len(bytes)
       /\ UNCHANGED <<rstate, retry_counter, data_header, data_size, delivered>>
  ELSE IF Peeking THEN HeaderComplete(all) ELSE FrameComplete(all)

\* MSG_WAITALL: all that is asked for, or what is left once the sender is gone
Peek ==
  /\ ReaderOpen /\ Peeking /\ net # <<>>
  /\ Len(net) >= Missing \/ SenderGone
  /\ Got(SubSeq(net, 1, Least(Missing, Len(net))))
  /\ UNCHANGED <<encrypted, size, writeVars, net, interrupts, disturbed>>

\* A signal ends the look before all bytes are there.  The loop then looks again,
\* at the same bytes, and puts them behind the first ones.
PeekShort ==
  /\ ReaderOpen /\ Peeking /\ interrupts < MaxInterrupts
  /\ \E k \in 1..Least(Missing - 1, Len(net)) : Got(SubSeq(net, 1, k))
  /\ interrupts' = interrupts + 1 /\ disturbed' = TRUE
  /\ UNCHANGED <<encrypted, size, writeVars, net>>

\* The kernel hands over what is there, piece by piece; a signal in between does
\* no harm.
Recv ==
  /\ ReaderOpen /\ ~Peeking
  /\ \E k \in 1..Least(Missing, Len(net)) :
       /\ Got(SubSeq(net, 1, k))
       /\ net' = SubSeq(net, k + 1, Len(net))
  /\ UNCHANGED <<encrypted, size, writeVars, interrupts, disturbed>>

\* slip: the counter is tested before it is decremented
TimedOut_late == retry_counter = 0
\* The counter is decremented, and then tested.
TimedOut == retry_counter = 1

\* recv() returns 0, or reports the reset once.
RecvNothing ==
  /\ ReaderOpen /\ net = <<>> /\ SenderGone
  /\ IF TimedOut \/ disturbed THEN ReadFailed
     ELSE /\ retry_counter' = retry_counter - 1
          /\ UNCHANGED <<rstate, buffer, received, data_header, data_size, delivered>>
  /\ UNCHANGED <<encrypted, size, writeVars, net, interrupts, disturbed>>

\* EAGAIN, EWOULDBLOCK or EINTR before anything could be read.  Within the limit
\* the call would go on with the return value -1 added to what it has received.
RecvInterrupted ==
  /\ ReaderOpen /\ net = <<>> /\ ~SenderGone /\ interrupts < MaxInterrupts
  /\ interrupts' = interrupts + 1 /\ disturbed' = TRUE
  /\ IF retry_counter + 1 > MaxReadRetry THEN ReadFailed
     ELSE /\ retry_counter' = retry_counter + 1
          /\ received' = received - 1
          /\ UNCHANGED <<rstate, buffer, data_header, data_size, delivered>>
  /\ UNCHANGED <<encrypted, size, writeVars, net>>

ReadStep == Peek \/ Recv \/ RecvNothing

-----------------------------------------------------------------------------
Init ==
  /\ encrypted \in BOOLEAN
  /\ size \in {s \in [1..NFrames -> 0..MaxData] : \A f \in 1..NFrames : s[f] = 0 <=> f = NFrames}
  /\ wstate = "idle" /\ sent = 0
  /\ at_once = 0 /\ bytes_sent = 0 /\ resend_count = 0 /\ retry_count_err = 0
  /\ net = <<>> /\ interrupts = 0 /\ disturbed = FALSE
  /\ rstate = "header" /\ buffer = <<>> /\ received = 0 /\ retry_counter = StartCount
  /\ data_header = <<>> /\ data_size = 0 /\ delivered = 0

Next ==
  \/ WriteStep \/ WriteInterrupted \/ Crash
  \/ ReadStep \/ PeekShort \/ RecvInterrupted

\* Both sides run, and the buffers move on.
Spec == Init /\ [][Next]_vars /\ WF_vars(WriteStep) /\ WF_vars(ReadStep)

-----------------------------------------------------------------------------
(* Properties *)

AllBytes == (1..NFrames) \X (1..(HeaderSize + MaxData))

\* The values the variables take: no call is resumed beyond its limits.
TypeOK ==
  /\ encrypted \in BOOLEAN /\ size \in [1..NFrames -> 0..MaxData]
  /\ wstate \in {"idle", "writing", "closed"} /\ sent \in 0..NFrames
  /\ at_once \in 0..(HeaderSize + MaxData) /\ bytes_sent \in 0..(HeaderSize + MaxData)
  /\ resend_count \in 0..(MaxResend + 1) /\ retry_count_err \in 0..(MaxSendRetry + 1)
  /\ net \in Seq(AllBytes) /\ Len(net) <= Cap
  /\ interrupts \in 0..MaxInterrupts /\ disturbed \in BOOLEAN
  /\ rstate \in {"header", "frame", "done", "failed"}
  /\ buffer \in Seq(AllBytes) /\ retry_counter \in 1..ReadRetries
  /\ data_header \in Seq(AllBytes) /\ data_size \in 0..MaxData
  /\ delivered \in 0..NFrames

\* read_from_socket writes behind what it has received, and within the buffer it
\* was given, whatever signals and timeouts break its calls off.
ReadInBounds ==
  /\ received = Len(buffer)
  /\ ReaderOpen => received < Wanted

\* The bytes of the first f frames
Stream[f \in 0..NFrames] ==
  IF f = 0 THEN <<>> ELSE Stream[f - 1] \o Bytes(f, 1, FrameSize(f))

\* While the reader is at it, the frames it has taken over, the bytes in its
\* buffer and those on their way make up what was written: nothing is skipped,
\* repeated or taken from beyond a frame.  What was only looked at does not count.
NothingSkipped ==
  ReaderOpen /\ ~(SenderGone /\ disturbed /\ net = <<>>) =>
    Stream[delivered] \o (IF Peeking THEN <<>> ELSE buffer) \o net
      = Stream[sent] \o Bytes(sent + 1, 1, bytes_sent)

\* What is left to do for the writer, for the reader, and to go wrong: bytes of
\* frames, calls of read_from_socket, bytes and empty reads of the current call.
FullFrame == HeaderSize + MaxData
WriteLeft ==
  IF SenderGone THEN 0
  ELSE (NFrames - sent) * (FullFrame + 1) - bytes_sent + (IF wstate = "idle" THEN 2 ELSE 1)
CallsLeft == 2 * (NFrames - delivered) - (IF rstate = "frame" THEN 1 ELSE 0)
ReadLeft ==
  IF ReaderOpen THEN CallsLeft * (FullFrame + ReadRetries) + (FullFrame - received) + retry_counter
  ELSE 0
WorkLeft == WriteLeft + ReadLeft + (MaxInterrupts - interrupts)

\* Neither loop spins: every system call gets on with its frame or uses up one of
\* the retries, and none gives back what the calls before it have achieved.
EveryCallCounts == [][WorkLeft' \in 0..(WorkLeft - 1)]_vars

\* Frames arrive whole and in order, a frame that could not be written completely
\* never arrives, all that were written arrive unless the reader is disturbed, and
\* the reader notices in the end that the sender is gone.
Link == INSTANCE FrameLink WITH
  writer <- IF SenderGone THEN "stopped" ELSE "open",
  reader <- IF ReaderOpen THEN "open" ELSE rstate

ImplementsFrameLink == Link!Spec
=============================================================================
