\* Three frames in pieces, with signals, timeouts, resets and ends at any byte
CONSTANTS
  NFrames = 3
  HeaderSize = 3
  MaxData = 2
  Queue = 4
  Cap = 5
  MaxResend = 2
  MaxSendRetry = 1
  MaxReadRetry = 2
  ReadRetries = 3
  MaxInterrupts = 3
SPECIFICATION Spec
INVARIANTS TypeOK ReadInBounds NothingSkipped
PROPERTIES ImplementsFrameLink EveryCallCounts
CHECK_DEADLOCK FALSE
