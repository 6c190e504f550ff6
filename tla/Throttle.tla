------------------------------ MODULE Throttle ------------------------------
(***************************************************************************)
(* The bandwidth limit of xcc, -b: how sendFile of xcc_protocol_handler.hpp *)
(* spreads the data frames of a file over buckets of time.  SendLoop puts  *)
(* it together with what the loop does to a frame.                         *)
(***************************************************************************)
EXTENDS Integers

CONSTANTS
  Bandwidths,  \* what the user asks for, in bytes per second; 0 is no limit
  Buckets,     \* BUCKETS_PER_SEC
  Bucket,      \* length of a bucket, 1000000 / BUCKETS_PER_SEC microseconds
  FrameBytes,  \* MAX_DATA_FRAME_SIZE
  IntSpan,     \* 2^32, the values of an int or a uint32_t
  MaxClock     \* bound: the time of the loop

ASSUME BandwidthsAssumption ==
  /\ Bandwidths \subseteq Nat
  /\ Buckets \in Nat \ {0} /\ Bucket \in Nat \ {0} /\ FrameBytes \in Nat \ {0}
  /\ IntSpan \in Nat /\ IntSpan % 2 = 0 /\ IntSpan > 2 * FrameBytes
  /\ MaxClock \in Nat

VARIABLES
  bandwidth,
  clock,        \* time since the loop began
  start_time,   \* of the bucket
  frameBudget,  \* frames left in the bucket
  passed,       \* frames the limit has let pass
  asleep        \* in tool::sleep

throttleVars == <<bandwidth, clock, start_time, frameBudget, passed, asleep>>

-----------------------------------------------------------------------------
\* `int bytesPerBucket = info.bandwidth / BUCKETS_PER_SEC', from 64 bits
bytesPerBucket ==
  LET low == (bandwidth \div Buckets) % IntSpan
  IN  IF low < IntSpan \div 2 THEN low ELSE low - IntSpan

\* `framesPerBucket = bytesPerBucket / MAX_DATA_FRAME_SIZE', rounded towards 0 and
\* stored in a uint32_t
framesPerBucket ==
  IF bytesPerBucket >= 0 THEN bytesPerBucket \div FrameBytes
  ELSE (IntSpan - (-bytesPerBucket) \div FrameBytes) % IntSpan

\* main refuses what is below one frame per second, sendFile what is below one
\* frame per bucket.
Accepted == bandwidth = 0 \/ bandwidth >= FrameBytes
TooLow   == bandwidth # 0 /\ framesPerBucket = 0

\* Without a limit framesPerBucket stays 0, as it does when it is too low.
Limited == bandwidth # 0

\* slip: the budget is left at what `frameBudget--' made of 0
Refill_wrapped == start_time' = clock /\ frameBudget' = IntSpan - 1
\* slip: the new bucket keeps the start of the old one
Refill_keepStart == UNCHANGED start_time /\ frameBudget' = framesPerBucket
\* The next bucket begins, and the wrap of the unsigned budget at 0 is undone.
Refill == start_time' = clock /\ frameBudget' = framesPerBucket

\* `duration.count() < bucket' does not hold
InTime == clock - start_time >= Bucket

\* A frame has been sent.  If the bucket was empty before, wait for its end and
\* start the next one.
FramePassed ==
  /\ ~asleep
  /\ passed' = passed + 1
  /\ IF ~Limited THEN UNCHANGED <<start_time, frameBudget, asleep>>
     ELSE IF frameBudget # 0
          THEN frameBudget' = frameBudget - 1 /\ UNCHANGED <<start_time, asleep>>
     ELSE IF InTime THEN Refill /\ UNCHANGED asleep
          ELSE asleep' = TRUE /\ UNCHANGED <<start_time, frameBudget>>
  /\ UNCHANGED <<bandwidth, clock>>

WakeUp ==
  /\ asleep /\ InTime
  /\ asleep' = FALSE
  /\ Refill
  /\ UNCHANGED <<bandwidth, clock, passed>>

Tick ==
  /\ clock < MaxClock
  /\ clock' = clock + 1
  /\ UNCHANGED <<bandwidth, start_time, frameBudget, passed, asleep>>

\* The loop begins: the time is counted from there.
StartOfLoop ==
  /\ clock = 0 /\ start_time = 0
  /\ frameBudget = (IF Limited THEN framesPerBucket ELSE 0)
  /\ passed = 0 /\ asleep = FALSE

ThrottleInit == bandwidth \in Bandwidths /\ Accepted /\ ~TooLow /\ StartOfLoop

ThrottleNext == FramePassed \/ WakeUp \/ Tick

ThrottleSpec == ThrottleInit /\ [][ThrottleNext]_throttleVars

-----------------------------------------------------------------------------
ThrottleTypeOK ==
  /\ bandwidth \in Bandwidths
  /\ clock \in 0..MaxClock /\ start_time \in 0..clock
  /\ frameBudget \in 0..(IF Limited THEN framesPerBucket ELSE 0)
  /\ passed \in Nat /\ asleep \in BOOLEAN

\* The bytes a bucket holds fit into an int.
Sane == bandwidth \div Buckets < IntSpan \div 2

\* Whatever the network does to the pace of the frames, the limit never lets more
\* pass than twice what the user asked for, for the buckets that have begun.  (One
\* frame more than the budget passes in each, and the budget may be one frame.)
RateBound ==
  Limited /\ Sane =>
    passed * FrameBytes <= 2 * (bandwidth \div Buckets) * (clock \div Bucket + 1)
=============================================================================
