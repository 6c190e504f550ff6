--------------------------- MODULE ThrottleProofs ---------------------------
(***************************************************************************)
(* The bandwidth limit keeps its bound at every pace of the frames, for    *)
(* every limit the conversion to an int does not cut (Sane), and every     *)
(* frame size, bucket and width of an int.                                 *)
(*                                                                         *)
(* The argument counts buckets: begun(r) says that r buckets have ended,   *)
(* that each took its time, and that each let its whole budget and one     *)
(* frame more pass.                                                        *)
(***************************************************************************)
EXTENDS SendLoop, TLAPS

Budget == IF Limited THEN framesPerBucket ELSE 0

\* r buckets have ended, and what the limit let pass is theirs and what the
\* current one has spent
Begun(r) ==
  /\ r * Bucket <= start_time
  /\ passed = r * (Budget + 1) + (Budget - frameBudget) + (IF asleep THEN 1 ELSE 0)

BucketsCounted == Limited => \E r \in Nat : Begun(r)

\* Before the loop nothing has been counted yet.
Fresh == passed = 0 /\ clock = 0 /\ start_time = 0 /\ frameBudget = 0 /\ asleep = FALSE

Counting ==
  /\ ~TooLow
  /\ BucketsCounted
  /\ asleep => Limited /\ frameBudget = 0

\* The inductive invariant
ThrottleInv ==
  /\ ThrottleTypeOK
  /\ Fresh \/ Counting
  /\ step \in {"connect", "name"} => Fresh
  /\ step \in {"name", "loop"} => ~TooLow
  /\ step = "loop" => Counting

\* A limit of 0 is none, and any other one has a whole budget.
LEMMA BudgetType ==
  ASSUME bandwidth \in Bandwidths PROVE Budget \in Nat
<1> USE BandwidthsAssumption
<1> bandwidth \in Nat BY BandwidthsAssumption
<1> DEFINE low == (bandwidth \div Buckets) % IntSpan
<1>1. bandwidth \div Buckets \in Nat BY SMT
<1>2. low \in 0..(IntSpan - 1)
  <2> HIDE <1>1 DEF low
  <2> QED BY <1>1, SMT DEF low
<1>3. bytesPerBucket \in Int
  <2> HIDE DEF low
  <2>1. low \in Int /\ IntSpan \in Int BY <1>2, SMT
  <2>2. bytesPerBucket = IF low < IntSpan \div 2 THEN low ELSE low - IntSpan
    BY DEF bytesPerBucket, low
  <2> QED BY <2>1, <2>2, SMT
<1>4. framesPerBucket \in Nat
  <2> HIDE DEF low
  <2> DEFINE q == (-bytesPerBucket) \div FrameBytes
  <2>1. CASE bytesPerBucket >= 0
    BY <1>3, <2>1, SMT DEF framesPerBucket
  <2>2. CASE ~(bytesPerBucket >= 0)
    <3>1. q \in Int BY <1>3, SMT
    <3>2. framesPerBucket = (IntSpan - q) % IntSpan BY <2>2 DEF framesPerBucket
    <3> HIDE DEF q
    <3> QED BY <3>1, <3>2, SMT
  <2> QED BY <2>1, <2>2
<1> QED BY <1>4, SMT DEF Budget

-----------------------------------------------------------------------------
(* Arithmetic *)

LEMMA Products ==
  ASSUME NEW a \in Nat, NEW b \in Nat, NEW c \in Nat, a <= b
  PROVE  a * c \in Nat /\ b * c \in Nat /\ a * c <= b * c
BY SMT

LEMMA QuotientBound ==
  ASSUME NEW n \in Nat, NEW d \in Nat \ {0}
  PROVE  n \div d \in Nat /\ (n \div d) * d <= n
BY SMT

LEMMA QuotientLargest ==
  ASSUME NEW n \in Nat, NEW d \in Nat \ {0}, NEW r \in Nat, r * d <= n
  PROVE  r <= n \div d
BY SMT

\* r + 1 buckets of one frame more than the budget, against the bytes asked for
LEMMA RateArithmetic ==
  ASSUME NEW r \in Nat, NEW c \in Nat, r <= c, NEW F \in Nat, F >= 1,
         NEW n \in Nat, n <= (r + 1) * (F + 1),
         NEW size \in Nat, NEW bytes \in Nat, F * size <= bytes
  PROVE  n * size <= 2 * bytes * (c + 1)
<1>1. (r + 1) * (F + 1) <= (c + 1) * (F + 1) BY Products, SMT
<1>2. (F + 1) * (c + 1) <= (2 * F) * (c + 1)
  <2>1. F + 1 \in Nat /\ 2 * F \in Nat /\ c + 1 \in Nat /\ F + 1 <= 2 * F BY SMT
  <2> QED BY <2>1, Products
<1>3. n <= 2 * F * (c + 1) BY <1>1, <1>2, SMT
<1>4. n * size <= (2 * F * (c + 1)) * size
  <2>1. 2 * F * (c + 1) \in Nat BY SMT
  <2> QED BY <1>3, <2>1, Products
<1>5. (F * size) * (2 * (c + 1)) <= bytes * (2 * (c + 1))
  <2>1. F * size \in Nat /\ 2 * (c + 1) \in Nat BY SMT
  <2> QED BY <2>1, Products
<1> QED BY <1>4, <1>5, SMT

\* What a bucket that ends adds to the count
LEMMA NextBucket ==
  ASSUME NEW r \in Nat, NEW d \in Nat, NEW t \in Nat, NEW c \in Nat, NEW F \in Nat,
         r * d <= t, c - t >= d
  PROVE  /\ (r + 1) * d <= c
         /\ r * (F + 1) + F + 1 = (r + 1) * (F + 1)
<1>1. (r + 1) * d = r * d + d /\ r * d \in Nat BY SMT
<1>2. (r + 1) * (F + 1) = r * (F + 1) + (F + 1) /\ r * (F + 1) \in Nat BY SMT
<1> QED BY <1>1, <1>2, SMT

-----------------------------------------------------------------------------
(* The invariant *)

\* What a step that keeps the limit's variables keeps
Kept == UNCHANGED throttleVars

LEMMA KeptAll ==
  ASSUME Kept
  PROVE  /\ ThrottleTypeOK' = ThrottleTypeOK
         /\ Fresh' = Fresh /\ Counting' = Counting /\ TooLow' = TooLow
BY DEF Kept, throttleVars, ThrottleTypeOK, Fresh, Counting, TooLow, BucketsCounted,
       Begun, Budget, Limited, framesPerBucket, bytesPerBucket

\* The settings of a transfer that begins
LEMMA FreshType == bandwidth \in Bandwidths /\ Fresh => ThrottleTypeOK
<1> SUFFICES ASSUME bandwidth \in Bandwidths, Fresh PROVE ThrottleTypeOK OBVIOUS
<1>1. Budget \in Nat BY BudgetType
<1>2. 0 \in 0..MaxClock /\ 0 \in 0..0 /\ 0 \in 0..Budget
  BY <1>1, BandwidthsAssumption, SMT
<1>3. 0 \in Nat /\ FALSE \in BOOLEAN OBVIOUS
<1> QED BY <1>2, <1>3 DEF ThrottleTypeOK, Fresh, Budget

LEMMA FreshPrimed == (bandwidth \in Bandwidths /\ Fresh)' => ThrottleTypeOK'
BY FreshType, PTL

LEMMA InitThrottle == Init => ThrottleInv
<1> SUFFICES ASSUME Init PROVE ThrottleInv OBVIOUS
<1>1. bandwidth \in Bandwidths /\ Fresh /\ step = "connect"
  BY DEF Init, Settings, Fresh
<1> QED BY <1>1, FreshType DEF ThrottleInv

\* The loop begins with a whole budget.
LEMMA LoopBegins ==
  ASSUME ThrottleInv, SendName
  PROVE  ThrottleTypeOK' /\ Counting'
<1>1. Budget \in Nat BY BudgetType DEF ThrottleInv, ThrottleTypeOK
<1>2. Budget' = Budget /\ Limited' = Limited /\ TooLow' = TooLow
  BY DEF SendName, Budget, Limited, TooLow, framesPerBucket, bytesPerBucket
<1>3. Fresh /\ ~TooLow BY DEF ThrottleInv, SendName
<1>4. frameBudget' = Budget BY DEF SendName, Budget
<1>5. ThrottleTypeOK'
  <2>1. /\ bandwidth' = bandwidth /\ clock' = clock /\ start_time' = start_time
        /\ passed' = passed /\ asleep' = asleep
    BY DEF SendName
  <2>2. frameBudget' \in 0..Budget' BY <1>1, <1>2, <1>4, SMT
  <2> QED BY <2>1, <2>2 DEF ThrottleInv, ThrottleTypeOK, Budget
<1>6. Begun(0)'
  <2>1. start_time' = 0 /\ passed' = 0 /\ ~asleep' BY <1>3 DEF SendName, Fresh
  <2>2. 0 * Bucket <= 0 /\ 0 = 0 * (Budget + 1) + (Budget - Budget) + 0
    BY <1>1, BandwidthsAssumption, SMT
  <2> QED BY <2>1, <2>2, <1>2, <1>4 DEF Begun
<1>7. BucketsCounted' BY <1>6 DEF BucketsCounted
<1> QED BY <1>2, <1>3, <1>5, <1>7 DEF Counting, SendName, Fresh

\* A bucket ends: after its last frame, or after the sleep that followed it.
LEMMA BucketEnds ==
  ASSUME ThrottleTypeOK, Counting, Limited, frameBudget = 0, InTime, Refill,
         UNCHANGED <<bandwidth, clock>>, asleep' = FALSE,
         passed' = passed + (IF asleep THEN 0 ELSE 1)
  PROVE  ThrottleTypeOK' /\ Counting'
<1>1. Budget \in Nat BY BudgetType DEF ThrottleTypeOK
<1>2. Budget' = Budget /\ Limited' /\ TooLow' = TooLow
  BY DEF Budget, Limited, TooLow, framesPerBucket, bytesPerBucket
<1>3. frameBudget' = Budget BY DEF Refill, Budget
<1>4. /\ clock \in Nat /\ start_time \in Nat /\ passed \in Nat /\ asleep \in BOOLEAN
      /\ clock \in 0..MaxClock /\ Bucket \in Nat
  BY BandwidthsAssumption, SMT DEF ThrottleTypeOK
<1>5. ThrottleTypeOK'
  <2>1. frameBudget' \in 0..Budget' BY <1>1, <1>2, <1>3, SMT
  <2>2. start_time' \in 0..clock' BY <1>4, SMT DEF Refill
  <2>3. passed' \in Nat BY <1>4, SMT
  <2> QED BY <2>1, <2>2, <2>3 DEF ThrottleTypeOK, Budget
<1>6. PICK r \in Nat : Begun(r) BY DEF Counting, BucketsCounted
<1>7. Begun(r + 1)'
  <2>1. clock - start_time >= Bucket /\ r * Bucket <= start_time
    BY <1>6 DEF InTime, Begun
  <2>2. /\ (r + 1) * Bucket <= clock
        /\ r * (Budget + 1) + Budget + 1 = (r + 1) * (Budget + 1)
    BY <2>1, <1>1, <1>4, NextBucket
  <2>3. r * (Budget + 1) \in Nat BY <1>1, SMT
  <2>4. passed' = r * (Budget + 1) + Budget + 1
    <3>1. CASE asleep
      <4>1. passed = r * (Budget + 1) + (Budget - 0) + 1 BY <1>6, <3>1 DEF Begun
      <4>2. passed' = passed + 0 BY <3>1
      <4> QED BY <4>1, <4>2, <2>3, <1>1, <1>4, SMT
    <3>2. CASE ~asleep
      <4>1. passed = r * (Budget + 1) + (Budget - 0) + 0 BY <1>6, <3>2 DEF Begun
      <4>2. passed' = passed + 1 BY <3>2
      <4> QED BY <4>1, <4>2, <2>3, <1>1, <1>4, SMT
    <3> QED BY <3>1, <3>2
  <2>5. (r + 1) * (Budget + 1) \in Nat BY <2>2, <2>3, <1>1, SMT
  <2>6. passed' = (r + 1) * (Budget + 1) + (Budget - Budget) + 0
    BY <2>2, <2>4, <2>5, <1>1, SMT
  <2> QED BY <2>2, <2>6, <1>2, <1>3 DEF Begun, Refill
<1>8. BucketsCounted'
  <2>1. r + 1 \in Nat BY SMT
  <2> QED BY <2>1, <1>7 DEF BucketsCounted
<1> QED BY <1>2, <1>5, <1>8 DEF Counting

LEMMA FramePassedKeeps ==
  ASSUME ThrottleTypeOK, Counting, FramePassed
  PROVE  ThrottleTypeOK' /\ Counting'
<1>1. Budget \in Nat BY BudgetType DEF ThrottleTypeOK
<1>2. Budget' = Budget /\ Limited' = Limited /\ TooLow' = TooLow
  BY DEF FramePassed, Budget, Limited, TooLow, framesPerBucket, bytesPerBucket
<1>3. ~asleep /\ passed' = passed + 1 /\ bandwidth' = bandwidth /\ clock' = clock
  BY DEF FramePassed
<1>4. passed \in Nat /\ passed' \in Nat /\ frameBudget \in 0..Budget
  BY <1>3, SMT DEF ThrottleTypeOK, Budget
<1>5. CASE ~Limited
  <2>1. UNCHANGED <<start_time, frameBudget, asleep>> BY <1>5 DEF FramePassed
  <2>2. ThrottleTypeOK' BY <2>1, <1>2, <1>3, <1>4 DEF ThrottleTypeOK, Budget
  <2> QED BY <2>1, <2>2, <1>2, <1>3, <1>5 DEF Counting, BucketsCounted
<1>6. CASE Limited /\ frameBudget # 0
  <2>1. frameBudget' = frameBudget - 1 /\ UNCHANGED <<start_time, asleep>>
    BY <1>6 DEF FramePassed
  <2>2. frameBudget' \in 0..Budget' BY <2>1, <1>1, <1>2, <1>4, <1>6, SMT
  <2>3. ThrottleTypeOK' BY <2>1, <2>2, <1>3, <1>4 DEF ThrottleTypeOK, Budget
  <2>4. PICK r \in Nat : Begun(r) BY <1>6 DEF Counting, BucketsCounted
  <2>5. Begun(r)'
    <3>1. r * (Budget + 1) \in Nat BY <1>1, SMT
    <3>2. passed = r * (Budget + 1) + (Budget - frameBudget) + 0 BY <2>4, <1>3 DEF Begun
    <3>3. passed' = r * (Budget + 1) + (Budget - frameBudget') + 0
      BY <3>1, <3>2, <2>1, <1>1, <1>3, <1>4, SMT
    <3> QED BY <3>3, <2>1, <2>4, <1>2, <1>3 DEF Begun
  <2>6. BucketsCounted' BY <2>5 DEF BucketsCounted
  <2> QED BY <2>1, <2>3, <2>6, <1>2, <1>3 DEF Counting
<1>7. CASE Limited /\ frameBudget = 0 /\ InTime
  <2>1. Refill /\ UNCHANGED asleep BY <1>7 DEF FramePassed
  <2>2. asleep' = FALSE BY <2>1, <1>3 DEF ThrottleTypeOK
  <2>3. passed' = passed + (IF asleep THEN 0 ELSE 1) BY <1>3
  <2> QED BY <2>1, <2>2, <2>3, <1>3, <1>7, BucketEnds
<1>8. CASE Limited /\ frameBudget = 0 /\ ~InTime
  <2>1. asleep' = TRUE /\ UNCHANGED <<start_time, frameBudget>>
    BY <1>8 DEF FramePassed
  <2>2. ThrottleTypeOK' BY <2>1, <1>2, <1>3, <1>4 DEF ThrottleTypeOK, Budget
  <2>3. PICK r \in Nat : Begun(r) BY <1>8 DEF Counting, BucketsCounted
  <2>4. Begun(r)'
    <3>1. r * (Budget + 1) \in Nat BY <1>1, SMT
    <3>2. passed = r * (Budget + 1) + (Budget - 0) + 0 BY <2>3, <1>3, <1>8 DEF Begun
    <3>3. passed' = r * (Budget + 1) + (Budget - 0) + 1
      BY <3>1, <3>2, <1>1, <1>3, <1>4, SMT
    <3> QED BY <3>3, <2>1, <2>3, <1>2, <1>8 DEF Begun
  <2>5. BucketsCounted' BY <2>4 DEF BucketsCounted
  <2> QED BY <2>1, <2>2, <2>5, <1>2, <1>8 DEF Counting
<1> QED BY <1>5, <1>6, <1>7, <1>8

LEMMA TickKeeps ==
  ASSUME ThrottleTypeOK, Counting, Tick
  PROVE  ThrottleTypeOK' /\ Counting'
<1>1. UNCHANGED <<bandwidth, start_time, frameBudget, passed, asleep>> BY DEF Tick
<1>2. clock' \in 0..MaxClock /\ start_time \in 0..clock'
  BY BandwidthsAssumption, SMT DEF Tick, ThrottleTypeOK
<1>3. Limited' = Limited /\ TooLow' = TooLow /\ framesPerBucket' = framesPerBucket
  BY <1>1 DEF Limited, TooLow, framesPerBucket, bytesPerBucket
<1> QED BY <1>1, <1>2, <1>3
        DEF ThrottleTypeOK, Counting, BucketsCounted, Begun, Budget

LEMMA NextThrottle == ThrottleInv /\ [Next]_vars => ThrottleInv'
<1> SUFFICES ASSUME ThrottleInv, [Next]_vars PROVE ThrottleInv' OBVIOUS
<1> USE DEF ThrottleInv
<1>1. CASE Connect
  <2>1. Kept /\ step' = step BY <1>1 DEF Connect, Kept
  <2> QED BY <2>1, KeptAll
<1>2. CASE OpenFile
  <2>1. Kept /\ step = "connect" BY <1>2 DEF OpenFile, Kept
  <2>2. step' = (IF TooLow THEN "done" ELSE "name") BY <1>2 DEF OpenFile
  <2> QED BY <2>1, <2>2, KeptAll
<1>3. CASE SendName
  BY <1>3, LoopBegins DEF SendName, Counting
<1>4. CASE SendBlock
  <2>1. step' = "loop" /\ Counting /\ FramePassed BY <1>4 DEF SendBlock
  <2> QED BY <2>1, FramePassedKeeps DEF Counting
<1>5. CASE PassTime
  <2>1. step' = "loop" /\ Counting /\ Limited BY <1>5 DEF PassTime
  <2>2. ThrottleTypeOK' /\ Counting'
    <3>1. CASE Tick BY <2>1, <3>1, TickKeeps
    <3>2. CASE WakeUp
      <4>1. passed \in Nat BY DEF ThrottleTypeOK
      <4>2. asleep /\ passed' = passed BY <3>2 DEF WakeUp
      <4>3. passed' = passed + (IF asleep THEN 0 ELSE 1) BY <4>1, <4>2, SMT
      <4> QED BY <2>1, <3>2, <4>3, BucketEnds DEF WakeUp, Counting
    <3> QED BY <1>5, <3>1, <3>2 DEF PassTime
  <2> QED BY <2>1, <2>2 DEF Counting
<1>6. CASE SendEot
  <2>1. Kept /\ step' = "done" BY <1>6 DEF SendEot, Kept
  <2> QED BY <2>1, KeptAll
<1>7. CASE Stop
  <2>1. Kept /\ step' = "done" BY <1>7 DEF Stop, Kept
  <2> QED BY <2>1, KeptAll
<1>8. CASE Server
  <2>1. Kept /\ step' = step BY <1>8 DEF Server, Kept
  <2> QED BY <2>1, KeptAll
<1>9. CASE NextTransfer
  <2>1. bandwidth' \in Bandwidths /\ Fresh' /\ step' = "connect"
    BY <1>9 DEF NextTransfer, Settings, Fresh
  <2>2. ThrottleTypeOK' BY <2>1, FreshPrimed
  <2> QED BY <2>1, <2>2
<1>10. CASE UNCHANGED vars
  <2>1. Kept /\ step' = step BY <1>10 DEF vars, Kept
  <2> QED BY <2>1, KeptAll
<1> QED BY <1>1, <1>2, <1>3, <1>4, <1>5, <1>6, <1>7, <1>8, <1>9, <1>10 DEF Next, Client

-----------------------------------------------------------------------------
LEMMA BoundFollows == ThrottleInv => RateBound
<1> SUFFICES ASSUME ThrottleInv, Limited, Sane
             PROVE  passed * FrameBytes <= 2 * (bandwidth \div Buckets) * (clock \div Bucket + 1)
  BY DEF RateBound
<1> DEFINE bytes == bandwidth \div Buckets
           c == clock \div Bucket
<1>1. bandwidth \in Nat /\ Buckets \in Nat \ {0} /\ Bucket \in Nat \ {0} /\ FrameBytes \in Nat \ {0}
  BY BandwidthsAssumption DEF ThrottleInv, ThrottleTypeOK
<1>2. bytes \in Nat BY <1>1, QuotientBound
<1>3. clock \in Nat /\ start_time \in Nat /\ start_time <= clock /\ passed \in Nat
  BY BandwidthsAssumption, SMT DEF ThrottleInv, ThrottleTypeOK
<1>4. c \in Nat BY <1>1, <1>3, QuotientBound
<1>5. CASE Fresh
  <2>1. 0 * FrameBytes = 0 BY <1>1, SMT
  <2>2. 2 * bytes \in Nat /\ c + 1 \in Nat BY <1>2, <1>4, SMT
  <2> HIDE DEF bytes, c
  <2>3. 0 <= 2 * bytes * (c + 1) BY <2>2, SMT
  <2> QED BY <2>1, <2>3, <1>5 DEF Fresh, bytes, c
<1>6. CASE Counting
  <2>1. PICK r \in Nat : Begun(r) BY <1>6 DEF Counting, BucketsCounted
  <2>2. bytesPerBucket = bytes
    <3>1. bytes < IntSpan \div 2 /\ IntSpan \in Nat BY BandwidthsAssumption DEF Sane
    <3> HIDE DEF bytes
    <3>2. bytes % IntSpan = bytes BY <3>1, <1>2, SMT
    <3> QED BY <3>1, <3>2 DEF bytesPerBucket, bytes
  <2>3. framesPerBucket = bytes \div FrameBytes
    <3> HIDE DEF bytes
    <3>1. bytes >= 0 BY <1>2, SMT
    <3> QED BY <3>1, <2>2 DEF framesPerBucket
  <2> DEFINE F == framesPerBucket
  <2>4. F \in Nat /\ F * FrameBytes <= bytes
    <3> HIDE DEF bytes
    <3> QED BY <2>3, <1>1, <1>2, QuotientBound
  <2>5. Budget = F /\ F # 0 BY <1>6 DEF Budget, Counting, TooLow, Limited
  <2>6. F >= 1
    <3> HIDE DEF F
    <3> QED BY <2>4, <2>5, SMT
  <2>7. r <= c
    <3>1. r * Bucket <= start_time BY <2>1 DEF Begun
    <3>2. r * Bucket \in Nat BY <1>1, SMT
    <3>3. r * Bucket <= clock BY <3>1, <3>2, <1>3, SMT
    <3> QED BY <3>3, <1>1, <1>3, QuotientLargest
  <2>8. passed <= (r + 1) * (F + 1)
    <3>1. frameBudget \in 0..F BY <2>5 DEF ThrottleInv, ThrottleTypeOK, Limited
    <3>2. passed = r * (F + 1) + (F - frameBudget) + (IF asleep THEN 1 ELSE 0)
      BY <2>1, <2>5 DEF Begun
    <3> HIDE DEF F
    <3>3. r * (F + 1) \in Nat /\ (r + 1) * (F + 1) = r * (F + 1) + (F + 1) BY <2>4, SMT
    <3> QED BY <3>1, <3>2, <3>3, <2>4, SMT
  <2> HIDE DEF F, bytes, c
  <2>9. passed * FrameBytes <= 2 * bytes * (c + 1)
    BY <2>4, <2>6, <2>7, <2>8, <1>1, <1>2, <1>3, <1>4, RateArithmetic
  <2> QED BY <2>9 DEF bytes, c
<1> QED BY <1>5, <1>6 DEF ThrottleInv

\* The limit is kept in every transfer, at any pace of the network: never more than
\* twice the bytes asked for, in all the buckets that have begun (sendFile), if the
\* limit is one that its conversion to an int leaves as it is.
THEOREM LimitKept == Spec => []RateBound
<1>1. Spec => []ThrottleInv BY InitThrottle, NextThrottle, PTL DEF Spec
<1> QED BY <1>1, BoundFollows, PTL
=============================================================================
