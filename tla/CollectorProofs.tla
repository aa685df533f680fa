-------------------------- MODULE CollectorProofs --------------------------
(***************************************************************************)
(* Theorems about Collector, for every period, window size and queue: no   *)
(* sample is early, and missed deadlines never cause a burst.              *)
(***************************************************************************)
EXTENDS Collector, SequenceTheorems, TLAPS

\* Where the thread may be with which deadline.
ClockOK ==
  /\ pc \in {"window", "sample", "reading", "put"} =>
       due <= Pause /\ (due <= 0 \/ after_error)
  /\ error => pc \notin {"sample", "reading", "sleep"} /\ after_error
  /\ pc \in {"sample", "reading"} => len < WindowSize

\* The next deadline is never more than a period before the last sample, never
\* before the one before it, and a period after the one before that.
AgesOK ==
  /\ Len(ages) >= 1 => ages[1] = Period \/ due >= -Period - ages[1]
  /\ Len(ages) >= 2 => ages[2] = Period \/ due >= -ages[2]
  /\ Len(ages) >= 3 => ages[3] = Period \/ due >= Period - ages[3]

IInv == TypeOK /\ ClockOK /\ AgesOK

LEMMA Constants ==
  /\ Period \in Nat /\ Period >= 1 /\ WindowSize \in Nat /\ WindowSize >= 1
  /\ Pause \in Nat /\ Pause >= Period
  /\ TooLate \in Int /\ TooLate = -Period - Period - 1
<1>1. Period \in Nat /\ Period >= 1 /\ WindowSize \in Nat /\ WindowSize >= 1
  BY CollectorAssumption
<1>2. PICK k \in Nat : WindowSize = k + 1
  <2>1. WindowSize - 1 \in Nat /\ WindowSize = (WindowSize - 1) + 1
    BY <1>1
  <2>2. QED BY <2>1
<1>3. \A p, j \in Nat : p * j \in Nat /\ p * (j + 1) = p * j + p
  BY SMT
<1>4. Pause = Period * k + Period /\ Period * k \in Nat
  BY <1>1, <1>2, <1>3 DEF Pause
<1>5. QED BY <1>1, <1>4 DEF TooLate

\* The newest sample comes first, and three are remembered.
LEMMA AgesAfterSample ==
  ASSUME TypeOK, Sampled
  PROVE  /\ ages' \in Seq(0..Period) /\ Len(ages') <= 3 /\ Len(ages') >= 1
         /\ ages'[1] = 0
         /\ Len(ages') >= 2 => Len(ages) >= 1 /\ ages'[2] = ages[1]
         /\ Len(ages') >= 3 => Len(ages) >= 2 /\ ages'[3] = ages[2]
<1> DEFINE s == <<0>> \o ages
           n == IF Len(ages) < 3 THEN Len(ages) + 1 ELSE 3
<1>1. ages \in Seq(0..Period) /\ Len(ages) \in Nat /\ Len(ages) <= 3
  BY DEF TypeOK
<1>2. /\ s \in Seq(0..Period) /\ Len(s) = Len(ages) + 1 /\ s[1] = 0
      /\ \A i \in 2..Len(s) : s[i] = ages[i - 1]
  BY <1>1, Constants
<1>3. n \in 1..3 /\ n <= Len(s)
  BY <1>1, <1>2
<1>4. ages' = SubSeq(s, 1, n)
  BY DEF Sampled
<1> HIDE DEF s, n
<1>5. /\ ages' \in Seq(0..Period) /\ Len(ages') = n
      /\ \A i \in 1..n : ages'[i] = s[i]
  <2>1. \A i \in 1..n : s[i] \in 0..Period
    <3>1. \A i \in 1..Len(s) : s[i] \in 0..Period
      BY <1>2, ElementOfSeq
    <3>2. \A i \in 1..n : i \in 1..Len(s)
      BY <1>1, <1>2, <1>3
    <3>3. QED BY <3>1, <3>2
  <2>2. n \in Int /\ 1 \in Int /\ 1 <= n
    BY <1>3
  <2>3. /\ SubSeq(s, 1, n) \in Seq(0..Period) /\ Len(SubSeq(s, 1, n)) = n - 1 + 1
        /\ \A i \in 1..(n - 1 + 1) : SubSeq(s, 1, n)[i] = s[1 + i - 1]
    BY <2>1, <2>2, SubSeqProperties
  <2>4. n - 1 + 1 = n /\ \A i \in 1..n : 1 + i - 1 = i
    BY <2>2
  <2>5. QED BY <1>4, <2>3, <2>4
<1>6. QED BY <1>1, <1>2, <1>3, <1>5

LEMMA AgesAfterTick ==
  ASSUME TypeOK, Tick
  PROVE  /\ ages' \in Seq(0..Period) /\ Len(ages') = Len(ages)
         /\ \A i \in 1..Len(ages) :
              ages'[i] = IF ages[i] = Period THEN Period ELSE ages[i] + 1
<1>1. ages \in Seq(0..Period) /\ DOMAIN ages = 1..Len(ages) /\ Len(ages) \in Nat
  BY DEF TypeOK
<1>2. ages' = [i \in 1..Len(ages) |-> IF ages[i] = Period THEN Period ELSE ages[i] + 1]
  BY <1>1 DEF Tick
<1>3. \A i \in 1..Len(ages) :
        (IF ages[i] = Period THEN Period ELSE ages[i] + 1) \in 0..Period
  BY <1>1, Constants
<1>4. QED BY <1>1, <1>2, <1>3
-----------------------------------------------------------------------------
LEMMA IInvInit == Init => IInv
<1> SUFFICES ASSUME Init PROVE IInv
  OBVIOUS
<1>1. ages \in Seq(0..Period) /\ Len(ages) = 0
  BY DEF Init
<1>2. TypeOK
  <2>1. 0 \in TooLate .. Pause + Period /\ 0 \in 0..WindowSize /\ 0 \in 0..QueueMax
    BY Constants, CollectorAssumption
  <2>2. /\ due \in TooLate .. Pause + Period /\ len \in 0..WindowSize
        /\ queued \in 0..QueueMax
    BY <2>1 DEF Init
  <2>3. produced \in Nat /\ Len(ages) <= 3 /\ ages \in Seq(0..Period)
    BY <1>1 DEF Init
  <2>4. /\ pc \in {"window", "sample", "reading", "sleep", "put", "done", "raised"}
        /\ error \in BOOLEAN /\ stop \in BOOLEAN /\ after_error \in BOOLEAN
    BY DEF Init
  <2>5. QED BY <2>2, <2>3, <2>4 DEF TypeOK
<1>3. ClockOK /\ AgesOK
  BY <1>1, Constants DEF Init, ClockOK, AgesOK
<1>4. QED BY <1>2, <1>3 DEF IInv

\* What the steps below use of the invariant.
LEMMA Shape ==
  ASSUME IInv
  PROVE  /\ due \in Int /\ due >= TooLate /\ due <= Pause + Period
         /\ len \in Nat /\ len <= WindowSize
         /\ Len(ages) \in Nat
         /\ \A i \in 1..Len(ages) : ages[i] \in Nat /\ ages[i] <= Period
BY Constants DEF IInv, TypeOK

LEMMA TickStep ==
  ASSUME IInv, Tick
  PROVE  IInv'
<1>1. due' \in TooLate .. Pause + Period /\ due' <= due
  <2>1. due \in Int /\ due >= TooLate /\ due <= Pause + Period
    BY Shape
  <2>2. TooLate \in Int /\ Pause \in Nat /\ Period \in Nat
    BY Constants
  <2>3. due' = IF due = TooLate THEN due ELSE due - 1
    BY DEF Tick
  <2> HIDE DEF TooLate, Pause
  <2>4. QED BY <2>1, <2>2, <2>3
<1>2. TypeOK'
  BY <1>1, AgesAfterTick DEF Tick, others, IInv, TypeOK
<1>3. ClockOK'
  BY <1>1, Shape, Constants DEF Tick, others, IInv, ClockOK
<1>4. due' = due - 1 \/ (due = TooLate /\ due' = due)
  BY DEF Tick
<1>5. AgesOK'
  <2>1. TypeOK /\ AgesOK
    BY DEF IInv
  <2>2. Len(ages') = Len(ages) /\ Len(ages) \in Nat
    BY <2>1, AgesAfterTick DEF TypeOK
  <2>3. ASSUME NEW i \in 1..3, Len(ages) >= i
        PROVE  /\ ages[i] \in Nat /\ ages[i] <= Period
               /\ ages'[i] = IF ages[i] = Period THEN Period ELSE ages[i] + 1
    BY <2>1, <2>2, <2>3, AgesAfterTick, Shape
  <2>4. Len(ages) >= 1 => ages'[1] = Period \/ due' >= -Period - ages'[1]
    BY <1>4, <2>1, <2>3, Shape, Constants DEF AgesOK
  <2>5. Len(ages) >= 2 => ages'[2] = Period \/ due' >= -ages'[2]
    BY <1>4, <2>1, <2>3, Shape, Constants DEF AgesOK
  <2>6. Len(ages) >= 3 => ages'[3] = Period \/ due' >= Period - ages'[3]
    <3>1. SUFFICES ASSUME Len(ages) >= 3, ages[3] # Period
                   PROVE  due' >= Period - ages'[3]
      BY <2>3
    <3>2. due >= Period - ages[3] /\ ages'[3] = ages[3] + 1 /\ ages[3] \in Nat
      BY <2>1, <2>3, <3>1 DEF AgesOK
    <3>3. due # TooLate
      BY <3>1, <3>2, <2>3, Constants
    <3>4. QED BY <1>4, <3>2, <3>3, Shape, Constants
  <2>7. QED BY <2>2, <2>4, <2>5, <2>6 DEF AgesOK
<1>6. QED BY <1>2, <1>3, <1>5 DEF IInv

LEMMA ReadReturnsStep ==
  ASSUME IInv, ReadReturns
  PROVE  IInv'
<1>1. /\ pc = "reading" /\ len' = len + 1 /\ after_error' = FALSE /\ ~error
      /\ UNCHANGED <<error, produced, queued, stop>>
      /\ len < WindowSize /\ due <= Pause
  BY DEF ReadReturns, Sampled, others, IInv, ClockOK
<1>2. \/ due' = due + Period /\ due' > 0 /\ pc' = "sleep"
      \/ due' = due + Period /\ due' <= 0 /\ due' >= -Period /\ pc' = Continue(len + 1)
      \/ due' = 0 /\ due + Period < -Period /\ pc' = Continue(len + 1)
  BY Shape, Constants DEF ReadReturns
<1>3. Continue(len + 1) = IF len + 1 < WindowSize THEN "sample" ELSE "put"
  BY DEF Continue
<1>4. due' \in TooLate .. Pause + Period
  BY <1>1, <1>2, Shape, Constants
<1>5. TypeOK'
  <2>1. TypeOK /\ Sampled
    BY DEF IInv, ReadReturns
  <2>2. pc' \in {"sleep", "sample", "put"}
    BY <1>2, <1>3
  <2>3. len' \in 0..WindowSize
    BY <1>1, Shape, Constants
  <2>4. ages' \in Seq(0..Period) /\ Len(ages') <= 3
    BY <2>1, AgesAfterSample
  <2>5. QED BY <1>1, <1>4, <2>1, <2>2, <2>3, <2>4 DEF TypeOK
<1>6. ClockOK'
  BY <1>1, <1>2, <1>3, Shape, Constants DEF ClockOK
<1>7. AgesOK'
  <2>1. TypeOK /\ Sampled /\ AgesOK
    BY DEF IInv, ReadReturns
  <2>2. \A i \in 1..3 : Len(ages) >= i => ages[i] \in Nat /\ ages[i] <= Period
    BY Shape
  <2>3. \/ due' = due + Period /\ due' >= -Period
        \/ due' = 0 /\ due + Period < -Period
    BY <1>2, Shape, Constants
  <2>4. Len(ages') >= 1 => due' >= -Period - ages'[1]
    BY <2>1, <2>3, AgesAfterSample, Shape, Constants
  <2>5. Len(ages') >= 2 => ages'[2] = Period \/ due' >= -ages'[2]
    <3>1. SUFFICES ASSUME Len(ages) >= 1, ages'[2] = ages[1]
                   PROVE  ages'[2] = Period \/ due' >= -ages'[2]
      BY <2>1, AgesAfterSample
    <3>2. ages[1] \in Nat /\ (ages[1] = Period \/ due >= -Period - ages[1])
      BY <2>1, <2>2, <3>1 DEF AgesOK
    <3>3. QED BY <2>3, <3>1, <3>2, Shape, Constants
  <2>6. Len(ages') >= 3 => ages'[3] = Period \/ due' >= Period - ages'[3]
    <3>1. SUFFICES ASSUME Len(ages) >= 2, ages'[3] = ages[2]
                   PROVE  ages'[3] = Period \/ due' >= Period - ages'[3]
      BY <2>1, AgesAfterSample
    <3>2. ages[2] \in Nat /\ ages[2] <= Period /\ (ages[2] = Period \/ due >= -ages[2])
      BY <2>1, <2>2, <3>1, Shape DEF AgesOK
    <3>3. QED BY <2>3, <3>1, <3>2, Shape, Constants
  <2>7. QED BY <2>4, <2>5, <2>6 DEF AgesOK
<1>8. QED BY <1>5, <1>6, <1>7 DEF IInv

\* The steps that leave the ages alone; all but Put leave the deadline, too.
LEMMA LoopStep ==
  ASSUME IInv, BeginWindow \/ BeginSample \/ Wake \/ ReadFails \/ PutFull
  PROVE  IInv'
<1>1. UNCHANGED <<due, ages>>
  BY DEF BeginWindow, BeginSample, Wake, ReadFails, PutFull, time
<1>2. AgesOK'
  BY <1>1 DEF IInv, AgesOK
<1>3. TypeOK'
  <2>1. UNCHANGED <<produced, queued, stop>> /\ len' \in {0, len}
    BY DEF BeginWindow, BeginSample, Wake, ReadFails, PutFull, others
  <2>2. 0 \in 0..WindowSize
    BY Constants
  <2>3. /\ pc' \in {"window", "sample", "reading", "sleep", "put", "done", "raised"}
        /\ error' \in BOOLEAN /\ after_error' \in BOOLEAN
    BY DEF BeginWindow, BeginSample, Wake, ReadFails, PutFull, Continue, IInv, TypeOK
  <2>4. QED BY <1>1, <2>1, <2>2, <2>3 DEF IInv, TypeOK
<1>4. ClockOK'
  BY <1>1, Shape, Constants, CollectorAssumption
     DEF IInv, ClockOK, BeginWindow, BeginSample, Wake, ReadFails, PutFull, others,
     Continue
<1>5. QED BY <1>2, <1>3, <1>4 DEF IInv

LEMMA PutStep ==
  ASSUME IInv, Put
  PROVE  IInv'
<1>1. /\ due' = IF error THEN Pause ELSE due
      /\ pc = "put" /\ pc' = "window" /\ UNCHANGED <<len, error, stop, ages, after_error>>
  BY DEF Put
<1>2. due' >= due /\ due' \in TooLate .. Pause + Period /\ due' <= Pause
  <2>1. due <= Pause /\ due' \in {Pause, due}
    BY <1>1 DEF IInv, ClockOK
  <2>2. due' \in Int /\ due' >= TooLate /\ due' <= Pause /\ due' >= due
    BY <2>1, Shape, Constants
  <2>3. QED BY <2>2, Constants
<1>3. TypeOK'
  BY <1>1, <1>2, Constants, CollectorAssumption DEF IInv, TypeOK, Put
<1>4. ClockOK'
  BY <1>1, <1>2 DEF IInv, ClockOK
<1>5. AgesOK'
  <2>1. /\ due \in Int /\ Len(ages) \in Nat
        /\ \A i \in 1..Len(ages) : ages[i] \in Nat /\ ages[i] <= Period
    BY Shape
  <2>2. Period \in Nat /\ Pause \in Nat /\ Pause >= Period /\ due' \in Int
    BY Constants, <1>2, Shape
  <2>3. AgesOK
    BY DEF IInv
  <2>4. QED BY <1>1, <1>2, <2>1, <2>2, <2>3 DEF AgesOK
<1>6. QED BY <1>3, <1>4, <1>5 DEF IInv

LEMMA IInvNext == IInv /\ [Next]_vars => IInv'
<1> SUFFICES ASSUME IInv, [Next]_vars PROVE IInv'
  OBVIOUS
<1>1. CASE Tick
  BY <1>1, TickStep
<1>2. CASE Take \/ SetStop
  <2>1. UNCHANGED <<pc, due, ages, len, error, produced, after_error>>
    BY <1>2 DEF Take, SetStop, time
  <2>2. queued' \in 0..QueueMax /\ stop' \in BOOLEAN
    <3>1. queued \in 0..QueueMax /\ stop \in BOOLEAN /\ QueueMax \in Nat
      BY CollectorAssumption DEF IInv, TypeOK
    <3>2. CASE Take
      BY <3>1, <3>2 DEF Take
    <3>3. CASE SetStop
      BY <3>1, <3>3 DEF SetStop
    <3>4. QED BY <1>2, <3>2, <3>3
  <2>3. TypeOK'
    BY <2>1, <2>2 DEF IInv, TypeOK
  <2>4. QED BY <2>1, <2>3 DEF IInv, ClockOK, AgesOK
<1>3. CASE Collect
  BY <1>3, ReadReturnsStep, LoopStep, PutStep DEF Collect
<1>4. CASE UNCHANGED vars
  BY <1>4 DEF vars, IInv, TypeOK, ClockOK, AgesOK
<1>5. QED BY <1>1, <1>2, <1>3, <1>4 DEF Next, Finished

THEOREM InductiveInvariant == Spec => []IInv
BY IInvInit, IInvNext, PTL DEF Spec
-----------------------------------------------------------------------------
\* The state keeps its shape: a window never has more than window_size samples,
\* nor the queue more than its places.
THEOREM CollectorTypes == Spec => []TypeOK
<1>1. IInv => TypeOK
  BY DEF IInv
<1>2. QED BY <1>1, InductiveInvariant, PTL

\* collect_to_queue never takes a sample before its deadline, but for the first
\* one after a failed read.
THEOREM SamplesInTime == Spec => NeverEarly
<1>1. IInv /\ [Next]_vars =>
        [pc = "sample" /\ pc' = "reading" => due <= 0 \/ after_error]_vars
  BY DEF IInv, ClockOK
<1>2. QED BY <1>1, InductiveInvariant, PTL DEF Spec, NeverEarly

\* However late it runs, it takes at most three samples within a period.
THEOREM NoBurst == Spec => BurstBounded
<1>1. ASSUME IInv, [Next]_vars, len' = len + 1, Len(ages) = 3, ~after_error
      PROVE  ages[3] >= Period
  <2>1. ReadReturns
    BY <1>1, Shape DEF Next, Tick, Take, SetStop, Collect, BeginWindow, BeginSample,
       Wake, ReadFails, Put, PutFull, Finished, vars
  <2>2. due <= 0
    BY <1>1, <2>1, Shape DEF ReadReturns, IInv, ClockOK
  <2>3. QED BY <1>1, <2>2, Shape, Constants DEF IInv, AgesOK
<1>2. IInv /\ [Next]_vars =>
        [len' = len + 1 /\ Len(ages) = 3 /\ ~after_error => ages[3] >= Period]_vars
  BY <1>1
<1>3. QED BY <1>2, InductiveInvariant, PTL DEF Spec, BurstBounded
=============================================================================
