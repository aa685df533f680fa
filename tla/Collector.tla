----------------------------- MODULE Collector -----------------------------
(***************************************************************************)
(* edge/edge_monitor/processing.py: the clock of                           *)
(* FixedRateCollector.collect_to_queue.  EdgeRuntime.tla takes a window as *)
(* one step; here it is sample by sample: the deadline of the next one,    *)
(* sleeping, running late, waiting for a full queue, and failing reads.    *)
(*                                                                         *)
(* Time is discrete and counted from now, so that it needs no bound: `due` *)
(* is deadline - clock(), and what lies further back than the code can     *)
(* tell apart is kept at its limit.  Reading the clock takes no time;      *)
(* reading a sensor, a thread that is not scheduled, and put() take any.   *)
(* windows() is the same loop with a caller in the place of the queue.     *)
(***************************************************************************)
EXTENDS Integers, Sequences

CONSTANTS
  Period,      \* ticks between two samples
  WindowSize,  \* sample_rate_hz // telemetry_rate_hz
  WindowCount, \* the argument count
  QueueMax     \* maxsize of target_queue

ASSUME CollectorAssumption ==
  /\ Period \in Nat \ {0} /\ WindowSize \in Nat \ {0}
  /\ WindowCount \in Nat /\ QueueMax \in Nat \ {0}

VARIABLES
  pc,           \* "window", "sample", "reading", "sleep", "put", "done", "raised"
  due,          \* deadline - clock()
  len,          \* len(window)
  error,        \* the window ended with a failed read
  produced,
  queued,       \* target_queue.qsize()
  stop,         \* stop_event
  \* history
  ages,         \* how long ago the last three samples were taken, newest first
  after_error   \* no sample was taken since a read failed

vars == <<pc, due, len, error, produced, queued, stop, ages, after_error>>
time == <<due, ages>>
others == <<produced, queued, stop>>

\* Later than this, the deadline is given up in any case.
TooLate == -(2 * Period + 1)

\* How far the deadline is put off after a failed read.
Pause == Period * WindowSize

Init ==
  /\ pc = "window" /\ due = 0 /\ len = 0 /\ error = FALSE /\ produced = 0
  /\ queued = 0 /\ stop = FALSE /\ ages = <<>> /\ after_error = FALSE
-----------------------------------------------------------------------------
(* Everybody else: time, the spooler, stop().                              *)

Tick ==
  /\ pc \notin {"done", "raised"}
  /\ due' = IF due = TooLate THEN due ELSE due - 1
  /\ ages' = [i \in DOMAIN ages |-> IF ages[i] = Period THEN Period ELSE ages[i] + 1]
  /\ UNCHANGED <<pc, len, error, others, after_error>>

Take ==
  /\ queued > 0 /\ queued' = queued - 1
  /\ UNCHANGED <<pc, time, len, error, produced, stop, after_error>>

SetStop ==
  /\ ~stop /\ stop' = TRUE
  /\ UNCHANGED <<pc, time, len, error, produced, queued, after_error>>
-----------------------------------------------------------------------------
(* The loop over windows and the loop over samples.                        *)

BeginWindow ==
  /\ pc = "window"
  /\ pc' = IF produced < WindowCount /\ ~stop THEN "sample" ELSE "done"
  /\ len' = 0 /\ error' = FALSE
  /\ UNCHANGED <<time, others, after_error>>

\* Stop is seen before each sample; a window that is not full is abandoned.
BeginSample ==
  /\ pc = "sample"
  /\ pc' = IF stop THEN "done" ELSE "reading"
  /\ UNCHANGED <<time, len, error, others, after_error>>

\* The next sample, or the end of the window.
Continue(n) == IF n < WindowSize THEN "sample" ELSE "put"

Sampled ==
  /\ len' = len + 1 /\ after_error' = FALSE
  /\ ages' = SubSeq(<<0>> \o ages, 1, IF Len(ages) < 3 THEN Len(ages) + 1 ELSE 3)
  /\ UNCHANGED <<error, others>>

\* Mutants: a missed deadline is never given up; the last sample of a window
\* is not waited for.
ReadReturnsCatchingUp ==
  /\ pc = "reading" /\ Sampled
  /\ IF due + Period > 0
     THEN due' = due + Period /\ pc' = "sleep"
     ELSE due' = due + Period /\ pc' = Continue(len + 1)

ReadReturnsHandsOver ==
  /\ pc = "reading" /\ Sampled
  /\ IF due + Period > 0
     THEN /\ due' = due + Period
          /\ pc' = IF len + 1 < WindowSize THEN "sleep" ELSE "put"
     ELSE /\ pc' = Continue(len + 1)
          /\ due' = IF due + Period < -Period THEN 0 ELSE due + Period

\* The sample is taken.  The deadline moves on by a period; when that is more
\* than a period ago, it is set to now.
ReadReturns ==
  /\ pc = "reading" /\ Sampled
  /\ IF due + Period > 0
     THEN due' = due + Period /\ pc' = "sleep"
     ELSE /\ pc' = Continue(len + 1)
          /\ due' = IF due + Period < -Period THEN 0 ELSE due + Period

\* sleeper(remaining) returns, at the deadline or later.
Wake ==
  /\ pc = "sleep" /\ due <= 0
  /\ pc' = Continue(len)
  /\ UNCHANGED <<time, len, error, others, after_error>>

\* reader() raises: the window ends here.
ReadFails ==
  /\ pc = "reading"
  /\ pc' = "put" /\ error' = TRUE /\ after_error' = TRUE
  /\ UNCHANGED <<time, len, others>>

\* Mutant: the window is appended to a full queue.
PutUnbounded ==
  /\ pc = "put"
  /\ queued' = queued + 1 /\ produced' = produced + 1
  /\ due' = IF error THEN Pause ELSE due
  /\ pc' = "window"
  /\ UNCHANGED <<len, error, stop, ages, after_error>>

\* put() succeeds.  After an error the deadline is a window away, but the next
\* window does not wait for it before its first sample.
Put ==
  /\ pc = "put" /\ queued < QueueMax
  /\ queued' = queued + 1 /\ produced' = produced + 1
  /\ due' = IF error THEN Pause ELSE due
  /\ pc' = "window"
  /\ UNCHANGED <<len, error, stop, ages, after_error>>

\* Mutant: stop is not looked at.
PutFullRetries == pc = "put" /\ queued = QueueMax /\ UNCHANGED vars

\* put() times out: try again, or raise when stop is set.
PutFull ==
  /\ pc = "put" /\ queued = QueueMax
  /\ pc' = IF stop THEN "raised" ELSE "put"
  /\ UNCHANGED <<time, len, error, others, after_error>>

Collect == \/ BeginWindow \/ BeginSample \/ ReadReturns \/ Wake \/ ReadFails
           \/ Put \/ PutFull

\* The call has returned or raised.
Finished == pc \in {"done", "raised"} /\ UNCHANGED vars

Next == Tick \/ Take \/ SetStop \/ Collect \/ Finished

Spec == Init /\ [][Next]_vars

\* Time passes, the thread runs, reader() returns or raises.  Nobody is obliged
\* to empty the queue.
FairSpec == Spec /\ WF_vars(Tick) /\ WF_vars(Collect)
-----------------------------------------------------------------------------
(* Properties.                                                             *)

\* The shape of the state; a window never has more than its samples, nor the
\* queue more than its places.
TypeOK ==
  /\ pc \in {"window", "sample", "reading", "sleep", "put", "done", "raised"}
  /\ due \in TooLate .. Pause + Period
  /\ len \in 0..WindowSize /\ error \in BOOLEAN
  /\ produced \in Nat /\ queued \in 0..QueueMax /\ stop \in BOOLEAN
  /\ ages \in Seq(0..Period) /\ Len(ages) <= 3
  /\ after_error \in BOOLEAN

\* No sample is taken before its deadline, whatever delays, full queues and
\* resets came before, but for the first one after a failed read.
NeverEarly ==
  [][pc = "sample" /\ pc' = "reading" => due <= 0 \/ after_error]_vars

\* Missed deadlines are not made up for: of four samples in a row, the first
\* and the last are at least a period apart, however long the thread was held
\* up or the queue was full, but when the last is the first one after a failed
\* read, which waits for no deadline.
BurstBounded ==
  [][len' = len + 1 /\ Len(ages) = 3 /\ ~after_error => ages[3] >= Period]_vars

\* "Read paired sensors at a monotonic fixed rate and emit complete windows":
\* inside a window no sample is waited for longer than a period.  Refuted: the
\* pause after a failed read comes after the first sample of the next window.
FixedRate == pc = "sleep" /\ len < WindowSize => due <= Period

\* stop() always ends the loop, also when nobody empties the queue.
StopEnds == stop ~> pc \in {"done", "raised"}
=============================================================================
