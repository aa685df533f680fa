-------------------------- MODULE EdgeReportProofs --------------------------
(***************************************************************************)
(* Theorems about what EdgeRuntime makes of its windows, for every value   *)
(* of its constants: nothing is sent twice without a failure, windows are  *)
(* stored in their order, each is stored, held or lost to a failure, and a *)
(* clean stop() leaves none behind.                                        *)
(***************************************************************************)
EXTENDS EdgeRuntimeProofs

\* A step that only moves a program counter is always seen expanded.
USE DEF MoveCollector, MoveSpooler, MoveSender

-----------------------------------------------------------------------------
(* What the steps of a thread leave alone.                                 *)

LEMMA CollectorFrame ==
  ASSUME Collector \/ CollectorFault
  PROVE  /\ UNCHANGED <<last_seq_no, last_row_id, outbox, transition_queue>>
         /\ UNCHANGED <<spc, item, built, previous_status>>
         /\ UNCHANGED <<xpc, batch, health, backoff>>
         /\ UNCHANGED <<ctl, clean, spooled, delivered, first_no, outlived>>
         /\ UNCHANGED <<crashes, stops, send_failures>>
<1>1. UNCHANGED notCollector
  BY DEF Collector, CollectorFault, CollectWindow, CollectEnd, PutWindow,
         PutFull, AfterFull, PillCheck, PutNone, CollectorFailed
<1>2. QED
  BY <1>1 DEF notCollector, blackbox, spooler, sender, control

LEMMA SpoolerFrame ==
  ASSUME Spooler \/ SpoolerFault \/ CallbackFault
  PROVE  /\ UNCHANGED <<cpc, collected, produced, collector_raised>>
         /\ UNCHANGED <<xpc, batch, health, backoff>>
         /\ UNCHANGED <<ctl, clean, delivered, window_no, first_no, outlived>>
         /\ UNCHANGED <<crashes, stops, send_failures>>
<1>1. UNCHANGED notSpooler
  BY DEF Spooler, SpoolerFault, CallbackFault, SpoolerCheck, TakeTransition,
         TakeItem, GetTimeout, Reserve, ReserveEvent, Store, Wake,
         SpoolerFailed
<1>2. QED
  BY <1>1 DEF notSpooler, collector, sender, control

LEMMA SenderFrame ==
  ASSUME Sender \/ WaitTimeout \/ SenderFault
  PROVE  /\ UNCHANGED <<last_seq_no, last_row_id, summary_queue>>
         /\ UNCHANGED <<cpc, collected, produced, collector_raised>>
         /\ UNCHANGED <<spc, item, built, previous_status>>
         /\ UNCHANGED <<ctl, clean, spooled, window_no, first_no, outlived>>
         /\ UNCHANGED <<crashes, stops>>
<1>1. UNCHANGED notSender
  BY DEF Sender, WaitTimeout, SenderFault, SenderLoop, WakeUp, ClearDrain,
         Fetch, SendSucceeds, SendFails, Ack, AfterSuccess, AfterFailure,
         SenderFailed
<1>2. QED
  BY <1>1 DEF notSender, collector, spooler, control

LEMMA ControlFrame ==
  ASSUME Start \/ Flush \/ StopCollector \/ Stop
  PROVE  /\ UNCHANGED <<last_seq_no, last_row_id, outbox>>
         /\ UNCHANGED <<summary_queue, transition_queue, worker_failure>>
         /\ UNCHANGED <<collected, produced, collector_raised>>
         /\ UNCHANGED <<item, built, previous_status, batch, health, backoff>>
         /\ UNCHANGED <<spooled, delivered, window_no, first_no, outlived>>
         /\ UNCHANGED <<crashes, send_failures, faults>>
<1>1. UNCHANGED notControl
  BY DEF Stop, Start, Flush, StopCollector, StopSpooler, StopSender, StopReturns
<1>2. QED
  BY <1>1 DEF notControl, blackbox

LEMMA VarsFrame ==
  ASSUME UNCHANGED vars
  PROVE  /\ UNCHANGED <<last_seq_no, last_row_id, outbox>>
         /\ UNCHANGED <<summary_queue, transition_queue>>
         /\ UNCHANGED <<stop_collector, stop_spooler, stop_sender>>
         /\ UNCHANGED <<drain_event, worker_failure>>
         /\ UNCHANGED <<cpc, collected, produced, collector_raised>>
         /\ UNCHANGED <<spc, item, built, previous_status>>
         /\ UNCHANGED <<xpc, batch, health, backoff, ctl, clean>>
         /\ UNCHANGED <<spooled, delivered, window_no, first_no, outlived>>
         /\ UNCHANGED <<crashes, stops, send_failures, faults>>
BY DEF vars, blackbox, events, collector, spooler, sender, control, bounds

\* A worker's step sets what says that a worker failed or must stop, and never
\* clears it.
LEMMA WorkerSteps ==
  ASSUME \/ Collector \/ CollectorFault
         \/ Spooler \/ SpoolerFault \/ CallbackFault
         \/ Sender \/ WaitTimeout \/ SenderFault
  PROVE  /\ faults' \in {faults, faults + 1}
         /\ worker_failure => worker_failure'
         /\ stop_spooler => stop_spooler'
<1> USE DEF RecordWorkerFailure, SetDrain, events
<1>1. CASE Collector \/ CollectorFault
  BY <1>1 DEF Collector, CollectorFault, CollectWindow, CollectEnd, PutWindow,
     PutFull, AfterFull, PillCheck, PutNone, CollectorFailed
<1>2. CASE Spooler
  <2>1. CASE SpoolerFailed
    BY <2>1 DEF SpoolerFailed
  <2>2. CASE ~SpoolerFailed
    <3>1. UNCHANGED <<faults, worker_failure, stop_spooler>>
      BY <1>2, <2>2 DEF Spooler, SpoolerCheck, TakeTransition, TakeItem,
         GetTimeout, Reserve, ReserveEvent, Store, Wake
    <3>2. QED BY <3>1
  <2>3. QED BY <2>1, <2>2
<1>3. CASE SpoolerFault \/ CallbackFault
  BY <1>3 DEF SpoolerFault, CallbackFault
<1>4. CASE Sender \/ WaitTimeout \/ SenderFault
  BY <1>4 DEF Sender, WaitTimeout, SenderFault, SenderLoop, WakeUp, ClearDrain,
     Fetch, SendSucceeds, SendFails, Ack, AfterSuccess, AfterFailure,
     SenderFailed
<1>5. QED BY <1>1, <1>2, <1>3, <1>4
-----------------------------------------------------------------------------
(* The sender alone never repeats a message.                               *)

\* Before the first failure only the row just sent, and not yet deleted, is
\* known to the transport.
FirstSendOK ==
  crashes + send_failures + faults = 0 =>
    \A r \in outbox : r.msg.seq \in delivered => xpc = "ack" /\ Current(r)

\* A step that neither sends nor stores, and keeps the sender where it is if
\* a row awaits its deletion.
LEMMA FirstSendFrame ==
  ASSUME FirstSendOK, UNCHANGED <<outbox, delivered>>,
         crashes + send_failures + faults = 0,
         xpc = "ack" => xpc' = xpc /\ batch' = batch
  PROVE  FirstSendOK'
BY DEF FirstSendOK, Current

LEMMA FirstSendStep ==
  ASSUME IInv, FirstSendOK, [Next]_vars
  PROVE  FirstSendOK'
<1>1. crashes \in Nat /\ send_failures \in Nat /\ faults \in Nat
  BY DEF IInv, TypeOK, ControlTypes
<1>2. SUFFICES ASSUME (crashes + send_failures + faults)' = 0
               PROVE  FirstSendOK'
  BY DEF FirstSendOK
<1> DEFINE calm == crashes + send_failures + faults = 0
<1>3. CASE Collector \/ CollectorFault
  <2>1. faults' \in {faults, faults + 1}
    BY <1>3 DEF Collector, CollectorFault, CollectWindow, CollectEnd, PutWindow,
       PutFull, AfterFull, PillCheck, PutNone, CollectorFailed
  <2>2. calm
    BY <1>1, <1>2, <1>3, <2>1, CollectorFrame
  <2>3. QED BY <1>3, <2>2, CollectorFrame, FirstSendFrame
<1>4. CASE Store
  <2>1. /\ UNCHANGED <<crashes, send_failures, faults, delivered, xpc, batch>>
        /\ spc = "store"
    BY <1>4, SpoolerFrame DEF Spooler, Store
  <2>2. outbox' = outbox \cup {NewRow(i) : i \in 1..Len(built)}
    BY <1>4, StoreEffect
  <2>3. ASSUME NEW i \in 1..Len(built) PROVE built[i].seq \notin delivered
    <3>1. Numbers /\ SequenceOK /\ DeliveryOK
      BY TypesAreNumbers DEF IInv, SafeOK
    <3>2. \A m \in spooled : m.seq < built[i].seq
      BY <2>1, <3>1 DEF SequenceOK
    <3>3. built[i].seq \notin Seqs(spooled)
      BY <3>1, <3>2 DEF Numbers, Seqs
    <3>4. QED BY <3>1, <3>3 DEF DeliveryOK
  <2>4. ASSUME NEW r \in outbox', r.msg.seq \in delivered'
        PROVE  r \in outbox
    BY <2>1, <2>2, <2>3, <2>4 DEF NewRow
  <2>5. QED BY <1>2, <2>1, <2>4 DEF FirstSendOK, Current
<1>5. CASE (Spooler /\ ~Store) \/ SpoolerFault \/ CallbackFault
  <2>1. UNCHANGED outbox /\ faults' \in {faults, faults + 1}
    BY <1>5 DEF Spooler, SpoolerFault, CallbackFault, SpoolerCheck,
       TakeTransition, TakeItem, GetTimeout, Reserve, ReserveEvent, Wake,
       SpoolerFailed, blackbox
  <2>2. calm
    BY <1>1, <1>2, <1>5, <2>1, SpoolerFrame
  <2>3. QED BY <1>5, <2>1, <2>2, SpoolerFrame, FirstSendFrame
<1>6. CASE SendSucceeds
  <2>1. PICK r \in batch : Current(r) /\ delivered' = delivered \cup {r.msg.seq}
    BY <1>6 DEF SendSucceeds
  <2>2. /\ UNCHANGED <<outbox, batch, crashes, send_failures, faults>>
        /\ xpc = "send" /\ xpc' = "ack"
    BY <1>6, SenderFrame DEF Sender, SendSucceeds
  <2>3. /\ r \in outbox /\ Numbers
        /\ \A q \in outbox : q = r \/ r.msg.seq < q.msg.seq
    BY <2>1, TypesAreNumbers, CurrentIsOldest DEF IInv, SafeOK
  <2>4. \A q \in outbox : q.msg.seq \in delivered' => q = r
    BY <1>2, <2>1, <2>2, <2>3 DEF FirstSendOK, Numbers
  <2>5. QED BY <2>1, <2>2, <2>4 DEF FirstSendOK, Current
<1>7. CASE Ack
  <2>1. PICK r \in batch : Current(r) /\ outbox' = outbox \ {r}
    BY <1>7, AckEffect
  <2>2. UNCHANGED <<delivered, crashes, send_failures, faults>>
    BY <1>7, SenderFrame DEF Sender, Ack
  <2>3. Numbers /\ \A q \in outbox : q.id = r.id => q = r
    BY <2>1, TypesAreNumbers, CurrentIsOldest DEF IInv, SafeOK
  <2>4. ASSUME NEW q \in outbox, Current(q) PROVE q = r
    <3>1. q \in batch /\ q.id <= r.id /\ r.id <= q.id /\ r \in outbox
      BY <2>1, <2>4 DEF Current, IInv, SafeOK, SenderOK
    <3>2. QED BY <2>3, <3>1 DEF Numbers
  <2>5. QED BY <1>2, <2>1, <2>2, <2>4 DEF FirstSendOK
<1>8. CASE \/ Sender /\ ~SendSucceeds /\ ~Ack
           \/ WaitTimeout \/ SenderFault
  <2>1. ~SendFails /\ ~SenderFault
    BY <1>1, <1>2, SenderFrame DEF Sender, SendFails, SenderFault
  <2>2. UNCHANGED <<outbox, delivered, send_failures, faults>> /\ xpc # "ack"
    BY <1>8, <2>1 DEF Sender, WaitTimeout, SenderLoop, WakeUp, ClearDrain,
       Fetch, AfterSuccess, AfterFailure, SenderFailed
  <2>3. calm
    BY <1>2, <1>8, <2>2, SenderFrame
  <2>4. QED BY <2>2, <2>3, FirstSendFrame
<1>9. CASE Start \/ Flush \/ StopCollector \/ Stop
  <2>1. xpc = "ack" => xpc' = xpc
    BY <1>9 DEF Start, Flush, StopCollector, Stop, StopSpooler, StopSender,
       StopReturns, IInv, HandOK
  <2>2. QED BY <1>2, <1>9, <2>1, ControlFrame, FirstSendFrame
<1>10. CASE Restart
  BY <1>2, <1>10, FirstSendFrame DEF Restart, AllDone, blackbox, bounds
<1>11. CASE Crash
  BY <1>1, <1>2, <1>11 DEF Crash
<1>12. CASE UNCHANGED vars
  BY <1>2, <1>12, VarsFrame, FirstSendFrame
<1>13. QED
  BY <1>3, <1>4, <1>5, <1>6, <1>7, <1>8, <1>9, <1>10, <1>11, <1>12
  DEF Next, Finished

\* Without a crash, a failed send or a failed blackbox call the transport gets
\* no message twice: batches, wake-ups, timeouts, stop() and start() cause none.
THEOREM NoRepeat == Spec => []DuplicateOnlyAfterFailure
<1>1. Init => FirstSendOK
  BY DEF Init, FirstSendOK
<1>2. IInv /\ FirstSendOK => DuplicateOnlyAfterFailure
  <2> SUFFICES ASSUME IInv, FirstSendOK, xpc = "send",
                      NEW r \in batch, r.msg.seq \in delivered
               PROVE  crashes + send_failures + faults > 0
    BY DEF DuplicateOnlyAfterFailure
  <2>1. r \in outbox
    BY DEF IInv, SafeOK, SenderOK
  <2>2. crashes \in Nat /\ send_failures \in Nat /\ faults \in Nat
    BY DEF IInv, TypeOK, ControlTypes
  <2>3. QED BY <2>1, <2>2 DEF FirstSendOK
<1>3. IInv /\ FirstSendOK /\ [Next]_vars => FirstSendOK'
  BY FirstSendStep
<1>4. QED BY <1>1, <1>2, <1>3, Invariant, PTL DEF Spec
-----------------------------------------------------------------------------
(* What the spooler builds, and what a transaction adds to what is stored. *)

\* An item of the summary queue, or of the spooler, that reports on a window.
OfWindow(i) == i.kind \in {"window", "incomplete"}

\* The window in hand exceeds the threshold its predecessor kept.
Alarming == item.kind = "window" /\ item.emit

ThresholdEvent(i, seq) ==
  Message("THRESHOLD_EXCEEDED", i.status, seq + 1, seq, i.no)

\* What is built is what the item in hand asks for, numbered without a gap.
BuiltOK ==
  /\ spc \in {"reserve_event", "store"} =>
       built[1] = BuiltFrom(item, built[1].seq)
  /\ spc = "reserve_event" => Alarming /\ built[1].seq = last_seq_no
  /\ spc = "store" /\ Alarming =>
       Len(built) = 2 /\ built[2] = ThresholdEvent(item, built[1].seq)
  /\ spc = "store" /\ ~Alarming => Len(built) = 1

LEMMA BuiltFields ==
  ASSUME NEW i \in HandItems, i # NoneItem, NEW n \in Nat
  PROVE  LET m == BuiltFrom(i, n) IN
         /\ m.seq = n /\ m.related = 0
         /\ i.kind = "window" => m.kind = "telemetry" /\ m.status = i.status
         /\ i.kind = "incomplete" => m.kind = "SENSOR_ERROR"
         /\ i.kind \in Transitions => m.kind = i.kind
         /\ OfWindow(i) => m.no = i.no
         /\ ~OfWindow(i) => m.no = 0 /\ i.kind \in Transitions
<1>1. i.kind \in {"window", "incomplete"} \cup Transitions
  BY DEF HandItems, TransitionItems, NoneItem
<1>2. CASE i.kind = "window"
  BY <1>2 DEF BuiltFrom, Message, OfWindow, Transitions
<1>3. CASE i.kind = "incomplete"
  BY <1>3 DEF BuiltFrom, Message, OfWindow, Transitions
<1>4. CASE i.kind \in Transitions
  BY <1>4 DEF BuiltFrom, Message, OfWindow, Transitions
<1>5. QED BY <1>1, <1>2, <1>3, <1>4

LEMMA BuiltStep ==
  ASSUME IInv, BuiltOK, [Next]_vars
  PROVE  BuiltOK'
<1> USE DEF Alarming
<1>0. TypeOK /\ HandOK
  BY DEF IInv
<1>1. CASE Reserve
  <2>1. /\ item \in HandItems /\ item # NoneItem /\ NextSequence \in Nat
        /\ UNCHANGED item /\ last_seq_no' = NextSequence
        /\ built' = <<BuiltFrom(item, NextSequence)>>
        /\ spc' = IF Alarming THEN "reserve_event" ELSE "store"
    BY <1>0, <1>1
    DEF Reserve, HandOK, TypeOK, SpoolerTypes, BlackboxTypes, NextSequence
  <2>2. built'[1] = BuiltFrom(item, NextSequence) /\ Len(built') = 1
    BY <2>1
  <2>3. built'[1].seq = NextSequence
    BY <2>1, <2>2, BuiltFields
  <2>4. QED BY <2>1, <2>2, <2>3 DEF BuiltOK
<1>2. CASE ReserveEvent
  <2>1. /\ UNCHANGED item /\ spc' = "store" /\ spc = "reserve_event"
        /\ NextSequence = last_seq_no + 1 /\ built[1].seq = last_seq_no
        /\ Alarming /\ built[1] = BuiltFrom(item, built[1].seq)
        /\ built' = Append(built, ThresholdEvent(item, built[1].seq))
    BY <1>2 DEF ReserveEvent, NextSequence, BuiltOK, ThresholdEvent
  <2>2. built \in Seq(Messages) /\ Len(built) = 1
    BY <1>0, <2>1 DEF HandOK, TypeOK, SpoolerTypes
  <2>3. /\ Len(built') = 2 /\ built'[1] = built[1]
        /\ built'[2] = ThresholdEvent(item, built[1].seq)
    <3>1. item \in HandItems /\ item.kind = "window" /\ last_seq_no \in Nat
      BY <1>0, <2>1 DEF TypeOK, SpoolerTypes, BlackboxTypes
    <3>2. ThresholdEvent(item, built[1].seq) \in Messages
      BY <2>1, <3>1
      DEF HandItems, TransitionItems, Transitions, NoneItem, ThresholdEvent,
          Message, Messages, EventKinds
    <3>3. QED BY <2>1, <2>2, <3>2, PairSeq
  <2>4. QED BY <2>1, <2>3 DEF BuiltOK
<1>3. CASE UNCHANGED <<spc, item, built, last_seq_no>>
  BY <1>3 DEF BuiltOK
<1>4. CASE spc' \notin {"reserve_event", "store"}
  BY <1>4 DEF BuiltOK
<1>5. CASE Spooler \/ SpoolerFault \/ CallbackFault
  <2>1. CASE TakeItem
    <3>1. Head(summary_queue).kind \in {"none", "incomplete", "window"}
      BY <1>0, <2>1 DEF TakeItem, TypeOK, QueueTypes, Items, NoneItem
    <3>2. QED BY <1>4, <2>1, <3>1 DEF TakeItem
  <2>2. CASE \/ SpoolerFault \/ CallbackFault \/ SpoolerCheck \/ TakeTransition
             \/ GetTimeout \/ Store \/ Wake \/ SpoolerFailed
    <3>1. spc' \notin {"reserve_event", "store"}
      BY <2>2
      DEF SpoolerFault, CallbackFault, SpoolerCheck, TakeTransition,
          GetTimeout, Store, Wake, SpoolerFailed
    <3>2. QED BY <1>4, <3>1
  <2>3. QED BY <1>1, <1>2, <1>5, <2>1, <2>2 DEF Spooler
<1>6. CASE Start \/ Flush \/ StopCollector \/ Stop
  <2>1. spc' = spc \/ spc' = "check"
    BY <1>6 DEF Stop, Start, Flush, StopCollector, StopSpooler, StopSender,
       StopReturns
  <2>2. QED BY <1>3, <1>4, <1>6, <2>1, ControlFrame
<1>7. CASE Crash \/ Restart
  BY <1>4, <1>7 DEF Crash, Restart
<1>8. QED
  BY <1>3, <1>5, <1>6, <1>7, CollectorFrame, SenderFrame, VarsFrame
  DEF Next, Finished

LEMMA OnlyStoreAdds ==
  ASSUME [Next]_vars, ~Store
  PROVE  spooled' = spooled
<1>1. CASE Spooler \/ SpoolerFault \/ CallbackFault
  BY <1>1 DEF Spooler, SpoolerFault, CallbackFault, SpoolerCheck,
     TakeTransition, TakeItem, GetTimeout, Reserve, ReserveEvent, Wake,
     SpoolerFailed
<1>2. CASE Crash \/ Restart
  BY <1>2 DEF Crash, Restart
<1>3. QED
  BY <1>1, <1>2, CollectorFrame, SenderFrame, ControlFrame, VarsFrame
  DEF Next, Finished

\* What a transaction stores: one message about the item in hand, younger than
\* all others, and its threshold event when the window raised one.
LEMMA StoreReports ==
  ASSUME IInv, BuiltOK, Store
  PROVE  \E m \in Messages :
           /\ m = BuiltFrom(item, m.seq)
           /\ \A n \in spooled : n.seq < m.seq
           /\ spooled' = IF Alarming
                         THEN spooled \cup {m, ThresholdEvent(item, m.seq)}
                         ELSE spooled \cup {m}
           /\ Alarming => ThresholdEvent(item, m.seq) \in Messages
<1>0. TypeOK /\ HandOK /\ SequenceOK /\ spc = "store"
  BY DEF IInv, SafeOK, Store
<1>1. /\ built \in Seq(Messages) /\ Len(built) \in 1..2
      /\ spooled' = spooled \cup {built[i] : i \in 1..Len(built)}
  BY <1>0, StoreEffect DEF TypeOK, SpoolerTypes
<1>2. /\ built[1] \in Messages /\ built[1] = BuiltFrom(item, built[1].seq)
      /\ \A n \in spooled : n.seq < built[1].seq
  BY <1>0, <1>1 DEF BuiltOK, SequenceOK
<1>3. CASE Alarming
  <2>1. Len(built) = 2 /\ built[2] = ThresholdEvent(item, built[1].seq)
    BY <1>0, <1>3 DEF BuiltOK
  <2>2. {built[i] : i \in 1..Len(built)} = {built[1], built[2]}
    BY <2>1
  <2>3. built[2] \in Messages
    BY <1>1, <2>1
  <2>4. QED BY <1>1, <1>2, <1>3, <2>1, <2>2, <2>3
<1>4. CASE ~Alarming
  <2>1. Len(built) = 1
    BY <1>0, <1>4 DEF BuiltOK
  <2>2. {built[i] : i \in 1..Len(built)} = {built[1]}
    BY <2>1
  <2>3. QED BY <1>1, <1>2, <1>4, <2>2
<1>5. QED BY <1>3, <1>4

\* The item in hand of which StoreReports speaks.
LEMMA StoresItem ==
  ASSUME IInv, Store
  PROVE  item \in HandItems /\ item # NoneItem
BY DEF IInv, TypeOK, SpoolerTypes, HandOK, Store

LEMMA EventFollowsStep ==
  ASSUME IInv, BuiltOK, EventFollowsTelemetry, [Next]_vars
  PROVE  EventFollowsTelemetry'
<1>1. CASE Store
  <2>1. PICK m \in Messages :
          /\ m = BuiltFrom(item, m.seq)
          /\ spooled' = IF Alarming
                        THEN spooled \cup {m, ThresholdEvent(item, m.seq)}
                        ELSE spooled \cup {m}
    BY <1>1, StoreReports
  <2>2. m.seq \in Nat /\ item \in HandItems /\ item # NoneItem
    BY <1>1, StoresItem DEF Messages
  <2>3. m.kind # "THRESHOLD_EXCEEDED"
    <3>1. item.kind \in {"window", "incomplete"} \cup Transitions
      BY <2>2 DEF HandItems, TransitionItems, NoneItem
    <3>2. QED BY <2>1, <2>2, <3>1, BuiltFields DEF Transitions
  <2>4. ASSUME Alarming
        PROVE  LET e == ThresholdEvent(item, m.seq) IN
               /\ m.kind = "telemetry" /\ m.status = e.status
               /\ m.no = e.no /\ m.seq = e.related /\ e.seq = m.seq + 1
    BY <2>1, <2>2, <2>4, BuiltFields
    DEF Alarming, OfWindow, ThresholdEvent, Message
  <2>5. ASSUME NEW e \in spooled', e.kind = "THRESHOLD_EXCEEDED"
        PROVE  \E t \in spooled' :
                 /\ t.kind = "telemetry" /\ t.status = e.status
                 /\ t.no = e.no /\ t.seq = e.related /\ e.seq = t.seq + 1
    <3>1. CASE e \in spooled
      BY <2>1, <2>5, <3>1 DEF EventFollowsTelemetry
    <3>2. CASE e \notin spooled
      <4>1. Alarming /\ e = ThresholdEvent(item, m.seq) /\ m \in spooled'
        BY <2>1, <2>3, <2>5, <3>2
      <4>2. QED BY <2>4, <4>1
    <3>3. QED BY <3>1, <3>2
  <2>6. QED BY <2>5 DEF EventFollowsTelemetry
<1>2. CASE ~Store
  BY <1>2, OnlyStoreAdds DEF EventFollowsTelemetry
<1>3. QED BY <1>1, <1>2
-----------------------------------------------------------------------------
(* Windows keep their order from the collector to the outbox.              *)

\* The collector holds the newest window from its completion until put()
\* took it or the collector gave it up.
HandoffOK ==
  /\ collected # NoneItem <=> cpc \in {"put", "overflow"}
  /\ collected # NoneItem => collected.no = window_no /\ window_no > 0

Collected(n) == n <= window_no /\ (collected # NoneItem => n < window_no)

\* Window n is older than all that the spooler has not taken yet.
Ahead(n) ==
  /\ Collected(n)
  /\ \A i \in 1..Len(summary_queue) :
       OfWindow(summary_queue[i]) => n < summary_queue[i].no

QueueInOrder ==
  \A i, j \in 1..Len(summary_queue) :
    i < j /\ OfWindow(summary_queue[i]) /\ OfWindow(summary_queue[j]) =>
      summary_queue[i].no < summary_queue[j].no

QueueWindows ==
  \A i \in 1..Len(summary_queue) : OfWindow(summary_queue[i]) =>
    0 < summary_queue[i].no /\ Collected(summary_queue[i].no)

ItemAhead == OfWindow(item) => 0 < item.no /\ Ahead(item.no)

StoredAhead == \A m \in spooled : Ahead(m.no)

ItemNewest ==
  OfWindow(item) /\ spc # "wake" => \A m \in spooled : m.no < item.no

OrderOK ==
  /\ QueueWindows /\ QueueInOrder /\ ItemAhead /\ StoredAhead /\ ItemNewest

LEMMA HandoffStep ==
  ASSUME IInv, HandoffOK, [Next]_vars
  PROVE  HandoffOK'
<1>0. collected \in Items \cup {NoneItem} /\ window_no \in Nat
  BY DEF IInv, TypeOK, CollectorTypes
<1>1. CASE CollectWindow
  <2>1. /\ window_no' = window_no + 1 /\ cpc' = "put"
        /\ collected'.no = window_no + 1 /\ collected' # NoneItem
    BY <1>1 DEF CollectWindow, NoneItem
  <2>2. QED BY <1>0, <2>1 DEF HandoffOK
<1>2. CASE /\ Collector \/ CollectorFault
           /\ ~CollectWindow
  BY <1>2
  DEF HandoffOK, Collector, CollectorFault, CollectEnd, PutWindow, PutFull,
      AfterFull, PillCheck, PutNone, CollectorFailed, Left
<1>3. CASE UNCHANGED <<cpc, collected, window_no>>
  BY <1>3 DEF HandoffOK
<1>4. CASE Start \/ Flush \/ StopCollector \/ Stop
  <2>1. cpc' = cpc \/ (cpc' = "collect" /\ cpc = "new")
    BY <1>4 DEF Start, Flush, StopCollector, Stop, StopSpooler, StopSender,
       StopReturns, IInv, HandOK
  <2>2. QED BY <1>4, <2>1, ControlFrame DEF HandoffOK
<1>5. CASE Restart
  BY <1>5 DEF Restart, AllDone, HandoffOK
<1>6. CASE Crash
  BY <1>6 DEF Crash, HandoffOK
<1>7. QED
  BY <1>1, <1>2, <1>3, <1>4, <1>5, <1>6, SpoolerFrame, SenderFrame, VarsFrame
  DEF Next, Finished

LEMMA TailSeq ==
  ASSUME NEW S, NEW s \in Seq(S), s # <<>>
  PROVE  /\ Head(s) = s[1] /\ Head(s) \in S /\ 1 \in 1..Len(s)
         /\ Tail(s) \in Seq(S) /\ Len(Tail(s)) = Len(s) - 1
         /\ \A i \in 1..Len(Tail(s)) : Tail(s)[i] = s[i + 1] /\ i + 1 \in 1..Len(s)
OBVIOUS

\* What the elements of the queue are.
LEMMA QueueElements ==
  ASSUME TypeOK
  PROVE  /\ summary_queue \in Seq(Items \cup {NoneItem})
         /\ Len(summary_queue) \in Nat /\ window_no \in Nat
         /\ \A i \in 1..Len(summary_queue) :
              /\ summary_queue[i] \in Items \cup {NoneItem}
              /\ OfWindow(summary_queue[i]) => summary_queue[i].no \in Nat
              /\ OfWindow(summary_queue[i]) <=> summary_queue[i] # NoneItem
<1>1. /\ summary_queue \in Seq(Items \cup {NoneItem})
      /\ Len(summary_queue) \in Nat /\ window_no \in Nat
  BY DEF TypeOK, QueueTypes, CollectorTypes
<1>2. \A x \in Items \cup {NoneItem} :
        (OfWindow(x) => x.no \in Nat) /\ (OfWindow(x) <=> x # NoneItem)
  BY DEF Items, NoneItem, OfWindow
<1>3. \A i \in 1..Len(summary_queue) : summary_queue[i] \in Items \cup {NoneItem}
  BY <1>1
<1>4. QED BY <1>1, <1>2, <1>3

LEMMA OrderNumbers ==
  ASSUME TypeOK
  PROVE  /\ window_no \in Nat
         /\ \A m \in spooled : m.no \in Nat
         /\ OfWindow(item) => item.no \in Nat
<1>1. window_no \in Nat /\ \A m \in spooled : m.no \in Nat
  BY DEF TypeOK, CollectorTypes, BlackboxTypes, Messages
<1>2. item \in HandItems
  BY DEF TypeOK, SpoolerTypes
<1>3. OfWindow(item) => item.no \in Nat
  BY <1>2 DEF OfWindow, HandItems, TransitionItems, Transitions, NoneItem
<1>4. QED BY <1>1, <1>3

\* The collector's window enters the queue as its newest; None is no window.
LEMMA PutOrder ==
  ASSUME IInv, HandoffOK, OrderOK,
         NEW x \in {collected, NoneItem},
         summary_queue' = Append(summary_queue, x),
         collected' = NoneItem,
         UNCHANGED <<window_no, item, spc, spooled>>
  PROVE  OrderOK'
<1>0. TypeOK
  BY DEF IInv
<1> DEFINE n == Len(summary_queue)
<1>1. /\ collected \in Items \cup {NoneItem}
      /\ OfWindow(x) => collected # NoneItem /\ x.no = window_no /\ window_no > 0
  BY <1>0 DEF TypeOK, CollectorTypes, HandoffOK, NoneItem, OfWindow
<1>2. /\ Len(summary_queue') = n + 1 /\ n \in Nat
      /\ \A i \in 1..n : summary_queue'[i] = summary_queue[i]
      /\ summary_queue'[n + 1] = x
  BY <1>0, <1>1, QueueElements, ShortSeqs
<1>3. \A i \in 1..(n + 1) : i \in 1..n \/ i = n + 1
  BY <1>2
<1>4. ASSUME NEW k \in Nat, Ahead(k) PROVE Ahead(k)'
  BY <1>0, <1>1, <1>2, <1>3, <1>4, QueueElements DEF Ahead, Collected
<1>5. QueueInOrder'
  <2> SUFFICES ASSUME NEW i \in 1..(n + 1), NEW j \in 1..(n + 1), i < j,
                      OfWindow(summary_queue[i])', OfWindow(summary_queue[j])'
               PROVE  summary_queue'[i].no < summary_queue'[j].no
    BY <1>2 DEF QueueInOrder
  <2>1. i \in 1..n /\ summary_queue'[i] = summary_queue[i]
    BY <1>2
  <2>2. CASE j \in 1..n
    BY <1>2, <2>1, <2>2 DEF OrderOK, QueueInOrder, OfWindow
  <2>3. CASE j = n + 1
    <3>1. summary_queue[i].no < window_no
      BY <1>1, <1>2, <2>1, <2>3
      DEF OrderOK, QueueWindows, Collected, OfWindow
    <3>2. QED BY <1>1, <1>2, <2>1, <2>3, <3>1 DEF OfWindow
  <2>4. QED BY <1>3, <2>2, <2>3
<1>6. QueueWindows'
  <2> SUFFICES ASSUME NEW i \in 1..(n + 1), OfWindow(summary_queue[i])'
               PROVE  /\ 0 < summary_queue'[i].no
                      /\ summary_queue'[i].no <= window_no
    BY <1>2 DEF QueueWindows, Collected
  <2>1. CASE i \in 1..n
    BY <1>2, <2>1 DEF OrderOK, QueueWindows, Collected, OfWindow
  <2>2. CASE i = n + 1
    BY <1>0, <1>1, <1>2, <2>2, QueueElements DEF OfWindow
  <2>3. QED BY <1>3, <2>1, <2>2
<1>7. ItemAhead' /\ StoredAhead' /\ ItemNewest'
  BY <1>0, <1>4, OrderNumbers
  DEF OrderOK, ItemAhead, StoredAhead, ItemNewest, OfWindow
<1>8. QED BY <1>5, <1>6, <1>7 DEF OrderOK

\* What frees the collector, or changes nothing the order depends on.
LEMMA OrderFrame ==
  ASSUME OrderOK,
         UNCHANGED <<window_no, summary_queue, spooled>>,
         item' = item \/ ~OfWindow(item)',
         collected' = collected \/ collected' = NoneItem,
         OfWindow(item)' => spc' = spc \/ spc # "wake"
  PROVE  OrderOK'
<1>1. ASSUME NEW k, Collected(k) PROVE Collected(k)'
  BY <1>1 DEF Collected
<1>2. ASSUME NEW k, Ahead(k) PROVE Ahead(k)'
  BY <1>1, <1>2 DEF Ahead, OfWindow
<1>3. QueueInOrder' /\ QueueWindows'
  BY <1>1 DEF OrderOK, QueueInOrder, QueueWindows, OfWindow
<1>4. ItemAhead' /\ StoredAhead' /\ ItemNewest'
  BY <1>2 DEF OrderOK, ItemAhead, StoredAhead, ItemNewest, OfWindow
<1>5. QED BY <1>3, <1>4 DEF OrderOK

LEMMA CollectOrder ==
  ASSUME IInv, HandoffOK, OrderOK, CollectWindow
  PROVE  OrderOK'
<1>0. TypeOK
  BY DEF IInv
<1>1. /\ UNCHANGED <<summary_queue, item, spooled, spc>>
      /\ window_no' = window_no + 1 /\ collected = NoneItem
  BY CollectorFrame DEF Collector, CollectWindow, HandoffOK
<1>2. ASSUME NEW k \in Nat, Collected(k) PROVE Collected(k)'
  BY <1>0, <1>1, <1>2, OrderNumbers DEF Collected
<1>3. ASSUME NEW k \in Nat, Ahead(k) PROVE Ahead(k)'
  BY <1>1, <1>2, <1>3 DEF Ahead, OfWindow
<1>4. QueueInOrder' /\ QueueWindows'
  BY <1>0, <1>1, <1>2, QueueElements
  DEF OrderOK, QueueInOrder, QueueWindows, OfWindow
<1>5. ItemAhead' /\ StoredAhead' /\ ItemNewest'
  BY <1>0, <1>1, <1>3, OrderNumbers
  DEF OrderOK, ItemAhead, StoredAhead, ItemNewest, OfWindow
<1>6. QED BY <1>4, <1>5 DEF OrderOK

\* What TakeItem makes of the head of the queue.
LEMMA TakeEffect ==
  ASSUME IInv, TakeItem
  PROVE  \E h \in Items \cup {NoneItem} :
           /\ h = Head(summary_queue) /\ h = summary_queue[1]
           /\ h.kind = "none" =>
                /\ item' = NoneItem /\ spc' = "done"
                /\ previous_status' = previous_status
           /\ h.kind = "incomplete" =>
                /\ item' = h /\ spc' = "reserve"
                /\ previous_status' = previous_status
           /\ h.kind = "window" =>
                /\ item' = [kind |-> "window", status |-> h.status, no |-> h.no,
                            emit |-> Emits(previous_status, h.status)]
                /\ spc' = "reserve" /\ previous_status' = h.status
<1>1. TypeOK /\ item = NoneItem /\ summary_queue # <<>>
  BY DEF IInv, HandOK, TakeItem
<1>2. PICK h : h = Head(summary_queue)
  OBVIOUS
<1>3. h \in Items \cup {NoneItem} /\ h = summary_queue[1]
  BY <1>1, <1>2, QueueElements, TailSeq
<1>4. h.kind = "none" => /\ item' = NoneItem /\ spc' = "done"
                         /\ previous_status' = previous_status
  BY <1>1, <1>2 DEF TakeItem
<1>5. h.kind = "incomplete" => /\ item' = h /\ spc' = "reserve"
                               /\ previous_status' = previous_status
  BY <1>2 DEF TakeItem
<1>6. h.kind = "window" =>
        /\ item' = [kind |-> "window", status |-> h.status, no |-> h.no,
                    emit |-> Emits(previous_status, h.status)]
        /\ spc' = "reserve" /\ previous_status' = h.status
  BY <1>2 DEF TakeItem
<1>7. QED BY <1>2, <1>3, <1>4, <1>5, <1>6

\* The spooler takes the oldest window; None ends it.
LEMMA TakeOrder ==
  ASSUME IInv, OrderOK, TakeItem
  PROVE  OrderOK'
<1>0. TypeOK /\ HandOK
  BY DEF IInv
<1>1. /\ UNCHANGED <<window_no, collected, spooled>>
      /\ summary_queue # <<>> /\ summary_queue' = Tail(summary_queue)
  BY <1>0, SpoolerFrame DEF Spooler, TakeItem, HandOK
<1>2. PICK h \in Items \cup {NoneItem} :
        /\ h = summary_queue[1]
        /\ h.kind = "none" => item' = NoneItem
        /\ h.kind = "incomplete" => item' = h
        /\ h.kind = "window" =>
             item' = [kind |-> "window", status |-> h.status, no |-> h.no,
                      emit |-> Emits(previous_status, h.status)]
  BY TakeEffect
<1>3. OfWindow(item)' => OfWindow(h) /\ item'.no = h.no
  <2>1. h.kind \in {"none", "incomplete", "window"}
    BY DEF Items, NoneItem
  <2>2. CASE h.kind = "none"
    BY <1>2, <2>2 DEF OfWindow, NoneItem
  <2>3. CASE h.kind = "incomplete"
    BY <1>2, <2>3 DEF OfWindow
  <2>4. CASE h.kind = "window"
    BY <1>2, <2>4 DEF OfWindow
  <2>5. QED BY <2>1, <2>2, <2>3, <2>4
<1>4. /\ 1 \in 1..Len(summary_queue)
      /\ \A i \in 1..Len(summary_queue') :
           /\ summary_queue'[i] = summary_queue[i + 1]
           /\ i + 1 \in 1..Len(summary_queue) /\ 1 < i + 1 /\ i \in Nat
  BY <1>0, <1>1, QueueElements, TailSeq
<1>5. ASSUME NEW k, Ahead(k) PROVE Ahead(k)'
  BY <1>1, <1>4, <1>5 DEF Ahead, Collected, OfWindow
<1>6. QueueInOrder'
  <2> SUFFICES ASSUME NEW i \in 1..Len(summary_queue'),
                      NEW j \in 1..Len(summary_queue'), i < j,
                      OfWindow(summary_queue[i])', OfWindow(summary_queue[j])'
               PROVE  summary_queue'[i].no < summary_queue'[j].no
    BY DEF QueueInOrder
  <2>1. i + 1 < j + 1
    BY <1>4
  <2>2. QED BY <1>4, <2>1 DEF OrderOK, QueueInOrder, OfWindow
<1>7. QueueWindows'
  BY <1>1, <1>4 DEF OrderOK, QueueWindows, Collected, OfWindow
<1>8. ASSUME OfWindow(h)
      PROVE  /\ 0 < h.no /\ Ahead(h.no)' /\ \A m \in spooled : m.no < h.no
  <2>1. /\ 0 < h.no /\ Collected(h.no)
        /\ \A m \in spooled : m.no < h.no
    BY <1>2, <1>4, <1>8 DEF OrderOK, QueueWindows, StoredAhead, Ahead
  <2>2. ASSUME NEW i \in 1..Len(summary_queue'), OfWindow(summary_queue[i])'
        PROVE  h.no < summary_queue'[i].no
    BY <1>2, <1>4, <1>8, <2>2 DEF OrderOK, QueueInOrder, OfWindow
  <2>3. QED BY <1>1, <2>1, <2>2 DEF Ahead, Collected
<1>9. ItemAhead' /\ ItemNewest'
  BY <1>1, <1>3, <1>8 DEF ItemAhead, ItemNewest
<1>10. StoredAhead'
  BY <1>1, <1>5 DEF OrderOK, StoredAhead
<1>11. QED BY <1>6, <1>7, <1>9, <1>10 DEF OrderOK

LEMMA StoreOrder ==
  ASSUME IInv, BuiltOK, HandoffOK, OrderOK, Store
  PROVE  OrderOK'
<1>0. TypeOK /\ item \in HandItems /\ item # NoneItem
  BY StoresItem DEF IInv
<1>1. /\ UNCHANGED <<window_no, summary_queue, item, collected>>
      /\ spc' = "wake"
  BY SpoolerFrame DEF Spooler, Store
<1>2. PICK m \in Messages :
        /\ m = BuiltFrom(item, m.seq)
        /\ spooled' = IF Alarming
                      THEN spooled \cup {m, ThresholdEvent(item, m.seq)}
                      ELSE spooled \cup {m}
  BY StoreReports
<1>3. m.no = IF OfWindow(item) THEN item.no ELSE 0
  <2>1. m.seq \in Nat
    BY DEF Messages
  <2>2. QED BY <1>0, <1>2, <2>1, BuiltFields
<1>4. Alarming => OfWindow(item) /\ ThresholdEvent(item, m.seq).no = item.no
  BY DEF Alarming, OfWindow, ThresholdEvent, Message
<1>5. Ahead(0)
  BY <1>0, QueueElements
  DEF Ahead, Collected, OrderOK, QueueWindows, HandoffOK
<1>6. \A k \in spooled' : Ahead(k.no)
  <2>1. OfWindow(item) => Ahead(item.no)
    BY DEF OrderOK, ItemAhead
  <2>2. Ahead(m.no)
    BY <1>3, <1>5, <2>1
  <2>3. Alarming => Ahead(ThresholdEvent(item, m.seq).no)
    BY <1>4, <2>1
  <2>4. QED BY <1>2, <2>2, <2>3 DEF OrderOK, StoredAhead
<1>7. ASSUME NEW k, Ahead(k) PROVE Ahead(k)'
  BY <1>1, <1>7 DEF Ahead, Collected
<1>8. QueueInOrder' /\ QueueWindows'
  BY <1>1 DEF OrderOK, QueueInOrder, QueueWindows, Collected, OfWindow
<1>9. ItemAhead' /\ ItemNewest'
  BY <1>1, <1>7 DEF OrderOK, ItemAhead, ItemNewest
<1>10. StoredAhead'
  BY <1>6, <1>7 DEF StoredAhead
<1>11. QED BY <1>8, <1>9, <1>10 DEF OrderOK

LEMMA OrderStep ==
  ASSUME IInv, BuiltOK, HandoffOK, OrderOK, [Next]_vars
  PROVE  OrderOK'
<1>0. TypeOK /\ HandOK
  BY DEF IInv
<1>1. CASE CollectWindow
  BY <1>1, CollectOrder
<1>2. CASE PutWindow \/ PutNone
  <2>1. UNCHANGED <<item, spc, spooled>>
    BY <1>2, CollectorFrame DEF Collector
  <2>2. CASE PutWindow
    BY <2>1, <2>2, PutOrder DEF PutWindow
  <2>3. CASE PutNone /\ Len(summary_queue) < QueueMax
    BY <2>1, <2>3, PutOrder DEF PutNone, HandoffOK
  <2>4. CASE PutNone /\ ~(Len(summary_queue) < QueueMax)
    BY <2>1, <2>4, OrderFrame DEF PutNone
  <2>5. QED BY <1>2, <2>2, <2>3, <2>4
<1>3. CASE /\ Collector \/ CollectorFault
           /\ ~CollectWindow /\ ~PutWindow /\ ~PutNone
  <2>1. /\ UNCHANGED <<window_no, summary_queue>>
        /\ collected' = collected \/ collected' = NoneItem
    BY <1>3 DEF Collector, CollectorFault, CollectEnd, PutFull, AfterFull,
       PillCheck, CollectorFailed
  <2>2. QED BY <1>3, <2>1, CollectorFrame, OrderFrame
<1>4. CASE TakeItem
  BY <1>4, TakeOrder
<1>5. CASE Store
  BY <1>5, StoreOrder
<1>6. CASE /\ Spooler \/ SpoolerFault \/ CallbackFault
           /\ ~TakeItem /\ ~Store
  <2>1. UNCHANGED <<summary_queue, spooled>>
    BY <1>6 DEF Spooler, SpoolerFault, CallbackFault, SpoolerCheck,
       TakeTransition, GetTimeout, Reserve, ReserveEvent, Wake, SpoolerFailed
  <2>2. item' = item \/ ~OfWindow(item)'
    <3>1. CASE TakeTransition
      <4>1. \/ item' = item
            \/ transition_queue # <<>> /\ item' = Head(transition_queue)
        BY <3>1 DEF TakeTransition
      <4>2. transition_queue # <<>> => Head(transition_queue) \in TransitionItems
        BY <1>0, TailSeq DEF TypeOK, QueueTypes
      <4>3. QED BY <4>1, <4>2 DEF OfWindow, TransitionItems, Transitions
    <3>2. CASE ~TakeTransition
      BY <1>6, <3>2 DEF Spooler, SpoolerFault, CallbackFault, SpoolerCheck,
         GetTimeout, Reserve, ReserveEvent, Wake, SpoolerFailed, OfWindow,
         NoneItem
    <3>3. QED BY <3>1, <3>2
  <2>3. OfWindow(item)' => spc # "wake"
    BY <1>6 DEF Spooler, SpoolerFault, CallbackFault, SpoolerCheck,
       TakeTransition, GetTimeout, Reserve, ReserveEvent, Wake, SpoolerFailed,
       OfWindow, NoneItem
  <2>4. QED BY <1>6, <2>1, <2>2, <2>3, SpoolerFrame, OrderFrame
<1>7. CASE Start \/ Flush \/ StopCollector \/ Stop
  <2>1. spc' = spc \/ spc # "wake"
    BY <1>0, <1>7 DEF Start, Flush, StopCollector, Stop, StopSpooler,
       StopSender, StopReturns, HandOK
  <2>2. QED BY <1>7, <2>1, ControlFrame, OrderFrame
<1>8. CASE Restart
  BY <1>8, OrderFrame DEF Restart, AllDone
<1>9. CASE Crash
  <2>1. /\ summary_queue' = <<>> /\ item' = NoneItem /\ collected' = NoneItem
        /\ UNCHANGED <<spooled, window_no>> /\ Len(summary_queue') = 0
    BY <1>9 DEF Crash
  <2>2. ~OfWindow(item)' /\ \A i \in 1..Len(summary_queue') : FALSE
    BY <2>1 DEF OfWindow, NoneItem
  <2>3. ASSUME NEW k, Ahead(k) PROVE Ahead(k)'
    BY <2>1, <2>2, <2>3 DEF Ahead, Collected
  <2>4. QED BY <2>1, <2>2, <2>3 DEF OrderOK, QueueWindows, QueueInOrder,
     ItemAhead, StoredAhead, ItemNewest
<1>10. CASE Sender \/ WaitTimeout \/ SenderFault
  BY <1>10, SenderFrame, OrderFrame
<1>11. CASE UNCHANGED vars
  BY <1>11, VarsFrame, OrderFrame
<1>12. QED
  BY <1>1, <1>2, <1>3, <1>4, <1>5, <1>6, <1>7, <1>8, <1>9, <1>10, <1>11
  DEF Next, Finished

LEMMA WindowsStep ==
  ASSUME IInv, BuiltOK, HandoffOK, OrderOK, WindowsInOrder, [Next]_vars
  PROVE  WindowsInOrder'
<1>1. CASE Store
  <2>1. PICK m \in Messages :
          /\ m = BuiltFrom(item, m.seq)
          /\ \A n \in spooled : n.seq < m.seq
          /\ spooled' = IF Alarming
                        THEN spooled \cup {m, ThresholdEvent(item, m.seq)}
                        ELSE spooled \cup {m}
    BY <1>1, StoreReports
  <2>2. /\ m.seq \in Nat /\ item \in HandItems /\ item # NoneItem
        /\ \A n \in spooled : n.seq \in Nat /\ n.no \in Nat
        /\ spc = "store"
    BY <1>1, StoresItem
    DEF Messages, IInv, TypeOK, BlackboxTypes, Store
  <2>3. m.no = IF OfWindow(item) THEN item.no ELSE 0
    BY <2>1, <2>2, BuiltFields
  <2>4. OfWindow(item) => /\ item.no \in Nat /\ 0 < item.no
                          /\ \A n \in spooled : n.no < item.no
    BY <2>2, OrderNumbers DEF IInv, OrderOK, ItemAhead, ItemNewest
  <2>5. Alarming => /\ OfWindow(item)
                    /\ ThresholdEvent(item, m.seq).no = item.no
                    /\ ThresholdEvent(item, m.seq).seq = m.seq + 1
    BY DEF Alarming, OfWindow, ThresholdEvent, Message
  <2>6. \A n \in spooled' : \/ n \in spooled
                            \/ n.no = m.no /\ n.seq \in {m.seq, m.seq + 1}
    BY <2>1, <2>3, <2>5
  <2>7. ASSUME NEW p \in spooled', NEW q \in spooled', p.no > 0, p.no < q.no
        PROVE  p.seq < q.seq
    <3>1. CASE p \in spooled /\ q \in spooled
      BY <2>7, <3>1 DEF WindowsInOrder
    <3>2. CASE p \in spooled /\ q \notin spooled
      BY <2>1, <2>2, <2>6, <3>2
    <3>3. CASE p \notin spooled /\ q \in spooled
      <4>1. p.no = m.no
        BY <2>6, <3>3
      <4>2. OfWindow(item) /\ q.no < p.no
        BY <2>3, <2>4, <2>7, <3>3, <4>1
      <4>3. QED BY <2>2, <2>3, <2>4, <2>7, <3>3, <4>1, <4>2
    <3>4. CASE p \notin spooled /\ q \notin spooled
      <4>1. p.no = m.no /\ q.no = m.no
        BY <2>6, <3>4
      <4>2. QED BY <2>3, <2>4, <2>7, <4>1
    <3>5. QED BY <3>1, <3>2, <3>3, <3>4
  <2>8. QED BY <2>7 DEF WindowsInOrder
<1>2. CASE ~Store
  BY <1>2, OnlyStoreAdds DEF WindowsInOrder
<1>3. QED BY <1>1, <1>2
-----------------------------------------------------------------------------
(* What holds of what the spooler builds and stores, in one invariant.     *)

ReportInv ==
  /\ BuiltOK /\ HandoffOK /\ OrderOK
  /\ EventFollowsTelemetry /\ WindowsInOrder

LEMMA ReportInit == Init => ReportInv
<1> SUFFICES ASSUME Init PROVE ReportInv
  OBVIOUS
<1> USE DEF Init
<1>1. BuiltOK /\ HandoffOK /\ EventFollowsTelemetry /\ WindowsInOrder
  BY DEF BuiltOK, HandoffOK, EventFollowsTelemetry, WindowsInOrder
<1>2. Len(summary_queue) = 0 /\ ~OfWindow(item)
  BY DEF OfWindow, NoneItem
<1>3. OrderOK
  BY <1>2 DEF OrderOK, QueueWindows, QueueInOrder, ItemAhead, StoredAhead,
     ItemNewest
<1>4. QED BY <1>1, <1>3 DEF ReportInv

LEMMA ReportInvariant == Spec => []ReportInv
<1>1. IInv /\ ReportInv /\ [Next]_vars => ReportInv'
  BY BuiltStep, HandoffStep, OrderStep, EventFollowsStep, WindowsStep
  DEF ReportInv
<1>2. QED BY <1>1, ReportInit, Invariant, PTL DEF Spec

\* A threshold event names, and directly follows, the telemetry of the window
\* that raised it: the two reservations and the one transaction of a window
\* are not interleaved with another's.
THEOREM EventFollows == Spec => []EventFollowsTelemetry
<1>1. ReportInv => EventFollowsTelemetry
  BY DEF ReportInv
<1>2. QED BY <1>1, ReportInvariant, PTL

\* What is stored about windows is numbered in the order of the windows,
\* through the queue, failures, restarts and crashes.
THEOREM WindowOrder == Spec => []WindowsInOrder
<1>1. ReportInv => WindowsInOrder
  BY DEF ReportInv
<1>2. QED BY <1>1, ReportInvariant, PTL
-----------------------------------------------------------------------------
(* A completed window is always somewhere, until something fails.          *)

Lost == worker_failure \/ collector_raised \/ spc = "raised"

\* What became of the window in the spooler's hand, and of a failure.
FateOK ==
  /\ spc = "wake" /\ OfWindow(item) => \E m \in spooled : m.no = item.no
  /\ cpc = "raised" => collector_raised
  /\ cpc = "done" /\ collector_raised => worker_failure
  /\ ctl = "new" => ~worker_failure /\ ~collector_raised

LEMMA FateStep ==
  ASSUME IInv, ReportInv, FateOK, [Next]_vars
  PROVE  FateOK'
<1>0. HandOK
  BY DEF IInv
<1>1. CASE Collector \/ CollectorFault
  <2>1. /\ cpc' = "raised" => collector_raised'
        /\ cpc' = "done" /\ collector_raised' => worker_failure'
    BY <1>1 DEF FateOK, Collector, CollectorFault, CollectWindow, CollectEnd,
       PutWindow, PutFull, AfterFull, PillCheck, PutNone, CollectorFailed,
       Left, RecordWorkerFailure, events
  <2>2. ctl # "new"
    BY <1>0, <1>1 DEF HandOK, Collector, CollectorFault, CollectWindow,
       CollectEnd, PutWindow, PutFull, AfterFull, PillCheck, PutNone,
       CollectorFailed
  <2>3. QED BY <1>1, <2>1, <2>2, CollectorFrame DEF FateOK, OfWindow
<1>2. CASE Store
  <2>1. PICK m \in Messages : m = BuiltFrom(item, m.seq) /\ m \in spooled'
    BY <1>2, StoreReports DEF ReportInv
  <2>2. OfWindow(item) => m.no = item.no
    BY <1>2, <2>1, StoresItem, BuiltFields DEF Messages
  <2>3. UNCHANGED <<item, worker_failure>>
    BY <1>2 DEF Store, events
  <2>4. QED BY <1>2, <2>1, <2>2, <2>3, SpoolerFrame DEF FateOK, Spooler, OfWindow
<1>3. CASE (Spooler /\ ~Store) \/ SpoolerFault \/ CallbackFault
  <2>1. spc' # "wake" /\ spc # "new"
    <3>1. CASE TakeItem
      <4>1. PICK h \in Items \cup {NoneItem} :
              /\ h.kind = "none" => spc' = "done"
              /\ h.kind \in {"incomplete", "window"} => spc' = "reserve"
        BY <3>1, TakeEffect
      <4>2. h.kind \in {"none", "incomplete", "window"}
        BY DEF Items, NoneItem
      <4>3. QED BY <3>1, <4>1, <4>2 DEF TakeItem
    <3>2. QED BY <1>3, <3>1 DEF Spooler, SpoolerFault, CallbackFault,
       SpoolerCheck, TakeTransition, GetTimeout, Reserve, ReserveEvent, Wake,
       SpoolerFailed
  <2>2. worker_failure => worker_failure'
    BY <1>3, WorkerSteps
  <2>3. ctl # "new"
    BY <1>0, <2>1 DEF HandOK
  <2>4. QED BY <1>3, <2>1, <2>2, <2>3, SpoolerFrame DEF FateOK
<1>4. CASE Sender \/ WaitTimeout \/ SenderFault
  <2>1. xpc # "new" /\ (worker_failure => worker_failure')
    BY <1>4, WorkerSteps DEF Sender, WaitTimeout, SenderFault, SenderLoop,
       WakeUp, ClearDrain, Fetch, SendSucceeds, SendFails, Ack, AfterSuccess,
       AfterFailure, SenderFailed
  <2>2. ctl # "new"
    BY <1>0, <2>1 DEF HandOK
  <2>3. QED BY <1>4, <2>1, <2>2, SenderFrame DEF FateOK, OfWindow
<1>5. CASE Start \/ Flush \/ StopCollector \/ Stop
  <2>1. ctl' # "new" /\ (spc' = spc \/ spc' = "check")
        /\ (cpc' = cpc \/ cpc' = "collect")
    BY <1>5 DEF Start, Flush, StopCollector, Stop, StopSpooler, StopSender,
       StopReturns
  <2>2. QED BY <1>5, <2>1, ControlFrame DEF FateOK, OfWindow
<1>6. CASE Restart
  BY <1>6 DEF Restart, FateOK
<1>7. CASE Crash
  BY <1>7 DEF Crash, FateOK
<1>8. CASE UNCHANGED vars
  BY <1>8, VarsFrame DEF FateOK, OfWindow
<1>9. QED
  BY <1>1, <1>2, <1>3, <1>4, <1>5, <1>6, <1>7, <1>8 DEF Next, Finished

\* What stays where it is, or has been stored, stays accounted for.
LEMMA AccountedFrame ==
  ASSUME NEW n, Accounted(n),
         collected' = collected \/ collected = NoneItem,
         \/ item' = item
         \/ ~OfWindow(item)
         \/ \E m \in spooled : m.no = item.no,
         summary_queue' = summary_queue,
         spooled \subseteq spooled'
  PROVE  Accounted(n)'
<1>1. CASE collected # NoneItem /\ collected.no = n
  BY <1>1 DEF Accounted
<1>2. CASE item.kind \in {"window", "incomplete"} /\ item.no = n
  BY <1>2 DEF Accounted, OfWindow
<1>3. CASE \E i \in 1..Len(summary_queue) :
             summary_queue[i] # NoneItem /\ summary_queue[i].no = n
  BY <1>3 DEF Accounted
<1>4. CASE \E m \in spooled : m.no = n
  BY <1>4 DEF Accounted
<1>5. QED BY <1>1, <1>2, <1>3, <1>4 DEF Accounted

\* put() moves the window from the collector's hand to the queue.
LEMMA AccountedPut ==
  ASSUME IInv, NEW n, Accounted(n), NEW x \in Items \cup {NoneItem},
         summary_queue' = Append(summary_queue, x),
         collected = NoneItem \/ x = collected,
         UNCHANGED <<item, spooled>>
  PROVE  Accounted(n)'
<1> DEFINE k == Len(summary_queue)
<1>1. /\ Len(summary_queue') = k + 1 /\ k \in Nat
      /\ \A i \in 1..k : summary_queue'[i] = summary_queue[i]
      /\ summary_queue'[k + 1] = x
  BY QueueElements, ShortSeqs DEF IInv
<1>2. \A i \in 1..k : i \in 1..Len(summary_queue')
  BY <1>1
<1>3. k + 1 \in 1..Len(summary_queue')
  BY <1>1
<1>4. CASE collected # NoneItem /\ collected.no = n
  BY <1>1, <1>3, <1>4 DEF Accounted
<1>5. CASE \E i \in 1..k : summary_queue[i] # NoneItem /\ summary_queue[i].no = n
  BY <1>1, <1>2, <1>5 DEF Accounted
<1>6. QED BY <1>4, <1>5 DEF Accounted

\* get() moves it from the queue to the spooler's hand.
LEMMA AccountedTake ==
  ASSUME IInv, NEW n, Accounted(n), TakeItem
  PROVE  Accounted(n)'
<1>1. /\ TypeOK /\ item = NoneItem /\ summary_queue # <<>>
      /\ summary_queue' = Tail(summary_queue)
      /\ UNCHANGED <<collected, spooled>>
  BY SpoolerFrame DEF IInv, HandOK, TakeItem, Spooler
<1>2. CASE \E i \in 1..Len(summary_queue) :
             summary_queue[i] # NoneItem /\ summary_queue[i].no = n
  <2>1. PICK i \in 1..Len(summary_queue) :
               summary_queue[i] # NoneItem /\ summary_queue[i].no = n
    BY <1>2
  <2>2. /\ Len(summary_queue') = Len(summary_queue) - 1
        /\ Len(summary_queue) \in Nat
        /\ \A j \in 1..Len(summary_queue') : summary_queue'[j] = summary_queue[j + 1]
    BY <1>1, QueueElements, TailSeq
  <2>3. CASE i = 1
    <3>1. PICK h \in Items \cup {NoneItem} :
            /\ h = summary_queue[1]
            /\ h.kind = "incomplete" => item' = h
            /\ h.kind = "window" =>
                 item' = [kind |-> "window", status |-> h.status, no |-> h.no,
                          emit |-> Emits(previous_status, h.status)]
      BY TakeEffect
    <3>2. h # NoneItem /\ h.no = n
      BY <2>1, <2>3, <3>1
    <3>3. h.kind \in {"window", "incomplete"}
      BY <3>2 DEF Items
    <3>4. item'.kind \in {"window", "incomplete"} /\ item'.no = n
      BY <3>1, <3>2, <3>3
    <3>5. QED BY <3>4 DEF Accounted
  <2>4. CASE i # 1
    <3>1. i - 1 \in 1..Len(summary_queue') /\ (i - 1) + 1 = i
      BY <2>2, <2>4
    <3>2. summary_queue'[i - 1] = summary_queue[i]
      BY <2>2, <3>1
    <3>3. QED BY <2>1, <3>1, <3>2 DEF Accounted
  <2>5. QED BY <2>3, <2>4
<1>3. QED BY <1>1, <1>2 DEF Accounted, NoneItem

LEMMA DropStep ==
  ASSUME IInv, ReportInv, FateOK, NoSilentDrop, [Next]_vars
  PROVE  NoSilentDrop'
<1>0. /\ TypeOK /\ HandOK /\ HandoffOK
      /\ window_no \in Nat /\ first_no \in Nat
      /\ collected \in Items \cup {NoneItem}
  BY DEF IInv, ReportInv, TypeOK, CollectorTypes
<1> SUFFICES ASSUME ~Lost' PROVE NoSilentDrop'
  BY DEF NoSilentDrop, Lost
<1>2. CASE Crash
  BY <1>0, <1>2 DEF Crash, NoSilentDrop
<1>3. CASE CollectWindow
  <2>1. /\ UNCHANGED <<item, summary_queue, spooled, first_no>> /\ ~Lost
        /\ collected = NoneItem /\ window_no' = window_no + 1
        /\ collected'.no = window_no + 1 /\ collected' # NoneItem
    BY <1>0, <1>3, CollectorFrame
    DEF Collector, CollectWindow, HandoffOK, Lost, events, NoneItem
  <2>2. ASSUME NEW n \in first_no' + 1 .. window_no' PROVE Accounted(n)'
    <3>1. CASE n = window_no + 1
      BY <2>1, <3>1 DEF Accounted
    <3>2. CASE n \in first_no + 1 .. window_no
      BY <2>1, <3>2, AccountedFrame DEF NoSilentDrop, Lost
    <3>3. QED BY <1>0, <2>1, <3>1, <3>2
  <2>3. QED BY <2>2 DEF NoSilentDrop
<1>4. CASE ~CollectWindow /\ ~Crash
  <2>1. ~Lost /\ UNCHANGED <<window_no, first_no>>
    <3>1. CASE Collector \/ CollectorFault
      <4>1. /\ collector_raised => collector_raised'
            /\ window_no' = window_no
        BY <1>4, <3>1
        DEF Collector, CollectorFault, CollectEnd, PutWindow, PutFull,
            AfterFull, PillCheck, PutNone, CollectorFailed
      <4>2. QED BY <3>1, <4>1, CollectorFrame, WorkerSteps DEF Lost
    <3>2. CASE Spooler \/ SpoolerFault \/ CallbackFault
      <4>1. spc = "raised" => worker_failure'
        BY <3>2
        DEF Spooler, SpoolerFault, CallbackFault, SpoolerCheck,
            TakeTransition, TakeItem, GetTimeout, Reserve, ReserveEvent, Store,
            Wake, SpoolerFailed, RecordWorkerFailure
      <4>2. QED BY <3>2, <4>1, SpoolerFrame, WorkerSteps DEF Lost
    <3>3. CASE Sender \/ WaitTimeout \/ SenderFault
      BY <3>3, SenderFrame, WorkerSteps DEF Lost
    <3>4. CASE Start \/ Flush \/ StopCollector \/ Stop
      <4>1. spc' = spc \/ spc # "raised"
        BY <1>0, <3>4
        DEF Start, Flush, StopCollector, Stop, StopSpooler, StopSender,
            StopReturns, HandOK
      <4>2. QED BY <3>4, <4>1, ControlFrame DEF Lost
    <3>5. CASE Restart
      BY <3>5 DEF Lost, Restart, AllDone, FateOK
    <3>6. CASE UNCHANGED vars
      BY <3>6, VarsFrame DEF Lost
    <3>7. QED
      BY <1>4, <3>1, <3>2, <3>3, <3>4, <3>5, <3>6 DEF Next, Finished
  <2> SUFFICES ASSUME NEW n, Accounted(n) PROVE Accounted(n)'
    BY <2>1 DEF NoSilentDrop, Lost
  <2>3. CASE PutWindow
    BY <1>0, <2>3, CollectorFrame, AccountedPut DEF PutWindow, Collector
  <2>4. CASE PutNone /\ Len(summary_queue) < QueueMax
    BY <1>0, <2>4, CollectorFrame, AccountedPut
    DEF PutNone, Collector, HandoffOK
  <2>5. CASE TakeItem
    BY <2>5, AccountedTake
  <2>6. CASE \/ PutNone /\ ~(Len(summary_queue) < QueueMax)
             \/ CollectEnd \/ PutFull \/ AfterFull \/ PillCheck
             \/ CollectorFailed \/ CollectorFault
    <3>1. UNCHANGED <<collected, summary_queue>>
      BY <2>6 DEF Lost, PutNone, CollectEnd, PutFull, AfterFull,
         PillCheck, CollectorFailed, CollectorFault
    <3>2. QED BY <2>6, <3>1, CollectorFrame, AccountedFrame DEF Collector
  <2>7. CASE (Spooler /\ ~TakeItem) \/ SpoolerFault \/ CallbackFault
    <3>1. /\ UNCHANGED summary_queue
          /\ spooled \subseteq spooled'
      BY <2>7 DEF Spooler, SpoolerFault, CallbackFault, SpoolerCheck,
         TakeTransition, GetTimeout, Reserve, ReserveEvent, Store, Wake,
         SpoolerFailed, EnqueueMany
    <3>2. \/ item' = item
          \/ ~OfWindow(item)
          \/ \E m \in spooled : m.no = item.no
      <4>1. CASE TakeTransition
        BY <1>0, <4>1 DEF TakeTransition, HandOK, OfWindow, NoneItem
      <4>2. CASE Wake
        BY <4>2 DEF Wake, FateOK
      <4>3. CASE ~TakeTransition /\ ~Wake
        BY <2>7, <4>3 DEF Lost, Spooler, SpoolerFault, CallbackFault,
           SpoolerCheck, GetTimeout, Reserve, ReserveEvent, Store,
           SpoolerFailed
      <4>4. QED BY <4>1, <4>2, <4>3
    <3>3. QED BY <2>7, <3>1, <3>2, SpoolerFrame, AccountedFrame
  <2>8. CASE Sender \/ WaitTimeout \/ SenderFault
    BY <2>8, SenderFrame, AccountedFrame
  <2>9. CASE Start \/ Flush \/ StopCollector \/ Stop
    BY <2>9, ControlFrame, AccountedFrame
  <2>10. CASE Restart
    BY <2>10, AccountedFrame DEF Restart
  <2>11. CASE UNCHANGED vars
    BY <2>11, VarsFrame, AccountedFrame
  <2>12. QED
    BY <1>4, <2>3, <2>4, <2>5, <2>6, <2>7, <2>8, <2>9, <2>10, <2>11
    DEF Next, Finished, Collector
<1>5. QED BY <1>2, <1>3, <1>4

LEMMA FateInvariant == Spec => [](FateOK /\ NoSilentDrop)
<1>1. Init => FateOK /\ NoSilentDrop
  BY DEF Init, FateOK, NoSilentDrop, OfWindow
<1>2. IInv /\ ReportInv /\ FateOK /\ NoSilentDrop /\ [Next]_vars
        => FateOK' /\ NoSilentDrop'
  BY FateStep, DropStep
<1>3. QED BY <1>1, <1>2, Invariant, ReportInvariant, PTL DEF Spec

\* A window this process completed is held by a thread, queued or stored,
\* unless a worker failed or gave it up: backpressure never drops one.
THEOREM NoneDropped == Spec => []NoSilentDrop
BY FateInvariant, PTL
-----------------------------------------------------------------------------
(* A stop() that met all its joins left nothing behind.                    *)

\* The None that ends the spooler comes after all windows, from a collector
\* that is done, and stop() reaches the spooler only then.
PillOK ==
  clean /\ ~worker_failure =>
    /\ \A i \in 1..Len(summary_queue) : summary_queue[i] = NoneItem =>
         i = Len(summary_queue) /\ cpc \in {"done", "raised"}
    /\ spc = "done" => summary_queue = <<>> /\ cpc \in {"done", "raised"}
    /\ stop_spooler => cpc = "done"

StopOK ==
  /\ ctl \in {"join_spooler", "join_sender", "stopped"} => stop_spooler
  /\ clean /\ ctl \in {"join_sender", "stopped"} => spc = "done"

LEMMA PillStep ==
  ASSUME IInv, HandoffOK, PillOK, StopOK, [Next]_vars
  PROVE  PillOK'
<1>0. TypeOK /\ HandOK
  BY DEF IInv
<1> DEFINE n == Len(summary_queue)
<1>1. SUFFICES ASSUME clean', ~worker_failure'
               PROVE  PillOK'
  BY DEF PillOK
<1>2. CASE UNCHANGED <<clean, worker_failure, summary_queue, cpc, spc, stop_spooler>>
  BY <1>2 DEF PillOK
<1>3. CASE Collector \/ CollectorFault
  <2>1. UNCHANGED <<clean, spc>> /\ cpc # "done"
    BY <1>3, CollectorFrame
    DEF Collector, CollectorFault, CollectWindow, CollectEnd, PutWindow,
        PutFull, AfterFull, PillCheck, PutNone, CollectorFailed
  <2>2. UNCHANGED <<worker_failure, stop_spooler>> /\ ~CollectorFailed
    BY <1>1, <1>3
    DEF Collector, CollectorFault, CollectWindow, CollectEnd, PutWindow,
        PutFull, AfterFull, PillCheck, PutNone, CollectorFailed,
        RecordWorkerFailure, events
  <2>3. ~stop_spooler /\ cpc # "raised"
    <3>1. ~stop_spooler
      BY <1>1, <2>1, <2>2 DEF PillOK
    <3>2. cpc # "raised"
      BY <1>3, <2>2
      DEF Collector, CollectorFault, CollectWindow, CollectEnd, PutWindow,
          PutFull, AfterFull, PillCheck, PutNone
    <3>3. QED BY <3>1, <3>2
  <2>4. /\ \A i \in 1..n : summary_queue[i] # NoneItem
        /\ spc # "done"
    BY <1>1, <2>1, <2>2, <2>3 DEF PillOK
  <2>5. CASE PutWindow \/ (PutNone /\ n < QueueMax)
    <3>1. PICK x \in Items \cup {NoneItem} :
            /\ summary_queue' = Append(summary_queue, x)
            /\ x = NoneItem => cpc' \in {"done", "raised"}
      <4>1. CASE PutWindow
        BY <1>0, <4>1 DEF PutWindow, HandoffOK, TypeOK, CollectorTypes
      <4>2. CASE PutNone /\ n < QueueMax
        BY <4>2 DEF PutNone, Left
      <4>3. QED BY <2>5, <4>1, <4>2
    <3>2. /\ Len(summary_queue') = n + 1 /\ n \in Nat
          /\ \A i \in 1..n : summary_queue'[i] = summary_queue[i]
          /\ summary_queue'[n + 1] = x
      BY <1>0, <3>1, QueueElements, ShortSeqs
    <3>3. \A i \in 1..(n + 1) : i \in 1..n \/ i = n + 1
      BY <3>2
    <3>4. \A i \in 1..(n + 1) : summary_queue'[i] = NoneItem =>
            i = n + 1 /\ x = NoneItem
      BY <2>4, <3>2, <3>3
    <3>5. QED BY <2>1, <2>2, <2>3, <2>4, <3>1, <3>2, <3>4 DEF PillOK
  <2>6. CASE ~PutWindow /\ ~(PutNone /\ n < QueueMax)
    <3>1. UNCHANGED summary_queue
      BY <1>3, <2>6 DEF Collector, CollectorFault, CollectWindow, CollectEnd,
         PutFull, AfterFull, PillCheck, PutNone, CollectorFailed
    <3>2. QED BY <2>1, <2>2, <2>3, <2>4, <3>1 DEF PillOK
  <2>7. QED BY <2>5, <2>6
<1>4. CASE TakeItem
  <2>1. /\ UNCHANGED <<clean, cpc, stop_spooler, worker_failure>>
        /\ summary_queue # <<>> /\ summary_queue' = Tail(summary_queue)
    BY <1>4, SpoolerFrame DEF TakeItem, Spooler, events
  <2>2. /\ Head(summary_queue) = summary_queue[1] /\ 1 \in 1..n /\ n \in Nat
        /\ Len(summary_queue') = n - 1
        /\ summary_queue' \in Seq(Items \cup {NoneItem})
        /\ \A i \in 1..Len(summary_queue') :
             /\ summary_queue'[i] = summary_queue[i + 1]
             /\ i + 1 \in 1..n /\ i \in Nat
    BY <1>0, <2>1, QueueElements, TailSeq
  <2>3. PICK h \in Items \cup {NoneItem} :
          /\ h = summary_queue[1]
          /\ h.kind = "none" => spc' = "done"
          /\ h.kind \in {"incomplete", "window"} => spc' = "reserve"
    BY <1>4, TakeEffect
  <2>4. spc' = "done" => h = NoneItem
    BY <2>3 DEF Items, NoneItem
  <2>5. h = NoneItem => n = 1 /\ cpc \in {"done", "raised"}
    BY <1>1, <2>1, <2>2, <2>3 DEF PillOK
  <2>6. n = 1 => summary_queue' = <<>>
    BY <2>2
  <2>7. ASSUME NEW i \in 1..Len(summary_queue'), summary_queue'[i] = NoneItem
        PROVE  i = Len(summary_queue') /\ cpc \in {"done", "raised"}
    <3>1. summary_queue[i + 1] = NoneItem /\ i + 1 \in 1..n /\ i \in Nat
      BY <2>2, <2>7
    <3>2. i + 1 = n /\ cpc \in {"done", "raised"}
      BY <1>1, <2>1, <3>1 DEF PillOK
    <3>3. QED BY <2>2, <3>1, <3>2
  <2>8. QED BY <1>1, <2>1, <2>4, <2>5, <2>6, <2>7 DEF PillOK
<1>5. CASE (Spooler /\ ~TakeItem) \/ SpoolerFault \/ CallbackFault
  <2>1. /\ UNCHANGED <<summary_queue, stop_spooler, worker_failure>>
        /\ spc' = "done" => summary_queue = <<>> /\ stop_spooler
    BY <1>1, <1>5
    DEF Spooler, SpoolerFault, CallbackFault, SpoolerCheck, TakeTransition,
        GetTimeout, Reserve, ReserveEvent, Store, Wake, SpoolerFailed,
        RecordWorkerFailure, SetDrain, events
  <2>2. UNCHANGED <<clean, cpc>>
    BY <1>5, SpoolerFrame
  <2>3. QED BY <1>1, <2>1, <2>2 DEF PillOK
<1>6. CASE Sender \/ WaitTimeout \/ SenderFault
  <2>1. UNCHANGED <<worker_failure, stop_spooler>>
    BY <1>1, <1>6
    DEF Sender, WaitTimeout, SenderFault, SenderLoop, WakeUp, ClearDrain,
        Fetch, SendSucceeds, SendFails, Ack, AfterSuccess, AfterFailure,
        SenderFailed, RecordWorkerFailure, events
  <2>2. QED BY <1>2, <1>6, <2>1, SenderFrame
<1>7. CASE Start
  BY <1>0, <1>1, <1>7, ControlFrame DEF Start, PillOK, HandOK
<1>8. CASE StopSpooler
  BY <1>1, <1>8, ControlFrame DEF Stop, StopSpooler, PillOK
<1>9. CASE Flush \/ StopCollector \/ StopSender \/ StopReturns
  <2>1. UNCHANGED <<cpc, spc, stop_spooler>> /\ clean
    BY <1>1, <1>9 DEF Flush, StopCollector, StopSender, StopReturns
  <2>2. QED BY <1>1, <1>9, <2>1, ControlFrame DEF Stop, PillOK
<1>10. CASE Restart
  <2>1. /\ UNCHANGED <<clean, worker_failure, summary_queue>> /\ spc = "done"
        /\ spc' = "check" /\ ~stop_spooler'
    BY <1>10 DEF Restart, AllDone
  <2>2. summary_queue = <<>> /\ n = 0
    BY <1>1, <2>1 DEF PillOK
  <2>3. QED BY <2>1, <2>2 DEF PillOK
<1>11. CASE Crash
  BY <1>11 DEF Crash, PillOK
<1>12. CASE UNCHANGED vars
  BY <1>2, <1>12, VarsFrame
<1>13. QED
  BY <1>3, <1>4, <1>5, <1>6, <1>7, <1>8, <1>9, <1>10, <1>11, <1>12
  DEF Next, Finished, Stop

LEMMA StopStep ==
  ASSUME IInv, StopOK, [Next]_vars
  PROVE  StopOK'
<1>0. HandOK
  BY DEF IInv
<1>1. CASE Collector \/ CollectorFault
  BY <1>1, CollectorFrame, WorkerSteps DEF StopOK
<1>2. CASE Spooler \/ SpoolerFault \/ CallbackFault
  <2>1. spc # "done"
    BY <1>2
    DEF Spooler, SpoolerFault, CallbackFault, SpoolerCheck, TakeTransition,
        TakeItem, GetTimeout, Reserve, ReserveEvent, Store, Wake,
        SpoolerFailed
  <2>2. QED BY <1>2, <2>1, SpoolerFrame, WorkerSteps DEF StopOK
<1>3. CASE Sender \/ WaitTimeout \/ SenderFault
  BY <1>3, SenderFrame, WorkerSteps DEF StopOK
<1>4. CASE Start \/ Flush \/ StopCollector \/ Restart \/ Crash
  BY <1>4 DEF Start, Flush, StopCollector, Restart, Crash, StopOK
<1>5. CASE Stop
  BY <1>5 DEF Stop, StopSpooler, StopSender, StopReturns, StopOK
<1>6. CASE UNCHANGED vars
  BY <1>6, VarsFrame DEF StopOK
<1>7. QED BY <1>1, <1>2, <1>3, <1>4, <1>5, <1>6 DEF Next, Finished

\* When stop() returned, every join was met and no worker failed, all windows
\* of the process are stored, whatever stop() and start() came before.
THEOREM StopDrains == Spec => []CleanStopDrains
<1>1. Init => PillOK /\ StopOK
  BY DEF Init, PillOK, StopOK
<1>2. IInv /\ ReportInv /\ PillOK /\ StopOK /\ [Next]_vars => PillOK' /\ StopOK'
  BY PillStep, StopStep DEF ReportInv
<1>3. IInv /\ ReportInv /\ FateOK /\ NoSilentDrop /\ PillOK /\ StopOK
        => CleanStopDrains
  <2> SUFFICES ASSUME IInv, ReportInv, FateOK, NoSilentDrop, PillOK, StopOK,
                      ctl = "stopped", clean, ~worker_failure
               PROVE  /\ summary_queue = <<>>
                      /\ \A n \in first_no + 1 .. window_no :
                           \E m \in spooled : m.no = n
    BY DEF CleanStopDrains
  <2>1. /\ spc = "done" /\ cpc = "done" /\ summary_queue = <<>>
        /\ Len(summary_queue) = 0
    BY DEF PillOK, StopOK
  <2>2. collected = NoneItem /\ item = NoneItem
    BY <2>1 DEF IInv, HandOK, ReportInv, HandoffOK
  <2>3. \A n \in first_no + 1 .. window_no : Accounted(n)
    BY <2>1 DEF FateOK, NoSilentDrop
  <2>4. ASSUME NEW n, Accounted(n) PROVE \E m \in spooled : m.no = n
    BY <2>1, <2>2, <2>4 DEF Accounted, NoneItem
  <2>5. QED BY <2>1, <2>3, <2>4
<1>4. QED
  BY <1>1, <1>2, <1>3, Invariant, ReportInvariant, FateInvariant, PTL DEF Spec
=============================================================================
