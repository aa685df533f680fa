------------------------- MODULE EdgeRuntimeProofs -------------------------
(***************************************************************************)
(* Theorems about EdgeRuntime, for every value of its constants: its       *)
(* types; the blackbox and the sender, whose numbers are never reused and  *)
(* whose rows are in sequence order; and that it implements                *)
(* OrderedDelivery.                                                        *)
(***************************************************************************)
EXTENDS EdgeRuntime, TLAPS

\* A step that only moves a program counter is always seen expanded.
USE DEF MoveCollector, MoveSpooler, MoveSender

\* No thread runs before start(); what the spooler holds, and how much of it
\* is built, at each of its steps.
HandOK ==
  /\ ctl = "new" => cpc = "new" /\ spc = "new" /\ xpc = "new"
  /\ spc = "reserve" => item # NoneItem /\ built = <<>>
  /\ spc = "reserve_event" => item.kind = "window" /\ Len(built) = 1
  /\ spc = "store" => Len(built) \in 1..2 /\ item # NoneItem
  /\ spc = "wake" => item # NoneItem
  /\ spc \in {"new", "check", "drain", "get", "raised", "done"} =>
       built = <<>> /\ item = NoneItem

-----------------------------------------------------------------------------
(* Types.                                                                  *)

LEMMA ItemTypes ==
  /\ \A n \in Nat : [kind |-> "incomplete", no |-> n] \in Items
  /\ \A st \in Statuses, n \in Nat :
       [kind |-> "window", status |-> st, no |-> n] \in Items
  /\ \A i \in Items : i # NoneItem /\ i.kind \in {"window", "incomplete"}
BY DEF Items, NoneItem

LEMMA InitTypes == Init => TypeOK /\ HandOK
<1> SUFFICES ASSUME Init PROVE TypeOK /\ HandOK
  OBVIOUS
<1> USE DEF Init
<1>1. BlackboxTypes /\ EventTypes
  BY DEF BlackboxTypes, EventTypes
<1>2. QueueTypes
  BY RuntimeAssumption DEF QueueTypes, RuntimeAssumption
<1>3. CollectorTypes
  BY DEF CollectorTypes
<1>4. SpoolerTypes
  BY DEF SpoolerTypes, HandItems, Statuses
<1>5. SenderTypes
  BY RuntimeAssumption DEF SenderTypes, RuntimeAssumption
<1>6. ControlTypes /\ HandOK
  BY DEF ControlTypes, HandOK
<1>7. QED BY <1>1, <1>2, <1>3, <1>4, <1>5, <1>6 DEF TypeOK

LEMMA CollectorStepTypes ==
  ASSUME TypeOK, HandOK, Collector \/ CollectorFault
  PROVE  TypeOK' /\ HandOK'
<1> USE DEF TypeOK
<1>1. UNCHANGED notCollector
  BY DEF Collector, CollectorFault, CollectWindow, CollectEnd, PutWindow,
         PutFull, AfterFull, PillCheck, PutNone, CollectorFailed
<1>2. BlackboxTypes' /\ SpoolerTypes' /\ SenderTypes' /\ HandOK'
  <2>1. cpc # "new"
    BY DEF Collector, CollectorFault, CollectWindow, CollectEnd, PutWindow,
           PutFull, AfterFull, PillCheck, PutNone, CollectorFailed
  <2>2. ctl # "new" /\ ctl' = ctl
    BY <1>1, <2>1 DEF HandOK, notCollector, control
  <2>3. QED
    BY <1>1, <2>2 DEF notCollector, blackbox, spooler, sender, BlackboxTypes,
                      SpoolerTypes, SenderTypes, HandOK
<1>3. transition_queue' = transition_queue
      /\ UNCHANGED <<control, crashes, stops, send_failures, first_no, outlived>>
  BY <1>1 DEF notCollector
<1>4. QueueTypes' /\ EventTypes' /\ CollectorTypes' /\ ControlTypes'
  <2> USE <1>3 DEF EventTypes, events, ControlTypes, control
  <2>1. CASE CollectWindow
    <3>1. collected' \in Items
      BY <2>1, ItemTypes, RuntimeAssumption
      DEF CollectWindow, CollectorTypes, RuntimeAssumption
    <3>2. QED BY <2>1, <3>1 DEF CollectWindow, CollectorTypes, QueueTypes
  <2>2. CASE CollectEnd
    BY <2>2 DEF CollectEnd, CollectorTypes, QueueTypes
  <2>3. CASE PutWindow
    <3>1. summary_queue' \in Seq(Items \cup {NoneItem})
          /\ Len(summary_queue') = Len(summary_queue) + 1
      BY <2>3 DEF PutWindow, CollectorTypes, QueueTypes
    <3>2. QueueTypes'
      BY <2>3, <3>1, RuntimeAssumption
      DEF PutWindow, QueueTypes, RuntimeAssumption
    <3>3. CollectorTypes' /\ EventTypes' /\ ControlTypes'
      BY <2>3 DEF PutWindow, CollectorTypes
    <3>4. QED BY <3>2, <3>3
  <2>4. CASE PutFull
    BY <2>4 DEF PutFull, CollectorTypes, QueueTypes
  <2>5. CASE AfterFull
    BY <2>5 DEF AfterFull, CollectorTypes, QueueTypes
  <2>6. CASE PillCheck
    BY <2>6 DEF PillCheck, Left, CollectorTypes, QueueTypes
  <2>7. CASE PutNone
    <3>1. summary_queue' \in Seq(Items \cup {NoneItem})
          /\ Len(summary_queue') <= QueueMax
      <4>1. CASE Len(summary_queue) < QueueMax
        <5>1. summary_queue' = Append(summary_queue, NoneItem)
          BY <2>7, <4>1 DEF PutNone
        <5>2. summary_queue' \in Seq(Items \cup {NoneItem})
              /\ Len(summary_queue') = Len(summary_queue) + 1
          BY <5>1 DEF QueueTypes
        <5>3. QED
          BY <4>1, <5>2, RuntimeAssumption DEF QueueTypes, RuntimeAssumption
      <4>2. CASE ~(Len(summary_queue) < QueueMax)
        BY <2>7, <4>2 DEF PutNone, QueueTypes
      <4>3. QED BY <4>1, <4>2
    <3>2. QueueTypes'
      BY <3>1 DEF QueueTypes
    <3>3. CollectorTypes' /\ EventTypes' /\ ControlTypes'
      BY <2>7 DEF PutNone, Left, CollectorTypes
    <3>4. QED BY <3>2, <3>3
  <2>8. CASE CollectorFailed
    BY <2>8 DEF CollectorFailed, RecordWorkerFailure, CollectorTypes,
                QueueTypes
  <2>9. CASE CollectorFault
    BY <2>9 DEF CollectorFault, CollectorTypes, QueueTypes
  <2>10. QED
    BY <2>1, <2>2, <2>3, <2>4, <2>5, <2>6, <2>7, <2>8, <2>9 DEF Collector
<1>5. QED BY <1>2, <1>4

LEMMA HandTypes ==
  /\ \A i \in Items : i.kind = "incomplete" => i \in HandItems
  /\ \A i \in Items : i.kind = "window" => i.status \in Statuses /\ i.no \in Nat
  /\ \A st \in Statuses, n \in Nat, b \in BOOLEAN :
       [kind |-> "window", status |-> st, no |-> n, emit |-> b] \in HandItems
  /\ \A t \in TransitionItems : t \in HandItems /\ t # NoneItem
BY DEF HandItems, Items, TransitionItems, Transitions, NoneItem

\* Sequences of one or two elements.
LEMMA ShortSeqs ==
  ASSUME NEW S, NEW s \in Seq(S), NEW e \in S
  PROVE  /\ Len(s) >= 1 => s[1] \in S
         /\ Len(s) = 2 => s[2] \in S
         /\ Append(s, e) \in Seq(S)
         /\ Len(Append(s, e)) = Len(s) + 1
         /\ Append(s, e)[Len(s) + 1] = e
         /\ \A i \in 1..Len(s) : Append(s, e)[i] = s[i]
OBVIOUS

LEMMA BuiltTypes ==
  \A i \in HandItems, n \in Nat :
    i # NoneItem => BuiltFrom(i, n) \in Messages /\ BuiltFrom(i, n).seq = n
BY DEF HandItems, BuiltFrom, Message, Messages, EventKinds, Transitions,
       TransitionItems, NoneItem, Statuses

Tables == [rows : SUBSET Rows, last : Nat]

LEMMA InsertOneTypes ==
  ASSUME NEW db \in Tables, NEW m \in Messages
  PROVE  InsertOrIgnore(db, m) \in Tables
<1>1. [id |-> db.last + 1, msg |-> m] \in Rows /\ db.last + 1 \in Nat
  BY DEF Rows, Tables
<1>2. [rows |-> db.rows \cup {[id |-> db.last + 1, msg |-> m]},
       last |-> db.last + 1] \in Tables
  BY <1>1 DEF Tables
<1>3. QED BY <1>2 DEF InsertOrIgnore

LEMMA InsertTypes ==
  ASSUME BlackboxTypes, NEW ms \in Seq(Messages), Len(ms) \in 1..2
  PROVE  /\ Inserted(ms).rows \subseteq Rows
         /\ Inserted(ms).last \in Nat
         /\ {ms[i] : i \in 1..Len(ms)} \subseteq Messages
<1>1. ms[1] \in Messages /\ (Len(ms) # 1 => ms[2] \in Messages)
  OBVIOUS
<1>2. [rows |-> outbox, last |-> last_row_id] \in Tables
  BY DEF BlackboxTypes, Tables
<1>3. Inserted(ms) \in Tables
  BY <1>1, <1>2, InsertOneTypes DEF Inserted
<1>4. QED BY <1>3 DEF Tables

LEMMA SpoolerStepTypes ==
  ASSUME TypeOK, HandOK, Spooler \/ SpoolerFault \/ CallbackFault
  PROVE  TypeOK' /\ HandOK'
<1> USE DEF TypeOK
<1>1. UNCHANGED notSpooler
  BY DEF Spooler, SpoolerFault, CallbackFault, SpoolerCheck, TakeTransition,
         TakeItem, GetTimeout, Reserve, ReserveEvent, Store, Wake,
         SpoolerFailed
<1>2. CollectorTypes' /\ SenderTypes'
  BY <1>1 DEF notSpooler, collector, sender, CollectorTypes, SenderTypes
<1>3. UNCHANGED <<control, crashes, stops, send_failures, delivered, outlived>>
  BY <1>1 DEF notSpooler
<1>4. /\ BlackboxTypes' /\ QueueTypes' /\ EventTypes' /\ SpoolerTypes'
      /\ ControlTypes' /\ HandOK'
  <2> USE <1>3 DEF blackbox, events, control, EventTypes, ControlTypes
  <2>1. CASE SpoolerCheck
    BY <2>1 DEF SpoolerCheck, BlackboxTypes, QueueTypes, SpoolerTypes, HandOK
  <2>2. CASE TakeTransition
    <3>1. CASE transition_queue = <<>>
      BY <2>2, <3>1
      DEF TakeTransition, BlackboxTypes, QueueTypes, SpoolerTypes, HandOK
    <3>2. CASE transition_queue # <<>>
      <4>1. item' \in TransitionItems /\ transition_queue' \in Seq(TransitionItems)
        BY <2>2, <3>2 DEF TakeTransition, QueueTypes
      <4>2. QED
        BY <2>2, <3>2, <4>1, HandTypes
        DEF TakeTransition, BlackboxTypes, QueueTypes, SpoolerTypes, HandOK
    <3>3. QED BY <3>1, <3>2
  <2>3. CASE TakeItem
    <3> DEFINE head == Head(summary_queue)
    <3>1. /\ head \in Items \cup {NoneItem}
          /\ summary_queue' \in Seq(Items \cup {NoneItem})
          /\ Len(summary_queue') <= QueueMax
      BY <2>3, RuntimeAssumption DEF TakeItem, QueueTypes, RuntimeAssumption
    <3>2. head.kind \in {"none", "incomplete", "window"}
      BY <3>1 DEF Items, NoneItem
    <3>3. BlackboxTypes' /\ QueueTypes' /\ EventTypes' /\ ControlTypes'
      BY <2>3, <3>1 DEF TakeItem, BlackboxTypes, QueueTypes
    <3>4. SpoolerTypes' /\ HandOK'
      <4>1. CASE head.kind = "none"
        BY <2>3, <4>1 DEF TakeItem, SpoolerTypes, HandOK
      <4>2. CASE head.kind = "incomplete"
        <5>1. head \in HandItems /\ head # NoneItem
          BY <3>1, <4>2, HandTypes DEF NoneItem
        <5>2. spc' = "reserve" /\ item' = head
              /\ UNCHANGED <<previous_status, built>>
          BY <2>3, <4>2 DEF TakeItem
        <5>3. QED BY <2>3, <5>1, <5>2 DEF TakeItem, SpoolerTypes, HandOK
      <4>3. CASE head.kind = "window"
        <5>1. head \in Items
          BY <3>1, <4>3 DEF NoneItem
        <5>2. head.status \in Statuses /\ head.no \in Nat
          BY <4>3, <5>1, HandTypes
        <5>3. /\ item' = [kind |-> "window", status |-> head.status,
                          no |-> head.no,
                          emit |-> Emits(previous_status, head.status)]
              /\ spc' = "reserve" /\ previous_status' = head.status
              /\ built' = built
          BY <2>3, <4>3 DEF TakeItem
        <5>4. item' \in HandItems /\ item' # NoneItem
          <6>1. Emits(previous_status, head.status) \in BOOLEAN
            BY DEF Emits
          <6>2. QED BY <5>2, <5>3, <6>1, HandTypes DEF NoneItem
        <5>5. QED BY <2>3, <5>2, <5>3, <5>4 DEF TakeItem, SpoolerTypes, HandOK
      <4>4. QED BY <3>2, <4>1, <4>2, <4>3
    <3>5. QED BY <3>3, <3>4
  <2>4. CASE GetTimeout
    BY <2>4 DEF GetTimeout, BlackboxTypes, QueueTypes, SpoolerTypes, HandOK
  <2>5. CASE Reserve
    <3>1. item \in HandItems /\ item # NoneItem /\ NextSequence \in Nat
      BY <2>5 DEF Reserve, HandOK, SpoolerTypes, BlackboxTypes, NextSequence
    <3>2. BuiltFrom(item, NextSequence) \in Messages
      BY <3>1, BuiltTypes
    <3>3. built' \in Seq(Messages) /\ Len(built') = 1
      BY <2>5, <3>2 DEF Reserve
    <3>4. BlackboxTypes' /\ QueueTypes' /\ EventTypes' /\ ControlTypes'
      BY <2>5, <3>1 DEF Reserve, BlackboxTypes, QueueTypes
    <3>5. SpoolerTypes' /\ HandOK'
      BY <2>5, <3>1, <3>3 DEF Reserve, SpoolerTypes, HandOK
    <3>6. QED BY <3>4, <3>5
  <2>6. CASE ReserveEvent
    <3>1. item.kind = "window" /\ item \in HandItems /\ NextSequence \in Nat
      BY <2>6 DEF ReserveEvent, HandOK, SpoolerTypes, BlackboxTypes, NextSequence
    <3>2. item # NoneItem /\ item.status \in Statuses /\ item.no \in Nat
      BY <3>1 DEF HandItems, TransitionItems, Transitions, NoneItem
    <3>3. built \in Seq(Messages) /\ Len(built) = 1
      BY <2>6 DEF ReserveEvent, HandOK, SpoolerTypes
    <3>4. built[1].seq \in Nat
      <4>1. built[1] \in Messages
        BY <3>3, ShortSeqs, <3>1, BuiltTypes
      <4>2. QED BY <4>1 DEF Messages
    <3>5. built' \in Seq(Messages) /\ Len(built') = 2
      <4> DEFINE e == Message("THRESHOLD_EXCEEDED", item.status, NextSequence,
                              built[1].seq, item.no)
      <4>1. e \in Messages
        BY <3>1, <3>2, <3>4 DEF Message, Messages, EventKinds
      <4>2. built' = Append(built, e)
        BY <2>6 DEF ReserveEvent
      <4> HIDE DEF e
      <4>3. /\ Append(built, e) \in Seq(Messages)
            /\ Len(Append(built, e)) = Len(built) + 1
        BY <3>3, <4>1, ShortSeqs
      <4>4. QED BY <3>3, <4>2, <4>3
    <3>6. BlackboxTypes' /\ QueueTypes' /\ EventTypes' /\ ControlTypes'
      BY <2>6, <3>1 DEF ReserveEvent, BlackboxTypes, QueueTypes
    <3>7. SpoolerTypes' /\ HandOK'
      BY <2>6, <3>2, <3>5 DEF ReserveEvent, SpoolerTypes, HandOK
    <3>8. QED BY <3>6, <3>7
  <2>7. CASE Store
    <3>1. built \in Seq(Messages) /\ Len(built) \in 1..2
      BY <2>7 DEF Store, HandOK, SpoolerTypes
    <3>2. outbox' \subseteq Rows /\ last_row_id' \in Nat /\ spooled' \subseteq Messages
      BY <2>7, <3>1, InsertTypes DEF Store, EnqueueMany, BlackboxTypes
    <3>3. BlackboxTypes' /\ QueueTypes' /\ EventTypes' /\ ControlTypes'
      BY <2>7, <3>2 DEF Store, BlackboxTypes, QueueTypes
    <3>4. SpoolerTypes' /\ HandOK'
      BY <2>7 DEF Store, SpoolerTypes, HandOK
    <3>5. QED BY <3>3, <3>4
  <2>8. CASE Wake
    BY <2>8 DEF Wake, SetDrain, BlackboxTypes, QueueTypes, SpoolerTypes,
                HandItems, HandOK
  <2>9. CASE SpoolerFailed
    BY <2>9 DEF SpoolerFailed, RecordWorkerFailure, BlackboxTypes, QueueTypes,
                SpoolerTypes, HandOK
  <2>10. CASE SpoolerFault
    BY <2>10 DEF SpoolerFault, BlackboxTypes, QueueTypes, SpoolerTypes,
                 HandItems, HandOK
  <2>11. CASE CallbackFault
    BY <2>11 DEF CallbackFault, SetDrain, BlackboxTypes, QueueTypes,
                 SpoolerTypes, HandItems, HandOK
  <2>12. QED
    BY <2>1, <2>2, <2>3, <2>4, <2>5, <2>6, <2>7, <2>8, <2>9, <2>10, <2>11
    DEF Spooler
<1>5. QED BY <1>2, <1>4

HealthTypes == [connected : BOOLEAN, failures : 0..FailureThreshold,
                successes : 0..RecoveryThreshold]

LEMMA ObserveTypes ==
  ASSUME NEW h \in HealthTypes
  PROVE  ObserveSuccess(h) \in HealthTypes /\ ObserveFailure(h) \in HealthTypes
<1>1. /\ FailureThreshold \in Nat /\ RecoveryThreshold \in Nat
      /\ h.connected \in BOOLEAN
      /\ h.failures \in 0..FailureThreshold
      /\ h.successes \in 0..RecoveryThreshold
      /\ h = [connected |-> h.connected, failures |-> h.failures,
              successes |-> h.successes]
  BY RuntimeAssumption DEF HealthTypes, RuntimeAssumption
<1>2. \A n \in Nat, limit \in Nat : Saturate(n + 1, limit) \in 0..limit
  BY DEF Saturate
<1>3. ObserveSuccess(h) \in HealthTypes
  <2>1. Saturate(h.successes + 1, RecoveryThreshold) \in 0..RecoveryThreshold
    BY <1>1, <1>2
  <2> DEFINE n == Saturate(h.successes + 1, RecoveryThreshold)
  <2>2. /\ [connected |-> TRUE, failures |-> 0, successes |-> 0] \in HealthTypes
        /\ [connected |-> h.connected, failures |-> 0, successes |-> n]
             \in HealthTypes
    BY <1>1, <2>1 DEF HealthTypes
  <2>3. QED BY <2>2 DEF ObserveSuccess
<1>4. ObserveFailure(h) \in HealthTypes
  <2>1. Saturate(h.failures + 1, FailureThreshold) \in 0..FailureThreshold
    BY <1>1, <1>2
  <2> DEFINE n == Saturate(h.failures + 1, FailureThreshold)
  <2>2. /\ [connected |-> FALSE, failures |-> 0, successes |-> 0] \in HealthTypes
        /\ [connected |-> h.connected, failures |-> n, successes |-> 0]
             \in HealthTypes
    BY <1>1, <2>1 DEF HealthTypes
  <2>3. QED BY <2>2 DEF ObserveFailure
<1>5. QED BY <1>3, <1>4

LEMMA TransitionTypes ==
  ASSUME transition_queue \in Seq(TransitionItems),
         EnqueueTransition(health, health')
  PROVE  transition_queue' \in Seq(TransitionItems)
<1>1. [kind |-> IF health'.connected THEN "CONNECTION_RECOVERED"
                                     ELSE "CONNECTION_LOST"] \in TransitionItems
  BY DEF TransitionItems, Transitions
<1>2. QED BY <1>1 DEF EnqueueTransition

LEMMA SenderStepTypes ==
  ASSUME TypeOK, HandOK, Sender \/ WaitTimeout \/ SenderFault
  PROVE  TypeOK' /\ HandOK'
<1> USE DEF TypeOK
<1>1. UNCHANGED notSender
  BY DEF Sender, WaitTimeout, SenderFault, SenderLoop, WakeUp, ClearDrain,
         Fetch, SendSucceeds, SendFails, Ack, AfterSuccess, AfterFailure,
         SenderFailed
<1>2. CollectorTypes' /\ SpoolerTypes' /\ HandOK'
  <2>1. xpc # "new"
    BY DEF Sender, WaitTimeout, SenderFault, SenderLoop, WakeUp, ClearDrain,
           Fetch, SendSucceeds, SendFails, Ack, AfterSuccess, AfterFailure,
           SenderFailed
  <2>2. ctl # "new" /\ ctl' = ctl
    BY <1>1, <2>1 DEF HandOK, notSender, control
  <2>3. QED
    BY <1>1, <2>2 DEF notSender, collector, spooler, CollectorTypes,
                      SpoolerTypes, HandOK
<1>3. /\ UNCHANGED <<last_seq_no, last_row_id, spooled, summary_queue>>
      /\ UNCHANGED <<control, crashes, stops, outlived>>
  BY <1>1 DEF notSender
<1>4. ASSUME UNCHANGED <<outbox, delivered, transition_queue>>
      PROVE  BlackboxTypes' /\ QueueTypes'
  BY <1>3, <1>4 DEF BlackboxTypes, QueueTypes
<1>5. ASSUME UNCHANGED <<faults, send_failures>> PROVE ControlTypes'
  BY <1>3, <1>5 DEF ControlTypes, control
<1>6. /\ BlackboxTypes' /\ QueueTypes' /\ EventTypes' /\ SenderTypes'
      /\ ControlTypes'
  <2> USE DEF EventTypes, events
  <2>1. CASE SenderLoop
    BY <1>4, <1>5, <2>1 DEF SenderLoop, SenderTypes
  <2>2. CASE WakeUp
    BY <1>4, <1>5, <2>2 DEF WakeUp, SenderTypes
  <2>3. CASE WaitTimeout
    BY <1>4, <1>5, <2>3 DEF WaitTimeout, SenderTypes
  <2>4. CASE ClearDrain
    BY <1>4, <1>5, <2>4 DEF ClearDrain, SenderTypes
  <2>5. CASE Fetch
    <3>1. batch' \subseteq Rows
      BY <2>5 DEF Fetch, SenderTypes, BlackboxTypes
    <3>2. QED BY <1>4, <1>5, <2>5, <3>1 DEF Fetch, SenderTypes
  <2>6. CASE SendSucceeds
    <3>1. delivered' \subseteq Nat
      BY <2>6 DEF SendSucceeds, SenderTypes, BlackboxTypes, Rows, Messages
    <3>2. QED
      BY <1>3, <1>5, <2>6, <3>1
      DEF SendSucceeds, SenderTypes, BlackboxTypes, QueueTypes
  <2>7. CASE SendFails
    <3>1. delivered' \subseteq Nat
      <4>1. PICK r \in batch : delivered' = delivered
                               \/ delivered' = delivered \cup {r.msg.seq}
        BY <2>7 DEF SendFails
      <4>2. r.msg.seq \in Nat
        BY <4>1 DEF SenderTypes, Rows, Messages
      <4>3. QED BY <4>1, <4>2 DEF BlackboxTypes
    <3>2. send_failures' \in Nat /\ faults' = faults
      BY <2>7 DEF SendFails, ControlTypes
    <3>3. ControlTypes'
      BY <1>3, <3>2 DEF ControlTypes, control
    <3>4. QED
      BY <1>3, <2>7, <3>1, <3>3
      DEF SendFails, SenderTypes, BlackboxTypes, QueueTypes
  <2>8. CASE Ack
    <3>1. outbox' \subseteq Rows /\ batch' \subseteq Rows
      BY <2>8 DEF Ack, Acknowledge, SenderTypes, BlackboxTypes
    <3>2. QED
      BY <1>3, <1>5, <2>8, <3>1 DEF Ack, SenderTypes, BlackboxTypes, QueueTypes
  <2>9. CASE AfterSuccess
    <3>1. transition_queue' \in Seq(TransitionItems)
      BY <2>9, TransitionTypes DEF AfterSuccess, QueueTypes
    <3>2. health' \in HealthTypes
      BY <2>9, ObserveTypes DEF AfterSuccess, SenderTypes, HealthTypes
    <3>3. QED
      BY <1>3, <1>5, <2>9, <3>1, <3>2
      DEF AfterSuccess, SenderTypes, HealthTypes, BlackboxTypes, QueueTypes
  <2>10. CASE AfterFailure
    <3>1. transition_queue' \in Seq(TransitionItems)
      BY <2>10, TransitionTypes DEF AfterFailure, QueueTypes
    <3>2. health' \in HealthTypes
      BY <2>10, ObserveTypes DEF AfterFailure, SenderTypes, HealthTypes
    <3>3. backoff' \in 1..30
      BY <2>10 DEF AfterFailure, Saturate, SenderTypes
    <3>4. QED
      BY <1>3, <1>5, <2>10, <3>1, <3>2, <3>3
      DEF AfterFailure, SenderTypes, HealthTypes, BlackboxTypes, QueueTypes
  <2>11. CASE SenderFailed
    BY <1>4, <1>5, <2>11 DEF SenderFailed, RecordWorkerFailure, SenderTypes
  <2>12. CASE SenderFault
    <3>1. faults' \in Nat /\ send_failures' = send_failures
      BY <2>12 DEF SenderFault, ControlTypes
    <3>2. ControlTypes'
      BY <1>3, <3>1 DEF ControlTypes, control
    <3>3. QED BY <1>4, <2>12, <3>2 DEF SenderFault, SenderTypes
  <2>13. QED
    BY <2>1, <2>2, <2>3, <2>4, <2>5, <2>6, <2>7, <2>8, <2>9, <2>10, <2>11,
       <2>12
    DEF Sender
<1>7. QED BY <1>2, <1>6

LEMMA ControlStepTypes ==
  ASSUME TypeOK, HandOK, Start \/ Flush \/ StopCollector \/ Stop
  PROVE  TypeOK' /\ HandOK'
<1> USE DEF TypeOK
<1>1. UNCHANGED notControl
  BY DEF Stop, Start, Flush, StopCollector, StopSpooler, StopSender, StopReturns
<1>2. BlackboxTypes' /\ QueueTypes'
  BY <1>1 DEF notControl, blackbox, BlackboxTypes, QueueTypes
<1>3. /\ UNCHANGED <<worker_failure, collected, produced, collector_raised>>
      /\ UNCHANGED <<window_no, first_no, item, built, previous_status>>
      /\ UNCHANGED <<batch, health, backoff, outlived, crashes, send_failures, faults>>
  BY <1>1 DEF notControl
<1>4. /\ EventTypes' /\ CollectorTypes' /\ SpoolerTypes' /\ SenderTypes'
      /\ ControlTypes' /\ HandOK'
  <2> USE <1>3 DEF EventTypes, CollectorTypes, SpoolerTypes, SenderTypes,
                   ControlTypes
  <2>1. CASE Start
    <3>1. spc' = "check" /\ cpc' = "collect" /\ xpc' = "loop"
          /\ ctl' = "running" /\ stops' = stops /\ clean' = clean
      BY <2>1 DEF Start
    <3>2. built = <<>> /\ item = NoneItem
      BY <2>1 DEF Start, HandOK
    <3>3. HandOK'
      BY <3>1, <3>2 DEF HandOK
    <3>4. EventTypes'
      <4>1. drain_event' = (drain_event \/ outbox # {})
        BY <2>1 DEF Start
      <4>2. drain_event' \in BOOLEAN
        BY <4>1, Zenon
      <4>3. /\ stop_collector' = FALSE /\ stop_spooler' = FALSE
            /\ stop_sender' = FALSE /\ worker_failure' \in BOOLEAN
        BY <2>1 DEF Start
      <4>4. QED BY <4>2, <4>3, Zenon
    <3>5. QED BY <3>1, <3>3, <3>4
  <2>2. CASE Flush
    BY <2>2 DEF Flush, HandOK
  <2>3. CASE StopCollector
    BY <2>3 DEF StopCollector, HandOK
  <2>4. CASE StopSpooler
    BY <2>4 DEF StopSpooler, HandOK
  <2>5. CASE StopSender
    BY <2>5 DEF StopSender, HandOK
  <2>6. CASE StopReturns
    BY <2>6 DEF StopReturns, HandOK
  <2>7. QED BY <2>1, <2>2, <2>3, <2>4, <2>5, <2>6 DEF Stop
<1>5. QED BY <1>2, <1>4

LEMMA RestartTypes ==
  ASSUME TypeOK, HandOK, Restart
  PROVE  TypeOK' /\ HandOK'
<1> USE DEF TypeOK
<1>1. BlackboxTypes' /\ QueueTypes'
  BY DEF Restart, BlackboxTypes, blackbox, QueueTypes
<1>2. EventTypes'
  <2>1. drain_event' \in BOOLEAN
    <3>1. drain_event' = (drain_event \/ outbox # {})
      BY DEF Restart
    <3>2. QED BY <3>1, Zenon
  <2>2. /\ stop_collector' = FALSE /\ stop_spooler' = FALSE
        /\ stop_sender' = FALSE /\ worker_failure' \in BOOLEAN
    BY DEF Restart, EventTypes
  <2>3. QED BY <2>1, <2>2, Zenon DEF EventTypes
<1>3. CollectorTypes' /\ SpoolerTypes' /\ SenderTypes' /\ ControlTypes'
  <2>1. CollectorTypes'
    BY DEF Restart, CollectorTypes
  <2>2. SpoolerTypes'
    BY DEF Restart, SpoolerTypes
  <2>3. SenderTypes'
    BY DEF Restart, SenderTypes
  <2>4. ControlTypes'
    BY DEF Restart, ControlTypes, bounds
  <2>5. QED BY <2>1, <2>2, <2>3, <2>4
<1>4. HandOK'
  <2>1. built = <<>> /\ item = NoneItem
    BY DEF Restart, AllDone, HandOK
  <2>2. QED BY <2>1 DEF Restart, HandOK
<1>5. QED BY <1>1, <1>2, <1>3, <1>4

LEMMA CrashTypes ==
  ASSUME TypeOK, HandOK, Crash
  PROVE  TypeOK' /\ HandOK'
<1> USE DEF TypeOK, Crash
<1>1. BlackboxTypes' /\ EventTypes'
  BY DEF BlackboxTypes, blackbox, EventTypes
<1>2. QueueTypes'
  BY RuntimeAssumption DEF QueueTypes, RuntimeAssumption
<1>3. CollectorTypes'
  BY DEF CollectorTypes
<1>4. SpoolerTypes' /\ HandOK'
  BY DEF SpoolerTypes, HandItems, Statuses, HandOK
<1>5. SenderTypes'
  <2>1. [connected |-> outbox = {}, failures |-> 0, successes |-> 0]
          \in HealthTypes
    BY RuntimeAssumption DEF HealthTypes, RuntimeAssumption
  <2>2. QED BY <2>1 DEF SenderTypes, HealthTypes
<1>6. ControlTypes'
  BY DEF ControlTypes
<1>7. QED BY <1>1, <1>2, <1>3, <1>4, <1>5, <1>6

LEMMA StepTypes == TypeOK /\ HandOK /\ [Next]_vars => TypeOK' /\ HandOK'
<1> SUFFICES ASSUME TypeOK, HandOK, [Next]_vars PROVE TypeOK' /\ HandOK'
  OBVIOUS
<1>1. CASE Collector \/ CollectorFault
  BY <1>1, CollectorStepTypes
<1>2. CASE Spooler \/ SpoolerFault \/ CallbackFault
  BY <1>2, SpoolerStepTypes
<1>3. CASE Sender \/ WaitTimeout \/ SenderFault
  BY <1>3, SenderStepTypes
<1>4. CASE Start \/ Flush \/ StopCollector \/ Stop
  BY <1>4, ControlStepTypes
<1>5. CASE Crash
  BY <1>5, CrashTypes
<1>6. CASE Restart
  BY <1>6, RestartTypes
<1>7. CASE UNCHANGED vars
  BY <1>7 DEF vars, blackbox, events, collector, spooler, sender, control,
     bounds, TypeOK, HandOK, BlackboxTypes, QueueTypes, EventTypes,
     CollectorTypes, SpoolerTypes, SenderTypes, ControlTypes
<1>8. QED
  BY <1>1, <1>2, <1>3, <1>4, <1>5, <1>6, <1>7 DEF Next, Finished

\* TypeOK is not inductive without HandOK, which says what the spooler holds.
LEMMA TypeInvariant == Spec => [](TypeOK /\ HandOK)
<1>1. Init => TypeOK /\ HandOK
  BY InitTypes
<1>2. TypeOK /\ HandOK /\ [Next]_vars => (TypeOK /\ HandOK)'
  BY StepTypes
<1>3. QED BY <1>1, <1>2, PTL DEF Spec

\* The state keeps its shape, and the summary queue its bound, in every run:
\* no step of a thread, no fault and no crash builds an ill-formed message.
THEOREM TypeCorrect == Spec => []TypeOK
BY TypeInvariant, PTL
-----------------------------------------------------------------------------
(* The blackbox and the sender.                                            *)

\* Numbers are reserved upwards, and what is built is younger than all that
\* is stored.
SequenceOK ==
  /\ \A m \in spooled : m.seq <= last_seq_no
  /\ \A i \in 1..Len(built) : built[i].seq <= last_seq_no
  /\ spc \in {"reserve_event", "store"} =>
       \A i \in 1..Len(built), m \in spooled : m.seq < built[i].seq
  /\ Len(built) = 2 => built[1].seq < built[2].seq
  /\ \A m, n \in spooled : m.seq = n.seq => m = n

\* Rows are stored messages, identified by their ids, in sequence order.
RowsOK ==
  /\ \A r \in outbox : r.msg \in spooled /\ r.id <= last_row_id
  /\ \A r, q \in outbox : r.id = q.id => r = q
  /\ FifoOutbox

\* The sender works on the oldest rows, and deletes what it delivered.
SenderOK ==
  /\ batch \subseteq outbox
  /\ \A r \in batch, q \in outbox \ batch : r.id < q.id
  /\ xpc = "ack" => \E r \in batch : Current(r) /\ r.msg.seq \in delivered

\* Every stored message is in the outbox or was delivered, oldest first.
DeliveryOK ==
  /\ \A m \in spooled : m.seq \in delivered \/ \E r \in outbox : r.msg = m
  /\ delivered \subseteq Seqs(spooled)
  /\ \A m \in spooled, d \in delivered : m.seq \notin delivered => d < m.seq

SafeOK == SequenceOK /\ RowsOK /\ SenderOK /\ DeliveryOK
IInv == TypeOK /\ HandOK /\ SafeOK

\* What the steps below need of the types: everything compared is a number.
Numbers ==
  /\ last_seq_no \in Nat /\ last_row_id \in Nat /\ delivered \subseteq Nat
  /\ \A r \in outbox : r.id \in Nat /\ r.msg.seq \in Nat
  /\ \A m \in spooled : m.seq \in Nat
  /\ Len(built) \in Nat /\ \A i \in 1..Len(built) : built[i].seq \in Nat
-----------------------------------------------------------------------------
LEMMA TypesAreNumbers == TypeOK => Numbers
<1> SUFFICES ASSUME TypeOK PROVE Numbers
  OBVIOUS
<1>1. last_seq_no \in Nat /\ last_row_id \in Nat /\ delivered \subseteq Nat
  BY DEF TypeOK, BlackboxTypes
<1>2. \A r \in outbox : r.id \in Nat /\ r.msg.seq \in Nat
  BY DEF TypeOK, BlackboxTypes, Rows, Messages
<1>3. \A m \in spooled : m.seq \in Nat
  BY DEF TypeOK, BlackboxTypes, Messages
<1>4. Len(built) \in Nat /\ \A i \in 1..Len(built) : built[i].seq \in Nat
  <2>1. built \in Seq(Messages)
    BY DEF TypeOK, SpoolerTypes
  <2>2. Len(built) \in Nat /\ \A i \in 1..Len(built) : built[i] \in Messages
    BY <2>1
  <2>3. QED BY <2>2 DEF Messages
<1>5. QED BY <1>1, <1>2, <1>3, <1>4 DEF Numbers

LEMMA InitSafe == Init => SafeOK
BY DEF Init, SafeOK, SequenceOK, RowsOK, FifoOutbox, SenderOK, DeliveryOK, Seqs

\* A step that touches nothing of what the invariant speaks about, except to
\* leave the steps it speaks about.
LEMMA FrameSafe ==
  ASSUME SafeOK,
         UNCHANGED <<blackbox, spooled, delivered, built, batch>>,
         spc' \in {"reserve_event", "store"} => spc' = spc,
         xpc' = "ack" => xpc = "ack"
  PROVE  SafeOK'
<1> USE DEF SafeOK, blackbox
<1>1. SequenceOK'
  BY DEF SequenceOK
<1>2. RowsOK'
  BY DEF RowsOK, FifoOutbox
<1>3. SenderOK'
  BY DEF SenderOK, Current
<1>4. DeliveryOK'
  BY DEF DeliveryOK, Seqs
<1>5. QED BY <1>1, <1>2, <1>3, <1>4

\* The thread forgets what it built or fetched.
LEMMA ForgetSafe ==
  ASSUME SafeOK,
         UNCHANGED <<blackbox, spooled, delivered>>,
         \/ built' = <<>> /\ spc' \notin {"reserve_event", "store"}
         \/ built' = built /\ spc' = spc,
         \/ batch' = {} /\ xpc' # "ack"
         \/ batch' = batch /\ xpc' = xpc
  PROVE  SafeOK'
<1> USE DEF SafeOK, blackbox
<1>1. SequenceOK'
  BY DEF SequenceOK
<1>2. RowsOK'
  BY DEF RowsOK, FifoOutbox
<1>3. SenderOK'
  BY DEF SenderOK, Current
<1>4. DeliveryOK'
  BY DEF DeliveryOK, Seqs
<1>5. QED BY <1>1, <1>2, <1>3, <1>4

LEMMA PairSeq ==
  ASSUME NEW S, NEW s \in Seq(S), NEW e \in S, Len(s) = 1
  PROVE  /\ Len(Append(s, e)) = 2 /\ Append(s, e)[2] = e
         /\ Append(s, e)[1] = s[1]
OBVIOUS

LEMMA ReserveSafe ==
  ASSUME IInv, Reserve \/ ReserveEvent
  PROVE  SafeOK'
<1>0. TypeOK /\ HandOK /\ SequenceOK /\ RowsOK /\ SenderOK /\ DeliveryOK
  BY DEF IInv, SafeOK
<1>1. Numbers
  BY <1>0, TypesAreNumbers
<1>2. UNCHANGED <<outbox, last_row_id, spooled, delivered, batch, xpc>>
  BY DEF Reserve, ReserveEvent, notSpooler, sender
<1>3. last_seq_no' = last_seq_no + 1
  BY DEF Reserve, ReserveEvent, NextSequence
<1>4. /\ Len(built') \in 1..2
      /\ built'[Len(built')].seq = last_seq_no + 1
      /\ Len(built') = 2 => /\ built'[1].seq <= last_seq_no
                            /\ \A m \in spooled : m.seq < built'[1].seq
  <2>1. CASE Reserve
    <3>1. item \in HandItems /\ item # NoneItem /\ last_seq_no + 1 \in Nat
      BY <1>0, <1>1, <2>1 DEF Reserve, HandOK, TypeOK, SpoolerTypes, Numbers
    <3>2. BuiltFrom(item, last_seq_no + 1).seq = last_seq_no + 1
      BY <3>1, BuiltTypes
    <3>3. built' = <<BuiltFrom(item, last_seq_no + 1)>>
      BY <2>1 DEF Reserve, NextSequence
    <3>4. QED BY <3>2, <3>3
  <2>2. CASE ReserveEvent
    <3> DEFINE e == Message("THRESHOLD_EXCEEDED", item.status, last_seq_no + 1,
                            built[1].seq, item.no)
    <3>1. /\ built \in Seq(Messages) /\ Len(built) = 1 /\ spc = "reserve_event"
          /\ item.kind = "window" /\ item \in HandItems
      BY <1>0, <2>2 DEF ReserveEvent, HandOK, TypeOK, SpoolerTypes
    <3>2. built' = Append(built, e) /\ e.seq = last_seq_no + 1
      BY <2>2 DEF ReserveEvent, NextSequence, Message
    <3>3. built[1].seq <= last_seq_no /\ \A m \in spooled : m.seq < built[1].seq
      BY <1>0, <3>1 DEF SequenceOK
    <3>4. e \in Messages
      <4>1. item.status \in Statuses /\ item.no \in Nat
        BY <3>1 DEF HandItems, TransitionItems, Transitions, NoneItem
      <4>2. built[1].seq \in Nat /\ last_seq_no + 1 \in Nat
        BY <1>1, <3>1 DEF Numbers
      <4>3. QED BY <4>1, <4>2 DEF Message, Messages, EventKinds
    <3> HIDE DEF e
    <3>5. Len(built') = 2 /\ built'[1] = built[1] /\ built'[2] = e
      <4>1. built \in Seq(Messages) /\ Len(built) = 1
        BY <3>1
      <4>2. /\ Len(Append(built, e)) = 2 /\ Append(built, e)[2] = e
            /\ Append(built, e)[1] = built[1]
        BY <3>4, <4>1, PairSeq
      <4>3. built' = Append(built, e)
        BY <3>2
      <4>4. QED BY <4>2, <4>3, Zenon
    <3>6. built'[Len(built')].seq = last_seq_no + 1
      BY <3>2, <3>5
    <3>7. /\ built'[1].seq <= last_seq_no
          /\ \A m \in spooled : m.seq < built'[1].seq
      BY <3>3, <3>5
    <3>8. QED BY <3>5, <3>6, <3>7
  <2>3. QED BY <2>1, <2>2
<1>5. Len(built') = 2 => built'[1].seq \in Nat
  <2>1. TypeOK'
    BY <1>0, SpoolerStepTypes DEF Spooler
  <2>2. built' \in Seq(Messages)
    BY <2>1 DEF TypeOK, SpoolerTypes
  <2>3. Len(built') = 2 => built'[1] \in Messages
    BY <2>2
  <2>4. QED BY <2>3 DEF Messages
<1>6. SequenceOK'
  <2>1. \A m \in spooled' : m.seq <= last_seq_no /\ m.seq \in Nat
    BY <1>0, <1>1, <1>2 DEF SequenceOK, Numbers
  <2>2. \A i \in 1..Len(built') : i = Len(built') \/ (Len(built') = 2 /\ i = 1)
    BY <1>4
  <2>3. \A m \in spooled' : m.seq <= last_seq_no'
    BY <1>1, <1>3, <2>1 DEF Numbers
  <2>4. \A i \in 1..Len(built') : built'[i].seq <= last_seq_no'
    <3> TAKE i \in 1..Len(built')
    <3>1. CASE i = Len(built')
      BY <1>1, <1>3, <1>4, <3>1 DEF Numbers
    <3>2. CASE Len(built') = 2 /\ i = 1
      <4>1. built'[1].seq <= last_seq_no
        BY <1>4, <3>2
      <4>2. QED BY <1>1, <1>3, <1>5, <3>2, <4>1 DEF Numbers
    <3>3. QED BY <2>2, <3>1, <3>2
  <2>5. \A i \in 1..Len(built'), m \in spooled' : m.seq < built'[i].seq
    <3> TAKE i \in 1..Len(built'), m \in spooled'
    <3>1. CASE i = Len(built')
      BY <1>1, <1>4, <2>1, <3>1 DEF Numbers
    <3>2. CASE Len(built') = 2 /\ i = 1
      <4>1. m.seq < built'[1].seq
        BY <1>2, <1>4, <3>2
      <4>2. QED BY <3>2, <4>1
    <3>3. QED BY <2>2, <3>1, <3>2
  <2>6. Len(built') = 2 => built'[1].seq < built'[2].seq
    <3>1. SUFFICES ASSUME Len(built') = 2
                   PROVE  built'[1].seq < built'[2].seq
      OBVIOUS
    <3>2. built'[2].seq = last_seq_no + 1 /\ built'[1].seq <= last_seq_no
      BY <1>4, <3>1
    <3>3. QED BY <1>1, <1>5, <3>1, <3>2 DEF Numbers
  <2>7. \A m, n \in spooled' : m.seq = n.seq => m = n
    BY <1>0, <1>2 DEF SequenceOK
  <2>8. QED BY <2>3, <2>4, <2>5, <2>6, <2>7 DEF SequenceOK
<1>7. RowsOK'
  BY <1>0, <1>2 DEF RowsOK, FifoOutbox
<1>8. SenderOK'
  BY <1>0, <1>2 DEF SenderOK, Current
<1>9. DeliveryOK'
  BY <1>0, <1>2 DEF DeliveryOK, Seqs
<1>10. QED BY <1>6, <1>7, <1>8, <1>9 DEF SafeOK

LEMMA InsertFresh ==
  ASSUME NEW db, NEW m, \A r \in db.rows : r.msg.seq # m.seq
  PROVE  InsertOrIgnore(db, m) =
           [rows |-> db.rows \cup {[id |-> db.last + 1, msg |-> m]},
            last |-> db.last + 1]
BY DEF InsertOrIgnore, Conflicts

\* The row the i-th built message becomes.
NewRow(i) == [id |-> last_row_id + i, msg |-> built[i]]

\* No built message meets the UNIQUE constraint: each becomes a new row.
LEMMA StoreEffect ==
  ASSUME IInv, Store
  PROVE  /\ outbox' = outbox \cup {NewRow(i) : i \in 1..Len(built)}
         /\ last_row_id' = last_row_id + Len(built)
         /\ spooled' = spooled \cup {built[i] : i \in 1..Len(built)}
         /\ Len(built) \in 1..2
<1> DEFINE db == [rows |-> outbox, last |-> last_row_id]
           one == [rows |-> outbox \cup {NewRow(1)}, last |-> last_row_id + 1]
<1>0. TypeOK /\ HandOK /\ SequenceOK /\ RowsOK /\ spc = "store"
  BY DEF IInv, SafeOK, Store
<1>1. Numbers
  BY <1>0, TypesAreNumbers
<1>2. Len(built) \in 1..2
  BY <1>0 DEF HandOK
<1>3. \A i \in 1..Len(built), r \in outbox : r.msg.seq < built[i].seq
  BY <1>0 DEF SequenceOK, RowsOK
<1>4. InsertOrIgnore(db, built[1]) = one
  <2>1. \A r \in outbox : r.msg.seq # built[1].seq
    BY <1>1, <1>2, <1>3 DEF Numbers
  <2>2. db.rows = outbox /\ db.last = last_row_id
    OBVIOUS
  <2> HIDE DEF db
  <2>3. InsertOrIgnore(db, built[1]) =
          [rows |-> outbox \cup {[id |-> last_row_id + 1, msg |-> built[1]]},
           last |-> last_row_id + 1]
    BY <2>1, <2>2, InsertFresh
  <2>4. QED BY <2>3 DEF NewRow
<1>5. CASE Len(built) = 1
  <2>1. Inserted(built) = one
    BY <1>4, <1>5 DEF Inserted
  <2>2. outbox' = outbox \cup {NewRow(1)} /\ last_row_id' = last_row_id + 1
    BY <2>1 DEF Store, EnqueueMany
  <2>3. {NewRow(i) : i \in 1..Len(built)} = {NewRow(1)}
    BY <1>5
  <2>4. QED BY <1>2, <1>5, <2>2, <2>3 DEF Store, EnqueueMany
<1>6. CASE Len(built) = 2
  <2>1. \A r \in one.rows : r.msg.seq # built[2].seq
    <3>1. built[1].seq # built[2].seq
      BY <1>0, <1>1, <1>6 DEF SequenceOK, Numbers
    <3>2. NewRow(1).msg = built[1]
      BY DEF NewRow
    <3>3. \A r \in outbox : r.msg.seq # built[2].seq
      BY <1>1, <1>3, <1>6 DEF Numbers
    <3>4. one.rows = outbox \cup {NewRow(1)}
      OBVIOUS
    <3> HIDE DEF one
    <3>5. QED BY <3>1, <3>2, <3>3, <3>4
  <2>2. one.rows = outbox \cup {NewRow(1)} /\ one.last + 1 = last_row_id + 2
    BY <1>1 DEF Numbers
  <2> HIDE DEF one
  <2>3. InsertOrIgnore(one, built[2]) =
          [rows |-> outbox \cup {NewRow(1), NewRow(2)}, last |-> last_row_id + 2]
    <3>1. InsertOrIgnore(one, built[2]) =
            [rows |-> one.rows \cup {[id |-> one.last + 1, msg |-> built[2]]},
             last |-> one.last + 1]
      BY <2>1, InsertFresh
    <3>2. [id |-> one.last + 1, msg |-> built[2]] = NewRow(2)
      BY <2>2 DEF NewRow
    <3>3. one.rows \cup {NewRow(2)} = outbox \cup {NewRow(1), NewRow(2)}
      BY <2>2
    <3>4. QED BY <2>2, <3>1, <3>2, <3>3
  <2>4. Inserted(built) = InsertOrIgnore(one, built[2])
    BY <1>4, <1>6 DEF Inserted
  <2>5. outbox' = outbox \cup {NewRow(1), NewRow(2)}
        /\ last_row_id' = last_row_id + 2
    BY <2>3, <2>4 DEF Store, EnqueueMany
  <2>6. {NewRow(i) : i \in 1..Len(built)} = {NewRow(1), NewRow(2)}
    <3>1. 1..Len(built) = {1, 2}
      BY <1>6
    <3>2. QED BY <3>1
  <2>7. QED BY <1>2, <1>6, <2>5, <2>6 DEF Store, EnqueueMany
<1>7. QED BY <1>2, <1>5, <1>6

LEMMA StoreSafe ==
  ASSUME IInv, Store
  PROVE  SafeOK'
<1>0. /\ TypeOK /\ HandOK /\ SequenceOK /\ RowsOK /\ SenderOK /\ DeliveryOK
      /\ spc = "store"
  BY DEF IInv, SafeOK, Store
<1>1. Numbers
  BY <1>0, TypesAreNumbers
<1>2. UNCHANGED <<last_seq_no, built, delivered, batch, xpc>> /\ spc' = "wake"
  BY DEF Store, notSpooler, sender
<1>3. /\ \A r \in outbox' : r \in outbox
           \/ \E i \in 1..Len(built) : r = NewRow(i)
      /\ \A i \in 1..Len(built) : NewRow(i) \in outbox' /\ built[i] \in spooled'
      /\ outbox \subseteq outbox' /\ spooled \subseteq spooled'
      /\ \A m \in spooled' : m \in spooled
           \/ \E i \in 1..Len(built) : m = built[i]
      /\ last_row_id' = last_row_id + Len(built) /\ Len(built) \in 1..2
  BY StoreEffect
<1>4. \A i \in 1..Len(built) :
         NewRow(i).id = last_row_id + i /\ NewRow(i).msg = built[i]
  BY DEF NewRow
<1>5. \A i \in 1..Len(built), m \in spooled : m.seq < built[i].seq
  BY <1>0 DEF SequenceOK
<1>6. \A i, j \in 1..Len(built) : i < j <=> built[i].seq < built[j].seq
  <2>1. Len(built) = 2 => built[1].seq < built[2].seq
    BY <1>0 DEF SequenceOK
  <2>2. \A i \in 1..Len(built) : i = 1 \/ (i = 2 /\ Len(built) = 2)
    BY <1>3
  <2>3. QED BY <1>1, <1>3, <2>1, <2>2 DEF Numbers
<1>7. SequenceOK'
  <2>1. \A m \in spooled' : m.seq <= last_seq_no'
    BY <1>0, <1>2, <1>3 DEF SequenceOK
  <2>2. \A i \in 1..Len(built') : built'[i].seq <= last_seq_no'
    BY <1>0, <1>2 DEF SequenceOK
  <2>3. Len(built') = 2 => built'[1].seq < built'[2].seq
    BY <1>0, <1>2 DEF SequenceOK
  <2>4. \A m, n \in spooled' : m.seq = n.seq => m = n
    <3> TAKE m, n \in spooled'
    <3>1. CASE m \in spooled /\ n \in spooled
      BY <1>0, <3>1 DEF SequenceOK
    <3>2. CASE m \in spooled /\ n \notin spooled
      BY <1>1, <1>3, <1>5, <3>2 DEF Numbers
    <3>3. CASE m \notin spooled /\ n \in spooled
      BY <1>1, <1>3, <1>5, <3>3 DEF Numbers
    <3>4. CASE m \notin spooled /\ n \notin spooled
      <4>1. PICK i \in 1..Len(built), j \in 1..Len(built) :
               m = built[i] /\ n = built[j]
        BY <1>3, <3>4
      <4>2. i < j \/ j < i \/ i = j
        BY <1>1 DEF Numbers
      <4>3. QED BY <1>1, <1>6, <4>1, <4>2 DEF Numbers
    <3>5. QED BY <3>1, <3>2, <3>3, <3>4
  <2>5. QED BY <1>2, <2>1, <2>2, <2>3, <2>4 DEF SequenceOK
<1>8. \A r \in outbox : r.msg \in spooled /\ r.id <= last_row_id /\ r.id \in Nat
  BY <1>0, <1>1 DEF RowsOK, Numbers
<1>9. \A r \in outbox, i \in 1..Len(built) :
        r.id < NewRow(i).id /\ r.msg.seq < NewRow(i).msg.seq
  <2> TAKE r \in outbox, i \in 1..Len(built)
  <2>1. r.id < last_row_id + i
    BY <1>1, <1>8 DEF Numbers
  <2>2. r.msg.seq < built[i].seq
    BY <1>5, <1>8
  <2>3. QED BY <1>4, <2>1, <2>2
<1>10. \A r \in outbox' :
         r.msg \in spooled' /\ r.id <= last_row_id' /\ r.id \in Nat
         /\ r.msg.seq \in Nat
  <2> TAKE r \in outbox'
  <2>1. CASE r \in outbox
    BY <1>1, <1>3, <1>8, <2>1 DEF Numbers
  <2>2. CASE r \notin outbox
    <3>1. PICK i \in 1..Len(built) : r = NewRow(i)
      BY <1>3, <2>2
    <3>2. r.id = last_row_id + i /\ r.msg = built[i]
      BY <1>4, <3>1
    <3>3. QED BY <1>1, <1>3, <3>2 DEF Numbers
  <2>3. QED BY <2>1, <2>2
<1>11. RowsOK'
  <2>1. \A r, q \in outbox' :
          /\ r.id = q.id => r = q
          /\ r.id < q.id <=> r.msg.seq < q.msg.seq
    <3> TAKE r, q \in outbox'
    <3>1. CASE r \in outbox /\ q \in outbox
      BY <1>0, <3>1 DEF RowsOK, FifoOutbox
    <3>2. CASE r \in outbox /\ q \notin outbox
      BY <1>3, <1>9, <1>10, <3>2
    <3>3. CASE r \notin outbox /\ q \in outbox
      BY <1>3, <1>9, <1>10, <3>3
    <3>4. CASE r \notin outbox /\ q \notin outbox
      <4>1. PICK i \in 1..Len(built), j \in 1..Len(built) :
               r = NewRow(i) /\ q = NewRow(j)
        BY <1>3, <3>4
      <4>2. /\ r.id = last_row_id + i /\ r.msg = built[i]
            /\ q.id = last_row_id + j /\ q.msg = built[j]
        BY <1>4, <4>1
      <4>3. r.id = q.id => r = q
        BY <1>1, <4>1, <4>2 DEF Numbers
      <4>4. r.id < q.id <=> i < j
        BY <1>1, <4>2 DEF Numbers
      <4>5. QED BY <1>6, <4>2, <4>3, <4>4
    <3>5. QED BY <3>1, <3>2, <3>3, <3>4
  <2>2. FifoOutbox'
    BY <2>1 DEF FifoOutbox
  <2>3. QED BY <1>10, <2>1, <2>2, Zenon DEF RowsOK
<1>12. SenderOK'
  <2>1. batch' \subseteq outbox'
    BY <1>0, <1>2, <1>3 DEF SenderOK
  <2>2. \A r \in batch', q \in outbox' \ batch' : r.id < q.id
    BY <1>0, <1>2, <1>3, <1>9 DEF SenderOK
  <2>3. xpc' = "ack" => \E r \in batch' : Current(r)' /\ r.msg.seq \in delivered'
    BY <1>0, <1>2 DEF SenderOK, Current
  <2>4. QED BY <2>1, <2>2, <2>3 DEF SenderOK
<1>13. DeliveryOK'
  <2>1. \A m \in spooled' : m.seq \in delivered' \/ \E r \in outbox' : r.msg = m
    BY <1>0, <1>2, <1>3, <1>4 DEF DeliveryOK
  <2>2. delivered' \subseteq Seqs(spooled)'
    BY <1>0, <1>2, <1>3 DEF DeliveryOK, Seqs
  <2>3. \A m \in spooled', d \in delivered' : m.seq \notin delivered' => d < m.seq
    <3> TAKE m \in spooled', d \in delivered'
    <3>1. CASE m \in spooled
      BY <1>0, <1>2, <3>1 DEF DeliveryOK
    <3>2. CASE m \notin spooled
      <4>1. \E n \in spooled : d = n.seq
        BY <1>0, <1>2 DEF DeliveryOK, Seqs
      <4>2. QED BY <1>3, <1>5, <3>2, <4>1
    <3>3. QED BY <3>1, <3>2
  <2>4. QED BY <2>1, <2>2, <2>3 DEF DeliveryOK
<1>14. QED BY <1>7, <1>11, <1>12, <1>13 DEF SafeOK

\* The row the sender works on is the oldest of all.
LEMMA CurrentIsOldest ==
  ASSUME Numbers, RowsOK, SenderOK, NEW r \in batch, Current(r)
  PROVE  /\ r \in outbox /\ \A q \in outbox : r.id <= q.id
         /\ \A q \in outbox : q = r \/ r.msg.seq < q.msg.seq
         /\ \A q \in outbox : q.id = r.id => q = r
<1>1. r \in outbox /\ \A q \in outbox : r.id <= q.id
  BY DEF SenderOK, Current, Numbers
<1>2. \A q \in outbox : q.id = r.id => q = r
  BY <1>1 DEF RowsOK
<1>3. \A q \in outbox : q = r \/ r.id < q.id
  BY <1>1, <1>2 DEF Numbers
<1>4. QED BY <1>1, <1>2, <1>3 DEF RowsOK, FifoOutbox

LEMMA SendSafe ==
  ASSUME IInv, SendSucceeds \/ SendFails
  PROVE  SafeOK'
<1>0. TypeOK /\ SequenceOK /\ RowsOK /\ SenderOK /\ DeliveryOK
  BY DEF IInv, SafeOK
<1>1. Numbers
  BY <1>0, TypesAreNumbers
<1>2. UNCHANGED <<last_seq_no, last_row_id, outbox, spooled, built, batch, spc>>
  BY DEF SendSucceeds, SendFails, notSender, spooler
<1>3. SequenceOK' /\ RowsOK'
  BY <1>0, <1>2 DEF SequenceOK, RowsOK, FifoOutbox
<1>4. PICK r \in batch :
        /\ Current(r)
        /\ \/ delivered' = delivered \cup {r.msg.seq}
           \/ delivered' = delivered /\ xpc' # "ack"
  BY DEF SendSucceeds, SendFails
<1>5. /\ r \in outbox /\ r.msg \in spooled
      /\ \A q \in outbox : q = r \/ r.msg.seq < q.msg.seq
  BY <1>0, <1>1, <1>4, CurrentIsOldest DEF RowsOK
<1>6. SenderOK'
  BY <1>0, <1>2, <1>4 DEF SenderOK, Current
<1>7. DeliveryOK'
  <2>1. delivered \subseteq delivered' /\ delivered' \subseteq delivered \cup {r.msg.seq}
    BY <1>4
  <2>2. \A m \in spooled' : m.seq \in delivered' \/ \E q \in outbox' : q.msg = m
    BY <1>0, <1>2, <2>1 DEF DeliveryOK
  <2>3. delivered' \subseteq Seqs(spooled)'
    BY <1>0, <1>2, <1>5, <2>1 DEF DeliveryOK, Seqs
  <2>4. \A m \in spooled', d \in delivered' : m.seq \notin delivered' => d < m.seq
    <3> TAKE m \in spooled', d \in delivered'
    <3>1. CASE d \in delivered
      BY <1>0, <1>2, <2>1, <3>1 DEF DeliveryOK
    <3>2. CASE d \notin delivered
      <4>1. d = r.msg.seq /\ d \in delivered'
        BY <2>1, <3>2
      <4>2. m.seq \notin delivered' => \E q \in outbox : q.msg = m
        BY <1>0, <1>2, <2>1 DEF DeliveryOK
      <4>3. QED BY <1>5, <4>1, <4>2
    <3>3. QED BY <3>1, <3>2
  <2>5. QED BY <2>2, <2>3, <2>4 DEF DeliveryOK
<1>8. QED BY <1>3, <1>6, <1>7 DEF SafeOK

\* What Acknowledge deletes is the oldest row, and it was delivered.
LEMMA AckEffect ==
  ASSUME IInv, Ack
  PROVE  \E r \in batch :
           /\ Current(r) /\ r.msg.seq \in delivered
           /\ outbox' = outbox \ {r} /\ batch' = batch \ {r}
<1>0. TypeOK /\ RowsOK /\ SenderOK /\ xpc = "ack"
  BY DEF IInv, SafeOK, Ack
<1>1. Numbers
  BY <1>0, TypesAreNumbers
<1>2. PICK r \in batch : Current(r) /\ Acknowledge(r) /\ batch' = batch \ {r}
  BY DEF Ack, Current
<1>3. PICK d \in batch : Current(d) /\ d.msg.seq \in delivered
  BY <1>0 DEF SenderOK
<1>4. r = d
  <2>1. r.id <= d.id /\ d.id <= r.id /\ r \in outbox /\ d \in outbox
    BY <1>0, <1>2, <1>3 DEF Current, SenderOK
  <2>2. QED BY <1>0, <1>1, <2>1 DEF RowsOK, Numbers
<1>5. outbox' = outbox \ {r}
  <2>1. \A q \in outbox : q.id = r.id <=> q = r
    BY <1>0, <1>1, <1>2, CurrentIsOldest
  <2>2. QED BY <1>2, <2>1 DEF Acknowledge
<1>6. QED BY <1>2, <1>3, <1>4, <1>5

LEMMA AckSafe ==
  ASSUME IInv, Ack
  PROVE  SafeOK'
<1>0. TypeOK /\ SequenceOK /\ RowsOK /\ SenderOK /\ DeliveryOK
  BY DEF IInv, SafeOK
<1>1. UNCHANGED <<last_seq_no, last_row_id, spooled, delivered, built, spc>>
      /\ xpc' = "acked"
  BY DEF Ack, notSender, spooler
<1>2. PICK r \in batch :
        /\ r.msg.seq \in delivered
        /\ outbox' = outbox \ {r} /\ batch' = batch \ {r}
  BY AckEffect
<1>3. SequenceOK'
  BY <1>0, <1>1 DEF SequenceOK
<1>4. RowsOK'
  BY <1>0, <1>1, <1>2 DEF RowsOK, FifoOutbox
<1>5. SenderOK'
  BY <1>0, <1>1, <1>2 DEF SenderOK
<1>6. DeliveryOK'
  BY <1>0, <1>1, <1>2 DEF DeliveryOK, Seqs
<1>7. QED BY <1>3, <1>4, <1>5, <1>6 DEF SafeOK

LEMMA FetchSafe ==
  ASSUME IInv, Fetch
  PROVE  SafeOK'
<1>0. SequenceOK /\ RowsOK /\ SenderOK /\ DeliveryOK
  BY DEF IInv, SafeOK
<1>1. /\ UNCHANGED <<last_seq_no, last_row_id, outbox, spooled, delivered>>
      /\ UNCHANGED <<built, spc>> /\ xpc' \in {"send", "loop"}
  BY DEF Fetch, notSender, spooler
<1>2. SequenceOK' /\ RowsOK' /\ DeliveryOK'
  BY <1>0, <1>1 DEF SequenceOK, RowsOK, FifoOutbox, DeliveryOK, Seqs
<1>3. SenderOK'
  <2>1. batch' = batch \/ Pending(batch')
    BY DEF Fetch
  <2>2. batch' \subseteq outbox' /\ \A r \in batch', q \in outbox' \ batch' : r.id < q.id
    BY <1>0, <1>1, <2>1 DEF Pending, SenderOK
  <2>3. QED BY <1>1, <2>2 DEF SenderOK
<1>4. QED BY <1>2, <1>3 DEF SafeOK
-----------------------------------------------------------------------------
LEMMA CollectorStepSafe ==
  ASSUME IInv, Collector \/ CollectorFault
  PROVE  SafeOK'
<1>1. UNCHANGED notCollector
  BY DEF Collector, CollectorFault, CollectWindow, CollectEnd, PutWindow,
         PutFull, AfterFull, PillCheck, PutNone, CollectorFailed
<1>2. /\ UNCHANGED <<blackbox, spooled, delivered, built, batch>>
      /\ UNCHANGED <<spc, xpc>>
  BY <1>1 DEF notCollector, spooler, sender
<1>3. QED BY <1>2, FrameSafe DEF IInv

LEMMA SpoolerStepSafe ==
  ASSUME IInv, Spooler \/ SpoolerFault \/ CallbackFault
  PROVE  SafeOK'
<1>1. UNCHANGED notSpooler
  BY DEF Spooler, SpoolerFault, CallbackFault, SpoolerCheck, TakeTransition,
         TakeItem, GetTimeout, Reserve, ReserveEvent, Store, Wake,
         SpoolerFailed
<1>2. UNCHANGED <<delivered, batch, xpc>>
  BY <1>1 DEF notSpooler, sender
<1>3. CASE Reserve \/ ReserveEvent
  BY <1>3, ReserveSafe
<1>4. CASE Store
  BY <1>4, StoreSafe
<1>5. CASE SpoolerCheck \/ TakeTransition \/ TakeItem \/ GetTimeout \/ SpoolerFailed
  <2>1. /\ UNCHANGED <<blackbox, spooled, built>>
        /\ spc' \notin {"reserve_event", "store"}
    <3>1. CASE TakeItem
      <4>1. UNCHANGED <<blackbox, spooled, built>>
        BY <3>1 DEF TakeItem
      <4>2. summary_queue # <<>> /\ summary_queue \in Seq(Items \cup {NoneItem})
        BY <3>1 DEF TakeItem, IInv, TypeOK, QueueTypes
      <4>3. Head(summary_queue).kind \in {"none", "incomplete", "window"}
        <5>1. Head(summary_queue) \in Items \cup {NoneItem}
          BY <4>2
        <5>2. QED BY <5>1, ItemTypes DEF NoneItem
      <4>4. spc' \in {"done", "reserve"}
        BY <3>1, <4>3 DEF TakeItem
      <4>5. QED BY <4>1, <4>4
    <3>2. QED
      BY <1>5, <3>1
      DEF SpoolerCheck, TakeTransition, GetTimeout, SpoolerFailed
  <2>2. QED BY <1>2, <2>1, FrameSafe DEF IInv
<1>6. CASE Wake \/ SpoolerFault \/ CallbackFault
  <2>1. /\ UNCHANGED <<blackbox, spooled>> /\ built' = <<>>
        /\ spc' \notin {"reserve_event", "store"}
    BY <1>6 DEF Wake, SpoolerFault, CallbackFault
  <2>2. QED BY <1>2, <2>1, ForgetSafe DEF IInv
<1>7. QED BY <1>3, <1>4, <1>5, <1>6 DEF Spooler

LEMMA SenderStepSafe ==
  ASSUME IInv, Sender \/ WaitTimeout \/ SenderFault
  PROVE  SafeOK'
<1>1. UNCHANGED notSender
  BY DEF Sender, WaitTimeout, SenderFault, SenderLoop, WakeUp, ClearDrain,
         Fetch, SendSucceeds, SendFails, Ack, AfterSuccess, AfterFailure,
         SenderFailed
<1>2. UNCHANGED <<last_seq_no, last_row_id, spooled, built, spc>>
  BY <1>1 DEF notSender, spooler
<1>3. CASE SendSucceeds \/ SendFails
  BY <1>3, SendSafe
<1>4. CASE Ack
  BY <1>4, AckSafe
<1>5. CASE Fetch
  BY <1>5, FetchSafe
<1>6. CASE \/ SenderLoop \/ WakeUp \/ WaitTimeout \/ ClearDrain
           \/ AfterSuccess \/ SenderFailed
  <2>1. UNCHANGED <<outbox, delivered, batch>> /\ xpc' # "ack"
    BY <1>6 DEF SenderLoop, WakeUp, WaitTimeout, ClearDrain, AfterSuccess,
                SenderFailed
  <2>2. QED BY <1>2, <2>1, FrameSafe DEF IInv, blackbox
<1>7. CASE AfterFailure \/ SenderFault
  <2>1. UNCHANGED <<outbox, delivered>> /\ batch' = {} /\ xpc' # "ack"
    BY <1>7 DEF AfterFailure, SenderFault
  <2>2. QED BY <1>2, <2>1, ForgetSafe DEF IInv, blackbox
<1>8. QED BY <1>3, <1>4, <1>5, <1>6, <1>7 DEF Sender

LEMMA ControlStepSafe ==
  ASSUME IInv, Start \/ Flush \/ StopCollector \/ Stop
  PROVE  SafeOK'
<1>1. UNCHANGED notControl
  BY DEF Stop, Start, Flush, StopCollector, StopSpooler, StopSender, StopReturns
<1>2. UNCHANGED <<blackbox, spooled, delivered, built, batch>>
  BY <1>1 DEF notControl
<1>3. /\ spc' = spc \/ spc' = "check"
      /\ xpc' = xpc \/ xpc' = "loop"
  BY DEF Stop, Start, Flush, StopCollector, StopSpooler, StopSender, StopReturns
<1>4. QED BY <1>2, <1>3, FrameSafe DEF IInv

LEMMA StepSafe == IInv /\ [Next]_vars => SafeOK'
<1> SUFFICES ASSUME IInv, [Next]_vars PROVE SafeOK'
  OBVIOUS
<1>1. CASE Collector \/ CollectorFault
  BY <1>1, CollectorStepSafe
<1>2. CASE Spooler \/ SpoolerFault \/ CallbackFault
  BY <1>2, SpoolerStepSafe
<1>3. CASE Sender \/ WaitTimeout \/ SenderFault
  BY <1>3, SenderStepSafe
<1>4. CASE Start \/ Flush \/ StopCollector \/ Stop
  BY <1>4, ControlStepSafe
<1>5. CASE Crash
  <2>1. /\ UNCHANGED <<blackbox, spooled, delivered>> /\ built' = <<>>
        /\ batch' = {} /\ spc' = "new" /\ xpc' = "new"
    BY <1>5 DEF Crash
  <2>2. QED BY <2>1, ForgetSafe DEF IInv
<1>6. CASE Restart
  <2>1. /\ UNCHANGED <<blackbox, spooled, delivered, built, batch>>
        /\ spc' = "check" /\ xpc' = "loop"
    BY <1>6 DEF Restart
  <2>2. QED BY <2>1, FrameSafe DEF IInv
<1>7. CASE UNCHANGED vars
  BY <1>7, FrameSafe DEF IInv, vars, blackbox, spooler, sender
<1>8. QED
  BY <1>1, <1>2, <1>3, <1>4, <1>5, <1>6, <1>7 DEF Next, Finished

\* IInv is inductive: the types give it numbers to compare, the rest the order
\* in which they were given.
LEMMA Invariant == Spec => []IInv
<1>1. Init => IInv
  BY InitTypes, InitSafe DEF IInv
<1>2. IInv /\ [Next]_vars => IInv'
  BY StepTypes, StepSafe DEF IInv
<1>3. QED BY <1>1, <1>2, PTL DEF Spec

\* No sequence number is given to two messages, whatever crashes between its
\* reservation and the transaction that stores the message.
THEOREM SequenceSafe == Spec => []SequenceNeverReused
<1>1. IInv => SequenceNeverReused
  <2> SUFFICES ASSUME IInv PROVE SequenceNeverReused
    OBVIOUS
  <2>1. SequenceOK /\ Numbers
    BY TypesAreNumbers DEF IInv, SafeOK
  <2>2. spc \in {"reserve_event", "store"} =>
          \A i \in 1..Len(built) : built[i].seq \notin Seqs(spooled)
    BY <2>1 DEF SequenceOK, Numbers, Seqs
  <2>3. QED BY <2>1, <2>2 DEF SequenceOK, SequenceNeverReused
<1>2. QED BY <1>1, Invariant, PTL

\* Rows are in sequence order, so replay by row id is replay in order.
THEOREM FifoSafe == Spec => []FifoOutbox
<1>1. IInv => FifoOutbox
  BY DEF IInv, SafeOK, RowsOK
<1>2. QED BY <1>1, Invariant, PTL
-----------------------------------------------------------------------------
(* Refinement: Store accepts, a send delivers, Acknowledge removes, and no *)
(* other step is visible.                                                  *)

LEMMA Stutter ==
  ASSUME UNCHANGED <<outbox, spooled, delivered>>
  PROVE  UNCHANGED OD!vars
BY DEF OD!vars, Seqs, Stored

LEMMA StoreAccepts ==
  ASSUME IInv, Store
  PROVE  OD!Accept
<1>0. TypeOK /\ SequenceOK /\ spc = "store"
  BY DEF IInv, SafeOK, Store
<1>1. Numbers
  BY <1>0, TypesAreNumbers
<1>2. UNCHANGED delivered
  BY DEF Store, notSpooler
<1>3. DEFINE new == {built[i].seq : i \in 1..Len(built)}
<1>4. Seqs(spooled)' = Seqs(spooled) \cup new
  BY StoreEffect DEF Seqs
<1>5. Seqs(Stored)' = Seqs(Stored) \cup new
  <2>1. Seqs(Stored) = {r.msg.seq : r \in outbox}
        /\ Seqs(Stored)' = {r.msg.seq : r \in outbox'}
    BY DEF Seqs, Stored
  <2>2. {NewRow(i).msg.seq : i \in 1..Len(built)} = new
    BY DEF NewRow
  <2>3. outbox' = outbox \cup {NewRow(i) : i \in 1..Len(built)}
    BY StoreEffect
  <2>4. {r.msg.seq : r \in outbox'} =
           {r.msg.seq : r \in outbox}
             \cup {NewRow(i).msg.seq : i \in 1..Len(built)}
    BY <2>3
  <2>5. QED BY <2>1, <2>2, <2>4
<1>6. \A s \in new, a \in Seqs(spooled) : a < s
  BY <1>0 DEF SequenceOK, Seqs
<1>7. new \subseteq Nat /\ Seqs(spooled) \subseteq Nat
  BY <1>1 DEF Numbers, Seqs
<1> HIDE DEF new
<1>8. Seqs(spooled)' \ Seqs(spooled) = new
  BY <1>4, <1>6, <1>7
<1>9. QED BY <1>2, <1>4, <1>5, <1>6, <1>7, <1>8 DEF OD!Accept

\* The row at hand is the oldest pending message of the abstraction.
LEMMA CurrentIsOldestPending ==
  ASSUME IInv, NEW r \in batch, Current(r)
  PROVE  r.msg.seq \in Seqs(Stored) /\ OD!Oldest(r.msg.seq)
<1>1. Numbers /\ RowsOK /\ SenderOK
  BY TypesAreNumbers DEF IInv, SafeOK
<1>2. r \in outbox /\ \A q \in outbox : q = r \/ r.msg.seq < q.msg.seq
  BY <1>1, CurrentIsOldest
<1>3. \A q \in outbox : r.msg.seq <= q.msg.seq
  BY <1>1, <1>2 DEF Numbers
<1>4. QED BY <1>2, <1>3 DEF Seqs, Stored, OD!Oldest

LEMMA SendDelivers ==
  ASSUME IInv, SendSucceeds \/ SendFails
  PROVE  OD!Deliver \/ UNCHANGED OD!vars
<1>1. UNCHANGED <<outbox, spooled>>
  BY DEF SendSucceeds, SendFails, notSender
<1>2. PICK r \in batch :
        /\ Current(r)
        /\ delivered' = delivered \cup {r.msg.seq} \/ delivered' = delivered
  BY DEF SendSucceeds, SendFails
<1>3. CASE delivered' = delivered
  BY <1>1, <1>3, Stutter
<1>4. CASE delivered' = delivered \cup {r.msg.seq}
  <2>1. Seqs(spooled)' = Seqs(spooled) /\ Seqs(Stored)' = Seqs(Stored)
    BY <1>1 DEF Seqs, Stored
  <2>2. r.msg.seq \in Seqs(Stored) /\ OD!Oldest(r.msg.seq)
    BY <1>2, CurrentIsOldestPending
  <2>3. QED BY <1>4, <2>1, <2>2 DEF OD!Deliver
<1>5. QED BY <1>2, <1>3, <1>4

LEMMA AckRemoves ==
  ASSUME IInv, Ack
  PROVE  OD!Remove
<1>1. PICK r \in batch :
        Current(r) /\ r.msg.seq \in delivered /\ outbox' = outbox \ {r}
  BY AckEffect
<1>2. UNCHANGED <<spooled, delivered>>
  BY DEF Ack, notSender
<1>3. r.msg.seq \in Seqs(Stored) /\ OD!Oldest(r.msg.seq)
  BY <1>1, CurrentIsOldestPending
<1>4. Seqs(Stored)' = Seqs(Stored) \ {r.msg.seq}
  <2>1. Numbers /\ RowsOK /\ SenderOK
    BY TypesAreNumbers DEF IInv, SafeOK
  <2>2. \A q \in outbox : q = r \/ q.msg.seq # r.msg.seq
    <3>1. r \in outbox /\ \A q \in outbox : q = r \/ r.msg.seq < q.msg.seq
      BY <1>1, <2>1, CurrentIsOldest
    <3>2. QED BY <2>1, <3>1 DEF Numbers
  <2>3. Seqs(Stored) = {q.msg.seq : q \in outbox}
        /\ Seqs(Stored)' = {q.msg.seq : q \in outbox'}
    BY DEF Seqs, Stored
  <2>4. QED BY <1>1, <2>2, <2>3
<1>5. Seqs(spooled)' = Seqs(spooled)
  BY <1>2 DEF Seqs
<1>6. QED BY <1>1, <1>2, <1>3, <1>4, <1>5 DEF OD!Remove

LEMMA StepRefines == IInv /\ [Next]_vars => [OD!Next]_(OD!vars)
<1> SUFFICES ASSUME IInv, [Next]_vars
             PROVE  OD!Next \/ UNCHANGED OD!vars
  OBVIOUS
<1>1. CASE Collector \/ CollectorFault
  <2>1. UNCHANGED notCollector
    BY <1>1 DEF Collector, CollectorFault, CollectWindow, CollectEnd,
       PutWindow, PutFull, AfterFull, PillCheck, PutNone, CollectorFailed
  <2>2. QED BY <2>1, Stutter DEF notCollector, blackbox
<1>2. CASE Store
  BY <1>2, StoreAccepts DEF OD!Next
<1>3. CASE (Spooler /\ ~Store) \/ SpoolerFault \/ CallbackFault
  <2>1. UNCHANGED <<outbox, spooled, notSpooler>>
    BY <1>3 DEF Spooler, SpoolerFault, CallbackFault, SpoolerCheck,
       TakeTransition, TakeItem, GetTimeout, Reserve, ReserveEvent, Wake,
       SpoolerFailed, blackbox
  <2>2. QED BY <2>1, Stutter DEF notSpooler
<1>4. CASE SendSucceeds \/ SendFails
  BY <1>4, SendDelivers DEF OD!Next
<1>5. CASE Ack
  BY <1>5, AckRemoves DEF OD!Next
<1>6. CASE \/ SenderLoop \/ WakeUp \/ WaitTimeout \/ ClearDrain \/ Fetch
           \/ AfterSuccess \/ AfterFailure \/ SenderFailed \/ SenderFault
  <2>1. UNCHANGED <<outbox, delivered, notSender>>
    BY <1>6 DEF SenderLoop, WakeUp, WaitTimeout, ClearDrain, Fetch,
       AfterSuccess, AfterFailure, SenderFailed, SenderFault
  <2>2. QED BY <2>1, Stutter DEF notSender
<1>7. CASE Start \/ Flush \/ StopCollector \/ Stop
  <2>1. UNCHANGED notControl
    BY <1>7 DEF Stop, Start, Flush, StopCollector, StopSpooler, StopSender,
       StopReturns
  <2>2. QED BY <2>1, Stutter DEF notControl, blackbox
<1>8. CASE Restart \/ Crash \/ UNCHANGED vars
  BY <1>8, Stutter DEF Restart, Crash, vars, blackbox
<1>9. QED
  BY <1>1, <1>2, <1>3, <1>4, <1>5, <1>6, <1>7, <1>8
  DEF Next, Finished, Spooler, Sender

\* The runtime implements OrderedDelivery, with any number of windows, crashes,
\* send failures and faults: no stored message is lost, skipped or overtaken.
THEOREM Refinement == Spec => ImplementsOrderedDelivery
<1>1. Init => OD!Init
  BY DEF Init, OD!Init, Seqs, Stored
<1>2. IInv /\ [Next]_vars => [OD!Next]_(OD!vars)
  BY StepRefines
<1>3. QED BY <1>1, <1>2, Invariant, PTL DEF Spec, ImplementsOrderedDelivery, OD!Spec
-----------------------------------------------------------------------------
(* What OrderedDelivery promises holds of the specification itself, and so *)
(* of every implementation: the runtime is one.                            *)

AbstractInv == Seqs(spooled) \subseteq Nat /\ OD!NothingLost /\ OD!InOrder

LEMMA AbstractStep == AbstractInv /\ [OD!Next]_(OD!vars) => AbstractInv'
<1> SUFFICES ASSUME AbstractInv, OD!Next \/ UNCHANGED OD!vars PROVE AbstractInv'
  OBVIOUS
<1> DEFINE accepted == Seqs(spooled)
           pending == Seqs(Stored)
<1> USE DEF AbstractInv, OD!NothingLost, OD!InOrder
<1>1. CASE OD!Accept
  <2>1. /\ accepted \subseteq accepted' /\ accepted' \subseteq Nat
        /\ pending' = pending \cup (accepted' \ accepted)
        /\ delivered' = delivered
        /\ \A s \in accepted' \ accepted, a \in accepted : a < s
    BY <1>1 DEF OD!Accept
  <2>2. OD!NothingLost'
    BY <2>1
  <2>3. OD!InOrder'
    <3>1. delivered \subseteq accepted
      OBVIOUS
    <3>2. QED BY <2>1, <3>1
  <2>4. QED BY <2>1, <2>2, <2>3
<1>2. CASE OD!Deliver
  <2>1. PICK s \in pending :
          /\ OD!Oldest(s) /\ delivered' = delivered \cup {s}
          /\ UNCHANGED <<accepted, pending>>
    BY <1>2 DEF OD!Deliver
  <2>2. OD!NothingLost'
    BY <2>1
  <2>3. OD!InOrder'
    <3>1. \A x \in accepted' \ delivered' : x \in pending /\ x # s /\ s <= x
      BY <2>1 DEF OD!Oldest
    <3>2. \A x \in accepted' \ delivered' : s < x
      BY <2>1, <3>1
    <3>3. QED BY <2>1, <3>2
  <2>4. QED BY <2>1, <2>2, <2>3
<1>3. CASE OD!Remove
  BY <1>3 DEF OD!Remove
<1>4. CASE UNCHANGED OD!vars
  BY <1>4 DEF OD!vars
<1>5. QED BY <1>1, <1>2, <1>3, <1>4 DEF OD!Next

\* Every accepted message is still stored or was handed over, and the first
\* deliveries happen in sequence order: a gap can only be at the end.
THEOREM AbstractDelivers == OD!Spec => [](OD!NothingLost /\ OD!InOrder)
<1>1. OD!Init => AbstractInv
  BY DEF OD!Init, AbstractInv, OD!NothingLost, OD!InOrder
<1>2. AbstractInv => OD!NothingLost /\ OD!InOrder
  BY DEF AbstractInv
<1>3. QED BY <1>1, <1>2, AbstractStep, PTL DEF OD!Spec

\* The runtime inherits it: through every crash, failed send and failed call a
\* message that was stored is in the outbox or was handed to the transport.
THEOREM Delivered == Spec => [](OD!NothingLost /\ OD!InOrder)
BY Refinement, AbstractDelivers DEF ImplementsOrderedDelivery
=============================================================================
