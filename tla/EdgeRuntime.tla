---------------------------- MODULE EdgeRuntime ----------------------------
(***************************************************************************)
(* edge/edge_monitor/runtime.py: one EdgeRuntime object per process, its   *)
(* collector, spooler and sender threads, the thread that calls start()    *)
(* and stop(), and the SQLite blackbox that survives the process.          *)
(*                                                                         *)
(* A step is what a thread does between two operations on shared state: a  *)
(* queue operation, an Event, or one method of the blackbox, whose lock    *)
(* and transaction make it atomic.  Payloads are reduced to what ordering, *)
(* loss and the rule engine's events depend on.                            *)
(*                                                                         *)
(* Limits: start() is called again only when all threads of the last start *)
(* have ended; a transport is configured; a failing blackbox call has no   *)
(* effect (Blackbox.tla models the ones that have); time is the freedom of *)
(* every timed wait to expire or not.                                      *)
(***************************************************************************)
EXTENDS Naturals, Sequences, FiniteSets

CONSTANTS
  QueueMax,           \* queue_maxsize
  BatchSize,          \* config.replay_batch_size
  FailureThreshold,   \* config.connection_failure_threshold
  RecoveryThreshold,  \* config.connection_recovery_threshold
  WindowCount,        \* window_count given to start()
  WindowOutcomes,     \* what a window can turn out to be: a status, or
                      \* "incomplete" when a sensor read fails
  MaxCrashes,         \* bound: how often the process dies or is replaced
  MaxStops,           \* bound: how often stop() is called; start() is called
                      \* again while one is left
  MaxSendFailures,    \* bound: how often send_json raises
  MaxFaults           \* bound: how often a worker's own call raises

Statuses == {"NORMAL", "WARNING", "DANGER"}

ASSUME RuntimeAssumption ==
  /\ QueueMax \in Nat \ {0}
  /\ BatchSize \in Nat \ {0}
  /\ FailureThreshold \in Nat \ {0}
  /\ RecoveryThreshold \in Nat \ {0}
  /\ WindowCount \in Nat
  /\ WindowOutcomes \subseteq Statuses \cup {"incomplete"}
  /\ MaxCrashes \in Nat
  /\ MaxStops \in Nat
  /\ MaxSendFailures \in Nat
  /\ MaxFaults \in Nat

VARIABLES
  \* the blackbox file: it survives a crash
  last_seq_no,        \* device_sequence.last_seq_no
  last_row_id,        \* the AUTOINCREMENT counter of the outbox
  outbox,             \* rows [id, msg]
  \* shared by the threads of the process
  summary_queue, transition_queue,
  stop_collector, stop_spooler, stop_sender, drain_event,
  worker_failure,
  \* the collector thread
  cpc, collected, produced, collector_raised,
  \* the spooler thread
  spc, item, built, previous_status,
  \* the sender thread
  xpc, batch, health, backoff,
  \* the thread that owns the runtime
  ctl, clean,
  \* history: what was stored, what the transport got, windows made, and
  \* whether a runtime was started again after a failed call of a worker
  spooled, delivered, window_no, first_no, outlived,
  \* how much of each bound is used
  crashes, stops, send_failures, faults

blackbox   == <<last_seq_no, last_row_id, outbox>>
events     == <<stop_collector, stop_spooler, stop_sender, drain_event,
                worker_failure>>
collector  == <<cpc, collected, produced, collector_raised>>
spooler    == <<spc, item, built, previous_status>>
sender     == <<xpc, batch, health, backoff>>
control    == <<ctl, clean>>
bounds     == <<crashes, stops, send_failures, faults>>
vars == <<blackbox, summary_queue, transition_queue, events, collector,
          spooler, sender, control, spooled, delivered, window_no, first_no,
          outlived, bounds>>
\* What no step of the collector, the spooler, the sender and the thread
\* that starts and stops them touches.
notCollector == <<blackbox, transition_queue, spooler, sender, control,
  spooled, delivered, first_no, outlived, crashes, stops, send_failures>>
notSpooler == <<collector, sender, control, delivered, window_no,
  first_no, outlived, crashes, stops, send_failures>>
notSender == <<last_seq_no, last_row_id, summary_queue, collector,
  spooler, control, spooled, window_no, first_no, outlived, crashes, stops>>
notControl == <<blackbox, summary_queue, transition_queue, worker_failure,
  collected, produced, collector_raised, spooled, delivered, window_no,
  first_no, outlived, crashes, send_failures, faults, item, built,
  previous_status, batch, health, backoff>>
-----------------------------------------------------------------------------
(* Data.                                                                   *)

\* What the collector puts in the summary queue: a WindowSummary, of which the
\* model keeps the status, an IncompleteWindowError, or None.
Items == [kind : {"window"}, status : Statuses, no : Nat]
    \cup [kind : {"incomplete"}, no : Nat]
NoneItem == [kind |-> "none"]

Transitions == {"CONNECTION_LOST", "CONNECTION_RECOVERED"}
TransitionItems == [kind : Transitions]

EventKinds == {"THRESHOLD_EXCEEDED", "SENSOR_ERROR"} \cup Transitions

\* A built message: `related` is relatedSeqNo, `no` the window it reports
\* on (0 where there is none).
Messages == [kind : {"telemetry"} \cup EventKinds, status : Statuses,
             seq : Nat, related : Nat, no : Nat]
Rows == [id : Nat, msg : Messages]

Message(kind, status, seq, related, no) ==
  [kind |-> kind, status |-> status, seq |-> seq, related |-> related,
   no |-> no]

MessageType(m) == IF m.kind = "telemetry" THEN "telemetry" ELSE "event"
-----------------------------------------------------------------------------
(* rules.py and runtime.py, pure parts.                                    *)

STATUS_RANK == [NORMAL |-> 0, WARNING |-> 1, DANGER |-> 2]

\* RuleEngine.evaluate: an event is emitted on an upward transition only.
Emits(previous, status) == STATUS_RANK[status] > STATUS_RANK[previous]

\* ConnectionHealthMonitor.observe.  The counter that cannot cause a
\* transition is reset before it can again, so saturating both is exact.
Saturate(n, limit) == IF n >= limit THEN limit ELSE n

ObserveSuccess(h) ==
  LET successes == Saturate(h.successes + 1, RecoveryThreshold)
  IN IF ~h.connected /\ successes >= RecoveryThreshold
     THEN [connected |-> TRUE, failures |-> 0, successes |-> 0]
     ELSE [connected |-> h.connected, failures |-> 0, successes |-> successes]

ObserveFailure(h) ==
  LET failures == Saturate(h.failures + 1, FailureThreshold)
  IN IF h.connected /\ failures >= FailureThreshold
     THEN [connected |-> FALSE, failures |-> 0, successes |-> 0]
     ELSE [connected |-> h.connected, failures |-> failures, successes |-> 0]

\* Mutant: a recovery is not announced.
EnqueueLostOnly(before, after) ==
  IF before.connected => after.connected THEN UNCHANGED transition_queue
  ELSE transition_queue' = Append(transition_queue,
                                  [kind |-> "CONNECTION_LOST"])

\* The transition observe() returns, enqueued by the sender when there is one.
EnqueueTransition(before, after) ==
  IF before.connected = after.connected THEN UNCHANGED transition_queue
  ELSE transition_queue' = Append(transition_queue,
         [kind |-> IF after.connected THEN "CONNECTION_RECOVERED"
                                      ELSE "CONNECTION_LOST"])
-----------------------------------------------------------------------------
(* storage/blackbox.py.                                                    *)

\* Mutant: the number is derived from the rows still stored.
NextSequenceFromRows ==
  IF outbox = {} THEN 1
  ELSE 1 + CHOOSE n \in {r.msg.seq : r \in outbox} :
             \A r \in outbox : r.msg.seq <= n

\* next_sequence: one committed transaction of its own.
NextSequence == last_seq_no + 1

\* INSERT OR IGNORE of one message: UNIQUE(device_id, message_type, seq_no).
Conflicts(db, m) ==
  \E r \in db.rows : /\ MessageType(r.msg) = MessageType(m)
                     /\ r.msg.seq = m.seq

InsertOrIgnore(db, m) ==
  IF Conflicts(db, m) THEN db
  ELSE [rows |-> db.rows \cup {[id |-> db.last + 1, msg |-> m]},
        last |-> db.last + 1]

\* Mutant: the event is inserted before its telemetry.
InsertedReversed(ms) ==
  LET db == [rows |-> outbox, last |-> last_row_id]
  IN IF Len(ms) = 1 THEN InsertOrIgnore(db, ms[1])
     ELSE InsertOrIgnore(InsertOrIgnore(db, ms[2]), ms[1])

\* enqueue and enqueue_many: the pipeline builds one or two messages.
Inserted(ms) ==
  LET db == [rows |-> outbox, last |-> last_row_id]
      one == InsertOrIgnore(db, ms[1])
  IN IF Len(ms) = 1 THEN one ELSE InsertOrIgnore(one, ms[2])

EnqueueMany(ms) ==
  /\ outbox' = Inserted(ms).rows
  /\ last_row_id' = Inserted(ms).last
  /\ spooled' = spooled \cup {ms[i] : i \in 1..Len(ms)}

\* Mutant: ORDER BY id DESC.
PendingNewest(S) ==
  /\ S \subseteq outbox
  /\ \A r \in S, q \in outbox \ S : r.id > q.id
  /\ \/ S = outbox /\ Cardinality(S) <= BatchSize
     \/ Cardinality(S) = BatchSize

\* pending(limit): the `limit` rows with the smallest ids.
Pending(S) ==
  /\ S \subseteq outbox
  /\ \A r \in S, q \in outbox \ S : r.id < q.id
  /\ \/ S = outbox /\ Cardinality(S) <= BatchSize
     \/ Cardinality(S) = BatchSize

\* Mutant: off by one, the row itself stays.
AcknowledgeOlder(row) == outbox' = {r \in outbox : r.id >= row.id}

Acknowledge(row) == outbox' = {r \in outbox : r.id # row.id}
-----------------------------------------------------------------------------
Init ==
  /\ last_seq_no = 0 /\ last_row_id = 0 /\ outbox = {}
  /\ summary_queue = <<>> /\ transition_queue = <<>>
  /\ stop_collector = FALSE /\ stop_spooler = FALSE /\ stop_sender = FALSE
  /\ drain_event = FALSE /\ worker_failure = FALSE
  /\ cpc = "new" /\ collected = NoneItem /\ produced = 0
  /\ collector_raised = FALSE
  /\ spc = "new" /\ item = NoneItem /\ built = <<>>
  /\ previous_status = "NORMAL"
  /\ xpc = "new" /\ batch = {} /\ backoff = 1
  /\ health = [connected |-> TRUE, failures |-> 0, successes |-> 0]
  /\ ctl = "new" /\ clean = TRUE
  /\ spooled = {} /\ delivered = {} /\ window_no = 0 /\ first_no = 0
  /\ outlived = FALSE
  /\ crashes = 0 /\ stops = 0 /\ send_failures = 0 /\ faults = 0
-----------------------------------------------------------------------------
(* _record_worker_failure: every worker is told to stop.                   *)

\* Mutant: only the collector is told.
RecordWorkerFailureQuietly ==
  /\ worker_failure' = TRUE /\ stop_collector' = TRUE
  /\ UNCHANGED <<stop_spooler, stop_sender, drain_event>>

RecordWorkerFailure ==
  /\ worker_failure' = TRUE
  /\ stop_collector' = TRUE /\ stop_spooler' = TRUE /\ stop_sender' = TRUE
  /\ drain_event' = TRUE

SetDrain ==
  /\ drain_event' = TRUE
  /\ UNCHANGED <<stop_collector, stop_spooler, stop_sender, worker_failure>>
-----------------------------------------------------------------------------
(* The collector: collect_to_queue inside _collector_worker.               *)

\* A step of this thread that changes nothing but its program counter.
MoveCollector(pc) ==
  /\ cpc' = pc
  /\ UNCHANGED <<notCollector, summary_queue, events, collected, produced,
                 collector_raised, window_no, faults>>

\* A window is complete, or a sensor read failed and ended it early.
CollectWindow ==
  /\ cpc = "collect" /\ ~stop_collector /\ produced < WindowCount
  /\ \E o \in WindowOutcomes :
       collected' = IF o = "incomplete"
                    THEN [kind |-> "incomplete", no |-> window_no + 1]
                    ELSE [kind |-> "window", status |-> o, no |-> window_no + 1]
  /\ window_no' = window_no + 1
  /\ cpc' = "put"
  /\ UNCHANGED <<notCollector, summary_queue, events, produced,
                 collector_raised, faults>>

\* The loop ends: stop is seen (a partial window is abandoned) or the count
\* of windows is reached.
CollectEnd ==
  /\ cpc = "collect" /\ (stop_collector \/ produced >= WindowCount)
  /\ MoveCollector("pill")

\* Mutants: the queue has no bound; the queue is a stack.
PutWindowUnbounded ==
  /\ cpc = "put"
  /\ summary_queue' = Append(summary_queue, collected)
  /\ collected' = NoneItem /\ produced' = produced + 1 /\ cpc' = "collect"
  /\ UNCHANGED <<notCollector, events, collector_raised, window_no, faults>>

PutWindowOnTop ==
  /\ cpc = "put" /\ Len(summary_queue) < QueueMax
  /\ summary_queue' = <<collected>> \o summary_queue
  /\ collected' = NoneItem /\ produced' = produced + 1 /\ cpc' = "collect"
  /\ UNCHANGED <<notCollector, events, collector_raised, window_no, faults>>

PutWindow ==
  /\ cpc = "put" /\ Len(summary_queue) < QueueMax
  /\ summary_queue' = Append(summary_queue, collected)
  /\ collected' = NoneItem /\ produced' = produced + 1 /\ cpc' = "collect"
  /\ UNCHANGED <<notCollector, events, collector_raised, window_no, faults>>

\* put() timed out with queue.Full; on_overflow only refreshes the metrics.
PutFull ==
  /\ cpc = "put" /\ Len(summary_queue) = QueueMax
  /\ MoveCollector("overflow")

\* Mutant: a window that finds the queue full is dropped.
AfterFullDrops ==
  /\ cpc = "overflow"
  /\ cpc' = "collect" /\ collected' = NoneItem /\ produced' = produced + 1
  /\ UNCHANGED <<notCollector, summary_queue, events, collector_raised,
                 window_no, faults>>

\* After queue.Full: try again, or give the window up when stop is set.
AfterFull ==
  /\ cpc = "overflow"
  /\ IF stop_collector
     THEN cpc' = "pill" /\ collected' = NoneItem /\ collector_raised' = TRUE
     ELSE cpc' = "put" /\ UNCHANGED <<collected, collector_raised>>
  /\ UNCHANGED <<notCollector, summary_queue, events, produced, window_no,
                 faults>>

\* The finally block: offer None until the spooler is told to stop.
Left == IF collector_raised THEN "raised" ELSE "done"

PillCheck ==
  /\ cpc = "pill"
  /\ MoveCollector(IF stop_spooler THEN Left ELSE "put_none")

PutNone ==
  /\ cpc = "put_none"
  /\ IF Len(summary_queue) < QueueMax
     THEN summary_queue' = Append(summary_queue, NoneItem) /\ cpc' = Left
     ELSE cpc' = "pill" /\ UNCHANGED summary_queue
  /\ UNCHANGED <<notCollector, events, collected, produced, collector_raised,
                 window_no, faults>>

\* on_sample or on_overflow raises.
CollectorFault ==
  /\ \/ cpc = "collect" /\ ~stop_collector /\ produced < WindowCount
     \/ cpc = "overflow"
  /\ faults < MaxFaults /\ faults' = faults + 1
  /\ cpc' = "pill" /\ collected' = NoneItem /\ collector_raised' = TRUE
  /\ UNCHANGED <<notCollector, summary_queue, events, produced, window_no>>

CollectorFailed ==
  /\ cpc = "raised" /\ cpc' = "done" /\ RecordWorkerFailure
  /\ UNCHANGED <<notCollector, summary_queue, collected, produced,
                 collector_raised, window_no, faults>>

Collector == \/ CollectWindow \/ CollectEnd \/ PutWindow \/ PutFull
             \/ AfterFull \/ PillCheck \/ PutNone \/ CollectorFailed
-----------------------------------------------------------------------------
(* The spooler: _spooler_worker, _drain_transitions and the pipeline.      *)

MoveSpooler(pc) ==
  /\ spc' = pc
  /\ UNCHANGED <<notSpooler, blackbox, summary_queue, transition_queue,
                 events, item, built, previous_status, spooled, faults>>

\* Mutant: stop ends the thread although windows are queued.
SpoolerCheckStopOnly ==
  /\ spc = "check"
  /\ MoveSpooler(IF ~stop_spooler THEN "drain" ELSE "done")

\* Guard of the outer loop, evaluated left to right.
SpoolerCheck ==
  /\ spc = "check"
  /\ MoveSpooler(IF ~stop_spooler \/ summary_queue # <<>> THEN "drain" ELSE "done")

\* _drain_transitions: one transition at a time until the queue is empty.
TakeTransition ==
  /\ spc = "drain"
  /\ IF transition_queue = <<>>
     THEN spc' = "get" /\ UNCHANGED <<transition_queue, item>>
     ELSE /\ item' = Head(transition_queue)
          /\ transition_queue' = Tail(transition_queue)
          /\ spc' = "reserve"
  /\ UNCHANGED <<notSpooler, blackbox, summary_queue, events, built,
                 previous_status, spooled, faults>>

\* summary_queue.get: None ends the thread; a window is judged at once.
TakeItem ==
  /\ spc = "get" /\ summary_queue # <<>>
  /\ summary_queue' = Tail(summary_queue)
  /\ LET head == Head(summary_queue) IN
       CASE head.kind = "none" ->
              spc' = "done" /\ UNCHANGED <<item, previous_status>>
         [] head.kind = "incomplete" ->
              spc' = "reserve" /\ item' = head /\ UNCHANGED previous_status
         [] head.kind = "window" ->
              /\ spc' = "reserve" /\ previous_status' = head.status
              /\ item' = [kind |-> "window", status |-> head.status,
                          no |-> head.no,
                          emit |-> Emits(previous_status, head.status)]
  /\ UNCHANGED <<notSpooler, blackbox, transition_queue, events, built,
                 spooled, faults>>

\* Mutant: an empty queue ends the thread.
GetTimeoutEnds ==
  spc = "get" /\ summary_queue = <<>> /\ MoveSpooler("done")

GetTimeout ==
  spc = "get" /\ summary_queue = <<>> /\ MoveSpooler("check")

\* The message built around the sequence number just reserved.
BuiltFrom(i, seq) ==
  CASE i.kind = "window"     -> Message("telemetry", i.status, seq, 0, i.no)
    [] i.kind = "incomplete" -> Message("SENSOR_ERROR", "NORMAL", seq, 0, i.no)
    [] i.kind \in Transitions -> Message(i.kind, "NORMAL", seq, 0, 0)

Reserve ==
  /\ spc = "reserve"
  /\ last_seq_no' = NextSequence
  /\ built' = <<BuiltFrom(item, NextSequence)>>
  /\ spc' = IF item.kind = "window" /\ item.emit THEN "reserve_event"
                                                 ELSE "store"
  /\ UNCHANGED <<notSpooler, last_row_id, outbox, summary_queue,
                 transition_queue, events, item, previous_status,
                 spooled, faults>>

\* Mutant: relatedSeqNo is the event's own number.
ReserveEventSelfRelated ==
  /\ spc = "reserve_event"
  /\ last_seq_no' = NextSequence
  /\ built' = Append(built, Message("THRESHOLD_EXCEEDED", item.status,
                                    NextSequence, NextSequence, item.no))
  /\ spc' = "store"
  /\ UNCHANGED <<notSpooler, last_row_id, outbox, summary_queue,
                 transition_queue, events, item, previous_status, spooled,
                 faults>>

\* The threshold event names the telemetry message it belongs to.
ReserveEvent ==
  /\ spc = "reserve_event"
  /\ last_seq_no' = NextSequence
  /\ built' = Append(built, Message("THRESHOLD_EXCEEDED", item.status,
                                    NextSequence, built[1].seq, item.no))
  /\ spc' = "store"
  /\ UNCHANGED <<notSpooler, last_row_id, outbox, summary_queue,
                 transition_queue, events, item, previous_status,
                 spooled, faults>>

\* Mutant: telemetry and event are stored by transactions of their own.
StoreOneByOne ==
  /\ spc = "store"
  /\ EnqueueMany(<<built[1]>>)
  /\ built' = Tail(built)
  /\ spc' = IF Len(built) > 1 THEN "store" ELSE "wake"
  /\ UNCHANGED <<notSpooler, last_seq_no, summary_queue, transition_queue,
                 events, item, previous_status, faults>>

\* blackbox.enqueue or enqueue_many: one transaction.
Store ==
  /\ spc = "store"
  /\ EnqueueMany(built)
  /\ spc' = "wake"
  /\ UNCHANGED <<notSpooler, last_seq_no, summary_queue, transition_queue,
                 events, item, built, previous_status, faults>>

\* drain_event.set(); then the next transition, or the next round.
Wake ==
  /\ spc = "wake" /\ SetDrain
  /\ spc' = IF item.kind \in Transitions THEN "drain" ELSE "check"
  /\ item' = NoneItem /\ built' = <<>>
  /\ UNCHANGED <<notSpooler, blackbox, summary_queue, transition_queue,
                 previous_status, spooled, faults>>

\* A blackbox call raises and its transaction is rolled back.
SpoolerFault ==
  /\ spc \in {"reserve", "reserve_event", "store"} /\ faults < MaxFaults
  /\ faults' = faults + 1
  /\ spc' = "raised" /\ item' = NoneItem /\ built' = <<>>
  /\ UNCHANGED <<notSpooler, blackbox, summary_queue, transition_queue,
                 events, previous_status, spooled>>

\* The messages are stored and announced, then output_callback or the count
\* of _update_metrics raises.
CallbackFault ==
  /\ spc = "wake" /\ item.kind \notin Transitions /\ faults < MaxFaults
  /\ faults' = faults + 1 /\ SetDrain
  /\ spc' = "raised" /\ item' = NoneItem /\ built' = <<>>
  /\ UNCHANGED <<notSpooler, blackbox, summary_queue, transition_queue,
                 previous_status, spooled>>

SpoolerFailed ==
  /\ spc = "raised" /\ spc' = "done" /\ RecordWorkerFailure
  /\ UNCHANGED <<notSpooler, blackbox, summary_queue, transition_queue, item,
                 built, previous_status, spooled, faults>>

Spooler == \/ SpoolerCheck \/ TakeTransition \/ TakeItem \/ GetTimeout
           \/ Reserve \/ ReserveEvent \/ Store \/ Wake \/ SpoolerFailed
-----------------------------------------------------------------------------
(* The sender: _sender_worker.                                             *)

MoveSender(pc) ==
  /\ xpc' = pc
  /\ UNCHANGED <<notSender, outbox, transition_queue, events, batch, health,
                 backoff, delivered, send_failures, faults>>

\* Mutant: clear() comes before the wait instead of after it.
SenderLoopClears ==
  /\ xpc = "loop"
  /\ IF stop_sender THEN xpc' = "done" /\ UNCHANGED drain_event
                    ELSE xpc' = "wait" /\ drain_event' = FALSE
  /\ UNCHANGED <<notSender, outbox, transition_queue, stop_collector,
                 stop_spooler, stop_sender, worker_failure, batch, health,
                 backoff, delivered, send_failures, faults>>

SenderLoop ==
  xpc = "loop" /\ MoveSender(IF stop_sender THEN "done" ELSE "wait")

\* drain_event.wait(timeout=backoff) returns because the event is set...
WakeUp == xpc = "wait" /\ drain_event /\ MoveSender("clear")

\* ...or because the time is over.
WaitTimeout == xpc = "wait" /\ ~drain_event /\ MoveSender("clear")

\* clear() comes before the outbox is looked at, so a set() that follows a
\* stored message is never lost.
ClearDrain ==
  /\ xpc = "clear"
  /\ drain_event' = FALSE
  /\ xpc' = IF stop_sender THEN "done" ELSE "count"
  /\ UNCHANGED <<notSender, outbox, transition_queue, stop_collector,
                 stop_spooler, stop_sender, worker_failure, batch, health,
                 backoff, delivered, send_failures, faults>>

\* Guard of the inner loop and pending(): only this thread deletes rows.
Fetch ==
  /\ xpc = "count"
  /\ IF outbox # {} /\ ~stop_sender
     THEN xpc' = "send" /\ \E S \in SUBSET outbox : Pending(S) /\ batch' = S
     ELSE xpc' = "loop" /\ UNCHANGED batch
  /\ UNCHANGED <<notSender, outbox, transition_queue, events, health,
                 backoff, delivered, send_failures, faults>>

\* The rows of a batch are visited in the order of their ids.
Current(r) == r \in batch /\ \A q \in batch : r.id <= q.id

SendSucceeds ==
  /\ xpc = "send"
  /\ \E r \in batch : Current(r) /\ delivered' = delivered \cup {r.msg.seq}
  /\ xpc' = "ack"
  /\ UNCHANGED <<notSender, outbox, transition_queue, events, batch, health,
                 backoff, send_failures, faults>>

\* send_json raises: before the message left, or after it arrived.
SendFails ==
  /\ xpc = "send" /\ send_failures < MaxSendFailures
  /\ send_failures' = send_failures + 1
  /\ \E r \in batch : /\ Current(r)
                      /\ \/ delivered' = delivered
                         \/ delivered' = delivered \cup {r.msg.seq}
  /\ xpc' = "failed"
  /\ UNCHANGED <<notSender, outbox, transition_queue, events, batch, health,
                 backoff, faults>>

Ack ==
  /\ xpc = "ack"
  /\ \E r \in batch : Current(r) /\ Acknowledge(r) /\ batch' = batch \ {r}
  /\ xpc' = "acked"
  /\ UNCHANGED <<notSender, transition_queue, events, health, backoff,
                 delivered, send_failures, faults>>

AfterSuccess ==
  /\ xpc = "acked"
  /\ health' = ObserveSuccess(health) /\ EnqueueTransition(health, health')
  /\ backoff' = 1
  /\ xpc' = IF batch = {} THEN "count" ELSE "send"
  /\ UNCHANGED <<notSender, outbox, events, batch, delivered, send_failures,
                 faults>>

\* Mutant: the row is acknowledged although its sending failed.
AfterFailureAcks ==
  /\ xpc = "failed"
  /\ \E r \in batch : Current(r) /\ Acknowledge(r)
  /\ health' = ObserveFailure(health) /\ EnqueueTransition(health, health')
  /\ backoff' = Saturate(2 * backoff, 30)
  /\ batch' = {} /\ xpc' = "loop"
  /\ UNCHANGED <<notSender, events, delivered, send_failures, faults>>

\* record_failure changes only the row's diagnostics.
AfterFailure ==
  /\ xpc = "failed"
  /\ health' = ObserveFailure(health) /\ EnqueueTransition(health, health')
  /\ backoff' = Saturate(2 * backoff, 30)
  /\ batch' = {} /\ xpc' = "loop"
  /\ UNCHANGED <<notSender, outbox, events, delivered, send_failures,
                 faults>>

\* A blackbox call of the sender raises.
SenderFault ==
  /\ xpc \in {"count", "ack", "failed"} /\ faults < MaxFaults
  /\ faults' = faults + 1
  /\ batch' = {} /\ xpc' = "raised"
  /\ UNCHANGED <<notSender, outbox, transition_queue, events, health,
                 backoff, delivered, send_failures>>

SenderFailed ==
  /\ xpc = "raised" /\ xpc' = "done" /\ RecordWorkerFailure
  /\ UNCHANGED <<notSender, outbox, transition_queue, batch, health, backoff,
                 delivered, send_failures, faults>>

Sender == \/ SenderLoop \/ WakeUp \/ ClearDrain \/ Fetch \/ SendSucceeds
          \/ SendFails \/ Ack \/ AfterSuccess \/ AfterFailure \/ SenderFailed
-----------------------------------------------------------------------------
(* The thread that calls start() and stop(), and the death of the process. *)

Start ==
  /\ ctl = "new" /\ ctl' = "running"
  /\ cpc' = "collect" /\ spc' = "check" /\ xpc' = "loop"
  /\ stop_collector' = FALSE /\ stop_spooler' = FALSE /\ stop_sender' = FALSE
  /\ drain_event' = (drain_event \/ outbox # {})
  /\ UNCHANGED <<notControl, stops, clean>>

StopCollector ==
  /\ ctl = "running" /\ stops < MaxStops /\ stops' = stops + 1
  /\ ctl' = "join_collector"
  /\ stop_collector' = TRUE
  /\ UNCHANGED <<notControl, stop_spooler, stop_sender, drain_event, cpc,
                 spc, xpc, clean>>

\* flush(), and every round of wait_for_idle().
Flush ==
  /\ ctl = "running" /\ ~drain_event /\ drain_event' = TRUE
  /\ UNCHANGED <<notControl, stops, stop_collector, stop_spooler, stop_sender,
                 cpc, spc, xpc, ctl, clean>>

\* join(timeout) returns because the thread ended or because time is over;
\* stop() does not look which: `clean` only remembers it.
StopSpooler ==
  /\ ctl = "join_collector" /\ ctl' = "join_spooler"
  /\ clean' = (clean /\ cpc = "done")
  /\ stop_spooler' = TRUE
  /\ UNCHANGED <<notControl, stops, stop_collector, stop_sender,
                 drain_event, cpc, spc, xpc>>

StopSender ==
  /\ ctl = "join_spooler" /\ ctl' = "join_sender"
  /\ clean' = (clean /\ spc = "done")
  /\ stop_sender' = TRUE /\ drain_event' = TRUE
  /\ UNCHANGED <<notControl, stops, stop_collector, stop_spooler, cpc, spc,
                 xpc>>

StopReturns ==
  /\ ctl = "join_sender" /\ ctl' = "stopped"
  /\ clean' = (clean /\ xpc = "done")
  /\ UNCHANGED <<notControl, stops, stop_collector, stop_spooler, stop_sender,
                 drain_event, cpc, spc, xpc>>

Stop == StopSpooler \/ StopSender \/ StopReturns

AllDone == cpc = "done" /\ spc = "done" /\ xpc = "done"

\* start() after stop(): new threads on the same queues, events, rule engine
\* and health monitor; a worker's failure stays recorded.
Restart ==
  /\ ctl = "stopped" /\ AllDone /\ stops < MaxStops
  /\ ctl' = "running" /\ cpc' = "collect" /\ spc' = "check" /\ xpc' = "loop"
  /\ stop_collector' = FALSE /\ stop_spooler' = FALSE /\ stop_sender' = FALSE
  /\ drain_event' = (drain_event \/ outbox # {})
  /\ produced' = 0 /\ collector_raised' = FALSE /\ backoff' = 1
  /\ outlived' = (outlived \/ (worker_failure /\ faults > 0))
  /\ UNCHANGED <<blackbox, summary_queue, transition_queue, worker_failure,
                 collected, item, built, previous_status, batch, health, clean,
                 spooled, delivered, window_no, first_no, bounds>>

\* The process dies, or ends after stop(), and a new EdgeRuntime is built on
\* the same blackbox file: only that file, and what was sent, remain.
Crash ==
  /\ ctl # "new" /\ crashes < MaxCrashes /\ crashes' = crashes + 1
  /\ summary_queue' = <<>> /\ transition_queue' = <<>>
  /\ stop_collector' = FALSE /\ stop_spooler' = FALSE /\ stop_sender' = FALSE
  /\ drain_event' = FALSE /\ worker_failure' = FALSE
  /\ cpc' = "new" /\ collected' = NoneItem /\ produced' = 0
  /\ collector_raised' = FALSE
  /\ spc' = "new" /\ item' = NoneItem /\ built' = <<>>
  /\ previous_status' = "NORMAL"
  /\ xpc' = "new" /\ batch' = {} /\ backoff' = 1
  /\ health' = [connected |-> outbox = {}, failures |-> 0, successes |-> 0]
  /\ ctl' = "new" /\ clean' = TRUE /\ first_no' = window_no
  /\ UNCHANGED <<blackbox, spooled, delivered, window_no, outlived, stops,
                 send_failures, faults>>

\* Nothing is left to do: not a deadlock.
Finished ==
  /\ AllDone /\ (ctl = "stopped" \/ stops = MaxStops)
  /\ UNCHANGED vars

Next == \/ Collector \/ CollectorFault
        \/ Spooler \/ SpoolerFault \/ CallbackFault
        \/ Sender \/ WaitTimeout \/ SenderFault
        \/ Start \/ Restart \/ Flush \/ StopCollector \/ Stop \/ Crash \/ Finished

Spec == Init /\ [][Next]_vars
-----------------------------------------------------------------------------
(* Fairness: every thread keeps running and every call returns.  The       *)
(* sender's timed wait is trusted only while it backs off after a failure; *)
(* otherwise drain_event alone must wake it.                               *)

Fairness ==
  /\ WF_vars(Start) /\ WF_vars(Collector) /\ WF_vars(Spooler)
  /\ WF_vars(Sender) /\ WF_vars(WaitTimeout /\ backoff > 1)
  /\ WF_vars(Stop)

FairSpec == Spec /\ Fairness
-----------------------------------------------------------------------------
(* Properties.                                                             *)

Seqs(S) == {m.seq : m \in S}
Stored == {r.msg : r \in outbox}

HandItems == [kind : {"window"}, status : Statuses, no : Nat, emit : BOOLEAN]
        \cup [kind : {"incomplete"}, no : Nat]
        \cup TransitionItems \cup {NoneItem}

BlackboxTypes ==
  /\ last_seq_no \in Nat /\ last_row_id \in Nat /\ outbox \subseteq Rows
  /\ spooled \subseteq Messages /\ delivered \subseteq Nat

QueueTypes ==
  /\ summary_queue \in Seq(Items \cup {NoneItem})
  /\ Len(summary_queue) <= QueueMax
  /\ transition_queue \in Seq(TransitionItems)

EventTypes ==
  /\ stop_collector \in BOOLEAN /\ stop_spooler \in BOOLEAN
  /\ stop_sender \in BOOLEAN /\ drain_event \in BOOLEAN
  /\ worker_failure \in BOOLEAN

CollectorTypes ==
  /\ cpc \in {"new", "collect", "put", "overflow", "pill", "put_none",
              "raised", "done"}
  /\ collected \in Items \cup {NoneItem} /\ collector_raised \in BOOLEAN
  /\ produced \in Nat /\ window_no \in Nat /\ first_no \in Nat

SpoolerTypes ==
  /\ spc \in {"new", "check", "drain", "get", "reserve", "reserve_event",
              "store", "wake", "raised", "done"}
  /\ item \in HandItems /\ built \in Seq(Messages)
  /\ previous_status \in Statuses

SenderTypes ==
  /\ xpc \in {"new", "loop", "wait", "clear", "count", "send", "ack",
              "acked", "failed", "raised", "done"}
  /\ batch \subseteq Rows /\ backoff \in 1..30
  /\ health \in [connected : BOOLEAN, failures : 0..FailureThreshold,
                 successes : 0..RecoveryThreshold]

ControlTypes ==
  /\ ctl \in {"new", "running", "join_collector", "join_spooler",
              "join_sender", "stopped"}
  /\ clean \in BOOLEAN /\ outlived \in BOOLEAN
  /\ crashes \in Nat /\ stops \in Nat /\ send_failures \in Nat
  /\ faults \in Nat

\* The shape of the state; the summary queue respects its bound.
TypeOK == /\ BlackboxTypes /\ QueueTypes /\ EventTypes /\ CollectorTypes
          /\ SpoolerTypes /\ SenderTypes /\ ControlTypes

\* A sequence number is never given to two messages, not even across a crash
\* between its reservation and the transaction that stores the message
\* (SQLiteBlackbox.next_sequence is durable before the message is built).
SequenceNeverReused ==
  /\ \A m, n \in spooled : m.seq = n.seq => m = n
  /\ spc \in {"reserve_event", "store"} =>
       \A i \in 1..Len(built) : built[i].seq \notin Seqs(spooled)

\* Row order is sequence order, so that replaying by row id (pending's
\* ORDER BY id) replays the device's sequence.
FifoOutbox ==
  \A r, q \in outbox : r.id < q.id <=> r.msg.seq < q.msg.seq

\* The runtime's outbox implements OrderedDelivery: no message is lost,
\* skipped or overtaken on its way to the transport, whatever crashes, send
\* failures and worker failures happen.
OD == INSTANCE OrderedDelivery WITH accepted <- Seqs(spooled),
                                    pending <- Seqs(Stored)
ImplementsOrderedDelivery == OD!Spec

\* The transport sees a message twice only after a crash, a failed send or
\* a failed blackbox call: the sender alone never repeats one.
DuplicateOnlyAfterFailure ==
  (xpc = "send" /\ \E r \in batch : Current(r) /\ r.msg.seq \in delivered)
    => crashes + send_failures + faults > 0

\* A threshold event directly follows, and names, the telemetry message of
\* the window that raised it.
EventFollowsTelemetry ==
  \A e \in spooled : e.kind = "THRESHOLD_EXCEEDED" =>
    \E t \in spooled : /\ t.kind = "telemetry" /\ t.status = e.status
                       /\ t.no = e.no /\ t.seq = e.related
                       /\ e.seq = t.seq + 1

ConnectionEvents == {m \in spooled : m.kind \in Transitions}

\* Without a crash the stored connection events tell the story of the health
\* monitor: LOST and RECOVERED alternate, and when no transition is under way
\* the last of them says whether the transport is considered connected.  The
\* exception is a monitor that was started again beside a spooler whose
\* predecessor had lost a transition to a failed call.
ConnectionLogAgrees ==
  crashes = 0 /\ ~outlived =>
    /\ \A m, n \in ConnectionEvents :
         m.seq < n.seq /\ m.kind = n.kind =>
           \E o \in ConnectionEvents :
             m.seq < o.seq /\ o.seq < n.seq /\ o.kind # m.kind
    /\ (transition_queue = <<>> /\ item.kind \notin Transitions
         /\ spc # "raised" /\ ~worker_failure) =>
         (health.connected <=>
            \A m \in ConnectionEvents :
              m.kind = "CONNECTION_LOST" =>
                \E n \in ConnectionEvents :
                  n.kind = "CONNECTION_RECOVERED" /\ m.seq < n.seq)

\* No incident goes unreported: a stored WARNING or DANGER telemetry has a
\* threshold event at least as severe, with no milder window in between.
\* The rule engine advances its status before the messages are stored, and
\* a crash or a failed call can fall between the two.  The exception is a rule
\* engine that was started again after a failed call had lost its event.
IncidentReported ==
  ~outlived =>
    \A t \in spooled : t.kind = "telemetry" /\ t.status # "NORMAL" =>
      \E e \in spooled :
        /\ e.kind = "THRESHOLD_EXCEEDED" /\ e.related <= t.seq
        /\ STATUS_RANK[e.status] >= STATUS_RANK[t.status]
        /\ ~\E u \in spooled :
             /\ u.kind = "telemetry" /\ e.related <= u.seq /\ u.seq <= t.seq
             /\ STATUS_RANK[u.status] < STATUS_RANK[t.status]

\* What is reported about windows is reported in the order of the windows.
WindowsInOrder ==
  \A m, n \in spooled : (m.no > 0 /\ m.no < n.no) => m.seq < n.seq

Accounted(n) ==
  \/ collected # NoneItem /\ collected.no = n
  \/ item.kind \in {"window", "incomplete"} /\ item.no = n
  \/ \E i \in 1..Len(summary_queue) :
        summary_queue[i] # NoneItem /\ summary_queue[i].no = n
  \/ \E m \in spooled : m.no = n

\* A window this process completed is in a thread's hands, in the queue or
\* stored, unless a worker has failed: backpressure never drops one.
NoSilentDrop ==
  \/ worker_failure \/ collector_raised \/ spc = "raised"
  \/ \A n \in first_no + 1 .. window_no : Accounted(n)

\* "Collect windows through a bounded, lossless handoff queue ... avoids
\* silently dropping a completed window": without the escape of NoSilentDrop.
\* Refuted: a stop() that finds the queue full makes the collector give up
\* the window it holds.
LosslessHandoff == \A n \in first_no + 1 .. window_no : Accounted(n)

\* When stop() returned, every join was met and no worker failed, every
\* window of the process is stored and the queue is empty.
CleanStopDrains ==
  (ctl = "stopped" /\ clean /\ ~worker_failure) =>
    /\ summary_queue = <<>>
    /\ \A n \in first_no + 1 .. window_no : \E m \in spooled : m.no = n

\* While the runtime runs and no worker failed, the outbox is emptied again
\* and again once the transport works: no wake-up of the sender is lost.
OutboxDrains ==
  (ctl = "running" /\ outbox # {}) ~>
    (outbox = {} \/ ctl # "running" \/ worker_failure)

\* A completed window is eventually stored, unless a worker fails or stop()
\* gives up waiting for one.
WindowEventuallyStored ==
  \A n \in 1..WindowCount :
    (window_no >= n) ~> (worker_failure \/ ~clean
                          \/ \E m \in spooled : m.no = n)

\* After stop() or after the failure of any worker, all three threads end.
WorkersEnd == (ctl = "stopped" \/ worker_failure) ~> AllDone
=============================================================================
