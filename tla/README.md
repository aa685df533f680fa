# GapGuard 2.0 in TLA+

Specifications of the parts of this repository where order, loss, duplication
and failure matter: the edge process with its three threads and its durable
outbox, the bridge from MQTT to Kafka, the Kafka consumers that store what the
edges send, and the local flow with the query service over it. TLC checks small
instances; TLAPS proves every safety invariant and action property that the
passing runs check, and the refinement, for every value of the constants.

## 1. The system

```
 sensors -> Collector -> summary_queue -> Spooler -> Blackbox (SQLite outbox)
                                             ^            |
                          transition_queue <- Sender <----+
                                                |
                                            transport (MQTT)
                                                |
                                   LiveBridge (MQTT -> Kafka, by streamId)
                                      |                        |
                         gapguard.telemetry.v1        gapguard.alert.v1
                                      |                        |
                        KafkaTelemetryConsumer        KafkaAlertConsumer
                          (SQLite / DLQ)                (SQLite / DLQ)
                                      \                        /
                                       QueryService (HTTP API)
```

### Inventory

| Component | State | Operations | Interacts by | What makes it correct |
|---|---|---|---|---|
| `EdgeRuntime` (`runtime.py`) | four events, two queues, failure flag, three threads | `start`, `stop`, `flush`, `wait_for_idle`, the three workers | queues, events, blackbox | no message lost, repeated without a cause or overtaken; a stop drains; a failure ends all threads; no wake-up is lost |
| `FixedRateCollector` (`processing.py`) | window at hand, deadline | `collect_to_queue`, `windows` | `summary_queue`, stop event | a completed window is never dropped silently; the queue is bounded; samples are neither early nor in bursts |
| `RuleEngine` (`rules.py`) | previous status | `evaluate` | called by the pipeline | each incident is announced once, on the way up |
| `EdgePipeline`, message builder | sequence source, latest state | `process`, `build_sensor_error`, `build_connection_event` | rule engine, blackbox | the event names its telemetry; ids are unique |
| `ConnectionHealthMonitor` (`runtime.py`) | connected, two counters | `observe` | called by the sender | LOST and RECOVERED alternate |
| `SQLiteBlackbox` (`storage/blackbox.py`) | outbox rows, last sequence number | `next_sequence`, `enqueue`, `enqueue_many`, `pending`, `acknowledge`, `record_failure` | one connection and lock for all threads | durable, FIFO, numbers never reused; a call that raises takes nothing of another with it |
| `LiveBridge` (`bridge/live.py`) | MQTT session, Kafka producer | `_on_connect`, `_on_message` | callbacks of the MQTT client | acknowledged only when Kafka has it; order kept; it listens again after a lost connection |
| Kafka consumers (`kafka_storage.py`, `alert_dispatch.py`) | client position, store | `poll_once` | Kafka, SQLite, DLQ | nothing committed before it is durable, but for what the store skips |
| `process_with_retry`, `KafkaDlqPublisher` | attempt | one record | called by the consumers | a record ends stored, skipped by the store or in the DLQ |
| SQLite stores | rows by event id | `insert` | one connection | one row per event id, never replaced; what `INSERT OR IGNORE` skips is not stored |
| In-memory bridge, `p0_flow.py`, `TelemetryStorageConsumer` | lists of messages | `publish`, `consume` | direct calls | an offset returned covers stored rows and what the table skips; a row counts once |
| `QueryService`, API | read connection | `list_*`, `summary` | the stores' file, while it is written | it finds what is stored; counts read at two moments are each right |
| Configuration, hashing, contracts, simulators, stress script, infrastructure | none that changes | pure or I/O | | not modelled |

### What is hard here

* Three threads, two queues, four events: every order of steps is possible and
  the tests run only a few of them.
* A process may die between any two SQLite transactions. A sequence number is
  reserved in a transaction of its own, the message is stored in a later one,
  sent and deleted in two further steps.
* `send_json` may raise before or after the message arrived, as may the DLQ's
  `publish` and both kinds of `commit`.
* A bounded queue between a producer that must not drop and a consumer that may
  be gone; `stop()` joins with timeouts and ignores their result.
* Offsets are committed by batch and by client position, rows by record; and
  `INSERT OR IGNORE` skips a row for more reasons than an equal id.
* All threads of the edge share one SQLite connection, hence one transaction:
  what one method leaves open, the commit of another makes durable.
* The bridge's callbacks ask for a disconnect that happens later, the Kafka
  producer writes records that `get()` has given up, and a clean MQTT session
  ends with its connection.
* A fixed rate must survive late wake-ups, a full queue and failing reads.

`PROJECT.json` lists these hazards line by line with the properties that cover
them.

## 2. Modules

| Module | Contents |
|---|---|
| `OrderedDelivery` | abstract: messages accepted in sequence order, the oldest one delivered at least once, then removed |
| `EdgeRuntime` | the edge process, its threads, the blackbox, death and restart of the process; refines `OrderedDelivery` |
| `MCEdgeRuntime` | sets of window outcomes for TLC |
| `Blackbox` | the methods of `SQLiteBlackbox` as transactions that can fail, under a spooler and two senders |
| `Collector` | `collect_to_queue` sample by sample, against a clock |
| `LiveBridge` | the bridge process, its MQTT session, the producer's buffer, Kafka's topics |
| `KafkaConsumer` | one consumer process, its client, store and DLQ |
| `MCKafkaConsumer` | partition assignments and record kinds for TLC |
| `LocalFlow` | in-memory bridge and topics, `consume()`, the SQLite file, the query service |
| `EdgeRuntimeProofs` | theorems about types, sequence numbers and rows of the edge process, and the refinement |
| `EdgeReportProofs` (extends it) | what becomes of the windows |
| `EdgeEventProofs` (extends that) | threshold and connection events |
| `BlackboxProofs`, `CollectorProofs`, `LiveBridgeProofs`, `KafkaConsumerProofs`, `LocalFlowProofs` | theorems about the other modules |

`Blackbox` and `Collector` look closer at two parts that `EdgeRuntime` takes as
one step each: a blackbox method, and a window. `LiveBridge` and
`KafkaConsumer` meet at Kafka's topics, `KafkaConsumer` and `LocalFlow` at the
SQLite file; each models the other side as an environment.

### EdgeRuntime

A step is what one thread does between two operations on shared state. Each
thread has a program counter: `cpc` (collector), `spc` (spooler), `xpc`
(sender), `ctl` (the thread that calls `start` and `stop`).

* Collector: `CollectWindow` (lines 190-239 of `processing.py`: a whole window
  or a sensor error), `PutWindow`, `PutFull`, `AfterFull`, `CollectEnd`, and the
  `finally` block of `_collector_worker` as `PillCheck` and `PutNone`.
* Spooler: `SpoolerCheck` (the loop's guard), `TakeTransition`
  (`_drain_transitions`), `TakeItem` or `GetTimeout`, `Reserve` and
  `ReserveEvent` (one `next_sequence` transaction each), `Store` (`enqueue` or
  `enqueue_many`, one transaction), `Wake`.
* Sender: `SenderLoop`, `WakeUp` or `WaitTimeout`, `ClearDrain`, `Fetch`
  (`count` and `pending`), `SendSucceeds` or `SendFails`, `Ack`,
  `AfterSuccess` or `AfterFailure` (health monitor, transition, backoff).
* Any worker's own call may raise (`CollectorFault`, `SpoolerFault`,
  `CallbackFault`, `SenderFault`), after which `_run_worker` records the failure
  (`CollectorFailed`, `SpoolerFailed`, `SenderFailed`).
* `Start`, `StopCollector`, `StopSpooler`, `StopSender`, `StopReturns`,
  `Flush`. A join returns because the thread ended or because its timeout
  passed; `clean` remembers which, the code does not.
* `Restart`: `start()` of the same object once `stop()` has returned and the
  threads have ended: queues, rule engine and health monitor stay.
* `Crash`: the process ends anywhere, or after `stop()`, and a new one is built
  on the same blackbox file. `last_seq_no`, `last_row_id` and `outbox` survive.

`spooled`, `delivered`, `window_no`, `first_no` and `outlived` are history: what
was ever stored, what the transport got, which windows were completed, whether
an object was started again after a failed call had ended one of its workers.

Steps merged, and why that hides nothing: `count` and `pending` in `Fetch`
(only the sender deletes rows and new ones are only added behind); the four
`Event.set()` of `_record_worker_failure` (each only lets a thread stop, in
whichever order); `record_failure` with `observe` (it changes diagnostics that
nothing reads); the `clear()` calls and thread starts in `Start`. Counters of the health
monitor saturate at their thresholds, where more makes no difference.

Left out: sample values, rates and deadlines (a window is a status; see
`Collector`), payloads and hashes, metrics, a runtime without transport, a
`start()` while threads of the last one still run, and a blackbox call that
fails with a lasting effect (see `Blackbox`).

### Blackbox

`durable` is the committed database, `view` what the connection sees, `open`
its `in_transaction`. The lock is held from the first statement of a method to
its `commit()` or `rollback()`, so a method is one step that ends in one of
three ways: committed (`Commit`), taken back (`Rollback`), or left behind
(`LeftBehind`: it raised without a handler, and the transaction stays open with
or without its change, unless SQLite has rolled it back). `next_sequence` and
`enqueue_many` begin with `BEGIN IMMEDIATE` outside their `try`, which raises
when a transaction is open (`BeginRaises`); `enqueue`, `acknowledge` and
`record_failure` have no handler. A method that raises ends its worker, and
`_record_worker_failure` sets the stop events of all (`WriterRaises`,
`SenderRaises`), as `stop()` does (`Stop`): from then on (`stopping`) a spooler
without work and a sender that waits or is between two batches end
(`WriterEnds`, `SenderEnds`), the sender without another call of the blackbox.
`start()` clears the events and makes a new spooler and a new sender on the same
connection (`Restart`); a sender still inside a batch goes on beside it, so two
senders stand for one that outlived the join of `stop()` and its successor.
`Crash` is the end of the process or `close()`, and a new process has one thread
of each kind (`OneRuns`).

Left out: the columns that only inform (`attempts`, `last_error`, times),
`quick_check`, several devices in one file, and two spoolers.

### Collector

Time is discrete; `due` is `deadline - clock()` and `ages` how long ago the
last samples were taken, so that both are relative to now and need no bound.
`Tick` lets time pass at any point: inside `reader()`, `sleeper()`, `put()` or
because the thread is not scheduled. `ReadReturns` is the arithmetic of lines
211-220 (sleep, go on late, or reset the deadline), `ReadFails` and `Put` the
pause after a failed read (lines 204-210 and 255-256).

### LiveBridge

The process is `pc` (`"off"`, `"connect"`, `"loop"`, and inside `_on_message`
`"get"` and `"ack"`, `"closing"`); `disconnecting` says that `disconnect()` was
called: messages already received are still handled until `LoopEnds`. The
session is what the broker keeps for it: subscriptions, messages handed over and
not acknowledged, and their way to the client (`inbox`); `SessionOver` forgets
all of it, as the client asks for a clean session. `buffer` is the producer's:
`Write` moves a record to Kafka, also after `get()` has raised (`GetRaises`),
`WriteFails` gives it up. `published`, `acked` and `failed` are history.

Left out: several streams (one partition per topic then), brokers that fail,
records that overtake each other in the producer (`enable_idempotence`).

### LocalFlow

`Publish`, `PublishToTopic`: the in-memory bridge and its topics. `Consume`
takes a slice; `Insert` and `Commit` are the two halves of `insert()`, each with
a failing form (`InsertRaises` may leave the transaction that sqlite3 began
before the statement, or none); `Skipped` is what `INSERT OR IGNORE` leaves out:
an id that is there, and the `Incomplete` messages, with a null for a NOT NULL
column and a valid hash. `Refuse` is a message `process_message` or the store does not
take; `Return` hands `next_offset` to the caller. `StartService` chooses the
database, for good; `List` and the two halves of `summary()` read it.
`_seen_event_ids` is the set of ids in the topics and only labels a publication.

### KafkaConsumer

`poll_once` of `kafka_storage.py` and `alert_dispatch.py` are the same program
but for the message type they accept; `kind` says what the adapter makes of a
record: `"valid"`, `"incomplete"` (accepted, and skipped by the table for a
null), `"invalid"`, or `"opaque"` (no JSON object). `Poll` takes a batch, `BuildMetadata` is the argument of
`process_with_retry` that reads `record.value` outside its `try`, `Reject`,
`Insert` and `InsertFails` are attempts of the handler, `PublishDlq` and
`PublishDlqFails` follow the last attempt, `Commit` and `CommitFails` end the
batch. `open` holds the rows of a transaction whose `commit()` raised: the
connection sees them, and the next `commit()` makes them durable.

External, modelled from their use: `KafkaConsumer.poll` advances the client's
positions, `commit()` without arguments stores them, a new client starts from
the committed offsets. Rebalancing among several consumers, records whose bytes
cannot be decoded, and the counts `poll_once` returns are left out.

Nothing in the repository calls `poll_once`. `Spec` is the caller that lets an
exception end the process; `ResumingSpec` the one that keeps the consumer and
calls it again.

## 3. Runs

All bounds are CONSTANTS of the configurations.

| Run | Bounds | Shows |
|---|---|---|
| `RuntimeCrash` | queue 1, batch 2, 2 windows per process, 1 crash, 1 failing send | types; sequence numbers, FIFO rows, event next to its telemetry, no unreported incident; refinement of `OrderedDelivery`, with a crash at every point |
| `RuntimeStop` | queue 2, batch 2, 2 windows per start, thresholds 2, 2 failing sends, `stop()` twice with a `start()` between | connection log against the health monitor; window order; nothing dropped unannounced; a clean stop drains; duplicates only with a cause |
| `RuntimeLive` | queue 1, 2 windows, 1 stop, 1 failing send, 1 fault, fair threads | no lost wake-up; windows are stored; all threads end |
| `RuntimeLossless` | queue 1, 3 windows, stop | refutes the docstring of `collect_to_queue` |
| `Blackbox` | 1 spooler, 2 senders (one at first), 3 numbers, limit 2, 3 failing calls, 1 crash, any number of stops and starts | numbers are durable, batches whole, messages kept until sent and never overtaken; a runtime that is started again and goes on closes an open transaction |
| `Collector` | period 3, 3 samples a window, 3 windows, queue 1 | never early, no burst, stop ends the loop |
| `CollectorRate` | period 2, 2 samples, 2 windows | refutes the fixed rate after a failed read |
| `Bridge` | 2 messages, 2 starts, 1 lost connection, 2 faults | acknowledged is in Kafka; order without duplicates; every message settles; it listens again |
| `BridgeRedelivery` | 1 message, 1 start, no lost connection, 1 fault | refutes the redelivery promised by a comment |
| `ConsumerSafety` | 2 partitions, 2 ids (one per partition), 2 payloads, all four kinds of records, 2 records per partition, batches of 2, 2 attempts, 2 faults, 1 crash, fair consumer | types; committed is handled or skipped for a null; rows unique and kept; readable partitions are committed |
| `ConsumerResume` | `ResumingSpec`, 1 partition, 2 ids, 1 payload, valid and invalid records, 2 faults, no crash | refutes "commits offsets only after storage succeeds" for a caller that polls on |
| `LocalFlow` | 2 good, 1 incomplete and 1 damaged message, 1 event, topics of 2, slices of 2, pages of 1, 1 fault, 1 crash | offsets cover rows and skipped messages; rows count once; summaries are bracketed; the newest row is served |

Why the bounds are enough: a full queue leaves a window in the collector's
hands and one in the spooler's; a batch of 2 over more rows has a batch that
ends, one that is cut short and one that is partly acknowledged; thresholds of
2 need a run of outcomes and are reset by one; one crash can fall between any
two steps, and the process that follows it runs in full on whatever blackbox
the first one left (for any number of crashes the proofs speak). Two stops show
what a stopped runtime leaves to the next start. Three failing blackbox calls
are an insert that SQLite rolls back, an acknowledge that is left open and the
call that takes that one back, which is what the exception of `NoneOvertakes`
needs (two do not reach it); three numbers are a batch of two and a message
before or after it. In `Collector` a period of 3 ticks distinguishes early, up
to a period late and later; three samples and three windows let every delay,
reset and failure fall inside a window and between two. Two bridge messages can
be on both topics, of either kind, and in the producer, the inbox and the hand
at once; its redelivery needs one message that fails once. Two records in each
of two partitions give batches within and across partitions; with one id per
partition a second record of it is a redelivery or, with the other payload, a
conflict, and an incomplete record may come before or after a valid one; two
faults can hit the insert and its retry, or a handler and the commit. A slice
of 2 can fail in its second message, and pass an incomplete one before or after
a stored one.

What a run does not reach, and rests on its theorem: in `RuntimeCrash` windows
are DANGER windows, so that the clause of `IncidentReported` about milder windows
in between, and failing calls, are left to `IncidentsSafe`; in `RuntimeStop` two
failing sends under a threshold of 2 give at most one `CONNECTION_LOST`, so that
the alternation over several is left to `ConnectionLogSafe`. `WorkersEnd` is
checked with one stop; a recorded failure is never reset, so over restarts it
would have to be stated otherwise.

Deadlock is checked in every run: `Finished` is the only way to stop (`LocalFlow`
needs none, as its service can always be asked).

### Fairness

`RuntimeLive` assumes weak fairness of each thread (Python
threads are scheduled and every call returns: SQLite and joins have timeouts,
`send_json` is assumed to return or raise) and of the stopping thread once
`stop()` has been called. Whether `stop()` is called is not fair. The sender's
timed wait is fair only while it backs off after a failure: otherwise the
periodic timeout would hide a lost wake-up, and `OutboxDrains` would say nothing
about `drain_event`. Crashes, faults and failing sends are never fair, and
bounded.

`Bridge`: the process and its environment go on (`Work`): callbacks return or
raise, the broker answers, the producer writes. `GetRaises` is part of it only
as an alternative to `GetReturns`; nobody is obliged to publish, to start the
process again or to fail. `Blackbox`: a sender's loop turns until it ends, its
calls return or raise; nobody must produce messages, stop the runtime or start
it again. A failing call sets the stop events, so a sender that waits ends
without another call: that a transaction is closed holds only of a runtime that
is started again and not stopped for good (`<>[]~stopping`). `Collector`: time passes and the thread runs;
nobody must empty the queue, so that `StopEnds` covers a dead spooler.
`LocalFlow`: a client that keeps asking for the list.

`ConsumerSafety` assumes weak fairness of the consumer's own steps: `poll_once`
is called again and an ended process replaced. With records that are no JSON
object (`"opaque"`), the property does not hold: `build_dlq_metadata` is given
`record.value.get(...)` outside the retry, so such a record stops every process
that meets it.

### Disagreements with the documents

1. `processing.py:180-183` promises a lossless handoff that avoids silently
   dropping a completed window; `stop()` with a full queue drops one
   (`RuntimeLossless`). What holds instead is `NoSilentDrop`: then the collector
   raised.
2. `processing.py:114`: "at a monotonic fixed rate". After a failed read the
   pause falls between the first and the second sample of the next window, and a
   reader that fails at once is read again without a pause (`CollectorRate`,
   `processing.py:256`). `NeverEarly` says what holds otherwise.
3. `live.py:98-99`: leave the message unacknowledged and reconnect so that the
   broker redelivers it. The `disconnect()` after it ends a clean session and
   `loop_forever()`: the message is forgotten and the process ends
   (`BridgeRedelivery`). Restarted, the bridge receives only what is published
   from then on. The MQTT broker acknowledges publications whether or not the
   bridge is there (`Publish`), so the edge's outbox does not help.
4. `kafka_storage.py:1` and `streaming/README.md:98`: offsets only after
   storage. True of `Spec` but for item 5, proved; not for a caller that polls on
   after an exception (`ConsumerResume`), as `commit()` commits positions.
5. The same two lines and `streaming/README.md:34`: `INSERT OR IGNORE` skips a row
   with a null in a NOT NULL column (`telemetry_storage.py:31-36,54`,
   `alert_dispatch.py:22-26,39`), and `process_message` looks at the identity
   fields and the hash only. A record with a valid hash and, say, `siteId: null`
   raises nothing, counts as a duplicate and is passed: neither stored nor in the
   DLQ. `CommittedIsHandled` and `OffsetCoversStored` name it as their exception.
6. `docs/contract-migration-plan.md:153-154`, a proposal: same `eventId`, other
   `dataHash` goes to conflict/DLQ. The stores ignore it as a duplicate;
   `RowsAreKept` is what they do guarantee.

Exceptions that the properties name, and that a reader should know:

* `KeptUntilSent` (`Reused`): SQLite rolls back an insert together with the
  counter of row ids; the id is given to another message, which a sender of an
  earlier `start()` that still holds the old row deletes by its id.
* `CommittedIsHandled`, `OffsetCoversStored`: incomplete records (item 5 above).
* `OpenIsClosed`: the call that leaves a transaction open sets the stop events,
  and senders that wait end and leave it so; it is closed when the runtime is
  started again, goes on and has rows to send. With an empty outbox nobody closes
  it, and every `next_sequence` raises, and stops the runtime again, until the
  connection is closed.
* `NeverEarly`, `BurstBounded`: the first sample after a failed read, which waits
  for no deadline (item 2 above).
* `StoredIsServed`: a service that started before the file existed serves an
  empty database for ever.
* `NoneOvertakes` has the same exception: the message that was acknowledged
  under the other's row id leaves the connection's view in an open transaction,
  its successors are sent, and a rollback brings it back. The proof of the
  property without the exception failed at this step, and TLC has a trace of
  17 steps once three calls may fail. It also needs a single spooler: of two,
  the one with the lower number may store last.
* `IncidentReported` and `ConnectionLogAgrees` (`outlived`): the rule engine and
  the health monitor decide before the spooler stores. When a call of the spooler
  raises in between and the same object is started again, they are ahead of what
  is stored: a DANGER window can be stored without an event, and two
  `CONNECTION_LOST` can follow each other. A new process starts from the blackbox
  and is not affected. Here too a failing proof step came first. With queue, batch
  and thresholds of 1, one window per start, two failing sends, one failing call
  and two stops TLC violates both properties without the exception, and finds no
  error with it (7.6 million states). No run of the project has these bounds:
  failing calls beside crashes and restarts are left to the proofs.

## 4. Proofs

| Theorem | States |
|---|---|
| `EdgeRuntimeProofs!TypeCorrect` | `Spec => []TypeOK` |
| `EdgeRuntimeProofs!SequenceSafe` | `Spec => []SequenceNeverReused` |
| `EdgeRuntimeProofs!FifoSafe` | `Spec => []FifoOutbox` |
| `EdgeRuntimeProofs!Refinement` | `Spec => ImplementsOrderedDelivery` |
| `EdgeRuntimeProofs!Delivered` | `Spec => [](OD!NothingLost /\ OD!InOrder)`: nothing lost, first deliveries in order |
| `EdgeReportProofs!NoRepeat` | `Spec => []DuplicateOnlyAfterFailure` |
| `EdgeReportProofs!EventFollows` | `Spec => []EventFollowsTelemetry` |
| `EdgeReportProofs!WindowOrder` | `Spec => []WindowsInOrder` |
| `EdgeReportProofs!NoneDropped` | `Spec => []NoSilentDrop` |
| `EdgeReportProofs!StopDrains` | `Spec => []CleanStopDrains` |
| `EdgeEventProofs!IncidentsSafe` | `Spec => []IncidentReported` |
| `EdgeEventProofs!ConnectionLogSafe` | `Spec => []ConnectionLogAgrees` |
| `BlackboxProofs!BlackboxTypes` | `Spec => []TypeOK` |
| `BlackboxProofs!NumbersKept` | `Spec => []NumbersDurable` |
| `BlackboxProofs!PairsTogether` | `Spec => []BatchAtomic` |
| `BlackboxProofs!KeptSafe` | `Spec => []KeptUntilSent` |
| `BlackboxProofs!OvertakesNone` | `OneWriter /\ Spec => []NoneOvertakes` |
| `CollectorProofs!CollectorTypes` | `Spec => []TypeOK` |
| `CollectorProofs!SamplesInTime` | `Spec => NeverEarly` |
| `CollectorProofs!NoBurst` | `Spec => BurstBounded` |
| `LiveBridgeProofs!BridgeTypes` | `Spec => []TypeOK` |
| `LiveBridgeProofs!AckSafe` | `Spec => []AckedIsInKafka` |
| `LiveBridgeProofs!OrderSafe` | `Spec => []LogInOrder` |
| `KafkaConsumerProofs!ConsumerTypes` | `Spec => []TypeOK` |
| `KafkaConsumerProofs!UniqueSafe` | `Spec => []EventIdUnique` |
| `KafkaConsumerProofs!RowsSafe` | `Spec => RowsAreKept` |
| `KafkaConsumerProofs!CommittedSafe` | `Spec => []CommittedIsHandled` |
| `LocalFlowProofs!FlowTypes` | `Spec => []TypeOK` |
| `LocalFlowProofs!OffsetSafe` | `Spec => []OffsetCoversStored` |
| `LocalFlowProofs!CountSafe` | `Spec => []CountedOnce` |
| `LocalFlowProofs!SummarySafe` | `Spec => SummaryBracketed` |

They hold for every queue and batch size, threshold, number of windows,
partitions, records, threads, periods, messages, faults and crashes; the
assumptions are `RuntimeAssumption`, `BlackboxAssumption`,
`CollectorAssumption`, `BridgeAssumption`, `ConsumerAssumption` and
`LocalFlowAssumption` (sizes are positive, sets disjoint or finite).

Edge runtime. `SequenceNeverReused` is not inductive: it says nothing of
numbers reserved and not yet stored. The invariant of `EdgeRuntimeProofs` adds
that every stored number, and every number in the spooler's hands, is at most
`last_seq_no`, that those in hand are younger than all stored ones and
increase (`SequenceOK`); that rows are stored messages with ids up to
`last_row_id`, ordered as their numbers, so that `INSERT OR IGNORE` never
ignores (`RowsOK`); that the sender's batch is a set of the oldest rows, and
that before `Ack` its oldest row has been delivered (`SenderOK`); and that a
stored message that left the outbox has been delivered (`DeliveryOK`). A crash
keeps all of it, as the batch and the spooler's hands are emptied. From it,
`Store` is an `Accept` of the abstract specification, `SendSucceeds` and
`SendFails` are a `Deliver` or a stutter, `Ack` is a `Remove`, and all other steps stutter.
`AbstractDelivers` is what `OrderedDelivery` promises its reader, and
`Delivered` carries it over to the runtime.

Windows. Four invariants on top of that one. `FirstSendOK`: before the first
failure a row known to the transport is the one whose `Ack` is due, so no other
can be sent again. `BuiltOK`: what is built is what the window in hand asks for,
numbered without a gap, which `EventFollowsTelemetry` needs of the moment between
two reservations. `HandoffOK` and `OrderOK`: stored windows, the one in the
spooler's hand, those in the queue and the one in the collector's hand have
increasing numbers, in that order; `WindowsInOrder` follows as `Store` gives the
window in hand a sequence number above all stored ones. `FateOK` says that the
window of a spooler at `"wake"` is stored, and that a collector that gave a
window up has said so by the time it is done, so that no step takes a window
from the only place that had it (`NoSilentDrop`). `PillOK` and `StopOK` are the
protocol of `stop()`: while its joins are met and no worker has failed, a `None`
is the last item of the queue and its collector is done, a spooler that is done
has emptied the queue, and the spooler is told to stop only after the collector
ended. A `None` that a late or a failed
worker left for the next `start()` ends that spooler at once; `clean` and the
recorded failure, which a `start()` resets neither of, are what excludes it.

Incidents. `AlarmOK` ties the rule engine to the outbox: its `previous_status`
is covered by a stored event (`CoveredBy`: at least as severe, nothing milder
stored since), or the event is in the spooler's hands, or the spooler was lost
to a failed call (`SpoolerLost`), or the object was started again after that.
`LostStays` is the lemma that a lost spooler stays lost until the process is
replaced or such a `start()` happens. An event that covers the kept status also reports the next window
that is no more severe, which `evaluate` does not announce.

Connection log. `ConnOK` says that stored events, the one in hand and those
waiting alternate and end in the state of the health monitor; `AfterItem` and
`AfterQueue` are what the log will say once each part is stored. `observe`
appends at one end, the spooler takes at the other, and only a lost spooler
breaks the chain.

Kafka consumer. `CommittedIsHandled` needs where the offsets are: `committed <=
next <= position <= Len(log)`, with `next = position` when `poll_once` is idle
or about to commit and `next < position` while it works on a record
(`OffsetsOK`); and that everything before `next` is handled, or was skipped by
the store for a null (`Passed`, `WorkedInOrder`).
`ResumingSpec` breaks exactly `next = position` at `"idle"`.

Blackbox. `BatchAtomic` speaks of what was ever committed; its invariant speaks
of what any connection ever saw (`Seen`): of a pair, no row is seen before both
are committed (`PairOK`). That needs the numbers in a spooler's hands to be
unseen, different from each other and in no earlier batch (`HoldOK`), and that
no call leaves the sequence counter uncommitted (`CounterOK`), although rows may
be. `Ends(N)` is the one fact about a method all steps are proved from: it ends
committed, left behind or taken back, and adds at most the numbers `N`.
`KeptUntilSent` is proved of the view as well, since an open transaction may be
committed by anybody (`KeptOK`), and needs that the row a sender acknowledges
next was sent (`BatchOK`) and that ids are unique among the rows of one state of
the database and of one batch, though not among all rows there ever were: a
batch may hold a row that was rolled back and whose id was given out again.
`NoneOvertakes` adds that the numbers a spooler holds are above every row there
ever was (`NewestOK`, where one spooler is needed), that ids and numbers order
rows alike (`RowOrder`), that what an open transaction has deleted was delivered
or is the exception (`Gone`), and that nothing undelivered is older than a row of
a batch and not in the batch (`BatchOrder`).

Collector. `AgesOK` bounds the deadline from below by the last three samples: at
most a period before the last, not before the one before it, a period after the
third; a reset happens only when those bounds have long passed. With the
deadline reached at a sample (`ClockOK`), `BurstBounded` follows.

Bridge. `AckedIsInKafka` needs that the message in hand at `"ack"` is in Kafka
(`HandOK`); `LogInOrder` that topic, buffer, hand and inbox, in that order, are
increasing and below the number of the last publication (`OrderOK`): a record
that `get()` gave up stays before the next one.

Local flow. The slice `consume()` still works on is the topic from `next` on,
what is before is committed or was skipped for a null (`Passed`), and the message
between `Insert` and `Commit` is in the transaction, already a row, or skipped
(`CallOK`); so a second insert that finds its
own row still commits it. `CountedOnce` needs that committed rows and those of
the transaction are of different messages, and that what a call is about to
count is stored and was not counted (`CountOK`): a call that raises after its
first commits leaves rows that nobody counts, and the next call finds them as
duplicates. `SummaryBracketed` follows from rows that only grow (`RowsGrow`) and
from the first count being of the moment the summary began (`SumOK`).

Only model-checked is everything about liveness (`OutboxDrains`,
`WindowEventuallyStored`, `WorkersEnd`, `OpenIsClosed`, `StopEnds`,
`EveryMessageSettles`, `ListensAgain`, `EventuallyCommitted`, `StoredIsServed`):
TLAPS does not handle fairness and ENABLED here. What the four refuting runs show
is a counterexample, not a theorem.

## 5. Not modelled

* The composition of edges, MQTT broker, bridge and consumers in one module. The
  parts meet at interfaces that are explicit in each (`delivered` of the edge,
  `Publish` of the bridge, `kafka`, `Produce` of the consumer), and the bridge's
  disagreement above already breaks end-to-end delivery; equal event ids of two
  devices of one section (`message_builder.py:63`) would show only there.
* A `start()` beside a surviving collector or spooler: two spoolers would
  interleave reservations and rows. `Blackbox` has the surviving sender.
* `FixedRateCollector.windows`, the arithmetic of `aggregate_window`, thresholds
  of the rule engine, metrics: pure functions or unused by the runtime.
* Whether `EdgeRuntime` with `Blackbox` in the place of its atomic transactions
  still implements `OrderedDelivery`: it does not where `KeptUntilSent` has its
  exception.
* Configuration parsing, hashing and JSON contracts, Terraform and SQL, the
  Cloud SQL connection, simulators and the stress script: pure functions of
  bytes, deployment, or test tools without state of their own.
