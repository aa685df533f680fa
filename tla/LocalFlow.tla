----------------------------- MODULE LocalFlow -----------------------------
(***************************************************************************)
(* The local flow: streaming/bridge/in_memory.py (topics and the bridge    *)
(* that fills them), streaming/consumers/telemetry_storage.py (a consumer  *)
(* that reads a topic from an offset its caller keeps), and the query      *)
(* service of api/query_service.py behind api/main.py, which reads the     *)
(* same SQLite file from another process while it is written.              *)
(* streaming/p0_flow.py is the flow Publish*, Connect, CreateTable, one    *)
(* Consume, Close.                                                         *)
(*                                                                         *)
(* A third process stores alerts in the file; its consumer is the subject  *)
(* of KafkaConsumer.tla and here each of its inserts is one step.  SQLite  *)
(* shows a connection what others have committed, and keeps them out of a  *)
(* write transaction.                                                      *)
(***************************************************************************)
EXTENDS Integers, Sequences, SequencesExt, FiniteSets, FiniteSetsExt

CONSTANTS
  Telemetry, Events,  \* messages, by eventId
  Damaged,            \* those process_message refuses
  Incomplete,         \* those it accepts with a null for a NOT NULL column
  Limits,             \* arguments limit of consume()
  PageSize,           \* argument limit of list_telemetry()
  MaxPublished,       \* bound: messages in the topics
  MaxFaults,          \* bound: calls of SQLite that raise
  MaxCrashes          \* bound: ends of the flow's process

ASSUME LocalFlowAssumption ==
  /\ Telemetry \cap Events = {} /\ Damaged \subseteq Telemetry
  /\ Incomplete \subseteq Telemetry \ Damaged
  /\ Limits \subseteq Nat \ {0} /\ PageSize \in Nat \ {0}
  /\ MaxPublished \in Nat /\ MaxFaults \in Nat /\ MaxCrashes \in Nat

Types == {"telemetry", "event"}
Tables == {"telemetry", "alerts"}

VARIABLES
  topics,       \* InMemoryBridge.topics, by message type
  saved,        \* the next_offset the caller has kept
  store,        \* the flow's SQLiteTelemetryStore: "none", "connected", "ready"
  pc,           \* consume(): "idle", "insert", "commit"
  batch,        \* what it has yet to work on of its slice of the topic
  next,         \* next_offset
  inserted,     \* cursor.rowcount == 1
  fresh,        \* the messages stored_count stands for
  tx,           \* the store's transaction: whether it is open, and its rows
  file, tables, \* the file exists; its tables
  rows,         \* committed rows, in the order of their rowid
  service,      \* the query service's connection: "none", "memory", "file"
  summary,      \* its summary() under way or answered
  page,         \* the last answer of list_telemetry()
  \* history and bounds
  counted,      \* how many results of consume() counted a message as stored
  faults, crashes

call   == <<pc, batch, next, inserted, fresh>>
db     == <<file, tables, rows>>
api    == <<service, summary, page>>
bounds == <<faults, crashes>>
vars   == <<topics, saved, store, call, tx, db, api, counted, bounds>>

NoTx == [open |-> FALSE, rows |-> <<>>]
Open(s) == [open |-> TRUE, rows |-> s]

Counts == [t \in Tables |-> Len(rows[t])]
NoSummary == [at |-> "none"]

Init ==
  /\ topics = [t \in Types |-> <<>>] /\ saved = 0
  /\ store = "none" /\ tx = NoTx
  /\ pc = "idle" /\ batch = <<>> /\ next = 0 /\ inserted = FALSE /\ fresh = {}
  /\ file = FALSE /\ tables = {} /\ rows = [t \in Tables |-> <<>>]
  /\ service = "none" /\ summary = NoSummary
  /\ counted = [m \in Telemetry |-> 0] /\ page = <<>>
  /\ faults = 0 /\ crashes = 0
-----------------------------------------------------------------------------
(* The bridge.                                                             *)

message_type(m) == IF m \in Events THEN "event" ELSE "telemetry"

AppendTo(topic, m) ==
  /\ Len(topics["telemetry"]) + Len(topics["event"]) < MaxPublished
  /\ topics' = [topics EXCEPT ![topic] = Append(@, m)]
  /\ UNCHANGED <<saved, store, call, tx, db, api, counted, bounds>>

\* InMemoryBridge.publish: what process_message refuses raises and goes nowhere;
\* a message seen before is reported as a duplicate, and appended all the same.
Publish(m) == m \notin Damaged /\ AppendTo(message_type(m), m)

\* InMemoryTopic.publish called directly appends anything.
PublishToTopic(m) == AppendTo("telemetry", m)
-----------------------------------------------------------------------------
(* The store and the consumer.                                             *)

\* sqlite3.connect() creates the file, the constructor's transaction the table.
Connect ==
  /\ store = "none" /\ store' = "connected" /\ file' = TRUE
  /\ UNCHANGED <<topics, saved, call, tx, tables, rows, api, counted, bounds>>

CreateTable ==
  /\ store = "connected" /\ store' = "ready"
  /\ tables' = tables \cup {"telemetry"}
  /\ UNCHANGED <<topics, saved, call, tx, file, rows, api, counted, bounds>>

\* consume(topic, offset, limit): a slice of the topic as it is now.
Consume(offset, limit) ==
  /\ store = "ready" /\ pc = "idle" /\ offset < Len(topics["telemetry"])
  /\ pc' = "insert" /\ next' = offset
  /\ batch' = SubSeq(topics["telemetry"], offset + 1,
                     Min({offset + limit, Len(topics["telemetry"])}))
  /\ inserted' = FALSE /\ fresh' = {}
  /\ UNCHANGED <<topics, saved, store, tx, db, api, counted, bounds>>

Acceptable(m) == m \in Telemetry \ Damaged

\* consume() raises: the caller has no result; the transaction stays as it is.
Raise ==
  /\ pc' = "idle" /\ batch' = <<>> /\ next' = 0 /\ inserted' = FALSE /\ fresh' = {}
  /\ UNCHANGED <<topics, saved, store, db, api, counted>>

Refuse ==
  /\ pc = "insert" /\ batch # <<>> /\ ~Acceptable(Head(batch))
  /\ Raise /\ UNCHANGED <<tx, bounds>>

\* INSERT OR IGNORE skips a row whose id is committed or in the transaction, and
\* one with a null in a NOT NULL column.
Known(m) == m \in ToSet(rows["telemetry"]) \cup ToSet(tx.rows)
Skipped(m) == m \in Incomplete \/ Known(m)

\* Mutant: OR REPLACE.
InsertReplaces ==
  /\ pc = "insert" /\ batch # <<>> /\ Acceptable(Head(batch))
  /\ LET m == Head(batch) IN
     /\ tx' = Open(IF Skipped(m) THEN tx.rows ELSE Append(tx.rows, m))
     /\ inserted' = (m \notin Incomplete)
  /\ pc' = "commit"
  /\ UNCHANGED <<topics, saved, store, batch, next, fresh, db, api, counted, bounds>>

Insert ==
  /\ pc = "insert" /\ batch # <<>> /\ Acceptable(Head(batch))
  /\ LET m == Head(batch) IN
     /\ tx' = Open(IF Skipped(m) THEN tx.rows ELSE Append(tx.rows, m))
     /\ inserted' = ~Skipped(m)
  /\ pc' = "commit"
  /\ UNCHANGED <<topics, saved, store, batch, next, fresh, db, api, counted, bounds>>

Fault == faults < MaxFaults /\ faults' = faults + 1 /\ UNCHANGED crashes

\* execute() raises.  sqlite3 begins a transaction before the statement and
\* leaves it open; or SQLite has rolled it back, with what it held.
InsertRaises ==
  /\ pc = "insert" /\ batch # <<>> /\ Acceptable(Head(batch))
  /\ Fault /\ Raise
  /\ tx' \in {tx, Open(tx.rows), NoTx}

\* The message is done with: what Commit does after the commit.
Advance ==
  /\ next' = next + 1 /\ batch' = Tail(batch) /\ pc' = "insert"
  /\ fresh' = IF inserted THEN fresh \cup {Head(batch)} ELSE fresh
  /\ inserted' = FALSE

\* Mutant: insert() returns before the commit when the row was there.
CommitUnlessDuplicate ==
  /\ pc = "commit" /\ Advance
  /\ IF inserted
     THEN /\ rows' = [rows EXCEPT !["telemetry"] = @ \o tx.rows] /\ tx' = NoTx
     ELSE UNCHANGED <<rows, tx>>
  /\ UNCHANGED <<topics, saved, store, file, tables, api, counted, bounds>>

Commit ==
  /\ pc = "commit" /\ Advance
  /\ rows' = [rows EXCEPT !["telemetry"] = @ \o tx.rows] /\ tx' = NoTx
  /\ UNCHANGED <<topics, saved, store, file, tables, api, counted, bounds>>

\* commit() raises; insert() does not roll back.  The transaction stays open, or
\* SQLite itself has rolled it back.
CommitRaises ==
  /\ pc = "commit" /\ Fault /\ Raise
  /\ tx' \in {tx, NoTx}

\* consume() returns: the caller keeps next_offset and may report the counts.
Return ==
  /\ pc = "insert" /\ batch = <<>>
  /\ pc' = "idle" /\ saved' = next /\ next' = 0 /\ fresh' = {}
  /\ counted' = [m \in Telemetry |-> IF m \in fresh THEN counted[m] + 1 ELSE counted[m]]
  /\ UNCHANGED <<topics, store, batch, inserted, tx, db, api, bounds>>

\* close() between two calls: an open transaction is lost.
Close ==
  /\ store # "none" /\ pc = "idle"
  /\ store' = "none" /\ tx' = NoTx
  /\ UNCHANGED <<topics, saved, call, db, api, counted, bounds>>

\* The process ends anywhere, and with it the topics; another one starts.
Crash ==
  /\ crashes < MaxCrashes /\ crashes' = crashes + 1
  /\ topics' = [t \in Types |-> <<>>] /\ saved' = 0
  /\ store' = "none" /\ tx' = NoTx
  /\ pc' = "idle" /\ batch' = <<>> /\ next' = 0 /\ inserted' = FALSE /\ fresh' = {}
  /\ UNCHANGED <<db, api, counted, faults>>

\* SQLiteAlertStore in its own process: the constructor, and insert() of an event
\* that is not there yet, when nobody holds the write lock.  The flow holds it when
\* a commit is due or its transaction has rows; a transaction without rows that a
\* raising call left behind may hold it or not.
StoreAlert(e) ==
  /\ pc # "commit" /\ tx.rows = <<>> /\ e \notin ToSet(rows["alerts"])
  /\ file' = TRUE /\ tables' = tables \cup {"alerts"}
  /\ rows' = [rows EXCEPT !["alerts"] = Append(@, e)]
  /\ UNCHANGED <<topics, saved, store, call, tx, api, counted, bounds>>
-----------------------------------------------------------------------------
(* The query service.                                                      *)

\* The constructor chooses for good: no file, an empty database of its own.
StartService ==
  /\ service = "none" /\ service' = IF file THEN "file" ELSE "memory"
  /\ UNCHANGED <<topics, saved, store, call, tx, db, summary, counted, page, bounds>>

CloseService ==
  /\ service # "none" /\ summary.at # "alerts"
  /\ service' = "none" /\ page' = <<>> /\ summary' = NoSummary
  /\ UNCHANGED <<topics, saved, store, call, tx, db, counted, bounds>>

\* What a SELECT sees; "no such table" counts as no rows.
Visible(t) == IF service = "file" /\ t \in tables THEN rows[t] ELSE <<>>

\* Mutant: ORDER BY rowid LIMIT ?, the oldest rows.
ListOldest ==
  /\ service # "none"
  /\ page' = SubSeq(Visible("telemetry"), 1,
                    Min({PageSize, Len(Visible("telemetry"))}))
  /\ UNCHANGED <<topics, saved, store, call, tx, db, service, summary, counted, bounds>>

\* list_telemetry(limit = PageSize): the newest rows.
List ==
  /\ service # "none"
  /\ LET v == Visible("telemetry") IN
     page' = Reverse(SubSeq(v, Max({1, Len(v) - PageSize + 1}), Len(v)))
  /\ UNCHANGED <<topics, saved, store, call, tx, db, service, summary, counted, bounds>>

\* summary(): two SELECTs, and the file may change between them.
CountTelemetry ==
  /\ service # "none" /\ summary.at # "alerts"
  /\ summary' = [at |-> "alerts", before |-> Counts,
                 telemetry |-> Len(Visible("telemetry"))]
  /\ UNCHANGED <<topics, saved, store, call, tx, db, service, page, counted, bounds>>

\* Mutant: one query for both counts, a join.
CountAlertsJoined ==
  /\ summary.at = "alerts"
  /\ summary' = [at |-> "answered", telemetry |-> summary.telemetry,
                 alerts |-> Min({summary.telemetry, Len(Visible("alerts"))})]
  /\ UNCHANGED <<topics, saved, store, call, tx, db, service, page, counted, bounds>>

CountAlerts ==
  /\ summary.at = "alerts"
  /\ summary' = [at |-> "answered", telemetry |-> summary.telemetry,
                 alerts |-> Len(Visible("alerts"))]
  /\ UNCHANGED <<topics, saved, store, call, tx, db, service, page, counted, bounds>>
-----------------------------------------------------------------------------
Flow ==
  \/ \E m \in Telemetry \cup Events : Publish(m)
  \/ \E m \in Damaged : PublishToTopic(m)
  \/ Connect \/ CreateTable
  \/ \E offset \in {0, saved}, limit \in Limits : Consume(offset, limit)
  \/ Refuse \/ Insert \/ InsertRaises \/ Commit \/ CommitRaises \/ Return
  \/ Close \/ Crash

Queries == \/ StartService \/ CloseService \/ List
           \/ CountTelemetry \/ CountAlerts

Next == Flow \/ Queries \/ \E e \in Events : StoreAlert(e)

Spec == Init /\ [][Next]_vars

\* A client that asks again and again, over a service that stays up.
FairSpec == Spec /\ WF_vars(List)
-----------------------------------------------------------------------------
(* Properties.                                                             *)

\* The shape of the state; a transaction is open when a commit is due, and
\* otherwise only after an insert or a commit() that raised.
TypeOK ==
  /\ topics \in [Types -> Seq(Telemetry \cup Events)]
  /\ saved \in 0..MaxPublished /\ next \in 0..MaxPublished
  /\ store \in {"none", "connected", "ready"} /\ pc \in {"idle", "insert", "commit"}
  /\ batch \in Seq(Telemetry \cup Events)
  /\ inserted \in BOOLEAN /\ fresh \subseteq Telemetry
  /\ pc = "commit" => tx.open
  /\ tx.open /\ pc # "commit" => faults > 0
  /\ file \in BOOLEAN /\ tables \subseteq Tables
  /\ \A t \in Tables : rows[t] \in Seq(Telemetry \cup Events)
  /\ \A t \in Tables : rows[t] # <<>> => t \in tables
  /\ tables # {} => file
  /\ service \in {"none", "memory", "file"} /\ page \in Seq(Telemetry)

\* "The caller may persist this only after consume returns successfully": every
\* message before an offset that was returned has a committed row, through
\* inserts and commits that raise, and damaged messages; so no end of the
\* process can lose it.  The exception: a message the table skips for a null is
\* counted as a duplicate and passed without a row.
OffsetCoversStored ==
  \A i \in 1..saved :
    topics["telemetry"][i] \in ToSet(rows["telemetry"]) \cup Incomplete

\* eventId is the idempotency key: over all calls of consume(), restarts and
\* redeliveries, a row is counted as stored at most once, and only when it is.
CountedOnce ==
  \A m \in Telemetry :
    /\ counted[m] <= 1
    /\ counted[m] = 1 => m \in ToSet(rows["telemetry"])
    /\ Cardinality({i \in DOMAIN rows["telemetry"] : rows["telemetry"][i] = m}) <= 1

\* The two counts of a summary are read at different moments; still each lies
\* between what was stored at the call and at the answer, unless the service
\* started before there was a file.
SummaryBracketed ==
  [][summary.at = "alerts" /\ summary'.at = "answered" /\ service = "file" =>
       /\ summary'.telemetry \in summary.before["telemetry"] .. Counts["telemetry"]
       /\ summary'.alerts \in summary.before["alerts"] .. Counts["alerts"]]_vars

\* A service that started when the file was there serves what is stored from
\* then on, also when the table came later: whoever keeps asking keeps getting
\* the newest row.
StoredIsServed ==
  []<>(service = "file" /\ rows["telemetry"] # <<>>
         => page # <<>> /\ Head(page) = Last(rows["telemetry"]))
=============================================================================
