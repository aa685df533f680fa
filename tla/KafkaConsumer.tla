--------------------------- MODULE KafkaConsumer ---------------------------
(***************************************************************************)
(* streaming/consumers/kafka_storage.py and alert_dispatch.py: one         *)
(* consumer of a Kafka topic whose poll_once() reads a batch, hands every  *)
(* record to process_with_retry (streaming/common/retry.py), which stores  *)
(* it in SQLite or publishes it to the DLQ, and then commits the offsets   *)
(* of the whole batch.  The two adapters differ only in the kind of        *)
(* message they accept, so `kind` says what this one makes of a record.    *)
(*                                                                         *)
(* External, modelled from how the adapters use it: the Kafka client keeps *)
(* a position per partition that poll() moves past what it returns, and    *)
(* commit() stores the positions; a new client starts from what was        *)
(* committed.  One consumer owns all partitions of its group.              *)
(***************************************************************************)
EXTENDS Naturals, Sequences, FiniteSets, FiniteSetsExt

CONSTANTS
  Partitions,         \* partitions of the topic
  EventIds,           \* values of eventId
  Bodies,             \* payloads: dataHash tells them apart
  Kinds,              \* what the topic may hold, see Records
  PartitionOf,        \* the partition of an event id (its streamId is the key)
  MaxRecords,         \* max_records of poll_once
  MaxAttempts,        \* max_attempts of process_with_retry
  LogMax,             \* bound: records per partition
  MaxFaults,          \* bound: failing calls of SQLite, the DLQ and commit()
  MaxCrashes          \* bound: crashes of the process

ASSUME ConsumerAssumption ==
  /\ IsFiniteSet(Partitions) /\ Partitions # {}
  /\ PartitionOf \in [EventIds -> Partitions]
  /\ MaxRecords \in Nat \ {0} /\ MaxAttempts \in Nat \ {0}
  /\ Kinds \subseteq {"valid", "incomplete", "invalid", "opaque"}
  /\ LogMax \in Nat /\ MaxFaults \in Nat /\ MaxCrashes \in Nat

\* "valid": process_message accepts it, it is of the adapter's type, and the
\* table takes its row; "incomplete": the same, but a field process_message does
\* not look at is null and its column is NOT NULL; "invalid": process_message
\* refuses it, it is of the other type, or insert() raises for it; "opaque": its
\* value is no JSON object.  (The id of the last three only says which partition
\* they are in.)
Records == [id : EventIds, body : Bodies, kind : Kinds \cap {"valid"}]
      \cup [id : EventIds, kind : Kinds \ {"valid"}]
Rows == [id : EventIds, body : Bodies]

VARIABLES
  log,        \* the topic: a sequence of records per partition
  committed,  \* offsets the group has committed
  position,   \* offsets the client's next poll() starts from
  next,       \* offsets poll_once has not worked on yet
  turn,       \* the partition poll_once works on
  pc, attempt,
  rows,       \* rows of the store, durable
  open,       \* rows of a transaction whose commit() raised
  dlq,        \* <<partition, offset>> of the records published to the DLQ
  faults, crashes

broker == <<log, committed>>
client == <<position, next, turn>>
store  == <<rows, open>>
vars == <<broker, client, pc, attempt, store, dlq, faults, crashes>>
-----------------------------------------------------------------------------
Init ==
  /\ log = [p \in Partitions |-> <<>>]
  /\ committed = [p \in Partitions |-> 0]
  /\ position = committed /\ next = committed
  /\ turn = CHOOSE p \in Partitions : TRUE
  /\ pc = "idle" /\ attempt = 0
  /\ rows = {} /\ open = {} /\ dlq = {}
  /\ faults = 0 /\ crashes = 0

Fault == faults < MaxFaults /\ faults' = faults + 1

\* The bridge, or another producer, appends a record: possibly one that is
\* already in the topic, or another payload under a known event id.
Produce ==
  /\ \E r \in Records :
       LET p == PartitionOf[r.id]
       IN /\ Len(log[p]) < LogMax
          /\ log' = [log EXCEPT ![p] = Append(@, r)]
  /\ UNCHANGED <<committed, client, pc, attempt, store, dlq, faults, crashes>>

\* What poll() may return, as the positions after it: at least one record,
\* at most max_records of them over all partitions.
Fetches ==
  {new \in [Partitions -> 0..LogMax] :
     /\ new # position
     /\ \A p \in Partitions : position[p] <= new[p] /\ new[p] <= Len(log[p])
     /\ MapThenSumSet(LAMBDA p : new[p] - position[p], Partitions)
          <= MaxRecords}

\* poll() returned records.  What an earlier poll_once left behind is gone.
Poll ==
  /\ pc = "idle"
  /\ position' \in Fetches
  /\ next' = position
  /\ turn' \in {p \in Partitions : position[p] < position'[p]}
  /\ attempt' = 0 /\ pc' = "record"
  /\ UNCHANGED <<broker, store, dlq, faults, crashes>>

Offset == next[turn]
Record == log[turn][Offset + 1]

\* build_dlq_metadata reads record.value before process_with_retry is called.
BuildMetadata ==
  /\ pc = "record"
  /\ pc' = IF Record.kind = "opaque" THEN "raised" ELSE "handle"
  /\ UNCHANGED <<broker, client, attempt, store, dlq, faults, crashes>>

\* The loops over the batch: the rest of this partition, then the others.
Advance ==
  /\ next' = [next EXCEPT ![turn] = @ + 1]
  /\ attempt' = 0
  /\ IF next'[turn] < position[turn] THEN turn' = turn /\ pc' = "record"
     ELSE LET others == {p \in Partitions : next'[p] < position[p]}
          IN IF others = {} THEN turn' = turn /\ pc' = "commit"
             ELSE turn' \in others /\ pc' = "record"
  /\ UNCHANGED position

\* Mutant: off by one, range(1, max_attempts + 2).
FailedAttemptOnceMore ==
  /\ attempt' = attempt + 1
  /\ pc' = IF attempt < MaxAttempts THEN "handle" ELSE "dlq"
  /\ UNCHANGED client

\* One failed attempt of process_with_retry.
FailedAttempt ==
  /\ attempt' = attempt + 1
  /\ pc' = IF attempt + 1 < MaxAttempts THEN "handle" ELSE "dlq"
  /\ UNCHANGED client

\* process_message raises, or the record is not of the adapter's type.
Reject ==
  /\ pc = "handle" /\ Record.kind = "invalid"
  /\ FailedAttempt
  /\ UNCHANGED <<broker, store, dlq, faults, crashes>>

Row(r) == [id |-> r.id, body |-> r.body]

\* Mutants: INSERT OR REPLACE; INSERT into a table without the key.
InsertOrReplace(table, r) ==
  IF r.kind = "incomplete" THEN table
  ELSE {row \in table : row.id # r.id} \cup {Row(r)}

InsertAlways(table, r) ==
  IF r.kind = "incomplete" THEN table ELSE table \cup {Row(r)}

\* INSERT OR IGNORE with event_id as primary key, as the connection sees it: a
\* row that violates the key, or a NOT NULL of its columns, is skipped.
InsertOrIgnore(table, r) ==
  IF r.kind = "incomplete" \/ \E row \in table : row.id = r.id
  THEN table ELSE table \cup {Row(r)}

Accepted == Record.kind \in {"valid", "incomplete"}

\* insert() returns: the record has a new row, or was skipped and counts as a
\* duplicate, which for an incomplete record it need not be.
Insert ==
  /\ pc = "handle" /\ Accepted
  /\ rows' = InsertOrIgnore(rows \cup open, Record) /\ open' = {}
  /\ Advance
  /\ UNCHANGED <<broker, dlq, faults, crashes>>

\* SQLite raises: in execute(), or in commit(), which leaves the transaction
\* open or rolls it back.
InsertFails ==
  /\ pc = "handle" /\ Accepted /\ Fault
  /\ FailedAttempt
  /\ open' \in {open, {}, InsertOrIgnore(rows \cup open, Record) \ rows}
  /\ UNCHANGED <<broker, rows, dlq, crashes>>

\* Mutant: a record that cannot be handled is skipped.
PublishDlqSkips ==
  /\ pc = "dlq"
  /\ Advance
  /\ UNCHANGED <<broker, store, dlq, faults, crashes>>

PublishDlq ==
  /\ pc = "dlq"
  /\ dlq' = dlq \cup {<<turn, Offset>>}
  /\ Advance
  /\ UNCHANGED <<broker, store, faults, crashes>>

\* send().get(timeout) raises: before the DLQ has the record, or after.
PublishDlqFails ==
  /\ pc = "dlq" /\ Fault
  /\ dlq' \in {dlq, dlq \cup {<<turn, Offset>>}}
  /\ pc' = "raised"
  /\ UNCHANGED <<broker, client, attempt, store, crashes>>

\* commit() without arguments: the positions of all partitions.
Commit ==
  /\ pc = "commit"
  /\ committed' = position
  /\ pc' = "idle"
  /\ UNCHANGED <<log, client, attempt, store, dlq, faults, crashes>>

CommitFails ==
  /\ pc = "commit" /\ Fault
  /\ committed' \in {committed, position}
  /\ pc' = "raised"
  /\ UNCHANGED <<log, client, attempt, store, dlq, crashes>>

\* Mutant: the client resumes after what it had read.
NewClientAtPosition ==
  /\ next' = position /\ UNCHANGED <<position, turn>>
  /\ pc' = "idle" /\ attempt' = 0 /\ open' = {}
  /\ UNCHANGED <<broker, rows, dlq, faults>>

\* A new process with a new client on the same store.
NewClient ==
  /\ position' = committed /\ next' = committed /\ turn' = turn
  /\ pc' = "idle" /\ attempt' = 0 /\ open' = {}
  /\ UNCHANGED <<broker, rows, dlq, faults>>

\* poll_once raised, which ends the process.
Restart == pc = "raised" /\ NewClient /\ UNCHANGED crashes

\* poll_once raised, and its caller calls it again with the same client.
PollAgain ==
  /\ pc = "raised"
  /\ pc' = "idle"
  /\ UNCHANGED <<broker, client, attempt, store, dlq, faults, crashes>>

Crash ==
  /\ crashes < MaxCrashes /\ crashes' = crashes + 1
  /\ NewClient

Work == \/ Poll \/ BuildMetadata \/ Reject \/ Insert \/ PublishDlq \/ Commit
        \/ Restart

\* The topic is full and read to its end: nothing more can happen.
Finished ==
  /\ pc = "idle" /\ \A p \in Partitions : position[p] = Len(log[p])
  /\ UNCHANGED vars

Next == \/ Produce \/ Work \/ InsertFails \/ PublishDlqFails \/ CommitFails
        \/ Crash \/ Finished

Spec == Init /\ [][Next]_vars

\* The repository has no caller of poll_once.  Spec is the caller that lets an
\* exception end the process; this one keeps the consumer and polls on.
ResumingSpec == Init /\ [][Next \/ PollAgain]_vars

\* poll_once is called again and again, and a process that ended is replaced.
FairSpec == Spec /\ WF_vars(Work)
-----------------------------------------------------------------------------
TypeOK ==
  /\ log \in [Partitions -> Seq(Records)]
  /\ committed \in [Partitions -> Nat] /\ position \in [Partitions -> Nat]
  /\ next \in [Partitions -> Nat] /\ turn \in Partitions
  /\ pc \in {"idle", "record", "handle", "dlq", "commit", "raised"}
  /\ attempt \in 0..MaxAttempts
  /\ rows \subseteq Rows /\ open \subseteq Rows
  /\ dlq \subseteq Partitions \X Nat
  /\ faults \in Nat /\ crashes \in Nat

\* The record is stored (under its event id) or in the DLQ.
Handled(p, o) ==
  \/ log[p][o + 1].kind = "valid" /\ \E row \in rows : row.id = log[p][o + 1].id
  \/ <<p, o>> \in dlq

\* "commits offsets only after SQLite storage succeeds": what is committed is
\* durable in the store or in the DLQ, whatever calls failed before.  The one
\* exception is an incomplete record: the store skips it without an error, so it
\* is neither stored nor refused, and its offset is committed all the same.
\* This holds of Spec and is refuted for ResumingSpec, with complete records
\* only: the rest of the batch is skipped, and the next commit() covers it.
CommittedIsHandled ==
  \A p \in Partitions, o \in 0 .. LogMax :
    o < committed[p] => Handled(p, o) \/ log[p][o + 1].kind = "incomplete"

\* A stored payload is never replaced by a redelivery or by another payload
\* under the same event id.
RowsAreKept == [][rows \subseteq rows']_vars

\* One row per event id, also with the rows of a transaction left open.
EventIdUnique ==
  \A a, b \in rows \cup open : a.id = b.id => a = b

\* When no more records come, the consumer commits them all: neither a record
\* that is always rejected nor a failing call stops it for good.  What does is
\* a record that is no JSON object: it ends every process that meets it, and
\* with it the progress of the other partitions.
Opaque == \E p \in Partitions : \E i \in 1..Len(log[p]) : log[p][i].kind = "opaque"

EventuallyCommitted ==
  []<>(Opaque \/ \A p \in Partitions : committed[p] = Len(log[p]))
=============================================================================
