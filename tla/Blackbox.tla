------------------------------ MODULE Blackbox ------------------------------
(***************************************************************************)
(* edge/edge_monitor/storage/blackbox.py at the level of transactions: one *)
(* SQLite connection shared by all threads, with the calls that can fail.  *)
(* A method holds the lock from its first statement to its commit() or its *)
(* rollback(), so it is one step; what it leaves behind when it raises is  *)
(* what the next method finds.  EdgeRuntime.tla takes a failing call as    *)
(* one without effect; here the effects are spelled out.                   *)
(*                                                                         *)
(* External, modelled from how the code uses it: sqlite3 opens a           *)
(* transaction before an INSERT, UPDATE or DELETE unless one is open;      *)
(* BEGIN raises while one is open; a statement or commit() that raises     *)
(* leaves the transaction open, or SQLite has rolled it back; a rollback   *)
(* takes back AUTOINCREMENT's counter with the rows.                       *)
(*                                                                         *)
(* Writers and Senders stand for the spooler and sender threads of one     *)
(* runtime.  They end by an exception, which sets the stop events of them  *)
(* all, or by stop(), which does so too; start() clears the events and     *)
(* adds threads.  There are two senders when stop() gave up joining one    *)
(* that was inside send_json, and start() was called again.                *)
(***************************************************************************)
EXTENDS Naturals, Sequences, FiniteSets

CONSTANTS
  Writers,    \* spooler threads
  Senders,    \* sender threads
  Limit,      \* pending(limit)
  MaxNumber,  \* bound: sequence numbers reserved
  MaxFaults,  \* bound: failing statements and commits
  MaxCrashes  \* bound: how often the process dies

ASSUME BlackboxAssumption ==
  /\ Limit \in Nat \ {0}
  /\ MaxNumber \in Nat /\ MaxFaults \in Nat /\ MaxCrashes \in Nat

VARIABLES
  durable,    \* the committed database
  view,       \* the database as the connection sees it
  open,       \* connection.in_transaction
  \* the threads
  stopping,   \* the stop events are set
  wpc,        \* writer -> "run" or "ended"
  numbers,    \* writer -> the numbers it holds for messages to be stored
  spc,        \* sender -> "run", "sent", "failed" or "ended"
  batch,      \* sender -> the rows of its batch still to be visited
  \* history
  given,      \* numbers next_sequence returned
  pairs,      \* batches of two given to enqueue_many
  stored,     \* numbers that were ever committed
  accepted,   \* numbers whose enqueue or enqueue_many returned
  used,       \* rows any connection saw
  delivered,  \* numbers of the messages the transport got
  faults, crashes

database == <<durable, view, open>>
writers  == <<wpc, numbers, given, pairs, accepted>>
senders  == <<spc, batch, delivered>>
process  == <<stopping, crashes>>
vars == <<database, writers, senders, stored, used, faults, process>>

\* A message is known by its number.
Row(id, no) == [id |-> id, no |-> no]
Numbers(db) == {r.no : r \in db.rows}
Empty == [last_seq_no |-> 0, last_row_id |-> 0, rows |-> {}]

\* One of the threads is started; the others are for later calls of start().
OneRuns(threads) ==
  [u \in threads |-> IF u = CHOOSE t \in threads : TRUE THEN "run" ELSE "ended"]

Init ==
  /\ durable = Empty /\ view = Empty /\ open = FALSE
  /\ stopping = FALSE
  /\ wpc = OneRuns(Writers) /\ numbers = [w \in Writers |-> <<>>]
  /\ spc = OneRuns(Senders) /\ batch = [s \in Senders |-> {}]
  /\ given = {} /\ pairs = {} /\ stored = {} /\ accepted = {} /\ used = {}
  /\ delivered = {} /\ faults = 0 /\ crashes = 0
-----------------------------------------------------------------------------
(* How a transaction ends.                                                 *)

\* The connection now sees db, and the file holds file.
Sees(db, file, pending) ==
  /\ view' = db /\ durable' = file /\ open' = pending
  /\ stored' = stored \cup Numbers(file)
  /\ used' = used \cup db.rows

\* commit(): whatever the transaction holds becomes durable.
Commit(db) == Sees(db, db, FALSE)

\* rollback(), or SQLite's own.
Rollback == Sees(durable, durable, FALSE)

Fault == faults < MaxFaults /\ faults' = faults + 1

\* A method without a handler raises: the statement failed, or it took
\* effect and commit() failed.
LeftBehind(db) ==
  Fault /\ (Sees(view, durable, TRUE) \/ Sees(db, durable, TRUE) \/ Rollback)

\* BEGIN IMMEDIATE stands before the try: it raises, and nothing is rolled
\* back, when a transaction is open.
BeginRaises == open /\ UNCHANGED <<database, stored, used, faults>>

\* The except branch of next_sequence and enqueue_many.
Undone == ~open /\ Fault /\ Rollback
-----------------------------------------------------------------------------
(* The spooler's calls.                                                    *)

\* Mutant: the number is returned before it is committed.
NextSequenceUncommitted(w) ==
  LET n == view.last_seq_no + 1
  IN /\ wpc[w] = "run" /\ Len(numbers[w]) < 2 /\ n <= MaxNumber
     /\ Sees([view EXCEPT !.last_seq_no = n], durable, TRUE)
     /\ numbers' = [numbers EXCEPT ![w] = Append(@, n)]
     /\ given' = given \cup {n}
     /\ UNCHANGED <<wpc, pairs, accepted, senders, faults, process>>

NextSequence(w) ==
  LET n == view.last_seq_no + 1
  IN /\ wpc[w] = "run" /\ Len(numbers[w]) < 2 /\ n <= MaxNumber
     /\ ~open /\ Commit([view EXCEPT !.last_seq_no = n])
     /\ numbers' = [numbers EXCEPT ![w] = Append(@, n)]
     /\ given' = given \cup {n}
     /\ UNCHANGED <<wpc, pairs, accepted, senders, faults, process>>

\* The exception ends the thread, the numbers it holds are gone, and
\* _record_worker_failure sets every stop event.
WriterRaises(w) ==
  /\ wpc' = [wpc EXCEPT ![w] = "ended"] /\ stopping' = TRUE
  /\ numbers' = [numbers EXCEPT ![w] = <<>>]
  /\ UNCHANGED <<given, accepted, senders, crashes>>

NextSequenceRaises(w) ==
  /\ wpc[w] = "run" /\ Len(numbers[w]) < 2
  /\ BeginRaises \/ Undone
  /\ WriterRaises(w) /\ UNCHANGED pairs

\* Mutant: the counter of row ids stays behind.
InsertKeepsCounter(db, n) ==
  IF n \in Numbers(db) THEN db
  ELSE [db EXCEPT !.rows = @ \cup {Row(db.last_row_id + 1, n)}]

\* One row; a number that has one is ignored.
Insert(db, n) ==
  IF n \in Numbers(db) THEN db
  ELSE [db EXCEPT !.rows = @ \cup {Row(db.last_row_id + 1, n)},
                  !.last_row_id = @ + 1]

Stores(w) ==
  /\ accepted' = accepted \cup {numbers[w][i] : i \in 1..Len(numbers[w])}
  /\ numbers' = [numbers EXCEPT ![w] = <<>>]
  /\ UNCHANGED <<wpc, given, senders, faults, process>>

\* Mutant: no commit.
EnqueueUncommitted(w) ==
  /\ wpc[w] = "run" /\ Len(numbers[w]) = 1
  /\ Sees(Insert(view, numbers[w][1]), durable, TRUE)
  /\ Stores(w) /\ UNCHANGED pairs

Enqueue(w) ==
  /\ wpc[w] = "run" /\ Len(numbers[w]) = 1
  /\ Commit(Insert(view, numbers[w][1]))
  /\ Stores(w) /\ UNCHANGED pairs

EnqueueRaises(w) ==
  /\ wpc[w] = "run" /\ Len(numbers[w]) = 1
  /\ LeftBehind(Insert(view, numbers[w][1]))
  /\ WriterRaises(w) /\ UNCHANGED pairs

InsertAll(db, ns) ==
  IF Len(ns) = 1 THEN Insert(db, ns[1]) ELSE Insert(Insert(db, ns[1]), ns[2])

\* The batches enqueue_many was given.
Remember(w) ==
  pairs' = IF Len(numbers[w]) = 2 THEN pairs \cup {numbers[w]} ELSE pairs

EnqueueMany(w) ==
  /\ wpc[w] = "run" /\ numbers[w] # <<>>
  /\ ~open /\ Commit(InsertAll(view, numbers[w]))
  /\ Stores(w) /\ Remember(w)

\* Mutant: no rollback, so that the rows before the failing one stay.
EnqueueManyRaisesKeeps(w) ==
  /\ wpc[w] = "run" /\ numbers[w] # <<>>
  /\ BeginRaises \/ (~open /\ LeftBehind(Insert(view, numbers[w][1])))
  /\ WriterRaises(w) /\ Remember(w)

EnqueueManyRaises(w) ==
  /\ wpc[w] = "run" /\ numbers[w] # <<>>
  /\ BeginRaises \/ Undone
  /\ WriterRaises(w) /\ Remember(w)
-----------------------------------------------------------------------------
(* The sender's calls.                                                     *)

\* Mutant: no ORDER BY.
PendingAnyOrder(S) ==
  /\ S \subseteq view.rows
  /\ \/ S = view.rows /\ Cardinality(S) <= Limit
     \/ Cardinality(S) = Limit

\* pending(): the rows with the smallest ids the connection sees.
Pending(S) ==
  /\ S \subseteq view.rows
  /\ \A r \in S, q \in view.rows \ S : r.id < q.id
  /\ \/ S = view.rows /\ Cardinality(S) <= Limit
     \/ Cardinality(S) = Limit

\* count and pending: neither opens a transaction.
Fetch(s) ==
  /\ spc[s] = "run" /\ batch[s] = {} /\ view.rows # {}
  /\ \E S \in SUBSET view.rows : Pending(S) /\ batch' = [batch EXCEPT ![s] = S]
  /\ UNCHANGED <<database, writers, spc, delivered, stored, used, faults,
                 process>>

Current(s, r) == r \in batch[s] /\ \A q \in batch[s] : r.id <= q.id

\* send_json returns, or raises before or after the message arrived.
Send(s) ==
  /\ spc[s] = "run"
  /\ \E r \in batch[s] :
       /\ Current(s, r)
       /\ \/ /\ spc' = [spc EXCEPT ![s] = "sent"]
             /\ delivered' = delivered \cup {r.no}
          \/ /\ spc' = [spc EXCEPT ![s] = "failed"]
             /\ delivered' \in {delivered, delivered \cup {r.no}}
  /\ UNCHANGED <<database, writers, batch, stored, used, faults, process>>

\* By row id, whatever that row holds now.
Delete(db, r) == [db EXCEPT !.rows = {q \in @ : q.id # r.id}]

Acknowledge(s) ==
  /\ spc[s] = "sent"
  /\ \E r \in batch[s] : /\ Current(s, r) /\ Commit(Delete(view, r))
                         /\ batch' = [batch EXCEPT ![s] = @ \ {r}]
  /\ spc' = [spc EXCEPT ![s] = "run"]
  /\ UNCHANGED <<writers, delivered, faults, process>>

SenderRaises(s) ==
  /\ spc' = [spc EXCEPT ![s] = "ended"] /\ batch' = [batch EXCEPT ![s] = {}]
  /\ stopping' = TRUE
  /\ UNCHANGED <<writers, delivered, crashes>>

AcknowledgeRaises(s) ==
  /\ spc[s] = "sent"
  /\ \E r \in batch[s] : Current(s, r) /\ LeftBehind(Delete(view, r))
  /\ SenderRaises(s)

\* Mutant: the diagnostics are not committed.
RecordFailureUncommitted(s) ==
  /\ spc[s] = "failed"
  /\ Sees(view, durable, TRUE)
  /\ spc' = [spc EXCEPT ![s] = "run"] /\ batch' = [batch EXCEPT ![s] = {}]
  /\ UNCHANGED <<writers, delivered, faults, process>>

\* record_failure: only diagnostics change, but its commit() is everybody's.
RecordFailure(s) ==
  /\ spc[s] = "failed"
  /\ Commit(view)
  /\ spc' = [spc EXCEPT ![s] = "run"] /\ batch' = [batch EXCEPT ![s] = {}]
  /\ UNCHANGED <<writers, delivered, faults, process>>

RecordFailureRaises(s) ==
  spc[s] = "failed" /\ LeftBehind(view) /\ SenderRaises(s)
-----------------------------------------------------------------------------
(* The runtime: the connection stays as it is.                             *)

\* stop() sets the events.
Stop ==
  /\ ~stopping /\ stopping' = TRUE
  /\ UNCHANGED <<database, writers, senders, stored, used, faults, crashes>>

\* The spooler has drained its queue.
WriterEnds(w) ==
  /\ stopping /\ wpc[w] = "run" /\ numbers[w] = <<>>
  /\ wpc' = [wpc EXCEPT ![w] = "ended"]
  /\ UNCHANGED <<database, numbers, given, pairs, accepted, senders, stored,
                 used, faults, process>>

\* A sender that waits, or is done with its batch, leaves without another call
\* of the blackbox; one inside a batch goes on with it.
SenderEnds(s) ==
  /\ stopping /\ spc[s] = "run" /\ batch[s] = {}
  /\ spc' = [spc EXCEPT ![s] = "ended"]
  /\ UNCHANGED <<database, writers, batch, delivered, stored, used, faults,
                 process>>

\* start() after stop(): the events are cleared, and threads added.  A sender
\* that stop() did not wait for goes on.
Restart ==
  /\ stopping /\ stopping' = FALSE
  /\ \E w \in Writers : wpc[w] = "ended" /\ wpc' = [wpc EXCEPT ![w] = "run"]
  /\ \E s \in Senders : spc[s] = "ended" /\ spc' = [spc EXCEPT ![s] = "run"]
  /\ UNCHANGED <<database, numbers, given, pairs, accepted, batch, delivered,
                 stored, used, faults, crashes>>

\* The process dies, or closes the connection: what is open is rolled back.
Crash ==
  /\ crashes < MaxCrashes /\ crashes' = crashes + 1
  /\ Rollback
  /\ stopping' = FALSE
  /\ wpc' = OneRuns(Writers) /\ numbers' = [w \in Writers |-> <<>>]
  /\ spc' = OneRuns(Senders) /\ batch' = [s \in Senders |-> {}]
  /\ UNCHANGED <<given, pairs, accepted, delivered, faults>>

Writer(w) == \/ NextSequence(w) \/ NextSequenceRaises(w) \/ Enqueue(w)
             \/ EnqueueRaises(w) \/ EnqueueMany(w) \/ EnqueueManyRaises(w)

Sender(s) == \/ Fetch(s) \/ Send(s) \/ Acknowledge(s) \/ AcknowledgeRaises(s)
             \/ RecordFailure(s) \/ RecordFailureRaises(s)

Runtime == \/ Stop \/ Restart
           \/ \E w \in Writers : WriterEnds(w)
           \/ \E s \in Senders : SenderEnds(s)

\* Every number is used and every message is out.
Finished ==
  /\ view.last_seq_no = MaxNumber /\ view.rows = {}
  /\ UNCHANGED vars

Next == \/ \E w \in Writers : Writer(w)
        \/ \E s \in Senders : Sender(s)
        \/ Runtime \/ Crash \/ Finished

Spec == Init /\ [][Next]_vars

\* A sender's loop turns until it ends: its waits have a timeout, and its calls
\* return or raise.  Nobody is obliged to produce messages, to stop a runtime or
\* to start it again.
FairSpec == Spec /\ \A s \in Senders : WF_vars(Sender(s) \/ SenderEnds(s))
-----------------------------------------------------------------------------
Databases == [last_seq_no : Nat, last_row_id : Nat,
              rows : SUBSET [id : Nat, no : Nat]]

\* A database has its counters ahead of its rows.
IsDatabase(db) ==
  /\ db \in Databases
  /\ \A r \in db.rows : r.id <= db.last_row_id /\ r.no <= db.last_seq_no

\* The shape of the state, and of what is committed and seen.
TypeOK ==
  /\ IsDatabase(durable) /\ IsDatabase(view) /\ open \in BOOLEAN
  /\ stopping \in BOOLEAN /\ wpc \in [Writers -> {"run", "ended"}]
  /\ numbers \in [Writers -> Seq(Nat)]
  /\ spc \in [Senders -> {"run", "sent", "failed", "ended"}]
  /\ batch \in [Senders -> SUBSET [id : Nat, no : Nat]]
  /\ given \subseteq Nat /\ pairs \subseteq Seq(Nat) /\ stored \subseteq Nat
  /\ accepted \subseteq Nat /\ delivered \subseteq Nat
  /\ used \subseteq [id : Nat, no : Nat]
  /\ faults \in Nat /\ crashes \in Nat

\* A number next_sequence returned is covered by the committed counter, so
\* that no crash and no rollback, its own or another call's, reissues it.
NumbersDurable == \A n \in given : n <= durable.last_seq_no

\* "Atomically enqueue messages": no failing call, later commit of another
\* thread or crash ever makes one of two messages durable alone.
BatchAtomic == \A p \in pairs : p[1] \in stored <=> p[2] \in stored

\* The message shares a row id with another one: a rollback took the id back.
Reused(n) == \E r, q \in used : r.no = n /\ q.id = r.id /\ q.no # n

\* A message whose enqueue returned stays in the file until it was sent,
\* whatever transactions fail or are left open.  The exception is a reused
\* row id: a sender that still holds the old row acknowledges the new one.
KeptUntilSent ==
  \A n \in accepted : n \in Numbers(durable) \cup delivered \/ Reused(n)

\* A transaction that a failed call left open does not stay for good under a
\* runtime that is started again and goes on: its sender closes it, be the
\* messages sent or not, while the outbox has rows.  The failure itself sets the
\* stop events, and senders that wait end and leave it open; a spooler that
\* meets it first raises, and stops the runtime again.  With an empty outbox
\* nobody closes it: every next_sequence raises until the connection is closed.
OpenIsClosed ==
  <>[]~stopping => []<>(~open \/ view.rows = {})

\* With one spooler, and however many senders replay the outbox at a time, no
\* message is delivered while an older one waits that was never delivered.
\* The exception is the same: acknowledged by the row id of another message, a
\* message leaves the connection's view, its successors are sent, and a
\* rollback brings it back.
NoneOvertakes ==
  \A n \in delivered, m \in Numbers(view) : m < n => m \in delivered \/ Reused(m)
=============================================================================
