------------------------ MODULE KafkaConsumerProofs ------------------------
(***************************************************************************)
(* Theorems about KafkaConsumer, for every topic, batch size and number of *)
(* faults: one row per event id, rows are never changed, and, when an      *)
(* exception of poll_once ends the process, no offset is committed before  *)
(* its record is durable, unless the store skips it for a null.            *)
(***************************************************************************)
EXTENDS KafkaConsumer, TLAPS

\* Where the three offsets of a partition are at each step of poll_once.
OffsetsOK ==
  /\ \A p \in Partitions : /\ committed[p] <= next[p] /\ next[p] <= position[p]
                           /\ position[p] <= Len(log[p])
  /\ pc \in {"idle", "commit"} => next = position
  /\ pc \in {"record", "handle", "dlq"} => next[turn] < position[turn]
  /\ pc = "handle" => attempt < MaxAttempts
  /\ pc = "record" => attempt = 0

\* The record is handled, or is one that the store skips for a null.
Passed(p, o) == Handled(p, o) \/ log[p][o + 1].kind = "incomplete"

\* Everything before the record at hand is passed.
WorkedInOrder ==
  \A p \in Partitions, o \in Nat : o < next[p] => Passed(p, o)

IInv == TypeOK /\ OffsetsOK /\ WorkedInOrder
-----------------------------------------------------------------------------
\* What the store makes of a record.
LEMMA Inserted ==
  ASSUME NEW table, NEW r,
         \A x, y \in table : x.id = y.id => x = y
  PROVE  /\ \A x, y \in InsertOrIgnore(table, r) : x.id = y.id => x = y
         /\ r.kind # "incomplete" =>
              \E row \in InsertOrIgnore(table, r) : row.id = r.id
         /\ table \subseteq InsertOrIgnore(table, r)
         /\ InsertOrIgnore(table, r) \subseteq table \cup {Row(r)}
<1>1. Row(r).id = r.id
  BY DEF Row
<1>2. QED BY <1>1 DEF InsertOrIgnore

\* The rows a connection sees have distinct event ids: the transaction that a
\* failed commit() leaves open is counted too.
THEOREM UniqueSafe == Spec => []EventIdUnique
<1>1. Init => EventIdUnique
  BY DEF Init, EventIdUnique
<1>2. EventIdUnique /\ [Next]_vars => EventIdUnique'
  <2> SUFFICES ASSUME EventIdUnique, [Next]_vars PROVE EventIdUnique'
    OBVIOUS
  <2>1. CASE Insert
    <3>1. rows' \cup open' = InsertOrIgnore(rows \cup open, Record)
      BY <2>1 DEF Insert
    <3>2. QED BY <3>1, Inserted DEF EventIdUnique
  <2>2. CASE InsertFails
    <3>1. rows' = rows /\ open' \in
            {open, {}, InsertOrIgnore(rows \cup open, Record) \ rows}
      BY <2>2 DEF InsertFails
    <3>2. CASE open' \subseteq open
      BY <3>1, <3>2 DEF EventIdUnique
    <3>3. CASE open' = InsertOrIgnore(rows \cup open, Record) \ rows
      <4>1. rows' \cup open' \subseteq InsertOrIgnore(rows \cup open, Record)
        BY <3>1, <3>3, Inserted DEF EventIdUnique
      <4>2. QED BY <4>1, Inserted DEF EventIdUnique
    <3>4. QED BY <3>1, <3>2, <3>3
  <2>3. CASE Crash \/ Restart
    BY <2>3 DEF Crash, Restart, NewClient, EventIdUnique
  <2>4. CASE UNCHANGED store
    BY <2>4 DEF store, EventIdUnique
  <2>5. QED
    BY <2>1, <2>2, <2>3, <2>4
    DEF Next, Work, Finished, vars, Produce, Poll, BuildMetadata, Reject,
        PublishDlq, PublishDlqFails, Commit, CommitFails
<1>3. QED BY <1>1, <1>2, PTL DEF Spec

\* No redelivery and no other payload under the same event id changes a row.
THEOREM RowsSafe == Spec => RowsAreKept
<1>1. [Next]_vars => [rows \subseteq rows']_vars
  <2> SUFFICES ASSUME [Next]_vars PROVE rows \subseteq rows'
    OBVIOUS
  <2>1. CASE Insert
    BY <2>1 DEF Insert, InsertOrIgnore
  <2>2. CASE UNCHANGED rows
    BY <2>2
  <2>3. QED
    BY <2>1, <2>2
    DEF Next, Work, Finished, vars, store, Produce, Poll, BuildMetadata, Reject,
        PublishDlq, PublishDlqFails, Commit, CommitFails, Crash,
        Restart, NewClient, InsertFails
<1>2. QED BY <1>1, PTL DEF Spec, RowsAreKept
-----------------------------------------------------------------------------
(* Types.                                                                  *)

\* The first partition is one.
LEMMA InitTypes == Init => TypeOK
<1> SUFFICES ASSUME Init PROVE TypeOK
  OBVIOUS
<1>1. turn \in Partitions
  BY ConsumerAssumption DEF Init, ConsumerAssumption
<1>2. /\ log \in [Partitions -> Seq(Records)]
      /\ committed \in [Partitions -> Nat]
  BY DEF Init
<1>3. attempt \in 0..MaxAttempts
  BY ConsumerAssumption DEF Init, ConsumerAssumption
<1>4. QED BY <1>1, <1>2, <1>3 DEF Init, TypeOK

LEMMA RecordTypes ==
  ASSUME TypeOK, OffsetsOK, pc \in {"record", "handle", "dlq"}
  PROVE  /\ turn \in Partitions /\ Offset \in Nat
         /\ Offset + 1 \in 1..Len(log[turn])
         /\ Record \in Records
         /\ Record.kind = "valid" => Row(Record) \in Rows
<1>1. /\ turn \in Partitions /\ Offset \in Nat
      /\ log[turn] \in Seq(Records) /\ position[turn] \in Nat
  BY DEF TypeOK, Offset
<1>2. Offset < position[turn] /\ position[turn] <= Len(log[turn])
  BY <1>1 DEF OffsetsOK, Offset
<1>3. Offset + 1 \in 1..Len(log[turn])
  BY <1>1, <1>2
<1>4. Record \in Records
  BY <1>1, <1>3 DEF Record
<1>5. Record.kind = "valid" => Row(Record) \in Rows
  BY <1>4 DEF Records, Rows, Row
<1>6. QED BY <1>1, <1>3, <1>4, <1>5

\* The table a connection sees after an insert: a skipped record adds no row.
LEMMA StoreTypes ==
  ASSUME TypeOK, OffsetsOK, pc = "handle", Accepted
  PROVE  InsertOrIgnore(rows \cup open, Record) \subseteq Rows
<1>1. Record.kind = "valid" => Row(Record) \in Rows
  BY RecordTypes
<1>2. rows \subseteq Rows /\ open \subseteq Rows
  BY DEF TypeOK
<1>3. QED BY <1>1, <1>2 DEF InsertOrIgnore, Accepted

LEMMA AdvanceTypes ==
  ASSUME TypeOK, Advance
  PROVE  /\ next' \in [Partitions -> Nat] /\ position' = position
         /\ turn' \in Partitions /\ attempt' = 0
         /\ next' = [next EXCEPT ![turn] = next[turn] + 1]
         /\ pc' \in {"record", "commit"}
         /\ pc' = "record" => next'[turn'] < position[turn']
         /\ pc' = "commit" => \A p \in Partitions :
                                ~(next'[p] < position[p])
<1>1. next' = [next EXCEPT ![turn] = next[turn] + 1]
      /\ position' = position /\ attempt' = 0
  BY DEF Advance
<1>2. next' \in [Partitions -> Nat]
  BY <1>1 DEF TypeOK
<1>3. turn \in Partitions
  BY DEF TypeOK
<1>4. CASE next'[turn] < position[turn]
  BY <1>1, <1>2, <1>3, <1>4 DEF Advance
<1>5. CASE ~(next'[turn] < position[turn])
  <2> DEFINE others == {p \in Partitions : next'[p] < position[p]}
  <2>1. CASE others = {}
    BY <1>1, <1>2, <1>3, <1>5, <2>1 DEF Advance
  <2>2. CASE others # {}
    <3>1. turn' \in others /\ pc' = "record"
      BY <1>5, <2>2 DEF Advance
    <3>2. QED BY <1>1, <1>2, <3>1
  <2>3. QED BY <2>1, <2>2
<1>6. QED BY <1>4, <1>5

\* A failed attempt leaves the record at hand, and is counted.
LEMMA FailedAttemptTypes ==
  ASSUME TypeOK, FailedAttempt, attempt < MaxAttempts
  PROVE  attempt' \in 0..MaxAttempts /\ pc' \in {"handle", "dlq"}
BY ConsumerAssumption DEF FailedAttempt, TypeOK, ConsumerAssumption

\* A new record is appended behind those the topic has.
LEMMA Produced ==
  ASSUME TypeOK, Produce
  PROVE  /\ log' \in [Partitions -> Seq(Records)]
         /\ \A p \in Partitions :
              /\ Len(log[p]) <= Len(log'[p])
              /\ \A o \in Nat : o < Len(log[p]) =>
                                  log'[p][o + 1] = log[p][o + 1]
<1>1. PICK r \in Records :
        log' = [log EXCEPT ![PartitionOf[r.id]] = Append(@, r)]
  BY DEF Produce
<1>2. log' \in [Partitions -> Seq(Records)]
  <2>1. ASSUME NEW p \in Partitions
        PROVE  Append(log[p], r) \in Seq(Records)
    BY DEF TypeOK
  <2>2. QED BY <1>1, <2>1 DEF TypeOK
<1>3. ASSUME NEW p \in Partitions
      PROVE  /\ Len(log[p]) <= Len(log'[p])
             /\ \A o \in Nat : o < Len(log[p]) =>
                                 log'[p][o + 1] = log[p][o + 1]
  <2>1. log[p] \in Seq(Records)
    BY DEF TypeOK
  <2>2. log'[p] = log[p] \/ log'[p] = Append(log[p], r)
    BY <1>1 DEF TypeOK
  <2>3. QED BY <2>1, <2>2
<1>4. QED BY <1>2, <1>3
\* What poll() returns is in the topic.
LEMMA Fetched ==
  ASSUME TypeOK, NEW new \in Fetches
  PROVE  /\ new \in [Partitions -> Nat]
         /\ \A p \in Partitions : position[p] <= new[p] /\ new[p] <= Len(log[p])
<1>1. /\ new \in [Partitions -> 0..LogMax]
      /\ \A p \in Partitions : position[p] <= new[p] /\ new[p] <= Len(log[p])
  BY DEF Fetches
<1>2. 0..LogMax \subseteq Nat
  BY ConsumerAssumption DEF ConsumerAssumption
<1>3. QED BY <1>1, <1>2

LEMMA TypeStep == TypeOK /\ OffsetsOK /\ [Next]_vars => TypeOK'
<1> SUFFICES ASSUME TypeOK, OffsetsOK, [Next]_vars PROVE TypeOK'
  OBVIOUS
<1>1. CASE Produce
  BY <1>1, Produced DEF Produce, TypeOK, client, store
<1>2. CASE Poll
  <2>1. position' \in [Partitions -> Nat] /\ turn' \in Partitions
    BY <1>2, Fetched DEF Poll
  <2>2. attempt' \in 0..MaxAttempts
    BY <1>2, ConsumerAssumption DEF Poll, ConsumerAssumption
  <2>3. QED BY <1>2, <2>1, <2>2 DEF Poll, TypeOK, broker, store
<1>3. CASE BuildMetadata
  BY <1>3 DEF BuildMetadata, TypeOK, broker, client, store
<1>4. CASE Reject
  <2>1. attempt < MaxAttempts
    BY <1>4 DEF Reject, OffsetsOK
  <2>2. attempt' \in 0..MaxAttempts /\ pc' \in {"handle", "dlq"}
    BY <1>4, <2>1, FailedAttemptTypes DEF Reject
  <2>3. QED
    BY <1>4, <2>2 DEF Reject, FailedAttempt, TypeOK, broker, client, store
<1>5. CASE Insert
  <2>1. InsertOrIgnore(rows \cup open, Record) \subseteq Rows
    BY <1>5, StoreTypes DEF Insert
  <2>2. rows' \subseteq Rows /\ open' \subseteq Rows
    BY <1>5, <2>1 DEF Insert
  <2>3. Advance
    BY <1>5 DEF Insert
  <2>4. attempt' \in 0..MaxAttempts
    BY <2>3, AdvanceTypes, ConsumerAssumption DEF ConsumerAssumption
  <2>5. QED
    BY <1>5, <2>2, <2>3, <2>4, AdvanceTypes DEF Insert, TypeOK, broker
<1>6. CASE InsertFails
  <2>1. InsertOrIgnore(rows \cup open, Record) \subseteq Rows
    BY <1>6, StoreTypes DEF InsertFails
  <2>2. open' \subseteq Rows
    BY <1>6, <2>1 DEF InsertFails, TypeOK
  <2>3. attempt < MaxAttempts
    BY <1>6 DEF InsertFails, OffsetsOK
  <2>4. attempt' \in 0..MaxAttempts /\ pc' \in {"handle", "dlq"}
    BY <1>6, <2>3, FailedAttemptTypes DEF InsertFails
  <2>5. QED
    BY <1>6, <2>2, <2>4
    DEF InsertFails, FailedAttempt, Fault, TypeOK, broker, client
<1>7. CASE PublishDlq
  <2>1. <<turn, Offset>> \in Partitions \X Nat
    BY <1>7, RecordTypes DEF PublishDlq
  <2>2. Advance
    BY <1>7 DEF PublishDlq
  <2>3. attempt' \in 0..MaxAttempts
    BY <2>2, AdvanceTypes, ConsumerAssumption DEF ConsumerAssumption
  <2>4. QED
    BY <1>7, <2>1, <2>2, <2>3, AdvanceTypes
    DEF PublishDlq, TypeOK, broker, store
<1>8. CASE PublishDlqFails
  <2>1. <<turn, Offset>> \in Partitions \X Nat
    BY <1>8, RecordTypes DEF PublishDlqFails
  <2>2. QED
    BY <1>8, <2>1 DEF PublishDlqFails, Fault, TypeOK, broker, client, store
<1>9. CASE Commit \/ CommitFails
  <2>1. /\ committed' \in {committed, position} /\ pc' \in {"idle", "raised"}
        /\ UNCHANGED <<log, client, attempt, store, dlq, crashes>>
        /\ faults' \in {faults, faults + 1}
    BY <1>9 DEF Commit, CommitFails, Fault
  <2>2. faults' \in Nat
    BY <2>1 DEF TypeOK
  <2>3. committed' \in [Partitions -> Nat]
    BY <2>1 DEF TypeOK
  <2>4. QED BY <2>1, <2>2, <2>3 DEF TypeOK, client, store
<1>10. CASE Restart \/ Crash
  <2>1. NewClient
    BY <1>10 DEF Restart, Crash
  <2>2. crashes' \in Nat
    BY <1>10 DEF Restart, Crash, TypeOK
  <2>3. attempt' \in 0..MaxAttempts
    BY <2>1, ConsumerAssumption DEF NewClient, ConsumerAssumption
  <2>4. QED BY <2>1, <2>2, <2>3 DEF NewClient, TypeOK, broker
<1>11. CASE UNCHANGED vars
  BY <1>11 DEF vars, TypeOK, broker, client, store
<1>12. QED
  BY <1>1, <1>2, <1>3, <1>4, <1>5, <1>6, <1>7, <1>8, <1>9, <1>10, <1>11
  DEF Next, Work, Finished
-----------------------------------------------------------------------------
(* Nothing is committed before it is handled.                              *)

\* What is passed stays so: rows and the DLQ only grow, and the topic is
\* appended to.
LEMMA PassedKept ==
  ASSUME NEW p, NEW o, Passed(p, o),
         log'[p][o + 1] = log[p][o + 1], rows \subseteq rows',
         dlq \subseteq dlq'
  PROVE  Passed(p, o)'
BY DEF Passed, Handled

\* poll_once goes on to the next record when the one at hand is passed.
LEMMA WorkedOn ==
  ASSUME IInv, pc \in {"handle", "dlq"}, Advance, UNCHANGED broker,
         rows \subseteq rows', dlq \subseteq dlq',
         \A p, o : p = turn /\ o = Offset => Passed(p, o)'
  PROVE  OffsetsOK' /\ WorkedInOrder'
<1>1. /\ next' = [next EXCEPT ![turn] = next[turn] + 1]
      /\ position' = position /\ attempt' = 0
      /\ pc' \in {"record", "commit"}
      /\ pc' = "record" => next'[turn'] < position[turn']
      /\ pc' = "commit" => \A p \in Partitions : ~(next'[p] < position[p])
      /\ next' \in [Partitions -> Nat] /\ turn' \in Partitions
  BY AdvanceTypes DEF IInv
<1>2. /\ next \in [Partitions -> Nat] /\ position \in [Partitions -> Nat]
      /\ committed \in [Partitions -> Nat] /\ turn \in Partitions
  BY DEF IInv, TypeOK
<1>3. next[turn] < position[turn]
  BY DEF IInv, OffsetsOK
<1>4. \A p \in Partitions : /\ committed'[p] <= next'[p]
                            /\ next'[p] <= position'[p]
                            /\ position'[p] <= Len(log'[p])
  BY <1>1, <1>2, <1>3 DEF IInv, OffsetsOK, broker
<1>5. pc' = "commit" => next' = position'
  <2> SUFFICES ASSUME pc' = "commit" PROVE next' = position'
    OBVIOUS
  <2>1. \A p \in Partitions : next'[p] = position[p]
    BY <1>1, <1>2, <1>4
  <2>2. QED BY <1>1, <1>2, <2>1
<1>6. OffsetsOK'
  BY <1>1, <1>4, <1>5 DEF OffsetsOK
<1>7. WorkedInOrder'
  <2> SUFFICES ASSUME NEW p \in Partitions, NEW o \in Nat, o < next'[p]
               PROVE  Passed(p, o)'
    BY DEF WorkedInOrder
  <2>1. CASE o < next[p]
    BY <2>1, PassedKept DEF IInv, WorkedInOrder, broker
  <2>2. CASE ~(o < next[p])
    <3>1. p = turn /\ o = Offset
      BY <1>1, <1>2, <2>2 DEF Offset
    <3>2. QED BY <3>1
  <2>3. QED BY <2>1, <2>2
<1>8. QED BY <1>6, <1>7

\* Nothing is worked on by the other steps: a new client, a commit and a
\* fetch move the offsets between the committed and the known ones.
LEMMA Step ==
  IInv /\ [Next]_vars => OffsetsOK' /\ WorkedInOrder'
<1> SUFFICES ASSUME IInv, [Next]_vars
             PROVE  OffsetsOK' /\ WorkedInOrder'
  OBVIOUS
<1>0. /\ committed \in [Partitions -> Nat] /\ position \in [Partitions -> Nat]
      /\ next \in [Partitions -> Nat] /\ turn \in Partitions
      /\ \A p \in Partitions : Len(log[p]) \in Nat
  BY DEF IInv, TypeOK
<1>a. \A p \in Partitions : /\ committed[p] <= next[p] /\ next[p] <= position[p]
                            /\ position[p] <= Len(log[p])
  BY DEF IInv, OffsetsOK
<1>b. ASSUME \A p \in Partitions : next'[p] \in Nat /\ next'[p] <= next[p],
             UNCHANGED log, rows \subseteq rows', dlq \subseteq dlq'
      PROVE  WorkedInOrder'
  <2> SUFFICES ASSUME NEW p \in Partitions, NEW o \in Nat, o < next'[p]
               PROVE  Passed(p, o)'
    BY DEF WorkedInOrder
  <2>1. o < next[p]
    BY <1>b, <1>0
  <2>2. QED BY <1>b, <2>1, PassedKept DEF IInv, WorkedInOrder
<1>1. CASE Produce
  <2>1. UNCHANGED <<committed, client, pc, attempt, store, dlq>>
    BY <1>1 DEF Produce
  <2>2. \A p \in Partitions :
          /\ Len(log'[p]) \in Nat /\ Len(log[p]) <= Len(log'[p])
          /\ \A o \in Nat : o < Len(log[p]) => log'[p][o + 1] = log[p][o + 1]
    BY <1>1, Produced DEF IInv
  <2>3. OffsetsOK'
    BY <2>1, <2>2, <1>0, <1>a DEF IInv, OffsetsOK, client
  <2>4. WorkedInOrder'
    <3> SUFFICES ASSUME NEW p \in Partitions, NEW o \in Nat, o < next'[p]
                 PROVE  Passed(p, o)'
      BY DEF WorkedInOrder
    <3>1. o < next[p] /\ o < Len(log[p])
      BY <2>1, <1>0, <1>a DEF client
    <3>2. QED
      BY <2>1, <2>2, <3>1, PassedKept DEF IInv, WorkedInOrder, store
  <2>5. QED BY <2>3, <2>4
<1>2. CASE Poll
  <2>1. /\ next' = position /\ next = position /\ pc' = "record"
        /\ attempt' = 0 /\ UNCHANGED <<log, committed, rows, dlq>>
    BY <1>2 DEF Poll, IInv, OffsetsOK, broker, store
  <2>2. position' \in [Partitions -> Nat] /\ turn' \in Partitions
    BY <1>2, Fetched DEF Poll, IInv
  <2>3. /\ \A p \in Partitions : /\ position[p] <= position'[p]
                                /\ position'[p] <= Len(log[p])
        /\ position[turn'] < position'[turn']
    BY <1>2, Fetched DEF Poll, IInv
  <2>4. OffsetsOK'
    BY <2>1, <2>2, <2>3, <1>0, <1>a DEF OffsetsOK
  <2>5. WorkedInOrder'
    BY <2>1, <1>0, <1>b
  <2>6. QED BY <2>4, <2>5
<1>3. CASE BuildMetadata
  <2>1. /\ pc' \in {"raised", "handle"} /\ pc = "record"
        /\ UNCHANGED <<log, committed, client, attempt, rows, dlq>>
    BY <1>3 DEF BuildMetadata, broker, store
  <2>2. 0 < MaxAttempts
    BY ConsumerAssumption DEF ConsumerAssumption
  <2>3. OffsetsOK'
    BY <2>1, <2>2 DEF IInv, OffsetsOK, client
  <2>4. QED BY <2>1, <2>3, <1>0, <1>b DEF client
<1>4. CASE Reject \/ InsertFails
  <2>1. /\ UNCHANGED <<log, committed, client, rows, dlq>>
        /\ pc = "handle" /\ FailedAttempt
    BY <1>4 DEF Reject, InsertFails, FailedAttempt, broker, store
  <2>2. pc' \in {"handle", "dlq"} /\ (pc' = "handle" => attempt' < MaxAttempts)
    BY <2>1 DEF FailedAttempt
  <2>3. OffsetsOK'
    BY <2>1, <2>2 DEF IInv, OffsetsOK, client
  <2>4. QED BY <2>1, <2>3, <1>0, <1>b DEF client
<1>5. CASE Insert
  <2>1. /\ pc = "handle" /\ Advance /\ UNCHANGED broker /\ dlq' = dlq
        /\ Record.kind \in {"valid", "incomplete"}
        /\ rows' = InsertOrIgnore(rows \cup open, Record)
    BY <1>5 DEF Insert, Accepted
  <2>2. /\ rows \subseteq rows'
        /\ Record.kind = "valid" => \E row \in rows' : row.id = Record.id
    <3>1. Row(Record).id = Record.id
      BY DEF Row
    <3>2. CASE \E row \in rows \cup open : row.id = Record.id
      BY <2>1, <3>2 DEF InsertOrIgnore
    <3>3. CASE ~\E row \in rows \cup open : row.id = Record.id
      BY <2>1, <3>1, <3>3 DEF InsertOrIgnore
    <3>4. QED BY <3>2, <3>3
  <2>3. \A p, o : p = turn /\ o = Offset => Passed(p, o)'
    BY <2>1, <2>2 DEF Passed, Handled, Record, broker
  <2>4. QED BY <2>1, <2>2, <2>3, WorkedOn
<1>6. CASE PublishDlq
  <2>1. /\ pc = "dlq" /\ Advance /\ UNCHANGED <<broker, rows>>
        /\ dlq' = dlq \cup {<<turn, Offset>>}
    BY <1>6 DEF PublishDlq, store
  <2>2. \A p, o : p = turn /\ o = Offset => Passed(p, o)'
    BY <2>1 DEF Passed, Handled
  <2>3. QED BY <2>1, <2>2, WorkedOn
<1>7. CASE PublishDlqFails
  <2>1. /\ UNCHANGED <<log, committed, client, attempt, rows>>
        /\ dlq \subseteq dlq' /\ pc' = "raised"
    BY <1>7 DEF PublishDlqFails, broker, store
  <2>2. OffsetsOK'
    BY <2>1 DEF IInv, OffsetsOK, client
  <2>3. QED BY <2>1, <2>2, <1>0, <1>b DEF client
<1>8. CASE Commit \/ CommitFails
  <2>1. /\ UNCHANGED <<log, client, attempt, rows, dlq>>
        /\ pc' \in {"idle", "raised"} /\ committed' \in {committed, position}
    BY <1>8 DEF Commit, CommitFails, store
  <2>2. next = position
    BY <1>8 DEF Commit, CommitFails, IInv, OffsetsOK
  <2>3. OffsetsOK'
    <3>1. \A p \in Partitions : /\ committed'[p] <= next[p]
                                /\ next[p] <= position[p]
                                /\ position[p] <= Len(log[p])
      BY <2>1, <2>2, <1>0, <1>a
    <3>2. QED BY <2>1, <2>2, <3>1 DEF OffsetsOK, client
  <2>4. QED BY <2>1, <2>3, <1>0, <1>b DEF client
<1>9. CASE Restart \/ Crash
  <2>1. /\ position' = committed /\ next' = committed /\ pc' = "idle"
        /\ attempt' = 0 /\ UNCHANGED <<log, committed, rows, dlq>>
    BY <1>9 DEF Restart, Crash, NewClient, broker
  <2>2. OffsetsOK'
    BY <2>1, <1>0, <1>a DEF OffsetsOK
  <2>3. QED BY <2>1, <2>2, <1>0, <1>a, <1>b
<1>10. CASE UNCHANGED vars
  <2>1. UNCHANGED <<log, committed, client, pc, attempt, rows, dlq>>
    BY <1>10 DEF vars, broker, store
  <2>2. OffsetsOK'
    BY <2>1 DEF IInv, OffsetsOK, client
  <2>3. QED BY <2>1, <2>2, <1>0, <1>b DEF client
<1>11. QED
  BY <1>1, <1>2, <1>3, <1>4, <1>5, <1>6, <1>7, <1>8, <1>9, <1>10
  DEF Next, Work, Finished

LEMMA Invariant == Spec => []IInv
<1>1. Init => IInv
  <2> SUFFICES ASSUME Init PROVE IInv
    OBVIOUS
  <2>1. OffsetsOK
    BY DEF Init, OffsetsOK
  <2>2. WorkedInOrder
    BY DEF Init, WorkedInOrder
  <2>3. QED BY <2>1, <2>2, InitTypes DEF IInv
<1>2. IInv /\ [Next]_vars => IInv'
  BY Step, TypeStep DEF IInv
<1>3. QED BY <1>1, <1>2, PTL DEF Spec

\* Type correctness.
THEOREM ConsumerTypes == Spec => []TypeOK
BY Invariant, PTL DEF IInv

\* What is committed is durable in the store or in the DLQ, or is a record the
\* store skips for a null, for every number of failing calls and crashes, when
\* an exception of poll_once ends the process (under ResumingSpec it is not so).
THEOREM CommittedSafe == Spec => []CommittedIsHandled
<1>1. IInv => CommittedIsHandled
  <2> SUFFICES ASSUME IInv, NEW p \in Partitions, NEW o \in 0..LogMax,
                      o < committed[p]
               PROVE  Passed(p, o)
    BY DEF CommittedIsHandled, Passed
  <2>1. o \in Nat
    BY ConsumerAssumption DEF ConsumerAssumption
  <2>2. o < next[p]
    BY <2>1 DEF IInv, TypeOK, OffsetsOK
  <2>3. QED BY <2>1, <2>2 DEF IInv, WorkedInOrder
<1>2. QED BY <1>1, Invariant, PTL
=============================================================================
