--------------------------- MODULE LocalFlowProofs ---------------------------
(***************************************************************************)
(* Theorems about LocalFlow, for any topics, limits, failing calls and     *)
(* ends of the process: an offset that consume() returned covers nothing   *)
(* that is not stored, but for what the table skips for a null; a row is   *)
(* counted as stored at most once, and the counts of a summary lie between *)
(* what was and what is stored.                                            *)
(***************************************************************************)
EXTENDS LocalFlow, SequenceTheorems, FiniteSetTheorems, TLAPS

USE DEF call, db, api, bounds, Types, Tables

Messages == Telemetry \cup Events
Topic == topics["telemetry"]
Stored == ToSet(rows["telemetry"])

\* What consume() may leave behind: stored, or skipped for a null.
Passed == Stored \cup Incomplete

Shape ==
  /\ topics \in [Types -> Seq(Messages)]
  /\ rows \in [Tables -> Seq(Messages)]
  /\ tx \in [open : BOOLEAN, rows : Seq(Messages)]
  /\ batch \in Seq(Messages) /\ next \in Nat /\ saved \in Nat
  /\ pc \in {"idle", "insert", "commit"}

\* What consume() has yet to work on is what the topic holds from next on, and
\* what is before is passed; the message under work is where commit() finds it.
CallOK ==
  pc # "idle" =>
    /\ next + Len(batch) <= Len(Topic)
    /\ \A i \in 1..Len(batch) : batch[i] = Topic[next + i]
    /\ \A i \in 1..next : Topic[i] \in Passed
    /\ pc = "commit" => batch # <<>> /\ Head(batch) \in Passed \cup ToSet(tx.rows)

IInv == Shape /\ saved <= Len(Topic) /\ OffsetCoversStored /\ CallOK
-----------------------------------------------------------------------------
LEMMA ToSetAppend ==
  ASSUME NEW S, NEW s \in Seq(S), NEW e \in S
  PROVE  ToSet(Append(s, e)) = ToSet(s) \cup {e} /\ Append(s, e) \in Seq(S)
<1>1. /\ Append(s, e) \in Seq(S) /\ Len(Append(s, e)) = Len(s) + 1
      /\ \A i \in 1..Len(s) : Append(s, e)[i] = s[i]
      /\ Append(s, e)[Len(s) + 1] = e
      /\ Len(s) \in Nat
  BY AppendProperties
<1>2. DOMAIN s = 1..Len(s) /\ DOMAIN Append(s, e) = 1..(Len(s) + 1)
  BY <1>1
<1>3. ToSet(Append(s, e)) = {Append(s, e)[i] : i \in 1..(Len(s) + 1)}
  BY <1>2 DEF ToSet
<1>4. ToSet(s) = {s[i] : i \in 1..Len(s)}
  BY <1>2 DEF ToSet
<1>5. QED BY <1>1, <1>3, <1>4

LEMMA ToSetConcat ==
  ASSUME NEW S, NEW s \in Seq(S), NEW t \in Seq(S)
  PROVE  ToSet(s \o t) = ToSet(s) \cup ToSet(t) /\ s \o t \in Seq(S)
<1>1. /\ s \o t \in Seq(S) /\ Len(s \o t) = Len(s) + Len(t)
      /\ Len(s) \in Nat /\ Len(t) \in Nat
      /\ \A i \in 1..Len(s) : (s \o t)[i] = s[i]
      /\ \A i \in 1..Len(t) : (s \o t)[Len(s) + i] = t[i]
  BY ConcatProperties
<1>2. /\ ToSet(s) = {s[i] : i \in 1..Len(s)} /\ ToSet(t) = {t[i] : i \in 1..Len(t)}
      /\ ToSet(s \o t) = {(s \o t)[i] : i \in 1..(Len(s) + Len(t))}
  BY <1>1 DEF ToSet
<1>3. ASSUME NEW i \in 1..(Len(s) + Len(t))
      PROVE  i \in 1..Len(s) \/ \E j \in 1..Len(t) : i = Len(s) + j
  <2>1. CASE i <= Len(s)
    BY <1>1, <2>1
  <2>2. CASE i > Len(s)
    <3>1. i - Len(s) \in 1..Len(t) /\ i = Len(s) + (i - Len(s))
      BY <1>1, <2>2
    <3>2. QED BY <3>1
  <2>3. QED BY <1>1, <2>1, <2>2
<1>4. ToSet(s \o t) \subseteq ToSet(s) \cup ToSet(t)
  BY <1>1, <1>2, <1>3
<1>5. ToSet(s) \subseteq ToSet(s \o t)
  <2>1. \A i \in 1..Len(s) : i \in 1..(Len(s) + Len(t))
    BY <1>1
  <2>2. QED BY <1>1, <1>2, <2>1
<1>6. ToSet(t) \subseteq ToSet(s \o t)
  <2>1. \A i \in 1..Len(t) : Len(s) + i \in 1..(Len(s) + Len(t))
    BY <1>1
  <2>2. QED BY <1>1, <1>2, <2>1
<1>7. QED BY <1>1, <1>4, <1>5, <1>6

LEMMA IInvInit == Init => IInv
<1> SUFFICES ASSUME Init PROVE IInv
  OBVIOUS
<1>1. <<>> \in Seq(Messages) /\ Len(<<>>) = 0
  OBVIOUS
<1>2. topics \in [Types -> Seq(Messages)] /\ Topic = <<>>
  BY <1>1 DEF Init, Topic
<1>3. rows \in [Tables -> Seq(Messages)] /\ tx \in [open : BOOLEAN, rows : Seq(Messages)]
  BY <1>1 DEF Init, NoTx
<1>4. QED BY <1>1, <1>2, <1>3 DEF Init, IInv, Shape, CallOK, OffsetCoversStored

\* The topic only grows.
LEMMA AppendStep ==
  ASSUME IInv, NEW topic \in Types, NEW m \in Messages,
         AppendTo(topic, m)
  PROVE  IInv'
<1>1. /\ topics' = [topics EXCEPT ![topic] = Append(topics[topic], m)]
      /\ UNCHANGED <<rows, tx, batch, next, saved, pc>>
  BY DEF AppendTo
<1>2. topics \in [Types -> Seq(Messages)] /\ Topic \in Seq(Messages)
      /\ topics[topic] \in Seq(Messages)
  BY DEF IInv, Shape, Topic
<1>3. Append(topics[topic], m) \in Seq(Messages)
  BY <1>2, AppendProperties
<1>4. Shape'
  BY <1>1, <1>2, <1>3 DEF IInv, Shape
<1>5. Topic' = Topic \/ Topic' = Append(Topic, m)
  BY <1>1, <1>2 DEF Topic
<1>6. /\ Len(Topic) \in Nat /\ Len(Topic') >= Len(Topic)
      /\ \A i \in 1..Len(Topic) : Topic'[i] = Topic[i]
  BY <1>2, <1>5, AppendProperties
<1>7. saved' <= Len(Topic')
  BY <1>1, <1>2, <1>6, Len(Topic') \in Nat DEF IInv, Shape
<1>8. OffsetCoversStored'
  <2>1. ASSUME NEW i \in 1..saved
        PROVE  i \in 1..Len(Topic) /\ Topic[i] \in Passed
    BY <1>6 DEF IInv, Shape, OffsetCoversStored, Topic, Stored, Passed
  <2>2. QED BY <1>1, <1>6, <2>1 DEF OffsetCoversStored, Topic, Stored, Passed
<1>9. CallOK'
  <2>1. SUFFICES ASSUME pc # "idle" PROVE CallOK'
    BY <1>1 DEF CallOK
  <2>2. /\ next \in Nat /\ Len(batch) \in Nat /\ next + Len(batch) <= Len(Topic)
        /\ \A i \in 1..Len(batch) : batch[i] = Topic[next + i]
        /\ \A i \in 1..next : Topic[i] \in Passed
    BY <2>1 DEF IInv, Shape, CallOK
  <2>3. next + Len(batch) <= Len(Topic')
    BY <1>6, <2>2, Len(Topic') \in Nat
  <2>4. \A i \in 1..Len(batch) : next + i \in 1..Len(Topic)
    BY <1>6, <2>2
  <2>5. \A i \in 1..next : i \in 1..Len(Topic)
    BY <1>6, <2>2
  <2>6. Passed' = Passed
    BY <1>1 DEF Stored, Passed
  <2>7. QED BY <1>1, <1>6, <2>2, <2>3, <2>4, <2>5, <2>6 DEF IInv, CallOK
<1>10. QED BY <1>4, <1>7, <1>8, <1>9 DEF IInv

\* What is not the business of the consumer.
LEMMA KeepStep ==
  ASSUME IInv, Shape', UNCHANGED <<topics, saved, pc, batch, next>>,
         Stored \subseteq Stored', pc = "idle" \/ tx' = tx
  PROVE  IInv'
<1>1. Topic' = Topic
  BY DEF Topic
<1>2. OffsetCoversStored'
  BY DEF IInv, OffsetCoversStored, Stored
<1>3. CallOK'
  BY <1>1 DEF IInv, CallOK, Passed
<1>4. QED BY <1>1, <1>2, <1>3 DEF IInv

\* consume() raises.
LEMMA RaiseStep ==
  ASSUME IInv, Raise, tx' \in {tx, Open(tx.rows), NoTx}
  PROVE  IInv'
<1>1. UNCHANGED <<topics, saved, rows>> /\ pc' = "idle" /\ batch' = <<>> /\ next' = 0
  BY DEF Raise
<1>2. NoTx \in [open : BOOLEAN, rows : Seq(Messages)] /\ <<>> \in Seq(Messages)
  <2>1. <<>> \in Seq(Messages)
    OBVIOUS
  <2>2. QED BY <2>1 DEF NoTx
<1>3. Shape'
  <2>1. tx' \in [open : BOOLEAN, rows : Seq(Messages)]
    <3>1. tx.rows \in Seq(Messages)
      BY DEF IInv, Shape
    <3>2. Open(tx.rows) \in [open : BOOLEAN, rows : Seq(Messages)]
      BY <3>1 DEF Open
    <3>3. QED BY <1>2, <3>2 DEF IInv, Shape
  <2>2. QED BY <1>1, <1>2, <2>1 DEF IInv, Shape
<1>4. QED BY <1>1, <1>3 DEF IInv, OffsetCoversStored, CallOK, Topic

LEMMA ConsumeStep ==
  ASSUME IInv, NEW offset \in {0, saved}, NEW limit \in Limits, Consume(offset, limit)
  PROVE  IInv'
<1> DEFINE n == Min({offset + limit, Len(Topic)})
<1>1. /\ UNCHANGED <<topics, saved, rows, tx>>
      /\ pc' = "insert" /\ next' = offset /\ offset < Len(Topic)
      /\ batch' = SubSeq(Topic, offset + 1, n)
  BY DEF Consume, Topic
<1>2. /\ Topic \in Seq(Messages) /\ Len(Topic) \in Nat /\ offset \in Nat
      /\ limit \in Nat /\ limit > 0
  BY LocalFlowAssumption DEF IInv, Shape, Topic
<1>3. n \in {offset + limit, Len(Topic)} /\ n <= offset + limit /\ n <= Len(Topic)
  <2>1. \E x \in {offset + limit, Len(Topic)} :
          \A y \in {offset + limit, Len(Topic)} : x <= y
    BY <1>2
  <2>2. QED BY <1>2, <2>1 DEF Min
<1> HIDE DEF n
<1>4. n \in Nat /\ n > offset
  BY <1>1, <1>2, <1>3
<1>5. /\ batch' \in Seq(Messages) /\ Len(batch') = n - offset
      /\ \A i \in 1..(n - offset) : batch'[i] = Topic[offset + i]
  <2>1. \A i \in (offset + 1)..n : i \in 1..Len(Topic)
    BY <1>2, <1>3, <1>4
  <2>2. \A i \in 1..Len(Topic) : Topic[i] \in Messages
    BY <1>2, ElementOfSeq
  <2>3. /\ batch' \in Seq(Messages)
        /\ Len(batch') = n - (offset + 1) + 1
        /\ \A i \in 1..(n - (offset + 1) + 1) : batch'[i] = Topic[offset + 1 + i - 1]
    BY <1>1, <1>2, <1>4, <2>1, <2>2, SubSeqProperties
  <2>4. n - (offset + 1) + 1 = n - offset /\ \A i \in Nat : offset + 1 + i - 1 = offset + i
    BY <1>2, <1>4
  <2>5. QED BY <2>3, <2>4
<1>6. Topic' = Topic /\ Passed' = Passed
  BY <1>1 DEF Topic, Stored, Passed
<1>7. Shape'
  BY <1>1, <1>2, <1>5 DEF IInv, Shape
<1>8. \A i \in 1..offset : Topic[i] \in Passed
  BY <1>2 DEF IInv, Shape, OffsetCoversStored, Topic, Stored, Passed
<1>9. CallOK'
  BY <1>1, <1>2, <1>3, <1>4, <1>5, <1>6, <1>8 DEF CallOK
<1>10. QED BY <1>1, <1>6, <1>7, <1>9 DEF IInv, OffsetCoversStored

LEMMA InsertStep ==
  ASSUME IInv, Insert
  PROVE  IInv'
<1> DEFINE m == Head(batch)
<1>1. /\ UNCHANGED <<topics, saved, rows, batch, next>>
      /\ pc = "insert" /\ pc' = "commit" /\ batch # <<>> /\ Acceptable(m)
      /\ tx' = Open(IF Skipped(m) THEN tx.rows ELSE Append(tx.rows, m))
  BY DEF Insert
<1>2. m \in Messages /\ tx.rows \in Seq(Messages)
  BY <1>1 DEF Acceptable, Messages, IInv, Shape
<1> HIDE DEF m
<1>3. tx' \in [open : BOOLEAN, rows : Seq(Messages)] /\ m \in Passed \cup ToSet(tx'.rows)
  <2>1. CASE Skipped(m)
    <3>1. tx' = Open(tx.rows) /\ tx'.rows = tx.rows
      BY <1>1, <2>1 DEF Open
    <3>2. QED BY <1>2, <2>1, <3>1 DEF Skipped, Known, Stored, Passed, Open
  <2>2. CASE ~Skipped(m)
    <3>1. tx' = Open(Append(tx.rows, m)) /\ tx'.rows = Append(tx.rows, m)
      BY <1>1, <2>2 DEF Open
    <3>2. Append(tx.rows, m) \in Seq(Messages) /\ m \in ToSet(Append(tx.rows, m))
      BY <1>2, ToSetAppend
    <3>3. QED BY <3>1, <3>2 DEF Open
  <2>3. QED BY <2>1, <2>2
<1>4. Shape'
  BY <1>1, <1>3 DEF IInv, Shape
<1>5. Topic' = Topic /\ Stored' = Stored /\ Passed' = Passed
  BY <1>1 DEF Topic, Stored, Passed
<1>6. CallOK'
  BY <1>1, <1>3, <1>5 DEF IInv, CallOK, m
<1>7. QED BY <1>1, <1>4, <1>5, <1>6 DEF IInv, OffsetCoversStored

LEMMA CommitStep ==
  ASSUME IInv, Commit
  PROVE  IInv'
<1>1. /\ UNCHANGED <<topics, saved>> /\ pc = "commit" /\ pc' = "insert"
      /\ next' = next + 1 /\ batch' = Tail(batch) /\ tx' = NoTx
      /\ rows' = [rows EXCEPT !["telemetry"] = rows["telemetry"] \o tx.rows]
  BY DEF Commit, Advance
<1>2. /\ rows["telemetry"] \in Seq(Messages) /\ tx.rows \in Seq(Messages)
      /\ batch \in Seq(Messages) /\ batch # <<>> /\ next \in Nat
      /\ next + Len(batch) <= Len(Topic)
      /\ \A i \in 1..Len(batch) : batch[i] = Topic[next + i]
      /\ \A i \in 1..next : Topic[i] \in Passed
      /\ Head(batch) \in Passed \cup ToSet(tx.rows)
      /\ Topic \in Seq(Messages)
  BY <1>1 DEF IInv, Shape, CallOK, Topic
<1>3. /\ Stored' = Stored \cup ToSet(tx.rows)
      /\ Passed' = Passed \cup ToSet(tx.rows)
      /\ rows["telemetry"] \o tx.rows \in Seq(Messages)
      /\ rows' \in [Tables -> Seq(Messages)]
  <2>1. /\ ToSet(rows["telemetry"] \o tx.rows) = Stored \cup ToSet(tx.rows)
        /\ rows["telemetry"] \o tx.rows \in Seq(Messages)
    BY <1>2, ToSetConcat DEF Stored
  <2>2. rows'["telemetry"] = rows["telemetry"] \o tx.rows
    BY <1>1 DEF IInv, Shape
  <2>3. QED BY <1>1, <2>1, <2>2 DEF IInv, Shape, Stored, Passed
<1>4. /\ Tail(batch) \in Seq(Messages) /\ Len(Tail(batch)) = Len(batch) - 1
      /\ \A i \in 1..Len(Tail(batch)) : Tail(batch)[i] = batch[i + 1]
      /\ Head(batch) = batch[1] /\ Len(batch) \in Nat \ {0}
  BY <1>2, HeadTailProperties, EmptySeq
<1>5. Topic' = Topic /\ Len(Topic) \in Nat
  BY <1>1, <1>2 DEF Topic
<1>6. Shape'
  <2>1. NoTx \in [open : BOOLEAN, rows : Seq(Messages)]
    <3>1. <<>> \in Seq(Messages)
      OBVIOUS
    <3>2. QED BY <3>1 DEF NoTx
  <2>2. QED BY <1>1, <1>2, <1>3, <1>4, <2>1 DEF IInv, Shape
<1>7. CallOK'
  <2>1. Topic[next + 1] \in Passed'
    BY <1>2, <1>3, <1>4
  <2>2. \A i \in 1..(next + 1) : Topic[i] \in Passed'
    BY <1>2, <1>3, <2>1
  <2>3. next + 1 + Len(Tail(batch)) <= Len(Topic)
    BY <1>2, <1>4, <1>5
  <2>4. ASSUME NEW i \in 1..Len(Tail(batch))
        PROVE  Tail(batch)[i] = Topic[next + 1 + i]
    <3>1. i + 1 \in 1..Len(batch) /\ next + (i + 1) = next + 1 + i
      BY <1>2, <1>4
    <3>2. QED BY <1>2, <1>4, <3>1
  <2>5. QED BY <1>1, <1>5, <2>2, <2>3, <2>4 DEF CallOK
<1>8. OffsetCoversStored'
  BY <1>1, <1>3, <1>5 DEF IInv, OffsetCoversStored, Stored
<1>9. QED BY <1>1, <1>5, <1>6, <1>7, <1>8 DEF IInv

LEMMA ReturnStep ==
  ASSUME IInv, Return
  PROVE  IInv'
<1>1. /\ UNCHANGED <<topics, rows, tx, batch>> /\ pc = "insert" /\ batch = <<>>
      /\ pc' = "idle" /\ saved' = next /\ next' = 0
  BY DEF Return
<1>2. Shape'
  BY <1>1 DEF IInv, Shape
<1>3. /\ next \in Nat /\ next + Len(batch) <= Len(Topic) /\ Len(batch) = 0
      /\ \A i \in 1..next : Topic[i] \in Passed
  BY <1>1 DEF IInv, Shape, CallOK
<1>4. Topic' = Topic /\ Len(Topic) \in Nat
  BY <1>1 DEF Topic, IInv, Shape
<1>5. QED
  BY <1>1, <1>2, <1>3, <1>4
  DEF IInv, OffsetCoversStored, CallOK, Topic, Stored, Passed

LEMMA CrashStep ==
  ASSUME IInv, Crash
  PROVE  IInv'
<1>1. <<>> \in Seq(Messages) /\ Len(<<>>) = 0
  OBVIOUS
<1>2. topics' \in [Types -> Seq(Messages)] /\ Topic' = <<>>
  BY <1>1 DEF Crash, Topic
<1>3. tx' \in [open : BOOLEAN, rows : Seq(Messages)]
  BY <1>1 DEF Crash, NoTx
<1>4. QED BY <1>1, <1>2, <1>3 DEF Crash, IInv, Shape, CallOK, OffsetCoversStored

LEMMA IInvNext == IInv /\ [Next]_vars => IInv'
<1> SUFFICES ASSUME IInv, [Next]_vars PROVE IInv'
  OBVIOUS
<1>1. CASE \E m \in Telemetry \cup Events : Publish(m)
  <2>1. PICK m \in Telemetry \cup Events : AppendTo(message_type(m), m)
    BY <1>1 DEF Publish
  <2>2. message_type(m) \in Types /\ m \in Messages
    BY DEF message_type, Messages
  <2>3. QED BY <2>1, <2>2, AppendStep
<1>2. CASE \E m \in Damaged : PublishToTopic(m)
  <2>1. PICK m \in Damaged : AppendTo("telemetry", m)
    BY <1>2 DEF PublishToTopic
  <2>2. m \in Messages
    BY LocalFlowAssumption DEF Messages
  <2>3. QED BY <2>1, <2>2, AppendStep
<1>3. CASE Connect \/ CreateTable \/ Queries \/ UNCHANGED vars
  <2>1. UNCHANGED <<topics, saved, pc, batch, next, tx, rows>>
    BY <1>3 DEF Connect, CreateTable, Queries, StartService, CloseService, List,
       CountTelemetry, CountAlerts, vars
  <2>2. Shape' /\ Stored' = Stored
    BY <2>1 DEF IInv, Shape, Stored
  <2>3. QED BY <2>1, <2>2, KeepStep
<1>4. CASE \E offset \in {0, saved}, limit \in Limits : Consume(offset, limit)
  BY <1>4, ConsumeStep
<1>5. CASE Refuse \/ InsertRaises \/ CommitRaises
  <2>1. Raise /\ tx' \in {tx, Open(tx.rows), NoTx}
    BY <1>5 DEF Refuse, InsertRaises, CommitRaises
  <2>2. QED BY <2>1, RaiseStep
<1>6. CASE Close
  <2>1. UNCHANGED <<topics, saved, pc, batch, next, rows>> /\ pc = "idle" /\ tx' = NoTx
    BY <1>6 DEF Close
  <2>2. NoTx \in [open : BOOLEAN, rows : Seq(Messages)]
    <3>1. <<>> \in Seq(Messages)
      OBVIOUS
    <3>2. QED BY <3>1 DEF NoTx
  <2>3. Shape' /\ Stored' = Stored
    BY <2>1, <2>2 DEF IInv, Shape, Stored
  <2>4. QED BY <2>1, <2>3, KeepStep
<1>7. CASE \E e \in Events : StoreAlert(e)
  <2>1. PICK e \in Events : StoreAlert(e)
    BY <1>7
  <2>2. /\ UNCHANGED <<topics, saved, pc, batch, next, tx>>
        /\ rows' = [rows EXCEPT !["alerts"] = Append(rows["alerts"], e)]
    BY <2>1 DEF StoreAlert
  <2>3. rows["alerts"] \in Seq(Messages) /\ e \in Messages
    BY DEF IInv, Shape, Messages
  <2>4. Append(rows["alerts"], e) \in Seq(Messages)
    BY <2>3, AppendProperties
  <2>5. rows' \in [Tables -> Seq(Messages)] /\ rows'["telemetry"] = rows["telemetry"]
    BY <2>2, <2>4 DEF IInv, Shape
  <2>6. Shape' /\ Stored' = Stored
    BY <2>2, <2>5 DEF IInv, Shape, Stored
  <2>7. QED BY <2>2, <2>6, KeepStep
<1>8. QED
  BY <1>1, <1>2, <1>3, <1>4, <1>5, <1>6, <1>7, InsertStep, CommitStep, ReturnStep,
     CrashStep DEF Next, Flow
-----------------------------------------------------------------------------
\* The offset a caller has from consume() covers only messages with a committed
\* row, and those the table skips for a null: no failing call and no end of the
\* process loses another one.
THEOREM OffsetSafe == Spec => []OffsetCoversStored
<1>1. IInv => OffsetCoversStored
  BY DEF IInv
<1>2. QED BY <1>1, IInvInit, IInvNext, PTL DEF Spec
-----------------------------------------------------------------------------
(* The store, its file and what is counted.                                *)

\* What calls, store and file have to do with each other.
StoreOK ==
  /\ store \in {"none", "connected", "ready"} /\ file \in BOOLEAN /\ tables \subseteq Tables
  /\ pc # "idle" => store = "ready"
  /\ store = "ready" => "telemetry" \in tables
  /\ store # "none" \/ tables # {} => file
  /\ \A t \in Tables : rows[t] # <<>> => t \in tables

\* The consumer works in what the topics hold, and only on what it accepts; a
\* transaction is open when a commit is due, and otherwise after a fault.
WorkOK ==
  /\ Len(topics["telemetry"]) + Len(topics["event"]) <= MaxPublished
  /\ pc = "idle" => next = 0
  /\ inserted \in BOOLEAN /\ fresh \subseteq Telemetry /\ faults \in Nat
  /\ tx.rows \in Seq(Telemetry) /\ rows["telemetry"] \in Seq(Telemetry)
  /\ pc = "commit" => tx.open /\ Head(batch) \in Telemetry
  /\ tx.open /\ pc # "commit" => faults > 0

ServiceOK == service \in {"none", "memory", "file"} /\ page \in Seq(Telemetry)

Injective(s) == \A i, j \in 1..Len(s) : s[i] = s[j] => i = j

\* Committed rows and those of the transaction are of different messages; what
\* was counted is committed, and what a call is about to count was not counted
\* before.
CountOK ==
  /\ Injective(rows["telemetry"]) /\ Injective(tx.rows)
  /\ Stored \cap ToSet(tx.rows) = {}
  /\ counted \in [Telemetry -> {0, 1}]
  /\ \A m \in Telemetry : counted[m] = 1 => m \in Stored
  /\ \A m \in fresh : m \in Stored /\ counted[m] = 0
  /\ inserted => pc = "commit" /\ Head(batch) \in ToSet(tx.rows)

FInv == StoreOK /\ WorkOK /\ ServiceOK /\ CountOK

LEMMA FInvInit == Init => FInv
<1> SUFFICES ASSUME Init PROVE FInv
  OBVIOUS
<1>1. <<>> \in Seq(Telemetry) /\ Len(<<>>) = 0 /\ ToSet(<<>>) = {} /\ MaxPublished \in Nat
  BY LocalFlowAssumption DEF ToSet
<1>2. topics["telemetry"] = <<>> /\ topics["event"] = <<>> /\ rows["telemetry"] = <<>>
  BY DEF Init
<1>3. StoreOK
  BY DEF Init, StoreOK
<1>4. WorkOK
  <2>1. ~tx.open /\ tx.rows = <<>> /\ pc = "idle" /\ next = 0 /\ inserted = FALSE
        /\ fresh = {} /\ faults = 0
    BY DEF Init, NoTx
  <2>2. Len(topics["telemetry"]) + Len(topics["event"]) <= MaxPublished
    BY <1>1, <1>2
  <2>3. QED BY <1>1, <1>2, <2>1, <2>2 DEF WorkOK
<1>5. ServiceOK
  BY <1>1 DEF Init, ServiceOK
<1>6. CountOK
  BY <1>1, <1>2 DEF Init, CountOK, NoTx, Injective, Stored
<1>7. QED BY <1>3, <1>4, <1>5, <1>6 DEF FInv

LEMMA InjectiveAppend ==
  ASSUME NEW S, NEW s \in Seq(S), NEW e \in S, e \notin ToSet(s), Injective(s)
  PROVE  Injective(Append(s, e))
<1>1. /\ Len(Append(s, e)) = Len(s) + 1 /\ Len(s) \in Nat
      /\ \A i \in 1..Len(s) : Append(s, e)[i] = s[i]
      /\ Append(s, e)[Len(s) + 1] = e
  BY AppendProperties
<1>2. \A i \in 1..Len(s) : s[i] # e
  BY DEF ToSet
<1>3. QED BY <1>1, <1>2 DEF Injective

LEMMA InjectiveConcat ==
  ASSUME NEW S, NEW s \in Seq(S), NEW t \in Seq(S), ToSet(s) \cap ToSet(t) = {},
         Injective(s), Injective(t)
  PROVE  Injective(s \o t)
<1>1. /\ Len(s \o t) = Len(s) + Len(t) /\ Len(s) \in Nat /\ Len(t) \in Nat
      /\ \A i \in 1..Len(s) : (s \o t)[i] = s[i]
      /\ \A i \in 1..Len(t) : (s \o t)[Len(s) + i] = t[i]
  BY ConcatProperties
<1>2. \A i \in 1..Len(s), j \in 1..Len(t) : s[i] # t[j]
  BY DEF ToSet
<1>3. ASSUME NEW i \in 1..Len(s \o t)
      PROVE  \/ i \in 1..Len(s) /\ (s \o t)[i] = s[i]
             \/ \E k \in 1..Len(t) : i = Len(s) + k /\ (s \o t)[i] = t[k]
  <2>1. CASE i <= Len(s)
    BY <1>1, <2>1
  <2>2. CASE i > Len(s)
    <3>1. i - Len(s) \in 1..Len(t) /\ i = Len(s) + (i - Len(s))
      BY <1>1, <2>2
    <3>2. QED BY <1>1, <3>1
  <2>3. QED BY <1>1, <2>1, <2>2
<1>4. ASSUME NEW i \in 1..Len(s \o t), NEW j \in 1..Len(s \o t), (s \o t)[i] = (s \o t)[j]
      PROVE  i = j
  <2>1. CASE i \in 1..Len(s) /\ (s \o t)[i] = s[i]
    BY <1>2, <1>3, <1>4, <2>1 DEF Injective
  <2>2. ASSUME NEW k \in 1..Len(t), i = Len(s) + k, (s \o t)[i] = t[k]
        PROVE  i = j
    BY <1>2, <1>3, <1>4, <2>2 DEF Injective
  <2>3. QED BY <1>3, <2>1, <2>2
<1>5. QED BY <1>4 DEF Injective

\* consume() raises: in the insert of a message it refuses, or by a fault.
Raises ==
  /\ Raise /\ pc # "idle"
  /\ \/ pc = "insert" /\ UNCHANGED <<tx, faults>>
     \/ faults' = faults + 1 /\ tx' \in {tx, Open(tx.rows), NoTx}

LEMMA Steps ==
  ASSUME [Next]_vars
  PROVE  \/ \E topic \in Types, m \in Messages : AppendTo(topic, m)
         \/ Connect \/ CreateTable \/ Raises \/ Insert \/ Commit \/ Return \/ Close
         \/ Crash \/ Queries
         \/ \E offset \in {0, saved}, limit \in Limits : Consume(offset, limit)
         \/ \E e \in Events : StoreAlert(e)
         \/ UNCHANGED vars
<1>1. ASSUME NEW m \in Telemetry \cup Events, Publish(m)
      PROVE  \E topic \in Types, e \in Messages : AppendTo(topic, e)
  <2>1. AppendTo(message_type(m), m)
    BY <1>1 DEF Publish
  <2>2. message_type(m) \in Types /\ m \in Messages
    BY DEF message_type, Messages
  <2>3. QED BY <2>1, <2>2
<1>2. ASSUME NEW m \in Damaged, PublishToTopic(m)
      PROVE  \E topic \in Types, e \in Messages : AppendTo(topic, e)
  <2>1. AppendTo("telemetry", m) /\ "telemetry" \in Types /\ m \in Messages
    BY <1>2, LocalFlowAssumption DEF PublishToTopic, Messages
  <2>2. QED BY <2>1
<1>3. Refuse \/ InsertRaises \/ CommitRaises => Raises
  BY DEF Refuse, InsertRaises, CommitRaises, Raises, Fault
<1>4. QED BY <1>1, <1>2, <1>3 DEF Next, Flow

LEMMA StoreStep ==
  ASSUME IInv, StoreOK, [Next]_vars
  PROVE  StoreOK'
<1>1. CASE UNCHANGED <<store, db>> /\ pc' \in {"idle", pc}
  BY <1>1 DEF StoreOK
<1>2. CASE \E topic \in Types, m \in Messages : AppendTo(topic, m)
  BY <1>1, <1>2 DEF AppendTo
<1>3. CASE Connect \/ CreateTable
  BY <1>3 DEF Connect, CreateTable, StoreOK
<1>4. CASE Raises \/ Return
  BY <1>1, <1>4 DEF Raises, Raise, Return
<1>5. CASE Insert \/ \E offset \in {0, saved}, limit \in Limits : Consume(offset, limit)
  <2>1. UNCHANGED <<store, db>> /\ store = "ready"
    BY <1>5 DEF Insert, Consume, StoreOK
  <2>2. QED BY <2>1 DEF StoreOK
<1>6. CASE Commit
  <2>1. /\ UNCHANGED <<store, file, tables>> /\ store = "ready" /\ rows \in [Tables -> Seq(Messages)]
        /\ rows' = [rows EXCEPT !["telemetry"] = rows["telemetry"] \o tx.rows]
    BY <1>6 DEF Commit, StoreOK, IInv, Shape
  <2>2. \A t \in Tables : rows'[t] # <<>> => t \in tables
    BY <2>1 DEF StoreOK
  <2>3. QED BY <2>1, <2>2 DEF StoreOK
<1>7. CASE Close \/ Crash
  <2>1. store' = "none" /\ pc' = "idle" /\ UNCHANGED <<file, tables, rows>>
    BY <1>7 DEF Close, Crash
  <2>2. QED BY <2>1 DEF StoreOK
<1>8. CASE \E e \in Events : StoreAlert(e)
  <2>1. PICK e \in Events : rows' = [rows EXCEPT !["alerts"] = Append(rows["alerts"], e)]
    BY <1>8 DEF StoreAlert
  <2>2. UNCHANGED <<store, pc>> /\ file' = TRUE /\ tables' = tables \cup {"alerts"}
    BY <1>8 DEF StoreAlert
  <2>3. \A t \in Tables : rows'[t] # <<>> => t \in tables'
    BY <2>1, <2>2 DEF StoreOK, IInv, Shape
  <2>4. QED BY <2>2, <2>3 DEF StoreOK
<1>9. CASE Queries \/ UNCHANGED vars
  BY <1>1, <1>9 DEF Queries, StartService, CloseService, List, CountTelemetry,
     CountAlerts, vars
<1>10. QED
  BY <1>2, <1>3, <1>4, <1>5, <1>6, <1>7, <1>8, <1>9, Steps

LEMMA WorkStep ==
  ASSUME IInv, WorkOK, [Next]_vars
  PROVE  WorkOK'
<1>1. /\ <<>> \in Seq(Telemetry) /\ Len(<<>>) = 0 /\ MaxPublished \in Nat
      /\ NoTx.open = FALSE /\ NoTx.rows = <<>>
  BY LocalFlowAssumption DEF NoTx
<1>2. CASE UNCHANGED <<topics, call, tx, faults>> /\ rows'["telemetry"] = rows["telemetry"]
  BY <1>2 DEF WorkOK
<1>3. CASE \E topic \in Types, m \in Messages : AppendTo(topic, m)
  <2>1. PICK topic \in Types, m \in Messages : AppendTo(topic, m)
    BY <1>3
  <2>2. /\ Len(topics["telemetry"]) + Len(topics["event"]) < MaxPublished
        /\ topics' = [topics EXCEPT ![topic] = Append(topics[topic], m)]
        /\ UNCHANGED <<call, tx, rows, faults>>
    BY <2>1 DEF AppendTo
  <2>3. /\ topics["telemetry"] \in Seq(Messages) /\ topics["event"] \in Seq(Messages)
        /\ topics \in [Types -> Seq(Messages)]
    BY DEF IInv, Shape
  <2>4. \A s \in Seq(Messages) : Len(s) \in Nat /\ Len(Append(s, m)) = Len(s) + 1
    BY AppendProperties
  <2> DEFINE a == Len(topics["telemetry"])
             b == Len(topics["event"])
             c == Len(topics'["telemetry"])
             d == Len(topics'["event"])
  <2>5. a \in Nat /\ b \in Nat /\ a + b < MaxPublished
    BY <2>2, <2>3, <2>4
  <2>6. (c = a + 1 /\ d = b) \/ (c = a /\ d = b + 1)
    <3>1. CASE topic = "telemetry"
      BY <2>2, <2>3, <2>4, <3>1
    <3>2. CASE topic = "event"
      BY <2>2, <2>3, <2>4, <3>2
    <3>3. QED BY <3>1, <3>2
  <2> HIDE DEF a, b, c, d
  <2>7. c + d <= MaxPublished
    BY <1>1, <2>5, <2>6
  <2>8. QED BY <2>2, <2>7 DEF WorkOK, c, d
<1>4. CASE Connect \/ CreateTable \/ Queries \/ UNCHANGED vars
  BY <1>2, <1>4 DEF Connect, CreateTable, Queries, StartService, CloseService, List,
     CountTelemetry, CountAlerts, vars
<1>5. CASE \E offset \in {0, saved}, limit \in Limits : Consume(offset, limit)
  BY <1>5 DEF Consume, WorkOK
<1>6. CASE Raises
  <2>1. /\ UNCHANGED <<topics, rows>> /\ pc' = "idle" /\ next' = 0
        /\ inserted' = FALSE /\ fresh' = {}
        /\ \/ pc = "insert" /\ tx' = tx /\ faults' = faults
           \/ faults' = faults + 1 /\ tx' \in {tx, Open(tx.rows), NoTx}
    BY <1>6 DEF Raises, Raise
  <2>2. faults' \in Nat /\ (tx'.open => faults' > 0) /\ tx'.rows \in Seq(Telemetry)
    <3>1. CASE pc = "insert" /\ tx' = tx /\ faults' = faults
      BY <3>1 DEF WorkOK
    <3>2. CASE faults' = faults + 1 /\ tx' \in {tx, Open(tx.rows), NoTx}
      <4>0. tx'.rows \in {tx.rows, <<>>}
        <5>1. Open(tx.rows).rows = tx.rows
          BY DEF Open
        <5>2. QED BY <1>1, <3>2, <5>1
      <4>1. faults \in Nat /\ tx'.rows \in Seq(Telemetry)
        BY <1>1, <4>0 DEF WorkOK
      <4>2. faults' \in Nat /\ faults' > 0
        BY <3>2, <4>1
      <4>3. QED BY <4>1, <4>2
    <3>3. QED BY <2>1, <3>1, <3>2
  <2>3. QED BY <2>1, <2>2 DEF WorkOK
<1>7. CASE Insert
  <2> DEFINE m == Head(batch)
  <2>1. /\ UNCHANGED <<topics, rows, batch, next, fresh, faults>>
        /\ pc' = "commit" /\ m \in Telemetry
        /\ tx' = Open(IF Skipped(m) THEN tx.rows ELSE Append(tx.rows, m))
        /\ inserted' = ~Skipped(m)
    BY <1>7 DEF Insert, Acceptable
  <2> HIDE DEF m
  <2>2. tx.rows \in Seq(Telemetry) /\ Append(tx.rows, m) \in Seq(Telemetry)
    BY <2>1, AppendProperties DEF WorkOK
  <2>3. tx'.open /\ tx'.rows \in Seq(Telemetry)
    BY <2>1, <2>2 DEF Open
  <2>4. inserted' \in BOOLEAN
    BY <2>1 DEF Skipped, Known
  <2>5. QED BY <2>1, <2>3, <2>4 DEF WorkOK, m
<1>8. CASE Commit
  <2>1. /\ UNCHANGED <<topics, faults>> /\ pc = "commit" /\ pc' = "insert" /\ tx' = NoTx
        /\ inserted' = FALSE /\ fresh' \subseteq fresh \cup {Head(batch)}
        /\ rows' = [rows EXCEPT !["telemetry"] = rows["telemetry"] \o tx.rows]
    BY <1>8 DEF Commit, Advance
  <2>2. rows["telemetry"] \o tx.rows \in Seq(Telemetry)
    BY ConcatProperties DEF WorkOK
  <2>3. rows'["telemetry"] \in Seq(Telemetry)
    BY <2>1, <2>2 DEF IInv, Shape
  <2>4. fresh' \subseteq Telemetry
    BY <2>1 DEF WorkOK
  <2>5. QED BY <1>1, <2>1, <2>3, <2>4 DEF WorkOK
<1>9. CASE Return
  BY <1>9 DEF Return, WorkOK
<1>10. CASE Close
  BY <1>1, <1>10 DEF Close, WorkOK
<1>11. CASE Crash
  <2>1. topics'["telemetry"] = <<>> /\ topics'["event"] = <<>>
    BY <1>11 DEF Crash
  <2>2. Len(topics'["telemetry"]) + Len(topics'["event"]) <= MaxPublished
    BY <1>1, <2>1
  <2>3. QED BY <1>1, <1>11, <2>2 DEF Crash, WorkOK
<1>12. CASE \E e \in Events : StoreAlert(e)
  <2>1. rows'["telemetry"] = rows["telemetry"]
    BY <1>12 DEF StoreAlert, IInv, Shape
  <2>2. QED BY <1>2, <1>12, <2>1 DEF StoreAlert
<1>13. QED
  BY <1>3, <1>4, <1>5, <1>6, <1>7, <1>8, <1>9, <1>10, <1>11, <1>12, Steps

\* A query answers with rows of the table.
LEMMA ServiceStep ==
  ASSUME WorkOK, ServiceOK, [Next]_vars
  PROVE  ServiceOK'
<1>1. <<>> \in Seq(Telemetry)
  OBVIOUS
<1>2. CASE List
  <2> DEFINE v == Visible("telemetry")
             first == Max({1, Len(v) - PageSize + 1})
             s == SubSeq(v, first, Len(v))
  <2>1. /\ v \in Seq(Telemetry) /\ Len(v) \in Nat /\ PageSize \in Nat
        /\ page' = Reverse(s) /\ service' = service
    BY <1>1, <1>2, LocalFlowAssumption DEF List, Visible, WorkOK
  <2> HIDE DEF v
  <2>2. first \in Int /\ first >= 1
    <3>1. \E x \in {1, Len(v) - PageSize + 1} :
            \A y \in {1, Len(v) - PageSize + 1} : x >= y
      BY <2>1
    <3>2. /\ first \in {1, Len(v) - PageSize + 1}
          /\ \A y \in {1, Len(v) - PageSize + 1} : first >= y
      BY <3>1 DEF Max
    <3>3. QED BY <2>1, <3>2
  <2> HIDE DEF first
  <2>3. s \in Seq(Telemetry)
    <3>1. \A i \in first..Len(v) : i \in 1..Len(v)
      BY <2>1, <2>2
    <3>2. \A i \in first..Len(v) : v[i] \in Telemetry
      BY <2>1, <3>1, ElementOfSeq
    <3>3. QED BY <2>1, <2>2, <3>2, SubSeqProperties
  <2> HIDE DEF s
  <2>4. Reverse(s) \in Seq(Telemetry)
    <3>1. Len(s) \in Nat /\ \A i \in 1..Len(s) : Len(s) - i + 1 \in 1..Len(s)
      BY <2>3
    <3>2. \A i \in 1..Len(s) : s[Len(s) - i + 1] \in Telemetry
      BY <2>3, <3>1, ElementOfSeq
    <3>3. [i \in 1..Len(s) |-> s[Len(s) - i + 1]] \in [1..Len(s) -> Telemetry]
      BY <3>2
    <3>4. QED BY <3>1, <3>3 DEF Reverse
  <2>5. QED BY <2>1, <2>4 DEF ServiceOK
<1>3. CASE StartService \/ CloseService \/ CountTelemetry \/ CountAlerts
  BY <1>1, <1>3 DEF StartService, CloseService, CountTelemetry, CountAlerts, ServiceOK
<1>4. CASE UNCHANGED <<service, page>>
  BY <1>4 DEF ServiceOK
<1>5. CASE /\ ~Queries
           /\ \/ \E topic \in Types, m \in Messages : AppendTo(topic, m)
              \/ Connect \/ CreateTable \/ Raises \/ Insert \/ Commit \/ Return \/ Close
              \/ Crash
              \/ \E offset \in {0, saved}, limit \in Limits : Consume(offset, limit)
              \/ \E e \in Events : StoreAlert(e)
              \/ UNCHANGED vars
  <2>1. UNCHANGED <<service, page>>
    BY <1>5 DEF AppendTo, Connect, CreateTable, Raises, Raise, Insert, Commit, Return,
       Close, Crash, Consume, StoreAlert, vars
  <2>2. QED BY <1>4, <2>1
<1>6. QED BY <1>2, <1>3, <1>5, Steps DEF Queries

LEMMA CountStep ==
  ASSUME IInv, WorkOK, CountOK, [Next]_vars
  PROVE  CountOK'
<1>1. /\ ToSet(<<>>) = {} /\ Injective(<<>>) /\ NoTx.rows = <<>>
      /\ rows["telemetry"] \in Seq(Telemetry) /\ tx.rows \in Seq(Telemetry)
  <2>1. Len(<<>>) = 0
    OBVIOUS
  <2>2. QED BY <2>1 DEF ToSet, Injective, NoTx, WorkOK
<1>2. CASE /\ UNCHANGED counted /\ rows'["telemetry"] = rows["telemetry"]
           /\ tx' \in {tx, Open(tx.rows), NoTx}
           /\ \/ UNCHANGED <<fresh, inserted, batch, pc, tx>>
              \/ inserted' = FALSE /\ fresh' \subseteq fresh
  <2>1. Stored' = Stored
    BY <1>2 DEF Stored
  <2>2. /\ Injective(rows'["telemetry"]) /\ Injective(tx'.rows)
        /\ Stored' \cap ToSet(tx'.rows) = {}
    <3>1. tx'.rows \in {tx.rows, <<>>}
      BY <1>1, <1>2 DEF Open
    <3>2. QED BY <1>1, <1>2, <2>1, <3>1 DEF CountOK
  <2>3. /\ counted' \in [Telemetry -> {0, 1}]
        /\ \A m \in Telemetry : counted'[m] = 1 => m \in Stored'
        /\ \A m \in fresh' : m \in Stored' /\ counted'[m] = 0
        /\ inserted' => pc' = "commit" /\ Head(batch') \in ToSet(tx'.rows)
    BY <1>2, <2>1 DEF CountOK
  <2>4. QED BY <2>2, <2>3 DEF CountOK
<1>3. CASE \/ \E topic \in Types, m \in Messages : AppendTo(topic, m)
           \/ Connect \/ CreateTable \/ Queries \/ UNCHANGED vars
  BY <1>2, <1>3 DEF AppendTo, Connect, CreateTable, Queries, StartService,
     CloseService, List, CountTelemetry, CountAlerts, vars
<1>4. CASE \/ Raises \/ Crash
           \/ \E offset \in {0, saved}, limit \in Limits : Consume(offset, limit)
  BY <1>2, <1>4 DEF Raises, Raise, Crash, Consume
<1>5. CASE Close
  <2>1. inserted = FALSE
    BY <1>5 DEF Close, CountOK, WorkOK
  <2>2. QED BY <1>2, <1>5, <2>1 DEF Close
<1>6. CASE \E e \in Events : StoreAlert(e)
  <2>1. rows'["telemetry"] = rows["telemetry"]
    BY <1>6 DEF StoreAlert, IInv, Shape
  <2>2. QED BY <1>2, <1>6, <2>1 DEF StoreAlert
<1>7. CASE Insert
  <2> DEFINE m == Head(batch)
  <2>1. /\ UNCHANGED <<rows, batch, fresh, counted>> /\ pc' = "commit" /\ m \in Telemetry
        /\ tx' = Open(IF Skipped(m) THEN tx.rows ELSE Append(tx.rows, m))
        /\ inserted' = ~Skipped(m)
    BY <1>7 DEF Insert, Acceptable
  <2> HIDE DEF m
  <2>2. Stored' = Stored
    BY <2>1 DEF Stored
  <2>3. CASE Skipped(m)
    <3>1. tx'.rows = tx.rows /\ inserted' = FALSE
      BY <2>1, <2>3 DEF Open
    <3>2. QED BY <2>1, <2>2, <3>1 DEF CountOK
  <2>4. CASE ~Skipped(m)
    <3>1. tx'.rows = Append(tx.rows, m) /\ m \notin Stored /\ m \notin ToSet(tx.rows)
      BY <2>1, <2>4 DEF Open, Skipped, Known, Stored
    <3>2. /\ Injective(tx'.rows) /\ ToSet(tx'.rows) = ToSet(tx.rows) \cup {m}
      <4>1. Injective(tx.rows)
        BY DEF CountOK
      <4>2. ToSet(Append(tx.rows, m)) = ToSet(tx.rows) \cup {m}
        BY <1>1, <2>1, ToSetAppend
      <4>3. Injective(Append(tx.rows, m))
        BY <1>1, <2>1, <3>1, <4>1, InjectiveAppend
      <4>4. QED BY <3>1, <4>2, <4>3
    <3>3. Stored' \cap ToSet(tx'.rows) = {}
      BY <2>2, <3>1, <3>2 DEF CountOK
    <3>4. Head(batch') \in ToSet(tx'.rows)
      BY <2>1, <3>2 DEF m
    <3>5. QED BY <2>1, <2>2, <3>2, <3>3, <3>4 DEF CountOK
  <2>5. QED BY <2>3, <2>4
<1>8. CASE Commit
  <2>1. /\ UNCHANGED counted /\ tx' = NoTx /\ inserted' = FALSE /\ pc = "commit"
        /\ fresh' = IF inserted THEN fresh \cup {Head(batch)} ELSE fresh
        /\ rows' = [rows EXCEPT !["telemetry"] = rows["telemetry"] \o tx.rows]
    BY <1>8 DEF Commit, Advance
  <2>2. rows'["telemetry"] = rows["telemetry"] \o tx.rows
    BY <2>1 DEF IInv, Shape
  <2>3. Injective(rows'["telemetry"]) /\ Stored' = Stored \cup ToSet(tx.rows)
    BY <1>1, <2>2, InjectiveConcat, ToSetConcat DEF CountOK, Stored
  <2>4. ASSUME NEW m \in fresh'
        PROVE  m \in Stored' /\ counted[m] = 0
    <3>1. CASE m \in fresh
      BY <2>3, <3>1 DEF CountOK
    <3>2. CASE m \notin fresh
      <4>1. inserted /\ m = Head(batch)
        BY <2>1, <2>4, <3>2
      <4>2. m \in ToSet(tx.rows) /\ m \in Telemetry
        BY <2>1, <4>1 DEF CountOK, WorkOK
      <4>3. m \notin Stored
        BY <4>2 DEF CountOK
      <4>4. counted[m] = 0
        BY <4>2, <4>3 DEF CountOK
      <4>5. QED BY <2>3, <4>2, <4>4
    <3>3. QED BY <3>1, <3>2
  <2>5. /\ Injective(tx'.rows) /\ Stored' \cap ToSet(tx'.rows) = {}
    BY <1>1, <2>1
  <2>6. \A m \in Telemetry : counted'[m] = 1 => m \in Stored'
    BY <2>1, <2>3 DEF CountOK
  <2>7. counted' \in [Telemetry -> {0, 1}]
    BY <2>1 DEF CountOK
  <2>8. QED BY <2>1, <2>3, <2>4, <2>5, <2>6, <2>7 DEF CountOK
<1>9. CASE Return
  <2>1. /\ UNCHANGED <<rows, tx, batch, inserted>> /\ pc = "insert" /\ fresh' = {}
        /\ counted' = [m \in Telemetry |-> IF m \in fresh THEN counted[m] + 1 ELSE counted[m]]
    BY <1>9 DEF Return
  <2>2. Stored' = Stored /\ ~inserted
    BY <2>1 DEF Stored, CountOK, WorkOK
  <2>3. \A m \in Telemetry : counted'[m] \in {0, 1} /\ (counted'[m] = 1 => m \in Stored)
    BY <2>1 DEF CountOK
  <2>4. counted' \in [Telemetry -> {0, 1}]
    BY <2>1, <2>3
  <2>5. QED BY <2>1, <2>2, <2>3, <2>4 DEF CountOK
<1>10. QED
  BY <1>3, <1>4, <1>5, <1>6, <1>7, <1>8, <1>9, Steps
-----------------------------------------------------------------------------
(* The summary.                                                            *)

\* Between the two counts of a summary: what was stored at its start is still
\* there, and the first count is of that moment.
SumOK ==
  summary.at = "alerts" =>
    /\ service # "none"
    /\ \A t \in Tables : summary.before[t] \in Nat /\ summary.before[t] <= Len(rows[t])
    /\ service = "file" => summary.telemetry = summary.before["telemetry"]

\* A row that is committed stays.
LEMMA RowsGrow ==
  ASSUME IInv, WorkOK, [Next]_vars
  PROVE  \A t \in Tables : /\ Len(rows[t]) \in Nat /\ Len(rows'[t]) \in Nat
                           /\ Len(rows[t]) <= Len(rows'[t])
<1>1. \A t \in Tables : Len(rows[t]) \in Nat
  BY DEF IInv, Shape
<1>2. CASE UNCHANGED rows
  BY <1>1, <1>2
<1>3. CASE Commit
  <2>1. /\ rows["telemetry"] \in Seq(Telemetry) /\ tx.rows \in Seq(Telemetry)
        /\ rows \in [Tables -> Seq(Messages)]
        /\ rows' = [rows EXCEPT !["telemetry"] = rows["telemetry"] \o tx.rows]
    BY <1>3 DEF Commit, WorkOK, IInv, Shape
  <2>2. Len(rows["telemetry"] \o tx.rows) = Len(rows["telemetry"]) + Len(tx.rows)
        /\ Len(tx.rows) \in Nat
    BY <2>1, ConcatProperties
  <2>3. rows'["telemetry"] = rows["telemetry"] \o tx.rows /\ rows'["alerts"] = rows["alerts"]
    BY <2>1
  <2>4. /\ Len(rows'["telemetry"]) = Len(rows["telemetry"]) + Len(tx.rows)
        /\ Len(rows'["alerts"]) = Len(rows["alerts"])
    BY <2>2, <2>3
  <2>5. Len(rows["telemetry"]) \in Nat /\ Len(rows["alerts"]) \in Nat
    BY <1>1
  <2>6. /\ Len(rows'["telemetry"]) \in Nat
        /\ Len(rows["telemetry"]) <= Len(rows'["telemetry"])
    <3> DEFINE a == Len(rows["telemetry"])
               b == Len(tx.rows)
    <3>1. a \in Nat /\ b \in Nat /\ Len(rows'["telemetry"]) = a + b
      BY <2>2, <2>4, <2>5
    <3> HIDE DEF a, b
    <3>2. a + b \in Nat /\ a <= a + b
      BY <3>1
    <3>3. QED BY <3>1, <3>2 DEF a
  <2>7. Len(rows'["alerts"]) \in Nat /\ Len(rows["alerts"]) <= Len(rows'["alerts"])
    BY <2>4, <2>5
  <2>8. QED BY <2>5, <2>6, <2>7
<1>4. CASE \E e \in Events : StoreAlert(e)
  <2>1. PICK e \in Events : rows' = [rows EXCEPT !["alerts"] = Append(rows["alerts"], e)]
    BY <1>4 DEF StoreAlert
  <2>2. rows["alerts"] \in Seq(Messages) /\ e \in Messages /\ rows \in [Tables -> Seq(Messages)]
    BY DEF IInv, Shape, Messages
  <2>3. Len(Append(rows["alerts"], e)) = Len(rows["alerts"]) + 1
    BY <2>2, AppendProperties
  <2>4. rows'["alerts"] = Append(rows["alerts"], e) /\ rows'["telemetry"] = rows["telemetry"]
    BY <2>1, <2>2
  <2>5. QED BY <1>1, <2>3, <2>4
<1>5. CASE \/ \E topic \in Types, m \in Messages : AppendTo(topic, m)
           \/ Connect \/ CreateTable \/ Raises \/ Insert \/ Return \/ Close
           \/ Crash \/ Queries
           \/ \E offset \in {0, saved}, limit \in Limits : Consume(offset, limit)
           \/ UNCHANGED vars
  BY <1>2, <1>5 DEF AppendTo, Connect, CreateTable, Raises, Raise, Insert, Return,
     Close, Crash, Queries, StartService, CloseService, List, CountTelemetry,
     CountAlerts, Consume, vars
<1>6. QED BY <1>3, <1>4, <1>5, Steps

\* A service that has the file counts every committed row: a table that it does
\* not find has none.
LEMMA AllVisible ==
  ASSUME IInv, StoreOK, service = "file", NEW t \in Tables
  PROVE  Visible(t) = rows[t]
BY DEF StoreOK, Visible

LEMMA SumInit == Init => SumOK
BY DEF Init, SumOK, NoSummary

LEMMA SumStep ==
  ASSUME IInv, StoreOK, WorkOK, SumOK, [Next]_vars
  PROVE  SumOK'
<1>1. \A t \in Tables : /\ Len(rows[t]) \in Nat /\ Len(rows'[t]) \in Nat
                        /\ Len(rows[t]) <= Len(rows'[t])
  BY RowsGrow
<1>2. CASE UNCHANGED <<summary, service>>
  <2>1. SUFFICES ASSUME summary.at = "alerts" PROVE SumOK'
    BY <1>2 DEF SumOK
  <2>2. \A t \in Tables : summary.before[t] \in Nat /\ summary.before[t] <= Len(rows'[t])
    BY <1>1, <2>1 DEF SumOK
  <2>3. QED BY <1>2, <2>1, <2>2 DEF SumOK
<1>3. CASE StartService
  <2>1. summary' = summary /\ service = "none"
    BY <1>3 DEF StartService
  <2>2. QED BY <2>1 DEF SumOK
<1>4. CASE CloseService
  BY <1>4 DEF CloseService, NoSummary, SumOK
<1>5. CASE CountTelemetry
  <2>1. /\ UNCHANGED <<service, rows>> /\ service # "none" /\ summary'.before = Counts
        /\ summary'.telemetry = Len(Visible("telemetry"))
    BY <1>5 DEF CountTelemetry
  <2>2. \A t \in Tables : Counts[t] = Len(rows[t])
    BY DEF Counts
  <2>3. \A t \in Tables : summary'.before[t] \in Nat /\ summary'.before[t] <= Len(rows'[t])
    BY <1>1, <2>1, <2>2
  <2>4. service = "file" => Len(Visible("telemetry")) = Counts["telemetry"]
    BY <2>2, AllVisible
  <2>5. QED BY <2>1, <2>3, <2>4 DEF SumOK
<1>6. CASE CountAlerts
  BY <1>6 DEF CountAlerts, SumOK
<1>7. CASE \/ \E topic \in Types, m \in Messages : AppendTo(topic, m)
           \/ Connect \/ CreateTable \/ Raises \/ Insert \/ Commit \/ Return \/ Close
           \/ Crash \/ List
           \/ \E offset \in {0, saved}, limit \in Limits : Consume(offset, limit)
           \/ \E e \in Events : StoreAlert(e)
           \/ UNCHANGED vars
  <2>1. UNCHANGED <<summary, service>>
    BY <1>7 DEF AppendTo, Connect, CreateTable, Raises, Raise, Insert, Commit, Return,
       Close, Crash, List, Consume, StoreAlert, vars
  <2>2. QED BY <1>2, <2>1
<1>8. QED BY <1>3, <1>4, <1>5, <1>6, <1>7, Steps DEF Queries

\* What the second count answers.
LEMMA Bracketed ==
  ASSUME IInv, StoreOK, WorkOK, SumOK, [Next]_vars, summary.at = "alerts",
         summary'.at = "answered", service = "file"
  PROVE  /\ summary'.telemetry \in summary.before["telemetry"] .. Counts["telemetry"]
         /\ summary'.alerts \in summary.before["alerts"] .. Counts["alerts"]
<1>1. CountAlerts
  <2>1. ~(CountTelemetry \/ CloseService)
    BY DEF CountTelemetry, CloseService
  <2>2. summary' # summary
    OBVIOUS
  <2>3. ~(\/ \E topic \in Types, m \in Messages : AppendTo(topic, m)
          \/ Connect \/ CreateTable \/ Raises \/ Insert \/ Commit \/ Return \/ Close
          \/ Crash \/ List \/ StartService
          \/ \E offset \in {0, saved}, limit \in Limits : Consume(offset, limit)
          \/ \E e \in Events : StoreAlert(e)
          \/ UNCHANGED vars)
    BY <2>2 DEF AppendTo, Connect, CreateTable, Raises, Raise, Insert, Commit, Return,
       Close, Crash, List, StartService, Consume, StoreAlert, vars
  <2>4. QED BY <2>1, <2>3, Steps DEF Queries
<1>2. /\ summary'.telemetry = summary.before["telemetry"]
      /\ summary'.alerts = Len(rows["alerts"])
  <2>1. Visible("alerts") = rows["alerts"]
    BY AllVisible
  <2>2. QED BY <1>1, <2>1 DEF CountAlerts, SumOK
<1>3. \A t \in Tables : /\ Counts[t] = Len(rows[t]) /\ Len(rows[t]) \in Nat
                        /\ summary.before[t] \in Nat /\ summary.before[t] <= Len(rows[t])
  BY RowsGrow DEF Counts, SumOK
<1>4. QED BY <1>2, <1>3
-----------------------------------------------------------------------------
(* The theorems that rest on it.                                           *)

LEMMA FInvNext == IInv /\ FInv /\ [Next]_vars => FInv'
<1> SUFFICES ASSUME IInv, FInv, [Next]_vars PROVE FInv'
  OBVIOUS
<1>1. StoreOK' /\ WorkOK' /\ ServiceOK' /\ CountOK'
  BY StoreStep, WorkStep, ServiceStep, CountStep DEF FInv
<1>2. QED BY <1>1 DEF FInv

\* The inductive invariant: IInv of the consumer's offsets, FInv of the rest.
LEMMA FlowInvariant == Spec => [](IInv /\ FInv)
BY IInvInit, IInvNext, FInvInit, FInvNext, PTL DEF Spec

\* The state keeps its shape: a transaction is open when a commit is due, and
\* outside consume() only after a commit() that raised.
THEOREM FlowTypes == Spec => []TypeOK
<1>1. IInv /\ FInv => TypeOK
  <2> SUFFICES ASSUME IInv, FInv PROVE TypeOK
    OBVIOUS
  <2>1. saved \in 0..MaxPublished /\ next \in 0..MaxPublished
    <3>1. /\ topics["telemetry"] \in Seq(Messages) /\ topics["event"] \in Seq(Messages)
          /\ batch \in Seq(Messages) /\ MaxPublished \in Nat
      BY LocalFlowAssumption DEF IInv, Shape
    <3>2. /\ Len(Topic) \in Nat /\ Len(topics["event"]) \in Nat /\ Len(batch) \in Nat
          /\ saved \in Nat /\ next \in Nat /\ saved <= Len(Topic)
          /\ Len(Topic) + Len(topics["event"]) <= MaxPublished
          /\ next = 0 \/ next + Len(batch) <= Len(Topic)
      BY <3>1 DEF IInv, Shape, FInv, WorkOK, CallOK, Topic
    <3>3. QED BY <3>1, <3>2
  <2>2. \A t \in Tables : rows[t] \in Seq(Telemetry \cup Events)
    BY DEF IInv, Shape, Messages
  <2>3. QED
    BY <2>1, <2>2 DEF TypeOK, IInv, Shape, Messages, FInv, StoreOK, WorkOK, ServiceOK
<1>2. QED BY <1>1, FlowInvariant, PTL

\* eventId is the idempotency key: no row is counted as stored twice, or before
\* it is, whatever calls raise, are repeated or are cut short.
THEOREM CountSafe == Spec => []CountedOnce
<1>1. IInv /\ FInv => CountedOnce
  <2> SUFFICES ASSUME IInv, FInv, NEW m \in Telemetry
               PROVE  /\ counted[m] <= 1
                      /\ counted[m] = 1 => m \in Stored
                      /\ Cardinality({i \in DOMAIN rows["telemetry"] :
                                        rows["telemetry"][i] = m}) <= 1
    BY DEF CountedOnce, Stored
  <2> DEFINE I == {i \in DOMAIN rows["telemetry"] : rows["telemetry"][i] = m}
  <2>1. counted[m] <= 1 /\ (counted[m] = 1 => m \in Stored)
    <3>1. counted[m] \in {0, 1} /\ (counted[m] = 1 => m \in Stored)
      BY DEF FInv, CountOK
    <3>2. QED BY <3>1
  <2>2. Cardinality(I) <= 1
    <3>1. \A i, j \in I : i = j
      <4>1. rows["telemetry"] \in Seq(Messages)
        BY DEF IInv, Shape
      <4>2. DOMAIN rows["telemetry"] = 1..Len(rows["telemetry"])
        BY <4>1
      <4>3. Injective(rows["telemetry"])
        BY DEF FInv, CountOK
      <4>4. QED BY <4>2, <4>3 DEF Injective
    <3>2. CASE I = {}
      BY <3>2, FS_EmptySet
    <3>3. CASE I # {}
      <4>1. PICK i : i \in I
        BY <3>3
      <4>2. I = {i}
        BY <3>1, <4>1
      <4>3. Cardinality({i}) = 1
        BY FS_Singleton
      <4>4. QED BY <4>2, <4>3
    <3>4. QED BY <3>2, <3>3
  <2>3. QED BY <2>1, <2>2
<1>2. QED BY <1>1, FlowInvariant, PTL

\* Each count of a summary lies between what was stored when the summary was
\* asked for and what is stored when it is answered.
THEOREM SummarySafe == Spec => SummaryBracketed
<1> DEFINE A == summary.at = "alerts" /\ summary'.at = "answered" /\ service = "file" =>
                  /\ summary'.telemetry \in summary.before["telemetry"] .. Counts["telemetry"]
                  /\ summary'.alerts \in summary.before["alerts"] .. Counts["alerts"]
<1>1. IInv /\ FInv /\ SumOK /\ [Next]_vars => SumOK' /\ [A]_vars
  BY SumStep, Bracketed DEF FInv
<1>2. SummaryBracketed <=> [][A]_vars
  BY DEF SummaryBracketed
<1> HIDE DEF A
<1>3. QED BY <1>1, <1>2, SumInit, FlowInvariant, PTL DEF Spec
=============================================================================
