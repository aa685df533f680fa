-------------------------- MODULE LiveBridgeProofs --------------------------
(***************************************************************************)
(* Theorems about LiveBridge, for every value of its constants: what is    *)
(* acknowledged is in Kafka, and a topic holds a stream in its order.      *)
(***************************************************************************)
EXTENDS LiveBridge, TLAPS

USE DEF session, process, history, bounds

Rising(s) == \A i, j \in 1..Len(s) : i < j => s[i].no < s[j].no
Below(s, t) == \A i \in 1..Len(s), j \in 1..Len(t) : s[i].no < t[j].no
UpTo(s, n) == \A i \in 1..Len(s) : s[i].no <= n

\* What on_message holds, and what it knows once get() has returned.
HandOK ==
  /\ pc \in {"get", "ack"} => hand \in Messages /\ hand.kind \in KAFKA_TOPICS
  /\ pc = "ack" => hand \in InKafka
  /\ AckedIsInKafka

\* The topics, the producer's buffer, the message at hand, the inbox and what
\* is still to be published are in the order of publication.
OrderOK ==
  /\ \A k \in KAFKA_TOPICS :
       /\ Rising(kafka[k]) /\ Rising(buffer[k]) /\ Below(kafka[k], buffer[k])
       /\ Below(kafka[k], inbox) /\ Below(buffer[k], inbox)
       /\ UpTo(kafka[k], last_no) /\ UpTo(buffer[k], last_no)
  /\ Rising(inbox) /\ UpTo(inbox, last_no)
  /\ \A i \in 1..Len(inbox) : hand.no < inbox[i].no
  /\ hand.no <= last_no

IInv == TypeOK /\ HandOK /\ OrderOK
-----------------------------------------------------------------------------
(* Sequences of messages.                                                  *)

LEMMA Numbered ==
  /\ \A m \in Messages \cup {NoMessage} : m.no \in Nat
  /\ \A m \in Messages : NoMessage.no < m.no
BY BridgeAssumption DEF Messages, NoMessage, BridgeAssumption

LEMMA Elements ==
  ASSUME NEW s \in Seq(Messages)
  PROVE  /\ Len(s) \in Nat
         /\ \A i \in 1..Len(s) : s[i] \in Messages /\ s[i].no \in Nat
BY Numbered

LEMMA AppendFacts ==
  ASSUME NEW s \in Seq(Messages), NEW m \in Messages
  PROVE  /\ Append(s, m) \in Seq(Messages) /\ Len(Append(s, m)) = Len(s) + 1
         /\ \A i \in 1..Len(s) : Append(s, m)[i] = s[i]
         /\ Append(s, m)[Len(s) + 1] = m
         /\ ElementsOf(Append(s, m)) = ElementsOf(s) \cup {m}
<1>1. /\ Append(s, m) \in Seq(Messages) /\ Len(Append(s, m)) = Len(s) + 1
      /\ \A i \in 1..Len(s) : Append(s, m)[i] = s[i]
      /\ Append(s, m)[Len(s) + 1] = m
  OBVIOUS
<1>2. 1..(Len(s) + 1) = 1..Len(s) \cup {Len(s) + 1}
  BY Elements
<1>3. ElementsOf(Append(s, m)) = ElementsOf(s) \cup {m}
  BY <1>1, <1>2 DEF ElementsOf
<1>4. QED BY <1>1, <1>3

LEMMA TailFacts ==
  ASSUME NEW s \in Seq(Messages), s # <<>>
  PROVE  /\ Head(s) \in Messages /\ Head(s) = s[1] /\ Len(s) >= 1
         /\ Tail(s) \in Seq(Messages) /\ Len(Tail(s)) = Len(s) - 1
         /\ \A i \in 1..Len(Tail(s)) : Tail(s)[i] = s[i + 1]
         /\ ElementsOf(Tail(s)) \subseteq ElementsOf(s)
<1>1. /\ Head(s) \in Messages /\ Head(s) = s[1] /\ Len(s) >= 1
      /\ Tail(s) \in Seq(Messages) /\ Len(Tail(s)) = Len(s) - 1
      /\ \A i \in 1..Len(Tail(s)) : Tail(s)[i] = s[i + 1]
  OBVIOUS
<1>2. \A i \in 1..Len(Tail(s)) : i + 1 \in 1..Len(s)
  BY <1>1, Elements
<1>3. QED BY <1>1, <1>2 DEF ElementsOf

\* A message younger than all may be appended...
LEMMA AppendOrdered ==
  ASSUME NEW s \in Seq(Messages), NEW m \in Messages,
         \A i \in 1..Len(s) : s[i].no < m.no, Rising(s)
  PROVE  Rising(Append(s, m))
<1>1. /\ Len(Append(s, m)) = Len(s) + 1 /\ Append(s, m)[Len(s) + 1] = m
      /\ \A i \in 1..Len(s) : Append(s, m)[i] = s[i]
  BY AppendFacts
<1>2. /\ \A i \in 1..(Len(s) + 1) : i \in 1..Len(s) \/ i = Len(s) + 1
      /\ \A i, j \in 1..(Len(s) + 1) : i < j => i \in 1..Len(s)
  BY Elements
<1>3. QED BY <1>1, <1>2 DEF Rising

LEMMA AppendBelow ==
  ASSUME NEW s \in Seq(Messages), NEW t \in Seq(Messages), NEW m \in Messages
  PROVE  /\ Below(s, t) /\ (\A i \in 1..Len(t) : m.no < t[i].no)
              => Below(Append(s, m), t)
         /\ Below(s, t) /\ (\A i \in 1..Len(s) : s[i].no < m.no)
              => Below(s, Append(t, m))
         /\ \A n \in Nat : UpTo(s, n) /\ m.no <= n => UpTo(Append(s, m), n)
<1>1. /\ Len(Append(s, m)) = Len(s) + 1 /\ Append(s, m)[Len(s) + 1] = m
      /\ \A i \in 1..Len(s) : Append(s, m)[i] = s[i]
      /\ Len(Append(t, m)) = Len(t) + 1 /\ Append(t, m)[Len(t) + 1] = m
      /\ \A i \in 1..Len(t) : Append(t, m)[i] = t[i]
  BY AppendFacts
<1>2. /\ \A i \in 1..(Len(s) + 1) : i \in 1..Len(s) \/ i = Len(s) + 1
      /\ \A i \in 1..(Len(t) + 1) : i \in 1..Len(t) \/ i = Len(t) + 1
  BY Elements
<1>3. QED BY <1>1, <1>2 DEF Below, UpTo

\* ...and the oldest taken away.
LEMMA TailOrdered ==
  ASSUME NEW s \in Seq(Messages), NEW t \in Seq(Messages), s # <<>>
  PROVE  /\ Rising(s) => /\ Rising(Tail(s))
                         /\ \A i \in 1..Len(Tail(s)) : Head(s).no < Tail(s)[i].no
         /\ Below(s, t) => /\ Below(Tail(s), t)
                           /\ \A i \in 1..Len(t) : Head(s).no < t[i].no
         /\ Below(t, s) => /\ Below(t, Tail(s))
                           /\ \A i \in 1..Len(t) : t[i].no < Head(s).no
         /\ \A n \in Nat : UpTo(s, n) => UpTo(Tail(s), n) /\ Head(s).no <= n
<1>1. /\ Head(s) = s[1] /\ Len(s) >= 1 /\ Len(Tail(s)) = Len(s) - 1
      /\ \A i \in 1..Len(Tail(s)) : Tail(s)[i] = s[i + 1]
  BY TailFacts
<1>2. /\ 1 \in 1..Len(s)
      /\ \A i \in 1..Len(Tail(s)) : i + 1 \in 1..Len(s) /\ 1 < i + 1
      /\ \A i, j \in 1..Len(Tail(s)) : i < j => i + 1 < j + 1
  BY <1>1, Elements
<1>3. QED BY <1>1, <1>2 DEF Rising, Below, UpTo

\* Of the empty sequence everything is true.
LEMMA EmptyOrdered ==
  /\ <<>> \in Seq(Messages) /\ ElementsOf(<<>>) = {} /\ Rising(<<>>)
  /\ \A s : Below(s, <<>>) /\ Below(<<>>, s)
  /\ \A n : UpTo(<<>>, n)
BY DEF ElementsOf, Rising, Below, UpTo
-----------------------------------------------------------------------------
(* Steps.                                                                  *)

LEMMA InitInvariant == Init => IInv
<1> SUFFICES ASSUME Init PROVE IInv
  OBVIOUS
<1> USE DEF Init
<1>1. /\ Empty \in [KAFKA_TOPICS -> Seq(Messages)]
      /\ \A k \in KAFKA_TOPICS : Empty[k] = <<>>
  BY EmptyOrdered DEF Empty
<1>2. TypeOK
  <2>1. <<>> \in Seq(KAFKA_TOPICS) /\ <<>> \in Seq(Messages)
    OBVIOUS
  <2>2. ElementsOf(<<>>) = {}
    BY EmptyOrdered
  <2>3. QED BY <1>1, <2>1, <2>2 DEF TypeOK
<1>3. HandOK
  BY DEF HandOK, AckedIsInKafka
<1>4. OrderOK
  BY <1>1, EmptyOrdered DEF OrderOK, NoMessage
<1>5. QED BY <1>2, <1>3, <1>4 DEF IInv

\* A step that acknowledges nothing and takes nothing from Kafka.
LEMMA HandFrame ==
  ASSUME HandOK, InKafka \subseteq InKafka', acked' \subseteq acked,
         pc' \in {"get", "ack"} => pc' = pc /\ hand' = hand
  PROVE  HandOK'
BY DEF HandOK, AckedIsInKafka

\* A step that at most empties the buffer or the inbox.
LEMMA OrderFrame ==
  ASSUME OrderOK, last_no \in Nat, inbox \in Seq(Messages),
         last_no' = last_no, kafka' = kafka,
         buffer' = buffer \/ buffer' = Empty,
         inbox' = inbox \/ inbox' = <<>>,
         hand' = hand \/ hand' = NoMessage
  PROVE  OrderOK'
<1>1. \A k \in KAFKA_TOPICS : Empty[k] = <<>>
  BY DEF Empty
<1>2. \A k \in KAFKA_TOPICS : buffer'[k] = buffer[k] \/ buffer'[k] = <<>>
  BY <1>1
<1>3. hand'.no <= last_no
  BY DEF OrderOK, NoMessage
<1>4. /\ Rising(inbox') /\ UpTo(inbox', last_no)
      /\ \A i \in 1..Len(inbox') : hand'.no < inbox'[i].no
  BY EmptyOrdered, Elements, Numbered DEF OrderOK
<1>5. ASSUME NEW k \in KAFKA_TOPICS
      PROVE  /\ Rising(kafka'[k]) /\ Rising(buffer'[k])
             /\ Below(kafka'[k], buffer'[k]) /\ Below(kafka'[k], inbox')
             /\ Below(buffer'[k], inbox')
             /\ UpTo(kafka'[k], last_no) /\ UpTo(buffer'[k], last_no)
  BY <1>2, <1>5, EmptyOrdered DEF OrderOK
<1>6. QED BY <1>3, <1>4, <1>5 DEF OrderOK

LEMMA PublishStep ==
  ASSUME IInv, Publish
  PROVE  IInv'
<1>0. TypeOK /\ HandOK /\ OrderOK /\ last_no \in Nat /\ inbox \in Seq(Messages)
  BY DEF IInv, TypeOK
<1>1. PICK m \in Messages :
        /\ m.no = last_no + 1 /\ published' = published \cup {m}
        /\ IF m.topic \in subscribed
           THEN unacked' = unacked \cup {m} /\ inbox' = Append(inbox, m)
           ELSE UNCHANGED <<unacked, inbox>>
  BY DEF Publish
<1>2. last_no' = last_no + 1
      /\ UNCHANGED <<connected, subscribing, subscribed, process, kafka,
                     history, bounds>>
  BY DEF Publish
<1>3. CASE m.topic \in subscribed
  <2>1. inbox' = Append(inbox, m) /\ unacked' = unacked \cup {m}
    BY <1>1, <1>3
  <2>2. inbox' \in Seq(Messages) /\ ElementsOf(inbox') = ElementsOf(inbox) \cup {m}
    BY <1>0, <2>1, AppendFacts
  <2>3. TypeOK'
    BY <1>0, <1>1, <1>2, <1>3, <2>1, <2>2 DEF TypeOK
  <2>4. HandOK'
    BY <1>0, <1>2, HandFrame DEF InKafka
  <2>5. OrderOK'
    <3>1. \A i \in 1..Len(inbox) : inbox[i].no < m.no
      BY <1>0, <1>1, Elements DEF OrderOK, UpTo
    <3>2. Rising(inbox')
      BY <1>0, <2>1, <3>1, AppendOrdered DEF OrderOK
    <3>3. UpTo(inbox', last_no + 1)
      <4>1. UpTo(inbox, last_no + 1)
        BY <1>0, Elements DEF OrderOK, UpTo
      <4>2. QED BY <1>0, <1>1, <2>1, <4>1, AppendBelow
    <3>4. hand.no \in Nat
      BY <1>0, Numbered DEF TypeOK
    <3>5. \A i \in 1..Len(inbox') : hand.no < inbox'[i].no
      <4>1. /\ Len(inbox') = Len(inbox) + 1 /\ inbox'[Len(inbox) + 1] = m
            /\ \A i \in 1..Len(inbox) : inbox'[i] = inbox[i]
        BY <1>0, <2>1, AppendFacts
      <4>2. \A i \in 1..(Len(inbox) + 1) : i \in 1..Len(inbox) \/ i = Len(inbox) + 1
        BY <1>0, Elements
      <4>3. hand.no < m.no
        BY <1>0, <1>1, <3>4 DEF OrderOK
      <4>4. QED BY <1>0, <4>1, <4>2, <4>3 DEF OrderOK
    <3>6. ASSUME NEW k \in KAFKA_TOPICS
          PROVE  /\ Below(kafka[k], inbox') /\ Below(buffer[k], inbox')
                 /\ UpTo(kafka[k], last_no + 1) /\ UpTo(buffer[k], last_no + 1)
      <4>1. kafka[k] \in Seq(Messages) /\ buffer[k] \in Seq(Messages)
        BY <1>0, <3>6 DEF TypeOK
      <4>2. /\ \A i \in 1..Len(kafka[k]) :
                 kafka[k][i].no <= last_no /\ kafka[k][i].no \in Nat
            /\ \A i \in 1..Len(buffer[k]) :
                 buffer[k][i].no <= last_no /\ buffer[k][i].no \in Nat
        BY <1>0, <3>6, <4>1, Elements DEF OrderOK, UpTo
      <4>3. Below(kafka[k], inbox) /\ Below(buffer[k], inbox)
        BY <1>0, <3>6 DEF OrderOK
      <4>4. Below(kafka[k], inbox') /\ Below(buffer[k], inbox')
        <5>1. /\ \A i \in 1..Len(kafka[k]) : kafka[k][i].no < m.no
              /\ \A i \in 1..Len(buffer[k]) : buffer[k][i].no < m.no
          BY <1>0, <1>1, <4>2
        <5>2. inbox \in Seq(Messages)
          BY <1>0
        <5>3. Below(kafka[k], Append(inbox, m)) /\ Below(buffer[k], Append(inbox, m))
          BY <4>1, <4>3, <5>1, <5>2, AppendBelow
        <5>4. QED BY <2>1, <5>3
      <4>5. QED BY <1>0, <4>2, <4>4 DEF UpTo
    <3>7. QED
      BY <1>0, <1>2, <3>2, <3>3, <3>4, <3>5, <3>6 DEF OrderOK
  <2>6. QED BY <2>3, <2>4, <2>5 DEF IInv
<1>4. CASE m.topic \notin subscribed
  <2>1. UNCHANGED <<unacked, inbox>>
    BY <1>1, <1>4
  <2>2. TypeOK'
    BY <1>0, <1>1, <1>2, <2>1 DEF TypeOK
  <2>3. HandOK'
    BY <1>0, <1>2, HandFrame DEF InKafka
  <2>4. OrderOK'
    <3>1. \A s \in Seq(Messages) : UpTo(s, last_no) => UpTo(s, last_no + 1)
      BY <1>0, Elements DEF UpTo
    <3>2. /\ hand.no <= last_no + 1
          /\ \A k \in KAFKA_TOPICS : kafka[k] \in Seq(Messages)
                                   /\ buffer[k] \in Seq(Messages)
      BY <1>0, Numbered DEF OrderOK, TypeOK
    <3>3. QED BY <1>0, <1>2, <2>1, <3>1, <3>2 DEF OrderOK
  <2>5. QED BY <2>2, <2>3, <2>4 DEF IInv
<1>5. QED BY <1>3, <1>4

LEMMA SessionSteps ==
  ASSUME IInv,
         \/ Subscribe \/ ConnectionLost \/ Start \/ Connect \/ OnConnect
         \/ LoopEnds \/ Interrupt \/ Close \/ FlushRaises \/ Crash
  PROVE  IInv'
<1> USE DEF Subscribe, ConnectionLost, Start, Connect, OnConnect, LoopEnds,
            Interrupt, Close, FlushRaises, Crash, SessionOver, Fault
<1>0. TypeOK /\ HandOK /\ OrderOK
  BY DEF IInv
<1>1. HandOK'
  <2>1. \/ kafka' = kafka /\ acked' = acked /\ pc' \notin {"get", "ack"}
        \/ kafka' = kafka /\ acked' = acked /\ pc' = pc /\ hand' = hand
    OBVIOUS
  <2>2. QED BY <1>0, <2>1, HandFrame DEF InKafka
<1>2. OrderOK'
  <2>1. /\ last_no' = last_no /\ kafka' = kafka
        /\ buffer' = buffer \/ buffer' = Empty
        /\ inbox' = inbox \/ inbox' = <<>>
        /\ hand' = hand \/ hand' = NoMessage
    OBVIOUS
  <2>2. last_no \in Nat /\ inbox \in Seq(Messages)
    BY <1>0 DEF TypeOK
  <2>3. QED BY <1>0, <2>1, <2>2, OrderFrame
<1>3. TypeOK'
  <2>1. /\ <<>> \in Seq(Messages) /\ <<>> \in Seq(KAFKA_TOPICS)
        /\ ElementsOf(<<>>) = {} /\ MQTT_TOPICS \in Seq(KAFKA_TOPICS)
        /\ Empty \in [KAFKA_TOPICS -> Seq(Messages)]
    BY EmptyOrdered DEF MQTT_TOPICS, KAFKA_TOPICS, Empty
  <2>2. UNCHANGED <<published, last_no, kafka, history>>
    OBVIOUS
  <2>3. /\ connected' \in BOOLEAN /\ subscribed' \subseteq KAFKA_TOPICS
        /\ subscribing' \in Seq(KAFKA_TOPICS)
        /\ unacked' \subseteq Messages /\ inbox' \in Seq(Messages)
        /\ ~connected' => subscribed' = {} /\ subscribing' = <<>> /\ unacked' = {}
        /\ ElementsOf(inbox)' \subseteq unacked'
    <3>1. CASE Subscribe
      <4>1. connected /\ Head(subscribing) \in KAFKA_TOPICS
            /\ Tail(subscribing) \in Seq(KAFKA_TOPICS)
        BY <1>0, <3>1 DEF TypeOK
      <4>2. QED BY <1>0, <3>1, <4>1 DEF TypeOK
    <3>2. CASE OnConnect
      BY <1>0, <2>1, <3>2 DEF TypeOK
    <3>3. CASE SessionOver
      BY <2>1, <3>3
    <3>4. CASE UNCHANGED session
      BY <1>0, <3>4 DEF TypeOK
    <3>5. QED BY <3>1, <3>2, <3>3, <3>4
  <2>4. /\ pc' \in {"off", "connect", "loop", "get", "ack", "closing"}
        /\ hand' \in Messages \cup {NoMessage} /\ disconnecting' \in BOOLEAN
        /\ buffer' \in [KAFKA_TOPICS -> Seq(Messages)]
    <3>1. /\ pc' \in {pc, "off", "connect", "loop", "closing"}
          /\ hand' \in {hand, NoMessage} /\ disconnecting' \in {disconnecting, FALSE}
          /\ buffer' \in {buffer, Empty}
      OBVIOUS
    <3>2. QED BY <1>0, <2>1, <3>1 DEF TypeOK
  <2>5. starts' \in Nat /\ drops' \in Nat /\ faults' \in Nat
    <3>1. /\ starts' \in {starts, starts + 1} /\ drops' \in {drops, drops + 1}
          /\ faults' \in {faults, faults + 1}
      OBVIOUS
    <3>2. QED BY <1>0, <3>1 DEF TypeOK
  <2>6. QED BY <1>0, <2>2, <2>3, <2>4, <2>5 DEF TypeOK
<1>4. QED BY <1>1, <1>2, <1>3 DEF IInv

\* The broker may drop the message at hand: no copy of it is in the inbox.
LEMMA GetSteps ==
  ASSUME IInv, GetReturns \/ GetRaises \/ Ack
  PROVE  IInv'
<1>0. TypeOK /\ HandOK /\ OrderOK
  BY DEF IInv
<1>1. hand \in Messages
  BY <1>0 DEF HandOK, GetReturns, GetRaises, Ack
<1>2. /\ UNCHANGED <<published, last_no, connected, subscribing, subscribed>>
      /\ UNCHANGED <<inbox, hand, buffer, kafka>>
  BY DEF GetReturns, GetRaises, Ack, GiveUp
<1>3. OrderOK'
  BY <1>0, <1>2, OrderFrame DEF TypeOK
<1>4. HandOK'
  BY <1>0, <1>2 DEF GetReturns, GetRaises, Ack, GiveUp, HandOK, AckedIsInKafka, InKafka
<1>5. hand \notin ElementsOf(inbox)
  <2>1. \A i \in 1..Len(inbox) : hand.no < inbox[i].no
    BY <1>0 DEF OrderOK
  <2>2. hand.no \in Nat
    BY <1>1, Numbered
  <2>3. QED BY <2>1, <2>2 DEF ElementsOf
<1>6. TypeOK'
  <2>1. CASE GetReturns
    BY <1>0, <2>1 DEF GetReturns, TypeOK
  <2>2. CASE GetRaises
    BY <1>0, <1>1, <2>2 DEF GetRaises, GiveUp, Fault, TypeOK
  <2>3. CASE Ack
    BY <1>0, <1>1, <1>5, <2>3 DEF Ack, TypeOK
  <2>4. QED BY <2>1, <2>2, <2>3
<1>7. QED BY <1>3, <1>4, <1>6 DEF IInv

\* on_message takes the oldest message: all of Kafka and of the buffer is
\* older, all of the inbox younger.
LEMMA TakeOrder ==
  ASSUME TypeOK, OrderOK, inbox # <<>>
  PROVE  /\ Head(inbox) \in Messages /\ Tail(inbox) \in Seq(Messages)
         /\ ElementsOf(Tail(inbox)) \subseteq unacked
         /\ Rising(Tail(inbox)) /\ UpTo(Tail(inbox), last_no)
         /\ \A i \in 1..Len(Tail(inbox)) : Head(inbox).no < Tail(inbox)[i].no
         /\ Head(inbox).no <= last_no
         /\ \A k \in KAFKA_TOPICS :
              /\ Below(kafka[k], Tail(inbox)) /\ Below(buffer[k], Tail(inbox))
              /\ \A i \in 1..Len(kafka[k]) : kafka[k][i].no < Head(inbox).no
              /\ \A i \in 1..Len(buffer[k]) : buffer[k][i].no < Head(inbox).no
<1>1. inbox \in Seq(Messages) /\ last_no \in Nat /\ ElementsOf(inbox) \subseteq unacked
      /\ \A k \in KAFKA_TOPICS : kafka[k] \in Seq(Messages) /\ buffer[k] \in Seq(Messages)
  BY DEF TypeOK
<1>2. /\ Head(inbox) \in Messages /\ Tail(inbox) \in Seq(Messages)
      /\ ElementsOf(Tail(inbox)) \subseteq unacked
  BY <1>1, TailFacts
<1>3. /\ Rising(Tail(inbox)) /\ UpTo(Tail(inbox), last_no) /\ Head(inbox).no <= last_no
      /\ \A i \in 1..Len(Tail(inbox)) : Head(inbox).no < Tail(inbox)[i].no
  BY <1>1, TailOrdered DEF OrderOK
<1>4. ASSUME NEW k \in KAFKA_TOPICS
      PROVE  /\ Below(kafka[k], Tail(inbox)) /\ Below(buffer[k], Tail(inbox))
             /\ \A i \in 1..Len(kafka[k]) : kafka[k][i].no < Head(inbox).no
             /\ \A i \in 1..Len(buffer[k]) : buffer[k][i].no < Head(inbox).no
  BY <1>1, <1>4, TailOrdered DEF OrderOK
<1>5. QED BY <1>2, <1>3, <1>4

LEMMA GiveUpStep ==
  ASSUME IInv, Reject \/ SendRaises
  PROVE  IInv'
<1>0. TypeOK /\ HandOK /\ OrderOK /\ inbox # <<>>
  BY DEF IInv, Reject, SendRaises
<1>1. /\ hand' = Head(inbox) /\ inbox' = Tail(inbox) /\ pc' = "loop"
      /\ failed' = failed \cup {Head(inbox)} /\ disconnecting' = TRUE
      /\ UNCHANGED <<published, last_no, connected, subscribing, subscribed>>
      /\ UNCHANGED <<unacked, buffer, kafka, acked, starts, drops>>
      /\ faults' = faults \/ faults' = faults + 1
  BY DEF Reject, SendRaises, GiveUp, Fault
<1>2. TypeOK'
  BY <1>0, <1>1, TakeOrder DEF TypeOK
<1>3. HandOK'
  BY <1>0, <1>1, HandFrame DEF InKafka
<1>4. OrderOK'
  BY <1>0, <1>1, TakeOrder DEF OrderOK
<1>5. QED BY <1>2, <1>3, <1>4 DEF IInv

LEMMA SendStep ==
  ASSUME IInv, Send
  PROVE  IInv'
<1> DEFINE m == Head(inbox)
<1>0. TypeOK /\ HandOK /\ OrderOK /\ inbox # <<>>
  BY DEF IInv, Send
<1>1. m \in Messages /\ m.kind \in KAFKA_TOPICS
  BY <1>0, TakeOrder DEF Send, Messages
<1>2. /\ hand' = m /\ inbox' = Tail(inbox) /\ pc' = "get"
      /\ buffer' = [buffer EXCEPT ![m.kind] = Append(buffer[m.kind], m)]
      /\ UNCHANGED <<published, last_no, connected, subscribing, subscribed>>
      /\ UNCHANGED <<unacked, disconnecting, kafka, history, bounds>>
  BY DEF Send
<1>3. /\ m \in Messages /\ inbox' \in Seq(Messages)
      /\ ElementsOf(inbox') \subseteq unacked
      /\ Rising(inbox') /\ UpTo(inbox', last_no)
      /\ \A i \in 1..Len(inbox') : m.no < inbox'[i].no
      /\ m.no <= last_no
      /\ \A k \in KAFKA_TOPICS :
           /\ Below(kafka[k], inbox') /\ Below(buffer[k], inbox')
           /\ \A i \in 1..Len(kafka[k]) : kafka[k][i].no < m.no
           /\ \A i \in 1..Len(buffer[k]) : buffer[k][i].no < m.no
  BY <1>0, <1>2, TakeOrder
<1> HIDE DEF m
<1>4. /\ buffer \in [KAFKA_TOPICS -> Seq(Messages)] /\ last_no \in Nat
      /\ kafka \in [KAFKA_TOPICS -> Seq(Messages)]
  BY <1>0 DEF TypeOK
<1>5. TypeOK'
  <2>1. Append(buffer[m.kind], m) \in Seq(Messages)
    BY <1>1, <1>4, AppendFacts
  <2>2. buffer' \in [KAFKA_TOPICS -> Seq(Messages)]
    BY <1>2, <1>4, <2>1
  <2>3. QED BY <1>0, <1>2, <1>3, <2>2 DEF TypeOK
<1>6. HandOK'
  BY <1>0, <1>1, <1>2 DEF HandOK, AckedIsInKafka, InKafka
<1>7. OrderOK'
  <2>1. ASSUME NEW k \in KAFKA_TOPICS
        PROVE  /\ Rising(kafka[k]) /\ Rising(buffer'[k])
               /\ Below(kafka[k], buffer'[k]) /\ Below(buffer'[k], inbox')
               /\ UpTo(kafka[k], last_no) /\ UpTo(buffer'[k], last_no)
    <3>1. CASE k # m.kind
      <4>1. buffer'[k] = buffer[k]
        BY <1>2, <1>4, <3>1
      <4>2. QED BY <1>0, <1>3, <2>1, <4>1 DEF OrderOK
    <3>2. CASE k = m.kind
      <4>1. buffer'[k] = Append(buffer[k], m)
        BY <1>1, <1>2, <1>4, <3>2
      <4>2. buffer[k] \in Seq(Messages) /\ kafka[k] \in Seq(Messages)
        BY <1>4, <2>1
      <4>3. /\ Rising(kafka[k]) /\ Rising(buffer[k]) /\ Below(kafka[k], buffer[k])
            /\ UpTo(kafka[k], last_no) /\ UpTo(buffer[k], last_no)
        BY <1>0, <2>1 DEF OrderOK
      <4>4. Rising(buffer'[k])
        BY <1>3, <2>1, <4>1, <4>2, <4>3, AppendOrdered
      <4>5. Below(kafka[k], buffer'[k])
        BY <1>3, <2>1, <4>1, <4>2, <4>3, AppendBelow
      <4>6. Below(buffer'[k], inbox') /\ UpTo(buffer'[k], last_no)
        BY <1>3, <1>4, <2>1, <4>1, <4>2, <4>3, AppendBelow
      <4>7. QED BY <4>3, <4>4, <4>5, <4>6
    <3>3. QED BY <3>1, <3>2
  <2>2. QED BY <1>2, <1>3, <2>1 DEF OrderOK
<1>8. QED BY <1>5, <1>6, <1>7 DEF IInv

\* The producer takes the oldest record, and writes it behind all older ones.
LEMMA WriteStep ==
  ASSUME IInv, Write \/ WriteFails
  PROVE  IInv'
<1>0. TypeOK /\ HandOK /\ OrderOK
  BY DEF IInv
<1>1. PICK t \in KAFKA_TOPICS :
        /\ buffer[t] # <<>>
        /\ buffer' = [buffer EXCEPT ![t] = Tail(buffer[t])]
        /\ \/ kafka' = [kafka EXCEPT ![t] = Append(kafka[t], Head(buffer[t]))]
           \/ kafka' = kafka
  BY DEF Write, WriteFails
<1>2. /\ UNCHANGED <<published, last_no, session, pc, hand, disconnecting>>
      /\ UNCHANGED <<history, starts, drops>>
      /\ faults' \in {faults, faults + 1}
  BY DEF Write, WriteFails, Fault
<1>3. /\ buffer \in [KAFKA_TOPICS -> Seq(Messages)] /\ last_no \in Nat
      /\ kafka \in [KAFKA_TOPICS -> Seq(Messages)] /\ inbox \in Seq(Messages)
  BY <1>0 DEF TypeOK
<1> DEFINE m == Head(buffer[t])
<1>4. m \in Messages /\ Tail(buffer[t]) \in Seq(Messages)
  BY <1>1, <1>3, TailFacts
<1>5. /\ buffer'[t] = Tail(buffer[t])
      /\ kafka'[t] = Append(kafka[t], m) \/ kafka'[t] = kafka[t]
      /\ \A k \in KAFKA_TOPICS : k # t => buffer'[k] = buffer[k] /\ kafka'[k] = kafka[k]
  BY <1>1, <1>3
<1> HIDE DEF m
<1>6. TypeOK'
  <2>1. Append(kafka[t], m) \in Seq(Messages)
    BY <1>3, <1>4, AppendFacts
  <2>2. /\ buffer' \in [KAFKA_TOPICS -> Seq(Messages)]
        /\ kafka' \in [KAFKA_TOPICS -> Seq(Messages)]
    BY <1>1, <1>3, <1>4, <2>1 DEF m
  <2>3. QED BY <1>0, <1>2, <2>2 DEF TypeOK
<1>7. HandOK'
  <2>1. \A k \in KAFKA_TOPICS : ElementsOf(kafka[k]) \subseteq ElementsOf(kafka'[k])
    <3>1. ElementsOf(Append(kafka[t], m)) = ElementsOf(kafka[t]) \cup {m}
      BY <1>3, <1>4, AppendFacts
    <3>2. QED BY <1>5, <3>1
  <2>2. InKafka \subseteq InKafka'
    BY <2>1 DEF InKafka
  <2>3. QED BY <1>0, <1>2, <2>2, HandFrame
<1>8. OrderOK'
  <2>1. /\ Rising(kafka[t]) /\ Rising(buffer[t]) /\ Below(kafka[t], buffer[t])
        /\ Below(kafka[t], inbox) /\ Below(buffer[t], inbox)
        /\ UpTo(kafka[t], last_no) /\ UpTo(buffer[t], last_no)
        /\ kafka[t] \in Seq(Messages) /\ buffer[t] \in Seq(Messages)
        /\ buffer[t] # <<>>
    BY <1>0, <1>1, <1>3 DEF OrderOK
  <2>2. /\ Rising(buffer'[t]) /\ Below(kafka[t], buffer'[t]) /\ Below(buffer'[t], inbox)
        /\ UpTo(buffer'[t], last_no) /\ m.no <= last_no
        /\ \A i \in 1..Len(buffer'[t]) : m.no < buffer'[t][i].no
        /\ \A i \in 1..Len(inbox) : m.no < inbox[i].no
        /\ \A i \in 1..Len(kafka[t]) : kafka[t][i].no < m.no
    BY <1>3, <1>5, <2>1, TailOrdered DEF m
  <2>3. buffer'[t] \in Seq(Messages)
    BY <1>4, <1>5
  <2>4. CASE kafka'[t] = Append(kafka[t], m)
    <3>1. Rising(kafka'[t])
      BY <1>4, <2>1, <2>2, <2>4, AppendOrdered
    <3>2. Below(kafka'[t], buffer'[t])
      <4>1. /\ Below(kafka[t], Tail(buffer[t])) /\ Tail(buffer[t]) \in Seq(Messages)
            /\ \A i \in 1..Len(Tail(buffer[t])) : m.no < Tail(buffer[t])[i].no
        BY <1>5, <2>2, <2>3
      <4>2. Below(Append(kafka[t], m), Tail(buffer[t]))
        BY <1>4, <2>1, <4>1, AppendBelow
      <4>3. QED BY <1>5, <2>4, <4>2
    <3>3. Below(kafka'[t], inbox) /\ UpTo(kafka'[t], last_no)
      BY <1>3, <1>4, <2>1, <2>2, <2>4, AppendBelow
    <3>4. QED BY <1>0, <1>2, <1>5, <2>2, <3>1, <3>2, <3>3 DEF OrderOK
  <2>5. CASE kafka'[t] = kafka[t]
    BY <1>0, <1>2, <1>5, <2>1, <2>2, <2>5 DEF OrderOK
  <2>6. QED BY <1>5, <2>4, <2>5
<1>9. QED BY <1>6, <1>7, <1>8 DEF IInv
-----------------------------------------------------------------------------
(* Theorems.                                                               *)

LEMMA StepInvariant == IInv /\ [Next]_vars => IInv'
<1> SUFFICES ASSUME IInv, [Next]_vars PROVE IInv'
  OBVIOUS
<1>1. CASE Publish
  BY <1>1, PublishStep
<1>2. CASE \/ Subscribe \/ ConnectionLost \/ Start \/ Connect \/ OnConnect
           \/ LoopEnds \/ Interrupt \/ Close \/ FlushRaises \/ Crash
  BY <1>2, SessionSteps
<1>3. CASE GetReturns \/ GetRaises \/ Ack
  BY <1>3, GetSteps
<1>4. CASE Reject \/ SendRaises
  BY <1>4, GiveUpStep
<1>5. CASE Send
  BY <1>5, SendStep
<1>6. CASE Write \/ WriteFails
  BY <1>6, WriteStep
<1>7. CASE UNCHANGED vars
  <2>1. TypeOK'
    BY <1>7 DEF vars, IInv, TypeOK
  <2>2. HandOK'
    BY <1>7 DEF vars, IInv, HandOK, AckedIsInKafka, InKafka
  <2>3. OrderOK'
    BY <1>7 DEF vars, IInv, OrderOK
  <2>4. QED BY <2>1, <2>2, <2>3 DEF IInv
<1>8. QED
  BY <1>1, <1>2, <1>3, <1>4, <1>5, <1>6, <1>7 DEF Next, Work, Finished

LEMMA Invariant == Spec => []IInv
<1>1. QED BY InitInvariant, StepInvariant, PTL DEF Spec

\* The state keeps its shape: the client has only messages the broker holds
\* for the session, and a session that is over holds none.
THEOREM BridgeTypes == Spec => []TypeOK
<1>1. IInv => TypeOK
  BY DEF IInv
<1>2. QED BY <1>1, Invariant, PTL

\* A PUBACK follows the record's arrival in Kafka, with any number of lost
\* connections, timeouts, failing writes, crashes and restarts.
THEOREM AckSafe == Spec => []AckedIsInKafka
<1>1. IInv => AckedIsInKafka
  BY DEF IInv, HandOK
<1>2. QED BY <1>1, Invariant, PTL

\* No record of a stream overtakes or repeats another, for any number of
\* messages and faults.
THEOREM OrderSafe == Spec => []LogInOrder
<1>1. IInv => LogInOrder
  BY DEF IInv, OrderOK, LogInOrder, Rising
<1>2. QED BY <1>1, Invariant, PTL
=============================================================================
