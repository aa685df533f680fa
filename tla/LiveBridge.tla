----------------------------- MODULE LiveBridge -----------------------------
(***************************************************************************)
(* streaming/bridge/live.py: the process that takes messages from the MQTT *)
(* broker, publishes them to Kafka and only then acknowledges them.  Its   *)
(* callbacks run in loop_forever(), on one thread; the Kafka producer has  *)
(* a thread of its own that empties its buffer.                            *)
(*                                                                         *)
(* External, modelled from how the code uses it.  The MQTT session: Client *)
(* is built without clean_session, so the broker forgets subscriptions and *)
(* unacknowledged messages with the connection (docker/mosquitto.conf      *)
(* persists nothing either).  loop_forever() reconnects after a lost       *)
(* connection, and returns after disconnect(), which a callback only       *)
(* requests: messages that arrive before the DISCONNECT is written are     *)
(* still handled.  The producer keeps the order of a stream's records, and *)
(* get(timeout=10) may give up on a record that is written later.          *)
(*                                                                         *)
(* Limits: the messages of one stream, hence one partition per topic.      *)
(***************************************************************************)
EXTENDS Naturals, Sequences

CONSTANTS
  PublishMax,   \* bound: messages the publishers hand to the broker
  MaxStarts,    \* bound: how often the process is started
  MaxDrops,     \* bound: lost connections
  MaxFaults     \* bound: failing Kafka calls, interrupts and crashes

ASSUME BridgeAssumption ==
  /\ PublishMax \in Nat /\ MaxStarts \in Nat
  /\ MaxDrops \in Nat /\ MaxFaults \in Nat

\* gapguard/telemetry and gapguard/event: KAFKA_TOPICS names both sides.
KAFKA_TOPICS == {"telemetry", "event"}
MQTT_TOPICS == <<"telemetry", "event">>

\* A publication: the MQTT topic it is published to and what process_message
\* makes of its payload.  The payload alone decides about the Kafka topic.
Messages == [no : 1..PublishMax, topic : KAFKA_TOPICS,
             kind : KAFKA_TOPICS \cup {"invalid"}]

VARIABLES
  \* the publishers and the MQTT broker
  published,      \* messages whose publication the broker acknowledged
  last_no,        \* how many there are
  connected,      \* there is a session
  subscribing,    \* topics whose SUBSCRIBE the broker has still to process
  subscribed,     \* topics the session is subscribed to
  unacked,        \* messages the broker holds for the session
  inbox,          \* those the client has not handled yet, in order
  \* the bridge process
  pc,             \* "off", "connect", "loop", "get", "ack", "closing"
  hand,           \* the message on_message works on
  disconnecting,  \* client.disconnect() was called
  buffer,         \* records in the producer's buffer, per topic
  \* Kafka
  kafka,          \* the topics
  \* history
  acked,          \* messages whose PUBACK reached the broker
  failed,         \* messages on_message gave up
  starts, drops, faults

session == <<connected, subscribing, subscribed, unacked, inbox>>
process == <<pc, hand, disconnecting, buffer>>
history == <<acked, failed>>
bounds  == <<starts, drops, faults>>
vars == <<published, last_no, session, process, kafka, history, bounds>>

NoMessage == [no |-> 0]
Empty == [k \in KAFKA_TOPICS |-> <<>>]
ElementsOf(s) == {s[i] : i \in 1..Len(s)}
InKafka == UNION {ElementsOf(kafka[k]) : k \in KAFKA_TOPICS}
InBuffer == UNION {ElementsOf(buffer[k]) : k \in KAFKA_TOPICS}
-----------------------------------------------------------------------------
Init ==
  /\ published = {} /\ last_no = 0
  /\ connected = FALSE /\ subscribing = <<>> /\ subscribed = {}
  /\ unacked = {} /\ inbox = <<>>
  /\ pc = "off" /\ hand = NoMessage /\ disconnecting = FALSE
  /\ buffer = Empty /\ kafka = Empty
  /\ acked = {} /\ failed = {}
  /\ starts = 0 /\ drops = 0 /\ faults = 0

Fault == faults < MaxFaults /\ faults' = faults + 1
-----------------------------------------------------------------------------
(* The publishers and the broker.                                          *)

\* A QoS 1 publication is acknowledged whether or not a session wants it.
Publish ==
  /\ last_no < PublishMax /\ last_no' = last_no + 1
  /\ \E m \in Messages :
       /\ m.no = last_no + 1
       /\ published' = published \cup {m}
       /\ IF m.topic \in subscribed
          THEN unacked' = unacked \cup {m} /\ inbox' = Append(inbox, m)
          ELSE UNCHANGED <<unacked, inbox>>
  /\ UNCHANGED <<connected, subscribing, subscribed, process, kafka, history,
                 bounds>>

\* The broker processes the SUBSCRIBE packets one by one.
Subscribe ==
  /\ subscribing # <<>>
  /\ subscribed' = subscribed \cup {Head(subscribing)}
  /\ subscribing' = Tail(subscribing)
  /\ UNCHANGED <<published, last_no, connected, unacked, inbox, process,
                 kafka, history, bounds>>

\* Mutant: the broker keeps the messages, as for a persistent session.
SessionOverKeeps ==
  /\ connected' = FALSE /\ subscribing' = <<>> /\ subscribed' = {}
  /\ inbox' = <<>>
  /\ UNCHANGED unacked

\* The session ends and with it all the broker knew of it.
SessionOver ==
  /\ connected' = FALSE /\ subscribing' = <<>> /\ subscribed' = {}
  /\ unacked' = {} /\ inbox' = <<>>

ConnectionLost ==
  /\ connected /\ drops < MaxDrops /\ drops' = drops + 1
  /\ SessionOver
  /\ UNCHANGED <<published, last_no, process, kafka, history, starts, faults>>
-----------------------------------------------------------------------------
(* The process: main(), run_forever() and the callbacks.                   *)

Start ==
  /\ pc = "off" /\ starts < MaxStarts /\ starts' = starts + 1
  /\ pc' = "connect" /\ hand' = NoMessage /\ disconnecting' = FALSE
  /\ buffer' = Empty
  /\ UNCHANGED <<published, last_no, session, kafka, history, drops, faults>>

\* run_forever: connect() succeeds, or raises and ends the process.
Connect ==
  /\ pc = "connect"
  /\ \/ pc' = "loop" /\ UNCHANGED faults
     \/ pc' = "closing" /\ Fault
  /\ UNCHANGED <<published, last_no, session, hand, disconnecting, buffer,
                 kafka, history, starts, drops>>

\* Mutant: the topics are subscribed to only once, not by every on_connect.
OnConnectOnce ==
  /\ pc = "loop" /\ ~connected /\ ~disconnecting
  /\ connected' = TRUE
  /\ subscribing' = IF drops = 0 THEN MQTT_TOPICS ELSE <<>>
  /\ UNCHANGED <<published, last_no, subscribed, unacked, inbox, process,
                 kafka, history, bounds>>

\* The first connection, or the one loop_forever makes after a lost one: a
\* new session.  (A refused one only sets last_error.)
OnConnect ==
  /\ pc = "loop" /\ ~connected /\ ~disconnecting
  /\ connected' = TRUE /\ subscribing' = MQTT_TOPICS
  /\ UNCHANGED <<published, last_no, subscribed, unacked, inbox, process,
                 kafka, history, bounds>>

\* The except branch of on_message.
GiveUp(m) ==
  /\ failed' = failed \cup {m}
  /\ disconnecting' = TRUE
  /\ pc' = "loop"
  /\ UNCHANGED acked

\* Mutant: a message that is no good is skipped.
RejectSkips ==
  /\ pc = "loop" /\ inbox # <<>> /\ Head(inbox).kind = "invalid"
  /\ hand' = Head(inbox) /\ inbox' = Tail(inbox)
  /\ UNCHANGED <<published, last_no, connected, subscribing, subscribed,
                 unacked, pc, disconnecting, buffer, kafka, history, bounds>>

\* on_message: json.loads or prepare_publish raises.
Reject ==
  /\ pc = "loop" /\ inbox # <<>> /\ Head(inbox).kind = "invalid"
  /\ hand' = Head(inbox) /\ inbox' = Tail(inbox)
  /\ GiveUp(Head(inbox))
  /\ UNCHANGED <<published, last_no, connected, subscribing, subscribed,
                 unacked, buffer, kafka, bounds>>

\* on_message: the message is valid and send() takes the record.
Send ==
  /\ pc = "loop" /\ inbox # <<>> /\ Head(inbox).kind # "invalid"
  /\ hand' = Head(inbox) /\ inbox' = Tail(inbox)
  /\ buffer' = [buffer EXCEPT ![Head(inbox).kind] = Append(@, Head(inbox))]
  /\ pc' = "get"
  /\ UNCHANGED <<published, last_no, connected, subscribing, subscribed,
                 unacked, disconnecting, kafka, history, bounds>>

\* on_message: send() itself raises.
SendRaises ==
  /\ pc = "loop" /\ inbox # <<>> /\ Head(inbox).kind # "invalid" /\ Fault
  /\ hand' = Head(inbox) /\ inbox' = Tail(inbox)
  /\ GiveUp(Head(inbox))
  /\ UNCHANGED <<published, last_no, connected, subscribing, subscribed,
                 unacked, buffer, kafka, starts, drops>>

\* The producer's thread writes the oldest record of a topic...
Write ==
  /\ pc # "off"
  /\ \E k \in KAFKA_TOPICS :
       /\ buffer[k] # <<>>
       /\ kafka' = [kafka EXCEPT ![k] = Append(@, Head(buffer[k]))]
       /\ buffer' = [buffer EXCEPT ![k] = Tail(@)]
  /\ UNCHANGED <<published, last_no, session, pc, hand, disconnecting,
                 history, bounds>>

\* ...or gives it up.
WriteFails ==
  /\ pc # "off" /\ Fault
  /\ \E k \in KAFKA_TOPICS :
       buffer[k] # <<>> /\ buffer' = [buffer EXCEPT ![k] = Tail(@)]
  /\ UNCHANGED <<published, last_no, session, pc, hand, disconnecting, kafka,
                 history, starts, drops>>

\* Mutant: send() is not waited for.
GetReturnsAtOnce ==
  /\ pc = "get" /\ pc' = "ack"
  /\ UNCHANGED <<published, last_no, session, hand, disconnecting, buffer,
                 kafka, history, bounds>>

\* get() returns: Kafka has the record.
GetReturns ==
  /\ pc = "get" /\ hand \in InKafka
  /\ pc' = "ack"
  /\ UNCHANGED <<published, last_no, session, hand, disconnecting, buffer,
                 kafka, history, bounds>>

\* Mutant: a timeout is answered by sending the record again.
GetRaisesAndSendsAgain ==
  /\ pc = "get" /\ Fault
  /\ buffer' = [buffer EXCEPT ![hand.kind] = Append(@, hand)]
  /\ UNCHANGED <<published, last_no, session, pc, hand, disconnecting,
                 kafka, history, starts, drops>>

\* get() raises: the record was given up, or 10 seconds have passed.
GetRaises ==
  /\ pc = "get"
  /\ IF hand \in InKafka \cup InBuffer THEN Fault ELSE UNCHANGED faults
  /\ GiveUp(hand)
  /\ UNCHANGED <<published, last_no, session, hand, buffer, kafka, starts,
                 drops>>

\* client.ack: the PUBACK reaches the broker unless the connection is gone or
\* a DISCONNECT is queued before it.
Ack ==
  /\ pc = "ack" /\ pc' = "loop"
  /\ IF connected /\ ~disconnecting
     THEN unacked' = unacked \ {hand} /\ acked' = acked \cup {hand}
     ELSE UNCHANGED <<unacked, acked>>
  /\ UNCHANGED <<published, last_no, connected, subscribing, subscribed,
                 inbox, hand, disconnecting, buffer, kafka, failed, bounds>>

\* The DISCONNECT is written, loop_forever returns and main() calls close().
LoopEnds ==
  /\ pc = "loop" /\ disconnecting
  /\ SessionOver
  /\ pc' = "closing"
  /\ UNCHANGED <<published, last_no, hand, disconnecting, buffer, kafka,
                 history, bounds>>

\* A signal ends run_forever() wherever it is.
Interrupt ==
  /\ pc \in {"loop", "get", "ack"} /\ Fault
  /\ SessionOver
  /\ pc' = "closing"
  /\ UNCHANGED <<published, last_no, hand, disconnecting, buffer, kafka,
                 history, starts, drops>>

\* close(): flush() waits until the buffer is empty...
Close ==
  /\ pc = "closing" /\ buffer = Empty
  /\ pc' = "off"
  /\ UNCHANGED <<published, last_no, session, hand, disconnecting, buffer,
                 kafka, history, bounds>>

\* ...or raises after 10 seconds.
FlushRaises ==
  /\ pc = "closing" /\ Fault
  /\ pc' = "off" /\ buffer' = Empty
  /\ UNCHANGED <<published, last_no, session, hand, disconnecting, kafka,
                 history, starts, drops>>

Crash ==
  /\ pc # "off" /\ Fault
  /\ SessionOver
  /\ pc' = "off" /\ buffer' = Empty
  /\ UNCHANGED <<published, last_no, hand, disconnecting, kafka, history,
                 starts, drops>>

\* Nothing is left to publish, and the process has ended for good or waits.
Finished ==
  /\ last_no = PublishMax
  /\ \/ pc = "off" /\ starts = MaxStarts
     \/ pc = "loop" /\ connected /\ subscribing = <<>> /\ inbox = <<>>
  /\ UNCHANGED vars

Work == \/ Subscribe \/ Connect \/ OnConnect \/ Reject \/ Send \/ Write
        \/ GetReturns \/ GetRaises \/ Ack \/ LoopEnds \/ Close

Next == \/ Publish \/ ConnectionLost \/ Start \/ Work \/ SendRaises
        \/ WriteFails \/ Interrupt \/ FlushRaises \/ Crash \/ Finished

Spec == Init /\ [][Next]_vars

\* The process runs, calls return, Kafka and the broker answer.  Nobody is
\* obliged to publish, and nobody to start the process again.
FairSpec == Spec /\ WF_vars(Work)
-----------------------------------------------------------------------------
\* The shape of the state; the broker holds messages for a session only, the
\* client has them from the broker.
TypeOK ==
  /\ published \subseteq Messages /\ last_no \in Nat
  /\ connected \in BOOLEAN /\ subscribed \subseteq KAFKA_TOPICS
  /\ subscribing \in Seq(KAFKA_TOPICS)
  /\ unacked \subseteq Messages /\ inbox \in Seq(Messages)
  /\ pc \in {"off", "connect", "loop", "get", "ack", "closing"}
  /\ hand \in Messages \cup {NoMessage} /\ disconnecting \in BOOLEAN
  /\ buffer \in [KAFKA_TOPICS -> Seq(Messages)]
  /\ kafka \in [KAFKA_TOPICS -> Seq(Messages)]
  /\ acked \subseteq Messages /\ failed \subseteq Messages
  /\ starts \in Nat /\ drops \in Nat /\ faults \in Nat
  /\ ~connected => subscribed = {} /\ subscribing = <<>> /\ unacked = {}
  /\ ElementsOf(inbox) \subseteq unacked

\* A message is acknowledged to the MQTT broker only when Kafka has it,
\* whatever timeouts, lost connections and late writes happened.
AckedIsInKafka == acked \subseteq InKafka

\* A topic holds the messages of a stream in the order of their publication
\* and none of them twice: what get() gave up and was written later does not
\* overtake, and nothing is delivered to the bridge a second time.
LogInOrder ==
  \A k \in KAFKA_TOPICS : \A i, j \in 1..Len(kafka[k]) :
    i < j => kafka[k][i].no < kafka[k][j].no

\* "Leave the MQTT QoS 1 message unacknowledged and reconnect so the broker
\* can redeliver it": a valid message on_message gave up is still held by the
\* broker, or has reached Kafka.  Refuted: disconnect() ends the session and
\* the process.
FailedIsKept ==
  \A m \in failed : m.kind # "invalid" => m \in unacked \cup InKafka

\* The bridge never sits on a message: the broker gets an acknowledgement, or
\* the session ends.
EveryMessageSettles ==
  \A n \in 1..PublishMax :
    (\E m \in unacked : m.no = n) ~> ~(\E m \in unacked : m.no = n)

\* After a lost connection the bridge is subscribed again, to both topics,
\* unless it gives up a message or is stopped first.
ListensAgain ==
  pc = "loop" ~> (subscribed = KAFKA_TOPICS \/ pc \in {"off", "closing"})
=============================================================================
