-------------------------- MODULE MCKafkaConsumer --------------------------
(* Constants of the instances of KafkaConsumer that TLC checks.            *)
EXTENDS KafkaConsumer

CONSTANTS p1, p2, e1, e2, e3, a, b

\* e1 and e2 belong to streams of one partition, e3 to another one.
TwoPartitions == [e \in EventIds |-> IF e = e3 THEN p2 ELSE p1]
OnePartition == [e \in EventIds |-> p1]

AllKinds == {"valid", "incomplete", "invalid", "opaque"}
Readable == {"valid", "invalid"}
=============================================================================
