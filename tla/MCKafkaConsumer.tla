--------------------------- MODULE MCKafkaConsumer --------------------------
(***************************************************************************)
(* KafkaConsumer for TLC: one or two partitions of a few messages.         *)
(***************************************************************************)
EXTENDS KafkaConsumer

CONSTANTS a, b

OnePartition == {a}
TwoPartitions == {a, b}

FromTheBeginning == [p \in Partitions |-> 0]
FirstFromOne == [p \in Partitions |-> IF p = a THEN 1 ELSE 0]
FromTwo == [p \in Partitions |-> 2]

AllDelayed == {}
NoneDelayed == Messages
FirstIsTombstone == {[part |-> a, off |-> 0]}
SecondIsTombstone == {[part |-> a, off |-> 1]}

AllErrors == ErrorKinds
RetriedErrors == {"plain"}
NoErrors == {}
=============================================================================
