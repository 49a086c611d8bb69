----------------------- MODULE MC_KafkaBatchConsumer -----------------------
(* Model values and bounds for checking KafkaBatchConsumer with TLC.       *)
EXTENDS KafkaBatchConsumer

CONSTANTS p1, p2

OnePartition == {p1}
TwoPartitions == {p1, p2}
=============================================================================
