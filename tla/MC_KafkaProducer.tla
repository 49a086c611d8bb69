-------------------------- MODULE MC_KafkaProducer --------------------------
(* Model values and bounds for checking KafkaProducer with TLC.            *)
EXTENDS KafkaProducer, TLC

CONSTANTS s1, s2

OneSender == {s1}
TwoSenders == {s1, s2}
=============================================================================
