------------------------ MODULE MC_KafkaOffsetLookup ------------------------
(* Model values and bounds for checking KafkaOffsetLookup with TLC.        *)
EXTENDS KafkaOffsetLookup, TLC

CONSTANTS u1, u2, p1, p2

OneCaller == {u1}
TwoCallers == {u1, u2}
TwoPartitions == {p1, p2}
\* p1 has a committed offset, p2 none yet.
P1Committed == (p1 :> 3) @@ (p2 :> -1)
=============================================================================
