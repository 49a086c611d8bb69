--------------------------- MODULE MC_RabbitClient ---------------------------
EXTENDS RabbitClient

CONSTANTS a, b, m1, m2, t1, t2

OnePublisher == {a}
TwoPublishers == {a, b}
NoPublishers == {}
NoMsgs == {}
TwoMsgs == {m1, m2}
EmptyBacklog == <<>>
TwoBacklog == <<m1, m2>>
NoTargets == {}
TwoTargets == {t1, t2}
=============================================================================
