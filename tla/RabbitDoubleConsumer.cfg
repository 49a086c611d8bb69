\* Subscribe racing the first doConn of a consumer client.
CONSTANTS
    a = a
    b = b
    m1 = m1
    m2 = m2
    t1 = t1
    t2 = t2
    Publishers <- NoPublishers
    MaxConns = 1
    MaxFailures = 0
    Subscribes = TRUE
    Msgs <- TwoMsgs
    Backlog <- TwoBacklog
    DelayTargets <- NoTargets
SPECIFICATION Spec
INVARIANT
    OneConsumerPerChannel
\* Expected to fail; the process may idle for ever in a select.
CHECK_DEADLOCK FALSE
