\* A consumer client, two queued messages, no connection drops (MaxConns = 1)
\* and no failed dial: the start-up order of Subscribe and the first doConn,
\* handler results, Close at any point.
CONSTANTS
    a = a
    b = b
    m1 = m1
    m2 = m2
    t1 = t1
    t2 = t2
    Publishers <- NoPublishers
    MaxConns = 1
    MaxFailures = 0
    Subscribes = TRUE
    Msgs <- TwoMsgs
    Backlog <- TwoBacklog
    DelayTargets <- NoTargets
SPECIFICATION Spec
PROPERTIES
    MessagesSettle
\* The consumer idles once the queue is drained or the client is closed.
CHECK_DEADLOCK FALSE
