\* Close racing an in-flight doConn.
CONSTANTS
    a = a
    b = b
    m1 = m1
    m2 = m2
    t1 = t1
    t2 = t2
    Publishers <- TwoPublishers
    MaxConns = 3
    MaxFailures = 1
    Subscribes = FALSE
    Msgs <- NoMsgs
    Backlog <- EmptyBacklog
    DelayTargets <- NoTargets
SPECIFICATION Spec
INVARIANT
    NoConnectionAfterClose
\* Expected to fail; the process may idle for ever in a select.
CHECK_DEADLOCK FALSE
