\* The first doConn fails (here on a connection dropped before its channel opens).
CONSTANTS
    a = a
    b = b
    m1 = m1
    m2 = m2
    t1 = t1
    t2 = t2
    Publishers <- OnePublisher
    MaxConns = 3
    MaxFailures = 0
    Subscribes = FALSE
    Msgs <- NoMsgs
    Backlog <- EmptyBacklog
    DelayTargets <- NoTargets
SPECIFICATION Spec
PROPERTY
    ReconnectConverges
\* Expected to fail; the process may idle for ever in a select.
CHECK_DEADLOCK FALSE
