\* A consumer subscribed before the first connect loses its channel.
CONSTANTS
    a = a
    b = b
    m1 = m1
    m2 = m2
    t1 = t1
    t2 = t2
    Publishers <- NoPublishers
    MaxConns = 2
    MaxFailures = 0
    Subscribes = TRUE
    Msgs <- TwoMsgs
    Backlog <- TwoBacklog
    DelayTargets <- NoTargets
SPECIFICATION Spec
PROPERTY
    ConsumerReleasesReconnectLoop
\* Expected to fail; the process may idle for ever in a select.
CHECK_DEADLOCK FALSE
