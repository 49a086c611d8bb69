\* Two publishers against a supervisor that may see one failed dial or
\* channel open and connection drops until the third connection.
CONSTANTS
    a = a
    b = b
    m1 = m1
    m2 = m2
    t1 = t1
    t2 = t2
    Publishers <- TwoPublishers
    MaxConns = 3
    MaxFailures = 1
    Subscribes = FALSE
    Msgs <- NoMsgs
    Backlog <- EmptyBacklog
    DelayTargets <- TwoTargets
SPECIFICATION Spec
INVARIANTS
    TypeOK
    DelayRoutedAsAsked
\* The process may idle for ever: publishers done, handleReconnect parked in
\* its select with no close notification to come.
CHECK_DEADLOCK FALSE
