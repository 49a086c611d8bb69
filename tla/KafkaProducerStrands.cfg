CONSTANTS
    s1 = s1
    s2 = s2
    Callers <- OneSender
    MaxCalls = 2
    MaxProducers = 1
    MaxFaults = 1
    Configured = TRUE
    Interrupts = FALSE
SPECIFICATION Spec
PROPERTY MessagesDelivered
\* The calls are bounded: the callers idle once they are made.
CHECK_DEADLOCK FALSE
