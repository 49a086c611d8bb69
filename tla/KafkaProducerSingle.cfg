CONSTANTS
    s1 = s1
    s2 = s2
    Callers <- OneSender
    MaxCalls = 3
    MaxProducers = 1
    MaxFaults = 1
    Configured = TRUE
    Interrupts = FALSE
SPECIFICATION Spec
INVARIANTS TypeOK NoSendPanic OneProducer
\* The calls are bounded: the callers idle once they are made.
CHECK_DEADLOCK FALSE
