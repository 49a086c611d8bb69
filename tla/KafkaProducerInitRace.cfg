CONSTANTS
    s1 = s1
    s2 = s2
    Callers <- TwoSenders
    MaxCalls = 2
    MaxProducers = 2
    MaxFaults = 0
    Configured = TRUE
    Interrupts = FALSE
SPECIFICATION Spec
INVARIANT OneProducer
\* The calls are bounded: the callers idle once they are made.
CHECK_DEADLOCK FALSE
