CONSTANTS
    r1 = r1  r2 = r2  q = q  q2 = q2  n = n  a = a  b = b
    Keys <- CounterKeys
    Vals <- TwoVals
    InitStore <- CounterStore
    Clients <- TwoClients
    Cmds <- CounterCalls
    MaxCalls = 2
    MaxLost = 1
    Configured = TRUE
SPECIFICATION Spec
INVARIANT IncrCountsCalls
\* The calls are bounded: every behaviour ends with the callers idle.
CHECK_DEADLOCK FALSE
