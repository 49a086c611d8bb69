CONSTANTS
    r1 = r1  r2 = r2  q = q  q2 = q2  n = n  a = a  b = b
    Keys <- QueueKeys
    Vals <- TwoVals
    InitStore <- QueueStore
    Clients <- TwoClients
    Cmds <- QueueCalls
    MaxCalls = 3
    MaxLost = 1
    Configured = TRUE
SPECIFICATION Spec
INVARIANT NoLostElement
\* The calls are bounded: every behaviour ends with the callers idle.
CHECK_DEADLOCK FALSE
