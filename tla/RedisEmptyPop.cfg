CONSTANTS
    r1 = r1  r2 = r2  q = q  q2 = q2  n = n  a = a  b = b
    Keys <- QueueKeys
    Vals <- TwoVals
    InitStore <- QueueStore
    Clients <- OneClient
    Cmds <- QueueCalls
    MaxCalls = 1
    MaxLost = 0
    Configured = TRUE
SPECIFICATION Spec
INVARIANT PopReturnsElement
\* The calls are bounded: every behaviour ends with the callers idle.
CHECK_DEADLOCK FALSE
