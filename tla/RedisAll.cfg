CONSTANTS
    r1 = r1  r2 = r2  q = q  q2 = q2  n = n  a = a  b = b
    Keys <- AllKeys
    Vals <- TwoVals
    InitStore <- AllStore
    Clients <- OneClient
    Cmds <- AllCalls
    MaxCalls = 3
    MaxLost = 1
    Configured = TRUE
SPECIFICATION Spec
INVARIANT TypeOK
\* The calls are bounded: every behaviour ends with the callers idle.
CHECK_DEADLOCK FALSE
