CONSTANTS
    u1 = u1
    u2 = u2
    p1 = p1
    p2 = p2
    Callers <- OneCaller
    Partitions <- TwoPartitions
    Committed <- P1Committed
    MaxCalls = 3
    MaxAdmins = 2
    MaxFaults = 1
    Configured = TRUE
SPECIFICATION Spec
INVARIANTS
    TypeOK
    NoLookupPanic
    CachedAdminUsable
    NoLeakedAdmin
\* The calls are bounded: the callers idle once they are made.
CHECK_DEADLOCK FALSE
