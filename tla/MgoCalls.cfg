\* Two goroutines make three calls among every path of the wrapper.
CONSTANTS
    c1 = c1  c2 = c2
    Oids <- EightOids
    Vals = {0, 1}
    Clients <- TwoClients
    Calls <- WriteCalls
    InitDocs <- StartDocs
    MaxCalls = 3
SPECIFICATION Spec
INVARIANT TypeOK
PROPERTY ReturnedCountsExact GroupRowsExact
\* The number of calls is bounded: every behaviour ends with both goroutines idle.
CHECK_DEADLOCK FALSE
