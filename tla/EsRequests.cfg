\* Two goroutines, three requests over both, one transport fault.
CONSTANTS
    d1 = d1  d2 = d2  d3 = d3  a1 = a1  a2 = a2  c1 = c1  c2 = c2  s1 = s1  s2 = s2
    Ids <- TwoIds
    AutoIds <- TwoAuto
    Vals = {0, 1}
    Clients <- TwoClients
    Calls <- AllCalls
    InitDocs <- StartDocs
    AggSize = 10
    ScrollIds <- TwoScrolls
    MaxCalls = 3
    MaxFaults = 1
SPECIFICATION Spec
INVARIANT TypeOK
PROPERTY BatchReportExact CountResultExact
\* The number of requests is bounded: the system stops once all are answered.
CHECK_DEADLOCK FALSE
