\* One goroutine deletes by musts f = 0 with the OR condition g = 1.
CONSTANTS
    d1 = d1  d2 = d2  d3 = d3  a1 = a1  a2 = a2  c1 = c1  c2 = c2  s1 = s1  s2 = s2
    Ids <- TwoIds
    AutoIds <- TwoAuto
    Vals = {0, 1}
    Clients <- TwoClients
    Calls <- ShouldCalls
    InitDocs <- StartDocs
    AggSize = 10
    ScrollIds <- TwoScrolls
    MaxCalls = 2
    MaxFaults = 0
SPECIFICATION Spec
PROPERTY ByQueryHonoursShoulds
CHECK_DEADLOCK FALSE
