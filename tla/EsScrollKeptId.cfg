\* One goroutine scrolls three documents a hit at a time; one reply is lost
\* and the goroutine pages again with the scroll id it kept.
CONSTANTS
    d1 = d1  d2 = d2  d3 = d3  a1 = a1  a2 = a2  c1 = c1  c2 = c2  s1 = s1  s2 = s2
    Ids <- ThreeIds
    AutoIds <- TwoAuto
    Vals = {0, 1}
    Clients <- OneClient
    Calls <- ScrollCalls
    InitDocs <- ThreeDocs
    AggSize = 10
    ScrollIds <- TwoScrolls
    MaxCalls = 4
    MaxFaults = 1
SPECIFICATION Spec
INVARIANT ScrollPagesInOrder
CHECK_DEADLOCK FALSE
