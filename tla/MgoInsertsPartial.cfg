\* Two goroutines make three calls; an Inserts may stop at a duplicate key
\* after storing part of its documents.
CONSTANTS
    c1 = c1  c2 = c2
    Oids <- EightOids
    Vals = {0, 1}
    Clients <- TwoClients
    Calls <- WriteCalls
    InitDocs <- StartDocs
    MaxCalls = 3
SPECIFICATION Spec
PROPERTY InsertsReturnsStored
CHECK_DEADLOCK FALSE
