\* One goroutine shards the collection on the compound key a, b.
CONSTANTS
    c1 = c1  c2 = c2
    Oids <- EightOids
    Vals = {0, 1}
    Clients <- TwoClients
    Calls <- ShardCalls
    InitDocs <- StartDocs
    MaxCalls = 1
SPECIFICATION Spec
PROPERTY ShardKeyAsGiven
CHECK_DEADLOCK FALSE
