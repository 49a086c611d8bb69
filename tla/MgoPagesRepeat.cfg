\* One goroutine asks for page 1 and page 2 of the collection sorted by the
\* map {"a": "asc", "b": "DESC"}; no two documents tie on a or on b.
CONSTANTS
    c1 = c1  c2 = c2
    Oids <- EightOids
    Vals = {0, 1}
    Clients <- TwoClients
    Calls <- PagingCalls
    InitDocs <- StartDocs
    MaxCalls = 2
SPECIFICATION Spec
INVARIANT SearchOrderConsistent
CHECK_DEADLOCK FALSE
