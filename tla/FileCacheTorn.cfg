CONSTANTS
    g1 = g1  g2 = g2  k1 = k1  k2 = k2  f1 = f1  f2 = f2  d1 = d1
    Keys <- TwoKeys
    Vals <- ShortLong
    Path <- KeyPath
    DirOf <- OneDir
    Clients <- TwoClients
    Ops <- PutGet
    MaxCalls = 3
SPECIFICATION Spec
INVARIANT GetReturnsPut
\* The calls are bounded: every behaviour ends with the callers idle.
CHECK_DEADLOCK FALSE
