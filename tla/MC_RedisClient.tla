--------------------------- MODULE MC_RedisClient ---------------------------
(* Model values, calls and bounds for checking RedisClient with TLC.       *)
EXTENDS RedisClient, TLC

CONSTANTS r1, r2, q, q2, n, a, b

TwoClients == {r1, r2}
OneClient == {r1}
QueueKeys == {q, q2}
CounterKeys == {n}
TwoVals == {a, b}
EmptyStore(ks) == [k \in ks |-> Missing]
QueueStore == EmptyStore(QueueKeys)
CounterStore == EmptyStore(CounterKeys)
AllKeys == QueueKeys \cup CounterKeys
AllStore == EmptyStore(AllKeys)

\* A work queue: producers push onto q, consumers pop it, move an element
\* to the in-progress list q2, or block on q2 and q.
QueueCalls ==
    {[f |-> "RPush", k |-> q, vs |-> <<a>>], [f |-> "LPush", k |-> q, vs |-> <<b>>],
     [f |-> "LPop", k |-> q], [f |-> "RPop", k |-> q],
     [f |-> "RPopLPush", k |-> q, k2 |-> q2],
     [f |-> "BRPopLPush", k |-> q, k2 |-> q2, to |-> 1],
     [f |-> "BLPop", ks |-> <<q2, q>>, to |-> 1]}

\* A sequence generator: every caller takes the next number with Incr.
CounterCalls == {[f |-> "Incr", k |-> n], [f |-> "Get", k |-> n]}

\* A worker process uses both: the queue and the sequence generator.
WorkCalls == QueueCalls \cup CounterCalls

\* Every wrapper function on a list key and a string key.
AllCalls ==
    {[f |-> "Ping"],
     [f |-> "Set", k |-> n, x |-> Num(0), exp |-> TRUE],
     [f |-> "Set", k |-> q2, x |-> Str(a), exp |-> FALSE],
     [f |-> "Get", k |-> n], [f |-> "GetSet", k |-> n, x |-> Str(b)],
     [f |-> "SetNX", k |-> n, x |-> Num(5), exp |-> FALSE],
     [f |-> "Del", ks |-> {q, n}], [f |-> "Exists", ks |-> {q, n}],
     [f |-> "Incr", k |-> n], [f |-> "IncrBy", k |-> n, d |-> 2],
     [f |-> "IncrByFloat", k |-> n, d |-> 1], [f |-> "Decr", k |-> n],
     [f |-> "DecrBy", k |-> n, d |-> 2],
     [f |-> "BLPop", ks |-> <<q>>, to |-> 1], [f |-> "BRPop", ks |-> <<q>>, to |-> 0],
     [f |-> "BRPopLPush", k |-> q, k2 |-> q, to |-> 1],
     [f |-> "LIndex", k |-> q, i |-> -1],
     [f |-> "LInsert", k |-> q, before |-> TRUE, p |-> a, x |-> b],
     [f |-> "LLen", k |-> q], [f |-> "LPop", k |-> q],
     [f |-> "LPush", k |-> q, vs |-> <<a, b>>], [f |-> "LPushX", k |-> q, vs |-> <<b>>],
     [f |-> "LRange", k |-> q, i |-> 0, j |-> -1],
     [f |-> "LRem", k |-> q, i |-> -1, x |-> a],
     [f |-> "LSet", k |-> q, i |-> 1, x |-> a],
     [f |-> "LTrim", k |-> q, i |-> 1, j |-> 5], [f |-> "RPop", k |-> q],
     [f |-> "RPopLPush", k |-> q, k2 |-> q2], [f |-> "RPush", k |-> q, vs |-> <<b>>],
     [f |-> "RPushX", k |-> q2, vs |-> <<a>>], [f |-> "TTL", k |-> n]}
=============================================================================
