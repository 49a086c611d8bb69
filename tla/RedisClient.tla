---------------------------- MODULE RedisClient ----------------------------
(***************************************************************************)
(* The Redis wrapper of src/lib/cache/redis/db.go, called by goroutines    *)
(* that share the package's one go-redis client rdb.  Every wrapper        *)
(* function checks rdb and sends one command; some turn the redis.Nil      *)
(* reply into ("", nil).  The server is the environment: it runs each      *)
(* command atomically on the key space, modelled from Redis's documented   *)
(* behaviour (a list whose last element goes is deleted, SET and GETSET   *)
(* drop a TTL, a blocking pop waits until a list has an element or its    *)
(* timeout passes).  The client is configured with MaxRetries: 3: go-redis *)
(* resends a command whose connection broke (io.EOF), also when the       *)
(* server already ran it and only the reply was lost.  Blocking commands   *)
(* are not resent on a read timeout, but are on a broken connection.       *)
(***************************************************************************)
EXTENDS Integers, Sequences, FiniteSets

CONSTANTS
    Keys,           \* the keys the callers use
    Vals,           \* the string values and list elements (model values)
    Clients,        \* goroutines calling the wrapper
    Cmds,           \* the calls a goroutine may make (records built in the MC module)
    InitStore,      \* the key space at the start
    MaxCalls,       \* bound on the calls, over all goroutines
    MaxLost,        \* bound on the broken connections
    Configured      \* the redis section of the config is set, so rdb != nil

MaxRetries == 3                     \* redis.Options{MaxRetries: 3}
Empty == ""                         \* the "" the wrapper returns for redis.Nil

(* A key holds nothing, a string, an integer string or a list.             *)
Missing == [t |-> "none"]
Str(v) == [t |-> "str", v |-> v]
Num(n) == [t |-> "int", n |-> n]
List(s) == [t |-> "list", s |-> s]
Value(x) == IF x.t = "int" THEN x.n ELSE x.v

(* A server reply: an error kind ("" for none, "nil" for redis.Nil) and a  *)
(* value.                                                                  *)
Ok(x) == [err |-> "", val |-> x]
Err(e) == [err |-> e, val |-> Empty]
RNil == Err("nil")
NoCmd == [f |-> "none"]

VARIABLES
    kv,         \* kv[k]: the value of key k on the server
    ttl,        \* the keys with an expiry
    sc,         \* sc[c]: pc, command, attempt, server reply and return of c's call
    calls,      \* calls made so far
    lost,       \* broken connections so far
    pushed,     \* history: elements a push of a returned call put on a list
    taken,      \* history: elements a pop handed back to its caller
    incrs       \* history: Incr calls made, per key

vars == <<kv, ttl, sc, calls, lost, pushed, taken, incrs>>

Init ==
    /\ kv = InitStore /\ ttl = {}
    /\ sc = [c \in Clients |-> [pc |-> "idle", cmd |-> NoCmd, att |-> 0,
                                rep |-> Ok(Empty), ret |-> Ok(Empty)]]
    /\ calls = 0 /\ lost = 0
    /\ pushed = {} /\ taken = {}
    /\ incrs = [k \in Keys |-> 0]

TypeOK ==
    /\ \A k \in Keys : kv[k] \in {Missing} \cup [t: {"str"}, v: Vals]
                                 \cup [t: {"int"}, n: Int] \cup [t: {"list"}, s: Seq(Vals)]
    /\ ttl \subseteq Keys
    /\ \A c \in Clients : sc[c].pc \in {"idle", "exec", "reply"}
                          /\ sc[c].att \in 0..MaxRetries
    /\ calls \in 0..MaxCalls /\ lost \in 0..MaxLost
    /\ pushed \subseteq Vals /\ taken \subseteq Vals

-----------------------------------------------------------------------------
(* The server.  Each operator gives the new key space, the new set of keys *)
(* with a TTL and the reply: [kv, ttl, rep].                              *)
Res(s, t, r) == [kv |-> s, ttl |-> t, rep |-> r]
Keep(r) == Res(kv, ttl, r)
Put(k, x) == [kv EXCEPT ![k] = x]
IsList(k) == kv[k].t = "list"
Elems(k) == IF IsList(k) THEN kv[k].s ELSE <<>>
(* A list left empty is deleted with its TTL.                              *)
SetList(s, k, l) == IF l = <<>> THEN [s EXCEPT ![k] = Missing] ELSE [s EXCEPT ![k] = List(l)]
TtlAfter(k, l) == IF l = <<>> THEN ttl \ {k} ELSE ttl
Reverse(s) == [i \in 1..Len(s) |-> s[Len(s) - i + 1]]
(* Redis list indices: a negative index counts from the tail.              *)
Idx(i, n) == IF i < 0 THEN n + i ELSE i

Ping == Keep(Ok("PONG"))

Set(k, x, exp) == Res(Put(k, x), IF exp THEN ttl \cup {k} ELSE ttl \ {k}, Ok("OK"))

Get(k) == CASE kv[k] = Missing -> Keep(RNil)
            [] IsList(k)       -> Keep(Err("wrongtype"))
            [] OTHER           -> Keep(Ok(Value(kv[k])))

GetSet(k, x) == CASE IsList(k)  -> Keep(Err("wrongtype"))
                  [] OTHER      -> Res(Put(k, x), ttl \ {k},
                                       IF kv[k] = Missing THEN RNil ELSE Ok(Value(kv[k])))

(* SETNX, or SET key value EX exp NX when the expiration is not zero.      *)
SetNX(k, x, exp) ==
    IF kv[k] # Missing THEN Keep(Ok(FALSE))
    ELSE Res(Put(k, x), IF exp THEN ttl \cup {k} ELSE ttl, Ok(TRUE))

Del(ks) == Res([k \in Keys |-> IF k \in ks THEN Missing ELSE kv[k]], ttl \ ks,
               Ok(Cardinality({k \in ks : kv[k] # Missing})))

Exists(ks) == Keep(Ok(Cardinality({k \in ks : kv[k] # Missing})))

(* INCRBY and its kin: a missing key counts as 0; a value that is not an   *)
(* integer fails.  Incr, Decr and DecrBy are IncrBy with 1, -1 and -d,     *)
(* IncrByFloat adds its float the same way.                                *)
IncrBy(k, d) ==
    CASE kv[k] = Missing   -> Res(Put(k, Num(d)), ttl, Ok(d))
      [] kv[k].t = "int"   -> Res(Put(k, Num(kv[k].n + d)), ttl, Ok(kv[k].n + d))
      [] OTHER             -> Keep(Err("notint"))

(* LPUSH pushes its values one by one at the head; RPUSH at the tail.  The *)
(* X forms push only onto an existing list.                                *)
Push(k, vs, head, onlyIfExists) ==
    CASE kv[k] # Missing /\ ~IsList(k) -> Keep(Err("wrongtype"))
      [] onlyIfExists /\ kv[k] = Missing -> Keep(Ok(0))
      [] OTHER ->
           LET l == IF head THEN Reverse(vs) \o Elems(k) ELSE Elems(k) \o vs
           IN  Res(Put(k, List(l)), ttl, Ok(Len(l)))

(* LPOP / RPOP: the head or tail element, redis.Nil on a missing key.      *)
Pop(k, head) ==
    CASE kv[k] = Missing -> Keep(RNil)
      [] ~IsList(k)      -> Keep(Err("wrongtype"))
      [] OTHER ->
           LET l == Elems(k)
               rest == IF head THEN Tail(l) ELSE SubSeq(l, 1, Len(l) - 1)
           IN  Res(SetList(kv, k, rest), TtlAfter(k, rest),
                   Ok(IF head THEN Head(l) ELSE l[Len(l)]))

(* RPOPLPUSH: the tail of src moves to the head of dst, in one step.      *)
RPopLPush(src, dst) ==
    CASE kv[src] = Missing                     -> Keep(RNil)
      [] ~IsList(src)                          -> Keep(Err("wrongtype"))
      [] kv[dst] # Missing /\ ~IsList(dst)     -> Keep(Err("wrongtype"))
      [] OTHER ->
           LET l == Elems(src)
               v == l[Len(l)]
               s1 == SetList(kv, src, SubSeq(l, 1, Len(l) - 1))
               d  == IF src = dst THEN SubSeq(l, 1, Len(l) - 1) ELSE Elems(dst)
           IN  Res([s1 EXCEPT ![dst] = List(<<v>> \o d)],
                   IF src = dst THEN ttl ELSE TtlAfter(src, SubSeq(l, 1, Len(l) - 1)),
                   Ok(v))

(* BLPOP / BRPOP pop from the first key of ks, in argument order, that     *)
(* holds a list; the reply is the key and the element.  With no list among *)
(* them the command blocks.                                                *)
Ready(ks) == {i \in DOMAIN ks : IsList(ks[i])}
BPop(ks, head) ==
    LET k == ks[CHOOSE i \in Ready(ks) : \A j \in Ready(ks) : i <= j]
        r == Pop(k, head)
    IN  Res(r.kv, r.ttl, Ok(<<k, r.rep.val>>))

LIndex(k, i) ==
    CASE kv[k] = Missing -> Keep(RNil)
      [] ~IsList(k)      -> Keep(Err("wrongtype"))
      [] Idx(i, Len(Elems(k))) \in 0..Len(Elems(k)) - 1 -> Keep(Ok(Elems(k)[Idx(i, Len(Elems(k))) + 1]))
      [] OTHER           -> Keep(RNil)

(* LINSERT key BEFORE|AFTER pivot value: at the first occurrence of pivot; *)
(* -1 when there is none, 0 on a missing key.                             *)
LInsert(k, before, pivot, x) ==
    CASE kv[k] = Missing -> Keep(Ok(0))
      [] ~IsList(k)      -> Keep(Err("wrongtype"))
      [] \A i \in DOMAIN Elems(k) : Elems(k)[i] # pivot -> Keep(Ok(-1))
      [] OTHER ->
           LET l == Elems(k)
               p == CHOOSE i \in DOMAIN l : l[i] = pivot /\ \A j \in 1..i-1 : l[j] # pivot
               at == IF before THEN p - 1 ELSE p
               n == SubSeq(l, 1, at) \o <<x>> \o SubSeq(l, at + 1, Len(l))
           IN  Res(Put(k, List(n)), ttl, Ok(Len(n)))

LLen(k) == CASE kv[k] = Missing -> Keep(Ok(0))
             [] ~IsList(k)      -> Keep(Err("wrongtype"))
             [] OTHER           -> Keep(Ok(Len(Elems(k))))

(* LRANGE / LTRIM: the elements from start to stop, both included.         *)
Window(l, start, stop) ==
    LET a == IF Idx(start, Len(l)) < 0 THEN 0 ELSE Idx(start, Len(l))
        b == IF Idx(stop, Len(l)) >= Len(l) THEN Len(l) - 1 ELSE Idx(stop, Len(l))
    IN  IF a > b THEN <<>> ELSE SubSeq(l, a + 1, b + 1)

LRange(k, start, stop) ==
    IF kv[k] # Missing /\ ~IsList(k) THEN Keep(Err("wrongtype"))
    ELSE Keep(Ok(Window(Elems(k), start, stop)))

LTrim(k, start, stop) ==
    IF kv[k] # Missing /\ ~IsList(k) THEN Keep(Err("wrongtype"))
    ELSE LET w == Window(Elems(k), start, stop)
         IN  Res(SetList(kv, k, w), TtlAfter(k, w), Ok("OK"))

(* LREM key count value: count > 0 removes the first count occurrences,   *)
(* count < 0 the last -count, count = 0 all of them.                       *)
LRem(k, count, x) ==
    IF kv[k] # Missing /\ ~IsList(k) THEN Keep(Err("wrongtype"))
    ELSE
      LET l == Elems(k)
          occ == {i \in DOMAIN l : l[i] = x}
          rank(i) == IF count >= 0 THEN Cardinality({j \in occ : j <= i})
                                   ELSE Cardinality({j \in occ : j >= i})
          gone == {i \in occ : count = 0 \/ rank(i) <= IF count > 0 THEN count ELSE -count}
          n == SelectSeq([i \in DOMAIN l |-> <<i, l[i]>>], LAMBDA e : e[1] \notin gone)
          r == [i \in DOMAIN n |-> n[i][2]]
      IN  Res(SetList(kv, k, r), TtlAfter(k, r), Ok(Cardinality(gone)))

LSet(k, i, x) ==
    CASE kv[k] = Missing -> Keep(Err("nokey"))
      [] ~IsList(k)      -> Keep(Err("wrongtype"))
      [] Idx(i, Len(Elems(k))) \notin 0..Len(Elems(k)) - 1 -> Keep(Err("range"))
      [] OTHER -> Res(Put(k, List([Elems(k) EXCEPT ![Idx(i, Len(Elems(k))) + 1] = x])),
                      ttl, Ok("OK"))

(* TTL: -2 for a missing key, -1 for a key without expiry, else the time   *)
(* left (abstracted to 1).                                                 *)
TTL(k) == Keep(Ok(CASE kv[k] = Missing -> -2 [] k \in ttl -> 1 [] OTHER -> -1))

-----------------------------------------------------------------------------
(* The command a call sends (db.go), and when the server must block it.    *)
Dispatch(cmd) ==
    CASE cmd.f = "Ping"        -> Ping
      [] cmd.f = "Set"         -> Set(cmd.k, cmd.x, cmd.exp)
      [] cmd.f = "Get"         -> Get(cmd.k)
      [] cmd.f = "GetSet"      -> GetSet(cmd.k, cmd.x)
      [] cmd.f = "SetNX"       -> SetNX(cmd.k, cmd.x, cmd.exp)
      [] cmd.f = "Del"         -> Del(cmd.ks)
      [] cmd.f = "Exists"      -> Exists(cmd.ks)
      [] cmd.f = "Incr"        -> IncrBy(cmd.k, 1)
      [] cmd.f = "IncrBy"      -> IncrBy(cmd.k, cmd.d)
      [] cmd.f = "IncrByFloat" -> IncrBy(cmd.k, cmd.d)
      [] cmd.f = "Decr"        -> IncrBy(cmd.k, -1)
      [] cmd.f = "DecrBy"      -> IncrBy(cmd.k, -cmd.d)
      [] cmd.f = "BLPop"       -> BPop(cmd.ks, TRUE)
      [] cmd.f = "BRPop"       -> BPop(cmd.ks, FALSE)
      [] cmd.f = "BRPopLPush"  -> RPopLPush(cmd.k, cmd.k2)
      [] cmd.f = "LIndex"      -> LIndex(cmd.k, cmd.i)
      [] cmd.f = "LInsert"     -> LInsert(cmd.k, cmd.before, cmd.p, cmd.x)
      [] cmd.f = "LLen"        -> LLen(cmd.k)
      [] cmd.f = "LPop"        -> Pop(cmd.k, TRUE)
      [] cmd.f = "LPush"       -> Push(cmd.k, cmd.vs, TRUE, FALSE)
      [] cmd.f = "LPushX"      -> Push(cmd.k, cmd.vs, TRUE, TRUE)
      [] cmd.f = "LRange"      -> LRange(cmd.k, cmd.i, cmd.j)
      [] cmd.f = "LRem"        -> LRem(cmd.k, cmd.i, cmd.x)
      [] cmd.f = "LSet"        -> LSet(cmd.k, cmd.i, cmd.x)
      [] cmd.f = "LTrim"       -> LTrim(cmd.k, cmd.i, cmd.j)
      [] cmd.f = "RPop"        -> Pop(cmd.k, FALSE)
      [] cmd.f = "RPopLPush"   -> RPopLPush(cmd.k, cmd.k2)
      [] cmd.f = "RPush"       -> Push(cmd.k, cmd.vs, FALSE, FALSE)
      [] cmd.f = "RPushX"      -> Push(cmd.k, cmd.vs, FALSE, TRUE)
      [] cmd.f = "TTL"         -> TTL(cmd.k)

Blocking == {"BLPop", "BRPop", "BRPopLPush"}
Blocked(cmd) ==
    \/ cmd.f \in {"BLPop", "BRPop"} /\ Ready(cmd.ks) = {}
    \/ cmd.f = "BRPopLPush" /\ ~IsList(cmd.k)

(* What the wrapper returns for the reply.  Seven functions turn redis.Nil *)
(* into ("", nil); ten return only the error; the others pass the reply   *)
(* through, BLPop and BRPop with redis.Nil as their error.                 *)
NilToEmpty == {"Get", "GetSet", "BRPopLPush", "LIndex", "LPop", "RPop", "RPopLPush"}
ErrOnly == {"Set", "Del", "LInsert", "LPush", "LPushX", "LRem", "LSet", "LTrim",
            "RPush", "RPushX"}
Wrap(f, r) ==
    CASE f \in NilToEmpty /\ r.err = "nil" -> Ok(Empty)
      [] f \in ErrOnly                     -> Err(r.err)
      [] OTHER                             -> r

Pops == {"LPop", "RPop", "RPopLPush", "BRPopLPush"}
PushFs == {"LPush", "LPushX", "RPush", "RPushX"}
(* The elements a reply hands to its caller.                               *)
Handed(f, r) ==
    CASE r.err # ""            -> {}
      [] f \in Pops            -> {r.val} \cap Vals
      [] f \in {"BLPop", "BRPop"} -> {r.val[2]}
      [] OTHER                 -> {}

At(c, l) == sc[c].pc = l

-----------------------------------------------------------------------------
(* A wrapper function is called.  if rdb == nil it returns its error at    *)
(* once; otherwise go-redis sends the command (attempt 0).                 *)
Call(c) ==
    /\ At(c, "idle") /\ calls < MaxCalls
    /\ \E cmd \in Cmds :
          /\ sc' = [sc EXCEPT ![c] = IF Configured
                                    THEN [@ EXCEPT !.pc = "exec", !.cmd = cmd, !.att = 0]
                                    ELSE [@ EXCEPT !.cmd = cmd, !.ret = Err("init")]]
          /\ incrs' = IF cmd.f = "Incr" THEN [incrs EXCEPT ![cmd.k] = @ + 1] ELSE incrs
    /\ calls' = calls + 1
    /\ UNCHANGED <<kv, ttl, lost, pushed, taken>>

(* The server runs the command: one atomic step on the key space.          *)
Exec(c) ==
    /\ At(c, "exec") /\ ~Blocked(sc[c].cmd)
    /\ LET cmd == sc[c].cmd
           r == Dispatch(cmd)
       IN  /\ kv' = r.kv /\ ttl' = r.ttl
           /\ sc' = [sc EXCEPT ![c].pc = "reply", ![c].rep = r.rep]
           /\ pushed' = IF cmd.f \in PushFs /\ r.rep.err = "" /\ r.rep.val > 0
                        THEN pushed \cup {cmd.vs[i] : i \in DOMAIN cmd.vs}
                        ELSE pushed
    /\ UNCHANGED <<calls, lost, taken, incrs>>

(* A blocking pop whose timeout is not 0 gets the nil reply when it runs  *)
(* out; with timeout 0 it waits for ever.                                  *)
Timeout(c) ==
    /\ At(c, "exec") /\ sc[c].cmd.f \in Blocking
    /\ Blocked(sc[c].cmd) /\ sc[c].cmd.to # 0
    /\ sc' = [sc EXCEPT ![c].pc = "reply", ![c].rep = RNil]
    /\ UNCHANGED <<kv, ttl, calls, lost, pushed, taken, incrs>>

(* The reply reaches go-redis and the wrapper returns.                     *)
Reply(c) ==
    /\ At(c, "reply")
    /\ LET f == sc[c].cmd.f
       IN  /\ sc' = [sc EXCEPT ![c].pc = "idle", ![c].ret = Wrap(f, sc[c].rep)]
           /\ taken' = taken \cup Handed(f, sc[c].rep)
    /\ UNCHANGED <<kv, ttl, calls, lost, pushed, incrs>>

(* The connection breaks before the server reads the command, or after it *)
(* ran the command and before its reply arrived.  go-redis sees io.EOF,   *)
(* which is retryable: it resends the command up to MaxRetries times, and *)
(* then returns the error.                                                 *)
Break(c) ==
    /\ sc[c].pc \in {"exec", "reply"} /\ lost < MaxLost
    /\ lost' = lost + 1
    /\ sc' = [sc EXCEPT ![c] = IF @.att < MaxRetries
                               THEN [@ EXCEPT !.pc = "exec", !.att = @ + 1]
                               ELSE [@ EXCEPT !.pc = "idle", !.ret = Err("conn")]]
    /\ UNCHANGED <<kv, ttl, calls, pushed, taken, incrs>>

(* A key with a TTL expires.                                               *)
Expire(k) ==
    /\ k \in ttl
    /\ kv' = [kv EXCEPT ![k] = Missing] /\ ttl' = ttl \ {k}
    /\ UNCHANGED <<sc, calls, lost, pushed, taken, incrs>>

Next == \/ \E c \in Clients : Call(c) \/ Exec(c) \/ Timeout(c) \/ Reply(c) \/ Break(c)
        \/ \E k \in Keys : Expire(k)

Spec == Init /\ [][Next]_vars

-----------------------------------------------------------------------------
ListElems == UNION {{kv[k].s[i] : i \in DOMAIN kv[k].s} : k \in {k \in Keys : IsList(k)}}
InFlight == UNION {Handed(sc[c].cmd.f, sc[c].rep) : c \in {c \in Clients : At(c, "reply")}}

(* Every element a push put on a list is still on a list, is in a pop     *)
(* reply on its way, or was handed to the caller of a pop: a pop whose    *)
(* reply was lost and that go-redis resent does not drop an element.       *)
NoLostElement == pushed \subseteq ListElems \cup InFlight \cup taken

(* A counter changed only by Incr never exceeds the number of Incr calls:  *)
(* a resent INCR is not applied twice.                                     *)
IncrCountsCalls == \A k \in Keys : kv[k].t = "int" => kv[k].n <= incrs[k]

(* A pop that returns no error hands back an element that was on the      *)
(* list: the "" that LPop, RPop and RPopLPush return for an empty list     *)
(* with a nil error is not mistaken for an element.                        *)
PopReturnsElement ==
    \A c \in Clients :
        At(c, "idle") /\ sc[c].cmd.f \in Pops /\ sc[c].ret.err = "" => sc[c].ret.val \in Vals
=============================================================================
