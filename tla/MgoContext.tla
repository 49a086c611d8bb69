----------------------------- MODULE MgoContext -----------------------------
(***************************************************************************)
(* The MongoDB wrapper of src/lib/mongodb: the Filter builder of           *)
(* builder.go and the collection calls of mongo.go, made by goroutines     *)
(* that share one MgoContext on one collection.  An MgoContext holds no    *)
(* state besides the client, so what is modelled is the collection, the    *)
(* unique indexes CreateIndex adds, and the calls.  Each call is one       *)
(* server command and one step, except Inserts: an ordered InsertMany      *)
(* stores its documents one by one, and other calls interleave with it.    *)
(* The server is the environment, modelled from MongoDB's behaviour:       *)
(* query operators, sort, skip and limit, UpdateMany with upsert, and      *)
(* E11000 duplicate-key errors.  A document is the record of its fields a  *)
(* and b; its _id is a driver-generated ObjectId.                          *)
(***************************************************************************)
EXTENDS Naturals, Sequences, SequencesExt, FiniteSets, Functions

CONSTANTS
    Oids,       \* the ObjectIds the driver may generate (their number bounds the documents)
    Vals,       \* the values of the fields a and b (natural numbers)
    Clients,    \* the goroutines sharing the MgoContext
    Calls,      \* the calls a goroutine may make
    InitDocs,   \* the documents of the collection at the start
    MaxCalls    \* the number of calls, over all goroutines

Fields == {"a", "b"}
NoVal == -1                 \* the field is missing
Null == -2                  \* the field holds null
Arr == -3                   \* the field holds an array (arrays are not told apart)
\* A number: what $gt, $gte, $lt and $lte compare with a number.
Num(x) == x >= 0
\* BSON order: missing and null compare equal, before every number (an
\* empty array, the only kind Operand can make, sorts before them).
SortVal(x) == IF x \in {NoVal, Null} THEN NoVal ELSE x
\* To $eq nil, $group and $max a missing field reads as null.
IsNull(x) == x \in {NoVal, Null}

(***************************************************************************)
(* Go values a caller passes to AppendAnd, and the BSON values             *)
(* filterHelper turns them into: a scalar, an array, or nil.               *)
(***************************************************************************)
Scalar(v) == [kind |-> "scalar", vs |-> <<v>>]
Slice(s) == [kind |-> "slice", vs |-> s]
Nil == [kind |-> "nil", vs |-> <<>>]

(***************************************************************************)
(* filterHelper (76-111): a single slice argument is spread into its       *)
(* elements; then more than one element becomes an array, one element     *)
(* becomes that element itself, and none becomes nil.                      *)
(***************************************************************************)
\* (mutant: no argument gives the empty slice _args instead of nil)
filterHelperEmptySlice(field, operate, args) ==
    LET _args == IF Len(args) = 1 /\ args[1].kind = "slice"
                 THEN [i \in DOMAIN args[1].vs |-> Scalar(args[1].vs[i])]
                 ELSE args
    IN  [field |-> field, op |-> operate,
         arg |-> IF Len(_args) = 1 THEN _args[1]
                 ELSE [kind |-> "array", vs |-> [i \in DOMAIN _args |-> _args[i].vs[1]]]]

filterHelper(field, operate, args) ==
    LET _args == IF Len(args) = 1 /\ args[1].kind = "slice"
                 THEN [i \in DOMAIN args[1].vs |-> Scalar(args[1].vs[i])]
                 ELSE args
    IN  [field |-> field, op |-> operate,
         arg |-> CASE Len(_args) > 1 -> [kind |-> "array",
                                         vs |-> [i \in DOMAIN _args |-> _args[i].vs[1]]]
                   [] Len(_args) = 1 -> _args[1]
                   [] OTHER          -> Nil]

(***************************************************************************)
(* A Filter is built by a sequence of AppendAnd and AppendOr calls (conds, *)
(* each with or FALSE or TRUE), from NewFilter.  Build puts the AND list   *)
(* first and then, when the OR list is not empty, one {"$or": OR list}.    *)
(***************************************************************************)
NewFilter == [AndFilter |-> <<>>, OrFilter |-> <<>>]

\* AppendAnd (47-53): the condition is appended only when cond holds.
AppendAnd(w, cond, field, operate, args) ==
    IF cond THEN [w EXCEPT !.AndFilter = Append(@, filterHelper(field, operate, args))]
    ELSE w

\* AppendOr (68-74): the same, to the OR list.
AppendOr(w, cond, field, operate, args) ==
    IF cond THEN [w EXCEPT !.OrFilter = Append(@, filterHelper(field, operate, args))]
    ELSE w

Build(conds) ==
    LET w == FoldLeft(LAMBDA f, x : IF x.or THEN AppendOr(f, x.cond, x.field, x.op, x.args)
                                    ELSE AppendAnd(f, x.cond, x.field, x.op, x.args),
                      NewFilter, conds)
    IN  w.AndFilter \o (IF Len(w.OrFilter) > 0
                        THEN <<[field |-> "$or", op |-> "or", arg |-> w.OrFilter]>>
                        ELSE <<>>)

(***************************************************************************)
(* The server's reading of a filter.  $in and $nin need an array, or the   *)
(* command fails; the other operators compare a field with a scalar (a     *)
(* missing or null field equals nil and matches no comparison with a       *)
(* number).                                                                *)
(***************************************************************************)
ValidOne(e) == e.op \in {"in", "nin"} => e.arg.kind = "array"
Valid(e) == IF e.op = "or" THEN \A j \in DOMAIN e.arg : ValidOne(e.arg[j]) ELSE ValidOne(e)
ValidFilter(f) == \A i \in DOMAIN f : Valid(f[i])

Eq(x, v) == CASE v.kind = "scalar" -> x = v.vs[1]
              [] v.kind = "nil"    -> IsNull(x)
              [] OTHER             -> FALSE
Cmp(op, x, v) ==
    CASE v.kind = "scalar" -> Num(x) /\ CASE op = "gt"  -> x > v.vs[1]
                                             [] op = "gte" -> x >= v.vs[1]
                                             [] op = "lt"  -> x < v.vs[1]
                                             [] op = "lte" -> x <= v.vs[1]
      [] v.kind = "nil"    -> op \in {"gte", "lte"} /\ IsNull(x)
      [] OTHER             -> FALSE
In(x, v) == \E i \in DOMAIN v.vs : x = v.vs[i]

HoldsOne(e, d) ==
    LET x == d[e.field] IN
    CASE e.op = "eq"  -> Eq(x, e.arg)
      [] e.op = "ne"  -> ~Eq(x, e.arg)
      [] e.op = "in"  -> In(x, e.arg)
      [] e.op = "nin" -> ~In(x, e.arg)
      [] OTHER        -> Cmp(e.op, x, e.arg)

\* $or: one of its clauses holds.
Holds(e, d) == IF e.op = "or" THEN \E j \in DOMAIN e.arg : HoldsOne(e.arg[j], d)
               ELSE HoldsOne(e, d)

Matches(f, d) == \A i \in DOMAIN f : Holds(f[i], d)
Matching(f, docs) == {o \in DOMAIN docs : Matches(f, docs[o])}

\* Every unique index (a set of fields) tells the documents apart.
Unique(uniq, docs) ==
    \A K \in uniq : \A o, p \in DOMAIN docs :
        o # p => \E x \in K : docs[o][x] # docs[p][x]

(***************************************************************************)
(* The sort stage Search (432-443) and Group (563-575) build from the      *)
(* sorts map: one {key, order} per entry, in the order Go's range visits   *)
(* the map, which the runtime randomises on every loop.  prec is that      *)
(* order.  An order is -1 when the word lowercases to "desc", else 1.      *)
(***************************************************************************)
ToLower(w) == CASE w = "DESC" -> "desc"
                [] w = "ASC"  -> "asc"
                [] OTHER      -> w
SortStage(sorts, prec) ==
    [i \in DOMAIN prec |-> [Key |-> prec[i],
                            Value |-> IF ToLower(sorts[prec[i]]) = "desc" THEN -1 ELSE 1]]

\* The server's order: d comes strictly before e under the sort stage _s.
Before(d, e, _s) ==
    \E i \in DOMAIN _s :
        /\ \A j \in 1..(i - 1) : SortVal(d[_s[j].Key]) = SortVal(e[_s[j].Key])
        /\ IF _s[i].Value = 1 THEN SortVal(d[_s[i].Key]) < SortVal(e[_s[i].Key])
                              ELSE SortVal(d[_s[i].Key]) > SortVal(e[_s[i].Key])

\* The orders of the documents os the server may return: ties in any order.
Sorted(docs, os, _s) ==
    {s \in SetToSeqs(os) : IsSorted(s, LAMBDA o, p : ~Before(docs[p], docs[o], _s))}

\* Skip offset, then Limit limit; a limit of 0 means no limit.
Window(s, offset, limit) ==
    SubSeq(s, offset + 1, IF limit = 0 \/ offset + limit > Len(s) THEN Len(s) ELSE offset + limit)

\* The $set of Update (353-359): the fields of data take its values.
SetData(d, data) == [x \in Fields |-> IF x \in DOMAIN data THEN data[x] ELSE d[x]]

\* The value an $eq operand gives a field: a number, null, or an array.
Operand(v) == CASE v.kind = "scalar" -> v.vs[1]
                [] v.kind = "nil"    -> Null
                [] OTHER             -> Arr

\* The document an upsert inserts: the $eq conditions of the filter (nil
\* gives the field null), those of a $or of one clause among them, then
\* the $set.
Seed(f, data) ==
    LET g == [i \in DOMAIN f |-> IF f[i].op = "or" /\ Len(f[i].arg) = 1 THEN f[i].arg[1] ELSE f[i]]
        EqOn(x) == {i \in DOMAIN g : g[i].field = x /\ g[i].op = "eq"}
    IN  SetData([x \in Fields |-> IF EqOn(x) = {} THEN NoVal
                                  ELSE Operand(g[CHOOSE i \in EqOn(x) : TRUE].arg)], data)

(***************************************************************************)
(* Group (529-590): the pipeline it builds.  A nil filter adds no $match   *)
(* stage (an empty AND list matches every document); the $group document   *)
(* has _id groupBy unless groupBy is nil, and one {name: {type: key}} per  *)
(* entry of the columnBy maps (cols, a set of [name, type, key]); sorts    *)
(* becomes a $sort stage like Search's, in the range order prec.           *)
(***************************************************************************)
NoField == "nil"            \* groupBy == nil
Count1 == "1"               \* the accumulator key 1: {"$sum": 1} counts

\* (mutant: the $match stage left out)
GroupPipelineNoMatch(call, prec) ==
    [match |-> <<>>, id |-> call.by, cols |-> call.cols,
     sort |-> SortStage(call.sorts, prec)]

GroupPipeline(call, prec) ==
    [match |-> IF call.filter THEN Build(call.conds) ELSE <<>>, id |-> call.by,
     cols |-> call.cols, sort |-> SortStage(call.sorts, prec)]

\* The server's $group: one row per value of the _id field among the
\* documents G (a missing field groups as null), $sum and $max per column.
Accumulate(col, G, docs) ==
    LET Present == {o \in G : Num(docs[o][col.key])}
    IN  CASE col.key = Count1   -> Cardinality(G)
          [] col.type = "$sum" -> MapThenSumSet(LAMBDA o : docs[o][col.key], Present)
          [] Present = {}      -> Null
          [] OTHER             -> Max({docs[o][col.key] : o \in Present})

GroupKey(x) == IF IsNull(x) THEN Null ELSE x

GroupRows(pl, docs) ==
    LET M == Matching(pl.match, docs)
        Row(v) == LET G == {o \in M : GroupKey(docs[o][pl.id]) = v}
                  IN  ("_id" :> v) @@ [n \in {col.name : col \in pl.cols} |->
                          Accumulate(CHOOSE col \in pl.cols : col.name = n, G, docs)]
    IN  {Row(v) : v \in {GroupKey(docs[o][pl.id]) : o \in M}}

(***************************************************************************)
(* CreateShard (266-299): no keys, or a context not on the admin database, *)
(* is an error; then enablesharding, then shardcollection with the key     *)
(* document the code fills from shardKeys into a bson.M, a Go map, whose   *)
(* fields the driver encodes in the map's iteration order.                 *)
(***************************************************************************)
ShardKeyOrders(keys) == SetToSeqs(ToSet(keys))

-----------------------------------------------------------------------------

VARIABLES
    docs,       \* the collection: ObjectId -> document
    uniq,       \* the unique indexes CreateIndex has made: sets of fields
    cl,         \* per goroutine: pc, the call, its number, the next datas index, what it stored
    last,       \* per goroutine: what its last call returned
    calls,      \* the number of calls made
    pages,      \* history: the pages Search returned since the collection last changed
    used,       \* the ObjectIds generated so far (an ObjectId is never generated twice)
    sharding,   \* enablesharding has run on the database
    shardKey    \* the collection's shard key (a sequence of fields), <<>> if unsharded

vars == <<docs, uniq, cl, last, calls, pages, used, sharding, shardKey>>

NoCall == [op |-> "none"]
Idle == [pc |-> "idle", call |-> NoCall, t |-> 0, k |-> 1, ins |-> {}]
Ret(t, op) == [t |-> t, op |-> op, err |-> FALSE, n |-> 0, creates |-> 0, updates |-> 0, matches |-> 0,
           vals |-> {}, page |-> <<>>, rows |-> <<>>, arg |-> NoCall]
Fail(t, op) == [Ret(t, op) EXCEPT !.err = TRUE]

Init ==
    /\ docs = InitDocs
    /\ uniq = {}
    /\ cl = [c \in Clients |-> Idle]
    /\ last = [c \in Clients |-> Ret(0, "none")]
    /\ calls = 0
    /\ pages = {}
    /\ used = DOMAIN InitDocs
    /\ sharding = FALSE
    /\ shardKey = <<>>

\* A fresh ObjectId for the next document the driver or the server creates.
NewOid == CHOOSE o \in Oids : o \notin used
Generate == used' = used \cup {NewOid}

\* Goroutine c, idle, makes call number calls + 1.
Issue(c, call) ==
    /\ cl[c].pc = "idle"
    /\ calls < MaxCalls
    /\ call \in Calls
    /\ calls' = calls + 1

Returns(c, r) == last' = [last EXCEPT ![c] = r]

\* The collection becomes docs2; the paging history ends when it changed.
Store(docs2) ==
    /\ docs' = docs2
    /\ pages' = IF docs2 = docs THEN pages ELSE {}

\* A call whose filter the server rejects ($in or $nin without an array).
FilterRefused(c) ==
    \E call \in Calls :
        /\ Issue(c, call)
        /\ \/ call.op \in {"update", "delete", "count", "distinct", "search"}
           \/ call.op = "group" /\ call.filter
        /\ ~ValidFilter(Build(call.conds))
        /\ Returns(c, Fail(calls', call.op))
        /\ UNCHANGED <<docs, uniq, cl, pages, used, sharding, shardKey>>

(***************************************************************************)
(* Inserts (313-326): an ordered InsertMany.  The driver refuses an empty  *)
(* slice; otherwise the documents are stored one by one (InsertDoc) until  *)
(* the first that breaks a unique index.  On an error the code returns 0.  *)
(***************************************************************************)
Inserts(c) ==
    \E call \in Calls :
        /\ call.op = "inserts"
        /\ Issue(c, call)
        /\ IF Len(call.datas) = 0
           THEN /\ Returns(c, Fail(calls', call.op))
                /\ UNCHANGED cl
           ELSE /\ cl' = [cl EXCEPT ![c] = [pc |-> "insert", call |-> call, t |-> calls',
                                            k |-> 1, ins |-> {}]]
                /\ UNCHANGED last
        /\ UNCHANGED <<docs, uniq, pages, used, sharding, shardKey>>

InsertDoc(c) ==
    LET me == cl[c]
        docs2 == docs @@ (NewOid :> me.call.datas[me.k])
    IN  /\ me.pc = "insert"
        /\ Oids \ used # {}
        /\ Generate
        /\ \/ /\ Unique(uniq, docs2)
              /\ Store(docs2)
              /\ IF me.k = Len(me.call.datas)
                 THEN /\ cl' = [cl EXCEPT ![c] = Idle]
                      /\ Returns(c, [Ret(me.t, "inserts") EXCEPT !.n = Len(me.call.datas)])
                 ELSE /\ cl' = [cl EXCEPT ![c].k = me.k + 1, ![c].ins = me.ins \cup {NewOid}]
                      /\ UNCHANGED last
           \/ /\ ~Unique(uniq, docs2)
              /\ cl' = [cl EXCEPT ![c] = Idle]
              /\ Returns(c, Fail(me.t, "inserts"))
              /\ UNCHANGED <<docs, pages>>
        /\ UNCHANGED <<uniq, calls, sharding, shardKey>>

(***************************************************************************)
(* Update (346-371): UpdateMany with $set and the upsert option.  Every    *)
(* matched document takes the data; with none matched and isUpsert, the    *)
(* server inserts Seed.  A write that breaks a unique index fails the      *)
(* command after the writes before it (the set S, in the server's scan     *)
(* order) are kept, and the code returns no counts.                        *)
(***************************************************************************)
\* (mutant: "updates" reports MatchedCount)
UpdateCountsMatched(t, docs2, M) ==
    [Ret(t, "update") EXCEPT !.matches = Cardinality(M), !.updates = Cardinality(M)]

UpdateCounts(t, docs2, M) ==
    [Ret(t, "update") EXCEPT !.matches = Cardinality(M),
                   !.updates = Cardinality({o \in M : docs2[o] # docs[o]})]

Update(c) ==
    \E call \in Calls :
        LET f == Build(call.conds)
            M == Matching(f, docs)
            Applied(S) == [o \in DOMAIN docs |->
                               IF o \in S THEN SetData(docs[o], call.data) ELSE docs[o]]
            new == docs @@ (NewOid :> Seed(f, call.data))
        IN  /\ call.op = "update"
            /\ Issue(c, call)
            /\ ValidFilter(f)
            /\ \/ /\ M # {} \/ ~call.isUpsert
                  /\ Unique(uniq, Applied(M))
                  /\ Store(Applied(M))
                  /\ Returns(c, UpdateCounts(calls', Applied(M), M))
                  /\ UNCHANGED used
               \/ /\ \E S \in SUBSET M :
                        /\ Unique(uniq, Applied(S))
                        /\ \E o \in M \ S : ~Unique(uniq, Applied(S \cup {o}))
                        /\ Store(Applied(S))
                  /\ Returns(c, Fail(calls', call.op))
                  /\ UNCHANGED used
               \/ /\ M = {} /\ call.isUpsert
                  /\ Oids \ used # {}
                  /\ Unique(uniq, new)
                  /\ Store(new)
                  /\ Generate
                  /\ Returns(c, [Ret(calls', call.op) EXCEPT !.creates = 1])
               \/ /\ M = {} /\ call.isUpsert
                  /\ ~Unique(uniq, new)
                  /\ Returns(c, Fail(calls', call.op))
                  /\ UNCHANGED <<docs, pages, used>>
            /\ UNCHANGED <<uniq, cl, sharding, shardKey>>

\* Delete (385-398): DeleteMany; the code returns DeletedCount.
Delete(c) ==
    \E call \in Calls :
        LET M == Matching(Build(call.conds), docs) IN
        /\ call.op = "delete"
        /\ Issue(c, call)
        /\ ValidFilter(Build(call.conds))
        /\ Store(Restrict(docs, DOMAIN docs \ M))
        /\ Returns(c, [Ret(calls', call.op) EXCEPT !.n = Cardinality(M)])
        /\ UNCHANGED <<uniq, cl, used, sharding, shardKey>>

\* Count (493-501): CountDocuments.
Count(c) ==
    \E call \in Calls :
        /\ call.op = "count"
        /\ Issue(c, call)
        /\ ValidFilter(Build(call.conds))
        /\ Returns(c, [Ret(calls', call.op) EXCEPT !.n = Cardinality(Matching(Build(call.conds), docs))])
        /\ UNCHANGED <<docs, uniq, cl, pages, used, sharding, shardKey>>

\* Distinct (471-479): the values of the field among the matched
\* documents, null included; a document without the field contributes none.
Distinct(c) ==
    \E call \in Calls :
        /\ call.op = "distinct"
        /\ Issue(c, call)
        /\ ValidFilter(Build(call.conds))
        /\ Returns(c, [Ret(calls', call.op) EXCEPT !.vals =
                          {docs[o][call.field] : o \in Matching(Build(call.conds), docs)} \ {NoVal}])
        /\ UNCHANGED <<docs, uniq, cl, pages, used, sharding, shardKey>>

(***************************************************************************)
(* Search (421-456): Find with Skip offset, Limit limit and the sort stage *)
(* built from the sorts map in the order prec the range loop took.  The    *)
(* page joins the paging history.                                          *)
(***************************************************************************)
Search(c) ==
    \E call \in Calls :
        LET f == Build(call.conds) IN
        /\ call.op = "search"
        /\ Issue(c, call)
        /\ ValidFilter(f)
        /\ \E prec \in SetToSeqs(DOMAIN call.sorts) :
           \E s \in Sorted(docs, Matching(f, docs), SortStage(call.sorts, prec)) :
               LET page == Window(s, call.offset, call.limit) IN
               /\ Returns(c, [Ret(calls', call.op) EXCEPT !.page = page])
               /\ pages' = pages \cup {[conds |-> call.conds, sorts |-> call.sorts,
                                        offset |-> call.offset, page |-> page]}
        /\ UNCHANGED <<docs, uniq, cl, used, sharding, shardKey>>

(***************************************************************************)
(* CreateIndex (207-257): one index model per key list; none is an error.  *)
(* The server builds the indexes of one createIndexes command together:    *)
(* if a unique one is broken by the documents, none is made.  Only the     *)
(* unique ones change what later writes may do.                            *)
(***************************************************************************)
CreateIndex(c) ==
    \E call \in Calls :
        /\ call.op = "index"
        /\ Issue(c, call)
        /\ IF \/ call.uniqueKeys = {} /\ call.indexKeys = {}
              \/ ~Unique(uniq \cup call.uniqueKeys, docs)
           THEN /\ Returns(c, Fail(calls', call.op))
                /\ UNCHANGED uniq
           ELSE /\ uniq' = uniq \cup call.uniqueKeys
                /\ Returns(c, Ret(calls', call.op))
        /\ UNCHANGED <<docs, cl, pages, used, sharding, shardKey>>

(***************************************************************************)
(* Group: the server runs the pipeline; a $group without _id fails.  The   *)
(* rows come back in the $sort order, ties in any order.                   *)
(***************************************************************************)
Group(c) ==
    \E call \in Calls :
        /\ call.op = "group"
        /\ Issue(c, call)
        /\ ValidFilter(IF call.filter THEN Build(call.conds) ELSE <<>>)
        /\ \E prec \in SetToSeqs(DOMAIN call.sorts) :
             LET pl == GroupPipeline(call, prec) IN
             IF pl.id = NoField
             THEN Returns(c, Fail(calls', call.op))
             ELSE \E s \in SetToSeqs(GroupRows(pl, docs)) :
                     /\ IsSorted(s, LAMBDA x, y : ~Before(y, x, pl.sort))
                     /\ Returns(c, [Ret(calls', call.op) EXCEPT !.rows = s, !.arg = call])
        /\ UNCHANGED <<docs, uniq, cl, pages, used, sharding, shardKey>>

(***************************************************************************)
(* CreateShard: two commands.  shardcollection fails when the collection   *)
(* is already sharded, or for a reason of the server's (no index that      *)
(* supports the key on a non-empty collection); sharding stays enabled.    *)
(***************************************************************************)
CreateShard(c) ==
    \E call \in Calls :
        /\ call.op = "shard"
        /\ Issue(c, call)
        /\ IF Len(call.keys) = 0 \/ ~call.admin
           THEN /\ Returns(c, Fail(calls', call.op))
                /\ UNCHANGED <<sharding, shardKey>>
           ELSE /\ sharding' = TRUE
                /\ \/ /\ shardKey = <<>>
                      /\ \E key \in ShardKeyOrders(call.keys) : shardKey' = key
                      /\ Returns(c, [Ret(calls', call.op) EXCEPT !.arg = call])
                   \/ /\ UNCHANGED shardKey
                      /\ Returns(c, Fail(calls', call.op))
        /\ UNCHANGED <<docs, uniq, cl, pages, used>>

Next ==
    \E c \in Clients :
        \/ FilterRefused(c)
        \/ Inserts(c)
        \/ InsertDoc(c)
        \/ Update(c)
        \/ Delete(c)
        \/ Count(c)
        \/ Distinct(c)
        \/ Search(c)
        \/ CreateIndex(c)
        \/ Group(c)
        \/ CreateShard(c)

Spec == Init /\ [][Next]_vars

-----------------------------------------------------------------------------

Doc == [Fields -> Vals \cup {NoVal, Null}]

TypeOK ==
    /\ DOMAIN docs \subseteq Oids /\ \A o \in DOMAIN docs : docs[o] \in Doc
    /\ uniq \subseteq SUBSET Fields
    /\ \A c \in Clients :
          /\ cl[c].pc \in {"idle", "insert"}
          /\ cl[c].ins \subseteq Oids
          /\ last[c].err \in BOOLEAN
          /\ last[c].vals \subseteq Vals \cup {Null}
          /\ last[c].page \in Seq(Oids)
    /\ calls \in 0..MaxCalls

\* Goroutine c's call returns without an error in this step.
Succeeds(c) == last'[c] # last[c] /\ ~last'[c].err

(***************************************************************************)
(* The counts a call returns say what it did to the collection, while      *)
(* other goroutines write it too: Update's "updates" is the number of      *)
(* documents it changed, "creates" the number it added, and "matches" is   *)
(* at least "updates"; Delete returns the number it removed; Inserts the   *)
(* number of documents it stored, in this and its earlier steps.           *)
(***************************************************************************)
ReturnedCountsExact ==
    [][\A c \in Clients :
        Succeeds(c) =>
          LET r == last'[c]
              changed == {o \in DOMAIN docs \cap DOMAIN docs' : docs'[o] # docs[o]}
          IN  CASE r.op = "update" ->
                     /\ r.updates = Cardinality(changed)
                     /\ r.creates = Cardinality(DOMAIN docs' \ DOMAIN docs)
                     /\ r.matches >= r.updates
                [] r.op = "delete" ->
                     r.n = Cardinality(DOMAIN docs \ DOMAIN docs')
                [] r.op = "inserts" ->
                     r.n = Cardinality(cl[c].ins \cup (DOMAIN docs' \ DOMAIN docs))
                [] OTHER -> TRUE
       ]_vars

(***************************************************************************)
(* Paging by offset: two Search calls with the same filter and the same    *)
(* sorts map, with no write to the collection between them, agree on the   *)
(* rank of every document they both return, so the pages offset 0, limit, *)
(* 2 * limit, ... neither repeat nor skip a document.  The offset comment  *)
(* of Search ("record start index, from 0") promises such a rank.          *)
(***************************************************************************)
SearchOrderConsistent ==
    \A p, q \in pages :
        p.conds = q.conds /\ p.sorts = q.sorts =>
            \A i \in DOMAIN p.page, j \in DOMAIN q.page :
                (p.page[i] = q.page[j]) <=> (p.offset + i = q.offset + j)

(***************************************************************************)
(* The doc comment of Inserts: it returns the number of documents stored.  *)
(* Checked when the call returns, with or without an error.                *)
(***************************************************************************)
InsertsReturnsStored ==
    [][\A c \in Clients :
        last'[c] # last[c] /\ last'[c].op = "inserts" /\ cl[c].pc = "insert" =>
            last'[c].n = Cardinality(cl[c].ins \cup (DOMAIN docs' \ DOMAIN docs))
       ]_vars
(***************************************************************************)
(* The doc comment of Group: its rows are the groups, by the groupBy       *)
(* field, of the documents the filter matches, one row per value (the     *)
(* _id), each columnBy item ($sum of a field or of 1, $max of a field)     *)
(* computed over the documents of that row's group.                        *)
(***************************************************************************)
GroupRowsExact ==
    [][\A c \in Clients :
        Succeeds(c) /\ last'[c].op = "group" =>
          LET call == last'[c].arg
              rows == ToSet(last'[c].rows)
              M == {o \in DOMAIN docs : call.filter => Matches(Build(call.conds), docs[o])}
              Key(o) == IF docs[o][call.by] \in Vals THEN docs[o][call.by] ELSE Null
              InGroup(r) == {o \in M : Key(o) = r["_id"]}
              Has(o, x) == docs[o][x] \in Vals
          IN  /\ {r["_id"] : r \in rows} = {Key(o) : o \in M}
              /\ Len(last'[c].rows) = Cardinality(rows)
              /\ \A r \in rows, col \in call.cols :
                   LET G == InGroup(r) IN
                   r[col.name] = CASE col.key = Count1 -> Cardinality(G)
                                   [] col.type = "$sum" ->
                                        MapThenSumSet(LAMBDA o : docs[o][col.key],
                                                      {o \in G : Has(o, col.key)})
                                   [] OTHER ->
                                        IF \A o \in G : ~Has(o, col.key) THEN Null
                                        ELSE CHOOSE v \in {docs[o][col.key] : o \in G} :
                                               \A o \in G : docs[o][col.key] <= v
       ]_vars

(***************************************************************************)
(* The doc comment of CreateShard: the collection is sharded on the fields *)
(* of shardKeys, in that order (the order of a compound shard key decides  *)
(* how the documents are split into chunks).                               *)
(***************************************************************************)
ShardKeyAsGiven ==
    [][\A c \in Clients :
        Succeeds(c) /\ last'[c].op = "shard" => shardKey' = last'[c].arg.keys]_vars
====
