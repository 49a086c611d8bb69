----------------------------- MODULE EsContext -----------------------------
(***************************************************************************)
(* The Elasticsearch 6 wrapper of src/lib/elastic_v6/elasticsearch.go:     *)
(* goroutines sharing one EsContext write, delete and count documents of   *)
(* one index through it, while the server applies each request.  An        *)
(* EsContext holds no state of its own besides the client, so what is      *)
(* interleaved is the requests: the items of a bulk request, the           *)
(* snapshot and the per-document steps of a by-query request, and the      *)
(* replies.  The server side is the environment; it is modelled from the   *)
(* behaviour of Elasticsearch 6: per-item bulk results, detect_noop on     *)
(* partial updates, and by-query requests that abort on the first version  *)
(* conflict.  A document is the record of its two fields, f and g.         *)
(***************************************************************************)
EXTENDS Naturals, Sequences, SequencesExt, FiniteSets, Functions

CONSTANTS
    Ids,        \* the document ids a caller may name; "" asks for a generated one
    AutoIds,    \* the ids the server may generate (their number bounds it)
    Vals,       \* the values of the fields f and g
    Clients,    \* the goroutines sharing the EsContext
    Calls,      \* the requests a goroutine may make
    InitDocs,   \* the documents of the index at the start
    AggSize,    \* the "size" of every terms aggregation and ids query (10000 in the code)
    ScrollIds,  \* the scroll ids the server may hand out (their number bounds it)
    MaxCalls,   \* the number of requests, over all goroutines
    MaxFaults   \* the number of requests whose transport fails

Fields == {"f", "g"}
Data == [Fields -> Vals]
CountName == "cnt"          \* the one columnby entry: {"cnt": {"value_count": "f"}}
NoUpd == -1                 \* updatas == nil (no field value is negative)

(***************************************************************************)
(* getQueryString (1483-1625).  musts, shoulds and filters are sets of     *)
(* clauses [type, key, val], one per type and key as in the code's nested  *)
(* maps; ranges are [key, gte, lte].  The *_not types of musts go to       *)
(* must_not under their positive type; ranges join the filters; a query    *)
(* with no clause at all is an error.                                      *)
(***************************************************************************)
NotTypes == {"term_not", "terms_not", "match_not"}
Positive(t) == CASE t = "term_not" -> "term"
                 [] t = "terms_not" -> "terms"
                 [] OTHER -> "match"

GetQueryString(q) ==
    LET mustobj    == {c \in q.musts : c.type \notin NotTypes}
        mustnotobj == {[c EXCEPT !.type = Positive(c.type)] :
                          c \in {m \in q.musts : m.type \in NotTypes}}
        filterobj  == q.filters \cup
                      {[type |-> "range", key |-> r.key, val |-> <<r.gte, r.lte>>] :
                          r \in q.ranges}
        bool == [must |-> mustobj, must_not |-> mustnotobj,
                 should |-> q.shoulds, filter |-> filterobj]
    IN  IF \A part \in DOMAIN bool : bool[part] = {}
        THEN [ok |-> FALSE]
        ELSE [ok |-> TRUE, bool |-> bool]

(***************************************************************************)
(* How Elasticsearch evaluates a clause and a bool query.  match, term,    *)
(* prefix, wildcard and regexp compare the whole value (the abstraction of *)
(* analysis and patterns); an unknown clause type makes the request fail   *)
(* with 400.  In query context a bool query with a must or a filter clause *)
(* matches whether or not a should clause does; otherwise one should must. *)
(***************************************************************************)
KnownTypes == {"match", "term", "terms", "prefix", "wildcard", "regexp", "range"}

Holds(c, d) ==
    CASE c.type = "terms" -> d[c.key] \in c.val
      [] c.type = "range" -> c.val[1] <= d[c.key] /\ d[c.key] <= c.val[2]
      [] OTHER            -> d[c.key] = c.val

ValidBool(b) == \A part \in DOMAIN b : \A c \in b[part] : c.type \in KnownTypes

EsMatches(b, d) ==
    /\ \A c \in b.must : Holds(c, d)
    /\ \A c \in b.must_not : ~Holds(c, d)
    /\ \A c \in b.filter : Holds(c, d)
    /\ \/ b.should = {}
       \/ b.must # {} \/ b.filter # {}
       \/ \E c \in b.should : Holds(c, d)

(***************************************************************************)
(* The documented meaning of the parameters (the comments above           *)
(* DeleteDataByQuery and UpdateDataByQuery): musts are AND conditions,     *)
(* shoulds OR conditions of the same form, filters and ranges restrict.    *)
(***************************************************************************)
Cond(c, d) == IF c.type \in NotTypes
              THEN ~Holds([c EXCEPT !.type = Positive(c.type)], d)
              ELSE Holds(c, d)

Documented(q, d) ==
    /\ \A c \in q.musts : Cond(c, d)
    /\ q.shoulds = {} \/ \E c \in q.shoulds : Cond(c, d)
    /\ \A c \in q.filters : Holds(c, d)
    /\ \A r \in q.ranges : r.gte <= d[r.key] /\ d[r.key] <= r.lte

(***************************************************************************)
(* The request each function sends, or the error its argument checks      *)
(* return first.  A write request is the list of bulk items [act, id,     *)
(* data] the code writes line by line; InsertData, UpdateData and          *)
(* DeleteData send one document request, which the server applies as one  *)
(* item.  A by-query request is the bool query of getQueryString.          *)
(***************************************************************************)
NoData == [f |-> -1, g |-> -1]     \* a delete line carries no source
ActOf == [t \in 1..3 |-> <<"index", "update", "delete">>[t]]   \* TInsert, TUpdate, TDelete

Single == {"insert", "update", "delete"}
Bulk == {"binsert", "bupdate", "bdelete", "bstore"}
ByQuery == {"dbq", "ubq", "count", "dphrase"}
Searches == {"query", "qdata", "phrase", "byid"}

Refused == [err |-> "arg"]
Sends(items) == [err |-> "none", items |-> items]
Item(act, id, data) == [act |-> act, id |-> id, data |-> data]

InsertData(call) == Sends(<<Item("index", call.id, call.data)>>)

UpdateData(call) ==
    IF call.id = "" THEN Refused ELSE Sends(<<Item("update", call.id, call.data)>>)

DeleteData(call) ==
    IF call.id = "" THEN Refused ELSE Sends(<<Item("delete", call.id, NoData)>>)

BatchInsertData(call) ==
    IF Len(call.datas) = 0 \/ Len(call.ids) # Len(call.datas) THEN Refused
    ELSE Sends([i \in 1..Len(call.ids) |-> Item("index", call.ids[i], call.datas[i])])

BatchUpdateData(call) ==
    IF \/ Len(call.datas) = 0 \/ Len(call.ids) # Len(call.datas)
       \/ "" \in ToSet(call.ids)
    THEN Refused
    ELSE Sends([i \in 1..Len(call.ids) |-> Item("update", call.ids[i], call.datas[i])])

BatchDeleteData(call) ==
    IF Len(call.ids) = 0 \/ "" \in ToSet(call.ids) THEN Refused
    ELSE Sends([i \in 1..Len(call.ids) |-> Item("delete", call.ids[i], NoData)])

BatchStoreData(call) ==
    LET its == call.items
    IN  IF \/ Len(its) = 0
           \/ \E i \in 1..Len(its) : its[i].type # 1 /\ its[i].doc = ""
        THEN Refused
        ELSE Sends([i \in 1..Len(its) |-> Item(ActOf[its[i].type], its[i].doc, its[i].data)])

DeleteDataByQuery(call) ==
    LET qs == GetQueryString(call.q)
    IN  IF ~qs.ok THEN Refused ELSE [err |-> "none", bool |-> qs.bool]

\* Without the check for nil updatas.
UpdateDataByQueryNoNilCheck(call) ==
    LET qs == GetQueryString(call.q)
    IN  IF ~qs.ok THEN Refused ELSE [err |-> "none", bool |-> qs.bool]

UpdateDataByQuery(call) ==
    LET qs == GetQueryString(call.q)
    IN  IF ~qs.ok \/ call.upd = NoUpd THEN Refused ELSE [err |-> "none", bool |-> qs.bool]

CountDataByQuery(call) ==
    LET qs == GetQueryString(call.q)
    IN  IF Len(call.groupby) = 0 \/ ~qs.ok THEN Refused ELSE [err |-> "none", bool |-> qs.bool]

(***************************************************************************)
(* The searches.  ScrollQuery sends getQueryString's bool query with from, *)
(* size and the sort array it builds by ranging over the sorts map; with   *)
(* scroll > 0 WithScroll opens a scroll context.  QueryData is ScrollQuery *)
(* with scroll 0.  QueryPhraseString and DeletePhraseString write the      *)
(* query_string and the match_phrase clause (each a set of at most one     *)
(* clause here, {} for nil) into one "query" object: with both, that       *)
(* object holds two queries (multi).  QueryDataById sends an ids query of  *)
(* size 10000.  PageByScroll sends the scroll id it is given, unchecked.   *)
(***************************************************************************)
Search(bool, multi) == [err |-> "none", bool |-> bool, multi |-> multi]

ScrollQuery(call) ==
    LET qs == GetQueryString(call.q)
    IN  IF ~qs.ok THEN Refused ELSE Search(qs.bool, FALSE)

QueryData(call) == ScrollQuery(call)

PhraseBool(call) == [must |-> call.qstr \cup call.phrase, must_not |-> {},
                     should |-> {}, filter |-> {}]

QueryPhraseString(call) ==
    IF call.qstr = {} /\ call.phrase = {} THEN Refused
    ELSE Search(PhraseBool(call), call.qstr # {} /\ call.phrase # {})

DeletePhraseString(call) ==
    IF call.qstr = {} /\ call.phrase = {} THEN Refused
    ELSE Search(PhraseBool(call), call.qstr # {} /\ call.phrase # {})

QueryDataById(call) ==
    IF Len(call.ids) = 0 THEN Refused ELSE [err |-> "none", ids |-> ToSet(call.ids)]

PageByScroll(call) == [err |-> "none"]

Request(call) ==
    CASE call.op = "insert"  -> InsertData(call)
      [] call.op = "update"  -> UpdateData(call)
      [] call.op = "delete"  -> DeleteData(call)
      [] call.op = "binsert" -> BatchInsertData(call)
      [] call.op = "bupdate" -> BatchUpdateData(call)
      [] call.op = "bdelete" -> BatchDeleteData(call)
      [] call.op = "bstore"  -> BatchStoreData(call)
      [] call.op = "dbq"     -> DeleteDataByQuery(call)
      [] call.op = "ubq"     -> UpdateDataByQuery(call)
      [] call.op = "count"   -> CountDataByQuery(call)
      [] call.op = "query"   -> ScrollQuery(call)
      [] call.op = "qdata"   -> QueryData(call)
      [] call.op = "phrase"  -> QueryPhraseString(call)
      [] call.op = "dphrase" -> DeletePhraseString(call)
      [] call.op = "byid"    -> QueryDataById(call)
      [] call.op = "page"    -> PageByScroll(call)

Items(call) == Request(call).items

(***************************************************************************)
(* The server applying one item to the documents (id :> [data, seq]):     *)
(* index creates or overwrites, a partial update of a missing document     *)
(* fails and one that changes nothing is a noop, delete reports not_found  *)
(* for a missing document.  seq is the sequence number of the last write.  *)
(***************************************************************************)
Absent == [f |-> -2, g |-> -2]     \* no document under the id
DataOf(docs, id) == IF id \in DOMAIN docs THEN docs[id].data ELSE Absent

ApplyItem(it, docs, seq, aid) ==
    LET id == IF it.act = "index" /\ it.id = "" THEN aid ELSE it.id
        put == (id :> [data |-> it.data, seq |-> seq + 1]) @@ docs
        result ==
            CASE it.act = "index"  -> IF id \in DOMAIN docs THEN "updated" ELSE "created"
              [] id \notin DOMAIN docs -> IF it.act = "update" THEN "missing" ELSE "not_found"
              [] it.act = "delete" -> "deleted"
              [] docs[id].data = it.data -> "noop"
              [] OTHER -> "updated"
        docs2 == CASE result \in {"created", "updated"} -> put
                   [] result = "deleted" -> Restrict(docs, DOMAIN docs \ {id})
                   [] OTHER -> docs
    IN  [docs |-> docs2, seq |-> IF docs2 = docs THEN seq ELSE seq + 1, result |-> result,
         before |-> DataOf(docs, id), after |-> DataOf(docs2, id)]

(***************************************************************************)
(* The terms aggregations CountDataByQuery nests, one per groupby field,   *)
(* with the value_count column in the innermost one: buckets in           *)
(* descending count, at most AggSize of them.                              *)
(***************************************************************************)
RECURSIVE Agg(_, _, _)
Agg(D, gb, i) ==
    LET by == gb[i]
        Bucket(v) ==
            LET Dv == Restrict(D, {x \in DOMAIN D : D[x][by] = v})
            IN  [key |-> v, cnt |-> Cardinality(DOMAIN Dv),
                 sub |-> IF i < Len(gb) THEN Agg(Dv, gb, i + 1) ELSE <<>>]
        sorted == SetToSortSeq({Bucket(v) : v \in {D[x][by] : x \in DOMAIN D}},
                               LAMBDA a, b : a.cnt > b.cnt \/ (a.cnt = b.cnt /\ a.key < b.key))
    IN  SubSeq(sorted, 1, IF Len(sorted) < AggSize THEN Len(sorted) ELSE AggSize)

(***************************************************************************)
(* getCountResult (1626-1667): walks the buckets of level _i, sets         *)
(* viadata[_by] to the bucket's key, recurses below the last level and     *)
(* emits a copy of viadata plus the columns at it.  viadata is one map     *)
(* shared by the whole walk, so it is threaded through and returned.       *)
(***************************************************************************)
\* A walk that sets viadata[_by] only after descending.
RECURSIVE GetCountResultLate(_, _, _, _, _)
GetCountResultLate(level, viadata, groupby, i, glen) ==
    LET by == groupby[i + 1]
        Step(acc, bucket) ==
            IF i < glen - 1
            THEN LET t == GetCountResultLate(bucket.sub, acc.via, groupby, i + 1, glen)
                 IN  [datas |-> acc.datas \o t.datas, via |-> (by :> bucket.key) @@ t.via]
            ELSE LET via == (by :> bucket.key) @@ acc.via
                 IN  [datas |-> Append(acc.datas, (CountName :> bucket.cnt) @@ via), via |-> via]
    IN  FoldLeft(Step, [datas |-> <<>>, via |-> viadata], level)

RECURSIVE GetCountResult(_, _, _, _, _)
GetCountResult(level, viadata, groupby, i, glen) ==
    LET by == groupby[i + 1]
        Step(acc, bucket) ==
            LET via == (by :> bucket.key) @@ acc.via
            IN  IF i < glen - 1
                THEN LET t == GetCountResult(bucket.sub, via, groupby, i + 1, glen)
                     IN  [datas |-> acc.datas \o t.datas, via |-> t.via]
                ELSE [datas |-> Append(acc.datas, (CountName :> bucket.cnt) @@ via),
                      via |-> via]
    IN  FoldLeft(Step, [datas |-> <<>>, via |-> viadata], level)

\* The rows a GROUP BY over the hits gives: one per distinct key, with its count.
CountRows(D, gb) ==
    LET keys == {[x \in ToSet(gb) |-> D[y][x]] : y \in DOMAIN D}
        N(t) == Cardinality({y \in DOMAIN D : \A x \in ToSet(gb) : D[y][x] = t[x]})
    IN  {(CountName :> N(t)) @@ t : t \in keys}

(***************************************************************************)
(* The sort array ScrollQuery and QueryPhraseString build (928-937, 1391-  *)
(* 1400): one {key: {order}} per entry of the sorts map, in the order the  *)
(* range visits them, which Go randomises on every call: prec is that      *)
(* order.  Elasticsearch sorts lexicographically by the array and returns  *)
(* ties, and every hit when there is no sort, in an order of its own.      *)
(***************************************************************************)
SortObj(sorts, prec) == [i \in 1..Len(prec) |-> [key |-> prec[i], order |-> sorts[prec[i]]]]

SortBefore(d, e, so) ==
    \E i \in 1..Len(so) :
        /\ \A j \in 1..(i - 1) : d[so[j].key] = e[so[j].key]
        /\ IF so[i].order = "asc" THEN d[so[i].key] < e[so[i].key]
                                  ELSE d[so[i].key] > e[so[i].key]

\* The hit lists [id, data] the server may return for the hits H (id :> data).
SortedHits(H, so) ==
    {[i \in 1..Len(s) |-> [id |-> s[i], data |-> H[s[i]]]] :
        s \in {t \in SetToSeqs(DOMAIN H) : IsSorted(t, LAMBDA x, y : ~SortBefore(H[y], H[x], so))}}

\* from/size: the hits at positions from+1 .. from+size.
FromSize(s, from, size) ==
    SubSeq(s, from + 1, IF from + size < Len(s) THEN from + size ELSE Len(s))

(***************************************************************************)
(* The retobj of BatchInsertData (495-508), BatchUpdateData (576-588),     *)
(* BatchDeleteData (651-661) and BatchStoreData (760-791): item _i goes to  *)
(* a list by its result; BatchStoreData first counts a delete of a        *)
(* missing document as deleted.                                            *)
(***************************************************************************)
CatsOf(op) ==
    CASE op = "binsert" -> {"creates", "updates", "fails"}
      [] op = "bupdate" -> {"updates", "fails"}
      [] op = "bdelete" -> {"deletes", "fails"}
      [] op = "bstore"  -> {"creates", "updates", "deletes", "fails"}

CategoryOf(op, r) ==
    LET res == IF op = "bstore" /\ r = "not_found" THEN "deleted" ELSE r
        named == [created |-> "creates", updated |-> "updates",
                  noop |-> "updates", deleted |-> "deletes"]
    IN  IF res \in DOMAIN named /\ named[res] \in CatsOf(op) THEN named[res] ELSE "fails"

\* The positions counted from 1.
ReportOneBased(op, res) ==
    [cat \in CatsOf(op) |-> {j \in DOMAIN res : CategoryOf(op, res[j].result) = cat}]

Report(op, res) ==
    [cat \in CatsOf(op) |-> {i - 1 : i \in {j \in DOMAIN res : CategoryOf(op, res[j].result) = cat}}]

-----------------------------------------------------------------------------
VARIABLES
    docs,       \* the documents of the index: id :> [data, seq]
    seq,        \* the sequence number of the last write
    issued,     \* the ids the server has generated
    cl,         \* cl[c]: the request goroutine c has in flight, and its progress
    last,       \* last[c]: what c's last call returned
    calls,      \* requests made so far
    faults,     \* requests whose transport failed so far
    scrolls     \* the server's scroll contexts: sid :> [snap, pos, size, seen, given]

vars == <<docs, seq, issued, cl, last, calls, faults, scrolls>>

NoCall == [op |-> "none"]
Idle == [pc |-> "idle", call |-> NoCall, k |-> 1, res |-> <<>>, snap |-> <<>>,
         hits |-> <<>>, agg |-> <<>>, status |-> 0, page |-> <<>>, sid |-> ""]
NoReply == [err |-> "none", report |-> <<>>, rows |-> <<>>, hits |-> <<>>, sid |-> ""]
NoId == "noid"

Init ==
    /\ docs = [id \in DOMAIN InitDocs |-> [data |-> InitDocs[id], seq |-> 1]]
    /\ seq = 1
    /\ issued = {}
    /\ cl = [c \in Clients |-> Idle]
    /\ last = [c \in Clients |-> NoReply]
    /\ calls = 0
    /\ faults = 0
    /\ scrolls = <<>>

(***************************************************************************)
(* A goroutine calls one of the functions.  Its argument checks run first; *)
(* a call they refuse returns an error without a request.  PageByScroll is *)
(* handed the id the last call returned ("" after an error) or an id the   *)
(* caller kept from an earlier reply, as a caller retrying after an error  *)
(* does: PageByScroll takes whatever id it is given.                       *)
(***************************************************************************)
PageIds(c) == {last[c].sid} \cup {sid \in DOMAIN scrolls : scrolls[sid].given}

Call(c) ==
    /\ cl[c].pc = "idle"
    /\ calls < MaxCalls
    /\ calls' = calls + 1
    /\ \E call \in Calls :
          \/ /\ Request(call).err = "arg"
             /\ last' = [last EXCEPT ![c] = [NoReply EXCEPT !.err = "arg"]]
             /\ UNCHANGED cl
          \/ /\ Request(call).err = "none"
             /\ \E sid \in IF call.op = "page" THEN PageIds(c) ELSE {""} :
                   cl' = [cl EXCEPT ![c] = [Idle EXCEPT !.pc = "send", !.call = call,
                                               !.sid = sid]]
             /\ UNCHANGED last
    /\ UNCHANGED <<docs, seq, issued, faults, scrolls>>

\* req.Do / Search fails before the server has the request: nothing applied.
SendFails(c) ==
    /\ cl[c].pc = "send"
    /\ faults < MaxFaults
    /\ faults' = faults + 1
    /\ cl' = [cl EXCEPT ![c] = Idle]
    /\ last' = [last EXCEPT ![c] = [NoReply EXCEPT !.err = "transport"]]
    /\ UNCHANGED <<docs, seq, issued, calls, scrolls>>

(***************************************************************************)
(* The server applies the next item of a document or bulk request.  Items *)
(* of concurrent requests interleave.  A single-document request answers  *)
(* 404 when its item is missing or not_found; a bulk request answers 200   *)
(* with the result of every item.                                          *)
(***************************************************************************)
BulkItem(c) ==
    LET st == cl[c]
        it == Items(st.call)[st.k]
        Apply(aid) ==
            LET r == ApplyItem(it, docs, seq, aid)
                n == Len(Items(st.call))
            IN  /\ docs' = r.docs
                /\ seq' = r.seq
                /\ cl' = [cl EXCEPT ![c] =
                            [st EXCEPT !.k = st.k + 1,
                                       !.res = Append(st.res, [result |-> r.result,
                                                   before |-> r.before, after |-> r.after]),
                                       !.pc = IF st.k = n THEN "reply" ELSE "bulk",
                                       !.status = IF st.call.op \in Single
                                                     /\ r.result \in {"missing", "not_found"}
                                                  THEN 404 ELSE 200]]
    IN  /\ st.pc \in {"send", "bulk"}
        /\ st.call.op \in Single \cup Bulk
        /\ \/ /\ it.act = "index" /\ it.id = ""
              /\ \E aid \in AutoIds \ issued : Apply(aid) /\ issued' = issued \cup {aid}
           \/ /\ ~(it.act = "index" /\ it.id = "")
              /\ Apply(NoId) /\ UNCHANGED issued
        /\ UNCHANGED <<last, calls, faults, scrolls>>

Hits(call) ==
    LET b == Request(call).bool
    IN  [id \in {x \in DOMAIN docs : EsMatches(b, docs[x].data)} |-> docs[id]]

\* A query with a clause type Elasticsearch does not know, or a "query"
\* object holding two queries, is refused with 400.
Malformed(call) ==
    \/ ~ValidBool(Request(call).bool)
    \/ call.op \in {"phrase", "dphrase"} /\ Request(call).multi

ScanRejected(c) ==
    /\ cl[c].pc = "send"
    /\ cl[c].call.op \in ByQuery \cup (Searches \ {"byid"})
    /\ Malformed(cl[c].call)
    /\ cl' = [cl EXCEPT ![c].pc = "reply", ![c].status = 400]
    /\ UNCHANGED <<docs, seq, issued, last, calls, faults, scrolls>>

\* The search of CountDataByQuery: the nested aggregations over the hits.
ScanCount(c) ==
    LET call == cl[c].call
        D == [id \in DOMAIN Hits(call) |-> Hits(call)[id].data]
    IN  /\ cl[c].pc = "send"
        /\ call.op = "count"
        /\ ValidBool(Request(call).bool)
        /\ cl' = [cl EXCEPT ![c].pc = "reply", ![c].status = 200, ![c].hits = D,
                            ![c].agg = Agg(D, call.groupby, 1)]
        /\ UNCHANGED <<docs, seq, issued, last, calls, faults, scrolls>>

(***************************************************************************)
(* _delete_by_query and _update_by_query take a snapshot of the hits with  *)
(* their sequence numbers, then write them one at a time.  The code sets   *)
(* no conflicts parameter, so the first document changed since the         *)
(* snapshot aborts the request with 409, the writes before it kept.        *)
(***************************************************************************)
ScanByQuery(c) ==
    LET call == cl[c].call
        H == Hits(call)
    IN  /\ cl[c].pc = "send"
        /\ call.op \in {"dbq", "ubq", "dphrase"}
        /\ ~Malformed(call)
        /\ cl' = [cl EXCEPT ![c].pc = IF H = <<>> THEN "reply" ELSE "apply",
                            ![c].status = 200,
                            ![c].snap = [id \in DOMAIN H |-> H[id].seq]]
        /\ UNCHANGED <<docs, seq, issued, last, calls, faults, scrolls>>

ByQueryDoc(c) ==
    LET st == cl[c]
    IN  /\ st.pc = "apply"
        /\ \E id \in DOMAIN st.snap :
              LET rest == Restrict(st.snap, DOMAIN st.snap \ {id})
              IN  \/ /\ id \in DOMAIN docs /\ docs[id].seq = st.snap[id]
                     /\ docs' = IF st.call.op \in {"dbq", "dphrase"}
                                THEN Restrict(docs, DOMAIN docs \ {id})
                                ELSE [docs EXCEPT ![id] =
                                        [data |-> [@.data EXCEPT !.f = st.call.upd],
                                         seq |-> seq + 1]]
                     /\ seq' = seq + 1
                     /\ cl' = [cl EXCEPT ![c].snap = rest,
                                         ![c].pc = IF rest = <<>> THEN "reply" ELSE "apply"]
                  \/ /\ ~(id \in DOMAIN docs /\ docs[id].seq = st.snap[id])
                     /\ cl' = [cl EXCEPT ![c].pc = "reply", ![c].status = 409]
                     /\ UNCHANGED <<docs, seq>>
        /\ UNCHANGED <<issued, last, calls, faults, scrolls>>

(***************************************************************************)
(* The search of ScrollQuery, QueryData and QueryPhraseString: the hits    *)
(* sorted by the sort array of this call, from/size of them.  With a       *)
(* scroll (Search.WithScroll) the server keeps the sorted hits after from  *)
(* as the context's snapshot and returns its fresh scroll id; seen records *)
(* the hits the callers have been handed through it, given whether a reply *)
(* carrying the id reached a caller.                                       *)
(***************************************************************************)
\* etx.es.Search.WithScroll(scroll): scroll = 0 (QueryData) opens no context.
Scrolls(call) == call.op \in {"query", "phrase"} /\ call.scroll

ScanSearch(c) ==
    LET call == cl[c].call
        H == [id \in DOMAIN Hits(call) |-> Hits(call)[id].data]
    IN  /\ cl[c].pc = "send"
        /\ call.op \in Searches \ {"byid"}
        /\ ~Malformed(call)
        /\ \E prec \in SetToSeqs(DOMAIN call.sorts) :
             \E s \in SortedHits(H, SortObj(call.sorts, prec)) :
               LET first == FromSize(s, call.offset, call.limit)
               IN  \/ /\ ~Scrolls(call)
                      /\ cl' = [cl EXCEPT ![c].pc = "reply", ![c].status = 200,
                                          ![c].page = first]
                      /\ UNCHANGED scrolls
                   \/ /\ Scrolls(call)
                      /\ \E sid \in ScrollIds \ DOMAIN scrolls :
                           /\ scrolls' = scrolls @@
                                 (sid :> [snap |-> SubSeq(s, call.offset + 1, Len(s)),
                                          pos |-> Len(first), size |-> call.limit,
                                          seen |-> <<>>, given |-> FALSE])
                           /\ cl' = [cl EXCEPT ![c].pc = "reply", ![c].status = 200,
                                               ![c].page = first, ![c].sid = sid]
        /\ UNCHANGED <<docs, seq, issued, last, calls, faults>>

\* The ids query of QueryDataById: the named documents that exist, in any order.
ScanById(c) ==
    LET call == cl[c].call
        H == [id \in Request(call).ids \cap DOMAIN docs |-> docs[id].data]
    IN  /\ cl[c].pc = "send"
        /\ call.op = "byid"
        /\ \E s \in SortedHits(H, <<>>) :
              cl' = [cl EXCEPT ![c].pc = "reply", ![c].status = 200,
                               ![c].page = FromSize(s, 0, AggSize)]
        /\ UNCHANGED <<docs, seq, issued, last, calls, faults, scrolls>>

(***************************************************************************)
(* The scroll request of PageByScroll: the next size hits of the context's *)
(* snapshot, whatever was written since.  An id the server does not hold,  *)
(* "" included, is answered with an error status.                          *)
(***************************************************************************)
ScrollPage(c) ==
    LET sid == cl[c].sid
    IN  /\ cl[c].pc = "send"
        /\ cl[c].call.op = "page"
        /\ \/ /\ sid \in DOMAIN scrolls
              /\ LET x == scrolls[sid]
                     pg == FromSize(x.snap, x.pos, x.size)
                 IN  /\ scrolls' = [scrolls EXCEPT ![sid].pos = @ + Len(pg)]
                     /\ cl' = [cl EXCEPT ![c].pc = "reply", ![c].status = 200,
                                         ![c].page = pg]
           \/ /\ sid \notin DOMAIN scrolls
              /\ cl' = [cl EXCEPT ![c].pc = "reply", ![c].status = 404]
              /\ UNCHANGED scrolls
        /\ UNCHANGED <<docs, seq, issued, last, calls, faults>>

(***************************************************************************)
(* The code reads the reply: res.IsError() is an error; a bulk reply is    *)
(* classified item by item; a count reply is flattened by getCountResult.  *)
(***************************************************************************)
Reply(st) ==
    CASE st.status >= 400 -> [NoReply EXCEPT !.err = "status"]
      [] st.call.op \in Bulk -> [NoReply EXCEPT !.report = Report(st.call.op, st.res)]
      [] st.call.op \in Searches \cup {"page"} ->
            [NoReply EXCEPT !.hits = st.page, !.sid = st.sid]
      [] st.call.op = "count" ->
            [NoReply EXCEPT !.rows = GetCountResult(st.agg, <<>>, st.call.groupby, 0,
                                                    Len(st.call.groupby)).datas]
      [] OTHER -> NoReply

Return(c) ==
    /\ cl[c].pc = "reply"
    /\ last' = [last EXCEPT ![c] = Reply(cl[c])]
    /\ cl' = [cl EXCEPT ![c] = Idle]
    /\ scrolls' = IF cl[c].status = 200 /\ cl[c].sid \in DOMAIN scrolls
                  THEN [scrolls EXCEPT ![cl[c].sid].seen = @ \o cl[c].page,
                                       ![cl[c].sid].given = TRUE]
                  ELSE scrolls
    /\ UNCHANGED <<docs, seq, issued, calls, faults>>

\* The reply is lost (reset, timeout): the caller gets an error, the writes stay.
LoseReply(c) ==
    /\ cl[c].pc = "reply"
    /\ faults < MaxFaults
    /\ faults' = faults + 1
    /\ last' = [last EXCEPT ![c] = [NoReply EXCEPT !.err = "transport"]]
    /\ cl' = [cl EXCEPT ![c] = Idle]
    /\ UNCHANGED <<docs, seq, issued, calls, scrolls>>

Next ==
    \E c \in Clients :
        \/ Call(c) \/ SendFails(c) \/ BulkItem(c)
        \/ ScanRejected(c) \/ ScanCount(c) \/ ScanByQuery(c) \/ ByQueryDoc(c)
        \/ ScanSearch(c) \/ ScanById(c) \/ ScrollPage(c)
        \/ Return(c) \/ LoseReply(c)

Spec == Init /\ [][Next]_vars

-----------------------------------------------------------------------------
Pcs == {"idle", "send", "bulk", "apply", "reply"}
Errs == {"none", "arg", "transport", "status"}

TypeOK ==
    /\ DOMAIN docs \subseteq Ids \cup AutoIds
    /\ \A id \in DOMAIN docs : docs[id].data \in Data /\ docs[id].seq \in 1..seq
    /\ issued \subseteq AutoIds
    /\ \A c \in Clients : /\ cl[c].pc \in Pcs
                          /\ cl[c].call \in Calls \cup {NoCall}
                          /\ cl[c].status \in {0, 200, 400, 404, 409}
                          /\ last[c].sid \in ScrollIds \cup {""}
                          /\ last[c].err \in Errs
    /\ calls \in 0..MaxCalls /\ faults \in 0..MaxFaults
    /\ DOMAIN scrolls \subseteq ScrollIds
    /\ \A c \in Clients : \A h \in ToSet(last[c].hits) : h.data \in Data

\* c's call returns now, and the code read the server's reply.
Returns(c) == cl[c].pc = "reply" /\ cl'[c].pc = "idle" /\ last'[c].err = "none"

(***************************************************************************)
(* The retobj of a batch call tells the truth about every item, however    *)
(* the items of concurrent requests interleaved: the lists partition the  *)
(* item positions 0..n-1; a position listed under creates was absent and  *)
(* now holds the item's data, under updates was present and now holds it, *)
(* under deletes is now absent, and under fails the item changed nothing. *)
(***************************************************************************)
BatchReportExact ==
    [][\A c \in Clients :
         Returns(c) /\ cl[c].call.op \in Bulk =>
           LET rep == last'[c].report
               res == cl[c].res
               its == Items(cl[c].call)
               At(cat) == {i \in DOMAIN res : i - 1 \in rep[cat]}
           IN  /\ \A x, y \in DOMAIN rep : x # y => rep[x] \cap rep[y] = {}
               /\ UNION {rep[x] : x \in DOMAIN rep} = 0..(Len(its) - 1)
               /\ \A i \in (IF "creates" \in DOMAIN rep THEN At("creates") ELSE {}) :
                     res[i].before = Absent /\ res[i].after = its[i].data
               /\ \A i \in (IF "updates" \in DOMAIN rep THEN At("updates") ELSE {}) :
                     res[i].before # Absent /\ res[i].after = its[i].data
               /\ \A i \in (IF "deletes" \in DOMAIN rep THEN At("deletes") ELSE {}) :
                     res[i].after = Absent
               /\ \A i \in At("fails") : res[i].after = res[i].before]_vars

(***************************************************************************)
(* CountDataByQuery returns one row per distinct combination of the        *)
(* groupby fields among the documents its query matched, with their count, *)
(* and no row twice: getCountResult's walk over the nested buckets, with   *)
(* its one shared viadata map, loses and invents no group.                 *)
(***************************************************************************)
CountResultExact ==
    [][\A c \in Clients :
         Returns(c) /\ cl[c].call.op = "count" =>
           LET rows == last'[c].rows
           IN  /\ ToSet(rows) = CountRows(cl[c].hits, cl[c].call.groupby)
               /\ Len(rows) = Cardinality(ToSet(rows))]_vars

(***************************************************************************)
(* DeleteDataByQuery and UpdateDataByQuery only write documents that meet  *)
(* their documented conditions: every must, one of the shoulds (OR        *)
(* conditions), every filter and range.                                    *)
(***************************************************************************)
ByQueryHonoursShoulds ==
    [][\A c \in Clients :
         \A id \in DOMAIN docs :
           /\ cl[c].pc = "apply" /\ id \in DOMAIN cl[c].snap
           /\ (id \notin DOMAIN docs' \/ docs'[id] # docs[id])
           /\ cl'[c].pc # "apply" \/ id \notin DOMAIN cl'[c].snap
           => Documented(cl[c].call.q, docs[id].data)]_vars
(***************************************************************************)
(* Reading an index through a scroll: the hits the callers receive through *)
(* a scroll id, the first page of ScrollQuery or QueryPhraseString and     *)
(* every PageByScroll after it, are the start of the hits the first        *)
(* request matched, in its sort order and with the data they had then:     *)
(* nothing repeated, skipped or changed by the writes made meanwhile.  A   *)
(* page whose reply is lost has moved the server's cursor, so a caller     *)
(* that pages again with the id it kept is handed the page after it.      *)
(***************************************************************************)
ScrollPagesInOrder ==
    \A sid \in DOMAIN scrolls : IsPrefix(scrolls[sid].seen, scrolls[sid].snap)
=============================================================================
