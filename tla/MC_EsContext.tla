---------------------------- MODULE MC_EsContext ----------------------------
(***************************************************************************)
(* Instances of EsContext: two documents named by the caller, two the      *)
(* server may generate, two field values, and requests that reach every   *)
(* path of the write, batch, by-query, count and search functions.        *)
(***************************************************************************)
EXTENDS EsContext

CONSTANTS d1, d2, d3, a1, a2, c1, c2, s1, s2

D(f, g) == [f |-> f, g |-> g]
Term(t, k, v) == [type |-> t, key |-> k, val |-> v]
Q(m, s, fl, r) == [musts |-> m, shoulds |-> s, filters |-> fl, ranges |-> r]

TwoIds == {d1, d2}
TwoAuto == {a1, a2}
TwoClients == {c1, c2}
TwoScrolls == {s1, s2}
StartDocs == (d1 :> D(0, 0)) @@ (d2 :> D(1, 1))
ThreeIds == {d1, d2, d3}
OneClient == {c1}
ThreeDocs == StartDocs @@ (d3 :> D(1, 0))

\* musts f = 0 with the OR condition g = 1
MustAndShould == Q({Term("term", "f", 0)}, {Term("term", "g", 1)}, {}, {})
\* f <> 1, with the OR condition g = 0 or g = 1, and a range on g
NotAndShould == Q({Term("term_not", "f", 1)}, {Term("terms", "g", {0, 1})}, {},
                  {[key |-> "g", gte |-> 0, lte |-> 1]})
\* a should of a *_not type, as the comment allows
ShouldNot == Q({}, {Term("term_not", "g", 0)}, {}, {})
\* a prefix filter only
FilterOnly == Q({}, {}, {Term("prefix", "g", 1)}, {})
NoQuery == Q({}, {}, {}, {})

WriteCalls ==
    {[op |-> "insert", id |-> "", data |-> D(1, 0)],
     [op |-> "insert", id |-> d1, data |-> D(0, 1)],
     [op |-> "update", id |-> d2, data |-> D(1, 1)],
     [op |-> "update", id |-> "", data |-> D(0, 0)],
     [op |-> "delete", id |-> d1],
     [op |-> "binsert", ids |-> <<"", d2>>, datas |-> <<D(0, 0), D(0, 1)>>],
     [op |-> "binsert", ids |-> <<d1>>, datas |-> <<>>],
     [op |-> "bupdate", ids |-> <<d1, d2>>, datas |-> <<D(1, 0), D(1, 1)>>],
     [op |-> "bdelete", ids |-> <<d2, d1>>],
     [op |-> "bstore", items |-> <<[type |-> 3, doc |-> d1, data |-> NoData],
                                   [type |-> 2, doc |-> d1, data |-> D(0, 0)],
                                   [type |-> 1, doc |-> "", data |-> D(1, 1)]>>],
     [op |-> "bstore", items |-> <<[type |-> 3, doc |-> "", data |-> NoData]>>]}

QueryCalls ==
    {[op |-> "dbq", q |-> NotAndShould],
     [op |-> "dbq", q |-> ShouldNot],
     [op |-> "dbq", q |-> NoQuery],
     [op |-> "ubq", q |-> FilterOnly, upd |-> 0],
     [op |-> "ubq", q |-> FilterOnly, upd |-> NoUpd],
     [op |-> "count", q |-> NotAndShould, groupby |-> <<"g", "f">>],
     [op |-> "count", q |-> FilterOnly, groupby |-> <<"f">>],
     [op |-> "count", q |-> FilterOnly, groupby |-> <<>>]}

\* g in 0..1: every document
AnyG == Q({}, {}, {}, {[key |-> "g", gte |-> 0, lte |-> 1]})
FAsc == "f" :> "asc"

SearchCalls ==
    {[op |-> "query", q |-> AnyG, offset |-> 0, limit |-> 1, sorts |-> FAsc, scroll |-> TRUE],
     [op |-> "qdata", q |-> AnyG, offset |-> 1, limit |-> 1,
      sorts |-> FAsc @@ ("g" :> "desc")],
     [op |-> "phrase", qstr |-> {Term("match", "f", 0)}, phrase |-> {Term("match", "g", 0)},
      offset |-> 0, limit |-> 2, sorts |-> <<>>, scroll |-> FALSE],
     [op |-> "phrase", qstr |-> {}, phrase |-> {Term("match", "g", 1)},
      offset |-> 0, limit |-> 1, sorts |-> "f" :> "desc", scroll |-> TRUE],
     [op |-> "phrase", qstr |-> {}, phrase |-> {},
      offset |-> 0, limit |-> 1, sorts |-> <<>>, scroll |-> FALSE],
     [op |-> "dphrase", qstr |-> {Term("match", "f", 0)}, phrase |-> {}],
     [op |-> "byid", ids |-> <<d1, a1>>],
     [op |-> "byid", ids |-> <<>>],
     [op |-> "page"]}

AllCalls == WriteCalls \cup QueryCalls \cup SearchCalls

ShouldCalls == {[op |-> "dbq", q |-> MustAndShould]}

\* a scrolled query one hit a page, and its pages
ScrollCalls ==
    {[op |-> "query", q |-> AnyG, offset |-> 0, limit |-> 1, sorts |-> FAsc, scroll |-> TRUE],
     [op |-> "page"]}
=============================================================================
