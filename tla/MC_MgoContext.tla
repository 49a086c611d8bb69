---------------------------- MODULE MC_MgoContext ----------------------------
(***************************************************************************)
(* Instances of MgoContext: two goroutines, two documents at the start,    *)
(* the ObjectIds 1..8 (more than the calls can create), field values 0     *)
(* and 1, and calls that reach every path of the wrapper functions.        *)
(***************************************************************************)
EXTENDS MgoContext

CONSTANTS c1, c2

D(a, b) == [a |-> a, b |-> b]
\* One AppendAnd(cond, field, operate, args...) call, and one AppendOr.
A(cond, f, op, args) == [or |-> FALSE, cond |-> cond, field |-> f, op |-> op, args |-> args]
O(cond, f, op, args) == [A(cond, f, op, args) EXCEPT !.or = TRUE]

TwoClients == {c1, c2}
EightOids == 1..8
StartDocs == (1 :> D(0, 0)) @@ (2 :> D(1, 1))

AEq0 == <<A(TRUE, "a", "eq", <<Scalar(0)>>)>>
BGt0 == <<A(TRUE, "b", "gt", <<Scalar(0)>>), A(FALSE, "a", "eq", <<Scalar(1)>>)>>
\* b in []int{0, 1}: spread into an array
BInBoth == <<A(TRUE, "b", "in", <<Slice(<<0, 1>>)>>)>>
\* a in []int{1}: spread into the scalar 1, which $in refuses
AInOne == <<A(TRUE, "a", "in", <<Slice(<<1>>)>>)>>
\* a = 0 and b = 1: matches no starting document
A0B1 == <<A(TRUE, "a", "eq", <<Scalar(0)>>), A(TRUE, "b", "eq", <<Scalar(1)>>)>>
\* a = nil: no argument
ANil == <<A(TRUE, "a", "eq", <<>>)>>
\* a = 1 or b = nil
AOrBNil == <<O(TRUE, "a", "eq", <<Scalar(1)>>), O(TRUE, "b", "eq", <<>>)>>
\* b > 1 and the lone OR condition a = 0: matches nothing
BGt1OrA0 == <<O(TRUE, "a", "eq", <<Scalar(0)>>), A(TRUE, "b", "gt", <<Scalar(1)>>)>>

Sort2 == ("a" :> "asc") @@ ("b" :> "DESC")
Find(cs, sorts, offset, limit) ==
    [op |-> "search", conds |-> cs, sorts |-> sorts, offset |-> offset, limit |-> limit]

WriteCalls ==
    { [op |-> "inserts", datas |-> <<D(1, 0), D(1, 1)>>],
      [op |-> "inserts", datas |-> <<>>],
      [op |-> "index", uniqueKeys |-> {{"a"}}, indexKeys |-> {}],
      [op |-> "index", uniqueKeys |-> {}, indexKeys |-> {}],
      [op |-> "update", conds |-> AEq0, data |-> ("b" :> 1), isUpsert |-> TRUE],
      [op |-> "update", conds |-> BGt0, data |-> ("a" :> 0), isUpsert |-> FALSE],
      [op |-> "update", conds |-> A0B1, data |-> ("b" :> 1), isUpsert |-> TRUE],
      [op |-> "update", conds |-> ANil, data |-> ("b" :> 0), isUpsert |-> TRUE],
      [op |-> "update", conds |-> BGt1OrA0, data |-> ("b" :> 0), isUpsert |-> TRUE],
      [op |-> "delete", conds |-> BInBoth],
      [op |-> "delete", conds |-> AInOne],
      [op |-> "delete", conds |-> AOrBNil],
      [op |-> "count", conds |-> BGt0],
      [op |-> "distinct", conds |-> <<>>, field |-> "a"],
      Find(<<>>, Sort2, 0, 1),
      Find(BInBoth, ("b" :> "asc"), 1, 0),
      [op |-> "group", filter |-> TRUE, conds |-> BGt0, by |-> "a",
       cols |-> {[name |-> "n", type |-> "$sum", key |-> Count1],
                 [name |-> "s", type |-> "$sum", key |-> "b"]},
       sorts |-> ("_id" :> "desc") @@ ("n" :> "asc")],
      [op |-> "group", filter |-> FALSE, conds |-> <<>>, by |-> "b",
       cols |-> {[name |-> "m", type |-> "$max", key |-> "a"]}, sorts |-> <<>>],
      [op |-> "group", filter |-> FALSE, conds |-> <<>>, by |-> NoField,
       cols |-> {}, sorts |-> <<>>],
      [op |-> "group", filter |-> TRUE, conds |-> AInOne, by |-> "a",
       cols |-> {}, sorts |-> <<>>],
      [op |-> "shard", admin |-> TRUE, keys |-> <<"a">>],
      [op |-> "shard", admin |-> FALSE, keys |-> <<"a">>],
      [op |-> "shard", admin |-> TRUE, keys |-> <<>>] }

\* CreateShard on the admin database with the compound key a, b.
ShardCalls == { [op |-> "shard", admin |-> TRUE, keys |-> <<"a", "b">>] }

\* One goroutine pages through the collection sorted by a ascending, then
\* b descending, one document per page.
PagingCalls == { Find(<<>>, Sort2, 0, 1), Find(<<>>, Sort2, 1, 1) }
====
