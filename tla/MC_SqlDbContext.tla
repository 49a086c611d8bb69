--------------------------- MODULE MC_SqlDbContext ---------------------------
EXTENDS SqlDbContext

CONSTANTS e1, e2, e3, e4

FourEntities == {e1, e2, e3, e4}

\* Every entity is a row of the struct stored in table "user".
UserTable == [e \in FourEntities |-> "user"]

\* "user" is split on column id into two tables, user_0 and user_1.
UserByIdInTwo ==
    << [tableName |-> "user", policies |-> << [column |-> "id", count |-> 2] >>] >>

IntId(v) == [id |-> [kind |-> "int", v |-> v]]

\* ids 3 and 4 fall in user_1 and user_0; 256 is a set int64 whose int32
\* (at 8 bits) is 0, so its shard name cannot be formed; -1 is a negative
\* id, whose shard is user_-1.
FourIds == [e \in FourEntities |-> CASE e = e1 -> IntId(3)
                                    [] e = e2 -> IntId(4)
                                    [] e = e3 -> IntId(256)
                                    [] e = e4 -> IntId(-1)]

\* The same without e3: ids 3, 4 and -1.
SignedEntities == {e1, e2, e4}
SignedIds == [e \in SignedEntities |-> FourIds[e]]

\* A raw delete of e1 in user_1, and one naming the unsharded "user".
TwoStmts == {[tbl |-> <<"user", 1>>, ent |-> e1], [tbl |-> <<"user">>, ent |-> e2]}

DefaultAndOne == {0, 1}
=============================================================================
