---------------------------- MODULE SqlDbContext ----------------------------
(***************************************************************************)
(* The write path of DbContext (src/lib/sql/db.go) with the hash code of   *)
(* src/lib/utility/hashcode.go that picks a sharded table.  One caller     *)
(* goroutine issues ImportData (and Inserts), BatchExec, Exec, Update and   *)
(* Delete one after another.  The database is the committed rows, a row    *)
(* being <<table name, entity>>, and the open transaction's own view of    *)
(* them; it refuses a row already present (duplicate key), a table the     *)
(* schema lacks, an explicit identity value into a table whose             *)
(* IDENTITY_INSERT is off (mssql), and may fail any statement, Begin or    *)
(* Commit (a bounded number of driver faults).                             *)
(*                                                                         *)
(* A table name "%v_%d" is the sequence of its base name and its shard     *)
(* suffixes.  Go's int32 arithmetic is kept at a width of IntBits bits,    *)
(* because TLC's own integers are 32-bit: int32(x) wraps modulo 2^IntBits. *)
(***************************************************************************)
EXTENDS Naturals, Integers, Sequences, SequencesExt, FiniteSets

CONSTANTS
    IntBits,        \* width of the Go int32 type, scaled for TLC
    Entities,       \* the structs the application stores
    BaseOf,         \* BaseOf[e]: xorm's TableName(e), the unsharded name
    Field,          \* Field[e][col]: [kind |-> "int", v |-> the Go integer]
                    \*   or [kind |-> "str", v |-> crc32 of its "%v" text]
    TableConfs,     \* the dbs.db.tableConfs of the config, in order
    Driver,         \* dtx.Driver
    Stmts,          \* the raw statements a BatchSqlReq / Exec may carry
    MaxArgs,        \* bound on the entities of one ImportData call
    MaxReqs,        \* bound on the requests of one BatchExec call
    BatchNums,      \* batchNum arguments the caller passes to ImportData
    DefaultBatch,   \* ImportData's _bnum when batchNum <= 0 (1000)
    MaxCalls,       \* bound on the calls the application makes
    MaxFaults       \* bound on injected driver faults

ASSUME IntBits \in 2..16 /\ MaxFaults \in Nat /\ DefaultBatch \in Nat \ {0}

Modulus == 2 ^ IntBits

(* int32(x) for a Go integer x: two's complement truncation.               *)
Int32Of(x) ==
    LET m == x % Modulus
    IN  IF m >= Modulus \div 2 THEN m - Modulus ELSE m

(* Go's % truncates toward zero: the remainder has the dividend's sign.    *)
GoRem(a, b) == IF a >= 0 THEN a % b ELSE -((-a) % b)

(* GetStringCode: int32 of the checksum, negated when negative; -MinInt32  *)
(* overflows back to MinInt32 and the function then returns 0.             *)
GetStringCode(crc) ==
    LET v   == Int32Of(crc)
        neg == Int32Of(-v)
    IN  IF v >= 0 THEN v ELSE IF neg >= 0 THEN neg ELSE 0

(* GetHashcode of a struct field (a reflect.Value unwrapped by recursion). *)
GetHashcode(f) == IF f.kind = "int" THEN Int32Of(f.v) ELSE GetStringCode(f.v)

(* The policies of the first table config named base, or none.            *)
PoliciesOf(base) ==
    LET idx == {i \in DOMAIN TableConfs : TableConfs[i].tableName = base}
    IN  IF idx = {} THEN <<>>
        ELSE TableConfs[CHOOSE i \in idx : \A j \in idx : i <= j].policies

HashOf(e, p) == GetHashcode(Field[e][p.column])

(* GetTableName: the base name, then one suffix per policy; a zero hash   *)
(* is the "must provide" error.                                           *)
GetTableName(e) ==
    LET pol == PoliciesOf(BaseOf[e])
        Suffix(p) == IF p.count > 1 THEN GoRem(HashOf(e, p), p.count)
                                    ELSE HashOf(e, p)
    IN  IF \E i \in DOMAIN pol : HashOf(e, pol[i]) = 0
        THEN [ok |-> FALSE, name |-> <<>>]
        ELSE [ok |-> TRUE,
              name |-> <<BaseOf[e]>> \o [i \in DOMAIN pol |-> Suffix(pol[i])]]

(* GetAllTableName: the product over the policies of 0..Count-1, or of    *)
(* the entity's own hash where Count is 0.                                *)
GetAllTableName(e) ==
    LET pol == PoliciesOf(BaseOf[e])
        Choice(p) == IF p.count = 0 THEN {HashOf(e, p)} ELSE 0..(p.count - 1)
        Shards == {s \in [DOMAIN pol -> UNION {Choice(pol[i]) : i \in DOMAIN pol}] :
                      \A i \in DOMAIN pol : s[i] \in Choice(pol[i])}
    IN  IF \E i \in DOMAIN pol : pol[i].count = 0 /\ HashOf(e, pol[i]) = 0
        THEN [ok |-> FALSE, names |-> {}]
        ELSE [ok |-> TRUE, names |-> {<<BaseOf[e]>> \o s : s \in Shards}]

(* GetTableIdx(tbname, field, value): the first table config named        *)
(* tbname, its first policy on field; the hash of value, reduced modulo    *)
(* Count when Count > 1.  A zero hash is an error; no config or no policy  *)
(* returns -1 without an error.  value is given as Field gives a column.   *)
\* (mutant: the hash is returned without the modulo)
GetTableIdxNoMod(tbname, field, value) ==
    LET pol == PoliciesOf(tbname)
        js == {j \in DOMAIN pol : pol[j].column = field}
    IN  IF js = {} THEN [idx |-> -1, ok |-> TRUE]
        ELSE IF GetHashcode(value) = 0 THEN [idx |-> -1, ok |-> FALSE]
        ELSE [idx |-> GetHashcode(value), ok |-> TRUE]

GetTableIdx(tbname, field, value) ==
    LET pol == PoliciesOf(tbname)
        js == {j \in DOMAIN pol : pol[j].column = field}
        p == pol[CHOOSE j \in js : \A k \in js : j <= k]
        h == GetHashcode(value)
    IN  IF js = {} THEN [idx |-> -1, ok |-> TRUE]
        ELSE IF h = 0 THEN [idx |-> -1, ok |-> FALSE]
        ELSE [idx |-> IF p.count > 1 THEN GoRem(h, p.count) ELSE h, ok |-> TRUE]

(* The tables that exist: those GetAllTableName lists for the entities.   *)
Schema == UNION {GetAllTableName(e).names : e \in Entities}

Row(e) == <<GetTableName(e).name, e>>

----------------------------------------------------------------------------

(* A raw statement deletes the row of entity ent in table tbl.            *)
StmtRow(s) == <<s.tbl, s.ent>>

BatchSqlReq ==
    [mode: {0}, stmt: Stmts] \cup [mode: {1, 2, 3}, bean: Entities]

(* Inserts(entities...): ImportData(false, 0, entities...).               *)
Inserts(ents) == [op |-> "import", ents |-> ents, identity |-> FALSE, batchNum |-> 0]

Calls ==
    [op: {"import"}, ents: BoundedSeq(Entities, MaxArgs), identity: BOOLEAN,
     batchNum: BatchNums]
    \cup {Inserts(es) : es \in BoundedSeq(Entities, MaxArgs)}
    \cup [op: {"batch"}, reqs: BoundedSeq(BatchSqlReq, MaxReqs)]
    \cup [op: {"exec"}, stmt: Stmts]
    \cup [op: {"update", "delete", "get"}, bean: Entities]

NoCall == [op |-> "none"]
NoTable == <<>>

VARIABLES
    rows,           \* the committed rows
    work,           \* the rows as the open transaction sees them
    inTx,           \* session.Begin() succeeded and no Commit/Rollback yet
    identityOn,     \* the table whose IDENTITY_INSERT is on in the session
    caller,         \* the call in progress and its program counter
    loc,            \* locals of ImportData / BatchExec
    ret,            \* the count the last call returned
    err,            \* whether the last call returned an error, and which
    calls,          \* calls made so far
    faults          \* driver faults injected so far

vars == <<rows, work, inTx, identityOn, caller, loc, ret, err, calls, faults>>

Errs == {"none", "arg", "shard", "begin", "table", "dup", "identity",
         "fault", "commit"}

Init ==
    /\ rows = {}
    /\ work = {}
    /\ inTx = FALSE
    /\ identityOn = NoTable
    /\ caller = [pc |-> "idle", req |-> NoCall]
    /\ loc = [groups |-> <<>>, todo |-> {}, k |-> NoTable, j |-> 0,
              bnum |-> DefaultBatch, n |-> 0, i |-> 0]
    /\ ret = 0
    /\ err = "none"
    /\ calls = 0
    /\ faults = 0

----------------------------------------------------------------------------
(* Helpers shared by the operations.                                       *)

Idle == [pc |-> "idle", req |-> NoCall]

(* The call returns (n, err); the deferred session.Close ends the session. *)
Return(n, e) ==
    /\ caller' = Idle
    /\ ret' = n
    /\ err' = e
    /\ inTx' = FALSE
    /\ identityOn' = NoTable

(* A driver fault, within its bound.                                       *)
Fault == faults < MaxFaults /\ faults' = faults + 1

(* Why the database refuses to insert the entities es into table k, seen   *)
(* from the transaction's rows seen: a missing table, a duplicate key, or  *)
(* an explicit identity value while IDENTITY_INSERT of k is off.           *)
InsertError(k, es, seen, explicitId) ==
    IF k \notin Schema THEN "table"
    ELSE IF \/ \E e \in ToSet(es) : <<k, e>> \in seen
            \/ Cardinality(ToSet(es)) < Len(es)
         THEN "dup"
    ELSE IF explicitId /\ Driver = "mssql" /\ identityOn # k THEN "identity"
    ELSE "none"

AddRows(k, es, seen) == seen \cup {<<k, e>> : e \in ToSet(es)}

Affected(r, seen) == IF r \in seen THEN 1 ELSE 0

Req == caller.req

Running(op) == caller.pc = "run" /\ Req.op = op

----------------------------------------------------------------------------
(* The application calls one operation of the DbContext.                   *)
Call ==
    /\ caller.pc = "idle"
    /\ calls < MaxCalls
    /\ \E c \in Calls : caller' = [pc |-> "run", req |-> c]
    /\ calls' = calls + 1
    /\ UNCHANGED <<rows, work, inTx, identityOn, loc, ret, err, faults>>

(* ImportData with no entity.                                              *)
ImportEmpty ==
    /\ Running("import")
    /\ Len(Req.ents) = 0
    /\ Return(0, "arg")
    /\ UNCHANGED <<rows, work, loc, calls, faults>>

(* ImportData with one entity: GetTableName, then InsertOne outside any    *)
(* transaction; IDENTITY_INSERT is not set on this path.                   *)
ImportOne ==
    /\ Running("import")
    /\ Len(Req.ents) = 1
    /\ LET e     == Req.ents[1]
           cause == InsertError(Row(e)[1], Req.ents, rows, Req.identity)
       IN  \/ /\ ~GetTableName(e).ok
              /\ Return(0, "shard") /\ UNCHANGED <<rows, faults>>
           \/ /\ GetTableName(e).ok /\ cause # "none"
              /\ Return(0, cause) /\ UNCHANGED <<rows, faults>>
           \/ /\ GetTableName(e).ok /\ Fault
              /\ Return(0, "fault") /\ UNCHANGED rows
           \/ /\ GetTableName(e).ok /\ cause = "none"
              /\ rows' = rows \cup {Row(e)}
              /\ Return(1, "none") /\ UNCHANGED faults
    /\ UNCHANGED <<work, loc, calls>>

(* Mutant of ImportBegin: _bnum taken from batchNum without the default.  *)
ImportBeginNoDefault ==
    /\ Running("import") /\ Len(Req.ents) > 1
    /\ \A e \in ToSet(Req.ents) : GetTableName(e).ok
    /\ inTx' = TRUE /\ work' = rows
    /\ loc' = [loc EXCEPT !.groups = [t \in {Row(e)[1] : e \in ToSet(Req.ents)} |->
                              SelectSeq(Req.ents, LAMBDA e : Row(e)[1] = t)],
                         !.todo = {Row(e)[1] : e \in ToSet(Req.ents)},
                         !.n = 0, !.bnum = Req.batchNum]
    /\ caller' = [caller EXCEPT !.pc = "group"]
    /\ UNCHANGED <<rows, identityOn, ret, err, calls, faults>>

(* ImportData with several entities: group them by table name (a Go map,  *)
(* so the groups are visited in any order), open a session and Begin.     *)
ImportBegin ==
    /\ Running("import")
    /\ Len(Req.ents) > 1
    /\ LET ents   == Req.ents
           groups == [t \in {Row(e)[1] : e \in ToSet(ents)} |->
                        SelectSeq(ents, LAMBDA e : Row(e)[1] = t)]
       IN  \/ /\ \E e \in ToSet(ents) : ~GetTableName(e).ok
              /\ Return(0, "shard") /\ UNCHANGED <<work, loc, faults>>
           \/ /\ \A e \in ToSet(ents) : GetTableName(e).ok
              /\ Fault
              /\ Return(0, "begin") /\ UNCHANGED <<work, loc>>
           \/ /\ \A e \in ToSet(ents) : GetTableName(e).ok
              /\ inTx' = TRUE
              /\ work' = rows
              /\ loc' = [loc EXCEPT !.groups = groups, !.todo = DOMAIN groups,
                            !.n = 0, !.bnum = IF Req.batchNum > 0
                                              THEN Req.batchNum ELSE DefaultBatch]
              /\ caller' = [caller EXCEPT !.pc = "group"]
              /\ UNCHANGED <<identityOn, ret, err, faults>>
    /\ UNCHANGED <<rows, calls>>

(* The next group of the range over the map, or Commit once all are done; *)
(* with identity insert on mssql the group starts with SET IDENTITY_INSERT. *)
ImportNextGroup ==
    /\ caller.pc = "group"
    /\ \/ \E k \in loc.todo :
            /\ loc' = [loc EXCEPT !.k = k, !.j = 0, !.todo = loc.todo \ {k}]
            /\ caller' = [caller EXCEPT !.pc = IF Req.identity /\ Driver = "mssql"
                                               THEN "on" ELSE "chunk"]
       \/ /\ loc.todo = {}
          /\ caller' = [caller EXCEPT !.pc = "commit"]
          /\ UNCHANGED loc
    /\ UNCHANGED <<rows, work, inTx, identityOn, ret, err, calls, faults>>

(* SET IDENTITY_INSERT k on: the session refuses it while another table   *)
(* has it on, or when k does not exist, and the code ignores the error.    *)
IdentityInsertOn ==
    /\ caller.pc = "on"
    /\ identityOn' = IF identityOn = NoTable /\ loc.k \in Schema
                     THEN loc.k ELSE identityOn
    /\ caller' = [caller EXCEPT !.pc = "chunk"]
    /\ UNCHANGED <<rows, work, inTx, loc, ret, err, calls, faults>>

(* Mutant of ImportChunk: the slice v[j : j+_bnum-1] drops a row.         *)
ImportChunkShort ==
    /\ caller.pc = "chunk"
    /\ LET v == loc.groups[loc.k]
           b == IF loc.j + loc.bnum > Len(v) THEN Len(v) - loc.j ELSE loc.bnum
       IN  /\ work' = AddRows(loc.k, SubSeq(v, loc.j + 1, loc.j + b - 1), work)
           /\ loc' = [loc EXCEPT !.bnum = b, !.j = loc.j + b, !.n = loc.n + b]
           /\ caller' = [caller EXCEPT !.pc = IF loc.j + b < Len(v)
                                            THEN "chunk" ELSE "group"]
    /\ UNCHANGED <<rows, inTx, identityOn, ret, err, calls, faults>>

(* One pass of the chunk loop: _bnum shrinks to what is left of the group *)
(* (and stays shrunk for the next groups); an Insert error rolls back.     *)
ImportChunk ==
    /\ caller.pc = "chunk"
    /\ LET v     == loc.groups[loc.k]
           b     == IF loc.j + loc.bnum > Len(v) THEN Len(v) - loc.j ELSE loc.bnum
           chunk == SubSeq(v, loc.j + 1, loc.j + b)
           cause == InsertError(loc.k, chunk, work, Req.identity)
       IN  \/ /\ cause # "none"
              /\ Return(0, cause) /\ UNCHANGED <<work, loc, faults>>
           \/ /\ Fault
              /\ Return(0, "fault") /\ UNCHANGED <<work, loc>>
           \/ /\ cause = "none"
              /\ work' = AddRows(loc.k, chunk, work)
              /\ loc' = [loc EXCEPT !.bnum = b, !.j = loc.j + b, !.n = loc.n + b]
              /\ caller' = [caller EXCEPT !.pc = IF loc.j + b < Len(v)
                                               THEN "chunk" ELSE "group"]
              /\ UNCHANGED <<inTx, identityOn, ret, err, faults>>
    /\ UNCHANGED <<rows, calls>>

(* session.Commit; on error Rollback.  Shared by ImportData and BatchExec. *)
CommitTx ==
    /\ caller.pc = "commit"
    /\ \/ /\ Fault
          /\ Return(0, "commit") /\ UNCHANGED rows
       \/ /\ rows' = work
          /\ Return(loc.n, "none") /\ UNCHANGED faults
    /\ UNCHANGED <<work, loc, calls>>

(* BatchExec: an empty list is refused; otherwise a session and Begin.     *)
BatchBegin ==
    /\ Running("batch")
    /\ \/ /\ Len(Req.reqs) = 0
          /\ Return(0, "arg") /\ UNCHANGED <<work, loc, faults>>
       \/ /\ Len(Req.reqs) > 0 /\ Fault
          /\ Return(0, "begin") /\ UNCHANGED <<work, loc>>
       \/ /\ Len(Req.reqs) > 0
          /\ inTx' = TRUE
          /\ work' = rows
          /\ loc' = [loc EXCEPT !.i = 1, !.n = 0]
          /\ caller' = [caller EXCEPT !.pc = "stmt"]
          /\ UNCHANGED <<identityOn, ret, err, faults>>
    /\ UNCHANGED <<rows, calls>>

BatchAt == Req.reqs[loc.i]

(* The statement of request i succeeded: n grows by what it affected.      *)
NextReq(n) ==
    /\ loc' = [loc EXCEPT !.i = loc.i + 1, !.n = loc.n + n]
    /\ caller' = [caller EXCEPT !.pc = IF loc.i < Len(Req.reqs) THEN "stmt"
                                                                ELSE "commit"]
    /\ UNCHANGED <<inTx, identityOn, ret, err, faults>>

(* Mode 0: session.Exec of the raw statement.                              *)
BatchExecSql ==
    /\ caller.pc = "stmt" /\ BatchAt.mode = 0
    /\ LET r == StmtRow(BatchAt.stmt)
       IN  \/ /\ r[1] \notin Schema
              /\ Return(0, "table") /\ UNCHANGED <<work, loc, faults>>
           \/ /\ Fault
              /\ Return(0, "fault") /\ UNCHANGED <<work, loc>>
           \/ /\ r[1] \in Schema
              /\ work' = work \ {r}
              /\ NextReq(Affected(r, work))
    /\ UNCHANGED <<rows, calls>>

(* Mode 1: GetTableName, then session.InsertOne.                           *)
BatchInsertOne ==
    /\ caller.pc = "stmt" /\ BatchAt.mode = 1
    /\ LET e     == BatchAt.bean
           cause == InsertError(Row(e)[1], <<e>>, work, FALSE)
       IN  \/ /\ ~GetTableName(e).ok
              /\ Return(0, "shard") /\ UNCHANGED <<work, loc, faults>>
           \/ /\ GetTableName(e).ok /\ cause # "none"
              /\ Return(0, cause) /\ UNCHANGED <<work, loc, faults>>
           \/ /\ GetTableName(e).ok /\ Fault
              /\ Return(0, "fault") /\ UNCHANGED <<work, loc>>
           \/ /\ GetTableName(e).ok /\ cause = "none"
              /\ work' = work \cup {Row(e)}
              /\ NextReq(1)
    /\ UNCHANGED <<rows, calls>>

(* Mode 2: GetTableName, then session.Update of the bean's row.            *)
BatchUpdate ==
    /\ caller.pc = "stmt" /\ BatchAt.mode = 2
    /\ LET e == BatchAt.bean
       IN  \/ /\ ~GetTableName(e).ok
              /\ Return(0, "shard") /\ UNCHANGED <<loc, faults>>
           \/ /\ GetTableName(e).ok /\ Row(e)[1] \notin Schema
              /\ Return(0, "table") /\ UNCHANGED <<loc, faults>>
           \/ /\ GetTableName(e).ok /\ Fault
              /\ Return(0, "fault") /\ UNCHANGED loc
           \/ /\ GetTableName(e).ok /\ Row(e)[1] \in Schema
              /\ NextReq(Affected(Row(e), work))
    /\ UNCHANGED <<rows, work, calls>>

(* Any other mode: the request is passed over without a word.              *)
BatchSkip ==
    /\ caller.pc = "stmt" /\ BatchAt.mode \notin {0, 1, 2}
    /\ NextReq(0)
    /\ UNCHANGED <<rows, work, calls>>

(* Exec: one raw statement outside any session.                            *)
Exec ==
    /\ Running("exec")
    /\ LET r == StmtRow(Req.stmt)
       IN  \/ /\ r[1] \notin Schema
              /\ Return(0, "table") /\ UNCHANGED <<rows, faults>>
           \/ /\ Fault
              /\ Return(0, "fault") /\ UNCHANGED rows
           \/ /\ r[1] \in Schema
              /\ rows' = rows \ {r}
              /\ Return(Affected(r, rows), "none") /\ UNCHANGED faults
    /\ UNCHANGED <<work, loc, calls>>

(* Update with fullTableName "": GetTableName, then Table(..).Update.      *)
Update ==
    /\ Running("update")
    /\ LET e == Req.bean
       IN  \/ /\ ~GetTableName(e).ok
              /\ Return(0, "shard") /\ UNCHANGED faults
           \/ /\ GetTableName(e).ok /\ Row(e)[1] \notin Schema
              /\ Return(0, "table") /\ UNCHANGED faults
           \/ /\ GetTableName(e).ok /\ Fault
              /\ Return(0, "fault")
           \/ /\ GetTableName(e).ok /\ Row(e)[1] \in Schema
              /\ Return(Affected(Row(e), rows), "none") /\ UNCHANGED faults
    /\ UNCHANGED <<rows, work, loc, calls>>

(* Delete with fullTableName "": a GetTableName error returns 0, nil.      *)
Delete ==
    /\ Running("delete")
    /\ LET e == Req.bean
       IN  \/ /\ ~GetTableName(e).ok
              /\ Return(0, "none") /\ UNCHANGED <<rows, faults>>
           \/ /\ GetTableName(e).ok /\ Row(e)[1] \notin Schema
              /\ Return(0, "table") /\ UNCHANGED <<rows, faults>>
           \/ /\ GetTableName(e).ok /\ Fault
              /\ Return(0, "fault") /\ UNCHANGED rows
           \/ /\ GetTableName(e).ok /\ Row(e)[1] \in Schema
              /\ rows' = rows \ {Row(e)}
              /\ Return(Affected(Row(e), rows), "none") /\ UNCHANGED faults
    /\ UNCHANGED <<work, loc, calls>>

(* Get with an entity: GetTableName, then Table(..).ID(id).Get; the       *)
(* "has" result is dropped, so a missing row is no error.  Returns 0.      *)
Get ==
    /\ Running("get")
    /\ LET e == Req.bean
       IN  \/ /\ ~GetTableName(e).ok
              /\ Return(0, "shard") /\ UNCHANGED faults
           \/ /\ GetTableName(e).ok /\ Row(e)[1] \notin Schema
              /\ Return(0, "table") /\ UNCHANGED faults
           \/ /\ GetTableName(e).ok /\ Fault
              /\ Return(0, "fault")
           \/ /\ GetTableName(e).ok /\ Row(e)[1] \in Schema
              /\ Return(0, "none") /\ UNCHANGED faults
    /\ UNCHANGED <<rows, work, loc, calls>>

Next ==
    \/ Call
    \/ ImportEmpty \/ ImportOne \/ ImportBegin \/ ImportNextGroup
    \/ IdentityInsertOn \/ ImportChunk \/ CommitTx
    \/ BatchBegin \/ BatchExecSql \/ BatchInsertOne \/ BatchUpdate \/ BatchSkip
    \/ Exec \/ Update \/ Delete \/ Get

Spec == Init /\ [][Next]_vars

----------------------------------------------------------------------------
(* What each call means, stated on the committed rows as a whole: the     *)
(* rows after it and the count it returns.  BatchExec is the left fold of *)
(* its requests in order.                                                  *)

ReqOutcome(acc, q) ==
    CASE q.mode = 0 -> <<acc[1] \ {StmtRow(q.stmt)},
                         acc[2] + Affected(StmtRow(q.stmt), acc[1])>>
      [] q.mode = 1 -> <<acc[1] \cup {Row(q.bean)}, acc[2] + 1>>
      [] q.mode = 2 -> <<acc[1], acc[2] + Affected(Row(q.bean), acc[1])>>
      [] OTHER      -> acc

Outcome(c, r) ==
    CASE c.op = "import" -> <<r \cup {Row(e) : e \in ToSet(c.ents)}, Len(c.ents)>>
      [] c.op = "batch"  -> FoldLeft(ReqOutcome, <<r, 0>>, c.reqs)
      [] c.op = "exec"   -> <<r \ {StmtRow(c.stmt)}, Affected(StmtRow(c.stmt), r)>>
      [] c.op = "update" -> <<r, Affected(Row(c.bean), r)>>
      [] c.op = "get"    -> <<r, 0>>
      [] c.op = "delete" -> IF GetTableName(c.bean).ok
                            THEN <<r \ {Row(c.bean)}, Affected(Row(c.bean), r)>>
                            ELSE <<r, 0>>

Effect(c, r) == Outcome(c, r)[1]
Count(c, r) == Outcome(c, r)[2]

Store == INSTANCE SqlStore WITH
    rows <- rows, call <- caller.req, ret <- ret,
    Calls <- Calls, NoCall <- NoCall, Effect <- Effect, Count <- Count

----------------------------------------------------------------------------
(* Properties.                                                              *)

Pcs == {"idle", "run", "group", "on", "chunk", "commit", "stmt"}

TypeOK ==
    /\ rows \subseteq Schema \X Entities
    /\ work \subseteq Schema \X Entities
    /\ inTx \in BOOLEAN
    /\ identityOn \in Schema \cup {NoTable}
    /\ caller.pc \in Pcs /\ caller.req \in Calls \cup {NoCall}
    /\ loc.bnum \in 1..DefaultBatch
    /\ loc.j \in 0..MaxArgs /\ loc.n \in 0..(MaxArgs + MaxReqs)
    /\ ret \in Nat /\ err \in Errs
    /\ calls \in 0..MaxCalls /\ faults \in 0..MaxFaults

(* Every call of ImportData, BatchExec, Exec, Update and Delete is atomic  *)
(* and returns its count: the detailed write path (groups visited in map   *)
(* order, chunks of _bnum rows, per-request statements, Rollback on any    *)
(* error, Commit) implements the abstract store of SqlStore.              *)
StoreSpec == Store!Spec

(* A field whose Go value is not the zero value.                           *)
FieldSet(e) == \A col \in DOMAIN Field[e] : Field[e][col].v # 0

(* ImportData (and Inserts) of entities whose shard columns are all set   *)
(* never fails for the shard: GetTableName forms a name for each of them  *)
(* and that name is one of the tables GetAllTableName lists.               *)
ImportOfSetFieldsSucceeds ==
    [][ /\ caller.pc # "idle" /\ caller'.pc = "idle"
        /\ Req.op = "import" /\ \A e \in ToSet(Req.ents) : FieldSet(e)
        => err' \notin {"shard", "table"} ]_vars

(***************************************************************************)
(* GetTableIdx finds the rows the writes stored: for every committed row   *)
(* and every policy of its entity's table, GetTableIdx with the entity's   *)
(* value of the policy column returns without an error the shard suffix   *)
(* of the table the row is in, so a caller who locates a row by            *)
(* GetTableIdx looks in the table ImportData or BatchExec wrote it to.     *)
(***************************************************************************)
TableIdxLocatesRows ==
    \A r \in rows :
        LET e == r[2]
            pol == PoliciesOf(BaseOf[e])
        IN  \A i \in DOMAIN pol :
                (\A j \in 1..(i - 1) : pol[j].column # pol[i].column) =>
                    GetTableIdx(BaseOf[e], pol[i].column, Field[e][pol[i].column])
                        = [idx |-> r[1][i + 1], ok |-> TRUE]

=============================================================================
