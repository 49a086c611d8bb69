# TLA+ models of golanglib

This directory holds TLA+ models of maclon-lee/golanglib, together with the
TLC configurations that check them. These parts are modelled:

- the Kafka batch consumer and the offset lookup
  (`src/lib/mq/kafka/consumer.go`);
- the Kafka producer (`src/lib/mq/kafka/producer.go`);
- the RabbitMQ client (`src/lib/mq/rabbitmq/client.go`);
- the SQL `DbContext` (`src/lib/sql/db.go`, with the hash code of
  `src/lib/utility/hashcode.go`);
- the Elasticsearch 6 wrapper (`src/lib/elastic_v6/elasticsearch.go`);
- the MongoDB wrapper (`src/lib/mongodb/mongo.go` and `builder.go`);
- the Redis wrapper (`src/lib/cache/redis/db.go`);
- the file cache (`src/lib/cache/file/file.go`);
- the map sorter (`src/lib/utility/mapsort.go`).

`PROJECT.json` is the machine-readable index:
- every component, with its status;
- the runs and their mutants;
- the map from every definition to the source lines it translates;
- the findings;
- the hazards of the code.

## 1. The system and the modules

| Module | Models | Kind of concurrency |
|---|---|---|
| `KafkaBatchConsumer` | batchConsumer (`attach`, `sendToCallback`, `run`, `Close`), one ConsumeClaim goroutine per partition, sessions and rebalances, `closeReceive` | shared memory without a lock, a buffered channel |
| `KafkaOffsetLookup` | `GetMessageLastOffset` and its cached cluster admin `groupCluster` | callers sharing a global without a lock |
| `KafkaProducer` | `SendMessage`, `closeSend`, the signal goroutine, the per-call `Errors()` goroutine; sarama's batching and shutdown | callers sharing a global without a lock, goroutines, channels |
| `RabbitClient` | `handleReconnect`/`doConn`, `waitConn`, `Publish`, `PublishDelay`, `Subscribe`/`doConsume`, `Close`; the amqp library's channel states and a broker queue with prefetch 1 | goroutines, a 1-slot channel, the library's close notification |
| `SqlDbContext` | `ImportData`/`Inserts`, `BatchExec`, `Exec`, `Update`, `Delete`, `Get`; `GetTableName`, `GetAllTableName`, `GetTableIdx`, `GetHashcode`/`GetStringCode` | one caller; transactions, rollback and driver faults |
| `SqlStore` | the abstract all-or-nothing store that `SqlDbContext` refines | |
| `EsContext` | single, batch, by-query, count and search requests, `getQueryString`, the recursive `getCountResult`, scroll contexts | goroutines sharing one client; the server applies bulk items and by-query documents one at a time |
| `MgoContext` | the Filter builder, `Inserts`, `Update`, `Delete`, `Count`, `Distinct`, `Search`, `Group`, `CreateIndex`, `CreateShard` | goroutines sharing one collection; ordered InsertMany per document |
| `RedisClient` | every wrapper function of `db.go` as its command's effect and the wrapper's return; go-redis's resend loop (`MaxRetries: 3`), blocking pops with timeouts, key expiry | goroutines sharing one client; connections that break before or after the server ran a command |
| `FileCache` | `Put` as MkdirAll, the truncating open and the write; `Get`, `Delete`, `IsExist`, `Flush` | goroutines sharing one Cacher over a file system, without a lock |
| `MapSorter` | `NewMapSorter`, `Less`, `Swap`, `MapSortByKey` with `sort.Sort` | none: pure operators over every small input |
| `MC_*` | model values, the small sets of calls and documents, and the initial states for TLC | |

Every module has `Init`, one action per operation or step, `Next` and
`Spec`. Sizes and calls are `CONSTANTS`, which the `MC_` modules and the
`.cfg` files set. Each bound is named in a `CONSTANTS` comment.

### KafkaBatchConsumer

The claim goroutines of all partitions of a topic share one batchConsumer
without a lock. `attach` is therefore split into its reads and writes of the
shared fields:

| Action | Code |
|---|---|
| `Attach` | 74-78: the `Session` store |
| `NilCheck` | 79: `MessageBuffer == nil` |
| `Make` | 80-81 |
| `Write` | 82: the slot store; a nil buffer or an index past `BatchSize` panics |
| `IncrLoad`, `IncrStore` | 83: `c.currentIndex++` as its load and its store |
| `Check` | 84 |
| `Copy` | 90-91 |
| `Send` | 92 |
| `ResetBuf` | 93 |
| `ResetIdx` | 94 |

Batches go to `run` through the 8-slot `callBackBuffer`. `run` calls the
callback. On success it marks and commits the last offset on whatever session
`attach` stored last (`MarkAndCommit`):
- `MarkOffset` only raises the marked offset.
- Both `MarkOffset` and `Commit` are no-ops once the session has ended.

A new session resumes from `committed`. Between the load and the store of
the increment, and between the nil test and the write, another claim may
run, so `currentIndex` can pass `BatchSize` (by at most one per other
partition: `MaxIndex`), and `copy` copies what the buffer holds.

There are two history variables:
- `dispatched`: the records handed to the callback;
- `succeeded`: the records in batches the callback accepted.

### KafkaOffsetLookup

`GetMessageLastOffset` caches one ClusterAdmin in the global `groupCluster`
and uses no lock. Every mention of the global is a fresh read, so each read
is its own action:

| Action | Code |
|---|---|
| `Call` | 236-248, with the configured address |
| `CheckNil` | 250 |
| `CreateAdmin` | 251-255: the global gets the result, nil on an error |
| `Query` | 257-259 and 268-275 |
| `CloseAdmin` | 260-263: a failed Close keeps the admin |
| `ForgetAdmin` | 263-267 |

The broker may fail `NewClusterAdmin` or the query, up to `MaxFaults` times.
A method call on a nil admin panics (`panicked`).

### KafkaProducer

`SendMessage` creates the global `producer` on the first call, without a
lock, and never resets it. Each creation starts a signal goroutine. Every
call starts a goroutine that ranges over `Errors()`, then sends on `Input()`.

| Action | Code |
|---|---|
| `Call` | 20 |
| `CheckNil` | 22 |
| `Create` | 23-56 |
| `Spawn` | 58-62 |
| `SendInput` | 64 |
| `Interrupt` | 40-49: every registered channel receives the signal |
| `CloseSend` | 72-76 |

sarama is the environment:
- `Produce` holds a message in the produce set until it has
  `Flush.Messages` = 2 messages (line 31). No flush frequency is set.
- `Shutdown` flushes the set, then closes `Input()` and `Errors()`.
- A send on the closed `Input()` panics, and so does a second `AsyncClose`.

### RabbitClient

All parts live in one `client` struct, so they are one module.

| Variable | Code |
|---|---|
| `rc` | the supervisor goroutine's position |
| `conn` | `m.conn`/`m.channel`; connections are numbered by dial order, 0 is nil |
| `isConnected`, `notifyClose`, `connectMsg`, `done` | the fields of the same name |
| `pub[p]` | a publisher's call |
| `lp[w]` | a running `doConsume`, in the Subscribe caller (`"sub"`) or inside the supervisor (`"rc"`) |
| `closer` | `Close` |

The environment has three parts:
- `chan[c]` is the amqp channel state. `"failing"` means the library is
  blocked handing its error to the NotifyClose listener.
- `queue`/`unacked` is the broker queue. A channel that shuts down requeues
  its unacked delivery, flagged redelivered.
- `delayQ` is the dead-letter arguments of the durable `DelayQueueTemp`
  queue. It outlives connections.

`PublishCall` chooses between `Publish` and `PublishDelay` with one of the
`DelayTargets` (dead-letter exchange and routing key). After the exchange
declaration, `PublishDelay` goes through `QueueDeclare`:
- The broker accepts a first declaration, or one with the arguments the queue
  already has.
- A declaration with different arguments is refused with 406. That closes the
  shared channel, and the supervisor sees the close like a drop.
- `routed[p]` records where the broker will dead-letter the message that `p`
  sent (`DelayRoute`).

`m.lock` is only ever taken by the supervisor goroutine, so the model leaves
it out. The supervisor's `connectMsg <- true` (line 108) and its test of
`m.handlerFunc` (109) are two steps, `Signal` and `HandlerTest`: a Subscribe
may store the handler between them. The 2s sleep is a scheduling point. The 20s `waitConn` deadline may
fire whenever a caller is blocked.

### SqlDbContext and SqlStore

`rows` is the committed rows, and `work` is the open transaction's view. A
row is `<<table name, entity>>`. A table name is its base name followed by its
shard suffixes.

The database refuses:
- a duplicate key;
- a missing table;
- an explicit identity value while `IDENTITY_INSERT` is off (mssql).

Up to `MaxFaults` Begin, statement or Commit calls may fail.

`ImportData` is modelled step by step:
1. Group the entities by table, in Go map order.
2. Begin.
3. Set `IDENTITY_INSERT` on, when an identity insert is asked for.
4. Insert chunks of `_bnum` rows.
5. Roll back on any error, and commit at the end.

`BatchExec` is modelled the same way, one request at a time.

The sharding helpers are operators:
- `Int32Of` is the int32 truncation at a scaled width `IntBits`.
- `GoRem` is Go's signed `%`.

`Store == INSTANCE SqlStore WITH ...` maps the detailed state onto the
abstract store. The abstract store has one atomic `Succeed` (with
`Effect`/`Count`) or `Fail` per call.

### EsContext

`docs` is the index: id to data and the sequence number of the last write.
`cl[c]` is goroutine `c`'s request in flight, and `last[c]` is what its last
call returned.

Each request function is an operator. It turns the call into the request
the code sends, or into `Refused` for the code's early error returns.

The server side follows Elasticsearch 6:
- Bulk items apply one at a time (`BulkItem`), with per-item results.
- By-query requests take a snapshot, then write per document (`ByQueryDoc`).
  They abort at the first version conflict.
- The count aggregation and its recursive walk are modelled:
  - `Agg` builds the nested terms aggregation.
  - `GetCountResult` is the walk, declared `RECURSIVE`.
- Searches sort by the map-ordered sort array (`SortObj`) and cut `from`/`size`.
- A scroll opens a context in `scrolls`. `ScrollPage` hands out its pages
  and moves the context's cursor.
- A `PageByScroll` call gets the id the previous call returned (`""` after
  an error) or any id a reply earlier handed to a caller (`PageIds`), as a
  caller that keeps the id and retries does.

Up to `MaxFaults` requests fail in transport (`SendFails`), and a reply may be
lost after the server acted (`LoseReply`).

### MgoContext

The Filter builder is a set of operators:
- `filterHelper`'s spreading of arguments;
- `NewFilter`, `AppendAnd` and `AppendOr`;
- `Build`: the AND list, then one `$or` element when the OR list is not
  empty. The server's `Holds` evaluates the `$or` element as "one clause
  holds".

A field is a number, missing (`NoVal`) or null (`Null`). The two are apart
where MongoDB keeps them apart: an upsert seeds the filter's `$eq`
operands, so `$eq nil` writes `null`, and `Distinct` returns null but
nothing for a missing field. They are equal where MongoDB treats them as
equal: `$eq nil`, sorting, and `$group`, whose `_id` is null for both.

The collection is `docs`, from ObjectId to document, and `uniq` holds the
unique indexes that `CreateIndex` made.

Every call is one server command and one step, with one exception: `Inserts`
stores its documents one by one (`InsertDoc`), so other calls interleave with
it, and it stops at the first E11000 duplicate key.

Three calls build stages from Go maps, whose iteration order is random, so
each of these is a nondeterministic choice:
- `Search`'s sort stage and `Group`'s pipeline, over the permutations of the
  sorts map;
- `CreateShard`'s shard key, over the orders of the keys in the `bson.M`.

`pages` is a history variable of the pages `Search` returned since the last
write.

### RedisClient

Each wrapper function of `db.go` is an operator of the server's key space
(`kv`, `ttl`): the command's effect on strings, integer strings and lists,
and the reply. `Dispatch` selects it by function name. `Wrap` and `Handed`
give what the wrapper returns: the functions in `NilToEmpty` turn
`redis.Nil` into `("", nil)`, and those in `ErrOnly` return the error alone.

| Action | Code |
|---|---|
| `Call` | the wrapper is entered; `rdb == nil` returns an error (line 39) |
| `Exec` | the server runs the command; a blocking pop with no ready key waits |
| `Timeout` | a blocking pop's timeout elapses (timeout 0 waits for ever) |
| `Reply` | the reply reaches the caller |
| `Break` | the connection breaks before or after `Exec`; go-redis resends while fewer than `MaxRetries` = 3 attempts were made (lines 16-36) |
| `Expire` | a key's TTL runs out |

`MaxLost` bounds the broken connections. `pushed`, `taken` and `incrs` are
histories that the properties read.

### FileCache

The file system is the environment: `dirs`, `files` and `gen`, the number
of times a file was unlinked, which identifies the inode an open
descriptor names. One system call is one step. `Call` is the entry of every
method; `Get`, `Delete`, `IsExist` and `Flush` finish in it. `Put`
continues with `MkdirAll` (line 47, its error ignored), `OpenTrunc` and
`WriteClose` (the three steps of `ioutil.WriteFile`, line 49). `Overlay`
is a write at offset 0: a longer old file keeps its tail. The md5 path is
the constant map `Path`; two keys in one directory let `Flush` and
`Delete` meet a `Put` of the other key.

### MapSorter

`MapSortByKey` is a pure function, so the module has no actions: `Init`
picks every input (a map of up to `MaxItems` keys, an `orderBy`, and every
order in which `range` may visit the map) and computes the result, and
`Next` leaves it unchanged. Keys are their ranks in byte order, so
`strings.Compare` is `Compare` on ranks. For fewer than seven items every Go
release's `sort.Sort` is an insertion sort; `SiftDown` and `InsertionSort`
are it, recursively. `SortKeepsEntries` and `SortOrdersKeys` compare the
result with the reference: the map's entries, strictly ascending for
`"asc"` and strictly descending for any other `orderBy`, `"ASC"` included.
`Less` returns true for equal keys under `"asc"`, which breaks
`sort.Interface`'s contract, but map keys are distinct, so it never
matters.

## 2. Runs

The runs listed in `PROJECT.json`. The state counts are TLC's distinct
states:

| Run | Cfg | Expect | Properties | Bounds | Result |
|---|---|---|---|---|---|
| kafka_one_partition | `KafkaOnePartition` | pass | TypeOK, EventuallyDispatched | 1 partition, 3 records, BatchSize 2, buffer 1, 2 sessions | 85,339 states |
| kafka_two_partitions | `KafkaTwoPartitions` | violation | AtLeastOnce | 2 partitions of 2 records, BatchSize 2, 1 session | an unlocked slot write is lost and its offset committed |
| kafka_failed_batch_skipped | `KafkaFailedBatchSkipped` | violation | CommitOnlyPastSuccess | as one_partition | a failed batch is committed past |
| rabbit_publish | `RabbitPublish` | pass | TypeOK, DelayRoutedAsAsked | 2 publishers, 2 delay targets, 3 connections, 1 failure | 313,058 states |
| rabbit_subscribe | `RabbitSubscribe` | pass | MessagesSettle | 2 messages, no drops | 1,377 states |
| rabbit_first_connect_fails | `RabbitFirstConnectFails` | violation | ReconnectConverges | 3 connections | a nil `notifyClose` after a failed first connect |
| sql_writes | `SqlWrites` | pass | TypeOK, TableIdxLocatesRows, StoreSpec | 2 calls of at most 2 entities or requests, `user` split in 2 by id, mssql, 1 fault, int32 at 8 bits | 60,153 states |
| sql_import_refused | `SqlImportRefused` | violation | ImportOfSetFieldsSucceeds | ids 3, 4, -1 | the id -1 goes to `user_-1` |
| es_requests | `EsRequests` | pass | TypeOK, BatchReportExact, CountResultExact | 2 goroutines, 3 requests in all, 2 documents, 2 generated ids, 2 scroll ids, 1 transport fault | 1,137,966 states, 56s |
| es_should_ignored | `EsShouldIgnored` | violation | ByQueryHonoursShoulds | one delete by query | a should without `minimum_should_match` stops filtering |
| mongo_calls | `MgoCalls` | pass | TypeOK, ReturnedCountsExact, GroupRowsExact | 2 goroutines, 3 calls, 2 documents, ObjectIds 1..8 | 47,951 states |
| mongo_pages_repeat | `MgoPagesRepeat` | violation | SearchOrderConsistent | pages 1 and 2 of a two-key sort | map-ordered sort keys |

### What the passing properties say

Kafka:
- **EventuallyDispatched**: every fetched record reaches the callback,
  including the tail batch that the drain flush sends when the claim's
  channel is empty.

With one partition, `AtLeastOnce` (a committed offset was dispatched
first) holds; kafka_two_partitions shows that it fails with two.

RabbitMQ:
- **DelayRoutedAsAsked**: a `PublishDelay` that returned nil has its message
  dead-lettered to the exchange and routing key it was called with.
  - With two different targets, the second declaration is refused and closes
    the channel. The run reaches that path.
  - A client that declared the queue only once would route messages to the
    first caller's target. The mutant `QueueDeclareOnce` breaks the property.
- **MessagesSettle**: once subscribed, every queued message is eventually
  acked, whichever of Subscribe and the first connect wins.

SQL:
- **StoreSpec**: `SqlDbContext` refines `SqlStore`. Every write call is
  all-or-nothing on the committed rows and returns its affected count. This
  covers chunks, groups, identity insert, per-request statements and
  rollback after any fault.
- **TableIdxLocatesRows**: for every committed row, `GetTableIdx` with the
  row's shard value names the table the row was written to.

Elasticsearch:
- **BatchReportExact**: the creates/updates/deletes/fails lists of a batch
  call partition its items and tell the truth about each, however concurrent
  bulk items interleaved.
- **CountResultExact**: `CountDataByQuery` returns each group of the matched
  documents once, with its count.

MongoDB:
- **ReturnedCountsExact**: the counts of `Update`, `Delete` and `Inserts` are
  what the call did, while the other goroutine also writes.
- **GroupRowsExact**: `Group` returns one row per group value of the
  documents it matched, with `$sum`, count and `$max` computed over the group.

Every passing property has a mutant in `PROJECT.json`: a plausible bug in the
mapped code, under which TLC finds the property violated.

### Findings

The violation runs are the findings of `PROJECT.json`:
- **Kafka** (`consumer.go:56`): a failed batch is skipped and the next
  successful batch commits past it.
- **Kafka** (`consumer.go:82`): two claim goroutines attach without a lock.
  The second one writes slot 0 before the first one's increment is stored,
  so one record never reaches a batch. A later batch of its partition
  commits past it.
- **RabbitMQ** (`client.go:78`): after a failed first connect the client
  never retries.
- **SQL** (`db.go:217`): GetTableName's int32 truncation and signed `%` give
  a negative shard suffix.
- **Elasticsearch** (`elasticsearch.go:1591`): should clauses beside musts are
  optional, so a delete by query deletes documents meeting none of them.
- **MongoDB** (`mongo.go:434`): map-ordered sort keys make offset paging
  repeat documents.

### Reproducers

These cfgs are not listed as runs. Each demonstrates a hazard of
`PROJECT.json` that is already covered elsewhere, or that no run states as
a property:

| Cfg | Property violated | Shows |
|---|---|---|
| `KafkaCloseHangs` | CloseCompletes | a claim blocked on the full buffer after `run` exited |
| `RabbitCloseLeaksConnection` | NoConnectionAfterClose | Close racing doConn leaves a connection open |
| `RabbitCloseHangs` | CloseReturns | Close's `connectMsg <- false` blocks on a full slot |
| `RabbitDoubleConsumer` | OneConsumerPerChannel | Subscribe racing the first doConn starts two consumers |
| `RabbitConsumeBlocksNotify` | ConsumerReleasesReconnectLoop | doConsume inside the supervisor blocks the close notification |
| `MgoInsertsPartial` | InsertsReturnsStored | an Inserts that stops at a duplicate key reports 0 stored |
| `MgoShardKeyOrder` | ShardKeyAsGiven | a compound shard key `a, b` applied as `b, a` |
| `KafkaLookupRace` | NoLookupPanic | a second caller's failed `NewClusterAdmin` nils the admin the first is about to query |
| `KafkaLookupStale` | CachedAdminUsable | an admin whose Close failed stays cached, closed, for the next call |
| `KafkaLookupLeak` | NoLeakedAdmin | two callers that both saw nil create two admins; one is lost |
| `KafkaProducerSendClosed` | NoSendPanic | `SendMessage` after the interrupt's `AsyncClose` sends on a closed channel |
| `KafkaProducerInitRace` | OneProducer | two first calls create two producers |
| `KafkaProducerReaders` | ErrorReadersBounded | every call adds an `Errors()` goroutine |
| `KafkaProducerStrands` | MessagesDelivered | a lone message stays in the produce set for ever |
| `RedisPopLost` | NoLostElement | a pop whose reply is lost is resent and pops a second element; the first is handed to no one |
| `RedisIncrTwice` | IncrCountsCalls | an INCR whose reply is lost is resent and counts twice |
| `RedisEmptyPop` | PopReturnsElement | a pop of an empty list returns `""` with a nil error, like a popped empty string |
| `FileCacheTorn` | GetReturnsPut | a Get between a Put's truncate and its write returns an empty value |
| `EsScrollKeptId` | ScrollPagesInOrder | a page reply is lost after the cursor moved; paging again with the kept id skips that page |
| `FileCacheOverlay` | FileHoldsPut | two Puts of one key overlap; the shorter value is written over the longer one's tail |

The offset lookup and the producer have no listed run, because the run
budget is spent on the other components. For each of them a passing cfg
(`KafkaLookupSingle`, 73 states; `KafkaProducerSingle`, with one caller and
no interrupt) checks the type invariant and the safety properties that one
caller cannot break.

Redis, the file cache and the map sorter have no listed run either. These
cfgs pass:
- `RedisQueue`: two goroutines using a work queue and a counter, with no
  broken connection, hold `NoLostElement` and `IncrCountsCalls`;
- `RedisAll`: one goroutine calling every wrapper function, with one broken
  connection, holds `TypeOK`;
- `FileCacheOne`: one goroutine making every call holds `GetReturnsPut` and
  `FileHoldsPut`;
- `MapSorter`: every map of up to five keys, in every range order, sorted
  for `"asc"`, `"desc"` and `"ASC"`, satisfies `SortKeepsEntries` and
  `SortOrdersKeys`.

### Why the bounds are enough

Kafka:
- Two partitions give the unlocked interleaving.
- BatchSize 2 gives partial batches and the drain flush.
- A 1-slot buffer gives backpressure.
- Two sessions give a stale session and a resume from the commit.

RabbitMQ:
- Three connections allow two drops and a recovery.
- Two publishers with two delay targets reach both the accepted and the
  refused queue declaration.

SQL:
- Two calls allow a second call to meet the first one's rows (duplicate
  keys) and its identity-insert state.
- The fault can hit any step.
- At 8 bits the ids 256 and -1 reach the zero hash and the negative suffix.

Elasticsearch and MongoDB:
- Two goroutines and three calls let a write interleave with a bulk, a
  by-query, an Inserts or a scroll.
- Two documents with values 0/1 make every query, sort and group
  distinguish documents.

Redis and the file cache:
- Two goroutines and three calls let a lost reply's resend meet another
  caller's push or pop, and let a Get or a second Put fall between a Put's
  steps. One broken connection is enough for the double execution.
- Values of length 1 and 2 make an overlaid write differ from both.

The map sorter:
- Five keys exceed the point (two items) where the insertion sort starts
  to swap, and every range order of them is tried.

`CHECK_DEADLOCK FALSE` appears only where the system really stops:
- the caller's calls are bounded;
- or a client idles in a `select` that nothing wakes.

## 3. Fairness

Kafka and RabbitMQ:
- Every goroutine step is weakly fair, because the Go scheduler runs every
  runnable goroutine.
- Kafka's blocked `Send` is strongly fair, because channel senders are
  served in FIFO order.
- The `waitConn` deadline is weakly fair.
- Application calls, rebalances, drops and dial failures are not forced.
- In `KafkaProducer`, the steps of a call, `closeSend` and sarama's
  shutdown are weakly fair. Calls and the interrupt are not.
  `MessagesDelivered` fails even under this fairness. No step flushes a
  lone message, because the config sets no flush frequency.

The SQL, Elasticsearch, MongoDB, Redis, file cache and map sorter modules
check only safety and the
refinement, so they assume no fairness.

## 4. Not modelled

Left out on purpose:
- **Kafka.**
  - sarama's broker side of producing: retries, partitioning and the
    acknowledgement of written messages. The topic has one partition, and
    a flush is a write.
  - The `GetBlock` miss at consumer.go 271, which the broker does not
    produce for a partition that was asked for.
- **The RabbitMQ message expiration.** Per-message TTLs in one delay queue
  expire only at the head of the queue, so a long delay holds up a shorter
  one queued after it. That is broker timing, which the untimed model does
  not represent.
- **SQL.**
  - Configuration and engine set-up: `init`, `newEngine`, the `Get*Context`
    functions.
  - `Query` and `builder.go`, which produce SQL text.
- **Elasticsearch.**
  - `CreateIndex`, `CheckIndexExists`, `GetInfo` and the init: the model
    works on one existing index.
  - The `_source` projection.
  - Scroll keep-alive expiry.
- **MongoDB.**
  - `CollectionExist`, `CreateCollection` and `Ping`.
  - The connection set-up.
- **Redis.** `Engine()`, which only returns the client, and the pool's
  connection management below the resend loop.
- **The file cache.** The md5 hashing of the path (a constant map) and
  permission bits.
- **The map sorter.** `sort.Sort` for seven items or more (pdqsort), which
  returns the same order for distinct keys.
- **Pure pass-throughs, I/O and formatting:**
  - the HTTP server, client and signer: request and response I/O and string
    canonicalisation;
  - logging, JSON and configuration;
  - the helpers of `lib/utility/util.go`: reflection over struct fields and
    string and number conversion, without state or control a model would
    tell apart.
