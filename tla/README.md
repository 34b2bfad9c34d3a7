# A verification development of BunQL

BunQL is a TypeScript database layer for Bun: a SQLite database object whose
writes go through a FIFO queue, and drivers for PostgreSQL, MySQL, Redis and
MongoDB that speak the wire protocols over pooled TCP sockets. This directory holds
TLA+ modules that model its stateful parts, TLC configurations that check them on
small instances, and TLAPS proofs of the invariants that matter most.
`PROJECT.json` links every definition to the source lines it stands for (`map`),
every run to its properties, and every property to a plausible bug that breaks it
(`mutants`).

Run a configuration with `tlc -config X.cfg MCModule`, a proof with
`tlapm Module_proofs.tla`. Paths below are relative to the repository.

## How the program executes

JavaScript runs one synchronous segment at a time. Between two `await`s nothing else
happens, so **one action of a module is one segment**: a call up to its first
`await`, the continuation after it, a microtask, a timer or a socket callback. What is
interleaved is segments, and that is where the hard behaviour is: a decision taken
before an `await` and used after it.

## Inventory

| Component | State | Operations | Hard behaviour | What makes it correct |
|---|---|---|---|---|
| `write-queue.ts` WriteQueue | `#items`, `#processing`, `#closed`, the drain promise | `enqueue`, `#process`, `drain`, `close`, `clearPending` | wake-up of the loop against its `finally`; drain against late items; clear under a running item | each accepted operation is settled once, in order; one loop; drain means settled |
| `transaction-manager.ts` | `#processing`, `#depth`, `#savepointCounter` | `transaction`, nested `transaction`, hooks | a call is taken for nested by two flags, not by who calls; BEGIN, COMMIT, ROLLBACK and hooks fail separately | all or nothing; nothing that ends leaves a transaction open; nested calls do not deadlock |
| `bunql-tx.ts`, `bunql-query.ts`, `bunql-close.ts`, `bunql-state.ts`, `bunql-core.ts` facade | `closed`, `db`, the queue, the manager | `transaction`, `batch`, `exec`, `run`, `close` | `run()` bypasses the queue; `close()` at any moment | atomic writes, every call answered, a quiet connection closed |
| `retry-policy.ts` | none (a loop with a sleep) | `execute`, `isBusyError`, `getDelay` | the world changes during the sleep; the error is wrapped before it arrives | lock errors, and only they, are retried, `maxRetries` times; an attempt that is tried again has left nothing behind |
| `bunql-maintenance.ts` | a timer | `checkpoint`, `backup`, `vacuum`, the periodic task | ticks pile up behind a long item | as any item of the queue |
| `statement-cache.ts`, `statement-wrapper.ts`, `transaction-context.ts` | an LRU `Map`; one native statement per object; a `Map` per transaction | `get`, `remove`, `clear`, `#evict`; `prepare`, `finalize`; `getOrPrepare` | a native statement is shared and finalized behind an object's back | only live statements are given out; the one got least recently goes; what the cache or a transaction in progress prepared is finalized |
| `reader-pool.ts` | read-only connections, an index | `next`, `close` | none (synchronous) | round robin |
| `driver/*/pool.ts` (four copies) | `#connections`, `#active` | `acquire`, `release`, `closeAll` | `acquire` tests before `await connect()` and counts after it; sockets die while idle | one owner per connection; `#active` is true; a dead socket is not handed out |
| `driver/*/connection.ts`, `wire.ts`, `resp.ts`, `auth.ts`, `wire-protocol.ts` | receive buffer, one pending promise, a transaction flag | `connect`, the calls, `close`, socket callbacks | chunk boundaries; answers matched by order only | an answer reaches the call that asked for it, whole, or the call fails |
| `driver/transaction.ts` | `#depth` | `begin`, `commit`, `rollback`, `transaction` | every backend call is an `await` | depth follows the backend |
| `parser/`, `ast/`, `query/conditions.ts` | the tokens left, `#paramIndex` | recursive descent; MongoDB objects to conditions | precedence; what a clause ends at | the tree means what the text means |
| `translator/` | the context's `params` and `paramIdx` | one function per node | text and values are made in different orders; null; the order of a pipeline | the statement selects, binds, orders and names what the query does |
| `query/sql-builder.ts`, `mql-builder.ts`, `relations/` | the fields of one query | chaining; `toSQL`, `toCommand` | none | as the parsers and translators |
| `fts5.ts`, `server/`, `bunql-init.ts`, `types/`, `errors/` | none of their own | SQL text; one facade call each; formatting | none | (not modelled) |

Interactions: the facade calls the retry policy, which calls the manager or
enqueues an item; the manager enqueues itself; the queue calls back `execute()`, which
runs SQL on the one connection and awaits the user's callback; the callback may call
the facade again. `close()` closes and clears the queue, awaits its drain, clears the
caches and closes the connection. Drivers acquire a connection from the pool, await one
exchange on it and release it in a `finally`. The MongoDB and Redis drivers and the query
builders send what they are given through a parser and a translator first.

The hazards of this code, each at its line, are listed in `PROJECT.json`.

## Modules

| Module | Models | State ↔ code |
|---|---|---|
| `SerialExecutor` | abstract specification: what the queue promises | `backlog`, `outcome`, `shut` |
| `WriteQueue` | `write-queue.ts` | `items`, `processing`, `closed` are the private fields; `draining`: the drain promise exists; `scheduled`: the `queueMicrotask` of `enqueue` is pending; `current`: the item that `#process` awaits; `outcome`, `drainer`: what callers see |
| `SqliteConnection` | external: BEGIN … ROLLBACK TO on one connection, as the code uses them | a record of committed rows and a stack of frames |
| `TransactionManager` | `transaction-manager.ts` composed with `WriteQueue` (`INSTANCE`) and `SqliteConnection` | `txProcessing`, `txDepth`, `spCounter` are the private fields; `phase`, `parent`, `savepoint`, `result` describe each call; `wrote`, `inside` (a call and the callbacks around it) and `failed` (faults after COMMIT was sent) are history |
| `BunQL` | the facade, the retry loop and `close()` on top of `TransactionManager` (`EXTENDS`) | a call is a name and the number of the attempt; adds `dbOpen` and the history `lockedOut` (batches and execs that a lock refused) |
| `Statements` | `statement-cache.ts`, `statement-wrapper.ts`, `transaction-context.ts`, `clear()` of close, and the statements that `pragma()`, the maintenance operations and FTS5 prepare past the cache | `order` and `cached` are the `Map`; `text` the native statements; `wrapper` the objects of `prepare()`; `stmtCache` the `Map` of each transaction's context, `ended` the contexts somebody kept after their transaction; `recent` (texts by their last `get()`) and `stray` (statements prepared past the cache and outside a transaction) are history |
| `ConnectionPool` | `driver/pg/pool.ts` and its three copies | `connections`, `active` are the private fields; `socket`: "open" when `connected` is true, "refused" when the socket is up and the handshake failed; `call`, `conn`, `late`: each caller of `acquire()` |
| `DriverConnection` | what the four connection classes share | `buffer` is `#buffer`, `socket` the socket and `#closed`; `net` what the server has sent; `call` the method that is suspended on the pending promise; `asked`, `told`: what callers asked and were told; `lost`: the reader took bytes for what they are not |
| `PGConnection`, `MySQLConnection`, `RedisConnection`, `MongoConnection` | each class with its authentication, wire format and driver, on `DriverConnection`; the server is external | `txn` is `#inTransaction` and `#txQueue` (Redis) or the transaction number of the session (MongoDB) |
| `DriverSessions` | one connection of any of the four, with the environment's fairness | `protocol` |
| `QueryAST` | `ast/ast.ts`, `query/conditions.ts` | constructors of the nodes |
| `SQLParser`, `MQLParser` | `parser/` | the parser is a record: tokens left, `#paramIndex`, what the last method returned, whether it threw |
| `ToSQL`, `ToMongo`, `ToRedis` | `translator/` | a piece of SQL keeps its text and what it did to `ctx.params` and `ctx.paramIdx`, in the code's order |
| `Databases` | external: what SQL, a MongoDB filter and a condition tree say about a row | |
| `Translation` | a query on its way through a parser and a translator (which it extends or instantiates) | `source`, `node`, `unread`, `out` |
| `SequenceLemmas`, `WriteQueue_proofs`, `TransactionManager_proofs`, `BunQL_proofs`, `Statements_proofs`, `ConnectionPool_proofs`, `DriverSessions_proofs`, `DriverAnswers_proofs` | proofs | |
| `MC*` | the modules TLC runs; `MCTranslation` lists the queries | |

How the actions correspond to the code:

* **WriteQueue.** `Enqueue` is `enqueue` (refused when closed). `EnterProcess` is the
  microtask entering `#process`; `Settle` is the continuation after `await
  item.execute()`: it settles the promise and, with no `await` in between, takes the
  next item or runs the `finally` block (`LoopHead`). `Drain`, `Close`, `ClearPending`
  are the methods. An operation may be enqueued again after it is settled, so the number
  of `enqueue` calls is unbounded and no counter is needed.
* **TransactionManager.** `Call(c, p)` is `transaction()` called from the callback of `p`
  or from outside (`NoOp`): `NestedCall` when the two flags say a transaction is open,
  else `QueuedCall`. `TransactionBegins`/`TransactionFailsToBegin` run in the
  segment in which the queue starts the item. `Commits`, `CommitFails`, `RollsBack`,
  `NestedReleases`, `NestedRollsBack` are the ends of a callback with the code's
  order of COMMIT, hooks, ROLLBACK and `finally`. `Settle` conjoins the queue's part.
  `CONSTANT Faults` says which of the hooks, BEGIN and COMMIT may fail.
* **BunQL.** `batch`, `exec` and maintenance items have no `await` inside, so their
  whole effect belongs to the segment that starts them (`StartDbItem`). `CallRun` is
  `run()`, straight on the connection. A lock of another process makes BEGIN of a
  transaction or a batch, an exec or a maintenance item fail, and the callback, a nested call and COMMIT may meet
  one as well: each of these failures is "error" or "busy". The error of a transaction is
  rethrown as it is (`transaction-manager.ts:88-99`), so a busy one makes the retry policy run the whole
  callback again, whether rows were written or not; batch and exec wrap it (`WrappedError`). Each attempt is a call of
  its own for the queue, the manager and the connection: a call is a name and the number of the attempt
  (`Attempts`), `Sleeps` is the wait, `CallAgain` and `AttemptAgain` are the loop after it. A
  nested call is retried inside its callback, which stays suspended meanwhile (`AwaitsRetry`). `BeginClose` is `closeBunQL` up to `await drain()`,
  `CloseConnection` the rest.
* **Statements.** All synchronous: `Execute`, `Prepare`, `Finalize` (which goes by the
  text, and may be called again by an object whose statement is gone), `Forget`,
  `Close`; `MissFails` is a `db.prepare` that throws after the eviction. Running a Statement object
  is no action: it changes neither the cache nor its order. A transaction's
  context prepares for itself: `GetOrPrepare`, `TxFinalize` (which leaves the entry in the map)
  and `TxEnds`, the `finally` block. `getOrPrepare` does not look whether its transaction has ended, so a
  context that was kept still prepares, until `TxForget`. `PrepareDirect` stands for `pragma()`,
  `walStatus()`, `vacuum()`, `checkpoint()` and the FTS5 helper, which prepare a statement, run it and
  drop it; `Collect` is the garbage collector.
* **ConnectionPool.** `Acquire`/`TryAgain` are one turn of the outer loop (`Take`, `Open`
  up to `await connect()`, `Wait` up to the 10 ms sleep); `Opened`/`OpenFails` the
  continuation; `DeadlinePasses` and `GivesUp` the deadline; `Release`; `CloseAll` and
  `CloseAllEnds` around the one `await` of `closeAll`; `PeerCloses` the socket callbacks.
* **The connections.** A message is two pieces (its length, the rest), and the server
  answers every request in order. `onData` is the data callback with the next *n* pieces, for any *n*:
  it appends to `#buffer`, resolves the pending promise, and the method runs on to its next `await` for
  data or to its end, as the microtask queue does before the next callback. A method's state
  is the step it is at and what its local variables collected (`call`); one turn of it is a
  `read…` operator, which says whether it waits again or ends, and what it leaves in `#buffer`.
  `connect` is every outcome of the handshake; `query`, `executePrepared`, `sendCommand`,
  `executePipeline`, `multi`/`exec`/`discard`, `executeCommand`, `startTransaction` and `endTransaction`
  are the calls of the drivers. `onError`, `onClose` and `close` may come at any time. When bytes are read as what
  they are not (`Astray`), the reader is `lost` and the bytes are not followed any further, since what comes of them depends
  on their values. The session goes on: every later call may be told of anything made of the answers so far
  (`Misreads`, status "garbled"), or may wait for ever, until the socket is closed.
* **Translation.** `ParseSQL`, `ParseMQL` and `Build` make the tree, `TranslateToSQL(d)`,
  `TranslateToMongo` and `TranslateToRedis` the statement. Parser and translator are pure, so the
  interest is in their operators, one per method. `Parse(p, rule)` is how the methods of the
  parser that call each other are reached. A piece of SQL (`Words`, `ph`, `pushVal`, `Cat`)
  has a text with "?" for each placeholder, what each placeholder means, and the list
  of what making it did to the context: `Params` and `Made` run that list, as the code runs its
  `push`es and numbers its placeholders, and `InOrder` says where the code's order is not the text's.

Definitions marked `\* BUG:` or `\* BUG variants:` are the mutated forms used by `mutants`; no specification
refers to them.

## What the runs check

| Run | Instance | Shows |
|---|---|---|
| `write_queue` | 3 operations enqueued again and again, 2 callers of drain | type correctness; the wake-up of `#process` is neither lost nor doubled (`OneProcessLoop`); an unsettled promise has its item in exactly one place (`HeldExactlyOnce`); a resolved drain means everything accepted before is settled (`DrainMeansSettled`); accepted operations are settled and a closed queue drains (liveness); the queue implements `SerialExecutor` (`SerialInOrder`) |
| `transactions` | 3 calls, any nesting or competition, all four faults | rows committed = rows of callbacks that succeeded together with those around them (`AllOrNothing`); a transaction is open exactly while a queued callback runs (`NoTransactionLeaks`); one commit publishes one transaction (`CommitsOneTransaction`); queued calls are answered (`QueuedIsAnswered`) |
| `tx_commit_fails` | same, COMMIT may be refused | *violation*: the transaction stays open (`FailureRollsBack`) |
| `db_retry_close` | 1 transaction, batch, exec, vacuum; 1 retry; locks at BEGIN, in the callback, at COMMIT and in the items; `close()` at any moment | `WritesAllOrNothing` under retries and close; no call has rows of two attempts (`AppliedOnce`); `ClosedWhenQuiet`; `NoItemStartsAfterClose`; `EveryCallIsAnswered` and `CloseCompletes` (liveness) |
| `db_nesting` | 2 transactions that nest or compete, run, close; 1 retry; locks and a failing beforeTransaction hook | atomicity and answers when a `run()` or a `transaction()` is made inside a callback, and either transaction is retried after it wrote, in place or from outside |
| `db_retry_joins` | 2 transactions, 1 retry | *violation*: a retried transaction runs inside another one and is lost with it (`ResolvedIsNeverLost`) |
| `db_batch_busy` | a batch and a vacuum, locks | *violation*: batch is not retried (`BatchAndExecAreRetried`) |
| `connection_pool` | 3 callers, pool of 2, 3 connection objects | `OneOwner`, `ActiveIsHonest`, `SequentialOpensRespectMax`, `HandedOverConnected`; before `closeAll()` the only sockets that are up and out of reach are those of refused handshakes (`OnlyRefusedAreForgotten`); `WaitingEnds` (liveness); deadlock is checked |
| `pool_overshoot` | 2 callers, pool of 1 | *violation*: two connections (`MaxIsRespected`) |
| `statements` | 3 texts, cache of 2, 2 Statement objects (symmetric), 1 transaction with 1 text, 5 native statements | the map and its order agree and stay bounded (in `TypeOK`); `CachedAreLive`; the statements with nobody left to finalize them are exactly those prepared past the cache outside a transaction in progress (`OnlyStraysAreUnowned`); a `get()` finalizes no statement of an object whose text is among the last `maxSize` that were got (`RecentStaysUsable`) |
| `driver_sessions` | one connection of each of 4 drivers, 2 calls, every kind of call and answer, every cut of the stream | while no cut falls where the protocol's reader is known to get lost (`Torn`), each caller is told what the server answered to it (`OwnAnswers`); however many answers late it is read, no result mixes two answers while the bytes are read as the messages they are (`OneAnswerEach`); a call ends unless the reader is lost or PostgreSQL asks for an authentication that `performAuth` does not know (`CallsEnd`, liveness) |
| `translation` | 2,602 queries: SQL texts, calls of MongoDB methods, condition trees; each to 3 dialects, MongoDB and Redis | `SameRows`, over all rows of two columns that are null, 1 or 2; `BoundInOrder`; `ClausesInOrder`; `OnlyNamedRows` |

### What the four properties of `translation` say

* `SameRows`: the statement is true of a row exactly when the query is. Both are evaluated by
  `Databases`, which knows precedence, three-valued logic and MongoDB's filters; nothing of the
  parser or the translators is used for it. A query that this property looks at is also read to
  its end. Between SQL and MongoDB, rows with a null count only where a null cannot make a difference of
  the languages (`NullSafe`).
* `BoundInOrder`: each placeholder of the text is bound to the value that stands in its place in
  the query, whether the dialect goes by position or by number. Of a query with parameters this is said when
  they are its only values and come in the order of the text (`ByCallerAlone`): the code renumbers `$n` in that order,
  and returns the values of the text without the caller's (see the disagreements). Queries that break the
  condition are in the run, and the property is false of them without it.
* `ClausesInOrder`: no clause is lost, a pipeline has its stages in the order in which SQL takes the
  clauses, and `$project` comes before none but `$skip` and `$limit`.
* `OnlyNamedRows`: a Redis command has the keys of the rows that the query names by id, and no other.

Every query in `MCTranslation` says in `about` which of the four it is held to; what is left out
is in the list of disagreements below, and its statements are still translated, so that every branch
of the code is taken.

### Bounds, and why they are enough

* Queue: the code distinguishes the item in execution, the head, and the rest; three
  operations fill all three, and each is enqueued without bound. Two drainers share the
  one promise.
* Transactions: three calls give two levels of nesting, two siblings in one callback, and
  two competing transactions of which one nests. A callback writes at most one row; a
  row is named after its call, so the rows tell callbacks apart.
* Facade: `MaxRetries = 1` has a first attempt, a retry and a refusal after it. Every name is called once, by a
  caller or by a callback; an attempt of a transaction that is run again does not make the nested calls of the first
  attempt again, but may make those that were not made yet. Where a retried transaction joins another one
  (`db_retry_joins`), `WritesAllOrNothing` of `db_nesting` says nothing (`NoRetryJoined`).
* Pool: one caller more than connections, and enough connection objects for one to die in
  each place. Connection objects are used again when nobody refers to them.
* Statements: one text more than the cache holds, so that every `get` of the third evicts, and
  native statements for the cache, for two that are held after they were finalized or are stray, and for the one
  being prepared. The Statement objects are alike (`SYMMETRY`).
* Connections: what a call leaves behind (`#buffer`, an answer not read) meets the next one, so two
  calls show every effect of one call on another. An answer has at most two rows: one row
  tells "first" from "last", two tell "one" from "all".
* Translation: conditions nest three deep and the lists are of two; the translators treat a third
  item as the second. Values are three numbers, null, and one string, as many as a placeholder needs
  to be told from its neighbours, and the strings 'case' and 'select', whose tokens the parser takes for keywords.

### Assumptions of the environment

* In `transactions`, `db_retry_close` and `db_nesting`, a call from *outside* every callback is not
  made while a callback is open (`Outsiders = FALSE`): see the disagreements below. Calls
  from inside callbacks are awaited before the callback ends.
* A callback has at most one call of its own in progress: two nested calls of one callback that overlap
  (`Promise.all`) are excluded (`Runs`, `MayCall`). The code accepts them, and their savepoints can then
  end out of order.
* Callbacks do not await `batch`, `exec`, `vacuum` or `close()` (the code deadlocks there
  by construction, see the hazards).
* In `connection_pool` callers release what they acquired once (drivers do so in `finally`).
* In `driver_sessions` a connection has one caller at a time, which is what `OneOwner` of the pool
  gives, and promise continuations run before the next socket callback.
* In `driver_sessions` the cuts in `Torn` are excluded from `OwnAnswers` and only from it; they are,
  for PostgreSQL, inside a message and between the messages of the startup; for MySQL, between the packets
  of one result; for Redis, inside a value; for MongoDB, none. `Misread` lists the answers that a driver
  reports wrongly even when it reads them whole.
* `CallsEnd` leaves out a PostgreSQL `connect()` that is asked for SASL (`auth.ts:37`), which waits for ever in
  the model as in the code, and the calls of a reader that is lost. `OneAnswerEach` leaves out what such
  calls are told ("garbled").

### Fairness

Weak fairness only, and only for what the event loop does by itself: a queued microtask
and the continuation of a settled promise run (`EnterProcess`, `Settle`), a sleep ends
(`CallAgain`), a callback that waits for none of its own calls returns
(`CallbackEnds`), `closeBunQL` goes on after the drain, time passes in `acquire()`
(`DeadlinePasses`, `GivesUp`). Nobody is obliged to call anything. In `connection_pool`, `connect()` and
the use of a connection are *not* assumed to end: the code puts no deadline on them. In
`driver_sessions` the network delivers what the server sent, in any chunks (`Receive`), and a
socket that reported an error is then closed (`Dies`), as the runtime does. What a lost reader makes of the
bytes (`Misreads`) has no fairness.

## What is proved

All proofs are for arbitrary constants satisfying the named assumptions: `NoOp` and `None` are no
call, connection, text or statement; the pool has finitely many callers and a positive `MaxSize`
(`PoolAssumption`), the cache a positive `MaxSize` (`StatementsAssumption`; its sets may be infinite); the kinds of
calls of the facade are disjoint, and the one drainer of its queue is `close()` (`DbAssumption`). How many
calls there are, how deep they nest and how often they are retried is left open.

* **`WriteQueue_proofs`**: `Safety => []TypeOK`, `[]OneProcessLoop`,
  `[]HeldExactlyOnce`, `[]DrainMeansSettled`. The inductive invariant adds to these
  `OwedIsPending` (what a drainer is owed is still pending): without it the finishing
  step could resolve a drain whose debt is an operation that was already settled, and
  nothing would say the debt is empty when the queue is. `ImplementsSerialExecutor` proves `Safety =>
  Executor!ExecSafety` under the refinement `backlog <- Backlog` (the item in execution
  followed by the waiting ones): enqueue is `Submit` or `Refuse`, settling is `Serve`,
  `clearPending` is `CancelWaiting`, which also covers an item whose microtask has not run;
  everything else stutters.
* **`TransactionManager_proofs`** begins with lemmas on the operators of `SqliteConnection`. `Sound` says
  that the frames of the stack have increasing names, all given by the manager, that the first is the transaction's, that no
  row is in two frames, and that every row was written; each operation keeps it, and a lemma per operation says which rows are then durable, open, or
  from a given frame upwards (`RowsFrom`).
* About the manager it proves, with any callers and faults, `[]TypeOK` and `[]NoTransactionLeaks`; when
  `~Outsiders`, `[]AllOrNothing` and the action property `CommitsOneTransaction`: the rows that a step makes durable are
  all of calls inside (`inside`) the one queued call that ends there. The first two come from
  `BaseInv`, which joins the queue's inductive invariant to what manager, queue and connection know of each other: the item in
  execution is the one call that has begun (`CurrentIsStarted`), the two flags say whether there is one (`ManagerKnows`), and a
  connection in a transaction has an owner unless COMMIT was refused (`ConnectionFollows`). The others need
  more. `NestingInv`: the callbacks in progress are one chain by `inside`, in the order of the savepoints, and
  each has its frame. `RowsInv`: from the frame of a callback upwards are the rows of the calls
  inside it that have not failed. `NoTransactionLeaks` does not imply that: a RELEASE or ROLLBACK TO with the wrong name
  would move rows between callbacks without leaving anything open.
* **`BunQL_proofs`**: with any callers, locks and faults, `[]DbTypeOK`, `[]NoTransactionLeaks`,
  `[]AppliedOnce`, `NoItemStartsAfterClose`; when `~Outsiders`, `[]WritesAllOrNothing` and `[]ClosedWhenQuiet`.
  Every operation of the facade is shown to keep `BaseInv`: most are an item that the queue starts and settles in one
  segment, with an effect on the connection alone (`ItemStarts`, `ItemEnds`). `FacadeInv` adds what `close()` has done
  (`CloserInv`), and how attempts and answers go together (`LocksInv`): attempts are made in order, each after a busy
  one (`AttemptsInOrder`), and a batch or an exec is never answered busy (`BusyKinds`). `AppliedOnce` needs in addition
  `OnceInv`, while no COMMIT or afterTransaction hook failed: the row of a callback in progress is in the frame of its savepoint or above it
  (`RowsAreAbove`), so that undoing the attempt undoes it, and a busy attempt has no row on the connection
  (`BusyLeavesNothing`). It holds with `Outsiders` too, when nothing else about atomicity does. `RowsInv` is parametrised by the calls left
  out (the execs, which promise no atomicity) and by the faults it allows for, so that the facade uses the
  proofs of the manager's callbacks again. The two properties keep the guards that they have in the runs, because the code breaks them
  otherwise: nothing is said once a COMMIT or an afterTransaction hook failed (`failed`), nor once a retried
  transaction has joined another (`NoRetryJoined`, disagreement 2); `ClosedWhenQuiet` drops only its last part
  then. `ExecIsAlone` says that an exec is inside no callback; otherwise leaving its rows
  out would leave them out of a transaction's frame too.
* **`Statements_proofs`**: `[]TypeOK`, `[]CachedAreLive`, `[]OnlyStraysAreUnowned` and the action property `RecentStaysUsable`.
  The invariants and three facts are the inductive invariant: a statement that a context
  prepared is not in the cache (`ContextsApart`), without which the end of a transaction could finalize a
  cached one; an object's statement is of its text (`WrapperTexts`); and the cache keeps its texts by their last `get()` (`OrderIsRecency`). The
  last theorem counts: a text that is evicted has `MaxSize` others behind it in `order`, all got since.
* **`ConnectionPool_proofs`**: `[]TypeOK`, `[]OneOwner`, `[]ActiveIsHonest`,
  `[]SequentialOpensRespectMax`, `[]OnlyRefusedAreForgotten`, and the action property
  `HandedOverConnected`. The invariants support each other (the count of users needs
  that a caller has a connection exactly while it opens or uses one; the bound needs the
  count), so their conjunction is the inductive invariant. Counting is by cardinality of
  the finite set of callers in a state (`CallersAreCounted`, `CallerMoves`).
* **`DriverSessions_proofs`**: `[]TypeOK` and `[]OneAnswerEach` for the four drivers, with any number of calls
  and any cut of the stream, from no assumption on the constants. `OneAnswerEach` is not inductive: the PostgreSQL and MySQL
  readers take every message that has arrived, so what they answer depends on what is unread. `SessionInv` is
  `Session` (types; before `ready` only `connect()` is suspended, afterwards only the last call made; answers come in the
  order of the calls) and `Following`: while the socket is up and the reader is not lost, buffer and net together fit the
  protocol and the suspended call. In PostgreSQL what is unread ends as an answer does; in MySQL the rows that a column count
  announces end within the same answer; in Redis and MongoDB there is exactly one reply, and none without a call.
  A turn of the reader and the request that a turn may send are shown to keep this once per protocol
  (`KeepsUp`, `GoodTurn`), for calls and for chunks alike.
* **`DriverAnswers_proofs`**: `[]OwnAnswers` for the four drivers, with any number of calls and from no assumption on the
  constants. `OwnAnswers` is about what was told; whether the next thing told is right depends on what the
  suspended call has read and on what is still unread, and `Following` says of that only whose it is. `AnswersInv` is
  `SessionInv`, `OwnAnswers` and `Owed`: while no chunk has been cut where the reader cannot bear it, an idle
  connection that is ready has nothing unread, and a suspended call has read the first `j` messages of an answer that the
  server owes it (`Part`) with exactly the others unread (`Pending`). Which answer that is, and what `j` may be, is said
  once per protocol (`PGOwn`, `MySQLOwn`, `RedisOwn`, `MongoOwn`): PostgreSQL's queries, MySQL's `prepare()` and MongoDB's
  replies are read in parts, everything else in one piece. `AnswerArrives` is the lemma about streams: whatever
  prefix of `Pending` has arrived, the messages read are those that come next. The server's answers are described by
  what a reader looks for in them (`PGAnswerTells`, `MySQLAnswerTells`, `RedisReplyTells`, `MongoReplyTells`),
  and a turn of each method either waits with `Owed` kept or has told what `Expected` says (`KeepsOwn`).
  The condition `whole` is needed: with a cut in `Torn` the code breaks the property. `Misread` is
  a restriction of the statement, not of the proof: for those answers the theorem still says whose they are.
  `MongoDBBearsEveryCut` drops the condition for MongoDB, whose reader waits for as many bytes as it needs.
* **`SequenceLemmas`**: what appending, taking the tail or a prefix does to the range of a
  sequence without repetitions.

What is only model-checked: liveness under fairness (the prover has no `ENABLED`); everything about the
parsers and translators (`SameRows`, `BoundInOrder`, `ClausesInOrder`, `OnlyNamedRows` of `Translation`), whose definitions
are recursive over trees, so that what they say is an induction over data. Every other invariant and action
property of the runs is a theorem.

## Disagreements between the code and its documents

Four are runs whose counterexample TLC finds (`findings` in `PROJECT.json`):

1. `tx_commit_fails`: COMMIT is outside the `try` that rolls back (`transaction-manager.ts:99`);
   refused, it leaves the transaction open and the next BEGIN fails (README.md:1126).
2. `db_retry_joins`: after its sleep a retried transaction looks at the manager's flags again and
   may join a transaction it has nothing to do with (README.md:772, 1123).
3. `db_batch_busy`: the errors of batch and exec are wrapped before the retry policy sees them,
   so locks are not retried (README.md:744).
4. `pool_overshoot`: the pool's maximum is tested before `await connect()` and counted after
   (CHANGELOG.md:187).

Others were met while modelling and have no run of their own.

**Facade.** A `transaction()` call from outside a callback, made while one is open, becomes part of
that transaction (README.md:772, 1123; same cause as 2) and may outlive it, its RELEASE then
committing on its own; an `afterTransaction` hook that throws turns a committed transaction into a rejected
promise and, in a nested call, skips ROLLBACK TO (README.md:1127), and if its error is one of a lock the retry policy
runs the committed transaction again; a COMMIT refused by a lock is retried in vain, since it left its transaction open (1) and the next BEGIN is refused; `run()` outside a callback joins
whatever transaction is open (README.md:1137); `close()` rejects the items that wait before it drains,
while CHANGELOG.md:432 says pending writes are not rejected, README.md:790 and 1161 that the queue is drained, and
CHANGELOG.md:306 that they are rejected.

**Statements.** Running a Statement object does not touch the cache's order, so the one used last may be the one
evicted (test/statement-batch.test.ts:26 says "least recently used"); `finalize()` goes by the text and takes
the statement from every other object of that text; a context's `finalize()` leaves the statement in its map, and a context kept after its transaction
prepares statements that nobody finalizes; so do `pragma()`, `walStatus()`, `vacuum()`, `checkpoint()` and
the FTS5 helper, and `close()` finalizes what the cache holds only (README.md:790: "finalizes statements").

**Pools.** A handshake that fails after the socket is up leaves the socket open and out of reach until the
peer closes it; `closeAll()` forgets the connections in use.

**PostgreSQL.** A message cut in two makes the read loop spin on its own put-back, which
gives up with "Query timeout"; `performAuth` keeps the leftover of an earlier chunk, and startup messages in a
later chunk end the first query; an authentication request that is none of Ok, clear text and MD5 (SASL) is
passed over, and `connect()` waits for ever; the field type of an error is never separated from its value, so severity,
code and message are always empty.

**MySQL.** A result is parsed as soon as its first packet is complete, and the rest is read as the answer to the next
query (CHANGELOG.md:120 says fragmentation is handled); a short row with an empty first value
is taken for the end; an error after the first row is reported as a success; a prepared row that begins
with 0x00 and is last is taken for the end; a request to switch the authentication is taken for OK.

**Redis.** An error reply becomes an empty result; SCAN reads its first page; `exec()` sends EXEC alone and
drops the queue, and there is no `rollback()` for the transaction manager to call; an incomplete bulk
string is accepted, and its tail, or the array of a SCAN cut after its cursor, becomes half of the next pipeline's result; `run()` sends the word PIPELINE; an insert writes its first row only; an update or delete
without an equality becomes PING, or DEL of the literal key `t:*`, and with one takes the value of any column for the id;
parameters are ignored, so that their keys are `[object Object]`.

**MongoDB.** Only the first batch of a cursor is read; `writeErrors` are not looked at; an update is sent
without `multi`; no command carries the transaction, which the server therefore never starts.

**Parsers.** What follows a complete statement is not read: `a = 1 + 2` is `a = 1`. INNER JOIN, a
condition in parentheses and `col = ?` are errors (CHANGELOG.md:81 says that `?` is parsed);
arithmetic groups to the right without precedence; `true`, `false` and `null` on the right of a comparison are columns;
`NOT EXISTS` is a negation around EXISTS; a string literal equal to a keyword is taken for it (`a = 'case'` and
`IN ('select')` are refused). In MQL, `$not` reads its operator as a field, `$regex` drops the
operators beside it, a field with an array is `$in`, and a stage that is not known becomes `$limit: 0`.
`project()`, `sort()`, `limit()` and `skip()` of `MqlQuery` write their option into the filter.

**To SQL.** The values of a subquery, of both sides of a UNION and of INSERT … SELECT are bound twice; RETURNING of a
DELETE and the alias of a plain column are dropped; LIKE turns "." into "_", and a pattern that goes to a regular expression
and back gains escapes; a literal column is a placeholder without a value; the numbers of `$n` are given anew in the order of the text,
so that the values of `BETWEEN $2 AND $1` change places; of a query with both parameters and literals or a LIMIT
the values returned are those of the literals only;
a CASE or a literal on the left of a comparison, a value in `$addFields`, and an `$elemMatch` without a
value on MySQL misplace values; DO NOTHING is an empty update on MySQL; two `$match` stages are joined by AND without
parentheses around an `$or`; `_id: "$a"` in `$group` is taken apart into characters; `$sum: 1` sums a field ROOT.

**To MongoDB.** COUNT without GROUP BY makes a `$group` without `_id`, and HAVING or ORDER BY of a function
goes to `_id`; joins without an equation are dropped; a join that neither groups nor has a CASE gives all columns; a correlated subquery compares a field with one of the
same name; SELECT from a subquery cuts before it skips and ignores the outer columns, order and limit; INSERT … SELECT reads
the table that it writes; `<>` and NOT IN select nulls; window functions throw.

## Not modelled

See `components` in `PROJECT.json` for every part and its reason. In short: metrics and
formatting; the values of `pragma` and `serialize`; the delay arithmetic of the retry policy; the maintenance
timer; the cursor of a native statement; the reader pool (synchronous round robin); the bytes inside a
message, BSON, the hashes of the authentications; the characters of a query, which only the lexer sees; the quoting of names;
relations, FTS5, HTTP server, errors and types. `driver/transaction.ts` has no caller in the library, so there is no
behaviour of the program to model; its hazards are listed.

## Plan

Done, in this order: `SerialExecutor`, `WriteQueue` and its proofs; `SqliteConnection`,
`TransactionManager`; `BunQL`; `ConnectionPool` and its proofs; `Statements`; `DriverConnection` and the four
connections; the parsers, the translators and `Translation`.

Every module with a state machine except `Translation` has its theorems.

Next: the maintenance timer and the delay of the retry policy in `BunQL`.
