# A formal model of RuKh

RuKh is an HTTP server library in C++20: one coroutine executor per worker
thread over epoll and io_uring, a thread pool for blocking work, an HTTP layer,
and an asynchronous boundary around SQLite with a small ORM. This directory
holds TLA+ modules that model the parts of it where several actors meet, TLC
configurations that check them on small instances, and TLAPS proofs of what
matters most for every instance.

Paths below are relative to `src/rukh`; `h/` stands for `include/rukh/`.

## 1. Inventory

| part | state it keeps | operations | interacts with |
|---|---|---|---|
| Executor (`src/core/Executor.cpp`, `h/core/Executor.hpp`) | `readyQueue_`, `suspendedTasks_`, `taskDeadlines_`, `writeInterested_`, `poolResumeQueue_`, `pendingFileOps_`, `pendingSpliceOps_` and their preps, `wakeUpQueue_`, `ownedTasks_`, `ownedTaskMap_` | `spawn`, `waitForRead`, `waitForWrite`, `waitForEvent`, `fireEvent`, `wakeMeIn`, `submitFileRead/Write`, `submitSplice`, `post`, `unregister`, `run` | epoll and io_uring, coroutines through awaitables, pool threads through `post()` and an eventfd |
| Thread pool (`h/pool`) | `jobQueue_`, `shutdown_`, per job `PoolJobState` (`done`, `result`, `exception`, `caller`, `callerSetOrJobComplete`) | `submit`, `fireAndForget`, `workerLoop`, `runJob`, `await_ready/suspend/resume`, destructor | executor (`post`) |
| AsyncPool (`h/core/AsyncPool.hpp`) | `available_`, `waiters_` | `acquire`, `release` | executor of each waiter, database |
| SQLite (`h/db`) | pool of connections, per transaction `conn_`, `ended_` | `executeQuery`, `acquireTransaction`, `begin`, `commit`, `rollback`, `abandon`, destructors | AsyncPool, thread pool |
| PipePool (`src/core/PipePool.cpp`) | `freePipes_`, `waiters_`, `created_` | `acquire`, `release`, `discard` | `TcpStream::sendFileSplice`, executor events |
| Streams (`src/net`) | socket, TLS state | `send`, `receive`, `sendFile`, handshake | executor, pipe pool |
| Server (`src/http/HttpServer.cpp`) | listeners, `globalConnectionCount_`, worker threads | `run`, `workerMain`, `tcpAcceptLoop`, `tlsAcceptLoop`, `handleConnection` | executor |
| HTTP connection (`h/http/HttpConnection.hpp`, `h/net/ConnectionIO.hpp`) | read and write buffer, request, keep-alive | request loop, body set-up, three kinds of response | streams, router |
| Request body (`BodyStream`, `ChunkDecoder`, `MultipartParser`) | decoder state, what is left; the parser's buffer, the part at hand, `partCount`, handlers by name | `read`, `readAll`, `feed`, `parse` | ConnectionIO, handlers |
| Requests and responses (`src/http/Http*.cpp`) | headers, query, cookies, path parameters, body | parse, serialize, `reset` | connection |
| Router (`src/http/Router.cpp`) | tree of routes, middleware chain | `addRoute`, `findMatchingRouteEntry`, `dispatch` | handlers, middlewares, `ErrorFactory` |
| Static files, caches (`StaticMiddleware`, `FileCache`, `MmapCache`, `AsyncFileReader`) | per thread a cache of open files; on disk the compressed files, shared by all | `lookupOrOpen`, `lookupOrBuildCompressed`, validation, `nextBlock` of multipart answers | file operations, compressors |
| Sessions (`SessionMiddleware`, `SessionHandle`, `InMemorySessionStore`) | sessions by id; per request a copy with `dirty` and `invalid` | `load`, `save`, `destroy` | requests on all threads |
| Compression, CORS, cache control | none to speak of | rewrite a response | each other, through the response |
| ORM (`h/orm`) | per query the clauses and parameters; per object `persisted_`; per relation a through table | builder calls and `build`, `save`, `insert`, `update`, `upsert`, `destroy`, `getOneOrCreate`, `addRelation`, `removeRelation`, `manyRelated` | database |

Where it is hard:

* **Interleavings.** A pool thread finishes a job while the coroutine is on its
  way into suspension (`PoolJob.hpp:52` against `PoolJobAwaitable.hpp:66`); a
  post arrives between the read of the eventfd and the drain of the queue;
  `notify_one()` and `AsyncPool::release()` act after they have unlocked.
* **Staleness.** Deadlines outlive the suspension they were set for, fd numbers
  are reused, event keys outlive their waiters, epoll reports an edge once.
* **Limits.** A full job queue, a full submission ring, an empty connection
  pool, the last pipe.
* **Failure of one step of several.** COMMIT fails, a splice fails half-way, a
  transaction object dies with its transaction open.
* **Framing.** What the handler leaves of a body, segments that end anywhere and
  requests sent ahead must never shift the place where the next request is read.
* **Read, await, write.** `exists()` and the upsert after it, the look-up and the
  insert of `getOneOrCreate()`, a session that is loaded, changed and saved as a
  whole, a cache that is looked into before and filled after a file is read: what
  was read may be stale when it is used.
* **Order of independent things.** Parameters collected apart from their
  placeholders, ranges that overlap, routes that overlap, middlewares that edit
  one response.
* **Reuse.** One request object serves all requests of a connection, one builder
  several statements.
* **Progress.** Every suspension must end and `run()` must return after a
  shutdown, whatever coroutines still wait for.

`PROJECT.json` lists each hazard at its line with the properties about it.

## 2. Modules

| module | models | kind |
|---|---|---|
| `Executor` | the event loop of one worker thread with its accept loop and connections | component |
| `ThreadPool` | `ThreadPool`, `PoolJob`, `PoolJobAwaitable`, `PoolJobState` | component |
| `Future` | what `submit()` promises a coroutine | abstract specification |
| `ThreadPoolProofs`, `AsyncPoolProofs`, `Sqlite3DbProofs`, `PipePoolProofs`, `ActiveRecordProofs`, `ExecutorProofs`, `HttpConnectionProofs` | theorems about the module each is named after | proofs |
| `MiddlewareProofs` | theorems about `StaticFiles` and `Sessions` | proofs |
| `AsyncPool` | the pool of connections; also the abstract specification of its proper use | component |
| `Sqlite3Db` | queries and transactions, composed with `AsyncPool` | component, composition |
| `Sqlite3DbLimits` | what the database is opened with and how it is used: the constants of `Sqlite3Db` | constants |
| `PipePool` | the pipe pool and the splice loop that uses it | component |
| `HttpConnection` | `HttpConnection::run` with `ConnectionIO`, `BodyStream` and `ChunkDecoder`, and the client | component, composition |
| `ActiveRecord` | objects that stand for rows, and many-to-many relations, used by several coroutines | component |
| `OrmQuery` | the query builders: predicates, clauses, placeholders and parameters | component |
| `StaticFiles` | `StaticMiddleware`, `FileCache`, the file readers, ranges and conditions | component |
| `Routing` | the request object, the route tree, `dispatch` and the middlewares | component |
| `Sessions` | the session store and the requests that use it | component |
| `Multipart` | `MultipartParser` and its buffered reader | component |
| `MCExecutor`, `MCSqlite3Db`, `MCHttpConnection` | constants and symmetries for TLC | instances |
| `MCPools` | `ThreadPool` and `Sqlite3Db`, one pool to a behaviour | instance |
| `MCDatabase` | `ActiveRecord`, `OrmQuery` and `Sqlite3Db`, one layer to a behaviour | instance |
| `MCWeb` | `PipePool`, `StaticFiles`, `Routing`, `Sessions` and `Multipart`, one scene to a behaviour | instance |

Variables are named after the fields they model, without the trailing
underscore. A definition marked *seeded fault* is not part of a model: it is the
definition below it with a plausible mistake, and it documents which mistake the
properties notice.

### Executor

One action per call a coroutine makes (`ReadOrSuspend`, `WaitForEvent`,
`SubmitOp`, ...), one per phase of `run()` (`TopOfLoop`, `Resume`, `EpollWait`,
`HandleEvent`, `ReadEventFd`, `DrainPoolResumeQueue`, `SweepDeadline`,
`EndOfTurn`), and one per step of the others: pool threads (`PostPush` under the
lock, `PostSignal` after it), peers, the kernel's completions, time. A coroutine
is what it does between two suspensions; which suspensions it uses is the
`workload`, chosen once from the constant `Workloads`.

`TopOfLoop` is the shutdown test and the drain of the completion queue,
`EndOfTurn` the preparation and submission of operations and the wake-up slot of
the turn. Epoll is modelled as far as the code depends on it: an interest mask
and a level per fd, and a ready list that an fd enters when something it waits
for happens, or when `epoll_ctl` finds it ready. Deadlines are kept as the time
left, and the three counters only as "a number not in use", so that behaviours
may be infinite and states finite.

### ThreadPool and Future

The submitter of a job and the worker that runs it are separate processes over
`PoolJobState`. The steps are those the memory operations separate: `done`, the
exchange and the post in `runJob()`; `caller` and the exchange in
`await_suspend()`. `enqueue()` is one step under the lock, its `notify_one()`
another. The atomics are sequentially consistent in the code, hence
interleaving is the right semantics.

`Future` is the promise: accepted or rejected once, completed once, the awaiter
goes on once and afterwards. `ThreadPool!ImplementsFuture` maps `status` to the
state of the submitter and `done`, and `awaiter` to whether the coroutine is in
`co_await`.

### AsyncPool and Sqlite3Db

`acquire()` holds the mutex until the waiter is registered, hence one step;
`release()` hands over after the unlock, hence two. `Sqlite3Db` instantiates
`AsyncPool`, uses its actions as its own steps and is shown to implement its
specification, with "what a client holds" mapped to the connections of the
coroutine's query and transaction and of its `abandonFn` job. The thread pool
appears as what `Future` promises, so that the two are composed through the
abstract specification. `UsesPoolProperly` states the refinement together with
the pool's own promises, `Conservation` (no item lost or doubled) and
`NoIdleItem` (none idle past a waiter).

### PipePool

Everything runs on one thread; a step is what a coroutine does between two
suspensions. Waiters are event keys as in the code, so that a key may outlive
its waiter. `calm` is chosen once: in a calm behaviour no wait times out and
`pipe2()` works.

### HttpConnection

One connection and its client. What the client will ever send is a sequence of
*units*: a line of a head, its end, a chunk-size line, a trailer line, a bare
CRLF, one unit of a body. The client puts them on the wire one after the other,
waiting for the answers or not (`pipelined`), and may stop or close anywhere;
each read takes what has arrived, up to its limits. So every way to cut the
bytes into segments at unit boundaries is covered. `readBuffer_` from
`readOffset_` on is `stream[pos + 1 .. taken]`, followed by `zeros` units of room
that `drainIntoReadBuffer()` does not give back at the end of the stream.

`conn` is the coroutine's frame: `pc` is the place in `run()`, then the members
(`keepAlive`, the body stream, the decoder, the read in progress, the answer)
and a few facts about the past that only the properties use. There is one
action per stretch of `run()` between two labels, with every early return.
`ReadSuspends` and `ReadOutcomes` are `co_await io_.read(...)`, `Write` is the write
loop, with their suspension and the `tl_timed_out` they look at. A handler calls `read()` with small and large buffers, `readAll()`, or
nothing, in any order, then returns one of seven kinds of answer or throws.
Application code may have suspended meanwhile (`WaitedOrNot`), which clears
`tl_timed_out`. Of an answer the model keeps its status, whether it announces a
close and whether all of it went out. A file that is neither cached nor above
`FILE_BUFFERING_THRESHOLD` goes out with none of them (`Headless`, `NoHead`):
that branch does not serialize the header.

What a client is, is an assumption on the constant (`ClientsAreClients`, evaluated
by TLC for the clients of the runs): its stream is the messages of its requests
one after the other, each with the body its head announces (`IsMessage`), or with
a chunked body that is broken from the start.

`conn.cause` is the set of those steps, of three in the code, that have made this
connection lose sight of where the next request begins: `readFn` copies `buf.size()`
units though fewer remain (`HttpConnection.hpp:299`, `"overread"`), `readFn` returns 0
after a wake-up that brought nothing (`:323`, `"shortRead"`), and the search for the
end of the trailers, begun before the final CRLF came, runs into the next request
(`ChunkDecoder.hpp:109`, `"trailer"`). `"astray"` joins them when `run()` then takes
something else for a head. They happen in the model as in the code; the properties
about framing say that there is no other way.

### ActiveRecord

A behaviour either works on records or on one relation. A row has an id that is
never used again, a unique key and a foreign key to its own table; an object is
its fields and `persisted_`. `SaveInserts`, `SaveUpdates`, `UpsertInserts`,
`UpsertUpdates`, `Destroy`, `Reload`, `BulkUpdate` and `BulkDestroy` are one
statement each. `getOneOrCreate()` is up to three (`GetOneOrCreate`, `Create`,
`CreateRetry`), `addRelation()` and `upsertRelationThrough()` up to two
(`AddRelationExists`, `AddRelationUpsert`, `ThroughExists`, `ThroughUpsert`), and
others may run in between. `StatementFails` is an error of the database at any
of them. The trigger that `DB_DOUBLE_ROW` relies on belongs to the database and is
modelled by what `Relations.hpp` asks of it. Nothing keeps an object from being
related to itself. `raced` records that a pair's rows changed between `exists()` and
the upsert; `watched` what has become of the row that a running `getOneOrCreate()`
did not find: still `"absent"`, `"came"`, or `"gone"` again.

### OrmQuery

SQL text is abstracted twice. For the parameters, a text is the sequence of the
values the caller meant at each `?`: `Build`, `ResolvePredicates` and the statement
builders produce that sequence and, by the code's own route, the parameters. For
the meaning, the WHERE clause is the terms, operators and parentheses that
`buildInto()` writes (`Condition`, `Joined`, `Parenthesised`), as far as the statement
contains it (`Statement`); `Holds` reads it by the precedence of SQL. The custom text
among the predicates is `a OR b`.
Each action is one builder call or the execution; a second query, prepared in
several ways, serves as subquery, CTE or operand of a set operation. `lossy`
records the one place where the code drops parameters: the CTEs of a compound
query (`SelectQuery.hpp:480`).

### StaticFiles

One file whose versions follow each other (`ReplaceFile`). A coroutine goes
through `lookupOrOpen` (`LookupHit`, `LookupFails`, `LookupOpens`, `StatSize`,
`LastWriteTime`, `ReadInto`: the file may be replaced between `open()` and the two
questions by path, and `since` keeps the version there was at `open()`),
the choice of an encoding, `lookupOrBuildCompressed` (`PackedHit`,
`ReadAndCompress`, `Rename`, `OpenPacked`), `Validate` (conditions, ranges,
status, announced length) and, for several ranges, the block-wise stream
(`NextBlock`, `CloseParts`, `ReadPastRanges`). Coroutines of one thread take
turns only where the code suspends; threads share the file system and nothing
else. Content carries its version, its encoding and whether the bytes are the
file's: `ReadAndResized` is what the readers' `resize()` makes of them. A field
`by`, which no action reads, records the thread that compressed it.

### Routing

`AddRoute` registers patterns, `Serve` opens the server, `Arrive` parses a head
into the request object that the connection reuses, `Dispatch` finds a route and
runs the chain, `NextRequest` resets the object. The tree is a function from
paths of edges to nodes and `Backtrack` is the recursive search. A middleware is
a function of the request and of what `next()` returned, folded over the order of
registration; `ran` says of a response that the handler has run, which may have changed the session.

### Sessions

Requests of any thread load, change and save a copy of their session. `FindExpired`
and `EraseExpired` are the two critical sections of `load()`, between which the
lock is released. `serial` is what the session would hold if the requests had
come one by one; `raced` are the ids whose entry was replaced or removed by
somebody who had not seen its last change.

### Multipart

A body is a sequence of symbols, and every read takes any number of them that
fits. The parser's phases are the actions: `FirstRead`, `ReadHead`, `PassOn`,
`EndOfPart`, `LoopEnds`, and so on. Two outcomes are not answers: `spins` is the loop that
reads nothing any more (`MultipartParser.hpp:271`), `crash` the call of a handler
that was moved from, or a move of memory by a size that wrapped around. `starved` records that `span.size() - fullBoundarySize`
wrapped around (`:98`).

## 3. Runs

| run | instance | shows |
|---|---|---|
| `executor_safety` | accept loop and two connections, six workloads | each handle is in exactly one place, so that a suspension is resumed once and never lost (`OneHolder`); timeouts are those of the suspension at hand (`TimeoutIsGenuine`); no edge (`NoLostReadiness`) and no post (`PostedIsSignalled`) is lost; the tables agree: `ownedTaskMap_` inverts `ownedTasks_`, `writeInterested_` is what the kernel has, completions find their coroutine (`TablesAgree`) |
| `executor_liveness` | one connection with reads, file operations, pool jobs | every suspension ends (`SuspensionsEnd`); `run()` returns after the flag (`ShutdownReturns`) |
| `executor_wakein` | wheel of three slots | **violation**: a slot is never cleared, and a null handle is resumed one revolution later |
| `pools` | threads: 2 jobs, 2 workers, queue of 1; connections: 1 connection, 3 coroutines, queries may find the job queue full | of the threads the handshake (`PostedOnce`, `ResultBeforeResume`), the condition variable (`NoSleepOnWork`), the destructor (`DestructorDrains`), and the refinement of `Future` without and with fairness; the database gives back what it holds exactly once (`UsesPoolProperly`, a refinement), and waiters are served (`ClientsServed`) |
| `database` | two coroutines with objects of two rows or one relation of each mode; every sequence of up to three builder calls on each kind of statement; three coroutines on two connections | `persisted_` follows the row (`PersistedTracksRow`); `getOneOrCreate()` throws only when its row was stored and removed again while it ran (`ThrowsWhenOvertaken`); relations keep the storage rule of their mode (`SymmetryKept`) and look the same from both ends (`EndsAgree`); each `?` gets the value meant for it (`PlaceholdersBound`); the WHERE clause of the statement sent means what the calls said and no `UPDATE` or `DELETE` goes without one (`WhereMeansTheCalls`, two exceptions below); one thread at a time on a connection (`NotTouchedByTwo`); none back in the pool with a transaction open (`PooledAreClean`) |
| `sqlite_abandon` | 1 connection, 2 coroutines that also call `abandon()` | **violation**: the destructor releases a connection its `abandonFn` still uses |
| `http_connection` | four keep-alive conversations of two requests, pipelined or not, 19 single requests at and over the limits or malformed, three TLS clients, one of them pipelining | the next head is looked for where the next request begins (`FramingKept`); answers come once and in order, none after one that was cut short or said `close` (`AnswersInOrder`); handlers get the bytes of their own body, all and only those (`BodyDelivered`); a complete request is not waited for (`WaitsForTheMissing`); no hang-up without a word on a client that did nothing wrong (`NoSilentHangUp`); the close waits for the client (`LingersBeforeClose`); every connection ends (`ConnectionsEnd`) |
| `http_small_file` | the clients of `http_connection` | **violation**: a small file that is not cached is sent without status line and header |
| `http_tls_body` | a TLS client with a body of two units | **violation**: part of a TLS record makes the body look fully read |
| `web` | pipes: 4 coroutines, 2 pipes; files: two coroutines of one thread or of two while the file is replaced, and several thousand single requests; routes: every set of up to three of 14 patterns with every short path, a site with all kinds of answers, connections of three requests; sessions: overlapping requests, two ids; forms of up to three parts | no pipe leaks, is shared, or is reused with data in it (`PipesAccounted`), no wake-up is lost while waits do not time out (`NoStrandedWaiter`); a descriptor is open, of the encoding its tag names and of the version there was when it was opened, which is that of the tag unless the file was replaced just then (`DescriptorsMatch`); ranges are served as asked and as announced (`RangesServed`, four exceptions); the most specific route is found (`RouteChosen`); nothing of a request is left for the next (`RequestIsFresh`); the order of the middlewares shows in one kind of answer only (`OrderShowsOnlyInRefusals`); sessions are serial unless requests overlap (`SessionsSerial`); forms are delivered whole however they are cut into reads (`PartsDelivered`) |
| `files_bytes` | the instance of `web` | **violation**: files that were read are served as zeros |
| `orm_mirror` | the instance of `database` | **violation**: one end of a `SINGLE_ROW` relation does not see it |

Deadlock checking is off: servers may be idle, pools may be destroyed and a list
of requests comes to its end, and the temporal properties state what must not get stuck.

### The six disagreements

* `executor_wakein`. `Executor::run()` walks `wakeUpQueue_[wakeTime_ %
  MAX_WAKEUP_TURN]` and leaves the keys there. At the next visit
  `suspendedTasks_[wakeKey]` creates an empty entry and its null handle is put
  on the ready queue. The header says the call will "wake the coroutine in
  `cycles` of the event loops".
* `sqlite_abandon`. `ScopedTransaction::abandon()` leaves the connection to
  `abandonFn` and marks the transaction ended; `~ScopedTransaction()` takes
  "ended" for "committed or rolled back" and releases the connection too.
  `features.md` promises "a guarantee that a connection is not touched by two
  threads simultaneously".
* `http_tls_body`. A socket that becomes readable with part of a TLS record makes
  `ReadDataAwaitable::await_resume()` return `WOULD_BLOCK`, the one result `readFn`
  does not handle: it returns 0 and `BodyStream::read()` sets `exhausted_`.
  `isExhausted()` is documented as "Stream has been fully read".
* `http_small_file`. An `HttpFileResponse` is sent in one of three ways. Content from
  the cache (`HttpConnection.hpp:532`) and large files (`:568`) begin with
  `serializeHeaderInto()`; a file that is neither (`:547-564`) is read into the write
  buffer and sent as it is. The client gets bytes without status line, length or
  `connection` header, and the connection is kept alive, or closed without a word.
  `README.md` lists `HttpFileResponse` "for file responses" of an HTTP/1.1 server, and
  "buffered reads with caching for small files".
* `files_bytes`. `readAll()`, `readAllInto()` and `readChunk()` of
  `AsyncFileReader.hpp` reserve a buffer, read beyond its size of 0 and then
  `resize()` it, which fills it with zeros. Their comment promises "A string with
  the contents of the file".
* `orm_mirror`. `manyRelated()` adds a second condition for relations stored the
  other way round and builds it from the same sides again
  (`ActiveRecord.hpp:486`). `Relations.hpp` says that "The ORM queries the mirrored
  relation at read time."

A seventh is stated by a property of a passing run. `middlewares.hpp:44` says "Order
doesn't matter after this" of the three middlewares behind the static files.
`CompressionMiddleware.cpp:69-73` puts a new 406 in the place of a response whose client
accepts neither a coding the server has nor the plain body, and with it goes the
`Set-Cookie` of a session that was changed; with `SessionMiddleware` outside, the cookie
is sent. `OrderShowsOnlyInRefusals` says that this happens, and that no other response
depends on the order.

### What the models do that a reader may not expect

These are behaviours of the code. They are in the models, and where a property
would meet one it names it as its exception.

`HttpConnection`: the over-read and the split trailer above; the small file without a
head, and with it a close that is not announced;
`drain()` outside the `try` block, so that a 400 or 413 already built for a body
is not sent when draining the same body throws; a body of exactly
`MAX_CONTENT_LENGTH` that nobody reads; `Expect: 100-continue` with a chunked
body; a `close` asked for by the client, announced and not carried out; and
`sendFile()`, which ignores its deadline.

`StaticFiles`: a cached entry is never refreshed; two threads that have opened
different versions share the path of the compressed file, so that one may open
the other's and keep it under its own tag; a file that is replaced between `open()`
(`StaticMiddleware.cpp:107`) and `file_size()` or `last_write_time()` (`:113`, `:114`) is
kept with the old contents, the new tag and either length
(these two are the exceptions in `Genuine`); the last block of a part goes missing when it is
one byte (`LastByteLost`); the call after the closing delimiter reads a range that
does not exist (`ReadPastRanges`); several ranges are streamed although `If-Range` failed, as a
206 with the length of the whole file (`:323`, `:346`, `:375`). The exceptions of
`RangesServed` are the last three and a file replaced while it was opened.

`Routing`: a node that only begins a longer pattern hides less specific routes;
`addRoute()` rejects a duplicate after it has made the nodes; the parameter names
of a node are those of the last method registered; `HEAD` on a file response
throws (`Router.cpp:74`); the 406 of the compression drops a session's cookie; a cache-control pattern that ends in a literal matches
only when it is written with a trailing slash.

`Sessions`: a loaded copy counts as dirty, so that every request writes back; an
update of overlapping requests is lost; `load()` may erase a session that was
saved after it was found expired.

`Multipart`: data that looks like the boundary hides the real one; a second file
of one name meets a handler that was moved from; a cut body leaves the parser in
a loop; a piece that ends just behind a head makes a small part too large.

`OrmQuery` and `ActiveRecord`: `where()` on a compound query (`SelectQuery.hpp:464`) and
`having()` without `groupBy()` have no effect; a custom text that contains an OR is joined
by AND without parentheses (`Predicate.hpp:642`); `getOneOrCreate()` throws when the row
that kept it from inserting is removed before it looks again; CTE parameters of a compound query are lost;
`addRelation()` under the reciprocal name stores the forward direction; two
coroutines that relate a pair from both ends may store `SINGLE_ROW` twice.

### Bounds

* `MaxDeadlines = 2`: peers pause while a socket has two deadlines queued, that
  is one of the present suspension and a stale one; coroutines start no further
  event wait while two are queued. A stale deadline next to a current one, on
  the same fd and across a reconnection, is the case the code has to get right.
* Timeouts and the grace period are one unit: a stale deadline may expire
  before, with or after the one that replaced it.
* A ring of one entry makes both kinds of operation overflow; a wheel of two
  slots makes it wrap in the safety run.
* Two connections are enough for "another one in between": two posts at once,
  the removal of a task that is not the last, an event fired by somebody else.
  Socket behaviour is per fd and is checked for one connection that returns.
* The pools are at their limit with one or two items and more clients than
  that; the queue of the thread pool fills with its second job. In `pools` the pool that
  is not looked at is at rest: no connection is asked for, or the threads are joined.
* `ActiveRecord`: two coroutines, two rows, two keys and two related objects: one
  to change what the other has read. `OrmQuery`: three calls, so that each clause
  has one before and one after it; one column for each way to generate and update
  values.
* `StaticFiles`: the races are between two coroutines, of one thread (both compress the
  file, or one asks for the file as it is first) and of two; a third adds no kind of step
  between two of one coroutine. Versions of 1, 6 and 5 units are below and above the limits of
  the content cache (2) and of compression (4) and shrink once; a part of six
  units is two blocks of three; every pair of ranges with bounds up to the length
  is tried, and triples that are out of order.
* `Routing`: patterns and paths of at most three parts, where the three kinds of
  edges can meet at each level; three requests on a connection.
* `Sessions`: one key, two ids, a lifetime of 0 and a clock to 2: expired, fresh
  and re-created entries meet. `Multipart`: a buffer of five symbols, less than a
  part; limits of seven, met exactly, and two parts; bodies cut by up to three
  symbols, the length of a full boundary.
* `PipePool`: `MaxKey` bounds the waits of a behaviour; `FileSize` is a chunk
  and a half, so that a response takes one or two rounds.
* `Sqlite3Db`: one `abandonFn` of a coroutine at a time.
* `HttpConnection`: the limits keep the order of the real ones (a single read
  below the head limit, that below the content limit; a chunk below the total),
  each a few units, and clients stay below, at and above each. The scratch
  buffer (4) is larger than a single read (3) and than some bodies, handler
  buffers are smaller and larger than bodies. `MaxPartials = 2` allows an
  incomplete record in the handshake and one in the body; `MaxChunks = 1` a
  streamed answer with and without a chunk; `Word = 64` lets `remaining_` wrap.

### Fairness

* Executor: the loop's own steps; a resumed coroutine suspends or ends after
  finitely many calls (coroutines are not preempted, so the loop depends on it
  anyway); pool jobs, posts and file operations finish; time passes (strong
  fairness, because time stands still during a sweep). Peers owe nothing.
* Thread pool: threads are scheduled, callables return, executors resume what
  was posted. Nobody has to submit or await, and no spurious wake-up is owed.
* AsyncPool and Sqlite3Db: a coroutine leaves the scope of its transaction sooner or later,
  however many calls it makes (strong fairness, as calls interrupt it).
* HttpConnection: weak fairness of the server's steps taken together; each wait
  has a deadline, so that one of them is always possible. Handlers return after
  finitely many reads, which a body of bounded size implies. The client owes
  nothing.

## 4. Proofs

Each module of proofs extends the component's own module (`MiddlewareProofs`, which
has two, extends `StaticFiles` and has `Sessions` as the instance `S`), states the inductive
invariant as a conjunction of named parts, has one lemma per action or kind of
action, and ends in the theorems. Where a component has an `ASSUME`, that is all
the proofs assume of the constants; hypotheses beyond it are named below. Bounds
of the runs are not among them: the theorems hold for any number of coroutines,
connections, pipes, rows, requests and so on. TLC has checked the inductive
invariants too, on instances of the size of the runs.

| module | theorem | states |
|---|---|---|
| `ThreadPoolProofs` | `TypeCorrect` | `[]TypeOK`, the bound on the queue included |
| | `PostsOnce` | `[]PostedOnce` |
| | `ResultsArrive` | `[]ResultBeforeResume` |
| | `DestructorRunsAll` | `[]DestructorDrains` |
| | `NoLostWakeup` | `[]NoSleepOnWork` |
| | `Refinement` | `Spec => ImplementsFuture` |
| `AsyncPoolProofs` | `Conserves` | `[]Conservation` |
| | `NothingIdle` | `[]NoIdleItem` |
| `Sqlite3DbProofs` | `OneThreadAtATime` | `[]NotTouchedByTwo` |
| | `NobodyInherits` | `[]PooledAreClean` |
| | `ImplementsPool` | `Spec => UsesPoolProperly` |
| `PipePoolProofs` | `NoPipeLeaks` | `[]PipesAccounted` |
| | `NobodyStranded` | `[]NoStrandedWaiter` |
| `ActiveRecordProofs` | `PersistedIsTrue` | `[]PersistedTracksRow` |
| | `ThrowsAreExplained` | `[]ThrowsWhenOvertaken` |
| | `SymmetryIsKept` | `[]SymmetryKept` |
| | `EndsDoAgree` | `[]EndsAgree` |
| `MiddlewareProofs` | `TagsAreTrue` | `[]DescriptorsMatch` |
| | `SessionsAreSerial` | `[]SessionsSerial` |
| `ExecutorProofs` | `NoPostIsLost` | `[]PostedIsSignalled` |
| | `OneHolderAlways` | `[]OneHolder` |
| | `TimeoutsAreGenuine` | `[]TimeoutIsGenuine` |
| | `NoReadinessIsLost` | `[]NoLostReadiness` |
| | `TablesAlwaysAgree` | `[]TablesAgree` |
| `HttpConnectionProofs` | `ConnectionTyped` | `[]TypeOK`, with `readOffset_` within `readBuffer_` |
| | `KeepAliveFraming` | `[]FramingKept` |
| | `AnswersOrdered` | `[]AnswersInOrder` |
| | `BodiesDelivered` | `[]BodyDelivered` |
| | `NoNeedlessWait` | `[]WaitsForTheMissing` |
| | `HangUpsExplained` | `[]NoSilentHangUp` |
| | `ClosesPolitely` | `[]LingersBeforeClose` |

None of these is inductive alone. What each needs, and why:

**ThreadPool.** `QueueInv` ties queue, workers and phases of jobs together: what
is queued is queued once and has not started, what runs has a worker, and a
worker has exited only after the shutdown flag with an empty queue. It gives
`DestructorDrains`: when all workers have exited, no job can be queued or
running. `Handshake` describes the flag: it is set exactly when the submitter or
the job has exchanged it, so that whoever comes second, and nobody else, posts;
and `posted` is a function of the two program counters. It gives `PostedOnce`
and `ResultBeforeResume`. `NoSleepOnWork` is inductive relative to these, and
the refinement checks each action against `Future` under the mapping.

**AsyncPool** (hypothesis `PoolConstants`: finitely many items, `NoItem` is none
of them, coroutines are clients). `Conservation` counts places, which provers
cannot; the invariant says it kind by kind: an item is `Somewhere`, `Once` in its
kind and at no place of another (`Apart`). `WaitsOnce` is needed because a
hand-over writes the waiter's slot: it must be empty, and nobody else may be
writing it. `NoIdleItem` is preserved because `release()` serves the list first
and `acquire()` joins it only when nothing is free.

**Sqlite3Db.** `Control` says what a coroutine owns while it is where it is;
`OneOwner` and `OwnedOrPooled` that a connection has at most one owner and the pool
none of the owned ones, which is `NotTouchedByTwo`; `Clean` that no transaction is
open on a connection wherever it may go back to the pool from: free, on its way,
in the hands of a query, in a transaction that has ended or whose last statement
succeeded, or in an `abandonFn` job past its rollback. The first two theorems hold
with every optional call and a full queue. They are about `Spec`, in which the
application does not call `abandon()` itself; the run `sqlite_abandon` shows that
it must not. `ImplementsPool` has two hypotheses, `"assign" \notin Calls` and
`"fireAndForget" \notin MeetFullQueue`: moving a transaction over an open one, and
a full queue in the destructor, drop a connection, and the pool shrinks. The
refinement is step by step, uses the theorems of `AsyncPoolProofs` under the
mapping, and needs one fact more (`Fresh`: who waits for a transaction has none).

**PipePool.** `Owned` is `PipesAccounted` without counting. `NoStrandedWaiter` is
the harder one: "somebody is woken whenever a pipe is to be had" is not preserved
when the woken one takes the pipe while another has come back. `Matched` counts:
while somebody is suspended, at least as many are woken as pipes are to be had.
`Listed` makes a wake-up reach somebody: in a calm behaviour each key on the list
is that of a suspended coroutine.

**ActiveRecord.** A behaviour works on records or on one relation. For records:
ids are given in order and never again and an object knows only given ids
(`RecordsOK`), which makes `Tracked` inductive. `Settled` is about `getOneOrCreate()`:
while a coroutine is in it, `watched` agrees with whether its row is there, and it looks
again only after the row has come; so the second look that finds nothing, the one way to
throw, comes after the row has gone. Every step is first shown to be one of
seven kinds (`Moved`).
For relations, `RelationOK` is the storage rule of the mode, in terms of the rows
of the through table; `Awaits` says what a coroutine between the two statements of
`addRelation()` has found, which only `SINGLE_ROW` needs, and then only up to
`raced`.

**StaticFiles** (hypothesis `FileConstants`: the lengths of the versions are
numbers). `Files`: what was opened is still open and is a whole version of the file,
as it is or compressed, with the length that goes with it. `Caches`: so is what every
entry of a cache names, under the key of its encoding. `Frames` says the same of what a
coroutine holds at each point: the source file from the look-up on (`Holds`), which
others may have replaced in the cache meanwhile; and of what it compresses (`Packs`):
the temporary file is of the version in its tag, and between `rename()` and `open()`
what is under the name is still that, or another thread's. The last is where the
scheduling matters: there is no suspension between the two calls, so that no coroutine
of the same thread comes between them. Nothing is ever closed or removed from a cache,
which is why an entry that was found stays good. `Asks` is about the file being opened:
as long as the version it had at `open()` is still the present one, the size found is its
size; this is why tag and length are right unless the file was replaced in between.

**Sessions** (hypothesis `SessionConstants`: ids are positive; 0 is the request
without a cookie). `Copies` is the idea: the copy a request works on is what its
operations make of the serial contents at the time it was loaded, unless the
session changed since. `Fresh` makes this true of a session that is created,
`Control` of one that is not loaded yet.

**Executor.** Four layers.

* *Posts* (`IInv`): `PostedIsSignalled` with `HandledFirst`, that events are left
  over only while they are being handled, so that `epoll_wait()` never overwrites
  the report of the eventfd.
* *Holders* (`Core`): nine places hold handles. `Holding` says that each has a
  coroutine once, no two have the same, and together they have the live ones. A
  step that moves a handle overwrites nothing because keys and numbers of
  operations are fresh (`Keyed`, `Numbered`), because a coroutine suspends on its
  own socket (`OnOwnFd`) and because live coroutines have different ones; and the
  removal of a task swaps the last one into its place, which needs the two tables
  to be inverse (`Owned`). `OneHolder` follows by counting the nine places.
* *Timeouts* (`Timely`, on `Core`): a deadline that carries the number of the present
  suspension is the one its coroutine waits for, with the same time left. Stale
  deadlines, which stay in the queue, have numbers no suspension has.
* *Readiness* (`Watched`, on `Core`): what a suspended coroutine waits for is still
  to be reported once it is there (`Reported`), and the mask asks for it
  (`Registered`). The accept loop is the exception that makes this hard: after a
  timeout it suspends again without trying. Nothing is lost because its edge is
  then still on the ready list (`Unreported`): at the sweep no events are left,
  and there is no `epoll_wait()` before the loop has run. `TablesAgree` follows from
  `Core` and the masks.

**HttpConnection.** For any set of clients that are clients, any limits with
`Word` above `MaxContent` and `MaxTE` (`size_t` holds the limits), and any sizes of
buffers. The invariant has six layers:

* `Base`: types, what the frame holds at each label of `run()` (`Control`), and what
  a wait means (`Waiting`): units that were never received are in the buffer only
  after the client's close and never while `keepAlive_` is on, and a time-out that
  `tl_timed_out` still shows has been recorded.
* `Sequel`: an answer after which another can come is complete and announces no
  close but the client's own; while an answer is on its way, the last one shown is
  that answer, incomplete. `Order`: the request served is the one after those with a
  final answer.
* `Place`: where `readOffset_` is, relative to the request. Before a head it is where
  the next request begins, after it at the end of the head, while answering at the
  end of the request. In between it depends on the body: with a length, what
  `remaining_` says is in front; with chunks, each state of the decoder has its own
  description of what is in front (`AtSize`, `InChunk`, `AtCrlf`, `InTrailer`), and a
  refused body its own (`Stuck`), for `drain()` goes on reading where the handler's
  read threw.
* `Count`: the handler has been fed the units of the body behind `readOffset_`.
  `remaining_` of a chunked body starts at 0 and wraps around, so that it is `Word`
  minus what was fed: it can be 0 again, and exhaust the stream, only past
  `MAX_TE_LENGTH`, which is where `Word > MaxTE` is needed.
* `Quiet`: the three properties of waits and closes.

An answer without a head announces nothing, so that `NoSilentHangUp` has it as a case of
its own, and `Sequel` says only of the other answers that a connection that will not go on
has told the client so (`Told`).

`Place` is what makes the others true: `WaitsForTheMissing` because a wait means that
less is in the buffer than the body still has in front; `NoSilentHangUp` because the
decoder refuses only what is where it thinks it is, so that an exception out of
`drain()` is the request's fault; `AnswersInOrder` because the head found is that of
the next request. Every action is first shown to be one of some thirty kinds of
steps, so that the 16 actions with their early returns are opened once and not once
per layer.

Together the theorems prove every safety property of `executor_safety`,
`pools` and `http_connection`, and those of `database` and `web` that are about
`ActiveRecord`, `Sqlite3Db`, `PipePool` and `Sessions`, and `DescriptorsMatch`.

Some things in the models were changed for the proofs. In `StaticFiles`, the exception
in `DescriptorsMatch` asked whether two caches hold different versions now, which is
wrong: with four coroutines on two threads a slow read of a small old version can
overwrite the entries of both threads, after one has opened the compressed file of the
other. The exception names the thread that made the file now. In `HttpConnection`, `cause`
was the last loss only, so that a later one could hide an earlier one from
`BodyDelivered`: it is a set now, a head accepted in the wrong place joins it, and what
a client is became an assumption. In `ActiveRecord` the guards of
a `CASE` overlapped, so that the value was unspecified where TLC took the first;
they are disjoint now. And functions are extended with plain constructors in place
of TLC's `@@` and `:>`, about which the provers know nothing.

Only model-checked:

* everything that needs fairness (`ImplementsFairFuture`, `SuspensionsEnd`,
  `ShutdownReturns`, `ClientsServed`, `ConnectionsEnd`), which TLAPS cannot do;
* `Routing` (`RouteChosen`, `RequestIsFresh`, `OrderShowsOnlyInRefusals`) and `OrmQuery`
  (`PlaceholdersBound`, `WhereMeansTheCalls`), whose search and whose predicates are
  RECURSIVE operators; `PartsDelivered` and `RangesServed`, which are about sums over
  a sequence and about where in it a boundary occurs: both come to induction over
  data, beyond TLAPS too.

## 5. What is left out

* Left out of the modelled parts: contents of messages and rows, parameter
  binding and cached statements, errors of system calls that end the process,
  wrap-around of 64-bit counters (`fireEvent()` truncates its key to `int`), two
  coroutines that share one transaction object.
* In `HttpConnection`: a segment never ends between CR and LF; payload never looks
  like framing; an error of `receive()` is a close; handlers do not catch the
  exceptions of the body stream; the contents of an answer; which of several statuses a refusal has where nothing depends on it.
* In `Multipart`: forms in chunked requests. In `StaticFiles`: more than one file,
  weak tags, the writer of uploads. In `Routing`: cookies, JSON bodies, the text of
  headers. In `Sessions`: other stores than the one in memory. In `ActiveRecord` and
  `OrmQuery`: column types, conversion from and to JSON, rows of several models,
  the resolution of column names.
* A pool job that outlasts the grace period posts to an executor that is gone;
  `Executor` stops at `returned`, so this is a hazard on the list only.
* `globalConnectionCount_` is counted up by the TLS accept loop and never down
  (`HttpServer.cpp:188`); that loop is not modelled yet.
* Not modelled: `MmapCache` and sending from mapped memory, the streaming use of the
  compression libraries, serialization of responses, logging, and the demo
  application but for the order of its middlewares.

## 6. Plan

In order:

1. **Server**: TLS accept loop, connection limit and counter, start-up and
   shutdown of worker threads, composed with what `Executor` promises.
2. **Forms in chunked requests**: `Multipart` over what `HttpConnection` promises of
   a body.
