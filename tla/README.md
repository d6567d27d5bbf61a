# A TLA+ development of location_server

location_server receives position reports of vehicles from an AMQP queue, keeps
the last report of every device in memory (a pool, and a grid for spatial
queries), writes them behind to MongoDB, and answers queries over HTTP. The
modules here model its concurrent core, the HTTP server and the XML library it
carries along, what is computed from text, and the Java client of its RPC tool.
TLC checks them on small instances, and TLAPS proves for every instance what the
database buffer, the queue, the spatial index, the server put together from them,
the HTTP threads and connections, the nodes of the XML library and the Java client
keep true.

Paths are those of the repository: `src/src/` is the server, `src/tce/` the RPC
tool that comes with it, `src/test/` its scripts. Line numbers are in
`PROJECT.json`, definition by definition.

## 1. The system

### Threads

    qpid broker --> reader --> _dcs --> decoder --> LocServer::update
                    (mq.cpp)            (mq.cpp)      |       |       |
                                                      v       v       v
                                                 GlobalMap  AO_Pool  DBSyncer::_locs
                                                    ^          ^          |
       HTTP clients --> master --> ring --> worker -+----------+          | ios thread,
                        (mongoose.c, http.cpp)                            v every few s
                                                                       MongoDB

* The **ios thread** runs a timer, `LocServer::salfCheck`, which calls the
  `check()` of every part: the queue opens its connection again, the buffer is
  written out.
* A **reader** and a **decoder** are started by *each* successful
  `MessageQueue::open()`, so a reconnect adds a pair to those there are.
* **HTTP workers** read the pool and the map.
* The **main thread** starts everything (`LocServer::init`, `prepare`), waits in
  `exec()`, and shuts down.

### Components

| Component | State | Operations | What is hard | What makes it right |
|---|---|---|---|---|
| `DBSyncer` (sync.cpp) | `_locs`, `_db`, two counters; snapshot and log table | `open`/`prepare`, `update`, `check`/`sync`/`sync2db` | two tables written by separate calls, exceptions and restarts between them; the buffer is swapped out under a lock and written without | order and completeness of the log, one snapshot per device, never older than the log |
| `MessageQueue` (mq.cpp) | `_conn`, `_session`, `_recver`, `_dcs`, the two threads started last | `open`, `check`, `close`, `readThread`, `decodeThread` | threads of earlier connections live on, and share the members; asynchronous acknowledgement; shutdown | a message that was acknowledged is applied or accounted for; duplicates and reordering only where a connection was lost; `close()` ends |
| `GlobalMap`, `MapCell` (map.cpp) | `_props`, `_cells`, the `_devs` of each cell | `init`, `update`, `spatialQuery` | `_cells` is changed under a *shared* lock | the last report of a device is found where it is looked for |
| `AO_Pool` (pool.cpp) | `_aos` | `update`, `whereis`, an empty `check` | no expiry | the last report |
| `LocServer` (server.cpp) | the above, `dbsync` | `init`, `prepare`, `update`, `salfCheck`, `exec` | three updates without a common lock; restart from the tables | map, pool and tables agree in the order of the updates |
| Mongoose (mongoose.c) | `stop_flag`, `num_threads`, the ring of sockets | `mg_start`, master, workers, `mg_stop` | condition variables, reads and writes without the lock | every accepted socket is served; all threads end |
| Mongoose connections | buffer and fields of a `mg_connection`, one for all connections of a worker | `process_new_connection`, `read_request`, the handlers | requests in pieces and several at once, bodies read or not, errors at every step of a handler | each client gets the answers to its own requests; what was opened is closed once |
| Mongoose rules | none over time | options, patterns, access list, throttle, ports, passwords, cookies, server-side includes | lists in text, the last or longest rule decides | the rule that was meant is applied |
| `HttpService` (http.cpp) | two counters | `start`, `stop`, two queries | parameters that are missing or malformed | the answer parses as what was found |
| Geometry, records (geo.cpp, query.cpp) | none | distances, texts, XML | | |
| TinyXML (tinyxml/) | the nodes of a tree and their links, strings, a cursor | parse, print, `LinkEndChild`, `InsertBeforeChild`, ... | five pointers per operation; escaping; UTF-8; shared empty strings | the links are those of a forest; what is printed reads back |
| Settings (plainconfig.cpp, `LocServer::init`), add-in wrapper | key/value pairs | load, typed access | silent defaults | a setting has the value of its line |
| TCE Java runtime (tce/java) | `_msglist`, `_sock`, `_workthread`, `_seq` | calls, replies, callbacks of the server, reconnects, `close` | none of the fields but the list has a lock; reply against wait | a waiting call is still found; a call is settled once |
| TCE compiler, test scripts | none | text conversion, load generation | | not modelled |

## 2. Modules

| Module | Models | Composes |
|---|---|---|
| `DBSyncer` | sync.cpp against a database that may go | |
| `MessageQueue` | mq.cpp against a broker that may go | |
| `GlobalMap` | map.cpp: updates and spatial queries | |
| `LastLocation` | abstract: what the server promises of a device | |
| `LocServer` | server.cpp and pool.cpp | instances of `DBSyncer` and `GlobalMap`; refines `LastLocation` |
| `WorkerPool` | the threads of mongoose.c | |
| `HttpConnection` | one worker, its buffer and its connections, one after the other | `HttpHandlers` |
| `HttpHandlers` | operators: the replies each handler of mongoose.c and http.cpp may give | |
| `RpcClient` | one connection of the Java client: callers, readers, `close()`, the server | |
| `XmlTree` | the pointers of TinyXML's nodes | refines `XmlForest` |
| `XmlForest` | abstract: labelled nodes with lists of children | |
| `TextBase` | operators on text (sequences of characters) | |
| `HttpText` | operators: requests, forms, patterns, paths, dates, `mg_printf` | `TextBase` |
| `HttpOptions` | operators: options and rules, cookies, passwords, server-side includes | `HttpText` |
| `SpatialQuery` | operators: cells, filters, order and limit of a query, its parameters and its answer | |
| `XmlText` | operators: TinyXML's parser and printers, `parseMsg`, the add-in's document | `TextBase` |
| `XmlChars` | operators: place in a text, UTF-8, `TiXmlString` | `TextBase` |
| `Settings` | operators: `PlainConfig`, `LocServer::init` | `TextBase` |
| `MCText`, `MCRules` | inputs and properties for the operators of the seven modules above | those |
| `DBSyncer_proofs`, `MessageQueue_proofs`, `GlobalMap_proofs`, `LocServer_proofs`, `WorkerPool_proofs`, `HttpConnection_proofs`, `XmlTree_proofs`, `RpcClient_proofs` | theorems, and the inductive invariants they rest on | the module of that name; `LocServer_proofs` also an instance of `DBSyncer_proofs`, `GlobalMap_proofs` of `SpatialQuery` |
| other `MC...` | devices, positions, reports, grids and calls of the runs | the module of that name |

Each module holds, after the specification, its properties; each property is
preceded by a comment that says which behaviour of the code it is about. Some
definitions are preceded by *mutants*, variants as a plausible mistake would make
them (an `insert` for an assignment, a signal given only for the first socket).
They are used by no definition of the specification. Put in the place of the
original, each makes TLC find the property violated that `PROJECT.json` lists
with it.

### DBSyncer

`pc` is where the one thread that talks to MongoDB is: opening (`"loading"`, the
cursor loop of `prepare()`), `"idle"` between two checks, or inside `sync2db`:
`"find"`, `"snapshot"`, `"log"`. Each database call is a step of its own, since
reports come (`Update`), the connection goes (`ConnLost`) and the process ends
(`Crash`) between any two. `batch` is the local list of `sync()` with the
report being written at its head; `found` is the answer of `findOne`.

A lost connection is `"broken"` until a call has failed on it (`"failed"`): the
driver is built without auto-reconnect. With `Unacknowledged` a write sent on a
broken connection may also return normally and vanish, for `insert()` and
`update()` do not wait for the server. MongoDB itself keeps what it has stored.
The field `no` of an entry is not in the code; it numbers the calls of
`update()` so that properties can speak of order.

### MessageQueue

`Conn` numbers the calls of `open()`. Connection, reader and decoder of the i-th
call are `cstate[i]`, `rpc[i]`, `dpc[i]`; the members `_conn`, `_session`,
`_recver`, `_thread_read` are single variables that say to which call they belong
by now, and every thread reads them when the code does. That is how a reader
started by an earlier `open()` comes to fetch on a later session, acknowledge
there, or close a later connection. `strayed` remembers that one did.

The broker is external: `queue` is what it offers, `out` what a session fetched,
`acking` what was acknowledged and not settled yet. When a connection ends,
what is not settled is offered again. `parseMsg` is the constant set `Malformed`,
the messages it makes nothing of (which those are is in `XmlText`).

A sequence under `_dcs`'s mutex is one step. So is the assignment of one of the
qpid handles in `open()`, though earlier readers use them without a lock: a torn
handle is undefined behaviour whose outcomes are not enumerated.

### GlobalMap

`cells` maps a cell id to a `MapCell` (an index of `objs`), to nothing, or to a
null pointer. `MapCell` operations are atomic (`_mtx` of the cell). The insertion
`_cells[cid] = cell` is two steps, because nothing guards it: `Link` rebuilds the
tree and leaves a null pointer, `Assign` sets it. While one thread is in `Link`,
any other that touches the tree may see what is there, miss it, lose its own
entry, or bring the process down; these are the outcomes taken for the data race.
The grid is an arbitrary function from positions to cells, the area of a query a
set of positions.

### LocServer and LastLocation

`LocServer` composes instances of `DBSyncer` and `GlobalMap` over shared
variables. `update()` is three steps of a decoder (map, pool, buffer), of which
the first is itself the steps of `GlobalMap`. `Restore` is the `update(loc, false)`
that `prepare()` calls for every snapshot; `Start` sets the configured grid
after that, as `prepare()` does. `Crash` drops everything but the tables and
resets the grid to the constructor's.

`LastLocation` has only `last` (what `whereis()` answers) and `saved` (what a
restart starts from), with three steps: a newer report comes in, a report that
came in is saved, a restart. The refinement maps `saved` to the snapshot table
and `last` to the pool, and to the table while the process is down or loading,
when nobody can ask.

### WorkerPool

One starting thread (`spc`: `mg_start`, then `mg_stop`), one master (`mpc`), the
workers (`wpc`). A section under `ctx->mutex` is one step, except where it
contains a condition wait: the test and the falling asleep are separate
(`ProduceWait`/`MasterSleeps`, `ConsumeWait`/`WorkerSleeps`, `owner` holds the mutex
between them), since `stop_flag` is set and `sq_full` broadcast without the mutex.
Likewise `num_threads++` is a read and a write, and `num_threads--` (under the
mutex, which does not exclude the former) too. `return !ctx->stop_flag` comes
after the unlock and is a step (`Return`). The wait for `cond` in the master is a
guard (`Join`): both the test and the signal are under the mutex, so no wakeup is
lost there.

`MayFail` lets `pthread_create` (for the master and for a worker) and a worker's
`calloc` fail; `Spurious` lets a wait of a worker end by itself. Request handling is the
step `Serve`.

### HttpConnection and HttpHandlers

A handler is an operator that gives the set of its replies, one for each way in
which files, descriptors and processes may fail on it. A reply says which final
status lines went out, what became of the body, whether the client can tell where
the reply ends, and what was opened and closed in which order. `HandleRequest`
composes them as `handle_request()` does.

`HttpConnection` is a worker with the one `mg_connection` it uses for all its
connections. What clients send is cut into tokens (a request line, the rest of
the head, a unit of the body, characters that no request has), of which `Pull`
takes any number. `ContentLen` is *not* reset between requests, as in the code.
`Handle` takes any reply the handlers allow for the request read, `Finish`
discards what belonged to it and goes on or closes. An answer is sent in `push()`,
which blocks in `send()` while the client does not take it: the worker is `"sending"`
(`"refusing"` for the answer to what was no request) until `Taken`, a step of the
environment. So is the end of a program the worker reads from (`ProgramEnds`).
Clients may stop in the middle, send ahead, or send what is no request; `orderly`
remembers whether any has.

### RpcClient

Threads are the callers, the readers (one for each socket connected), and one
that calls `close()`. Every access to `_sock`, `_workthread` and `_seq` is a step,
since no lock guards them: `getUniqueSequence()` is a read and a write, and
`connect()` creates, connects and starts a reader in three steps that another
sender may come between. The text of the stream keeps what framing depends on: an
envelope has a begin that a read may cut in two, an end, and white space around
it; `Framed` is the loop body of `run()`, with its index that was found before the
text was cut. The generated proxy waits (`BeginWait`) without testing whether the
answer is there. The server answers in any order, calls back with numbers of its
own, and may end a connection. Spurious wakeups and envelopes above
`MAXPACKET_SIZE` are left out.

### XmlTree and XmlForest

`heap` maps the address of a node to its label and five pointers. Every
operation is the code's assignments in their order, each on the heap the last one
left. A client is held to what the library asks: it links nothing below itself
and deletes only what it owns. What the destructor goes through below a node is the
least set that holds its first child, and of each node in it the first child and the
next sibling (`Below`). `XmlForest` has the same operations on lists of
children; the refinement reads a list off `first` and `next`.

### The modules of operators

Text is a sequence of characters, and what the code only compares (`"GET"`,
`"?xml"`, `"include"`) is one character. Numbers are integers, with the width of the
code where it matters (16 bits of a cell and a port, 32 of an unsigned setting).
Each operator is named after the function it models and gives what that returns;
a read behind a null pointer, an endless loop, and memory that was never set have
values of their own (`Crash`, `hangs`, the argument `unset` of `ParseMsg`).
`MCText` has one step: it picks an input. Its invariants compare the operators
with definitions that say what they are for and do not use them: a form is
encoded by the rules of forms, a date is counted from the lengths of its years and
months, a document is a tree.

## 3. What is checked

All runs are complete explorations; the longest takes about two minutes. Where
`CHECK_DEADLOCK FALSE` is given, the system may really stop: the server is shut
down, or the bounded input is used up.

| Run | Instance | Properties |
|---|---|---|
| `dbsyncer` | 2 devices, 4 reports, 2 losses, 2 crashes | `TypeOK InOrder OneSnapshot SnapshotCoversLog DroppedByFaults AheadIsAFault SnapshotMonotone EventuallyWritten` |
| `queue` | 3 messages (one malformed), 2 opens, 1 loss | `FifoUntilReconnect AckedIsAccounted NullUse CloseEnds EventuallyApplied` |
| `map` | 2 devices, 3 positions in 2 cells, 3 reports, 2 decoders, 1 query | `FiledIsFound QueryFinds` |
| `server` | 2 devices, 2 positions, 3 reports, 1 loss, 1 crash, dbsync on or off | `PoolInMap PoolCoversTables TablesAgreeAtRest ImplementsLastLocation` |
| `pool` | 2 workers, a ring of 2, 4 connections, failures | `Accounted NobodySleepsOnWork ThreadsEndFirst Served` |
| `http` | 2 connections, 2 messages, a buffer of 5 tokens, keep-alive on or off, with and without the service | `OrderlyServed HandlersTidy WorkerEnds` |
| `rpc` | 2 calls (waiting and with time-out, or with callback and one-way), 1 of the server in place of one, 2 sockets, 1 end of a connection | `AsleepForCause SettledOnce` |
| `xml` | 4 nodes, documents, elements and texts | `PointersAgree WalksAgree ForestSpec` |
| `text` | one input of any kind up to the lengths in `MCText.cfg` | `RequestRead ValuesRead PathStaysBelowRoot RulesApplied PageSent QueryAnswered XmlParsed CharactersKept InputRead` |

What they show, in short:

* **Buffer.** The log is written in the order reports came, without repetition,
  over batches, failures and restarts. As long as nothing fails no report is
  dropped. A device never has two snapshots, a snapshot never goes back, and it
  is at least as new as the log; it is *ahead* of the log by no more devices than
  there were faults. A fault may cost many reports, for the rest of a batch goes with
  its first exception and every batch after it as well, but they are reports that
  came one after the other: there are no more gaps than faults (`LostInRuns`, a part
  of `DroppedByFaults`).
* **Queue.** Until the first reconnect reports are applied in order. Every
  message the broker has settled was applied, is on its way or died in a way the
  property names. `close()` comes to its end. Without faults every well-formed
  message is applied. A null pointer is used in two situations only, which
  `NullUse` states.
* **Map.** The last report of a device is found where its position is looked for,
  and a query that does not run beside the creation of a cell returns it, with the
  two decoders that a reconnect leaves behind too, up to their first collision in
  the creation of a cell. After that nothing is promised.
* **Server.** Spatial index, pool, buffer and tables are ordered as the calls in
  `update()` order them; every behaviour is one of `LastLocation`. The exception
  stated in `PoolInMap` is real: what was restored before the configured grid
  is set may be filed in another cell than a query looks in.
* **HTTP threads.** Sockets are neither lost nor doubled in the ring, one signal
  per socket is enough, every socket in the ring is served if a worker could be
  started, and when each worker got its memory `mg_stop()` frees the context
  after the last one and the count of threads is never negative.
* **HTTP connections.** Clients that finish their requests and wait for the
  answers get their own, one each, and leave nothing in the buffer. Handlers
  close what they open, once, and answer once, but for the two that `HandlersTidy`
  names. A worker that is told to stop ends, unless it waits for
  ever for a program it reads from, or in `send()` for a client that does not take what
  it is sent.
* **Java client.** A call sleeps past its answer only if it was notified before it
  waited, or shared its number with another message. A call is settled once, and
  with its own answer if its number was its own.
* **XML.** Any sequence of tree operations leaves every chain whole in both
  directions and is one of forests. A document that is printed reads back, a text
  is the tree of its tags or an error, a place is a line and column, strings hold
  what they were given; the exceptions are in the comments of the properties.
* **Text.** The functions do what they are for, with the exceptions that each
  property states; they are collected below.

### Bounds

Two devices are enough to tell "the document of this device" from "some document",
and with two reports for one of them what is older from what is newer; four
reports make a second batch form while the first is written. Two losses and two
crashes make a fault follow the recovery from a fault. Two opens are the first
situation in which old and new threads of the queue meet. Three positions in two
cells let a device move inside a cell, into a new cell and into one that is there;
for the last, the second device need only report once, first and from one
position. The decoders are interchangeable there (`SYMMETRY`, in a run without
liveness). Four sockets through a ring of two wrap its pointers twice, and two
workers suffice for a signal to reach the wrong one. Two connections with two
messages let the second begin with what the first left, and a buffer of five
tokens be filled by a request with a body and by the start of the next. Two calls
and two sockets let numbers be shared, two senders connect at once, and an old
reader meet a new connection; the bound `MaxEnds` counts connections ended by the
server and by `close()` together. Four nodes are a parent with three children,
the first at which a middle child has neighbours on both sides. Text inputs are
all sequences of the characters that the code tells apart, up to the length at
which each loop has gone round with something before and behind it.
`MaxReports`, `MaxLosses`, `MaxCrashes`, `MaxMsg`, `MaxOpens`, `MaxConns`, `MaxMsgs`,
`MaxSocks`, `MaxCalls`, `MaxReverse` and `MaxEnds` bound only what the environment
does. `MaxLevel`, `MaxTag`, `MaxInt` and `BufSize` stand for constants of the code
that are too large to reach.

### Fairness

Liveness is checked under weak fairness of each thread's steps and of the timer's
`check()`, which the ios thread arms again after every turn whether or not
something failed. Reports, losses, crashes, spurious wakeups and the success of a
connection attempt are never forced. One assumption is made of the environment: in
`WorkerPool`, `Serve` is fair, that is, a connection comes to an end. `Served` and
`StopEnds` hold or fail for clients that take their answers and programs that end. `HttpConnection` does not assume it.
Its worker is fair only once it is told to stop: before, it may read from its client
for ever, and then `wait_until_socket_is_readable()` looks at `stop_flag` every 300 ms
(`GiveUp`). `Taken` and `ProgramEnds` are not fair, for neither `send()` nor the read
from a program looks at the flag or has a time limit; `WorkerEnds` excepts a worker
that waits there for ever, and no more than that.
`EventuallyApplied` has to except the last attempt the bound allows. `RpcClient` has
no liveness property: a call without a time-out may sleep for ever, and
`AsleepForCause` says exactly when.

### Disagreements found

Three runs are expected to fail; each checks what a comment says.

| Run | Says | The code |
|---|---|---|
| `dbsyncer_reconnect` (`Reconnects`) | sync.cpp:39, a lost database connection has to be made again | never does |
| `pool_stop` (`StopEnds`) | mongoose.c:4657, the waiting workers are woken | a worker between its test of `stop_flag` and its wait misses the broadcast, and `mg_stop()` waits for ever |
| `http_fresh` (`FromTheClient`) | mongoose.h:55, a new request has arrived from the client | what the last client left in the buffer is the start of it |

`Reconnects` and `StopEnds` are violated under the fairness above, so the
counterexample is not a thread that merely stopped.

Others were met on the way. Where a property has to except them its comment says
so; the rest only the model or the code shows.

* **Server.** The setting `elimination` (server.conf:18) is not implemented:
  `AO_Pool::check()` is empty. `_sync_succ_num` (sync.h:51) may count a report whose
  writes vanished. The default of `map.origin` (server.cpp:264) has longitude and
  latitude the other way round than map.h:45. `http.start` has no effect.
* **Settings.** The last line of a file without a final newline keeps a zero
  behind its value: numbers silently have their default, an origin keeps the server
  from starting. A blank behind the comma of a point is refused. A negative value
  of an unsigned setting wraps.
* **Messages.** `parseMsg` makes its report without initial values and returns it
  when fields, `dev_id` too, are missing. It drops the messages that README.md:19 and
  the comment at mq.cpp:130 give as examples, whose root is `location`, and those that
  test/mq_location_put.py:13 sends, fields without a root around them: the root has to
  be `NaviMSG` (mq.cpp:144; `ExamplesDropped`, a part of `InputRead`). The ids of
  groups may be any text between commas, for their type is a string. The add-in finds its configuration only
  when the root of its document has exactly one element.
* **Queries.** West or south of the origin cells are undefined; the limit keeps the
  oldest reports after sorting by time; an answer of exactly the size of the
  buffer of `mg_printf` loses its last character; `location_get` with a bad `dev_id`
  sends no status line.
* **HTTP.** Replies 505 and 400 discard by the content length of the request
  before. A malformed or too large head stays in the buffer, so that the worker
  refuses every later connection. A body that its handler did not read and that
  is still on the way is read as the next request. After a failed `fork()` a CGI
  request gets two replies and two descriptors are closed twice. A worker that
  reads from a CGI program does not look at `stop_flag`, nor one that is blocked in
  `send()` (1416) by a client that does not read: `mg_stop()` waits for both without
  limit. Replies without a length
  keep the connection open when keep-alive is on. When the user or the access list
  is bad, `mg_start()` leaves its ports open. A port above 65535 wraps. A throttle
  rule without "=" is followed to a null pointer. A net with host bits never
  matches. A cookie is found by another's whose name ends like its own. A tag
  shortly behind a stray "<" is sent as text. A worker that
  fails at once makes `num_threads` negative before it is counted in, and the assertion
  at 4556 fails; without such a worker it holds (`ThreadsEndFirst`). Sockets in the ring
  when the server stops are not closed (mongoose.h:118).
* **TinyXML.** A text that breaks off within a character that begins with EF is
  counted for ever. A string added to itself is read after its memory was freed.
  `&#x...` is not escaped on the way out. Text between the nodes of a document, and
  comments that do not end, hide what follows without an error.
* **Java client.** The proxy waits without testing, so an early answer is missed.
  The server's numbers and the client's meet in one list. `_seq` is not locked.
  A reader that ends clears `_sock` and fails calls of a new connection too. Calls
  with a callback are not told of a disconnect. Entries of one-way calls and of
  calls that timed out stay. `close()` may wait for the reader of another socket.

## 4. What is proved

Each proof module extends the module it is about and holds for every value of its
constants. TLC has checked every property of the table on the run named in section 3,
and every inductive invariant below on the same instance before it was proved.

| Module | Theorem | States |
|---|---|---|
| `DBSyncer_proofs` | `TypeCorrect` | `Spec => []TypeOK` |
| | `OrderCorrect` | `Spec => []InOrder` |
| | `OneSnapshotCorrect` | `Spec => []OneSnapshot` |
| | `SnapshotCoversLogCorrect` | `Spec => []SnapshotCoversLog` |
| | `SnapshotMonotoneCorrect` | `Spec => SnapshotMonotone` |
| | `NothingDroppedCorrect`, `LostInRunsCorrect`, `DroppedCorrect` | `Spec => []NothingDropped`, `Spec => []LostInRuns`, and both together: `Spec => []DroppedByFaults` |
| | `AheadCorrect` | `Spec => []AheadIsAFault` |
| `GlobalMap_proofs` | `FoundCorrect` | `Spec => []FiledIsFound` |
| | `QueryCorrect` | `Spec => []QueryFinds` |
| | `GridHidesNothing` | for a query in the grid, the last report of a device that it accepts is in `Found(Filed(updates), qc, now)` |
| | `OutsideFindsNothing` | for an area from outside the grid to the inside, `Found(held, qc, now) = {}` |
| `MessageQueue_proofs` | `NullCorrect` | `Spec => []NullUse` |
| | `FifoCorrect` | `Spec => []FifoUntilReconnect` |
| | `AckedCorrect` | `Spec => []AckedIsAccounted` |
| `LocServer_proofs` | `BufferCorrect` | `Spec => DBP!Spec` |
| | `PoolInMapCorrect` | `Spec => []PoolInMap` |
| | `PoolCoversCorrect` | `Spec => []PoolCoversTables` |
| | `TablesAgreeCorrect` | `Spec => []TablesAgreeAtRest` |
| | `ImplementsCorrect` | `OneDecoder => (Spec => ImplementsLastLocation)` |
| `WorkerPool_proofs` | `AccountedCorrect` | `Spec => []Accounted` |
| | `AwakeCorrect` | `Spec => []NobodySleepsOnWork` |
| | `StopCorrect` | `Spec => []ThreadsEndFirst` |
| `HttpConnection_proofs` | `OrderlyCorrect` | `Spec => []OrderlyServed` |
| `XmlTree_proofs` | `PointersCorrect` | `Spec => []PointersAgree` |
| | `WalksCorrect` | `Spec => []WalksAgree` |
| | `ForestCorrect` | `Spec => ForestSpec` |
| `RpcClient_proofs` | `AsleepCorrect` | `Spec => []AsleepForCause` |
| | `SettledCorrect` | `Spec => []SettledOnce` |

### Assumptions

The proofs rest on the named assumptions of the modules, which TLC evaluates on every
run. They say what the constants are: a report has a device, a position and a number, a
grid maps positions to cells, bounds are natural numbers, a ring has a place
(`SizeAssumption` of `WorkerPool`), the buffer of a connection holds a head (the one of
`HttpConnection`), the numbers of a call start at 1 and the readers are numbers
(`NamesAssumption`), and the mark of free memory is no label. `OneDecoder`, a condition
in the three properties of LocServer and a hypothesis of `ImplementsCorrect`, is no
assumption about the code: `open()` starts a decoder for each connection, and with two
of them an older report may overwrite a newer one. The
theorems say what LocServer keeps true before such a reconnect.

### The inductive invariants

None of the properties but `DBSyncer`'s `TypeOK` is inductive. Every proof module
begins with the invariant it uses, as a conjunction of named parts, and shows that
`Init` implies it and that every action keeps it, part by part where they are large.

**DBSyncer**: `IInv == TypeOK /\ Order /\ Snapped`.

* `Order` adds to `InOrder` that no report carries a number greater than
  `accepted`; without it a new report could come before those in the buffer.
* `Snapped` adds to `OneSnapshot` and `SnapshotCoversLog` three facts about the middle
  of `sync2db`. `FoundHolds`: in `"snapshot"`, `found` still says whether the device
  has a document, so the insert never makes a second one. `SnapshotOlder`: what is
  in the table is older than what the batch still has, so replacing goes forward.
  `SnapshotFirst`: in `"log"`, the snapshot of the current report is stored, or the
  connection has gone and the log entry cannot be stored either. The last is why
  a vanished snapshot write does not leave a log entry ahead of it.
* `Complete` says for `NothingDropped` that without a fault the numbers in log, batch
  and buffer have no gap. `AheadOK` counts for `AheadIsAFault` each snapshot without
  its log entry against a loss or a restart.
* `RunsOK` counts for `LostInRuns` the gaps against the faults. Its part `Pending` says
  that batch and buffer hold the newest reports in one piece, from the number `First`
  on. What is lost are then the numbers before `First` that are not in the log
  (`LostBeforeFirst`), and a step that drops something adds a stretch that ends just
  before the new `First`. Either that begins behind another such stretch, and there is
  no new gap, or there has been a fault that no gap is counted against yet: on a
  connection that is not working, one of the two is always so.

**GlobalMap**: `Fresh` (no report under way has the number of another, or of one that is
filed) tells a thread's own report from everybody else's. The rest holds until the first
overlap, the code's race in `_cells`: `OneCreator` (one thread at a time makes a cell,
an entry without a MapCell is that thread's, and the MapCell a thread is about to store
in is the one of its cell) keeps `FiledIsFound`; `QueriesCover` follows a query: the cell
of a report it must return is ahead of it, on its list, or read.

The cells of a query are given to `GlobalMap` by a function of positions; in the code
they are a loop from the index of one corner to that of the other. `GridHidesNothing`
closes that gap for `SpatialQuery`, with any origin, size of cells and sequence of
updates: what `InRegion` takes lies in the rectangle (`RegionInArea`, a circle being no
wider than its diameter), an index does not decrease along an axis
(`CellIndexMonotone`), and so the cell of the report is between the corners' cells
(`CellOfRectangle`). Its hypothesis `InGrid` is needed: an index has 16 bits, and
`OutsideFindsNothing` says what becomes of an area that begins two cells or more to
the west of the origin. Both take degrees for integers, as the module does. What is
left of `FoundWhereItIs` is the order, the limit and the parameters, which TLC checks.

**MessageQueue**: `OpensOK` and `ThreadsOK` say which connections and threads exist at
each step of `open()` and `close()`, from which `NullUse` follows. `LineOK` orders, for
one pair of threads, what is applied, in `_dcs`, in a hand and at the broker. For
`AckedIsAccounted`, `SessionOK` says that until a reader strays to another's session it
has in hand all that it fetched and did not acknowledge; `SafeOK` that what the broker
may forget is in a safe place; `CopiesOK` that the copies of a message, with the one the
broker may still send, are at most one more than the connections lost.

**LocServer**: `IInv == HandsOK /\ (OneDecoder => OneOK)`. `BufferCorrect` maps the steps
to the buffer's, so what `DBSyncer_proofs` shows about `DBSyncer` holds here and is not
shown again. `OneOK` joins the parts: `CellsOK` as in the map; `AgesOK`, that the
report under way is newer than all there is, and `Paired`, that the buffer numbers reports
in that order, so the newest wins in the pool, in the map and in the tables alike;
`Reading`, what is in the pool while the snapshots are read back; `Located` and `Covered`,
the properties with the report that is between two of the three places; `Stocked`, that
without a fault what the pool holds is stored or on its way.

`ImplementsLastLocation` is shown step by step: taking a report into the pool is
`Accept`, writing a snapshot is `Save`, the end of reading the snapshots is `Restart` with the devices
that were read, a crash is `Restart` with all of them; every other step changes nothing
`LastLocation` speaks about.

**WorkerPool**: `MutexOK` (between the steps of a wait the thread holds the mutex, so what
its test found is still so) and `CountOK` (while no worker failed, `num_threads` is the number
of threads alive, but for the one about to be counted) make `ThreadsEndFirst`, with
`StartedFirst` (that one has been started, and not ended); `AwakeOK` (while a
worker sleeps, the ones awake at the ring suffice for what is in it) makes
`NobodySleepsOnWork`; `HoldersOK`, `OrderOK` and `PlacesOK` follow a socket through the ring.
Both pointers grow, and are moved back together by `QueueSize`: the lemmas before them
are about division with a remainder.

**HttpConnection**: `Served` says of orderly clients where the text is. `ReadOK`: the
buffer and what is still to come are together what one client sends, from the first
unanswered request on, and no more than that request has been received, because its
client waits. `HandledOK`: all that is in the buffer belongs to the request that was
answered, so the end of the loop empties it. `Stream` says what a client sends place by
place; it is shown of the messages laid one behind the other, and kept by what is read, by
what a handler takes, and by what is discarded. How many tokens `recv()` returns does
not matter.

**RpcClient**: `Pairing` says of each call where the right to settle it is. `Right`:
nowhere before it is entered, then in its entry of `_msglist` or with one reader, and
nowhere again once it is used. `Found`: a call that is asleep and untold is entered, or
with a reader, or was told before it waited, or shares its number. `TextOK` and `ReadersOK`
follow an answer through the stream, the buffer that frames it, and the reader.

**XmlTree**: `Tree` adds to the links that agree that neither the previous siblings
(`NoRings`) nor the parents (`NoLoops`) of a node go in circles. Links may agree along a
ring of siblings that their parent does not know; a destructor would miss it and leave
it with a parent that is freed. With both, a node is below another just if its parent
is, or is that node (`BelowIs`). The operations are built of four steps, each shown to
keep a tree: a node is put into a gap of a list (`PutKeeps`), taken out of it
(`TakenOutKeeps`), a subtree is copied (`CopyKeeps`) or freed (`DeletedKeeps`); lemmas
named after the functions say to which of them the code's assignments come.

`WalksAgree` and the refinement of `XmlForest` speak of the sequences of children,
which are recursive functions of the heap. They rest on induction over the numbers,
which is proved first (`LeastNat`, `Induction`): the library states it with an operator
as a parameter, which the provers cannot instantiate, but as a statement about sets it
follows from the pigeonhole principle. By it, a function that satisfies the recursion
of `Steps` exists and is `Steps` (`StepsAre`), and the children of a node of a tree are
a list (`ChildrenAre`): no node comes twice, for `next` leads on and `prev` leads back,
and all whose parent it is are met, for `NoRings`. Then

* each walk from within a list is what lies behind or before that place (`OnwardIs`,
  `BackwardIs`), and the loop over elements is counted along the list
  (`ChildElementIs`);
* each of the four steps changes the lists as `InsertAt`, `RemoveAt` or nothing does
  (`PutKids`, `TakenOutKids`, `CopiedKids`, `DeletedKids`), and each operation is the
  step of the forest that is named after it. `ReplaceChild` frees what it replaces
  after the copy is in its place, and what is below that has stayed what it was before
  (`ReplacedSubtree`). For the guards of the forest, the invariant has one more part:
  only documents and elements have children (`HoldersOnly`).

### What is only model-checked

* Liveness properties: they need ENABLED, which the prover does not have.
* `HandlersTidy`: it ranges over replies and options without a parameter, and TLC's check
  goes through all of them.
* Everything about text (`MCText`, `MCRules`): those modules are built from `RECURSIVE`
  operators, in whose presence the prover has no arithmetic. Of the operators they
  check, those of the grid are proved about, as said above.


## 5. What is not modelled

* `statistic()` and the signal handlers; the counters they show; logging.
* Starting and stopping of `HttpService` around `mg_start`.
* Two servers with `dbsync` on one set of tables, which the setting exists to avoid.
* In mongoose.c: SSL, Windows, MD5 itself, the layout of directory listings and
  of WebDAV properties, throttling in time (only which rate applies).
* In TinyXML: encodings other than UTF-8 in the parser, the visitor interface
  beyond `TiXmlPrinter`, error numbers and messages.
* Floating point: distances and cells are computed on integers, so rounding at the
  border of a cell or a circle is not seen.
* The body of RPC messages, and the connections over HTTP of which the runtime has
  only a stub.
* The interface compiler and the test scripts: text conversions and load
  generators that developers run.

`PROJECT.json` lists every component with its status and every hazard with the
properties that cover it, or the reason why none does.

## 6. Plan

Done, in this order: buffer, its proofs, queue, map, server with its refinement,
HTTP threads; requests, queries and XML as operators; tree and forest; HTTP
connections; options and settings; the Java client.

Proofs done: buffer, map with the arithmetic of its grid, Java client, HTTP threads,
queue, the server with its refinement of `LastLocation`, the HTTP connections, and the
nodes of XML: their links, the walks along them and the refinement of `XmlForest`.
Nothing of the plan is left to prove but what is named under "What is only
model-checked".
