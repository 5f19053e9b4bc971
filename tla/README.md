# libws in TLA+

libws is a C++ library of three parts: `wsCore` (timer, events, buffers, path
finding, helpers), `wsDatabase` (MySQL connections and a request queue) and
`wsNetwork` (TCP server and client, HTTP client). This directory holds
specifications of its components in TLA+, configurations that model-check them
with TLC, and theorems about them that TLAPS checks. `PROJECT.json` ties every
definition to the lines of the source that it models.

Paths below are short for `src/wsCore/src/…`, `src/wsDatabase/src/…`,
`src/wsNetwork/src/…` and `src/include/ws/…`.

## 1. Inventory

| Component | State | Operations | What makes it correct | Modelled in |
|---|---|---|---|---|
| `DBQueue` (Database.cpp) | `workQueue`, `finishQueue`, each under a mutex; a list of worker threads, each with `isExit` and a `Database` | `addRequest`, `getRequest`, `DBWorkThread`, `update`, `setThread`, destructor | no request is lost, duplicated or finished twice; order with one worker; the destructor drains; joins return | `RequestQueue`, `DBQueue`, `DatabaseProofs` |
| `Database` (Database.cpp) | the MySQL handle, the statement cache, the result sets not fetched yet, `lastRecords` | `logon`, `logoff`, `changeDatabase`, `prepare`, `query`, `nextRecord`, `getLastRecord` | the cache does not outlive the connection; the statements a request uses are its own and valid | `Database`, `DatabaseProofs` |
| `DBStatement`, `Recordset` (Database.cpp, database/Database.h) | bound parameters, result buffers, counters of parameters, columns and fields | `operator<<`, `clear`, `execute`, `nextRow`, `operator>>`, `skipFields` | what is read is what was stored, in its column | `DBStatement`, used by `Database`; `DatabaseProofs` |
| `Timer` (Timer.cpp) | a near wheel and four far wheels, `tick` (32 bits), `scheduleList`, `dispatchList` | `addTimeCall`, `delayCall`, `remove`, `update`, timer thread | timers fire neither early nor late, as often as asked, and after `remove` no more than the calls that were under way | `Timer`, `TimerProofs` |
| `ServerSocket` (ServerSocket.cpp, Linux) | epoll, `allClients`, `addingClients`, per client two buffers, two mutexes, `isClosing`, `hasNewData` | event thread, `update`, `send`, `kickClient`, `cleanup` | a connection is in one place; what comes in is delivered; output is sent once and in order; clients that close are destroyed | `ServerSocket`, `ServerSocketProofs` |
| `ServerSocket` (Windows) | a completion port, `ioDataPosted`, `ioDataPool`, and the clients as above | several event threads, `update`, `send`, `kickClient`, `cleanup` | an `OverlappedData` is in one pair of hands; accepts and receives are posted again; bytes keep their order | `ServerSocketIOCP`, `ServerSocketIOCPProofs` |
| `ServerSocket` (Apple) | a kqueue, and the clients as above | as on Linux | – | not modelled, see section 5 |
| `ObjectPool` (ObjectPool.h) | a list of free objects | `alloc`, `free` | one owner per object | `ServerSocketIOCP` |
| `ClientSocket` (ClientSocket.cpp) | `status` and `lastStatus` (no lock), `sockfd`, two buffers with mutexes | `connect`, `close`, `send`, `update`, worker thread | each `connect` is answered by a callback, closing is noticed, output is conserved | `ClientSocket`, `ClientSocketProofs` |
| `HttpQueue`, `HttpClient` (HttpClient.cpp) | as `DBQueue`, and a curl handle per thread | `init`, `addQueueMsg`, `update`, worker thread, destructor | as `DBQueue`, and nothing is carried over from one request to the next | `RequestQueue`, `HttpQueue`, `HttpQueueProofs` |
| `AStar` (AStar.cpp) | nodes that are kept between searches, `searchGeneration`, an open heap | `findPath` | a path that is returned is a way; one is found if there is one | `AStar`, `CoreProofs` |
| `EventDispatcher` (Event.cpp) | a `std::set` of listeners per type | `once`, `addEventListener`, `removeEventListener`, `dispatchEvent` | listeners are called as they were registered | `EventDispatcher` |
| `ByteArray` (ByteArray.cpp) | a block of memory, a read and a write position | `writeData`, `readData`, `seek`, `truncate`, `cutHead`, … | what is read or cut off is what was written, once | `ByteArray`, used by the sockets |
| `RingBuffer` (RingBuffer.cpp) | a block used in a circle, a read and a write position | `writeData` (grows), `readData`, `truncate` | bytes come out once and in order | `ByteQueue`, `RingBuffer`, `CoreProofs` |
| `Sonyflake` (Sonyflake.h) | the last tick and a sequence number of 8 bits | `nextId`, `machineId` | ids are unique and ascend | `Sonyflake`, `CoreProofs` |
| `Signal` (Signal.h) | a set of callbacks | `add`, `remove`, `notify` | callbacks may change the set | planned |
| `String`, `Utils`, `Math`, `TimeTool`, `Profiler` | none, or only measurements | – | – | not planned |

How they interact. A `DBQueue` worker owns a `Database` and passes it to
`DBRequest::onRequest`; `DBQueue` models of it whether it is connected, and
`Database` models what one worker does with it, for one request after the other.
A request prepares `DBStatement`s, which the `Database` caches and owns, and gets
`Recordset`s. The sockets keep their bytes in `ByteArray`s and are built from the
operators of that module; only the input of the Linux server is counted. The
Windows server takes its `OverlappedData` from an `ObjectPool` and hands them to
the system, the completion port and its threads. `Timer`, the queues and the
sockets share one pattern: background threads work, and the thread that owns
the object calls `update()`, which moves results out under a lock and runs the
callbacks without it. The callbacks may call the object again.

What is hard here: two or more threads in each of six components, flags and
numbers that are read without a lock, an edge-triggered epoll, workers that are
removed while they hold a request, connections that fail between any two steps,
counters that wrap, and state that survives from one use to the next (curl
handles, statements, path nodes). `PROJECT.json` lists these hazards with their
lines and with the properties that watch them.

## 2. Modules

Each module describes one component. Its variables are the members and the local
variables that live across steps, under the names of the source; a `Pc` variable
says where a thread stands. A critical section under one mutex that takes no other
is one step; what is done without a lock is split into one step per shared read or
write. Definitions whose comment says *mutated form* are variants with a bug that a
programmer could have made; nothing uses them in the specification. They are there
to see that the properties fail when the code is wrong.

* **RequestQueue** is the promise of both request queues: requests are started
  in the order of their addition, and each is run and delivered at most once, in the
  order of completion.
* **DBQueue**: `AddRequest` (any thread), `WorkerStep` (getRequest, the
  reconnect loop, onRequest and the push on `finishQueue`), `Update` and the
  main thread's steps (collecting, onFinish, setThread's growing and shrinking,
  the destructor's loop and joins), `ServerDown` and `ServerBack`. Callbacks
  may add requests.
* **Timer**: `TimerThread` is dispatch, `++tick` and expand; `Update`
  swaps the list. For each item of it update() first looks whether there is a
  callback (`Check`) and then calls it (`Call`), two steps with no lock; when a
  `Remove` has come in between, the call may also find an empty `std::function` and
  end the program (`CallEmpty`). `AddTimeCall` and `Remove` are
  called from any thread at any time. The sizes of the wheels are constants, and
  so is `Span`, the ticks in a turn of each wheel: the code's shifts by 8, 14, 20
  and 26 are divisions by it.
* **ServerSocket**: `EventThread` goes through accept, adoption, reads,
  writes; `MainThread` through update() and cleanup(); `Environment` has the
  kernel and the peers. `writeFromBuffer` runs on either thread and is one set
  of steps for both. Descriptor numbers are reused: `socket` says which connection
  the number of a client is now, as long as a client that was destroyed may still be
  written to; `close` frees it and `accept4` may give it out again (`FreeNumbers`).
  What then goes to another's peer is in `astray`. What the connections of a
  behaviour may do is chosen at the start, from the constant `Loads`.
* **ServerSocketIOCP**: `EventThread(t)` is one thread's way from
  GetQueuedCompletionStatus through the handlers of accepts, receives and sends;
  `MainThread` has startListen, update() and cleanup(); `System` completes what is
  posted, and the peers are free. Each `OverlappedData` is an element of `Datas`
  with its content in `ioData`; `ioDataPool` and `ioDataPosted` are sets of them.
  Handles of closed sockets are not reused (section 5).
* **ByteArray**: what the class does as operators on a record of bytes and read
  position; it has no behaviour of its own.
* **ClientSocket**: `Worker` connects, receives and sends; `UpdateStep` has one step
  per read of `status`, and reset() with its two locks. Bytes are numbered, so that
  loss, repetition and reordering show. The application may send at any status; the
  history `crossed` marks sessions in which a send of the one before has failed on
  the new socket.
* **HttpQueue**: as `DBQueue`, plus each thread's curl handle: the response
  it points to, whether POST is set, and the string that CURLOPT_POSTFIELDS
  points to. A request makes the calls of curlRequest that `Calls` gives it.
* **DBStatement**: binding, `clear`, `execute`, `nextRow`, the readers of columns
  and fields, `skipFields` and the conversion of times, as operators on records. A
  reader of a blob is given a `ByteArray` that is empty or holds something (`Gives`,
  `Keeps`, `Adds`). It has no behaviour of its own. The microseconds in a second, a
  minute, an hour and a day are constants.
* **Database**: one connection and a request after the other. The cache is a
  sequence in the order of `lastUseTime`. For each statement the module keeps the
  object (`stmt`) and, next to it, what the application has asked of it (`use`),
  so that what comes back can be compared with what was bound. `ofThis` and
  `stale` say which statements belong to the connection and which have a
  parameter of an older request.
* **AStar**: `findPath` with one step per round of its loop and one per parent
  that it follows back from the end (`FollowParent`); costs are
  in thousandths, and the choice among equal heap entries is free.
* **ByteQueue** is the promise of a byte buffer, and **RingBuffer** the class:
  cells, positions, the two copies of each read and write, and `expand`, which
  moves the part that ends at the old end of the block.
* **Sonyflake**: `nextId` as one step when it returns at once and as two
  (`Overflow`, `waitNextTick`) when it waits, with a clock that may go on
  before, between and after them. Its properties are proved; no run asks for
  them, because the sizes are literals and a run that wraps the sequence number
  is long. TLC agrees on two ticks and 259 ids.
* **EventDispatcher**: a tree of at most two entries, so that what a search
  by key finds in a set whose order was destroyed is exact.
* **MC…** modules extend a component's module with the sets of a run. **MCCore** has
  two that share nothing, `RingBuffer` and `AStar`, in one run: in a behaviour one
  of the two is used. The theorems about a component are in the module with its name
  and **…Proofs**, those about `RingBuffer`, `Sonyflake` and `AStar` in
  **CoreProofs**, and **SequenceLemmas** has what they share: facts about sequences
  without repetition, about cutting off or taking the first elements of one, and
  about what each operator of `ByteArray` does to the bytes that are unread.

## 3. What the runs check

| Run | Configuration | Question and answer |
|---|---|---|
| `dbqueue` | MCDBQueue.cfg: 2 requests, up to 2 workers, 3 calls of setThread, 1 outage | `ExactlyOnce`, `SingleWorkerFIFO`, `DrainedOnDestroy`, `LeavesEmptyHanded`, `Served`, `JoinsReturn`, and `DBQueue` implements `RequestQueue` |
| `timer` | MCTimer.cfg: wheels of 2, 2, 2 and 2 slots (a turn of 16 ticks), intervals of every kind, added at every tick, with 1, 2 or endless times | `InOneSlot`, `NeverLate`, `NeverEarly`, `CallsConserved`, `RemoveStops`, `Fires` |
| `server` | MCServerSocket.cfg: a chunk of 2, and four loads: 1 connection with 3 bytes in and 1 out; the same with 1 in and 2 out; an old client that is sent 1 byte and a new connection, which may get its descriptor number, with the next id in use and an accept4 that may fail; 2 connections when there is room for 1 | `Placed`, `InputNotStranded`, `OutputConserved`, `Delivered`, `ClosingEnds`, `CleanupReturns` |
| `server_iocp` | MCServerSocketIOCP.cfg: 2 threads, four loads: 2 bytes in and a peer that closes; 2 bytes out; 1 byte out and a connection that breaks; 2 connections when there is room for 1 | `OneHolder`, `StaysPosted`, `BytesInOrder`, `Served`, `CleanupReturns` |
| `server_cleanup` | MCServerSocketCleanup.cfg | *violated*: `CleanupDisconnectsAll` |
| `client` | MCClientSocket.cfg: 3 connects, 2 bytes in, 3 out at any status, a chunk of 2 | `ConnectUndisturbed`, `NothingHalfSent`, `BytesConserved`, `Answered`, `ClosedNoticed` |
| `http` | MCHttpQueue.cfg: a GET, a POST without parameters, and a request that makes a POST with parameters and then a GET; 2 threads | `NothingCarriedOver`, `Served`, implements `RequestQueue` |
| `database` | MCDatabase.cfg: limits 0 to 3 with 4 statements and limit 4 with 5; a statement of 2 parameters with every pair of 5 plain values and of 5 times; text queries with 2 layouts of fields | `HeldValid`, `StatementsCurrent`, `ReadBack` |
| `database_blob` | MCDatabaseBlob.cfg: two rows or two columns of blobs, read into one `ByteArray` | *violated*: `BlobReplaced` |
| `database_record` | MCDatabaseRecord.cfg | *violated*: `LastRecordIsLast` |
| `core` | MCCore.cfg: a ring of 2 cells that may double twice, writes of 1 to 3 bytes, two byte values; or 36 searches on six maps, three in a row, the generation wraps at the third | `TypeOK`, `RingBuffer` implements `ByteQueue`; `PathIsWay`, `FindsAWay` |
| `event_once` | MCEventDispatcherOnce.cfg: 2 listeners, 3 priorities | *violated*: `OnceCalledOnce` |

`dbqueue` and `core` also check a module's type invariant. In the other
modules it says what the variables hold, and is proved.

**The bounds.** Two requests and two workers are enough for every pair of steps of
two workers to meet, and for a request to overtake another; three resizes let a
worker be removed and replaced. A turn of 16 ticks makes every wheel carry into
every other and `tick` wrap while a timer is anywhere; timers do not influence each
other but by ending the program, so one is enough. Three bytes and a chunk of two
give the read loop a full round and a short one, and two bytes out a partial write.
The loads of a server run are separate because what they are about is: data needs
one connection, ids and limits need two and no data. Seven `OverlappedData` are
never all in use, and a pool that starts with one and keeps two grows, gives back
and deletes. Each limit of the cache up to 3 meets more statements than it holds,
and with a limit of 4 a fifth makes the cache evict two. A second of 4 units, a
minute of 8, an hour of 16 and a day of 32 make a small number carry into every
field of a MYSQL_TIME; two columns are enough for one to be shifted into the other,
and two rows for one to show up in place of the other. A request with two calls on
the handle of another makes each setting of the handle outlive its call. In a ring
of two cells that becomes one of four and of eight, every read position meets every
length and both kinds of growth, with the content in one piece and around the end.
Three searches with two generations bring back the nodes of the first search in the
third.

**Fairness.** Threads are scheduled (weak fairness of each thread's steps), and
the owner goes on calling `update()` and returns from the callbacks, as the
library requires. Beyond this: in `DBQueue` the server comes back after an
outage; in `HttpQueue` a transfer ends, for which the code sets a timeout; in
`ServerSocketIOCP` the system completes what has been posted to it and can
complete; in the sockets a thread that waits for a mutex which the other thread
takes and releases again and again gets it in the end (strong fairness of that
step).

**Assumptions about the environment.** SIGPIPE is ignored, so that `send` on a dead
connection returns an error. A second `::connect` on a connected socket fails. The
application of a `ServerSocket` keeps a pointer to each client it created as long as
the event thread may use it. The number of a descriptor that the server closed goes
to a connection that it accepts or to none of its own: what the rest of the process
opens is not modelled. An AcceptEx that was posted does not fail, and Windows does
not give the handle of a closed socket to the next one while a thread still uses it
(`HandlesNotReused`). A `DBRequest` does not keep a `DBStatement*` for the next
request, keeps what it has bound alive until it has executed, and reads a row after
`execute()` or `nextRow()` has returned true. The rows of a statement hold what it
was executed with, or NULLs.

### What the violated properties show

* `cleanup()` leaves connections that are still in `addingClients` open
  (ServerSocket.cpp:544).
* After a query with an empty result set `getLastRecord()` returns the records
  of an earlier query (Database.cpp:604).
* A change of priority through `once` or `addEventListener` breaks the order of
  the `std::set`; a once listener is then not found by `erase` and is called
  again (Event.cpp:14, :64).
* A blob that is read into a `ByteArray` which holds one already is appended to it,
  and a NULL leaves the old one there (Database.cpp:437-453); the comment at
  database/Database.h:413 says that the `ByteArray` is cleared and then written.

Met while modelling, and not contradicted by any statement of the code that
would make it an error. The models have these behaviours, and the properties are
stated so that they allow for them:

* update() looks at a callback and then calls it with no lock (Timer.cpp:40-42). If
  `remove()` resets it in between, on another thread, the call comes although
  `remove()` has returned, or an empty `std::function` is called, whose exception
  nothing catches. And `remove()` of a timer whose last call is already in
  `dispatchList` finds nothing, and the callback is called afterwards
  (Timer.cpp:22, :125). `RemoveStops` says that there are no more calls than these.
* `writeFromBuffer` does not look at `isClosing` (ServerSocket.cpp:594-606). When
  `update()` has destroyed a client and closed its descriptor (:629), and `accept4`
  has given the number to a new connection (:429) before the event thread comes to
  an `EPOLLOUT` of the old client in the same batch (:454-456), bytes that the old
  client still had go to the new one's peer. `OutputConserved` allows it for the
  bytes that were left when the client was destroyed.
* A peer that sends and then closes may have its last bytes dropped: when
  `update()` has passed `hasNewData` and then finds `isClosing`, it destroys the
  client without `onRecv` (ServerSocket.cpp:954, :965). `Delivered` excepts
  clients that are destroyed.
* After an error of `accept4` the connections that are left wait for the next
  one to arrive (ServerSocket.cpp:430), since epoll is edge-triggered.
  `NoLostConnection` excepts loads in which it may fail.
* `cleanup()`, which the destructor calls again, closes `pipe_fd` and
  `listenSocket` whether or not they are open, and 0 when `startListen` was never
  called (ServerSocket.cpp:541, :553).
* On Windows the results of WSARecv and WSASend are ignored: what is posted on a
  socket that the main thread has closed never comes back, and its
  `OverlappedData` stays in `ioDataPosted`. `OneHolder` allows it for closed and
  broken connections.
* Within one request a curl handle is not reset: a GET after a POST is sent as a
  POST (HttpClient.cpp:42), with CURLOPT_POSTFIELDS pointing into the string of the
  earlier call, which is gone (:46). `NothingCarriedOver` is about different requests.
* `changeDatabase()` keeps the cached statements, which stay in the old database;
  `StatementsCurrent` excepts connections on which it was called.
* A cache with a limit of 0 or 1 evicts nothing when it is full and grows
  (Database.cpp:563).
* `second_part` of a bound time_point is its ticks (database/Database.h:283), which
  are microseconds for time_points in microseconds only; TestDatabase.cpp:118 binds
  milliseconds. A duration comes back without its sign (Database.cpp:426 stores it).
  `ReadBack` excepts both.
* The readers of a `Recordset` do not pass a field that is no blob when a `ByteArray`
  is read. `ReadBack` stops at such a field; of blobs it compares those that were
  read into an empty `ByteArray`.
* `ClientSocket::send` takes bytes at any status (ClientSocket.cpp:217). If they are
  in the buffer when a `tryToSend` of the last session comes late, after reset() and
  before the new socket is connected, it reads from them and fails; the read
  position stays where it is, and in the next session `remain` (:124) counts what
  was read: the worker stays in the loop of `tryToSend` and keeps `writerMtx`.
  `crossed` marks this case. `NothingHalfSent` says that there is no other, and
  `Answered` and `ClosedNoticed` except it: without the exception TLC finds the
  loop.
* Two calls of `connect` may be answered by one callback, when the second comes
  before `update()` has seen the result of the first. `Answered` knows one flag.
* An OverlappedData of a Windows server is posted by handle: between a thread's look
  at `isClosing` (ServerSocket.cpp:101) and its WSARecv (:108) the main thread may
  close the socket (:379) and WSASocketW open another (:326). The
  module assumes that the handle is not the same (`HandlesNotReused`).

## 4. What is proved

Every theorem holds for all values of the constants that the assumptions allow.
TLC evaluates the assumptions in the runs:

* `DBQueueAssumption`, `HttpQueueAssumption`: the bounds are natural numbers,
  `NoRequest` is not a request, and `Calls` gives each request a sequence of GETs
  and POSTs.
* `RingBufferAssumption`: the sizes are natural numbers, the initial capacity
  is not 0, `Junk` is not a byte.
* `TimerAssumption`: wheels with at least one slot, far wheels with at least
  two, and `Span`, which starts with `Near` and grows by the factor `Far`.
* `StatementAssumption`: `NumParams` is a natural number, and the microseconds in a
  second, a minute, an hour and a day are positive and divide one another.
* `DatabaseAssumption`: a row and a result set at least, and loads of values,
  statements and fields of the kinds that the code knows.
* `ServerSocketAssumption`: finitely many connections, at least one id, a chunk
  that is not empty, `maxConnection` is not 0, and clients that are
  connected at the start have one id each.
* `AStarAssumption`: maps of at least one cell, with the blocked cells, the start and
  the end on the map, and at least two generations.
* `ClientSocketAssumption`: a chunk that is not empty, and bounds that are natural
  numbers.
* `IOCPAssumption`: finitely many connections and event threads, at least one
  thread, a chunk that is not empty, `maxConnection` and NUM_ACCEPTEX are not 0,
  and the pool starts with some of the `OverlappedData` there may be.

Next to what a run checks as an invariant stands the theorem that proves it:

| Module | Proved | Only model-checked |
|---|---|---|
| `DBQueue` | `TypeOK`, `ExactlyOnce`, `SingleWorkerFIFO`, `LeavesEmptyHanded`, `DrainedOnDestroy`, implements `RequestQueue` | `Served`, `JoinsReturn` |
| `HttpQueue` | `TypeOK`, `NothingCarriedOver`, implements `RequestQueue` | `Served` |
| `Timer` | `TypeOK`, `CallsConserved`, `RemoveStops`, `InOneSlot`, `NeverLate`, `NeverEarly` | `Fires` |
| `ServerSocket` | `TypeOK`, `Placed`, `InputNotStranded`, `OutputConserved` | `Delivered`, `ClosingEnds`, `CleanupReturns` |
| `ClientSocket` | `TypeOK`, `ConnectUndisturbed`, `BytesConserved`, `NothingHalfSent` | `Answered`, `ClosedNoticed` |
| `RingBuffer` | `TypeOK`, implements `ByteQueue` | |
| `Sonyflake` | `Unique`, `Ascending` | |
| `ServerSocketIOCP` | `TypeOK`, `OneHolder`, `StaysPosted`, `BytesInOrder` | `Served`, `CleanupReturns` |
| `Database` | `DatabaseTypeOK`, `HeldValid`, `StatementsCurrent`, `ReadBack` | |
| `AStar` | `AStarTypeOK`, `PathIsWay`, `FindsAWay` | |

`DatabaseProofs`, about `DBQueue`:

* `TypeCorrect`: `Spec => []TypeOK`. `TypeOK` is inductive. It has more than
  types: which threads are in which state, and that only the first
  `numWorkers` workers exist.
* `RequestsInOnePlace`: `Spec => []ExactlyOnce`. With `TypeOK`, `ExactlyOnce`
  is inductive: a request that moves is taken from one place and added to
  another, and what is added is new, because it is in no other place. One lemma
  per action that moves a request; all other actions leave the places alone.
  Lemmas about `Append` and `Tail` of sequences without repetition carry the
  argument.
* `OneWorkerKeepsOrder`: `Spec => []SingleWorkerFIFO`. The property is a single
  equation between sequences and inductive as it stands: every step moves the
  border between two neighbouring parts.
* `JoinedEmptyHanded`: the action property `LeavesEmptyHanded`, from `TypeOK`.
* `DestructorDrains`: `Spec => []DrainedOnDestroy`. Not inductive: what is true
  at the end follows from what each stage of the destructor leaves behind. The
  strengthening `DrainInv` says it stage by stage: once the destructor's loop is
  over, what is still in `workQueue` was added after it; the workers that were
  told to stop and joined have exited; and at the end all of them have, and
  `finishQueue` is empty. That an exited worker holds no request is in `TypeOK`,
  and with `ExactlyOnce` only the finished requests remain.
* `QueueImplementsAbstract`: `DBQueue` implements `RequestQueue`. The mapping
  is the one of the run; with `ExactlyOnce` as invariant, every step
  is an abstract step (adding, starting, completing, delivering) or a stutter.

and about `Database` and `DBStatement`, for any limit of the cache, any number of
statements, parameters, rows and fields, and any lengths of the units of time that
divide one another:

* `DatabaseTypeSafe`: `DatabaseSpec => []DatabaseTypeOK`, which is inductive. Next to
  the types it says that no statement is twice in the cache or in what the request
  holds, and that a statement which is not cached is as a new one.
* `StatementsCurrentSafe`: `DatabaseSpec => []StatementsCurrent`, inductive with the
  types: `logoff()` empties the cache, and `prepare()` clears what it finds cached.
  The lemmas say what moving a statement to the end of the cache and evicting from
  its front leave of it.
* `HeldValidSafe`: `DatabaseSpec => []HeldValid`, about the eviction. That the last
  statements of a request are cached is not inductive: it has to be known where in
  the cache they stand. `EndsWith` says that the end of the cache, from the first
  statement of the request on, is all of the request, in its order and at least as
  far apart in what it has prepared as in the cache; `HeldFar`, that a statement which
  is neither cached nor freed is far from the last that was prepared. With `EndsWith`
  the position of an evicted statement gives that distance.
* `ReadBackSafe`: `DatabaseSpec => []ReadBack`, in two halves. `ColumnsInv` says of
  each statement that the bound parameters are those the request asked for
  (`AskedBound`), that the rows are those of the last execution, with NULLs, and
  that the columns were read one by one (`RowsRead`). `FieldsInv` says of a text
  query that each field of a row has the data of its own index and that what was
  read of a field is its own, as long as no field was read as a blob that is none.
  Like `ReadBack` they say nothing of the sign of durations, of the fraction of
  time_points in ticks between a microsecond and a second, of reads into a
  `ByteArray` that holds data and of rows that are fetched after `clear()`.
  `TimeComesBack`, `DateTimeComesBack` and `DateComesBack` are the arithmetic of the
  conversions: the parts that a time is cut into make the same time again, because
  every unit divides the next.

`HttpQueueProofs`:

* `TypeCorrect`: `Spec => []TypeOK`, inductive; a thread has a request exactly
  while it performs one.
* `NothingLeaks`: `Spec => []NothingCarriedOver`. The property speaks of calls
  that have been sent, so it follows from what the handle held before each.
  The strengthening `CleanHandles`: a thread's handle points to the
  response of the request that the thread performs; it is set to POST only if an
  earlier call of this request was a POST, and `CURLOPT_POSTFIELDS` points to
  nothing or to a string of this request; between two requests it is as after
  `curl_easy_reset`. `CurlCarry` is the lemma about one call, `WriteCarry` about
  one piece of a response.
* `HttpQueueImplementsAbstract`: `HttpQueue` implements `RequestQueue`, with the
  mapping of the run, step by step. `InOnePlace` is what `ExactlyOnce` is in
  `DBQueue`: without it, a request that a thread completes could be one that is
  completed already.

`TimerProofs`, for wheels of any sizes, any number of them, and any timers:

* `TypeCorrect`: `Spec => []TypeOK`; inductive together with `OnlyGiven`, no slot
  holds an id that `addTimeCall` has not given out.
* `EachCallOnce`: `Spec => []CallsConserved`. `Counted` adds to it that a callback
  is reset exactly for the timers `remove()` found, and that `remainTimes` of a
  timer with finite times never falls below 0.
* `RemovedIsSilent`: `Spec => []RemoveStops`, of finite and of endless timers. `Silent`
  adds to `Counted`, timer by timer (`SilentOne`), what makes it inductive: of a
  timer that `remove()` found, what is late and the call that update() has checked
  are together no more than what was owed, because a later check finds no callback; of
  one that it did not find, the same holds with all calls on their way, because it is
  in `scheduleList` no more and no wheel will dispatch it again (`Ended`, and so
  `Wheels`).
* `EachInOneSlot`, `NoneLate`, `NoneEarly`: `InOneSlot`, `NeverLate` and
  `NeverEarly` from one invariant, `Wheels`. It says of every scheduled timer
  where it stands (`Waits`): in `near`, in the slot that `tick` reaches
  when the rest of the interval (`Left`) has passed, or in `far[l]`, in the slot
  of that tick's digit for wheel `l`, and so that this slot is opened before the
  rest is over but not before what remains fits the wheels below. The digit says
  where, and the inequality says when; neither is inductive alone, because
  `expand` needs the second to know which wheel the first puts the timer in.
  `Alive` and `Ended` say that what is in `scheduleList` still has calls
  to make and that what is in a slot without being in `scheduleList` has none.
* The lemmas are arithmetic of numbers with digits of different weights
  (`ModMod`, `ModDigit`, `Nested`, `ZerosBetween`): the slots that `expand` opens
  are those of the wheels whose lower digits are all 0. Where they need induction
  over the wheels, they take the smallest counterexample (`Smallest`).

`ServerSocketProofs`, for any number of connections, ids and bytes:

* `TypeCorrect`: `Spec => []TypeOK`; inductive together with `Control`, which says on
  which client each thread works where it stands.
* `NothingStranded`: `Spec => []InputNotStranded`. With `TypeOK` and `Control` its
  parts about the kernel, `NoLostEdge` and `NoLostConnection`, are inductive. The
  part about `readerBuffer` is not: that the event thread is in its read loop is no
  promise that it will set `hasNewData`, which it does only when it has received
  something in this loop. `Announced` says so.
* `OutputInOrder`: `Spec => []OutputConserved`, with descriptor numbers that are
  reused. `OneWriter` says that the holder of `writerMtx` is the thread that is
  between `send` and `cutHead`; `Numbered`, byte by byte, that what has left (`Out`:
  on the wire to the client's peer, then astray) and what is in `writerBuffer` goes
  on in order, where the bytes that are sent and not cut yet (`InHand`) are in both;
  and `Strays`, that only a destroyed client has bytes astray: until then its
  descriptor number is its own. `SendNumbers` and `CutNumbers` are the lemmas about
  one `send` and one `cutHead`.
* `EachInOnePlace`: `Spec => []Placed`. `Apart` splits what has been accepted
  into the one that the event thread has in hand, `addingClients`, those with an
  id and the destroyed ones, pairwise apart; only the second and third are
  watched by epoll; and `update()` and `cleanup()` visit clients that have an id and
  none twice. `DisjointSum` turns this into the sum that `Placed` states.

`ClientSocketProofs`, for any number of sessions and bytes:

* `TypeCorrect`: `Spec => []TypeOK`, in three parts that are inductive one after
  the other: `StatusOK`, `InputOK`, `OutputOK`.
* `ConnectAlone`: `Spec => []ConnectUndisturbed`. `Asking`: while the status is
  CONNECTING, so is `lastStatus`, so that `update()` sees no change and does
  not reset; during a reset the status is DISCONNECTED throughout.
* `EachByteOnce`: `Spec => []BytesConserved`. Two inductive equations: what was
  delivered, is buffered, in the worker's hands (`Taking`) and in the socket is
  the increasing sequence of the bytes that arrived and were not dropped; and the
  same for the output. `Sending` is needed for the second: `tryToSend` never
  counts less than there is to send, and so cuts only what it has sent.
* `SendingBeginsClean`: `Spec => []NothingHalfSent`, at whatever status the
  application sends. `HalfSent` says where a session that failed half-way through a
  write still stands: only on a dead socket, until the reset, or in a session that
  is `crossed`; and that a session is crossed only when bytes were sent while the
  socket was not connected, which excludes applications with `SendsWhen \subseteq
  {"CONNECTED"}`.

`ServerSocketIOCPProofs`, for any number of connections, event threads,
`OverlappedData` and bytes:

* `HeldOnce`: `Spec => []OneHolder`. The invariant is `Posting`: `Control` ties each
  thread's local `ioData` to where it stands; `Hands` says that
  what the system, the port or a thread holds is in `ioDataPosted` and what is there
  is not in the pool; `Apart` and `Once` that no two of them hold the same one; and
  `Labels` what the operation and the client of each say, by where it
  is. None of the parts is inductive without the others: that a handler may release
  what it serves needs `Apart`, which needs that `createOverlappedData` never takes
  one that is in use (`Hands`), and which handler comes next is read from the label.
  `Lost` adds that what is in nobody's hands belongs to a connection that has ended.
  There is one lemma for each way in which an `OverlappedData` moves (`AcceptPosted`,
  `Taken`, `Released`, `ReceivePosted`, …), shared by the actions that move it
  so.
* `NeverDeaf`, and with it the first half of `KeepsGoing`: `Accepting` counts the
  accepts that are under way or completed, the threads that will post one,
  and the calls startListen has left; each step moves one from a set to the next.
* `Rearmed`, the other half: `OneReader` says that a client has at most one
  `OverlappedData` on which its input depends, first that of the accept and then
  that of the receive, and none before it was accepted; `Members` where a client is
  when (so that `addClient` does not make a known client known again); `Kept` that a
  client that is neither closing nor broken has a reader, and that a reader is released
  without a new receive only for one that is closing or destroyed.
* `InputKeepsOrder`: `Found` and `Input`. What the one reader of a client carries
  are the bytes between those that were delivered or stored (`Got`) and those
  that the system has received (`Received`), in the system's completion as well as
  in each thread's hands until `writeClientBuffer`; elsewhere the two counts are
  equal. It is `OneReader` that makes this inductive: a second reader could
  store its bytes in between.
* `OutputKeepsOrder`: `Output`. The operations under way cut what the peer
  has not got into runs (`Splits`); `flushClient()` adds one at the end and
  a completed WSASend takes the first. That `writerBuffer` is read only while it is
  flushed is needed for `Flush`, which starts from position 0.
* `OrderKept` puts the two together: `Spec => []BytesInOrder`.

`CoreProofs`, about `RingBuffer`:

* `WriteLayout` and `ReadLayout` are the lemmas that matter: in terms of the
  cells counted from the read position, a write leaves those in use as they are
  and puts its bytes behind them, whether the block grows, its content goes
  around the end, or both; a read takes cells from the front. `GrowKeepsCells`
  is the part about `expand`, `Wrap` what `%` does to a position.
* `TypeCorrect`: `Spec => []TypeOK`. Needs the strengthening `Filled`, every
  cell in use was written; otherwise a read could deliver a cell that never was.
* `RingImplementsQueue`: `RingBuffer` implements `ByteQueue`, step by step from
  the layout lemmas.

and about `Sonyflake`:

* `IdsUniqueAndAscending`, for machine numbers of 16 bits and any bound of the
  clock. The invariant `Ordered`: the pairs (tick, sequence number) of the ids
  ascend lexicographically, the last one is at most that of the object's state,
  and while `waitNextTick` waits the whole tick is used up. `EarlierIds` is the
  arithmetic: an earlier pair makes another id, whatever the machine numbers.

and about `AStar`, for maps of any size, any number of searches and generations:

* `AStarTypeSafe`: `AStarSpec => []AStarTypeOK`; inductive with `SearchOK`, of which the
  part that matters is that no node has a generation beyond `searchGeneration`. A
  search that begins is therefore the only one of its number (`SearchNodes`), also
  when the number has wrapped, because the nodes are cleared then.
* `FoundPathIsWay`: `AStarSpec => []PathIsWay`, that is, a path is a way and the loop
  over the parents comes to an end. `Tree` says of each node that was reached that
  its parent is closed, costs less and is a step away; closed nodes do not change, so
  this stays. From the end, the costs on the way grow (`Following`), no cell is on it
  twice, and only the start has no parent.
* `WayIsFound`: `AStarSpec => []FindsAWay`. `Frontier` says that all around a closed
  node are reached, and that one that is reached and open is in the heap with the cost
  that it has now: a round throws away the entries that cost less than the one it
  takes, and these are stale. When the heap has none that is live, what was reached
  is closed under steps and does not have the end (`NoWay`), so the end is
  not in every such set, which is how `Solvable` defines that it can be reached.

Each of these invariants was checked with TLC on a small instance before it was
proved; those of `Timer` on three shapes of wheels, of 2 and 3 slots and
with two and three far wheels.

With this every invariant that a run checks is proved, and so are the action
properties and the refinements. Only model-checked is liveness, which is out of the
proof system's reach: `Served`, `JoinsReturn`, `Fires`, `Delivered`, `ClosingEnds`,
`CleanupReturns`, `Answered` and `ClosedNoticed`. That the loops of `findPath` end
is not stated as liveness: its rounds are counted, and `PathIsWay` bounds the other
loop. `EventDispatcher` has a property that is violated, and no other; neither
`BlobReplaced`, `LastRecordIsLast` nor `CleanupDisconnectsAll` can be proved, being
violated.

## 5. What is not modelled

* The Apple version of the event thread, which is unfinished: its
  `readIntoBuffer` receives at the read position, over bytes that were not read,
  and the events prepared with `EV_SET` are never given to `kevent`. A model could
  only restate that.
* Errors of epoll_wait and epoll_ctl on valid descriptors, and AcceptEx failing.
* Applications that drop a `ClientPtr` while the event thread may use the client:
  the access is then undefined.
* Of `ByteArray`: growth, `cutTail`, numbers, strings, hexadecimal text, attached
  memory and `swap`; of `RingBuffer`: copies, moves, `swap` and `readString`, which
  with a length of 0 copies all that is in use into an empty string
  (RingBuffer.h:121-127).
* On Windows, a socket handle that is closed and given out again between two steps of
  a thread that still uses it; of the Linux server, descriptors of the rest of the
  process.
* Of `DBStatement` and `Recordset`: the allocation of result buffers and
  truncated data, reading into a wider type than the column's,
  `Recordset::getBlob`, affected rows and insert ids. Of `Database`: `commit` and
  `rollback`, which only reach MySQL.
* `setConfig` of `DBQueue`, which changes nothing that is modelled, and the
  building of query strings in `HttpClient`.
* `Signal`, planned with `EventDispatcher`, whose model is of one type of event
  and at most two listeners.
* Costs and heuristics other than the defaults in `AStar`. Costs are exact
  there, whereas the code adds doubles; two sums that differ in the last bit
  may push a node once more.
* `String`, `Utils`, `Math`, `TimeTool`: functions of strings and floating
  point numbers, without state. `Profiler`: measurements that nothing uses.

## 6. Plan

1. `Signal` with `EventDispatcher`, on trees of any size.
2. A composition of `DBQueue` with `Database`: a worker's cache through
   outages and resizes.
