# d3b in TLA+

Specifications of d3b, a document store in C++: clients insert and modify
documents in *storages* inside transactions, and query them through *views*
whose order is computed by JavaScript. The interesting part is the server under
`src/shard/`: a transaction engine with a write-ahead log, drivers that
interleave reads with commits, a B-tree on top of a page cache, and a small
runtime of event loops and thread pools beneath all of them.

Paths begin with `src/`, the checkout of the repository.

## 1. The system

### Components

| component | source | state | operations |
|---|---|---|---|
| transaction engine | `src/shard/src/db/engine.cpp`, `include/db/engine.hpp` | `p_activeTransactions`, `p_submittedTransactions`, `p_submitQueue`, `p_nextTransactId`, `p_currentSequenceId`, storages and views | `transaction`, `update`, `submit`, `submitCommit`, `commit`, `rollback`; `ProcessQueueClosure`; `loadConfig` with `ReplayMetaClosure` and `ReplayDataClosure`; `createConfig`, `createStorage`, `createView`, `unlinkStorage`, `unlinkView`, `fetch`, `query` |
| write-ahead log | `src/shard/src/ll/write-ahead.cpp` | one file of hashed entries | `log`, `replay` |
| queued storage driver | `src/shard/src/db/storage-driver.cpp` | `p_sequenceQueue`, `p_fetchQueue`, `p_requestPhase`, `p_activeRequests`, `p_currentSequenceId` | `sequence`, `fetch`, `finishRequest`; `ProcessClosure` |
| queued view driver | `src/shard/src/db/view-driver.cpp` | the same with `p_queryQueue` | the same with `query` |
| FlexStorage | `src/shard/src/db/flex-storage.cpp` | data file and its pointer, index tree, `p_lastDocumentId` | `allocate`, `reinspect`, `processInsert`, `processModify`, `processFetch` |
| B-tree | `src/shard/include/ll/btree.hpp` | blocks in a page cache, file head (root, depth, number of blocks) | `insert`, `findFirst`, `findNext`, `findPrev`, iterators |
| page cache | `src/shard/src/ll/page-cache.cpp` | `PageInfo` of each page (flags, use count, wait queue, buffer); `CacheHost`: list of alive items, footprint, limit | `readPage`, `initializePage`, `writePage`, `releasePage`; `requestAcquire`, `releaseItem`, eviction |
| tasks and event loop | `src/shard/src/ll/tasks.cpp`, `src/shard/src/os/linux.cpp`, `src/shard/src/main.cpp` | queue and `EventFd` of each thread, its epoll set; `running`, `p_shutdown` | `submit`, `increment`, `wait`, `process`, `wake`, `shutdown` |
| sockets | `src/shard/src/os/linux.cpp` | `p_readReady`, `p_writeReady` of a `SockStream` | `tryRead`, `tryWrite`, `EpollCallback` |
| files | `src/shard/src/os/linux.cpp` | none of their own | wrappers of the system calls |
| random access file | `src/shard/src/ll/random-access-file.cpp` | none of its own | `read`, `write` by pages |
| JsView | `src/shard/src/db/js-view.cpp` | order tree, pool of V8 instances | `processInsert`, `processModify`, `processQuery` |
| API server | `src/shard/src/api/server.cpp` | for each connection: the packet being read, `p_sendQueue`, `p_sendOffset`, `p_mutex` | `onReadReady`, `onReadTls`, `processMessage`, `postResponse`, `onWriteRaw`, `onWriteReady`; one closure for each request type |
| TLS, crypto, Node.js client, tests | `src/shard/src/ll/tls.cpp`, `crypto.cpp`, `src/client-nodejs`, `src/tests` | | |

### How they interact

A client's request arrives on a TLS socket that belongs to the main thread, which
cuts the stream into packets and calls the engine (`processMessage`); the engine calls the
closure of the request back on whatever thread it is, and the closure posts
responses under the connection's mutex. `submit()`,
`commit()`, `rollback()` and `submitCommit()` only change the state of the
transaction and queue an item under `p_mutex`; after the unlock they signal
`p_eventFd`. One `ProcessQueueClosure`, running in the process pool, takes the
items one by one. A submit is checked against every submitted transaction, then
each constraint is checked by a `fetch` from the storage driver, then the log is
written, then the client's callback is called. A commit gets a sequence id, is
logged, and is then handed to `sequence()` of *every* storage and *every* view.

`sequence()` and `fetch()` of a driver again queue and signal; the driver's one
`ProcessClosure` alternates between a request phase (fetches run side by side)
and a sequence phase (it alone applies commits). Applying a mutation inserts a
pair of document id and sequence id into the index B-tree; a fetch uses `findPrev` to get the newest
version that is not above the sequence id it was given. The tree
reads blocks through the page cache, which all trees and files share and which
reads and writes pages in an I/O pool of its own.

All of these calls and callbacks are tasks in the queues of three threads, the
main thread and two workers, each of which sleeps in `epoll_wait` until the
`EventFd` of its queue, or a socket, wakes it.

A transaction is shared by the engine and by every storage and view it was handed to, and
freed by the last of them (`refDecrement`).

When the server starts, `loadConfig` reads which storages and views there are
from the file `config`, empties them, and rebuilds everything from the
write-ahead log, once for the engine and once for each storage and view.

### What is hard, and what makes each part correct

* **Engine.** Requests of several clients queue while the loop is between an
  unlock and a wait; the loop looks transactions up that another request might
  have ended; a crash can fall between the log entry and its effect. Correct
  means: a commit a client was told of survives; a submitted transaction can
  still be committed after a crash; what was promised since the start never clashes;
  every log the engine can write can be replayed; no signal is lost.
* **Drivers.** Neither tree nor page cache has a lock against readers, so
  readers must be kept out while a commit is applied; `unqueueRequest` is a set
  of tasks on two threads of which one must continue the loop. Correct means:
  answers come from whole commits, in order; the loop exists once; nothing
  queued is forgotten.
* **B-tree.** Splits at three levels, with several entries of one key, a left
  link in a third block, and a find that has to step to the neighbour. Correct
  means: it is a balanced search tree that holds what was inserted, its leaves
  are linked in order, finds answer like a sorted list, and every page that was
  read is released (but for some that `findNext` keeps).
* **Page cache.** A page is evicted, written back and asked for again, in
  critical sections with unlocks between them. Correct means: no write is lost,
  a user has a loaded buffer, the use count is right, no page escapes the limit,
  and every read is answered unless another operation keeps that very page.
* **JsView.** Inserts and queries share a few script instances and keep them
  while they wait for a storage, whose queue of commits is not the view's.
  Correct means: instances are neither lost nor shared, every query ends, and a
  query returns the last version of each document, once and in order.
* **Event loop.** A task is pushed while its thread is about to sleep; a worker is told to
  end while it is; a descriptor may be in the epoll set only while nobody waits
  for it twice. Correct means: no wakeup is lost, a task runs once and in order, and the
  process ends when it is asked to.
* **Connection.** Packets are cut anywhere; responses of several threads go to one socket that
  takes a part of them; edge-triggered events come once. Correct means: packets
  arrive as sent, responses leave whole and in the order of their encryption, every
  request is answered, and the main thread always comes back to its loop.
* **References.** A counter without a lock, changed on several threads. Correct means:
  it counts the references, and the transaction is freed with the last.
* **Catalog.** Several files are written one after another, indices change with
  every start, and views and transactions know a storage by its index. Correct means: every crash
  leaves a database that can be started, which has what clients were told of, and views
  follow their storage.

`PROJECT.json` lists every hazard at its line with the properties that cover it.

## 2. The modules

| module | what it is |
|---|---|
| `CommitHistory` | abstract: what the engine promises about prepared, committed and acknowledged transactions |
| `Engine` | the engine, its log, crash and restart |
| `MCEngine`, `Engine*.cfg` | constants for TLC |
| `EngineProofs` | type correctness; the engine's inductive invariants, of the requests and of the log, and what follows; that `Engine` implements `CommitHistory` |
| `SequencedStore` | abstract: what a storage promises the engine |
| `QueuedDriver` | the queued storage driver with FlexStorage's lookup |
| `MCQueuedDriver`, `DriverSafety.cfg` | constants for TLC |
| `QueuedDriverProofs` | its inductive invariants, and that it implements `SequencedStore` |
| `Btree`, `MCBtree`, `BtreeSafety.cfg` | the tree, one step for each block an operation visits |
| `ViewQuery`, `MCViewQuery`, `ViewQuery.cfg` | inserts and queries of a JsView, its pool of instances, the storage it reads |
| `ViewQueryProofs` | its inductive invariants; that settled queries find their documents and are exact |
| `PageCache`, `MCPageCache`, `PageCache.cfg` | the page cache, one action for each critical section |
| `PageCacheProofs` | its inductive invariant, and that no write is lost |
| `TaskQueues` | abstract: what everybody expects of the task queues |
| `EventLoop`, `EventLoop.cfg` | threads, task queues, `EventFd` and epoll, shutdown |
| `EventLoopProofs` | its inductive invariant, and that it implements `TaskQueues` |
| `Connection`, `MCConnection`, `Connection.cfg` | one connection of the API server on its socket |
| `ConnectionProofs` | its inductive invariants; that packets arrive as sent and responses leave in order |
| `TransactionRefs`, `MCTransactionRefs`, `TransactionRefs*.cfg` | who keeps a transaction alive |
| `TransactionRefsProofs` | its inductive invariant: the counters are exact |
| `Catalog`, `Catalog.cfg` | which storages and views there are, in memory and on the disk |
| `CatalogProofs` | its inductive invariant |

A component's module has its state, its actions and the properties the runs check. The
inductive invariants, which only the proofs need, are at the beginning of the proof modules.

The modules are stacked as the components are, and each sees the next lower one
through what that one promises. `Engine` sees a storage as the set of commits
handed to it and the sequence id up to which it has applied them
(`StorageApply`, `Found`); `SequencedStore` states exactly that, and `QueuedDriver` is proved to
implement it. `QueuedDriver` sees the index as a set of keys with an
atomic insert and lookup, which is what `Btree` is shown to provide when an
insert runs alone, which in turn is `ReadersExcluded`. `ViewQuery` sees both drivers as
`SequencedStore` describes them, and the order tree as the sorted sequence that
`SearchTree` and `IterationComplete` say it is. `Btree` sees blocks that
keep their content, and says which pages it keeps in use (`PagesHeld`); `PageCache` is proved to
keep content, and assumes nothing about what its users release. All modules above let a
task that was submitted run at some later time; `TaskQueues` states that, and
`EventLoop` is proved to implement it. `Connection` sees the engine as somebody
who calls a closure back on any thread, once for each response and once to end,
which is what `RequestsAnswered`, `StallsOnlyOnMissedWakeup` and `QueriesEnd` are
about. `TransactionRefs` and `Catalog` look at a part of the engine that `Engine` abstracts:
there a transaction is a value and the set of storages is fixed.

### Engine

One action is one critical section of the code or the stretch between two
asynchronous calls. `Enqueue` is the part under `p_mutex` of the four request
functions, `Signal` the `increment()` after the unlock, so `unsignalled` counts
the calls that are between the two. `pc` says where the closure is: `process`
(it may look at the queue), `empty` (it has unlocked and not yet called `wait`),
`wait`, `check` (it is checking constraint `index`), `logged` (the entry is
written, `afterWriteAhead` has not run). Requests and the entries they leave:

| action | code |
|---|---|
| `BeginTransaction`, `UpdateMutationInsert`, `UpdateMutationModify`, `UpdateConstraint` | `transaction`, `update`, with `allocate` of the storage |
| `Submit`, `SubmitCommit`, `Commit`, `Rollback`, `Signal` | the request functions |
| `FindEmpty`, `Wait`, `WakeUp`, `Dequeue` | `ProcessQueueClosure::process` |
| `ProcessSubmit`, `ProcessSubmitThrows`, `CheckConstraint`, `SubmitFailure` | `processSubmit`, `submitCheckConstraint`, `checkStateOnFetch`, `submitFailure` |
| `LogSubmit`, `ProcessCommit`, `WriteAhead` | taking a sequence id and writing the entry |
| `SubmitComplete`, `CommitComplete`, `ProcessRollback` | `submitComplete`, `commitComplete`, `processRollback` |
| `StorageApply` | a storage finishes an entry of its sequence queue |
| `Crash`, `Stop`, `Restart` | end of the process at any step; `loadConfig` with both replay closures |

Four variables are history only: `acked`, `promised` and `rolledBack` are what clients
were told (a promise with the mutations and constraints it was made for), `restored`
the transactions that `loadConfig` took from the log.

The model follows the code where the code is surprising: `submitted` keeps the
id of a rolled-back transaction, `.at()` then throws and ends the process
(`ProcessSubmitThrows`); `matchSequenceId` is not compared; a plain submit takes
a sequence id that it does not log; replay turns a `Modify` into an `Insert`;
every storage gets every mutation. Clients call a function only for
a transaction in the state the function asserts: what a client does that breaks an
assertion is outside the model.

### QueuedDriver

`sequenceQueue`, `fetchQueue`, `activeRequests` and `requestPhase` are the
members of the class. `tasks` is the number of `unqueueRequest` tasks in the
pool, so `pc = "unqueue"` while the closure is nothing but those tasks. A fetch is
`active` from `processFetch`, `answered` when its callback has been called
(`Answer`), and gone after `FinishRequest`, which decrements the counter and, as
in the code, signals nobody. `ProcessMutation` applies one mutation of a commit,
so that a fetch could see half of a commit if the phases let it.
`QueuedViewDriver` is the same text with queries for fetches; the safety part
of the module holds for it as it stands.

### Btree

A block is a record of entries and references. `task` holds the block an
operation has read, the parent an insert keeps, and the index of the child.
`InsertSplitRoot` and `InsertSplit` are `maybe_split_block` with the chain of
callbacks behind it (`splitLeaf`, `splitInner`, `fixParent` and their
`OnInitialize` and `onReadRightLink` steps): the insert is alone in the tree, so
nobody sees the tree between those callbacks, and the tree is observable again
when the next block is looked at. `held` is the set of pages that the last operation
has read and not released: each action has the `releasePage` and `readPage` calls of its
lines (`releaseThenRead`, `readFirst`), with the conditions the code makes them under (the parent if there
is one, `parentOf`; in `findNextOnFoundChild` only for the first and the last child,
`betweenSeparators`). Pages that are initialised or read, written and released within
one step (the new blocks of a split, the next leaf) are not held between steps. `Seek`, `Forward` and
`EndIteration` are `IterateClosure`, set to what the last find returned; `steps`
counts how often it has gone forward.

### PageCache

Every action is one critical section of `CacheHost` or `PageInfo`, or one task of the I/O
pool. `call[p]` says which call on page `p` a thread is about to make
(`acquire`, `insert` into the list, `release`, `finish`): threads are not
modelled one by one, any call that has begun may go on at any time, which
is every schedule of any number of threads. All pages of the system are 4096
bytes, so the footprint is a number of pages, and the loop of `requestAcquire`
runs at most once. `onAccess` is never called, so the list is a queue. The
branch of `initializePage` for a page that is present cannot be reached: a block
number is initialised once.

### ViewQuery

`committed` is what the engine has committed; the view has applied as many of
them as `tree` has links, the storage `storageApplied`. `ApplyInsert` is
`processInsert` up to `grabInstance`, `CompleteInsert` the script, the key and
the insert into the order tree, during which the view's driver lets nobody read
the tree. A query goes through `Start` (`processQuery`), `FindBegin`, and then
`FetchItem` and `Fetched` (or `Throw`) for each link, as in the code, with a
fetch from the storage between the two: here other queries, the storage and the
engine may move. `Active` are the requests that the driver counts and
that keep it from applying commits.

What the code does here and a reader may not expect: a `to_key` is taken for the
`from_key` (`server.cpp:430-433`), so there is no end key; `p_fetchedCount` is
never initialised, so a query with a limit counts from any number
(`MaxGarbage`); a fetch that finds nothing ends the process. If the storage has
applied less than the view, a query may return an old version, or the same version from
two links; if the view has applied less, it misses what it has no link for.
`SettledQueryExact` is therefore about queries for which, when they start, both
have what they ask for (`settled`): later commits must not disturb those. What such a query must
return is defined from the commits alone (`LastVersions`): of each document the last version up
to the one asked for, if its key is not below `fromKey`. The items must be
among those and in order, and with a limit what is missing may only come behind the
last item.

### EventLoop

`pc[t]` is where a thread is in `threadMain` (or the loop of `main`),
`LocalAsyncHost::process` and `LocalTaskQueue::process`; `current` is the task
or socket callback it runs. `Submit` is the push under the mutex, `Increment` the
write to the `EventFd` after the unlock; `FindEmpty` is the unlock, `Wait` the
`EPOLL_CTL_ADD` after it. `batch` holds the events `epoll_wait` has returned and the thread has
not dispatched; `WakeUp` is `EpollCallback`: it takes the descriptor out of the
epoll set, resets the counter and drains the queue again. `Shutdown` and `Wake`
are the two writes of `WorkerThread::shutdown`, and `Join` is the end of `main`.
Callbacks are whatever submits tasks: any thread to any queue. `begun` records
the tasks in the order in which they ran, for the refinement.

### Connection

Data are counted in units, so that every cut of the stream can occur: a head
is two units, a body as many as its packet says, a TLS record two. The main thread goes
through `dispatch` (`EpollCallback` with the events it was called for), `read`
(`onReadReady`), `deliver` (`onReadTls` with what the channel has decrypted), `flushLock`
and `flush` (`onWriteReady`). A thread that posts goes through `post`, `check`
(is the queue empty?), `write`, `again` (`write()` has failed, `p_writeReady` is still set),
`push` and `release`. `edge` is the ready list of epoll, `noSpace` what the kernel remembers of a
`write()` that found the socket full: reading by the peer is an event only then.

`processMessage` answers some requests itself (`Immediate`), with the mutex taken by
`postResponse`; the closures of the others are called back by any thread
(`OnData`, `Complete`, `Throw`). The channel answers handshakes and alerts from
within `readRaw`, that is without the mutex (`AnswerHandshake`); `raced`
remembers that it did so while a worker wrote, and what follows from it is
undefined. `Close` is what the client of the repository does, the end of its
side of the stream.

### TransactionRefs

`refCount` is the counter, `op[p]` what a party is doing to it: it has called
(`load`), or it has read the value and has not written it back (`store`). `References` counts
who holds a pointer: `p_activeTransactions`, a driver's queue and the item it
applies, `ReplayClosure`, and calls under way. Replay runs before all others, so there a
step is one action. `raced` are the objects two parties were at, at
the same time.

### Catalog

`config`, `dirs`, `descriptors`, `settings`, `submits`, `commits` and `logFile` are the files of a database, and
each action writes one of them, so that the process can end (`Crash`) between any two;
`writeFileSync` is two actions for `config`, since it empties the file first. `storages` and `views` are
`p_storages` and `p_views`, with `NoName` for what was unlinked. `job` is
the request under way, `told` what clients know: nothing, that they have asked, or the answer.
`accepted` are the commits a view has not filtered out, `base` the index it
compares with.

A transaction has one mutation here, and is where that mutation's storage is known: by
its index in `open` (it was updated) and in `submitted` (in memory), by its name in
`submits` (the `Submit` and `SubmitCommit` entries). `commits` are the
transactions with a commit in the log, `delivered` how many of these were handed out.

| action | code |
|---|---|
| `Update` | `parseMutation` and `updateMutation`: an insert needs the storage's driver, a modification is accepted with the index -1 |
| `Submit` | `writeAhead` of a `Submit` or `SubmitCommit` entry, which asks the driver for the name |
| `Commit`, `Deliver` | `writeAhead` of a `Commit` entry, which asks for no name; `commitComplete`. A storage may be unlinked before and between them |
| `Rollback`, `Abandon` | `processRollback` (nothing is logged), `submitFailure` |
| `LoadConfig` | both replays: what has no commit in the log is submitted again, under the index its storage has now, and all commits are handed out again |

`Linked` is the `SelectSeq` that `writeConfig` does, written out by the rank
of each name that is kept: the prover does not know `SelectSeq`. Requests the code refuses throw, and end the process: that is `Crash`.

## 3. What is checked

| run | asks | result |
|---|---|---|
| `engine_safety` | two transactions with conflicting constraints, interleaved with the loop, a storage that lags, crashes at every step and restarts; is a signal of `p_eventFd` ever lost? | holds, 607 thousand states |
| `engine_rollback` | are the ids in `p_submittedTransactions` active transactions? | **violated** |
| `engine_resurrect` | does a rolled-back transaction stay gone? | **violated** |
| `driver_safety` | two fetches, asked again and again, and two commits in every order; is everything served, a missed wakeup apart? | holds, 534 thousand states |
| `btree_safety` | ten inserts of three keys in every order, finds and iterations in between | holds, 144 thousand states, depth 59 |
| `page_cache` | two operations on three pages with room for two | holds, 165 thousand states |
| `view_query` | two queries and two commits with one instance, storage and view at their own pace, crashes and restarts | holds, 767 thousand states |
| `event_loop` | main and two workers, two tasks, a socket, a shutdown at any time | holds, 76 thousand states |
| `connection` | every kind of request, reads that cut packets anywhere, a socket that fills, a worker beside the main thread, a client that closes its side | holds, 82 thousand states |
| `transaction_refs` | replay of two logs, then commits to two drivers that may be unlinked: is the counter exact while nobody races? | holds, 190 thousand states |
| `transaction_refs_race` | is the counter above 0 whenever it is decremented? | **violated** |
| `catalog` | two names for storages and one for views, created and unlinked, with transactions that are updated, submitted, committed and rolled back before, between and after, and the end of the process between any two writes | holds, 2.7 million states, depth 49 |

### Properties of the runs that hold

*Engine.* `LogReplayable`: replay never meets a commit without its submit.
`RequestsServable`: a queued request finds its transaction in the state the loop
asserts, and no two requests are for the same one. `SubmittedCompatible`: of what two clients were promised since the start of the
process, neither's constraints and the other's mutations clash; it compares
the promises as they were made, not what the engine has of them. Transactions of
before the start (`restored`) are excepted, because for them it is false. `StoragesFollowLog`: storages
have been handed what the log commits, before and after a restart.
`AckedSurvives`: a commit a client was told of is there whenever the process
runs. `PromiseKept`: a transaction whose submit succeeded stays submitted with
its mutations, or is committed, over crashes; of its constraints it says nothing. `InsertsFresh`: no document is
inserted by two logged transactions.
`ImplementsHistory`: the log, read as prepared and committed transactions,
implements `CommitHistory`, in which a crash is a stuttering step.
`RequestsAnswered`: no transaction stays for ever in a state in which its request is
queued, unless the storage does not answer a constraint check for ever; a process
that ends takes its requests with it.

*Driver.* `ReadersExcluded`, `OneClosure`, and
`ImplementsStore`: whole commits in order, and every answer is what the whole
commits applied so far say. `StallsOnlyOnMissedWakeup`: the missed wakeup is the
only way in which a fetch or commit can be left waiting. It is stated of one fetch,
since fetches differ in their names only.

*Tree.* `SearchTree`: separators bound the keys below them at every step of an
insert, all leaves are at `p_curFileHead.depth`, the leaves hold what was
inserted, entries of one key in the order of their inserts, and left and right
links run through the leaves in order.
`AnswersCorrect`: finds agree with the definition over the inserted entries.
`IterationComplete`: an iterator meets every entry from where it was set, once
each and in order, and ends after the last.
`PagesHeld`: an operation under way holds the pages whose buffers it has, which the
cache could delete otherwise, and no others; when it is done it holds none. Only `findNext` holds
more, and these are inner blocks.

*Page cache.* `NoWriteLost`: who uses a page has in its buffer what was written
last, and what the file does not have is in the buffer of a dirty page.
`PagesAccounted`: no page escapes the limit or is released twice, and use counts are right.
`ReadsServed`: every read is answered, whatever is evicted in between, unless some other operation
keeps that very page for ever. A page that is kept keeps nobody else from his.

*Views.* `InstancesAccounted`: no instance is lost or taken twice, nobody waits
while one is idle, and an insert never has to wait, since it runs when all queries have ended.
`SettledQueryExact` as above; `SettledQueryFinds`: such a query can only fail over a
document that is newer than it asks for. `QueriesEnd`: a queued query comes to an end,
however many queries wait for the one instance.

*Event loop.* `NoLostWakeup`: a thread that is not looking into its queue is or will be
signalled for what is in it, and a sleeping worker for its shutdown. `EventFdUsed`:
a descriptor is never added to the epoll set twice, a sleeping thread has its own in it, and
`read()` never finds a zero counter. `ImplementsQueues`: the loops implement
`TaskQueues`, with its liveness: every task is begun, once and in order, unless
its thread ends. `ShutdownEnds`: once it was asked to, the process ends.

*Connection.* `FramesAsSent`: however the stream is cut, `processMessage` gets
the packets that were sent. `StreamIntact`: what was encrypted is on the wire, in the
queue or in the hands of one writer, in order and without a gap.
`RequestsServed`: a request that was read is answered, but for the cases it names (an exception ends the
process, the client has closed its side, a lost edge, the unlocked writer).
`MainReturns`: the main thread comes back to its loop, but for the loop at the
end of a stream.

*References.* `RefsExact`: without a race the counter is the number of
references, and the transaction is deleted with the last one; only what a
replay has left is never deleted.

*Catalog.* `AlwaysLoadable`: whenever `config` is there, what it names is complete, so the next start succeeds.
`NamesSurvive`: the next process has what was answered, and nothing that was
unlinked or never asked for, unless `config` was torn.
`ViewsFollowStorages`: a view has accepted the commits to its base storage and no
others, over unlinks, crashes and shifted indices: also of transactions submitted under one index
and committed under another, or committed when their storage is gone.

### Disagreements between code and documentation

1. `processRollback` looks for `kStateSubmitted`, which `rollback()` has already
   overwritten (`engine.cpp:760`, `engine.cpp:282`): the id stays in
   `p_submittedTransactions`, and the next submit throws.
2. Rollback is not logged: a transaction that was submitted and rolled back is
   submitted again after a restart (`engine.cpp:751`).
3. `refIncrement` and `refDecrement` change `p_refCount` without a lock on
   several threads, so that the assertion `p_refCount > 0` (`engine.cpp:384`)
   fails, or a transaction is freed while a driver reads it.

These have a run of their own. The following are stated by the exception that a
property of a passing run makes, which says exactly where the code is right.

4. `finishRequest()` does not signal the closure that waits for it
   (`storage-driver.cpp:65`): queued fetches can wait for ever
   (`StallsOnlyOnMissedWakeup`).
5. `findNext` does not release an inner block when it goes to a middle child
   (`btree.hpp:752`, `PagesHeld`): who
   asks for such a page while it is to be evicted waits for ever (`KeptForEver` in `ReadsServed`).
6. A query throws, and ends the process, when the storage does not find a
   document the view has a link for (`js-view.cpp:532`): one whose commit is
   still in the storage's queue, or one that is newer than the sequence id
   the query was given (`SettledQueryFinds`). A fetch in the request phase overtakes a queued
   commit (`storage-driver.cpp:47`), which is what lets the storage lag.
7. A client that closes its side of the connection keeps the main thread in `onReadReady`
   for ever: `tryRead` returns 0 and `p_readReady` stays set (`server.cpp:113`,
   `MainReturns`).
8. `p_writeReady` is cleared after the failed `write()` (`linux.cpp:212`): an edge
   between the two is lost, and what is queued is never sent (`LostEdge` in `RequestsServed`).
9. The channel writes from `readRaw` without the mutex (`raced` in `StreamIntact`).
10. `writeConfig` empties `config` before it writes it: a process that ends there leaves a database
    without storages and views, against `src/README.md:10`, "If a transaction
    completes it will stay in the database even if the server crashes" (`torn` in `NamesSurvive`).
11. After a start a view on a storage that is gone gets the commits of every storage that is gone, since
    both have the index -1 (`ViewsFollowStorages`).
12. Replay restores a submitted transaction without its constraints, and with each
    modification as an insertion (`engine.cpp:404-430`): after a restart a transaction that clashes
    with it is submitted beside it, where `engine.hpp:17-20` has an error
    for each direction of the clash (`restored` in `SubmittedCompatible`).

Some follow from the code without a property: after a crash
`allocate()` gives out ids again that it had given to transactions not yet
logged, against `storage-driver.hpp:50` (`InsertsFresh` says that logged
documents are safe); a replay leaves the unfinished transactions of each pass
allocated (`kept` in `TransactionRefs`); the name of a storage that was unlinked, or whose creation a
crash cut short, cannot be used again, because `mkDir` throws; a submit for
a storage that was unlinked after the update, or of a modification that named none, asks
`nullptr` for its name (`engine.cpp:796`), while a plain commit does not ask; and `p_storages` and `p_views` are changed by requests on the main thread while
`commitComplete` iterates them on another.

### Bounds

* `MaxTransact`, `MaxDocument`, `MaxMutations`, `MaxConstraints` bound the
  engine. Conflicts are between two transactions, a version of a document is
  contended by two, and the log's hazards are in the order of two entries of one
  transaction with those of another; two transactions with one mutation and one
  constraint each reach all actions of the loop, both directions of a conflict,
  and a crash between any two steps. `Offered` are the constraints that clients
  add: one on the existence of the document that is inserted first, and one on its
  version. `Modified = {1}` lets them modify that document only: a mutation of
  the other transaction is then on the same document (`Modify`) or on another one (`Insert`),
  which is all that `Clash` tells apart. A crash is
  not bounded: a restarted process may stop again any number of times. The runs that look for a violation have a third
  transaction, to be submitted after the damage, and no constraints.
* `MaxSequence`, `MaxMutations` and `Fetches` bound the driver: two commits of
  two mutations let a fetch fall between mutations and between commits; two
  fetches let one be active and the other queued. `MaxCallers = 1` bounds the callers
  that have unlocked and not yet signalled. One is enough: the `EventFd` is a
  flag here, and a second signal that comes later wakes the closure for
  nothing, as one that comes after its item was taken does with a single caller. Requests end and their names are used
  again, so runs are not bounded in length, only in commits.
* `EntsPerLeaf = EntsPerInner = 4` is the smallest the constructor asserts; ten
  inserts make the root split as a leaf and as an inner block and inner blocks
  below the root split. Three keys give duplicates that span several leaves.
* `Limit = 2` pages for three page numbers and two operations make eviction,
  write-back and a page asked for while it goes common. `MaxWrites = 1` makes a page dirty
  once; reads before and after it, each with eviction, tell old content from new.
* `Instances = 1` (5 in the code) makes two queries compete for one; an
  insert needs one too. Two commits of `MCMutations`, two documents of which one can come with either
  of two keys, give a document with two links, under one key or under two of which only one is
  in the range of the query, links out of the order of commits, and a document newer than a
  query asks for. With the limit 1, counting from 0, 1 and 2 (`MaxGarbage`) stops
  a query in time, at once, and never. Queries and restarts are not bounded in number.
* `NumWorkers = 2` is what `main.cpp` has. Two tasks can be in one queue or
  in two, and one be submitted while the other runs; `MaxTasks` is a bound on the tasks of a
  whole run, so that `submitted` is finite.
* `Sessions` have every kind of request. One has two requests, so that one is read
  while another is answered, or one request and another record of the channel
  beside the handshake: `MaxRecords = 3` bounds both together. Bodies of 0, 1 and 2 units with heads of 2 and reads of up to 4
  units (`MaxChunk`) cut packets inside of heads and bodies and join them. `SendBuffer = 3` takes one record and a
  part of the next. `MaxRows = 1` is one
  response of a query before the last. One worker is the second thread, and a third
  would wait for the same mutex.
* `NumDrivers = 2` are a storage and a view; the logs have a transaction that is
  not finished, one that was committed at once and one that was committed
  later. `MaxObjects = 7` bounds what is allocated: three passes over a log take six,
  and a transaction is made after them; the proof is for any number.
* Two names for storages let indices shift and a view be on the one or
  the other; `MaxSubmits = 2` is the bound on the transactions in the log: two can be about both storages or about one,
  be submitted side by side and committed in the other order, the one before the view is made and the
  other beside it, or either of them after a restart; updates and rollbacks are not bounded.
  One view is enough for its own base, and a second one only shifts its index, which nobody
  keeps. Crashes and restarts are not bounded. Names are not
  used again, because the code cannot.

`CHECK_DEADLOCK FALSE` is set where the system does stop. The driver stops
when all commits within the bound are applied, and in the missed wakeup;
the event loop when the process has ended; a connection when the process has ended or its client
is done; the references when the bound on objects is reached; the catalog in a database directory that
`--create` has left unfinished. All others are checked for deadlock.

### Fairness

* Engine: weak fairness of the loop and of `Signal`. The process pool runs any task
  it has, and a call that has unlocked goes on to its `increment()`. There is
  none for clients, storages, `CheckConstraint` (it waits for a storage),
  crashes or restarts.
* Driver: weak fairness of the closure, of `Signal`, and of each answer and its
  `finishRequest` (a read from disk returns). None for callers: progress that needs
  somebody to call again is no progress.
* Event loop: weak fairness of each thread's own steps and of the exit of `main`: threads are
  scheduled and callbacks return. None for sockets, submissions, or the request
  for a shutdown.
* Connection: weak fairness of threads; of `Complete`, since the engine answers what it
  was asked; and of `PeerReads`: a client that waits for its answer reads. None for
  what clients send or whether they close.
* References and catalog: none, since only safety is stated.
* Views: weak fairness of the insert, of `Start` (the view's driver starts what
  is queued once no insert is under way) and of a running query (the storage answers).
  None for clients, commits, the storage's progress, crashes, and none for `ApplyInsert`.
* Page cache: weak fairness of threads, of the I/O pool and of queued completions. Nothing
  is assumed of clients: they may keep a page for ever, as `findNext` does, and then only
  the readers of that page may wait. They ask for pages in ascending order (`MayAsk`),
  as the tree goes from parent to child and from leaf to neighbour; without an
  order two operations could hold what the other waits for.

## 4. What is proved

The proofs hold for all values of the constants that satisfy the named
assumptions of each module:

| module | its assumptions say |
|---|---|
| `Engine` | bounds are naturals; offered constraints and modified documents have their types |
| `QueuedDriver` | fetches are finitely many; 0, which stands for "no document", is not one; bounds are naturals |
| `EventLoop` | numbers of workers and tasks are naturals |
| `PageCache` | pages are finitely many numbers, `NoPage` is not one; clients are finitely many; the limit is more than one page, as `requestAcquire` asserts |
| `Connection` | workers and bounds are naturals, reads and the send buffer at least one; sessions are sequences of requests |
| `ViewQuery` | queries are finitely many, and none is the insert; keys and limits are naturals; there is an instance |
| `TransactionRefs` | logs are sequences of entries; bounds are naturals |
| `Catalog` | names of storages, names of views and `NoName` differ; the bound on submits is a natural |

So: any number of storages, transactions, documents, fetches, commits, workers, tasks,
pages, clients, queries, instances, requests of a session, drivers and names. Every bound that a run
gives a value is a constant here. In all modules the theorem `...Safety` states the inductive
invariant (`ShapeAlways` and `FramesAlways` in `ConnectionProofs`); the properties of the runs follow from it. Every such invariant
was first checked by TLC on the run of its module: an MC module that extends the proof module
instead of the model can name it in its configuration.

### The engine

* `EngineProofs!TypeCorrect`: `Spec => []TypeOK`. One lemma for each group of actions;
  the lemmas about `PreparedOf`, `CommitsOf` and `DocumentIdsOf` say what reading
  a log yields, for `Restart`.
* `EngineProofs!Safety`: `Spec => []EngineInv`, and from it
  `LogAlwaysReplayable`, `RequestsAlwaysServable` and `AckedAlwaysSurvives`.
  None of these is inductive alone. That a `Commit` entry follows its
  `Submit` needs that the transaction is in `submitted` when its commit is served
  (`RequestsServable`), and that what is in `submitted` and in memory has an unfinished `Submit` in the
  log (`StateMatchesLog`); after a crash memory is rebuilt from the log, so the
  log alone must imply it (`LogWellFormed`: an id is submitted once and
  committed once). Between the write and its completion the log is one entry
  ahead of memory, which `LastEntryIsItem` and the exception for
  `Completing(t)` account for. `AckedLogged` carries acknowledged commits over the time in
  which the process is down, when `AckedSurvives` says nothing. The key lemmas are about
  appending: `AppendSubmitWellFormed`, `AppendCommitWellFormed`, `UnfinishedAppended`.
* `EngineProofs!LogSafety`: `Spec => []LogInv`, on top of `EngineInv`, and from it
  `StoragesAlwaysFollowLog`, `SubmittedAlwaysCompatible`, `PromisesAlwaysKept` and `InsertsAlwaysFresh`.
  - A storage is handed the mutations that are in memory, and a restart hands
    over those in the log: they have the same targets (`MutationsMatchLog`), and
    sequence ids are those of the log because commits are logged in their order,
    below the counter (`CommitsOrdered`).
  - `SubmittedCompatible` is a statement about two transactions that were checked at different
    times, and about what the clients were promised. Two invariants meet. `ActiveCompatible` says that
    the copies in memory do not clash: `ItemCompatible` carries the result of `ProcessSubmit` over the fetches of the constraints
    and the write, in which clients may go on: a submitted transaction gets no more mutations
    and constraints, and nobody else joins `submitted`, since the loop serves one item at a time.
    `PromisesCurrent` says that what is in memory of a promise is the promise, constraints and
    modifications included, unless the transaction is in `restored`: that is where replay has changed it, and where the theorem ends.
  - `PromiseKept` is stated for a process that is up. `PromisesLogged` says that a promise is in the
    log, which a crash leaves alone, and that no rollback of it is queued; a queued rollback has
    taken the promise back.
  - `InsertsFresh` is about the log only; a new entry is as fresh as the
    transaction it is of (`DraftsFresh`): ids come from a counter that is above
    all that were given. A crash resets the counter to the log's largest id, and no draft outlives it.
* `EngineProofs!EngineImplementsHistory`: `Spec => ImplementsHistory`. `LogSubmit`
  maps to `Prepare` (for a `submit`) or `PrepareAndDecide` (for a `submitCommit`), `ProcessCommit`,
  which writes the commit's entry, to `Decide`, and `CommitComplete`, which answers both kinds, to
  `Acknowledge`; all others stutter, `Crash` and `Restart` among them, since the mapping reads the
  log. What an append adds to `PreparedOf` and `CommitsOf` are the lemmas it rests on.

### The storage driver

* `QueuedDriverProofs!DriverSafety`: `Spec => []DriverInv`, and
  `ReadersAlwaysExcluded`, `AlwaysOneClosure`, `FetchesAlwaysAccounted`, `TypesKept`. Readers
  are excluded because the counter is the number of running requests
  (`FetchesAccounted`) and new ones queue outside of the request phase
  (`PhaseMatchesClosure`); that a queue with no duplicates is taken apart by
  as many tasks as it has entries, plus one, is `Unqueued` and `OneClosure`.
* `QueuedDriverProofs!StoreSafety`: `Spec => []StoreInv`. The index holds the keys of the commits up to
  `currentSequenceId` and of the mutations already done of the commit under way, and
  nothing else (`StoredIsApplied`); commits are sequenced in order, and the driver's queue is
  what it has not applied of them (`CommitsInOrder`).
* `QueuedDriverProofs!DriverImplementsStore`: `Spec => ImplementsStore`. `Sequence` maps to `Sequence`, `Fetch`
  to `Ask`, `Answer` to `Answer`, `FinishRequest` to `Close`, `FinishSequence` to `Apply`;
  the rest stutters, `ProcessMutation` too, which makes half a commit visible
  in the index. That an answer comes from whole commits is where the two invariants meet: a fetch
  is answered only while no commit is under way (`ReadersExcluded`), and then
  the index is that of the whole commits (`StoredIsApplied`).

### Event loops

* `EventLoopProofs!LoopSafety`: `Spec => []LoopInv`, and from it `TypeCorrect`,
  `WakeupNeverLost` and `EventFdAlwaysUsed`. `NoLostWakeup` is not inductive
  alone: it needs that a thread whose descriptor is in the epoll set is not draining
  (`ThreadsConsistent`), that a wakeup in `batch` still has its
  counter (`EventFdUsed`), and that only the main thread is at `wake`.
* `EventLoopProofs!QueuesImplemented`: `EventLoop` implements `TaskQueues` for any number of
  workers and tasks (the safety part, `Init` and `[Next]`). Tasks are numbered
  in the order of their submission (`TasksNumbered`), so a new one is `Fresh`;
  `TakeTask` is `Begin`, the end of a thread is `Stop`, all else stutters.

### Page cache

* `PageCacheProofs!CacheSafety`: `Spec => []CacheInv`, and from it
  `PagesAlwaysAccounted`, `WritesNeverLost` and `WaitersNeverForgotten`. `PageInv` says for
  each page who takes its next step (`BeingRead`, `BeingWritten`, `BetweenLives`, `Usable`),
  so that no two threads are at it, and that a buffer which differs from the file belongs to
  a dirty page which is loaded or being written. `NoWriteLost` needs it because
  an eviction clears `loaded` and `release`, and leaves `dirty`, before the buffer is written. `ClientInv` says that who waits is in one
  queue. `UsesCounted` ties the count to the clients.

### Views

* `ViewQueryProofs!ViewSafety`: `Spec => []ViewInv`, and from it
  `InstancesAlwaysAccounted` and `SettledQueriesFind`. That the insert never waits for an instance
  (`InsertAlone`: it runs when no request is active, so all instances are idle) keeps an insert
  and the queries from waiting for each other. A settled query finds its documents because every link of the tree is that of
  a commit (`LinksCommitted`) and the storage does not fall back behind the query (`QueriesPlaced`).
* `ViewQueryProofs!ExactSafety`: `Spec => []ExactInv`, on top of `ViewInv`, and from it
  `SettledQueriesExact`. A query goes through the tree by position, so its result is right only
  because the tree stands still while it runs (`InsertAlone`). `TreeExact` says that the tree has one link of each commit
  that was applied, ordered by key and then by commit; `Passed`, that the items are the last
  versions among the links in front of the query's position, and that all links from there on are in its
  range. What `onFetchComplete` drops is no last version, and what it keeps is one (`HitIsLast`): the storage has
  applied all that the query asks for, so a fetch finds the newest commit it may see.
  Later commits, inserted before or after it runs, are newer than it asks for and change none of its `LastVersions`.

### Connection

* `ConnectionProofs!ShapeAlways`: `Spec => []ShapeInv`: types; who is in `postResponse` or `onWriteReady` has the mutex
  (`WritersTakeTurns`), units to write are only with a thread in `onWriteRaw`, which, while nothing has raced, writes
  only past an empty queue (`OutputHeld`); `p_readReady` is set exactly in `onReadReady`
  (`ReadInOnePlace`); a head or body that is full is handled at once (`BuffersOpen`).
* `ConnectionProofs!FramesAlways`: `Spec => []FramesAsSent`, by `FramesInv`. `FramesAsSent` speaks of packets that
  are handled; the invariant says of all others where they are. What `onReadTls` has of a packet (`Got`) is a
  beginning of the next one, and in what is still to be read (`Stream`) each packet that is not handled
  stands behind the one before it, whole, with nothing between but records
  of the channel (`Laid`: where each begins, below 0 for the one of which a part was read). A
  read cuts the stream anywhere and leaves that as it is.
* `ConnectionProofs!StreamAlways`: `Spec => []StreamIntact`, inductive beside `ShapeInv`. The offset is inside of the
  first entry of the queue, so popping an entry and advancing the offset take the same units from
  the front; `onWriteReady` works on the queue and `postResponse` appends to it or writes past it when it is
  empty, one at a time. The
  property ends where the mutex does: `readRaw` answers a handshake through `onWriteRaw`, which does not take it (`raced`).
* `FlattenSeq` is a recursive function, so what it yields for every sequence cannot be shown by
  induction. The lemmas about it take the least length at which it would fail (`Smallest`) and refute that one.

### References

* `TransactionRefsProofs!RefsSafety`: `Spec => []RefsInv`, and `CountersExact`. The references are counted as
  sets, and each step moves one from one set to another: out of `active` and into a call under
  way, from the call into a queue, out of the queue and into `applying`. A counter is
  exact as long as whoever is at it is alone and what he has read is still there (`CountersAlone`).
  `ReplayAlone` says that the replay, whose steps are not split, shares none of
  its objects with anybody; `CommitInForm` that the engine keeps its own reference while it takes those of the drivers,
  so that the counter does not reach 0 in between.

### Catalog

* `CatalogProofs!CatalogSafety`: `Spec => []CatalogInv`, and from it `TypesKept`, `LoadableAlways`,
  `NamesSurviveRestarts` and `ViewsStayWithTheirStorages`. `FilesComplete`: what is in memory or in `config` has its files, but for the
  descriptor of what is being created, which therefore must be written before `config` is.
  `NamesKnown`: memory is what clients were told, and `config` is behind by the one request that is served.
  `BasesRight`: the index a view compares with is that of its storage, or of nothing; it holds although
  indices shift at a start, because `Linked` keeps each name and drops only those
  that were unlinked (`LinkedKeeps`), and because a name that was used has a directory and cannot be used again (`NamesOnce`).
  `TransactionsRight` says the same of a submitted transaction: its index is that of the storage its entry in the log names,
  unlinked or not, or -1 after a start without that storage. So a view and a commit agree on the index exactly if they agree on the name.

### Only model-checked

* The liveness properties and `ENABLED`: out of reach of the prover.
* `Btree` (`SearchTree`, `AnswersCorrect`, `IterationComplete`, `PagesHeld`): blocks refer to each other by number,
  and what a block stands for is a recursive function along those references. An invariant that is
  inductive must describe trees of any depth in the middle of a split, that is, facts about every
  path from the root, each of which needs an induction over the depth. The least-counterexample
  argument of `Connection` is of no use there, since a split changes a whole path at once.

## 5. What is not modelled

* Partly written log entries and loss of power: `fdatasync` is commented out
  (`write-ahead.cpp`), so the log survives the end of the process and not that of
  the machine. `Engine` models the former.
* The contents of documents, the data file of a storage, hashes, encodings, the
  wrappers of file operations.
* Scripts, the key file and removed documents of a JsView; mutations for
  another storage than the view's; several views.
* The initialisation of a fresh tree beside its first reader: planned, see below.
* Of a connection: decoding of requests (a request that cannot be parsed is answered
  like the `Immediate` ones), the files of `UploadExtern` and `DownloadExtern`, a
  connection that is reset or closed in both directions (`EPOLLHUP`), several
  connections at once: they share the threads and the engine, nothing else.
* Botan, certificates and the hash functions: libraries. The Node.js client and the
  tests: outside.

## 6. Plan

Done, in this order: `CommitHistory` and `Engine`, first theorem, the engine's
invariant; `SequencedStore` and `QueuedDriver` with its invariant; `Btree`;
`PageCache`; iterators in `Btree`; `ViewQuery`; `TaskQueues` and `EventLoop` with invariant and
refinement; `Connection`; `TransactionRefs`; `Catalog`; the proofs of `LogInv`,
`ImplementsHistory`, `ImplementsStore`, `CacheInv`, `ViewInv`, `CatalogInv`, `RefsInv`, `ConnectionInv`
and `ExactInv`.

Next, proving more: of `Btree`, that a step outside of an insert leaves the tree alone and keeps the
position of every iterator valid; then, level by level, what an insert changes.

Then, extending the model:

1. `FreshTree`: `createTree` on a page cache and an event loop, in which the root's
   initialiser and a replayed insert are in a race; composition of `PageCache`
   with a minimal tree.
2. Engine: several storages.
3. `ViewQuery` as a refinement of what a view promises, and with two views.
