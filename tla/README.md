# MegaTree: a verification project in TLA+

MegaTree stores very large point clouds in an octree. The nodes of the octree
are grouped in *node files*; a C++ library keeps a cache of node files between
the octree and a storage back end (a directory or HBase), import programs add
points, a FastCGI server hands files to browsers, and a JavaScript viewer loads
and draws the cells in view. These modules model the parts where an error is
hard to provoke in a test: the cache and its callbacks on storage threads, the
thread pools, the arithmetic and bookkeeping of adding points, the queries that
work on files still being loaded, and the viewer with its asynchronous query,
its camera, its jobs and the servers behind them.

## Inventory

| component (source) | state | operations | interacts with | hard because | correct when |
|---|---|---|---|---|---|
| node-file cache: `megatree.cpp`, `node_file.cpp`, `node_handle.h`, `cache.h` | LRU list and hash of NodeFiles, their states, use counts and modified flags, `current_cache_size`, `current_write_size` | getRoot, getChildNode, createChildNode, releaseNode, flushCache, cacheMaintenance, callbacks, destructor | calls `Storage`; storage threads call it back | two kinds of mutex, unlocked counters, callbacks in any order, a file requested again while it is being evicted | no file is deleted in use; no change is lost; calls end |
| thread pool: `function_caller.h` | queue of functions, threads, `running` | addFunction, execFunctions, destructor | runs DiskStorage's reads and writes | waits and notifications, destruction at any moment | each function is called once, in order; no lost wakeup |
| `HbaseStorage` | two queues, ten readers, one writer | getAsync, putAsync, batches, destructor | HBase; runs the cache's callbacks | batches, missing rows, a flag set without the lock | every request is answered; writes of a row keep their order |
| adding points: `tree_functions.cpp/.h`, `node.h`, `node_geometry.h` | counts, summary points, children; TreeFastCache's stack of handles | addPoint, TreeFastCache, queryRange | node-file cache | truncation, accuracy limits, summaries that lag behind, modified flags | counts are exact, summaries near the mean, queries complete |
| `rangeQueryLoop` | queue of handles, some not loaded | process, move to back | node-file cache, `List` | files that arrive or leave at any step | same result as the blocking query; no handle leaks; ends |
| `list.h` | linked nodes | push, pop, moveToFront/Back, splice, erase | used by cache and query loop | pointers | a list |
| viewer query: `frustum_querier.js`, `megatree.js`, `index.js` | queue, requests in flight, timers, correction level | triggerFrustum, processQueue, processCell, responses | server, LRU cache, page | timers and answers in any order, re-entry, stale queries | the page shows each part in view once, and settles |
| `lru_cache.js` | list and lookup object | put, get, clear | `getCell` | pointers at the limit | an LRU cache |
| page of the viewer: `index.js`, `road_detection.js`, `selection.js`, `megatree.js`; tile server: `server.cpp` | trees shown, jobs, selection, requests under way, served trees | start, addTree, toggleTreeMode, mouse and keys, start and remove a job, polls, serveNewTree, getMetaData | two servers, frustum query, camera | the user acts between any two answers; polls repeat by timers; requests fail, are lost or are never answered | one job at a time, its result shown once; the query is about the trees enabled now; jobs end |
| camera: `orbitcam.js`, `velocityprofile_*.js` | pose, old values, ids of motions, timers, near plane | setters, goto, stopProfile, timers, mouse, wheel, keys | triggers the frustum query | timers of motions that were stopped or replaced; many small steps below a threshold; profiles stretched, of length zero | the query follows the view; one motion at a time; motions end; profiles reach their end |
| `VizStorage`, `streaming_server.cpp`, `blocking_queue.h` | queues | convert, send | storage, browsers | a shared format | not modelled |
| `long_id.h`, `allocator.h`, `storage.h`, `storage_factory.cpp`, `sort_las.cpp`, `import_*.cpp`, `metadata.cpp`, `compression.h`, tools | | | | numeric edges | not modelled, or in part |

`PROJECT.json` lists every component with its status and every hazard at its
line, with the properties that cover it.

## Modules

| module | models | notes |
|---|---|---|
| `MegaTreeCache` | the node-file cache, one client thread, the storage threads | core module |
| `MCMegaTreeCache` | instances of it | files below one root file |
| `MegaTreeCacheProofs` | theorems about it | part 1: types, use counts, no use after delete; part 2: what the callbacks find; part 3: where the contents of nodes are |
| `AsyncExecutor` | what a pool promises: functions are taken in order, each once | abstract |
| `FunctionCaller` | `function_caller.h` | implements `AsyncExecutor` |
| `FunctionCallerProofs` | theorems about it | |
| `HbaseStorage` | `hbase_storage.cpp` | readers and writers together implement two `AsyncExecutor`s |
| `HbaseStorageProofs` | theorems about it | |
| `Octree` | addPoint, TreeFastCache, queryRange on `node.h` | |
| `OctreeProofs` | a theorem about its modified flags | |
| `RangeQueryLoop`, `MCRangeQueryLoop` | `rangeQueryLoop` | |
| `RangeQueryLoopProofs` | theorems about its handles and its results | |
| `ListSpec`, `LinkedList`, `MCLinkedList` | `list.h` | pointers implement sequences |
| `LRUSpec`, `LRUCache`, `MCLRUCache` | `lru_cache.js` | pointers implement an LRU sequence |
| `FrustumQuerier`, `MCFrustumQuerier` | `frustum_querier.js` with `getCell` and the camera trigger | |
| `FrustumQuerierProofs` | theorems about it | |
| `Viewer`, `MCViewer` | the page, its jobs and the file server | |
| `ViewerProofs` | theorems about it | |
| `OrbitCam` | the camera and its motions | |
| `VelocityProfile` | the profiles of a motion, in exact fractions | pure |
| `MCOrbitCam` | instances of both | |
| `OrbitCamProofs` | theorems about `OrbitCam` | |

Definitions named *Fault* in a comment are variants of the definition below
them with a plausible error; each property is known to fail for one of them.

### MegaTreeCache

A NodeFile is an address with a record: id, state (LOADING, LOADED, EVICTING,
and FREE for a deleted one), use count, modified flag, child files and nodes.
`lru` is the list of `Cache`, `hash` its hash. The storage is a queue of
requests, threads that carry them out, and `store`. Node contents are version
numbers, so that a lost or an old value shows.

A critical section is one step when nothing it reads can change inside it. The
ones that last are split: `flushCache` waits inside `file_cache_mutex`,
`cacheMaintenance` scans inside it and skips files whose mutex is taken,
`evictNodeFileCb` can block inside it. `current_cache_size` is changed under
different mutexes, so each change is a load and a store. Failed assertions and
calls of `abort` set `aborted`, after which nothing happens.

`Next` has the client's calls (each as the chain getNodeFile, push, wait,
link, create, release of the code), the three callbacks, the scan of
`cacheMaintenance` on any thread, and the destructor. The client takes and
releases handles in any order and changes nodes through them.

### FunctionCaller and HbaseStorage

Threads are at a lock, waiting, in a function, or gone. A wait can end
spuriously. The destructor may start at any moment. In `HbaseStorage` the flag
`async_thread_keep_running` is read and written without the lock, as in the
code. HBase itself is external: it returns the existing rows in the order of
the request, and applies mutations in order. A row that is missing at first
exists once it was written.

### Octree

One axis stands for three, since the code treats them alike: a node has two
children, and `Bits` (4) stands for 65536, `Wide` (256) for 2^64. Coordinates
are whole numbers and the arithmetic is that of the code: shifts, truncating
divisions, wrap-around in `mergeChild`. The moving average of `Node::addPoint`
is computed in doubles, where a result that should be whole can come out just
below; the model allows both. A call is a chain of steps (descend, place,
return) because files can be evicted in between: a file without handles is
written if it is flagged and dropped if not, which is how the cache treats it.
Colors follow the same arithmetic as points and are left out.

### RangeQueryLoop

The recursion is an explicit stack. Between any two of its steps a file may
arrive or, when no handle is open on it, leave.

### LinkedList and LRUCache

Nodes are addresses with their pointers; a call is one step, as the callers
hold a lock or run in one JavaScript thread. A list that received a splice is
used as `rangeQueryLoop` uses it: pushed to at its back and taken from at its
front. Those calls keep working although `previous` of the seam is wrong.

### FrustumQuerier

A handler runs to its end before the next timer or response, but `getCell`
calls back at once for a cached cell, so `processQueue` can be entered from
inside `processCell`, and from inside the loop of triggerFrustum over the roots,
each of which is a step of its own; the running calls are an explicit stack. A view stands
for a camera and its frustum, and the resolution correction is a number of
steps. Timers with the same delay fire in order. Cells have one parent
(`ForestAssumption`), as ids of octrees do. Each id has one cell object, which is
exact until a cell is queued twice. Each call of `getCell` for a cell that is not
cached sends a request of its own (`Xhr`): nobody tests whether one for the same
cell is under way. The field `nr` keeps such requests apart; it is the number of
cells queued and in flight, which only grows while any request is under way
(`OneMore` in the proofs: a new request is none of the old ones). Each of them is
answered, queues the cell once more and counts `inFlight` down. Left out: enabling trees during a
query, `override_color`, a change of the projection during a query, and the
debug flag that reads the cache only. An interrupted query is delivered as
finished, as in the code.

### Viewer

The page, the algorithm server and the tile server in one module, since each
property is about all of them. A handler of the browser is one step. A tree
has at most one request or timer under way, of a kind ("detect", "progress",
"completion", "serve", "metadata") and at a place: sent, answered, waiting for a
timer, or lost. `trees_info` keeps a null where a tree was removed, as in the
code. A handler that throws keeps what it did before, so `StartJob` adds the job
even if the first tree is gone, and `MouseUp` after Escape does nothing. The
server's map of storages is `served`; a restart forgets the trees it was told
of, and emitFile does not answer for a tree it does not serve.

### OrbitCam and VelocityProfile

The pose is a record of whole numbers (degrees, half metres, one axis for the
origin). `SetTo` is the four setters: each keeps its range, and calls back when
the value is further than a threshold from the one of the last callback.
`profile_executor_id` has one entry per OrbitCam object made, because the timers
of a replaced camera still fire. A motion is a timer with its id, time, start
and goal; a frame puts the camera at the start, half-way or at the goal, and
never behind where the frame before put it. The exact positions are in
`VelocityProfile`: polynomials, the mapping and the stretch as in the code, over
fractions, with 0/0 as the code has it for profiles of length zero.

## Runs

Passing runs:

| run | checks | bounds and why they are enough |
|---|---|---|
| `cache` | TypeOK, UserCountExact, PinnedFilesLive, CallbackTargetsLive, CacheIndexCoherent, WriteSizeExact, NoLostUpdate, ChildFilesKnown, DestroyedIsStored, DeletedOnlyWhenStored, FlushStoresAll | a new tree and one with two stored files; 3 ids, 2 nodes per file, 2 handles, 2 threads (two callbacks at once), a cache of one node (everything is evicted), 4 calls, 2 changes (one during a write or after a reload) |
| `cache_live` | CallReturns | a cache without evictions and a thread to spare: with them the deadlocks below exist |
| `pool` | NoIdleWhileQueued, ImplementsExecutor, AddedIsCalled, DestructorReturns | 3 threads, 4 functions: more functions than threads and the reverse |
| `hbase` | AcknowledgedIsRead, ThreadsImplementExecutor, RequestsAnswered, DestructorReturns | 2 readers, 1 writer (the code's number), 2 rows of which one is missing at first, batches of 2, 2 reads and 2 writes |
| `octree` | CountExact, SummaryNear, ChangesFlagged, QueryExact | 5 levels, every sequence of 3 of 5 points (two in one smallest cell, two on the sides of a border), evictions between all steps of addPoint; the largest cell that takes a point is exactly `Bits` times `min_cell_size`; every range, every resolution |
| `range_loop` | HandlesOwned, ResultsExact, Terminates | 11 nodes of every kind in 5 files, 3 evictions |
| `list` | Linked, ImplementsList | 2 lists, 4 nodes: front, back, middle and only node |
| `lru` | ImplementsLRU | 4 ids, 3 places |
| `frustum` | RequestsCurrent, NoHolesNoOverlap, SettlesOnCamera | two trees, one a single cell and one of 6 cells on 3 levels (each root is cached or requested), 2 views, 3 moves, an inner cell and a leaf that may fail, a cell cache of 4 for the 7 cells, so that it drops parents before children, `processQueue` is entered from inside `processCell` and cells are requested again while they are on request |
| `viewer` | JobsConsistent, QueryCurrent, JobSettles | one tree of the address, two jobs (the second started while answers of the first, removed, are still to come; its tree has a viewpoint), one fault: a failure, a loss or a restart |
| `camera` | DriftBounded, OneMotion, ProfileSound, ViewSettles | 2 views (far apart, the shorter way across 180 degrees, a pitch near its limit), 3 actions of the user, motions of up to 3 frames, turns of 4 degrees (one is below the threshold of 5, two together are above it), wheel steps on both sides of the threshold; ProfileSound over 6 ways, 5 speeds and 3 stretches for the simple profile, 3 by 3 by 3 for the double one, chosen so that square roots are exact |

A read-only tree is part of the model and of the theorems (`ReadOnly`), and of
no run: the process aborts at its first write.

A run that shows a disagreement between the code and what it says of itself
(`findings` in `PROJECT.json` quotes the line):

| run | property | what happens |
|---|---|---|
| `evict_requested` | EvictCallbackReturns | a file requested during its eviction: the callback locks `file_cache_mutex` twice |

### Disagreements without a run

Seen while modelling; the actions of the modules have these behaviours.

* `megatree.cpp:469`: `flushCache` does not skip a file in state EVICTING.
  flushNodeFileCb clears its modified flag, and the assertion of
  evictNodeFileCb (line 681) fails: `aborted` becomes "evicted twice".
* `megatree.cpp:567`: the test is `number_to_evict >= number_evicted`, so a scan
  that evicted exactly enough and ended at the front of the list aborts with "We
  are out of space in our cache but cannot evict any more" (line 569).
* `megatree.cpp:722`: two callbacks add to `current_cache_size` under the
  mutexes of two files, and one addition is lost; `megatree.h:158` calls it the
  "Number of nodes currently in the cache".
* `megatree.cpp:702`: evictNodeFileCb makes a requested file LOADED, and so
  hands it to the client, before line 706 takes its nodes off
  `current_write_size` ("Number of nodes currently being written",
  `megatree.h:159`). The client can add a node in between, and the callback, did it
  not hang at line 705, would take off one node more than was added for it.
  WriteSizeExact counts what was written for a callback that hangs there.
* `megatree.cpp:495`: `flushCache` waits for the writes ("wait for async writing
  to finish", line 492) with `file_cache_mutex` held. When callbacks of earlier
  reads and evictions that need this mutex occupy all storage threads, the
  writes never run. It also tests once (line 494), so a spurious wakeup ends the
  wait early.
* `hbase_storage.cpp:147`: no callback runs for a batch of missing rows; the
  server's callback has an answer for them (`server.cpp:107`). RequestsAnswered and
  ThreadsImplementExecutor leave these requests out.
* `tree_functions.h:116`: `mergeChild` adds sums in the units of the child, which
  are half those of the parent, and does not shift back as the recomputation
  after addPoint does ("we need to shift back down", `node.h:104`). Points 0 and 3 in a root of size 16 leave the
  root's point at 14. SummaryNear is about trees built by addPoint alone.
* `tree_functions.h:112`: `mergeChild` changes a parent through getNode(), which
  sets no modified flag. With files evicted while a TreeFastCache is open
  (`Evicting` with both ways) ChangesFlagged fails; the run evicts during
  addPoint only.
* `list.h:248`: `spliceToBack` leaves `previous` of the first spliced node NULL,
  so an iterator from the back stops at the seam.
* `frustum_querier.js:390`: a cell that fails to load is never counted down, so
  the page keeps saying that it loads (`index.js:983`) and the query does not
  finish; SettlesOnCamera allows for it, and for a child that failed once and was
  loaded by another request of an interrupted query.
* `frustum_querier.js:375`: the callback of a child reads `child_in_frustum`
  after the loop, with the value of the last child; cells outside of the frustum
  are then loaded ("Load the child if it is inside the frustum", line 364).
* `frustum_querier.js:380`: with a cell cache that has dropped a cell before one
  of its children, `processQueue` is entered from inside `processCell` before the
  index has advanced. The same cell is then refined again and again, its cached
  child is queued each time, and the query ends interrupted; as the calls return,
  each requests the children that are not cached once more, so a cell can be
  queued while other requests for it are under way. RequestsCurrent therefore
  speaks of the queue only until the interruption; NoHolesNoOverlap exempts the
  interrupted result; the next query aborts what is left. The interrupted query
  can be the last one, as its timer for fewer cells may be dropped (line 195).
  The run has such calls and `FrustumQuerierProofs` covers them.
* `frustum_querier.js:238`: the callback of a root cell uses the loop variable
  `tree_info`, so with several trees a root that was requested gets the colour of
  the last tree. Colours are not modelled.
* `index.js:1157`: "only serve tree if job was not removed" is tested once, before
  the request. A job removed while its tree is being served still adds the tree, and a job
  is removed only once; JobsConsistent allows this one tree.
* `index.js:1079`: "create camera if it does not exist yet"; a later tree with a
  viewpoint replaces the camera of an earlier one.
* `index.js`, onMouseUp: `assert(selection)` fails when Escape, or a job that
  finished, cleared the selection during a drag; the button stays down.
* `index.js`, toggleTreeMode: it throws for the number of a removed tree.
* `road_detection.js`, `megatree.js`: no request has an onerror handler. A
  response that is lost, or never sent (`server.cpp:122`), leaves the job running
  until the user removes it; JobSettles allows for it.
* `orbitcam.js:266`: the threshold of the origin is a share of the distance of
  now. After a pan from afar and a zoom the view can be many distances from the
  origin queried for, so DriftBounded leaves the origin out.
* `orbitcam.js:218`: the last frame is the last one before the end of the
  profile, so a motion stops short of its goal.
* `index.js`, triggerFrustumUpdate: the box whose size gives the resolution is
  read when the trigger is set, not when the query starts.
* `cell.js:125-138`: pickValid takes a lowest blue bit of 1 for a leaf, while
  `viz_storage.cpp:124-129` clears it for leaves and `cell.vsh:76` reads 1 as
  "has children"; line 132 combines with & where | is meant.
* `blocking_queue.h:52`: dequeue tests for an empty queue once, so after a
  spurious wakeup it takes from an empty list.
* ServerConnectionChecker: a retry while a ping is under way starts a second
  chain of pings.

Deadlock is not checked where the system may stop: the bound on calls is used
up, the pool is destroyed, the process has aborted, the query is done. It is
checked in `lru`, which can always go on.

### Fairness

Weak fairness of the steps of each thread: the operating system schedules a
thread that can run, functions and callbacks return, and the storage answers.
Weak fairness of a call that has begun; nobody has to begin one. No fairness
for spurious wakeups, for the destructor's start or for evictions. In the
viewer: the browser runs handlers, fires timers and delivers responses; the
camera need not move. In `Viewer`: weak fairness of what the browser and the
servers owe a job (a request that is not lost is answered, an answer is handled,
a timer fires), and strong fairness of the answers "done" to the two polls, which
says that road detection ends after some number of polls; none for the user, for
faults or for answers "not yet". In `OrbitCam`: weak fairness of the timers, which the
browser fires; none for the user. In `RangeQueryLoop`: the query's thread runs, and every
read under way ends.

## Theorems

TLAPS proves for every value of the constants. The assumptions on them are
`ConstantsAssumption` and `FiniteAssumption` (ids form a tree below the root,
handles and nodes of a file are finite), `PoolAssumption`, `OrbitCamAssumption`
(ranges of views and steps), `OneWriter` (`NUM_WRITER_THREADS` is 1, as
`hbase_storage.cpp:15` has it), `TreeAssumption` and `ParentAssumption` of the
range query (the nodes it walks are a tree), and `ForestAssumption` of the
frustum query (so are the cells of each octree); each module's other assumptions
are types. One theorem has a hypothesis of its own, see ChangesReachStorage.

* `TypeCorrect`, `UserCountCorrect`, `NoUseAfterDelete` (`MegaTreeCacheProofs`).
  PinnedFilesLive is not inductive: cacheMaintenance evicts a file with use
  count 0, so the count must be known to be exact; the count is changed by the
  steps of a call, so it must be known where a call can be and which files it
  holds there; and a file is found through the hash. The inductive invariant
  `IInv` is the conjunction of TypeOK, `LockInv` (who owns `file_cache_mutex`
  inside the long sections), `ScanInv` (the iterator points into the list),
  `CallInv` (which files a call holds at each point), `SlotInv` (the handle to
  be filled is empty), `HashInv` (the hash names live files), `UserInv` (the
  count is exact, and 0 for files deleted or being evicted) and `IdInv` (a
  reference is to the file that was asked for). There is a lemma per action,
  and shared lemmas for steps that change one file in place or none.
* `CallbacksFindTheirFiles` (`MegaTreeCacheProofs`). A callback is bound to a raw
  pointer when the request is made and runs much later. That the file is still
  the same one then follows from how many requests there can be: `OneJob` says
  that a file has at most one flush and one other request under way, `ListInv`
  that it is in the list once, and `FlushInv` that `remaining` counts the flushes
  under way, all of files flushCache has passed, so that it does not return
  before them. `QInv` is their conjunction with CallbackTargetsLive and `JobInv`
  (a thread runs the callback of the operation it was asked for), inductive on
  top of `IInv`.
* `IndexStaysCoherent`, `UpdatesAreKept`, `ChildFilesStayKnown`,
  `DestructorStoresAll`, `DeletesOnlyStored`, `FlushReachesStorage`
  (`MegaTreeCacheProofs`), the last two action properties. The invariant `DInv` says
  for every id where its last contents are at each moment. `DataInv`: in memory
  once read, before that in the storage. `StoreInv`: a file without unreported
  changes and without the modified flag equals its stored copy, a write under way
  carries what is in memory, and a finished one is what the storage has.
  `ChildInv`: the bit in the file above is set in whichever copy counts, except for
  the file createChildNode has just made. `CallerInv`: what a call knows of its
  files between its steps (a parent is LOADED, a node exists or does not yet).
  `WrittenInv`: what flushCache has passed is written or under way. `IndexInv`
  makes "the file of an id" unique, which every other part relies on. None of the
  six properties is inductive without the others; NoLostUpdate, for instance,
  fails after a delete unless the deleted file is known to be stored, which is
  StoreInv, which a read keeps only because of IndexInv.
* `WriteSizeStaysExact` (`MegaTreeCacheProofs`). The counter is the cardinality of
  the pairs of a file being evicted and a node of it. That set grows when
  cacheMaintenance starts an eviction and shrinks with its callback, and by `OneJob`
  a file is in it once. Between, the client can ask for the file again, but
  no node is added before the callback has made it LOADED, so what is subtracted is
  what was added. A callback stuck in the second
  lock of `file_cache_mutex` keeps its share: what it wrote, not what the file
  holds since. `WInv` adds that the set is finite.
* `ReadsSeeAcknowledged`, `StorageImplementsExecutors` (`HbaseStorageProofs`).
  Why a read is new enough is in the order of the requests on the way: `WriteInv`
  says that the writes not yet answered are in the order of the calls, those the
  writer has taken before those in its queue, and all newer than what is
  acknowledged; `ReadInv` that a read's floor is acknowledged. With two writers
  this is false, hence `OneWriter`. The refinement is proved step by step: a batch
  maps to the threads' runs of the executor, answered from the front.
* `JobsStayConsistent`, `ShowsWhatWasQueried` (`ViewerProofs`). `JobState` relates
  the request of a job to its flags and to what is on the page: a job that was
  not started has none, a job with a request has no result on the page, and the
  name a removed job takes off the page is its own. `FirstInv` says why there is
  a first tree to detect roads on: it comes from the address, and no job removes it.
* `ChangesReachStorage` (`OctreeProofs`), for all trees, points, resolutions and
  evictions between the steps of addPoint. `TreeShape`: a node is there exactly if
  its parent is and has its bit, so a split puts its leaf where no node was and
  overwrites none; `PathShape`: the handles in use are on nodes of the tree;
  `FlagInv`: a node that differs from its stored copy is in a flagged file or in
  one of which a handle knows of a change, which a release hands on. The theorem
  is about a cache that evicts during addPoint and not while a TreeFastCache is
  open (`Evicting \subseteq {"addPoint"}`); with evictions there the property is
  false, see above.
* `QueryOwnsItsHandles` (`RangeQueryLoopProofs`). HandlesOwned counts the places
  of a node; the lemmas say how the count changes when sequences are
  concatenated, shortened or extended. It needs `Shape`: the outermost call is
  on the node at the front of the queue, whose handle the end of the turn
  releases. That a file of a running call is not evicted follows from the count
  being above zero.
* `QueryReturnsAll` (`RangeQueryLoopProofs`): safety of the results at every step,
  and the whole result at the end. `Expected`, what queryRange returns, are the nodes
  at which its descent stops, where they are in the range; which nodes the descent
  visits is an intersection of closed sets and no recursion, so it can be reasoned
  about.
  `OwedOnce` is the invariant: for each expected node, the results that have it,
  the nodes above it that wait in a queue, and the running calls whose remaining
  children lead to it are exactly one together. A file that is not there moves the
  debt from a call to the list of nodes to load, and a call that ends has none.
  `Visited` says that nothing else is ever in hand, and `Settled` that nothing is
  left over between two turns of the loop.
* `ResponsesAreCurrent`, `DrawnWithoutHoles` (`FrustumQuerierProofs`). Both rest on
  `Counted`: `inFlight` is at least the number of requests, each of which is counted
  on its own, which is why the cells of an earlier query cannot arrive in a later
  one: triggerFrustum, which tests that number, aborts them all. Without nested
  calls a cell is looked up once (`OnceEach`, `LookedUp`), because cells form a
  forest and the queue has no cell twice, so it is either in the queue or on
  request, and on request once (`NotQueued`), and an octant of a processed
  cell is shown exactly while its own cell is not processed (`Shown`). All that is
  `Regular`, and it fails when `processQueue` is entered from inside
  `processCell`. `Nested` is what holds then: the calls are all about the next cell
  of the queue, whose first cached child starts them again each time, so that the
  nest cannot end but by the interruption for too many cells, after which
  the query processes nothing and promises nothing. In the nest children are
  requested several times; `CellCalls` says that those on request are not cached
  and those in the queue are, so that until the interruption none is both. When
  the calls return into the interrupted query, `Counted` and `Known` (the parent of
  a cell on request was processed) are what is left of RequestsCurrent.
* `PoolTypeCorrect`, `NoLostWakeup`, `PoolImplementsExecutor`
  (`FunctionCallerProofs`). `PoolInv` adds to the type invariant and
  NoIdleWhileQueued where the destructor is (`DtorInv`): once `running` is
  false nobody waits again. The refinement maps the code's list, which grows at
  the front, to the executor's queue by reversal.
* `QueryFollowsView`, `LastMotionOnly` (`OrbitCamProofs`), for all views, drags,
  wheel steps and any number of events. DriftBounded is not inductive: a step of
  the camera says nothing about the distance to the view queried for, only about
  the old values the setters compare with. `IInv` has both halves: the camera is
  within the thresholds of the old values (`Steady`), and without a trigger
  pending so is the view queried for (`Recent`), because old values only change
  with a trigger; the two add up to 10 degrees. `PlanesSet` does the same for the
  near plane. OneMotion needs `MotionInv`: ids of timers are at most that of their
  camera object and one timer at most has it, for replaced cameras too.

Only model-checked:

* all liveness properties (TLAPS does not reason about fairness here);
* CountExact, SummaryNear and QueryExact of `Octree`: sums over sets, whose laws
  need an induction over data, and queries by recursion;
* the refinements of `LinkedList` and `LRUCache`, and Linked: the sequence a
  chain of pointers stands for is defined by recursion;
* the velocity profiles (arithmetic over fractions and recursion).

## Not modelled

* Several client threads on one tree. No program of the repository does it; a
  comment at `megatree.cpp:252` doubts it. It could create two
  NodeFiles for one file.
* A spurious wakeup of the wait in `flushCache`, which would let the callbacks
  use a dead stack frame.
* The end of `readNodeFileCb` after the destructor has deleted the file: the
  destructor waits for files in state LOADING, and the callback calls
  `cacheMaintenance` after it has left that state.
* Metadata, paths, compression, file-system errors and thrift exceptions.
* The blocking calls of `HbaseStorage`, which share `socket_mutex` with the
  threads. AcknowledgedIsRead relies on there being one writer thread.
* The rounding of doubles, apart from the moving average.
* A point outside of the tree: addPoint reports it and returns, TreeFastCache
  fails an assertion.
* `BlockingQueue` and the streaming server: a prototype that accepts a client
  and has no storage thread yet.
* `VizStorage`: a stateless conversion of bytes. Its branch for a missing file
  cannot be reached through the storages it wraps.
* `LongId` on arrays of words: short functions that `test_long_id.cpp` covers;
  `Octree` has pairs of level and index in their place.
* In the viewer: measurements, the list of views, the connection checker,
  colours, rendering, picking, the coordinates of `utm.js`, and the profiles no
  motion uses (Trap3D, Cubic, DoubleCubic, Slowdown): no handler of the modelled
  state decides by them.
* Generated, third-party and dead code (`thrift_gen`, jQuery, jQuery UI with its
  translations, mjs, the PCL header, `old_stuff.js`, `uncontentious_queue.h`). It
  is most of the repository's lines of JavaScript, and none of it is
  MegaTree's.

## Plan

The parts that keep state are modelled, and the safety properties of the cache,
the storage threads, the page, the camera, the range query, the frustum query and
the modified flags are proved. What is left:

1. The refinements of `LinkedList` and `LRUCache`, with the sequence a chain
   stands for as a ghost variable in place of the recursive definition.
2. `Octree` with three axes, and the words of `LongId` in place of pairs.
3. Two clients of one tree, if a program ever does it.
