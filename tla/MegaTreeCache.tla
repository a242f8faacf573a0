--------------------------- MODULE MegaTreeCache ---------------------------
(***************************************************************************)
(* The node-file cache of a MegaTree (megatree_cpp/src/megatree.cpp with   *)
(* node_file.cpp), the client thread that calls it and the threads of the  *)
(* storage back end that run its callbacks.                                *)
(*                                                                         *)
(* A NodeFile holds the nodes of one subtree.  The cache keeps NodeFiles   *)
(* in LRU order, loads them with getAsync, writes them with putAsync and   *)
(* deletes them when it holds more nodes than max_cache_size.  A NodeFile  *)
(* is pinned by its use_count.                                             *)
(*                                                                         *)
(* Granularity.  A critical section is one step when nothing it reads can  *)
(* change inside it; a mutex is a variable because four sections last      *)
(* longer: flushCache waits for the storage inside file_cache_mutex,       *)
(* cacheMaintenance scans inside it, evictNodeFileCb can block inside it,  *)
(* and a node file's mutex makes the try_lock of cacheMaintenance fail.    *)
(* current_cache_size is updated without a common lock, so each update is  *)
(* a load into a register followed by a store.                             *)
(*                                                                         *)
(* Node contents are versions: Absent, 0 for a node just reset, and a      *)
(* fresh number for every change made through a handle.                    *)
(***************************************************************************)
EXTENDS Integers, Sequences, FiniteSets, SequencesExt

CONSTANTS
  Ids,           \* ids of node files
  Root,          \* the id of the root file
  Parent,        \* the file above each file; Parent[Root] = Root
  Shorts,        \* short ids of the nodes of a file
  RootNode,      \* the short id of the root node
  Files,         \* addresses of NodeFile objects
  NoFile,        \* the NULL NodeFile*
  Handles,       \* NodeHandle slots of the client
  Threads,       \* threads of the storage back end
  Client,        \* the thread that uses the tree
  Nobody,        \* the owner of a free mutex
  Openings,      \* sets of files the storage may hold when the tree is opened;
                 \* {} stands for a new tree
  ReadOnly,      \* the tree was opened read-only
  MaxCacheSize,  \* max_cache_size, in nodes
  MaxVersion,    \* bound: changes made to nodes
  MaxCalls       \* bound: calls the client makes

ASSUME ConstantsAssumption ==
  /\ Root \in Ids /\ Parent \in [Ids -> Ids] /\ Parent[Root] = Root
  /\ RootNode \in Shorts
  /\ NoFile \notin Files
  /\ Client \notin Threads /\ Nobody \notin Threads /\ Nobody # Client
  /\ \A S \in Openings :
       S \subseteq Ids /\ (S # {} => Root \in S) /\ \A i \in S : Parent[i] \in S
  /\ ReadOnly \in BOOLEAN
  /\ MaxCacheSize \in Nat /\ MaxVersion \in Nat /\ MaxCalls \in Nat

ASSUME FiniteAssumption == IsFiniteSet(Handles) /\ IsFiniteSet(Shorts)

VARIABLES
  file,        \* the NodeFile at each address
  lru,         \* file_cache.list_, front (most recently used) first
  hash,        \* file_cache.hash_
  cacheMutex,  \* owner of file_cache_mutex
  fileMutex,   \* owner of each NodeFile's mutex
  size,        \* current_cache_size
  wsize,       \* current_write_size
  maint,       \* locals of the running cacheMaintenance: iterator and counts
  queue,       \* requests the storage has not started, oldest first
  store,       \* contents of the storage, by file id
  pc,          \* where each thread is
  job,         \* the request each storage thread works on
  reg,         \* register of each thread between a load and a store of size
  cl,          \* locals of the client's current call
  handles,     \* the client's NodeHandles
  remaining,   \* flushCache's count of writes under way
  calls,       \* number of calls the client has made
  version,     \* number of changes made to nodes
  truth,       \* history: the last value the client gave each node
  aborted      \* why the process aborted, or "no"

treeVars    == <<file, lru, hash, size, wsize>>
lockVars    == <<cacheMutex, fileMutex>>
storageVars == <<queue, store, job>>
clientVars  == <<cl, handles, calls, version, truth>>
vars == <<treeVars, lockVars, maint, storageVars, pc, reg, clientVars,
          remaining, aborted>>

Actors == Threads \cup {Client}
Absent == -1
Values == {Absent} \cup Nat

\* What serialize() writes: the child_files byte and the nodes.
Content == [child : SUBSET Ids, nodes : [Shorts -> Values]]
Empty   == [child |-> {}, nodes |-> [s \in Shorts |-> Absent]]

NodeStates == {"FREE", "LOADING", "LOADED", "EVICTING"}
NodeFile == [id : Ids, state : NodeStates, users : Int, modified : BOOLEAN,
             child : SUBSET Ids, nodes : [Shorts -> Values]]
Unallocated == [id |-> Root, state |-> "FREE", users |-> 0, modified |-> FALSE,
                child |-> {}, nodes |-> Empty.nodes]

Job   == [op : {"read", "evict", "flush"}, file : Files \cup {NoFile},
          id : Ids, data : Content]
NoJob == [op |-> "read", file |-> NoFile, id |-> Root, data |-> Empty]

Handle   == [file : Files \cup {NoFile}, id : Ids, short : Shorts,
             modified : BOOLEAN]
NoHandle == [file |-> NoFile, id |-> Root, short |-> RootNode,
             modified |-> FALSE]

\* Locals of a call: the node wanted, the slot for its handle, the slot of the
\* parent's handle, and the NodeFiles the call has called addUser on.
Call   == [stage : {"none", "root", "node", "parent", "child", "created",
                    "destroy"},
           id : Ids, short : Shorts, slot : Handles \cup {NoFile},
           from : Handles \cup {NoFile}, file : Files \cup {NoFile},
           pfile : Files \cup {NoFile}, blocking : BOOLEAN]
NoCall == [stage |-> "none", id |-> Root, short |-> RootNode, slot |-> NoFile,
           from |-> NoFile, file |-> NoFile, pfile |-> NoFile,
           blocking |-> FALSE]

NoScan == [it |-> 0, to_evict |-> 0, evicted |-> 0]

PCs == {"ctor", "idle", "find", "push", "got", "link", "create", "inc", "drop",
        "unlock", "flush", "destroy", "destroydec", "gone",
        "maint", "scan", "scandec",
        "io", "readcb", "readcbLoad", "readcbStore", "evictcb", "evictcbStore",
        "flushcb", "hung"}

-----------------------------------------------------------------------------
(* Helpers *)

\* cacheSize(): the number of nodes in node_cache.
CacheSize(f) == Cardinality({s \in Shorts : file[f].nodes[s] # Absent})

\* Fault: the child_files byte is not written.
SerializedNoChild(f) == [nodes |-> file[f].nodes]

Serialized(f) == [child |-> file[f].child, nodes |-> file[f].nodes]

\* Fault: deserialize forgets to set the state to LOADED.
DeserializedStillLoading(nf, data) ==
  [nf EXCEPT !.modified = FALSE, !.child = data.child, !.nodes = data.nodes]

\* deserialize(buffer) merges the nodes read into node_cache: a node already
\* handed out as a placeholder is overwritten.
Deserialized(nf, data) ==
  [nf EXCEPT !.state = "LOADED", !.modified = FALSE, !.child = data.child,
             !.nodes = [s \in Shorts |-> IF data.nodes[s] # Absent
                                         THEN data.nodes[s] ELSE nf.nodes[s]]]

\* Fault: the new file is returned without addUser.
NewNodeFileNoUser(i, st, mod) ==
  [id |-> i, state |-> st, users |-> 0, modified |-> mod, child |-> {},
   nodes |-> Empty.nodes]

\* new NodeFile and addUser; createNodeFile adds the empty deserialize().
NewNodeFile(i, st, mod) ==
  [id |-> i, state |-> st, users |-> 1, modified |-> mod, child |-> {},
   nodes |-> Empty.nodes]

\* NodeFile::createNode: insert() keeps a node that is already there.
WithNewNode(nf, s) ==
  [nf EXCEPT !.users = @ + 1, !.modified = TRUE,
             !.nodes[s] = IF @ = Absent THEN 0 ELSE @]

\* Fault: the modified flag of the handle is dropped.
ReleasedForgets(nf, mod) == [nf EXCEPT !.users = @ - 1]

\* NodeFile::releaseNode.
Released(nf, mod) == [nf EXCEPT !.users = @ - 1, !.modified = @ \/ mod]

\* Fault: the flag is set but not the bit of the child.
WithChildFileNoBit(nf, i) == [nf EXCEPT !.modified = TRUE]

\* NodeFile::setChildFile.
WithChildFile(nf, i) == [nf EXCEPT !.modified = TRUE, !.child = @ \cup {i}]

Locked(f)   == fileMutex[f] # Nobody
\* Thread a is at p, in a process that has not aborted.
At(a, p)    == pc[a] = p /\ aborted = "no"
Goto(a, p)  == pc' = [pc EXCEPT ![a] = p]

\* current_cache_size += d by thread a: its load and its store.
LoadSize(a, d) == reg' = [reg EXCEPT ![a] = size + d]
StoreSize(a)   == size' = reg[a] /\ reg' = [reg EXCEPT ![a] = 0]

\* The check before every write; a read-only tree aborts instead.
MayWrite == ~ReadOnly

\* Fault: evictNodeFileCb does not give back what cacheMaintenance counted.
EndWriteNothing(f) == UNCHANGED wsize

\* current_write_size, changed under file_cache_mutex only.
BeginWrite(f) == wsize' = wsize + CacheSize(f)
EndWrite(f)   == wsize' = wsize - CacheSize(f)

\* file_cache.erase(it): the hash entry of the id, then the list node.
Erase(f) ==
  /\ hash' = [hash EXCEPT ![file[f].id] = NoFile]
  /\ lru' = RemoveFirst(lru, f)

\* Fault: push_front adds to the list only.
PushFrontListOnly(i, f) == lru' = Cons(f, lru) /\ UNCHANGED hash

\* file_cache.push_front(id, file): insert() keeps an entry the hash has.
PushFront(i, f) ==
  /\ lru' = Cons(f, lru)
  /\ hash' = [hash EXCEPT ![i] = IF @ = NoFile THEN f ELSE @]

\* The NodeFile getNodeFile is fetching, and its id.
Target  == IF cl.stage = "parent" THEN Parent[cl.id] ELSE cl.id
Current == IF cl.stage = "parent" THEN cl.pfile ELSE cl.file
Fetched(f) == IF cl.stage = "parent" THEN [cl EXCEPT !.pfile = f]
                                     ELSE [cl EXCEPT !.file = f]

\* A handle whose node the client may read: it has waited until it is loaded.
Loaded(h) == /\ handles[h].file # NoFile
             /\ file[handles[h].file].state = "LOADED"

-----------------------------------------------------------------------------
InitWith(stored) ==
  /\ file = [f \in Files |-> Unallocated]
  /\ lru = << >> /\ hash = [i \in Ids |-> NoFile]
  /\ cacheMutex = Nobody /\ fileMutex = [f \in Files |-> Nobody]
  /\ size = 0 /\ wsize = 0
  /\ maint = NoScan
  /\ queue = << >>
  /\ store = [i \in Ids |->
                IF i \in stored
                THEN [child |-> {c \in stored \ {Root} : Parent[c] = i},
                      nodes |-> [s \in Shorts |-> 0]]
                ELSE Empty]
  /\ pc = [a \in Actors |-> IF a = Client /\ stored = {} THEN "ctor" ELSE "idle"]
  /\ job = [t \in Threads |-> NoJob]
  /\ reg = [a \in Actors |-> 0]
  /\ cl = NoCall /\ handles = [h \in Handles |-> NoHandle]
  /\ remaining = 0 /\ calls = 0 /\ version = 0
  /\ truth = [i \in Ids |-> store[i].nodes]
  /\ aborted = "no"

Init == \E stored \in Openings : InitWith(stored)

-----------------------------------------------------------------------------
(* Calls of the client *)

BeginCall(c, p) ==
  /\ At(Client, "idle") /\ calls < MaxCalls
  /\ calls' = calls + 1 /\ cl' = c /\ Goto(Client, p)

\* The constructor of a new tree: createRoot() begins with createNodeFile.
CreateRoot(f, h) ==
  /\ At(Client, "ctor") /\ file[f].state = "FREE"
  /\ file' = [file EXCEPT ![f] = NewNodeFile(Root, "LOADED", TRUE)]
  /\ cl' = [NoCall EXCEPT !.stage = "root", !.slot = h, !.file = f]
  /\ Goto(Client, "push")
  /\ UNCHANGED <<lru, hash, size, wsize, lockVars, maint, storageVars, reg,
                 handles, calls, version, truth, remaining, aborted>>

\* getRoot(h) waits for the file; getChildNode(p, .., h) does not.
GetRoot(h) ==
  /\ handles[h] = NoHandle
  /\ BeginCall([NoCall EXCEPT !.stage = "node", !.slot = h, !.blocking = TRUE],
               "find")
  /\ UNCHANGED <<treeVars, lockVars, maint, storageVars, reg, handles, version,
                 truth, remaining, aborted>>

GetChildNode(p, i, s, h) ==
  /\ Loaded(p) /\ handles[p].id = Parent[i] /\ <<i, s>> # <<Root, RootNode>>
  /\ truth[i][s] # Absent                 \* assert(parent_node.hasChild(child))
  /\ handles[h] = NoHandle
  /\ BeginCall([NoCall EXCEPT !.stage = "node", !.id = i, !.short = s,
                              !.slot = h], "find")
  /\ UNCHANGED <<treeVars, lockVars, maint, storageVars, reg, handles, version,
                 truth, remaining, aborted>>

CreateChildNode(p, i, s, h) ==
  /\ Loaded(p) /\ handles[p].id = Parent[i] /\ <<i, s>> # <<Root, RootNode>>
  /\ truth[i][s] = Absent                 \* assert(!parent_node.hasChild(child))
  /\ handles[h] = NoHandle /\ version < MaxVersion
  /\ BeginCall([NoCall EXCEPT !.stage = "parent", !.id = i, !.short = s,
                              !.slot = h, !.from = p], "find")
  /\ UNCHANGED <<treeVars, lockVars, maint, storageVars, reg, handles, version,
                 truth, remaining, aborted>>

\* addPoint, setPoint, copyFromChildNodes: a change through a handle.
ModifyNode(h) ==
  /\ At(Client, "idle") /\ Loaded(h) /\ version < MaxVersion
  /\ version' = version + 1
  /\ file' = [file EXCEPT ![handles[h].file].nodes[handles[h].short] = version']
  /\ truth' = [truth EXCEPT ![handles[h].id][handles[h].short] = version']
  /\ handles' = [handles EXCEPT ![h].modified = TRUE]
  /\ UNCHANGED <<lru, hash, size, wsize, lockVars, maint, storageVars, pc, reg,
                 cl, calls, remaining, aborted>>

\* releaseNode: under the file's mutex, which Unlock gives back.
ReleaseNode(h) ==
  /\ At(Client, "idle") /\ handles[h].file # NoFile
  /\ LET f == handles[h].file IN
       /\ ~Locked(f)
       /\ file' = [file EXCEPT ![f] = Released(@, handles[h].modified)]
       /\ fileMutex' = [fileMutex EXCEPT ![f] = Client]
       /\ cl' = [NoCall EXCEPT !.file = f]
  /\ handles' = [handles EXCEPT ![h] = NoHandle]
  /\ Goto(Client, "unlock")
  /\ UNCHANGED <<lru, hash, size, wsize, cacheMutex, maint, storageVars, reg,
                 calls, version, truth, remaining, aborted>>

Unlock ==
  /\ At(Client, "unlock")
  /\ fileMutex' = [fileMutex EXCEPT ![cl.file] = Nobody]
  /\ cl' = NoCall /\ Goto(Client, "idle")
  /\ UNCHANGED <<treeVars, cacheMutex, maint, storageVars, reg, handles, calls,
                 version, truth, remaining, aborted>>

-----------------------------------------------------------------------------
(* getNodeFile, createNodeFile and what the calls do with the file *)

\* getNodeFile, hit.  Nobody waits for file_cache_mutex while holding a file's
\* mutex (a hung evictNodeFileCb holds both), so taking both is one step.
FindHit ==
  /\ At(Client, "find") /\ cacheMutex = Nobody
  /\ hash[Target] # NoFile /\ ~Locked(hash[Target])
  /\ LET f == hash[Target] IN
       /\ file' = [file EXCEPT ![f].users = @ + 1,
                               ![f].state = IF @ = "EVICTING" THEN "LOADING"
                                                              ELSE @]
       /\ lru' = Cons(f, RemoveFirst(lru, f))
       /\ cl' = Fetched(f)
  /\ Goto(Client, "got")
  /\ UNCHANGED <<hash, size, wsize, lockVars, maint, storageVars, reg, handles,
                 calls, version, truth, remaining, aborted>>

\* getNodeFile, miss: the read is requested before the file is in the cache.
\* The constructor leaves is_modified uninitialized.
FindMiss(f, m) ==
  /\ At(Client, "find") /\ cacheMutex = Nobody /\ hash[Target] = NoFile
  /\ file[f].state = "FREE"
  /\ file' = [file EXCEPT ![f] = NewNodeFile(Target, "LOADING", m)]
  /\ queue' = Append(queue, [NoJob EXCEPT !.file = f, !.id = Target])
  /\ cl' = Fetched(f)
  /\ Goto(Client, "push")
  /\ UNCHANGED <<lru, hash, size, wsize, lockVars, maint, store, job, reg,
                 handles, calls, version, truth, remaining, aborted>>

Push ==
  /\ At(Client, "push") /\ cacheMutex = Nobody
  /\ PushFront(Target, Current)
  /\ Goto(Client, IF cl.stage \in {"root", "created"} THEN "maint" ELSE "got")
  /\ UNCHANGED <<file, size, wsize, lockVars, maint, storageVars, reg,
                 clientVars, remaining, aborted>>

\* readNode, then releaseNodeFile (getRoot: removeUser).  A node missing from
\* a file still loading is handed out as a placeholder.
ReadNode ==
  /\ At(Client, "got") /\ cl.stage = "node"
  /\ cl.blocking => file[cl.file].state = "LOADED"      \* waitUntilLoaded
  /\ ~Locked(cl.file)
  /\ LET f == cl.file
         missing == file[f].nodes[cl.short] = Absent
     IN IF missing /\ file[f].state # "LOADING"
        THEN /\ file' = [file EXCEPT ![f].users = @ - 1]
             /\ UNCHANGED handles                       \* a NULL node
        ELSE /\ file' = [file EXCEPT ![f].nodes[cl.short] =
                                        IF missing THEN 0 ELSE @]
             /\ handles' = [handles EXCEPT ![cl.slot] =
                   [file |-> f, id |-> cl.id, short |-> cl.short,
                    modified |-> FALSE]]
  /\ cl' = NoCall /\ Goto(Client, "idle")
  /\ UNCHANGED <<lru, hash, size, wsize, lockVars, maint, storageVars, reg,
                 calls, version, truth, remaining, aborted>>

\* createChildNode, once the parent's file is loaded: the child file exists.
ParentHasFile ==
  /\ At(Client, "got") /\ cl.stage = "parent"
  /\ file[cl.pfile].state = "LOADED"
  /\ cl.id = Root \/ cl.id \in file[cl.pfile].child
  /\ cl' = [cl EXCEPT !.stage = "child"]
  /\ Goto(Client, "find")
  /\ UNCHANGED <<treeVars, lockVars, maint, storageVars, reg, handles, calls,
                 version, truth, remaining, aborted>>

\* .. or it does not: createNodeFile.
ParentLacksFile(f) ==
  /\ At(Client, "got") /\ cl.stage = "parent"
  /\ file[cl.pfile].state = "LOADED"
  /\ cl.id # Root /\ cl.id \notin file[cl.pfile].child
  /\ file[f].state = "FREE"
  /\ file' = [file EXCEPT ![f] = NewNodeFile(cl.id, "LOADED", TRUE)]
  /\ cl' = [cl EXCEPT !.stage = "created", !.file = f]
  /\ Goto(Client, "push")
  /\ UNCHANGED <<lru, hash, size, wsize, lockVars, maint, storageVars, reg,
                 handles, calls, version, truth, remaining, aborted>>

\* setChildFile for a new file, releaseNodeFile(parent), parent_node.setChild.
LinkParent ==
  /\ \/ At(Client, "link")
     \/ /\ At(Client, "got") /\ cl.stage = "child"
        /\ file[cl.file].state = "LOADED"               \* waitUntilLoaded
  /\ ~Locked(cl.pfile)
  /\ version' = version + 1
  /\ LET p == cl.pfile
         ph == handles[cl.from]
         nf == IF cl.stage = "created" THEN WithChildFile(file[p], cl.id)
                                       ELSE file[p]
     IN /\ file' = [file EXCEPT ![p] =
             [nf EXCEPT !.users = @ - 1, !.nodes[ph.short] = version']]
        /\ truth' = [truth EXCEPT ![ph.id][ph.short] = version']
  /\ handles' = [handles EXCEPT ![cl.from].modified = TRUE]
  /\ cl' = [cl EXCEPT !.pfile = NoFile]
  /\ Goto(Client, "create")
  /\ UNCHANGED <<lru, hash, size, wsize, lockVars, maint, storageVars, reg,
                 calls, remaining, aborted>>

\* createNode, without the file's mutex, and the load of current_cache_size++.
CreateNode ==
  /\ At(Client, "create")
  /\ file' = [file EXCEPT ![cl.file] = WithNewNode(@, cl.short)]
  /\ truth' = [truth EXCEPT ![cl.id][cl.short] = 0]
  /\ handles' = [handles EXCEPT ![cl.slot] =
        [file |-> cl.file, id |-> cl.id, short |-> cl.short,
         modified |-> FALSE]]
  /\ LoadSize(Client, 1)
  /\ Goto(Client, "inc")
  /\ UNCHANGED <<lru, hash, size, wsize, lockVars, maint, storageVars, cl,
                 calls, version, remaining, aborted>>

CreateNodeStore ==
  /\ At(Client, "inc")
  /\ StoreSize(Client)
  /\ Goto(Client, "drop")
  /\ UNCHANGED <<file, lru, hash, wsize, lockVars, maint, storageVars,
                 clientVars, remaining, aborted>>

\* releaseNodeFile(child_file); createRoot calls removeUser unlocked.
DropFile ==
  /\ At(Client, "drop")
  /\ cl.stage = "root" \/ ~Locked(cl.file)
  /\ file' = [file EXCEPT ![cl.file].users = @ - 1]
  /\ cl' = NoCall /\ Goto(Client, "idle")
  /\ UNCHANGED <<lru, hash, size, wsize, lockVars, maint, storageVars, reg,
                 handles, calls, version, truth, remaining, aborted>>

-----------------------------------------------------------------------------
(* cacheMaintenance, run by the client or by a storage thread *)

MaintBegin(a) ==
  /\ At(a, "maint") /\ cacheMutex = Nobody /\ pc[Client] # "gone"
  /\ cacheMutex' = a
  /\ maint' = [it |-> Len(lru), to_evict |-> size - MaxCacheSize - wsize,
               evicted |-> 0]
  /\ Goto(a, "scan")
  /\ UNCHANGED <<treeVars, fileMutex, storageVars, reg, clientVars, remaining,
                 aborted>>

Scanning(a) == At(a, "scan") /\ maint.it > 0 /\ maint.to_evict > maint.evicted
\* Fault: a file in use is evicted.
EvictableInUse(f) == ~Locked(f) /\ file[f].state = "LOADED"
\* Fault: a file that is not loaded is evicted.
EvictableLoading(f) == ~Locked(f) /\ file[f].users <= 0
\* The test cacheMaintenance makes before it touches a file.
Evictable(f) == ~Locked(f) /\ file[f].state = "LOADED" /\ file[f].users <= 0

MaintSkip(a) ==
  /\ Scanning(a) /\ ~Evictable(lru[maint.it])
  /\ maint' = [maint EXCEPT !.it = @ - 1]
  /\ UNCHANGED <<treeVars, lockVars, storageVars, pc, reg, clientVars,
                 remaining, aborted>>

\* An unmodified file is erased and deleted.
MaintDelete(a) ==
  /\ Scanning(a)
  /\ LET f == lru[maint.it] IN
       /\ Evictable(f) /\ ~file[f].modified
       /\ LoadSize(a, -CacheSize(f))
       /\ maint' = [maint EXCEPT !.it = @ - 1, !.evicted = @ + CacheSize(f)]
       /\ Erase(f)
       /\ file' = [file EXCEPT ![f] = Unallocated]
  /\ Goto(a, "scandec")
  /\ UNCHANGED <<size, wsize, lockVars, storageVars, clientVars, remaining,
                 aborted>>

MaintDeleteStore(a) ==
  /\ At(a, "scandec")
  /\ StoreSize(a)
  /\ Goto(a, "scan")
  /\ UNCHANGED <<file, lru, hash, wsize, lockVars, maint, storageVars,
                 clientVars, remaining, aborted>>

\* A modified file is written; evictNodeFileCb will delete it.
MaintWrite(a) ==
  /\ Scanning(a)
  /\ LET f == lru[maint.it] IN
       /\ Evictable(f) /\ file[f].modified
       /\ IF ~MayWrite
          THEN /\ aborted' = "read only"
               /\ UNCHANGED <<file, queue, wsize, maint>>
          ELSE /\ file' = [file EXCEPT ![f].state = "EVICTING"]
               /\ queue' = Append(queue, [op |-> "evict", file |-> f,
                              id |-> file[f].id, data |-> Serialized(f)])
               /\ BeginWrite(f)
               /\ maint' = [maint EXCEPT !.it = @ - 1,
                                         !.evicted = @ + CacheSize(f)]
               /\ UNCHANGED aborted
  /\ UNCHANGED <<lru, hash, size, lockVars, store, job, pc, reg, clientVars,
                 remaining>>

MaintEnd(a) ==
  /\ At(a, "scan") /\ ~(maint.it > 0 /\ maint.to_evict > maint.evicted)
  /\ IF maint.to_evict >= maint.evicted /\ maint.it = 0
     THEN aborted' = "out of space" /\ UNCHANGED maint
     ELSE maint' = NoScan /\ UNCHANGED aborted
  /\ cacheMutex' = Nobody
  /\ Goto(a, IF a # Client THEN "idle"
             ELSE IF cl.stage = "root" THEN "create" ELSE "link")
  /\ job' = IF a = Client THEN job ELSE [job EXCEPT ![a] = NoJob]
  /\ UNCHANGED <<treeVars, fileMutex, queue, store, reg, clientVars,
                 remaining>>

-----------------------------------------------------------------------------
(* The storage threads: FunctionCaller::threadLoop, readerFunction,        *)
(* writerFunction, and the callbacks of the tree                           *)

TakeJob(t) ==
  /\ At(t, "idle") /\ queue # << >>
  /\ job' = [job EXCEPT ![t] = Head(queue)]
  /\ queue' = Tail(queue)
  /\ Goto(t, "io")
  /\ UNCHANGED <<treeVars, lockVars, maint, store, reg, clientVars, remaining,
                 aborted>>

\* get() asserts that the file exists.
StorageGet(t) ==
  /\ At(t, "io") /\ job[t].op = "read"
  /\ IF store[job[t].id] = Empty
     THEN aborted' = "no such file" /\ UNCHANGED job
     ELSE /\ job' = [job EXCEPT ![t].data = store[job[t].id]]
          /\ UNCHANGED aborted
  /\ Goto(t, "readcb")
  /\ UNCHANGED <<treeVars, lockVars, maint, queue, store, reg, clientVars,
                 remaining>>

\* Fault: the write is acknowledged and dropped.
StoragePutDropped(t) ==
  /\ At(t, "io") /\ job[t].op # "read"
  /\ Goto(t, IF job[t].op = "evict" THEN "evictcb" ELSE "flushcb")
  /\ UNCHANGED <<treeVars, lockVars, maint, storageVars, reg, clientVars,
                 remaining, aborted>>

StoragePut(t) ==
  /\ At(t, "io") /\ job[t].op # "read"
  /\ store' = [store EXCEPT ![job[t].id] = job[t].data]
  /\ Goto(t, IF job[t].op = "evict" THEN "evictcb" ELSE "flushcb")
  /\ UNCHANGED <<treeVars, lockVars, maint, queue, job, reg, clientVars,
                 remaining, aborted>>

\* readNodeFileCb: deserialize, then current_cache_size += cacheSize(), both
\* under the file's mutex, then cacheMaintenance().
ReadNodeFileCb(t) ==
  /\ At(t, "readcb") /\ ~Locked(job[t].file)
  /\ file' = [file EXCEPT ![job[t].file] = Deserialized(@, job[t].data)]
  /\ fileMutex' = [fileMutex EXCEPT ![job[t].file] = t]
  /\ Goto(t, "readcbLoad")
  /\ UNCHANGED <<lru, hash, size, wsize, cacheMutex, maint, storageVars, reg,
                 clientVars, remaining, aborted>>

ReadNodeFileCbLoad(t) ==
  /\ At(t, "readcbLoad")
  /\ LoadSize(t, CacheSize(job[t].file))
  /\ Goto(t, "readcbStore")
  /\ UNCHANGED <<treeVars, lockVars, maint, storageVars, clientVars, remaining,
                 aborted>>

ReadNodeFileCbStore(t) ==
  /\ At(t, "readcbStore")
  /\ StoreSize(t)
  /\ fileMutex' = [fileMutex EXCEPT ![job[t].file] = Nobody]
  /\ Goto(t, "maint")
  /\ UNCHANGED <<file, lru, hash, wsize, cacheMutex, maint, storageVars,
                 clientVars, remaining, aborted>>

\* evictNodeFileCb, for a file nobody asked for since: delete it.
EvictNodeFileCb(t) ==
  /\ At(t, "evictcb") /\ cacheMutex = Nobody /\ ~Locked(job[t].file)
  /\ LET f == job[t].file IN
       /\ file[f].state = "EVICTING"
       /\ IF ~file[f].modified                       \* assert(isModified())
          THEN aborted' = "evicted twice" /\ UNCHANGED <<treeVars, reg>>
          ELSE /\ LoadSize(t, -CacheSize(f))
               /\ EndWrite(f)
               /\ Erase(f)
               /\ file' = [file EXCEPT ![f] = Unallocated]
               /\ UNCHANGED <<size, aborted>>
  /\ cacheMutex' = t
  /\ Goto(t, "evictcbStore")
  /\ UNCHANGED <<fileMutex, maint, storageVars, clientVars, remaining>>

EvictNodeFileCbStore(t) ==
  /\ At(t, "evictcbStore")
  /\ StoreSize(t)
  /\ cacheMutex' = Nobody
  /\ job' = [job EXCEPT ![t] = NoJob]
  /\ Goto(t, "idle")
  /\ UNCHANGED <<file, lru, hash, wsize, fileMutex, maint, queue, store,
                 clientVars, remaining, aborted>>

\* evictNodeFileCb, for a file requested again while it was written: back to
\* LOADED, and then a second lock of file_cache_mutex, which this thread
\* already holds and which is not recursive.
EvictNodeFileCbRequested(t) ==
  /\ At(t, "evictcb") /\ cacheMutex = Nobody /\ ~Locked(job[t].file)
  /\ LET f == job[t].file IN
       /\ file[f].state # "EVICTING"
       /\ IF ~file[f].modified \/ file[f].state # "LOADING"   \* the asserts
          THEN aborted' = "evicted twice" /\ UNCHANGED file
          ELSE /\ file' = [file EXCEPT ![f].modified = FALSE,
                                       ![f].state = "LOADED"]
               /\ UNCHANGED aborted
       /\ fileMutex' = [fileMutex EXCEPT ![f] = t]
  /\ cacheMutex' = t
  /\ Goto(t, "hung")
  /\ UNCHANGED <<lru, hash, size, wsize, maint, storageVars, reg, clientVars,
                 remaining>>

FlushNodeFileCb(t) ==
  /\ At(t, "flushcb") /\ ~Locked(job[t].file)
  /\ file' = [file EXCEPT ![job[t].file].modified = FALSE]
  /\ remaining' = remaining - 1
  /\ job' = [job EXCEPT ![t] = NoJob]
  /\ Goto(t, "idle")
  /\ UNCHANGED <<lru, hash, size, wsize, lockVars, maint, queue, store, reg,
                 clientVars, aborted>>

-----------------------------------------------------------------------------
(* flushCache and the destructor *)

FlushBegin(c) ==
  /\ cacheMutex = Nobody
  /\ BeginCall(c, "flush")
  /\ cacheMutex' = Client
  /\ maint' = [NoScan EXCEPT !.it = 1]
  /\ UNCHANGED <<treeVars, fileMutex, storageVars, reg, handles, version, truth,
                 remaining, aborted>>

FlushCache == FlushBegin(NoCall)

\* Fault: only files in use are flushed.
NeedsFlushInUse(f) ==
  file[f].state # "LOADING" /\ file[f].modified /\ file[f].users > 0
\* Fault: flushCache does not wait for its writes.
FlushDoneAtOnce == TRUE

NeedsFlush(f) == file[f].state # "LOADING" /\ file[f].modified
FlushDone     == remaining = 0

\* One file of the loop: a modified file is written, an evicted one too.
FlushFile ==
  /\ At(Client, "flush") /\ maint.it <= Len(lru)
  /\ LET f == lru[maint.it] IN
       /\ ~Locked(f)
       /\ IF NeedsFlush(f)
          THEN IF ~MayWrite
               THEN aborted' = "read only" /\ UNCHANGED <<queue, remaining>>
               ELSE /\ remaining' = remaining + 1
                    /\ queue' = Append(queue, [op |-> "flush", file |-> f,
                                   id |-> file[f].id, data |-> Serialized(f)])
                    /\ UNCHANGED aborted
          ELSE UNCHANGED <<queue, remaining, aborted>>
  /\ maint' = [maint EXCEPT !.it = @ + 1]
  /\ UNCHANGED <<treeVars, lockVars, store, job, pc, reg, clientVars>>

\* The wait for the writes ends when the last flushNodeFileCb notifies.
FlushEnd ==
  /\ At(Client, "flush") /\ maint.it > Len(lru) /\ FlushDone
  /\ cacheMutex' = Nobody /\ maint' = NoScan
  /\ Goto(Client, IF cl.stage = "destroy" THEN "destroy" ELSE "idle")
  /\ UNCHANGED <<treeVars, fileMutex, storageVars, reg, clientVars, remaining,
                 aborted>>

\* ~MegaTree, called when every node has been released: flushCache, then
\* every file is deleted as soon as it is LOADED.
Destroy ==
  /\ \A h \in Handles : handles[h] = NoHandle
  /\ FlushBegin([NoCall EXCEPT !.stage = "destroy"])

DestroyFile(f) ==
  /\ At(Client, "destroy") /\ cacheMutex = Nobody
  /\ \E i \in 1..Len(lru) : lru[i] = f
  /\ ~Locked(f) /\ file[f].state = "LOADED"
  /\ LoadSize(Client, -CacheSize(f))
  /\ Erase(f)
  /\ file' = [file EXCEPT ![f] = Unallocated]
  /\ cacheMutex' = Client
  /\ Goto(Client, "destroydec")
  /\ UNCHANGED <<size, wsize, fileMutex, maint, storageVars, clientVars,
                 remaining, aborted>>

DestroyFileStore ==
  /\ At(Client, "destroydec")
  /\ StoreSize(Client)
  /\ cacheMutex' = Nobody
  /\ Goto(Client, "destroy")
  /\ UNCHANGED <<file, lru, hash, wsize, fileMutex, maint, storageVars,
                 clientVars, remaining, aborted>>

DestroyEnd ==
  /\ At(Client, "destroy") /\ cacheMutex = Nobody
  /\ \A i \in Ids : hash[i] = NoFile                   \* file_cache.size() == 0
  /\ Goto(Client, "gone")
  /\ UNCHANGED <<treeVars, lockVars, maint, storageVars, reg, clientVars,
                 remaining, aborted>>

-----------------------------------------------------------------------------
CallStep ==
  \/ \E h \in Handles : GetRoot(h) \/ ModifyNode(h) \/ ReleaseNode(h)
  \/ \E p, h \in Handles, i \in Ids, s \in Shorts :
        GetChildNode(p, i, s, h) \/ CreateChildNode(p, i, s, h)
  \/ FlushCache
  \/ Destroy

\* The constructor, and the steps a call takes once it has begun.
ClientStep ==
  \/ \E f \in Files, h \in Handles : CreateRoot(f, h)
  \/ FindHit \/ (\E f \in Files, m \in BOOLEAN : FindMiss(f, m)) \/ Push
  \/ ReadNode \/ ParentHasFile \/ (\E f \in Files : ParentLacksFile(f))
  \/ LinkParent \/ CreateNode \/ CreateNodeStore \/ DropFile \/ Unlock
  \/ FlushFile \/ FlushEnd
  \/ (\E f \in Files : DestroyFile(f)) \/ DestroyFileStore \/ DestroyEnd

MaintStep(a) ==
  \/ MaintBegin(a) \/ MaintSkip(a) \/ MaintDelete(a) \/ MaintDeleteStore(a)
  \/ MaintWrite(a) \/ MaintEnd(a)

ThreadStep(t) ==
  \/ TakeJob(t) \/ StorageGet(t) \/ StoragePut(t)
  \/ ReadNodeFileCb(t) \/ ReadNodeFileCbLoad(t) \/ ReadNodeFileCbStore(t)
  \/ EvictNodeFileCb(t) \/ EvictNodeFileCbStore(t)
  \/ EvictNodeFileCbRequested(t) \/ FlushNodeFileCb(t)

Next ==
  \/ CallStep
  \/ ClientStep
  \/ \E a \in Actors : MaintStep(a)
  \/ \E t \in Threads : ThreadStep(t)

Spec == Init /\ [][Next]_vars

\* Threads that can run do run, and a call that has begun goes on; the client
\* need not begin another one.
Fairness ==
  /\ WF_vars(ClientStep)
  /\ \A a \in Actors : WF_vars(MaintStep(a))
  /\ \A t \in Threads : WF_vars(ThreadStep(t))

FairSpec == Spec /\ Fairness

-----------------------------------------------------------------------------
(* Properties *)

\* Every variable keeps its type.
TypeOK ==
  /\ file \in [Files -> NodeFile]
  /\ lru \in Seq(Files) /\ hash \in [Ids -> Files \cup {NoFile}]
  /\ cacheMutex \in Actors \cup {Nobody}
  /\ fileMutex \in [Files -> Actors \cup {Nobody}]
  /\ size \in Int /\ wsize \in Int
  /\ maint \in [it : Nat, to_evict : Int, evicted : Int]
  /\ queue \in Seq(Job) /\ store \in [Ids -> Content]
  /\ pc \in [Actors -> PCs] /\ job \in [Threads -> Job]
  /\ reg \in [Actors -> Int]
  /\ cl \in Call /\ handles \in [Handles -> Handle]
  /\ remaining \in Int /\ calls \in Nat /\ version \in Nat
  /\ truth \in [Ids -> [Shorts -> Values]]
  /\ aborted \in {"no", "read only", "out of space", "no such file",
                  "evicted twice"}

\* The references to f that addUser, readNode and createNode have counted:
\* the handles on it and the locals of the client's call.
Pins(f) ==
  Cardinality({h \in Handles : handles[h].file = f})
  + (IF cl.stage # "none" /\ cl.file = f THEN 1 ELSE 0)
  + (IF cl.stage # "none" /\ cl.pfile = f THEN 1 ELSE 0)

\* use_count is exactly the number of references the client holds, whatever
\* the order of getNodeFile, readNode, createNode, releaseNode and
\* releaseNodeFile: the assert(use_count > 0) of removeUser never fails and a
\* file nobody holds can be evicted.
UserCountExact == \A f \in Files : file[f].users = Pins(f)

\* cacheMaintenance, evictNodeFileCb and the destructor never delete, and never
\* are about to delete, a NodeFile that a handle or a call still points to.
PinnedFilesLive ==
  /\ \A h \in Handles : handles[h].file # NoFile =>
        /\ file[handles[h].file].state \in {"LOADING", "LOADED"}
        /\ file[handles[h].file].id = handles[h].id
  /\ cl.stage # "none" /\ cl.file # NoFile =>
        /\ file[cl.file].state \in {"LOADING", "LOADED"}
        /\ file[cl.file].id = cl.id
  /\ cl.stage # "none" /\ cl.pfile # NoFile =>
        /\ file[cl.pfile].state \in {"LOADING", "LOADED"}
        /\ file[cl.pfile].id = Parent[cl.id]

\* Requests whose callback has not run yet.
Pending ==
  {queue[n] : n \in 1..Len(queue)}
  \cup {job[t] : t \in {u \in Threads :
                          pc[u] \in {"io", "readcb", "evictcb", "flushcb"}}}

\* readNodeFileCb, evictNodeFileCb and flushNodeFileCb get a raw pointer or a
\* list iterator: the file is alive when they run, is still the file they were
\* bound to, and is in a state they handle.
CallbackTargetsLive ==
  \A j \in Pending :
    /\ file[j.file].id = j.id
    /\ j.op = "read"  => file[j.file].state = "LOADING"
    /\ j.op = "evict" => file[j.file].state \in {"EVICTING", "LOADING"}
    /\ j.op = "flush" => file[j.file].state \in {"EVICTING", "LOADED"}

\* The list and the hash of the cache describe the same files, there is one
\* NodeFile per id, and every NodeFile is in the cache or about to be pushed.
CacheIndexCoherent ==
  /\ \A m, n \in 1..Len(lru) : m # n => file[lru[m]].id # file[lru[n]].id
  /\ \A i \in Ids : hash[i] # NoFile =>
        file[hash[i]].id = i /\ \E n \in 1..Len(lru) : lru[n] = hash[i]
  /\ \A f \in Files : file[f].state # "FREE" =>
        \/ hash[file[f].id] = f
        \/ pc[Client] = "push" /\ f = Current

\* The file of id i in memory, once its contents are there.
InMemory(i, f) ==
  /\ file[f].state # "FREE" /\ file[f].id = i
  /\ ~\E j \in Pending : j.op = "read" /\ j.file = f

\* What a reader of file i finds: the NodeFile in memory, or else the storage.
View(i) ==
  IF \E f \in Files : InMemory(i, f)
  THEN Serialized(CHOOSE f \in Files : InMemory(i, f))
  ELSE store[i]

\* No change made through a handle is lost: eviction, the write in flight, the
\* reload and the flush always leave the last value of every node reachable.
NoLostUpdate == \A i \in Ids : View(i).nodes = truth[i]

\* The parent's child_files byte names every child file that has nodes, so
\* createChildNode never creates an existing file anew.
ChildFilesKnown ==
  \A i \in Ids \ {Root} :
    (\E s \in Shorts : truth[i][s] # Absent) => i \in View(Parent[i]).child

\* A NodeFile is deleted only when nobody uses it and the storage has its
\* contents: the cache is the only copy of a modified file.
DeletedOnlyWhenStored ==
  [][\A f \in Files :
       file[f].state # "FREE" /\ file'[f].state = "FREE"
         => Pins(f) = 0 /\ store[file[f].id] = Serialized(f)]_vars

\* When flushCache returns, every cached file that is not being loaded, and
\* whose handles have reported their changes, is in the storage.
FlushStoresAll ==
  [][pc[Client] = "flush" /\ pc'[Client] # "flush" =>
       \A f \in Files :
         /\ file[f].state \in {"LOADED", "EVICTING"}
         /\ \A h \in Handles : handles[h].file = f => ~handles[h].modified
         => store[file[f].id] = Serialized(f)]_vars

\* When the destructor has finished, every change is in the storage and no
\* request is left whose callback would reach a deleted NodeFile.
DestroyedIsStored ==
  pc[Client] = "gone" => Pending = {} /\ \A i \in Ids : store[i].nodes = truth[i]

\* Every call returns, or the process has aborted: getNodeFile, the wait for
\* the load, cacheMaintenance and flushCache's wait for its writes end.
CallReturns ==
  [](pc[Client] # "idle" => <>(pc[Client] \in {"idle", "gone"} \/ aborted # "no"))

\* evictNodeFileCb returns a file requested again to the loaded state and
\* comes back to its thread.
EvictCallbackReturns ==
  \A t \in Threads :
    pc[t] = "evictcb" /\ file[job[t].file].state = "LOADING"
      ~> pc[t] = "idle" \/ aborted # "no"

\* "Number of nodes currently being written": while a write is under way its
\* file keeps the nodes that cacheMaintenance counted, although it can be asked
\* for, and handed out, in the meantime; so evictNodeFileCb subtracts what was
\* added.  Once the callback has made the file LOADED again, createNode can add
\* to it, and what is left in the count is what was written.
WriteSizeExact ==
  aborted = "no" =>
    wsize = Cardinality({e \in Files \X Shorts :
      \/ /\ \E j \in Pending : j.op = "evict" /\ j.file = e[1]
         /\ file[e[1]].nodes[e[2]] # Absent
      \/ \E t \in Threads : /\ pc[t] = "hung" /\ job[t].file = e[1]
                            /\ job[t].data.nodes[e[2]] # Absent})

=============================================================================
