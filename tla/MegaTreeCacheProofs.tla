------------------------ MODULE MegaTreeCacheProofs ------------------------
(***************************************************************************)
(* Theorems about MegaTreeCache, for every number of files, handles and    *)
(* storage threads, in three parts, each with an invariant that rests on   *)
(* the one before:                                                         *)
(*   - its type invariant, and that a NodeFile is never deleted while a    *)
(*     handle or a call of the client refers to it;                        *)
(*   - a callback that runs finds the NodeFile it was bound to, and        *)
(*     flushCache waits for its writes;                                    *)
(*   - the list and the hash agree, no change of a node is lost, child     *)
(*     files stay known, what is deleted, flushed or destroyed is in the   *)
(*     storage, and the size of the writes under way is what it is said to *)
(*     be.                                                                 *)
(***************************************************************************)
EXTENDS MegaTreeCache, SequenceTheorems, FiniteSetTheorems,
        WellFoundedInduction, TLAPS

(***************************************************************************)
(* Part 1.  The inductive invariant for types and use counts               *)
(***************************************************************************)

\* A thread inside one of the long critical sections owns file_cache_mutex.
LockInv ==
  \A x \in Actors :
    pc[x] \in {"scan", "scandec", "evictcbStore", "hung", "flush", "destroydec"}
      => cacheMutex = x

\* The iterator of cacheMaintenance and of flushCache points into the list.
ScanInv ==
  /\ \A x \in Actors : pc[x] \in {"scan", "scandec"} => maint.it <= Len(lru)
  /\ pc[Client] = "flush" => maint.it >= 1

\* Where each call of the client can be, and which NodeFiles it holds there.
CallInv ==
  LET at(S) == pc[Client] \in S IN
  /\ cl.stage = "none" => at({"idle", "ctor", "unlock", "flush"})
  /\ cl.stage = "destroy" =>
       /\ at({"flush", "destroy", "destroydec", "gone"})
       /\ cl.file = NoFile /\ cl.pfile = NoFile
  /\ cl.stage = "root" =>
       /\ at({"push", "maint", "scan", "scandec", "create", "inc", "drop"})
       /\ cl.file # NoFile /\ cl.pfile = NoFile /\ cl.id = Root
  /\ cl.stage = "node" =>
       /\ at({"find", "push", "got"})
       /\ (cl.file = NoFile <=> at({"find"})) /\ cl.pfile = NoFile
  /\ cl.stage = "parent" =>
       /\ at({"find", "push", "got"})
       /\ cl.file = NoFile /\ (cl.pfile = NoFile <=> at({"find"}))
  /\ cl.stage = "child" =>
       /\ at({"find", "push", "got", "create", "inc", "drop"})
       /\ (cl.file = NoFile <=> at({"find"}))
       /\ (cl.pfile = NoFile <=> at({"create", "inc", "drop"}))
  /\ cl.stage = "created" =>
       /\ at({"push", "maint", "scan", "scandec", "link", "create", "inc",
              "drop"})
       /\ cl.file # NoFile
       /\ (cl.pfile = NoFile <=> at({"create", "inc", "drop"}))

\* The handle a call is to fill is empty until the call fills it, and a tree
\* under construction or destruction has no handles.
SlotInv ==
  /\ cl.stage \notin {"none", "destroy"} =>
       /\ cl.slot \in Handles
       /\ pc[Client] \notin {"inc", "drop"} => handles[cl.slot].file = NoFile
  /\ pc[Client] = "ctor" \/ cl.stage = "destroy" =>
       \A h \in Handles : handles[h].file = NoFile

\* The hash maps an id to a live NodeFile of that id.
HashInv ==
  \A i \in Ids : hash[i] # NoFile =>
    file[hash[i]].id = i /\ file[hash[i]].state # "FREE"

\* use_count is exact, and a file that is deleted or being evicted has none.
UserInv ==
  \A f \in Files :
    /\ file[f].users = Pins(f)
    /\ file[f].state \in {"FREE", "EVICTING"} => file[f].users = 0

\* A NodeFile the client refers to is the one of the id it asked for.
IdInv ==
  /\ \A h \in Handles : handles[h].file # NoFile =>
        file[handles[h].file].id = handles[h].id
  /\ cl.stage # "none" /\ cl.file # NoFile => file[cl.file].id = cl.id
  /\ cl.stage # "none" /\ cl.pfile # NoFile =>
        file[cl.pfile].id = Parent[cl.id]

IInv ==
  TypeOK /\ LockInv /\ ScanInv /\ CallInv /\ SlotInv /\ HashInv /\ UserInv
  /\ IdInv

(***************************************************************************)
(* Lemmas about sequences                                                  *)
(***************************************************************************)

\* A set of natural numbers that is not empty has a minimum.
LEMMA NatMin ==
  ASSUME NEW T \in SUBSET Nat, T # {}
  PROVE  Min(T) \in T
<1> DEFINE R == OpToRel(<, Nat)
<1>1. PICK m \in T : \A n \in T : ~(<<n, m>> \in R)
  <2>1. IsWellFoundedOn(R, Nat)
    BY NatLessThanWellFounded
  <2> HIDE DEF R
  <2> QED
    BY <2>1, WFMin
<1>2. R = {ss \in Nat \X Nat : ss[1] < ss[2]}
  BY DEF OpToRel
<1> HIDE DEF R
<1>3. ASSUME NEW n \in T PROVE m <= n
  <2>1. m \in Nat /\ n \in Nat
    OBVIOUS
  <2>2. <<n, m>> \in R <=> n < m
    BY <1>2, <2>1
  <2> QED
    BY <1>1, <2>1, <2>2
<1> QED
  BY <1>3 DEF Min

LEMMA RemoveAtType ==
  ASSUME NEW S, NEW q \in Seq(S), NEW k \in 1..Len(q)
  PROVE  RemoveAt(q, k) \in Seq(S) /\ Len(RemoveAt(q, k)) = Len(q) - 1
<1> DEFINE u == SubSeq(q, 1, k - 1)
           v == SubSeq(q, k + 1, Len(q))
<1>1. u \in Seq(S) /\ Len(u) = k - 1
  BY SubSeqProperties
<1>2. v \in Seq(S) /\ Len(v) = Len(q) - k
  BY SubSeqProperties
<1>3. RemoveAt(q, k) = u \o v
  BY DEF RemoveAt
<1> HIDE DEF u, v
<1> QED
  BY <1>1, <1>2, <1>3, ConcatProperties

\* erase removes at most the entry it is given.
LEMMA RemoveFirstType ==
  ASSUME NEW S, NEW q \in Seq(S), NEW e
  PROVE  /\ RemoveFirst(q, e) \in Seq(S)
         /\ Len(RemoveFirst(q, e)) >= Len(q) - 1
<1>1. CASE \E i \in 1..Len(q) : q[i] = e
  <2> DEFINE I == {i \in 1..Len(q) : q[i] = e}
  <2>1. RemoveFirst(q, e) = RemoveAt(q, Min(I))
    BY <1>1 DEF RemoveFirst, SelectInSeq
  <2>2. I \in SUBSET Nat /\ I # {}
    BY <1>1
  <2>3. Min(I) \in 1..Len(q)
    BY <2>2, NatMin
  <2> QED
    BY <2>1, <2>3, RemoveAtType
<1>2. CASE ~\E i \in 1..Len(q) : q[i] = e
  BY <1>2 DEF RemoveFirst
<1> QED
  BY <1>1, <1>2

(***************************************************************************)
(* Lemmas about the references of the client                               *)
(***************************************************************************)

\* The number of references to a file is a natural number; it is positive for
\* a file that a handle or the call of the client refers to.
LEMMA PinsNat ==
  ASSUME NEW f
  PROVE  /\ Pins(f) \in Nat
         /\ \A h \in Handles : handles[h].file = f => Pins(f) > 0
         /\ cl.stage # "none" /\ (cl.file = f \/ cl.pfile = f) => Pins(f) > 0
<1> DEFINE H == {h \in Handles : handles[h].file = f}
<1>1. IsFiniteSet(H)
  BY FS_Subset, FiniteAssumption
<1>2. Cardinality(H) \in Nat
  BY <1>1, FS_CardinalityType
<1>3. \A h \in Handles : handles[h].file = f => Cardinality(H) # 0
  BY <1>1, FS_EmptySet
<1> HIDE DEF H
<1>4. Pins(f) = Cardinality(H)
                + (IF cl.stage # "none" /\ cl.file = f THEN 1 ELSE 0)
                + (IF cl.stage # "none" /\ cl.pfile = f THEN 1 ELSE 0)
  BY DEF Pins, H
<1> QED
  BY <1>2, <1>3, <1>4

\* References change only with the handles and the locals of the call.
LEMMA PinsFrame ==
  ASSUME UNCHANGED <<cl, handles>>, NEW f
  PROVE  Pins(f)' = Pins(f)
BY DEF Pins

\* A file without users is one the client does not refer to.
LEMMA Unpinned ==
  ASSUME IInv, NEW f \in Files, file[f].users = 0
  PROVE  /\ \A h \in Handles : handles[h].file # f
         /\ cl.stage # "none" => cl.file # f /\ cl.pfile # f
<1>1. Pins(f) = 0
  BY DEF IInv, UserInv
<1> QED
  BY <1>1, PinsNat

\* A file the client refers to is neither deleted nor about to be.
LEMMA Pinned ==
  ASSUME IInv, NEW f \in Files,
         \/ \E h \in Handles : handles[h].file = f
         \/ cl.stage # "none" /\ (cl.file = f \/ cl.pfile = f)
  PROVE  file[f].state \in {"LOADING", "LOADED"}
<1>1. file[f].users # 0
  BY Unpinned
<1>2. file[f].state \in NodeStates
  BY DEF IInv, TypeOK, NodeFile
<1> QED
  BY <1>1, <1>2 DEF IInv, UserInv, NodeStates

\* A step that changes one NodeFile in place, without touching its users and
\* its id, keeps the facts about references.
LEMMA InPlace ==
  ASSUME IInv, UNCHANGED <<cl, handles, hash>>, NEW g, NEW nf,
         file' = [file EXCEPT ![g] = nf],
         g \in Files => /\ nf.users = file[g].users /\ nf.id = file[g].id
                        /\ nf.state = "FREE" => file[g].state = "FREE"
                        /\ nf.state = "EVICTING" => nf.users = 0
  PROVE  HashInv' /\ UserInv' /\ IdInv'
<1>0. file \in [Files -> NodeFile] /\ hash \in [Ids -> Files \cup {NoFile}]
      /\ handles \in [Handles -> Handle] /\ cl \in Call /\ NoFile \notin Files
  BY ConstantsAssumption DEF IInv, TypeOK
<1>1. \A f \in Files : /\ file'[f].id = file[f].id
                       /\ file'[f].users = file[f].users
                       /\ file'[f].state = "FREE" => file[f].state = "FREE"
                       /\ file'[f].state \in {"FREE", "EVICTING"} =>
                            file'[f].users = 0
  BY <1>0 DEF IInv, UserInv
<1>2. HashInv'
  BY <1>0, <1>1 DEF IInv, HashInv
<1>3. UserInv'
  BY <1>1, PinsFrame DEF IInv, UserInv
<1>4. IdInv'
  BY <1>0, <1>1 DEF IInv, IdInv, Handle, Call
<1> QED
  BY <1>2, <1>3, <1>4

\* So does a step that leaves the files alone.
LEMMA Untouched ==
  ASSUME IInv, UNCHANGED <<cl, handles, hash, file>>
  PROVE  HashInv' /\ UserInv' /\ IdInv'
<1>1. UserInv'
  BY PinsFrame DEF IInv, UserInv
<1> QED
  BY <1>1 DEF IInv, HashInv, IdInv

\* So does a step that deletes a file without users and erases its entry.
LEMMA Deleted ==
  ASSUME IInv, UNCHANGED <<cl, handles>>, NEW g \in Files \cup {NoFile},
         file' = [file EXCEPT ![g] = Unallocated],
         hash' = [hash EXCEPT ![file[g].id] = NoFile],
         g \in Files => file[g].users = 0
  PROVE  HashInv' /\ UserInv' /\ IdInv'
<1>0. file \in [Files -> NodeFile] /\ hash \in [Ids -> Files \cup {NoFile}]
      /\ handles \in [Handles -> Handle] /\ cl \in Call /\ NoFile \notin Files
  BY ConstantsAssumption DEF IInv, TypeOK
<1>1. \A f \in Files : f # g => file'[f] = file[f]
  BY <1>0
<1>2. g \in Files => file'[g] = Unallocated
  BY <1>0
<1>3. HashInv'
  <2> SUFFICES ASSUME NEW i \in Ids, hash'[i] # NoFile
               PROVE  file'[hash'[i]].id = i /\ file'[hash'[i]].state # "FREE"
    BY DEF HashInv
  <2>1. hash'[i] = hash[i] /\ hash[i] \in Files /\ i # file[g].id
    BY <1>0
  <2>2. hash[i] # g
    BY <2>1 DEF IInv, HashInv
  <2> QED
    BY <1>1, <2>1, <2>2 DEF IInv, HashInv
<1>4. UserInv'
  BY <1>1, <1>2, PinsFrame DEF IInv, UserInv, Unallocated
<1>5. IdInv'
  <2>1. g \in Files => /\ \A h \in Handles : handles[h].file # g
                       /\ cl.stage # "none" => cl.file # g /\ cl.pfile # g
    BY Unpinned
  <2> QED
    BY <1>0, <1>1, <2>1 DEF IInv, IdInv, Handle, Call
<1> QED
  BY <1>3, <1>4, <1>5

\* The facts about the call hold while the client does not move.
LEMMA ClientStill ==
  ASSUME IInv, UNCHANGED <<cl, handles>>, pc'[Client] = pc[Client]
  PROVE  CallInv' /\ SlotInv'
BY DEF IInv, CallInv, SlotInv

\* EXCEPT keeps the type of a function, also at a point outside its domain.
LEMMA ExceptType ==
  ASSUME NEW S, NEW T, NEW fn \in [S -> T], NEW x, NEW y, x \in S => y \in T
  PROVE  [fn EXCEPT ![x] = y] \in [S -> T]
OBVIOUS

\* While file_cache_mutex is free no thread is in a long critical section.
LEMMA MutexFree ==
  ASSUME IInv, cacheMutex = Nobody
  PROVE  \A x \in Actors :
           pc[x] \notin {"scan", "scandec", "evictcbStore", "hung", "flush",
                         "destroydec"}
BY ConstantsAssumption DEF IInv, LockInv, Actors

LEMMA NoJobType == NoJob \in Job
BY ConstantsAssumption DEF NoJob, Job, Content, Empty, Values, Absent

LEMMA UnallocatedType == Unallocated \in NodeFile
BY ConstantsAssumption
   DEF Unallocated, NodeFile, NodeStates, Empty, Values, Absent

LEMMA SizeNat == \A f : CacheSize(f) \in Nat
<1> SUFFICES ASSUME NEW f PROVE CacheSize(f) \in Nat
  OBVIOUS
<1>1. IsFiniteSet({s \in Shorts : file[f].nodes[s] # Absent})
  BY FS_Subset, FiniteAssumption
<1> QED
  BY <1>1, FS_CardinalityType DEF CacheSize

(***************************************************************************)
(* The storage threads                                                     *)
(***************************************************************************)

LEMMA TakeJobInv ==
  ASSUME IInv, NEW t \in Threads, TakeJob(t) PROVE IInv'
<1> USE ConstantsAssumption DEF At, Goto, Actors
<1>1. TypeOK'
  <2>1. Head(queue) \in Job /\ Tail(queue) \in Seq(Job)
    BY HeadTailProperties DEF IInv, TypeOK, TakeJob
  <2> QED
    BY <2>1 DEF IInv, TypeOK, TakeJob, PCs, treeVars, lockVars, clientVars
<1>2. UNCHANGED <<cl, handles, hash, file>> /\ pc'[Client] = pc[Client]
  BY DEF IInv, TypeOK, TakeJob, treeVars, clientVars
<1>3. LockInv' /\ ScanInv'
  BY DEF IInv, TypeOK, TakeJob, LockInv, ScanInv, treeVars, lockVars
<1> QED
  BY <1>1, <1>2, <1>3, Untouched, ClientStill DEF IInv

LEMMA StorageGetInv ==
  ASSUME IInv, NEW t \in Threads, StorageGet(t) PROVE IInv'
<1> USE ConstantsAssumption DEF At, Goto, Actors
<1>1. TypeOK'
  <2>1. job[t] \in Job /\ store[job[t].id] \in Content
    BY DEF IInv, TypeOK, Job
  <2>2. [job[t] EXCEPT !.data = store[job[t].id]] \in Job
    BY <2>1 DEF Job
  <2>3. job' \in [Threads -> Job]
    <3>1. job' = job \/ job' = [job EXCEPT ![t] =
                                   [job[t] EXCEPT !.data = store[job[t].id]]]
      BY DEF StorageGet
    <3>2. job \in [Threads -> Job]
      BY DEF IInv, TypeOK
    <3> QED
      BY <2>2, <3>1, <3>2, ExceptType
  <2> QED
    BY <2>3 DEF IInv, TypeOK, StorageGet, PCs, treeVars, lockVars, clientVars
<1>2. UNCHANGED <<cl, handles, hash, file>> /\ pc'[Client] = pc[Client]
  BY DEF IInv, TypeOK, StorageGet, treeVars, clientVars
<1>3. LockInv' /\ ScanInv'
  BY DEF IInv, TypeOK, StorageGet, LockInv, ScanInv, treeVars, lockVars
<1> QED
  BY <1>1, <1>2, <1>3, Untouched, ClientStill DEF IInv

LEMMA StoragePutInv ==
  ASSUME IInv, NEW t \in Threads, StoragePut(t) PROVE IInv'
<1> USE ConstantsAssumption DEF At, Goto, Actors
<1>1. TypeOK'
  BY DEF IInv, TypeOK, StoragePut, PCs, Job, Content, treeVars, lockVars,
         clientVars
<1>2. UNCHANGED <<cl, handles, hash, file>> /\ pc'[Client] = pc[Client]
  BY DEF IInv, TypeOK, StoragePut, treeVars, clientVars
<1>3. LockInv' /\ ScanInv'
  BY DEF IInv, TypeOK, StoragePut, LockInv, ScanInv, treeVars, lockVars
<1> QED
  BY <1>1, <1>2, <1>3, Untouched, ClientStill DEF IInv

LEMMA ReadNodeFileCbInv ==
  ASSUME IInv, NEW t \in Threads, ReadNodeFileCb(t) PROVE IInv'
<1> USE ConstantsAssumption DEF At, Goto, Actors
<1> DEFINE g == job[t].file
           nf == Deserialized(file[g], job[t].data)
<1>1. file' = [file EXCEPT ![g] = nf]
  BY DEF ReadNodeFileCb
<1>2. /\ job[t].data \in Content
      /\ g \in Files => file[g] \in NodeFile
  BY DEF IInv, TypeOK, Job
<1>3. g \in Files =>
        /\ nf \in NodeFile /\ nf.state = "LOADED"
        /\ nf.users = file[g].users /\ nf.id = file[g].id
  BY <1>2 DEF Deserialized, NodeFile, NodeStates, Content, Values, Absent
<1> HIDE DEF nf
<1>4. TypeOK'
  <2>1. file' \in [Files -> NodeFile]
    <3>1. file \in [Files -> NodeFile]
      BY DEF IInv, TypeOK
    <3> HIDE DEF g
    <3> QED
      BY <1>1, <1>3, <3>1, ExceptType
  <2>2. fileMutex' \in [Files -> Actors \cup {Nobody}]
    BY DEF IInv, TypeOK, ReadNodeFileCb
  <2>3. pc' \in [Actors -> PCs]
    BY DEF IInv, TypeOK, ReadNodeFileCb, PCs
  <2> QED
    BY <2>1, <2>2, <2>3 DEF IInv, TypeOK, ReadNodeFileCb, storageVars,
                            clientVars
<1>5. UNCHANGED <<cl, handles, hash>> /\ pc'[Client] = pc[Client]
  BY DEF IInv, TypeOK, ReadNodeFileCb, clientVars
<1>6. LockInv' /\ ScanInv'
  BY DEF IInv, TypeOK, ReadNodeFileCb, LockInv, ScanInv
<1>7. HashInv' /\ UserInv' /\ IdInv'
  BY <1>1, <1>3, <1>5, InPlace
<1> QED
  BY <1>4, <1>5, <1>6, <1>7, ClientStill DEF IInv

LEMMA ReadNodeFileCbLoadInv ==
  ASSUME IInv, NEW t \in Threads, ReadNodeFileCbLoad(t) PROVE IInv'
<1> USE ConstantsAssumption DEF At, Goto, Actors
<1>1. TypeOK'
  BY SizeNat DEF IInv, TypeOK, ReadNodeFileCbLoad, LoadSize, PCs, treeVars,
                 lockVars, storageVars, clientVars
<1>2. UNCHANGED <<cl, handles, hash, file>> /\ pc'[Client] = pc[Client]
  BY DEF IInv, TypeOK, ReadNodeFileCbLoad, treeVars, clientVars
<1>3. LockInv' /\ ScanInv'
  BY DEF IInv, TypeOK, ReadNodeFileCbLoad, LockInv, ScanInv, treeVars, lockVars
<1> QED
  BY <1>1, <1>2, <1>3, Untouched, ClientStill DEF IInv

LEMMA ReadNodeFileCbStoreInv ==
  ASSUME IInv, NEW t \in Threads, ReadNodeFileCbStore(t) PROVE IInv'
<1> USE ConstantsAssumption DEF At, Goto, Actors
<1>1. TypeOK'
  <2>1. fileMutex' \in [Files -> Actors \cup {Nobody}]
    BY DEF IInv, TypeOK, ReadNodeFileCbStore
  <2>2. pc' \in [Actors -> PCs]
    BY DEF IInv, TypeOK, ReadNodeFileCbStore, PCs
  <2> QED
    BY <2>1, <2>2 DEF IInv, TypeOK, ReadNodeFileCbStore, StoreSize,
                      storageVars, clientVars
<1>2. UNCHANGED <<cl, handles, hash, file>> /\ pc'[Client] = pc[Client]
  BY DEF IInv, TypeOK, ReadNodeFileCbStore, clientVars
<1>3. LockInv' /\ ScanInv'
  BY DEF IInv, TypeOK, ReadNodeFileCbStore, LockInv, ScanInv
<1> QED
  BY <1>1, <1>2, <1>3, Untouched, ClientStill DEF IInv

LEMMA EvictNodeFileCbInv ==
  ASSUME IInv, NEW t \in Threads, EvictNodeFileCb(t) PROVE IInv'
<1> USE ConstantsAssumption DEF At, Goto, Actors
<1> DEFINE g == job[t].file
<1>1. UNCHANGED <<cl, handles>> /\ pc'[Client] = pc[Client]
      /\ g \in Files \cup {NoFile}
  BY DEF IInv, TypeOK, EvictNodeFileCb, Job, clientVars
<1>2. LockInv' /\ ScanInv'
  BY MutexFree DEF IInv, TypeOK, EvictNodeFileCb, LockInv, ScanInv
<1>3. CASE ~file[g].modified
  <2>1. UNCHANGED treeVars /\ UNCHANGED reg
    BY <1>3 DEF EvictNodeFileCb
  <2>2. TypeOK'
    BY <1>3, <2>1 DEF IInv, TypeOK, EvictNodeFileCb, PCs, treeVars,
                      storageVars, clientVars
  <2> QED
    BY <1>1, <1>2, <2>1, <2>2, Untouched, ClientStill DEF IInv, treeVars
<1>4. CASE file[g].modified
  <2>1. /\ file' = [file EXCEPT ![g] = Unallocated]
        /\ hash' = [hash EXCEPT ![file[g].id] = NoFile]
        /\ lru' = RemoveFirst(lru, g)
        /\ reg' = [reg EXCEPT ![t] = size + (-CacheSize(g))]
        /\ wsize' = wsize - CacheSize(g) /\ UNCHANGED <<size, aborted>>
    BY <1>4 DEF EvictNodeFileCb, Erase, LoadSize, EndWrite
  <2>2. lru' \in Seq(Files)
    BY <2>1, RemoveFirstType DEF IInv, TypeOK
  <2>3. file' \in [Files -> NodeFile]
    BY <2>1, UnallocatedType DEF IInv, TypeOK
  <2>4. TypeOK'
    <3>1. hash' \in [Ids -> Files \cup {NoFile}]
      BY <2>1 DEF IInv, TypeOK
    <3>2. reg' \in [Actors -> Int] /\ wsize' \in Int /\ size' \in Int
      <4>1. CacheSize(g) \in Nat /\ size \in Int /\ wsize \in Int
            /\ reg \in [Actors -> Int]
        BY SizeNat DEF IInv, TypeOK
      <4>2. size + (-CacheSize(g)) \in Int /\ wsize - CacheSize(g) \in Int
        BY <4>1
      <4> QED
        BY <2>1, <4>1, <4>2, ExceptType
    <3>3. pc' \in [Actors -> PCs] /\ cacheMutex' \in Actors \cup {Nobody}
      BY DEF IInv, TypeOK, EvictNodeFileCb, PCs
    <3> QED
      BY <2>1, <2>2, <2>3, <3>1, <3>2, <3>3
         DEF IInv, TypeOK, EvictNodeFileCb, storageVars, clientVars
  <2>5. g \in Files => file[g].users = 0
    BY DEF IInv, UserInv, EvictNodeFileCb
  <2>6. HashInv' /\ UserInv' /\ IdInv'
    BY <1>1, <2>1, <2>5, Deleted
  <2> QED
    BY <1>1, <1>2, <2>4, <2>6, ClientStill DEF IInv
<1> QED
  BY <1>3, <1>4

LEMMA EvictNodeFileCbStoreInv ==
  ASSUME IInv, NEW t \in Threads, EvictNodeFileCbStore(t) PROVE IInv'
<1> USE ConstantsAssumption DEF At, Goto, Actors
<1>1. TypeOK'
  BY NoJobType
     DEF IInv, TypeOK, EvictNodeFileCbStore, StoreSize, PCs, clientVars
<1>2. UNCHANGED <<cl, handles, hash, file>> /\ pc'[Client] = pc[Client]
  BY DEF IInv, TypeOK, EvictNodeFileCbStore, clientVars
<1>3. LockInv' /\ ScanInv'
  BY DEF IInv, TypeOK, EvictNodeFileCbStore, LockInv, ScanInv
<1> QED
  BY <1>1, <1>2, <1>3, Untouched, ClientStill DEF IInv

LEMMA EvictNodeFileCbRequestedInv ==
  ASSUME IInv, NEW t \in Threads, EvictNodeFileCbRequested(t) PROVE IInv'
<1> USE ConstantsAssumption DEF At, Goto, Actors
<1> DEFINE g == job[t].file
           nf == [file[g] EXCEPT !.modified = FALSE, !.state = "LOADED"]
<1>1. UNCHANGED <<cl, handles, hash, lru, maint>> /\ pc'[Client] = pc[Client]
  BY DEF IInv, TypeOK, EvictNodeFileCbRequested, clientVars
<1>2. LockInv' /\ ScanInv'
  BY <1>1, MutexFree
     DEF IInv, TypeOK, EvictNodeFileCbRequested, LockInv, ScanInv
<1>3. g \in Files => nf \in NodeFile /\ nf.state = "LOADED"
                     /\ nf.users = file[g].users /\ nf.id = file[g].id
  <2>1. g \in Files => file[g] \in NodeFile
    BY DEF IInv, TypeOK
  <2> QED
    BY <2>1 DEF NodeFile, NodeStates
<1>4. file' = file \/ file' = [file EXCEPT ![g] = nf]
  BY DEF EvictNodeFileCbRequested
<1> HIDE DEF nf
<1>5. file' \in [Files -> NodeFile]
  <2>1. file \in [Files -> NodeFile]
    BY DEF IInv, TypeOK
  <2> HIDE DEF g
  <2> QED
    BY <1>3, <1>4, <2>1, ExceptType
<1>6. TypeOK'
  <2>1. fileMutex' \in [Files -> Actors \cup {Nobody}]
    BY DEF IInv, TypeOK, EvictNodeFileCbRequested
  <2>2. pc' \in [Actors -> PCs] /\ cacheMutex' \in Actors \cup {Nobody}
    BY DEF IInv, TypeOK, EvictNodeFileCbRequested, PCs
  <2> QED
    BY <1>5, <2>1, <2>2 DEF IInv, TypeOK, EvictNodeFileCbRequested,
                            storageVars, clientVars
<1>7. HashInv' /\ UserInv' /\ IdInv'
  BY <1>1, <1>3, <1>4, InPlace, Untouched
<1> QED
  BY <1>1, <1>2, <1>6, <1>7, ClientStill DEF IInv

LEMMA FlushNodeFileCbInv ==
  ASSUME IInv, NEW t \in Threads, FlushNodeFileCb(t) PROVE IInv'
<1> USE ConstantsAssumption DEF At, Goto, Actors
<1> DEFINE g == job[t].file
           nf == [file[g] EXCEPT !.modified = FALSE]
<1>1. UNCHANGED <<cl, handles, hash>> /\ pc'[Client] = pc[Client]
  BY DEF IInv, TypeOK, FlushNodeFileCb, clientVars
<1>2. LockInv' /\ ScanInv'
  BY DEF IInv, TypeOK, FlushNodeFileCb, LockInv, ScanInv, lockVars
<1>3. g \in Files => nf \in NodeFile /\ nf.state = file[g].state
                     /\ nf.users = file[g].users /\ nf.id = file[g].id
  <2>1. g \in Files => file[g] \in NodeFile
    BY DEF IInv, TypeOK
  <2> QED
    BY <2>1 DEF NodeFile
<1>4. file' = [file EXCEPT ![g] = nf]
  BY DEF FlushNodeFileCb
<1> HIDE DEF nf
<1>5. file' \in [Files -> NodeFile]
  <2>1. file \in [Files -> NodeFile]
    BY DEF IInv, TypeOK
  <2> HIDE DEF g
  <2> QED
    BY <1>3, <1>4, <2>1, ExceptType
<1>6. TypeOK'
  <2>1. job' \in [Threads -> Job] /\ pc' \in [Actors -> PCs] /\ remaining' \in Int
    BY NoJobType DEF IInv, TypeOK, FlushNodeFileCb, PCs
  <2>2. UNCHANGED <<lru, hash, size, wsize, cacheMutex, fileMutex, maint, queue, store, reg,
                    cl, handles, calls, version, truth, aborted>>
    BY DEF FlushNodeFileCb, lockVars, clientVars
  <2> QED
    BY <1>5, <2>1, <2>2 DEF IInv, TypeOK
<1>7. HashInv' /\ UserInv' /\ IdInv'
  <2>1. g \in Files /\ nf.state = "EVICTING" => nf.users = 0
    BY <1>3 DEF IInv, UserInv
  <2> QED
    BY <1>1, <1>3, <1>4, <2>1, InPlace
<1> QED
  BY <1>1, <1>2, <1>6, <1>7, ClientStill DEF IInv

(***************************************************************************)
(* cacheMaintenance                                                        *)
(***************************************************************************)

\* The client's own cacheMaintenance does not change what its call holds.
LEMMA ClientMaintains ==
  ASSUME IInv, UNCHANGED <<cl, handles>>,
         pc[Client] \in {"maint", "scan", "scandec"},
         pc'[Client] \in {"maint", "scan", "scandec"}
  PROVE  CallInv' /\ SlotInv'
BY DEF IInv, CallInv, SlotInv

\* The types that a scan of the list relies on.
LEMMA ScanTypes ==
  ASSUME IInv
  PROVE  /\ lru \in Seq(Files) /\ Len(lru) \in Nat
         /\ maint \in [it : Nat, to_evict : Int, evicted : Int]
         /\ maint.it \in Nat /\ Client \in Actors
<1>1. lru \in Seq(Files)
      /\ maint \in [it : Nat, to_evict : Int, evicted : Int]
  BY DEF IInv, TypeOK
<1>2. maint.it \in Nat
  BY <1>1
<1>3. Len(lru) \in Nat
  BY <1>1, LenProperties
<1> QED
  BY <1>1, <1>2, <1>3 DEF Actors

\* One step of the iterator that evicts n nodes.
LEMMA ScanMoves ==
  ASSUME NEW mt \in [it : Nat, to_evict : Int, evicted : Int], mt.it > 0,
         NEW n \in Nat
  PROVE  LET mm == [mt EXCEPT !.it = @ - 1, !.evicted = @ + n]
         IN  mm \in [it : Nat, to_evict : Int, evicted : Int]
             /\ mm.it = mt.it - 1
<1>1. mt.it \in Nat /\ mt.evicted \in Int /\ mt.to_evict \in Int
  OBVIOUS
<1>2. mt.it - 1 \in Nat /\ mt.evicted + n \in Int
  BY <1>1
<1> QED
  BY <1>1, <1>2

LEMMA MaintBeginInv ==
  ASSUME IInv, NEW a \in Actors, MaintBegin(a) PROVE IInv'
<1> USE DEF At, Goto
<1>1. UNCHANGED <<cl, handles, hash, file, lru>>
      /\ (a = Client \/ pc'[Client] = pc[Client])
  BY DEF IInv, TypeOK, MaintBegin, treeVars, clientVars
<1>2. TypeOK'
  <2>1. Len(lru) \in Nat
    BY ScanTypes
  <2>2. maint' \in [it : Nat, to_evict : Int, evicted : Int]
    BY <2>1, ConstantsAssumption DEF IInv, TypeOK, MaintBegin
  <2> QED
    BY <2>2 DEF IInv, TypeOK, MaintBegin, PCs, treeVars, storageVars,
                clientVars
<1>3. LockInv' /\ ScanInv'
  <2>1. maint'.it = Len(lru) /\ Len(lru) \in Nat
    BY ScanTypes DEF MaintBegin
  <2> QED
    BY <1>1, <2>1, MutexFree, ConstantsAssumption
       DEF IInv, TypeOK, MaintBegin, LockInv, ScanInv, Actors
<1>4. CallInv' /\ SlotInv'
  BY <1>1, ClientStill, ClientMaintains DEF IInv, TypeOK, MaintBegin
<1> QED
  BY <1>1, <1>2, <1>3, <1>4, Untouched DEF IInv

\* While a thread scans no other thread is in a long critical section.
LEMMA Alone ==
  ASSUME IInv, NEW a \in Actors,
         pc[a] \in {"scan", "scandec", "evictcbStore", "flush", "destroydec"}
  PROVE  \A x \in Actors \ {a} :
           pc[x] \notin {"scan", "scandec", "evictcbStore", "hung", "flush",
                         "destroydec"}
BY DEF IInv, LockInv

LEMMA MaintSkipInv ==
  ASSUME IInv, NEW a \in Actors, MaintSkip(a) PROVE IInv'
<1> USE DEF At, Scanning
<1>1. UNCHANGED <<cl, handles, hash, file, lru, pc, cacheMutex>>
      /\ pc[a] = "scan"
  BY DEF MaintSkip, treeVars, clientVars, lockVars
<1>2. maint' \in [it : Nat, to_evict : Int, evicted : Int]
      /\ maint'.it = maint.it - 1 /\ maint.it \in Nat
  <2>1. maint.it - 1 \in Nat
    BY ScanTypes DEF MaintSkip
  <2> QED
    BY <2>1, ScanTypes DEF MaintSkip
<1>3. TypeOK'
  BY <1>1, <1>2 DEF IInv, TypeOK, MaintSkip, treeVars, storageVars, clientVars,
                    lockVars
<1>4. LockInv' /\ ScanInv'
  <2>1. Len(lru) \in Nat /\ Client \in Actors
    BY ScanTypes
  <2> QED
    BY <1>1, <1>2, <2>1, Alone DEF IInv, LockInv, ScanInv
<1> QED
  BY <1>1, <1>3, <1>4, Untouched, ClientStill DEF IInv

LEMMA MaintDeleteInv ==
  ASSUME IInv, NEW a \in Actors, MaintDelete(a) PROVE IInv'
<1> DEFINE g == lru[maint.it]
<1>1. UNCHANGED <<cl, handles, cacheMutex>> /\ pc[a] = "scan"
      /\ pc' = [pc EXCEPT ![a] = "scandec"]
  BY DEF MaintDelete, Scanning, At, Goto, clientVars, lockVars
<1>2. /\ maint \in [it : Nat, to_evict : Int, evicted : Int]
      /\ maint.it \in 1..Len(lru) /\ g \in Files
      /\ lru \in Seq(Files) /\ Len(lru) \in Nat
  <2>1. maint \in [it : Nat, to_evict : Int, evicted : Int]
        /\ lru \in Seq(Files) /\ Len(lru) \in Nat /\ maint.it \in Nat
    BY ScanTypes
  <2>2. maint.it \in 1..Len(lru)
    BY <1>1, <2>1 DEF IInv, ScanInv, MaintDelete, Scanning
  <2> QED
    BY <2>1, <2>2, ElementOfSeq
<1> HIDE DEF g
<1>3. /\ file' = [file EXCEPT ![g] = Unallocated]
      /\ hash' = [hash EXCEPT ![file[g].id] = NoFile]
      /\ lru' = RemoveFirst(lru, g)
      /\ reg' = [reg EXCEPT ![a] = size + (-CacheSize(g))]
      /\ maint' = [maint EXCEPT !.it = @ - 1, !.evicted = @ + CacheSize(g)]
      /\ file[g].users <= 0
  BY DEF MaintDelete, Erase, LoadSize, Evictable, g
<1>4. CacheSize(g) \in Nat
  BY SizeNat
<1>5. /\ maint' \in [it : Nat, to_evict : Int, evicted : Int]
      /\ maint'.it = maint.it - 1
  <2>1. maint.it > 0
    BY <1>2
  <2> QED
    BY <1>2, <1>3, <1>4, <2>1, ScanMoves
<1>6. lru' \in Seq(Files) /\ Len(lru') >= Len(lru) - 1 /\ Len(lru') \in Nat
  BY <1>2, <1>3, RemoveFirstType
<1>7. TypeOK'
  <2>1. file' \in [Files -> NodeFile] /\ hash' \in [Ids -> Files \cup {NoFile}]
    BY <1>3, UnallocatedType DEF IInv, TypeOK
  <2>2. reg' \in [Actors -> Int]
    <3>1. size \in Int /\ reg \in [Actors -> Int]
      BY DEF IInv, TypeOK
    <3>2. size + (-CacheSize(g)) \in Int
      BY <1>4, <3>1
    <3> QED
      BY <1>3, <3>1, <3>2, ExceptType
  <2>3. pc' \in [Actors -> PCs]
    BY <1>1 DEF IInv, TypeOK, PCs
  <2> QED
    BY <1>5, <1>6, <2>1, <2>2, <2>3
       DEF IInv, TypeOK, MaintDelete, storageVars, clientVars, lockVars
<1>8. LockInv' /\ ScanInv'
  <2>1. \A x \in Actors \ {a} : pc'[x] = pc[x]
    BY <1>1 DEF IInv, TypeOK
  <2>2. pc'[a] = "scandec" /\ Client \in Actors
    BY <1>1 DEF IInv, TypeOK, Actors
  <2>3. maint'.it <= Len(lru')
    BY <1>2, <1>5, <1>6
  <2> QED
    BY <1>1, <2>1, <2>2, <2>3, Alone DEF IInv, LockInv, ScanInv
<1>9. file[g].users = 0
  <2>1. file[g].users \in Nat
    BY <1>2, PinsNat DEF IInv, UserInv
  <2> QED
    BY <1>3, <2>1
<1>10. HashInv' /\ UserInv' /\ IdInv'
  BY <1>1, <1>2, <1>3, <1>9, Deleted
<1>11. CallInv' /\ SlotInv'
  <2>1. CASE a = Client
    BY <1>1, <2>1, ClientMaintains DEF IInv, TypeOK, Actors
  <2>2. CASE a # Client
    BY <1>1, <2>2, ClientStill DEF IInv, TypeOK, Actors
  <2> QED
    BY <2>1, <2>2
<1> QED
  BY <1>7, <1>8, <1>10, <1>11 DEF IInv

LEMMA MaintDeleteStoreInv ==
  ASSUME IInv, NEW a \in Actors, MaintDeleteStore(a) PROVE IInv'
<1> USE DEF At, Goto
<1>1. UNCHANGED <<cl, handles, hash, file, lru, cacheMutex, maint>>
      /\ pc[a] = "scandec" /\ pc' = [pc EXCEPT ![a] = "scan"]
  BY DEF MaintDeleteStore, clientVars, lockVars
<1>2. TypeOK'
  <2>1. reg' \in [Actors -> Int] /\ size' \in Int
    BY DEF IInv, TypeOK, MaintDeleteStore, StoreSize
  <2>2. pc' \in [Actors -> PCs]
    BY <1>1 DEF IInv, TypeOK, PCs
  <2> QED
    BY <1>1, <2>1, <2>2 DEF IInv, TypeOK, MaintDeleteStore, storageVars,
                            clientVars, lockVars
<1>3. LockInv' /\ ScanInv'
  <2>1. \A x \in Actors \ {a} : pc'[x] = pc[x]
    BY <1>1 DEF IInv, TypeOK
  <2>2. pc'[a] = "scan" /\ Client \in Actors
    BY <1>1 DEF IInv, TypeOK, Actors
  <2> QED
    BY <1>1, <2>1, <2>2 DEF IInv, LockInv, ScanInv
<1>4. CallInv' /\ SlotInv'
  <2>1. CASE a = Client
    BY <1>1, <2>1, ClientMaintains DEF IInv, TypeOK, Actors
  <2>2. CASE a # Client
    BY <1>1, <2>2, ClientStill DEF IInv, TypeOK, Actors
  <2> QED
    BY <2>1, <2>2
<1> QED
  BY <1>1, <1>2, <1>3, <1>4, Untouched DEF IInv

LEMMA SerializedType ==
  ASSUME TypeOK, NEW f \in Files
  PROVE  Serialized(f) \in Content /\ file[f].id \in Ids
BY DEF TypeOK, Serialized, Content, NodeFile

LEMMA MaintWriteInv ==
  ASSUME IInv, NEW a \in Actors, MaintWrite(a) PROVE IInv'
<1> DEFINE g == lru[maint.it]
           nf == [file[g] EXCEPT !.state = "EVICTING"]
           j == [op |-> "evict", file |-> g, id |-> file[g].id,
                 data |-> Serialized(g)]
<1>1. UNCHANGED <<cl, handles, cacheMutex, pc, hash, lru>> /\ pc[a] = "scan"
  BY DEF MaintWrite, Scanning, At, clientVars, lockVars
<1>2. /\ maint \in [it : Nat, to_evict : Int, evicted : Int]
      /\ maint.it \in 1..Len(lru) /\ g \in Files /\ Len(lru) \in Nat
  <2>1. maint \in [it : Nat, to_evict : Int, evicted : Int]
        /\ lru \in Seq(Files) /\ Len(lru) \in Nat /\ maint.it \in Nat
    BY ScanTypes
  <2>2. maint.it \in 1..Len(lru)
    <3>1. maint.it > 0
      BY DEF MaintWrite, Scanning
    <3> QED
      BY <1>1, <2>1, <3>1 DEF IInv, ScanInv
  <2> QED
    BY <2>1, <2>2, ElementOfSeq
<1>3. CASE ~MayWrite
  <2>1. UNCHANGED <<file, queue, wsize, maint>> /\ aborted' = "read only"
    BY <1>3 DEF MaintWrite
  <2>2. TypeOK'
    BY <1>1, <2>1 DEF IInv, TypeOK, MaintWrite, clientVars, lockVars
  <2>3. LockInv' /\ ScanInv'
    BY <1>1, <2>1 DEF IInv, LockInv, ScanInv
  <2> QED
    BY <1>1, <2>1, <2>2, <2>3, Untouched, ClientStill DEF IInv
<1>4. CASE MayWrite
  <2>1. /\ file' = [file EXCEPT ![g] = nf]
        /\ queue' = Append(queue, j)
        /\ wsize' = wsize + CacheSize(g)
        /\ maint' = [maint EXCEPT !.it = @ - 1, !.evicted = @ + CacheSize(g)]
        /\ file[g].users <= 0 /\ UNCHANGED aborted
    BY <1>4 DEF MaintWrite, BeginWrite, Evictable
  <2>2. nf \in NodeFile /\ nf.state = "EVICTING" /\ nf.id = file[g].id
        /\ nf.users = file[g].users
    <3>1. file[g] \in NodeFile
      BY <1>2 DEF IInv, TypeOK
    <3> QED
      BY <3>1 DEF NodeFile, NodeStates
  <2>3. j \in Job
    <3>1. Serialized(g) \in Content /\ file[g].id \in Ids
      BY <1>2, SerializedType DEF IInv
    <3> QED
      BY <1>2, <3>1 DEF Job
  <2> HIDE DEF g, nf, j
  <2>4. queue' \in Seq(Job)
    BY <2>1, <2>3, AppendProperties DEF IInv, TypeOK
  <2>5. CacheSize(g) \in Nat
    BY SizeNat
  <2>6. /\ maint' \in [it : Nat, to_evict : Int, evicted : Int]
        /\ maint'.it = maint.it - 1 /\ wsize' \in Int
    <3>1. maint.it > 0
      BY <1>2
    <3>2. wsize \in Int
      BY DEF IInv, TypeOK
    <3>3. wsize' \in Int
      BY <2>1, <2>5, <3>2
    <3>4. /\ maint' \in [it : Nat, to_evict : Int, evicted : Int]
          /\ maint'.it = maint.it - 1
      BY <1>2, <2>1, <2>5, <3>1, ScanMoves
    <3> QED
      BY <3>3, <3>4
  <2>7. file' \in [Files -> NodeFile]
    BY <2>1, <2>2 DEF IInv, TypeOK
  <2>8. TypeOK'
    BY <1>1, <2>1, <2>4, <2>6, <2>7
       DEF IInv, TypeOK, MaintWrite, clientVars, lockVars
  <2>9. LockInv' /\ ScanInv'
    <3>1. Client \in Actors
      BY DEF Actors
    <3> QED
      BY <1>1, <1>2, <2>6, <3>1, Alone DEF IInv, LockInv, ScanInv
  <2>10. nf.users = 0
    <3>1. file[g].users \in Nat
      BY <1>2, PinsNat DEF IInv, UserInv, g
    <3> QED
      BY <2>1, <2>2, <3>1
  <2>11. HashInv' /\ UserInv' /\ IdInv'
    BY <1>1, <2>1, <2>2, <2>10, InPlace
  <2> QED
    BY <1>1, <2>8, <2>9, <2>11, ClientStill DEF IInv
<1> QED
  BY <1>3, <1>4

LEMMA MaintEndInv ==
  ASSUME IInv, NEW a \in Actors, MaintEnd(a) PROVE IInv'
<1> USE DEF At, Goto
<1> DEFINE p == IF a # Client THEN "idle"
                ELSE IF cl.stage = "root" THEN "create" ELSE "link"
<1>1. UNCHANGED <<cl, handles, hash, file, lru>> /\ pc[a] = "scan"
      /\ pc' = [pc EXCEPT ![a] = p]
  BY DEF MaintEnd, treeVars, clientVars
<1>2. TypeOK'
  <2>1. NoScan \in [it : Nat, to_evict : Int, evicted : Int]
    BY DEF NoScan
  <2>2. maint' \in [it : Nat, to_evict : Int, evicted : Int]
    BY <2>1 DEF IInv, TypeOK, MaintEnd
  <2>3. job' \in [Threads -> Job]
    BY NoJobType DEF IInv, TypeOK, MaintEnd, Actors
  <2>4. pc' \in [Actors -> PCs]
    BY <1>1 DEF IInv, TypeOK, PCs
  <2> QED
    BY <1>1, <2>2, <2>3, <2>4 DEF IInv, TypeOK, MaintEnd, treeVars, clientVars
<1>3. LockInv' /\ ScanInv'
  <2>1. \A x \in Actors \ {a} : pc'[x] = pc[x]
    BY <1>1 DEF IInv, TypeOK
  <2>2. pc'[a] \in {"idle", "create", "link"} /\ Client \in Actors
    BY <1>1 DEF IInv, TypeOK, Actors
  <2> QED
    BY <1>1, <2>1, <2>2, Alone DEF LockInv, ScanInv
<1>4. CallInv' /\ SlotInv'
  <2>1. CASE a = Client
    BY <1>1, <2>1 DEF IInv, TypeOK, CallInv, SlotInv, Call, Actors
  <2>2. CASE a # Client
    BY <1>1, <2>2, ClientStill DEF IInv, TypeOK, Actors
  <2> QED
    BY <2>1, <2>2
<1> QED
  BY <1>1, <1>2, <1>3, <1>4, Untouched DEF IInv

(***************************************************************************)
(* How a step of the client changes the references                         *)
(***************************************************************************)

\* The two parts of Pins: references of handles and of the client's call.
HeldBy(f) == Cardinality({h \in Handles : handles[h].file = f})
InCall(f) == (IF cl.stage # "none" /\ cl.file = f THEN 1 ELSE 0)
             + (IF cl.stage # "none" /\ cl.pfile = f THEN 1 ELSE 0)

LEMMA PinsSum ==
  ASSUME NEW f
  PROVE  /\ Pins(f) = HeldBy(f) + InCall(f)
         /\ Pins(f)' = HeldBy(f)' + InCall(f)'
         /\ HeldBy(f) \in Nat /\ InCall(f) \in Nat
<1> DEFINE x == IF cl.stage # "none" /\ cl.file = f THEN 1 ELSE 0
           y == IF cl.stage # "none" /\ cl.pfile = f THEN 1 ELSE 0
<1>1. IsFiniteSet({h \in Handles : handles[h].file = f})
  BY FS_Subset, FiniteAssumption
<1>2. HeldBy(f) \in Nat
  BY <1>1, FS_CardinalityType DEF HeldBy
<1>3. InCall(f) \in Nat
  BY DEF InCall
<1>4. IsFiniteSet({h \in Handles : handles'[h].file = f})
  BY FS_Subset, FiniteAssumption
<1>5. HeldBy(f)' \in Nat
  BY <1>4, FS_CardinalityType DEF HeldBy
<1>6. Pins(f) = HeldBy(f) + x + y /\ InCall(f) = x + y
  BY DEF Pins, HeldBy, InCall
<1>7. Pins(f)' = HeldBy(f)' + x' + y' /\ InCall(f)' = x' + y'
  BY DEF Pins, HeldBy, InCall
<1>8. x \in Nat /\ y \in Nat /\ x' \in Nat /\ y' \in Nat
  OBVIOUS
<1> HIDE DEF x, y
<1> QED
  BY <1>2, <1>3, <1>5, <1>6, <1>7, <1>8

LEMMA HeldSame ==
  ASSUME \A h \in Handles : handles'[h].file = handles[h].file, NEW f
  PROVE  HeldBy(f)' = HeldBy(f)
<1>1. {h \in Handles : handles'[h].file = f}
        = {h \in Handles : handles[h].file = f}
  OBVIOUS
<1> QED
  BY <1>1 DEF HeldBy

\* A handle that referred to nothing now refers to file g.
LEMMA HeldAdd ==
  ASSUME NEW g \in Files, NEW h \in Handles, NEW x,
         handles \in [Handles -> Handle], handles[h].file = NoFile,
         x.file = g, handles' = [handles EXCEPT ![h] = x]
  PROVE  /\ HeldBy(g)' = HeldBy(g) + 1
         /\ \A f \in Files \ {g} : HeldBy(f)' = HeldBy(f)
<1> DEFINE H == {k \in Handles : handles[k].file = g}
<1>1. {k \in Handles : handles'[k].file = g} = H \cup {h}
  OBVIOUS
<1>2. h \notin H /\ IsFiniteSet(H)
  BY ConstantsAssumption, FS_Subset, FiniteAssumption
<1>3. HeldBy(g)' = HeldBy(g) + 1
  <2>1. Cardinality(H \cup {h}) = Cardinality(H) + 1
    BY <1>2, FS_AddElement
  <2> QED
    BY <1>1, <2>1 DEF HeldBy
<1>4. ASSUME NEW f \in Files \ {g} PROVE HeldBy(f)' = HeldBy(f)
  <2>1. {k \in Handles : handles'[k].file = f}
          = {k \in Handles : handles[k].file = f}
    BY ConstantsAssumption
  <2> QED
    BY <2>1 DEF HeldBy
<1> QED
  BY <1>3, <1>4

\* A handle that referred to file g now refers to nothing.
LEMMA HeldDrop ==
  ASSUME NEW g \in Files, NEW h \in Handles, NEW x,
         handles \in [Handles -> Handle], handles[h].file = g,
         x.file = NoFile, handles' = [handles EXCEPT ![h] = x]
  PROVE  /\ HeldBy(g)' = HeldBy(g) - 1
         /\ \A f \in Files \ {g} : HeldBy(f)' = HeldBy(f)
<1> DEFINE H == {k \in Handles : handles[k].file = g}
<1>1. {k \in Handles : handles'[k].file = g} = H \ {h}
  BY ConstantsAssumption
<1>2. h \in H /\ IsFiniteSet(H)
  BY FS_Subset, FiniteAssumption
<1>3. HeldBy(g)' = HeldBy(g) - 1
  <2>1. Cardinality(H \ {h}) = Cardinality(H) - 1
    BY <1>2, FS_RemoveElement
  <2> QED
    BY <1>1, <2>1 DEF HeldBy
<1>4. ASSUME NEW f \in Files \ {g} PROVE HeldBy(f)' = HeldBy(f)
  <2>1. {k \in Handles : handles'[k].file = f}
          = {k \in Handles : handles[k].file = f}
    BY ConstantsAssumption
  <2> QED
    BY <2>1 DEF HeldBy
<1> QED
  BY <1>3, <1>4

\* A step that changes file g, and the references to g only, and counts them.
LEMMA Counted ==
  ASSUME IInv, NEW g \in Files, NEW nf,
         file' = [file EXCEPT ![g] = nf],
         nf.users = Pins(g)', nf.state \in {"LOADING", "LOADED"},
         \A f \in Files \ {g} : Pins(f)' = Pins(f)
  PROVE  UserInv'
<1>1. file'[g] = nf /\ \A f \in Files \ {g} : file'[f] = file[f]
  BY DEF IInv, TypeOK
<1>2. ASSUME NEW f \in Files
      PROVE  /\ file'[f].users = Pins(f)'
             /\ file'[f].state \in {"FREE", "EVICTING"} => file'[f].users = 0
  <2>1. CASE f = g
    BY <1>1, <2>1
  <2>2. CASE f # g
    BY <1>1, <2>2 DEF IInv, UserInv
  <2> QED
    BY <2>1, <2>2
<1> QED
  BY <1>2 DEF UserInv

\* A step that leaves the files alone and adds or drops no reference.
LEMMA SameCount ==
  ASSUME IInv, file' = file, \A f \in Files : Pins(f)' = Pins(f)
  PROVE  UserInv'
BY DEF IInv, UserInv

\* The hash stays right when live files stay live under their ids.
LEMMA HashKept ==
  ASSUME IInv, UNCHANGED hash, NEW g \in Files, NEW nf,
         file' = [file EXCEPT ![g] = nf],
         nf.state # "FREE", file[g].state = "FREE" \/ nf.id = file[g].id
  PROVE  HashInv'
<1>1. file'[g] = nf /\ \A f \in Files \ {g} : file'[f] = file[f]
  BY DEF IInv, TypeOK
<1>2. ASSUME NEW i \in Ids, hash[i] # NoFile
      PROVE  file'[hash[i]].id = i /\ file'[hash[i]].state # "FREE"
  <2>1. hash[i] \in Files
    BY <1>2 DEF IInv, TypeOK
  <2>2. file[hash[i]].id = i /\ file[hash[i]].state # "FREE"
    BY <1>2 DEF IInv, HashInv
  <2> QED
    BY <1>1, <2>1, <2>2
<1> QED
  BY <1>2 DEF HashInv

\* The references held before the step still lead to the right ids.
LEMMA OldIds ==
  ASSUME IInv, NEW g \in Files, NEW nf, file' = [file EXCEPT ![g] = nf],
         file[g].state = "FREE" \/ nf.id = file[g].id
  PROVE  /\ \A h \in Handles : handles[h].file # NoFile =>
              file'[handles[h].file].id = handles[h].id
         /\ cl.stage # "none" /\ cl.file # NoFile => file'[cl.file].id = cl.id
         /\ cl.stage # "none" /\ cl.pfile # NoFile =>
              file'[cl.pfile].id = Parent[cl.id]
<1>1. file'[g] = nf /\ \A f \in Files \ {g} : file'[f] = file[f]
  BY DEF IInv, TypeOK
<1>2. file[g].state = "FREE" =>
        /\ \A h \in Handles : handles[h].file # g
        /\ cl.stage # "none" => cl.file # g /\ cl.pfile # g
  BY Unpinned DEF IInv, UserInv
<1>3. /\ \A h \in Handles : handles[h].file \in Files \cup {NoFile}
      /\ cl.file \in Files \cup {NoFile} /\ cl.pfile \in Files \cup {NoFile}
  BY DEF IInv, TypeOK, Handle, Call
<1> QED
  BY <1>1, <1>2, <1>3 DEF IInv, IdInv

(***************************************************************************)
(* The calls of the client                                                 *)
(***************************************************************************)

\* A step of the client outside the long critical sections, which changes the
\* list only while file_cache_mutex is free.
LEMMA ClientUnlocked ==
  ASSUME IInv, NEW p, pc' = [pc EXCEPT ![Client] = p],
         p \notin {"scan", "scandec", "evictcbStore", "hung", "flush", "destroydec"},
         UNCHANGED <<cacheMutex, maint>>,
         lru' = lru \/ cacheMutex = Nobody
  PROVE  LockInv' /\ ScanInv' /\ pc'[Client] = p
<1>1. \A x \in Actors \ {Client} : pc'[x] = pc[x]
  BY DEF IInv, TypeOK
<1>2. pc'[Client] = p
  BY DEF IInv, TypeOK, Actors
<1> QED
  BY <1>1, <1>2, MutexFree DEF IInv, LockInv, ScanInv

\* The locals of a call that refers to no file yet.
LEMMA CallTypes ==
  /\ NoCall \in Call
  /\ \A h \in Handles :
       [NoCall EXCEPT !.stage = "node", !.slot = h, !.blocking = TRUE] \in Call
  /\ \A h \in Handles, i \in Ids, s \in Shorts :
       [NoCall EXCEPT !.stage = "node", !.id = i, !.short = s, !.slot = h]
         \in Call
  /\ \A h, q \in Handles, i \in Ids, s \in Shorts :
       [NoCall EXCEPT !.stage = "parent", !.id = i, !.short = s, !.slot = h,
                      !.from = q] \in Call
  /\ [NoCall EXCEPT !.stage = "destroy"] \in Call
  /\ \A h \in Handles, f \in Files :
       [NoCall EXCEPT !.stage = "root", !.slot = h, !.file = f] \in Call
  /\ \A f \in Files : [NoCall EXCEPT !.file = f] \in Call
BY ConstantsAssumption DEF NoCall, Call

\* getRoot, getChildNode and createChildNode begin without a reference.
LEMMA FindBegins ==
  ASSUME IInv, NEW c \in Call, BeginCall(c, "find"),
         c.stage \in {"node", "parent"}, c.file = NoFile, c.pfile = NoFile,
         c.slot \in Handles, handles[c.slot].file = NoFile,
         UNCHANGED <<treeVars, lockVars, maint, storageVars, reg, handles,
                     version, truth, remaining, aborted>>
  PROVE  IInv'
<1> USE DEF BeginCall, At, Goto
<1>1. cl.stage = "none"
  BY DEF IInv, CallInv, TypeOK, Call
<1>2. LockInv' /\ ScanInv' /\ pc'[Client] = "find"
  BY ClientUnlocked DEF treeVars, lockVars
<1>3. TypeOK'
  <2>1. pc' \in [Actors -> PCs]
    BY DEF IInv, TypeOK, PCs
  <2>2. calls' \in Nat
    BY DEF IInv, TypeOK
  <2> QED
    BY <2>1, <2>2 DEF IInv, TypeOK, treeVars, lockVars, storageVars
<1>4. CallInv'
  BY <1>2 DEF CallInv
<1>5. SlotInv'
  BY <1>2 DEF SlotInv
<1>6. \A f \in Files : Pins(f)' = Pins(f)
  <2> SUFFICES ASSUME NEW f \in Files PROVE Pins(f)' = Pins(f)
    OBVIOUS
  <2>1. InCall(f) = 0 /\ InCall(f)' = 0
    BY <1>1, ConstantsAssumption DEF InCall
  <2> QED
    BY <2>1, PinsSum, HeldSame
<1>7. HashInv' /\ UserInv' /\ IdInv'
  BY <1>6, SameCount DEF IInv, HashInv, IdInv, treeVars
<1> QED
  BY <1>2, <1>3, <1>4, <1>5, <1>7 DEF IInv

LEMMA GetRootInv ==
  ASSUME IInv, NEW h \in Handles, GetRoot(h) PROVE IInv'
<1> DEFINE c == [NoCall EXCEPT !.stage = "node", !.slot = h, !.blocking = TRUE]
<1>1. c \in Call /\ c.stage = "node" /\ c.file = NoFile /\ c.pfile = NoFile
      /\ c.slot = h
  BY CallTypes DEF NoCall
<1>2. handles[h].file = NoFile
  BY DEF GetRoot, NoHandle
<1>3. BeginCall(c, "find")
      /\ UNCHANGED <<treeVars, lockVars, maint, storageVars, reg, handles,
                     version, truth, remaining, aborted>>
  BY DEF GetRoot
<1> HIDE DEF c
<1> QED
  BY <1>1, <1>2, <1>3, FindBegins

LEMMA GetChildNodeInv ==
  ASSUME IInv, NEW q \in Handles, NEW h \in Handles, NEW i \in Ids,
         NEW s \in Shorts, GetChildNode(q, i, s, h)
  PROVE  IInv'
<1> DEFINE c == [NoCall EXCEPT !.stage = "node", !.id = i, !.short = s,
                               !.slot = h]
<1>1. c \in Call /\ c.stage = "node" /\ c.file = NoFile /\ c.pfile = NoFile
      /\ c.slot = h
  BY CallTypes DEF NoCall
<1>2. handles[h].file = NoFile
  BY DEF GetChildNode, NoHandle
<1>3. BeginCall(c, "find")
      /\ UNCHANGED <<treeVars, lockVars, maint, storageVars, reg, handles,
                     version, truth, remaining, aborted>>
  BY DEF GetChildNode
<1> HIDE DEF c
<1> QED
  BY <1>1, <1>2, <1>3, FindBegins

LEMMA CreateChildNodeInv ==
  ASSUME IInv, NEW q \in Handles, NEW h \in Handles, NEW i \in Ids,
         NEW s \in Shorts, CreateChildNode(q, i, s, h)
  PROVE  IInv'
<1> DEFINE c == [NoCall EXCEPT !.stage = "parent", !.id = i, !.short = s,
                               !.slot = h, !.from = q]
<1>1. c \in Call /\ c.stage = "parent" /\ c.file = NoFile /\ c.pfile = NoFile
      /\ c.slot = h
  BY CallTypes DEF NoCall
<1>2. handles[h].file = NoFile
  BY DEF CreateChildNode, NoHandle
<1>3. BeginCall(c, "find")
      /\ UNCHANGED <<treeVars, lockVars, maint, storageVars, reg, handles,
                     version, truth, remaining, aborted>>
  BY DEF CreateChildNode
<1> HIDE DEF c
<1> QED
  BY <1>1, <1>2, <1>3, FindBegins

\* flushCache and the destructor begin by taking file_cache_mutex.
LEMMA FlushBeginInv ==
  ASSUME IInv, NEW c \in Call, FlushBegin(c),
         c.stage \in {"none", "destroy"}, c.file = NoFile, c.pfile = NoFile,
         c.stage = "destroy" => \A h \in Handles : handles[h].file = NoFile
  PROVE  IInv'
<1> USE DEF FlushBegin, BeginCall, At, Goto
<1>1. cl.stage = "none"
  BY DEF IInv, CallInv, TypeOK, Call
<1>2. pc'[Client] = "flush" /\ \A x \in Actors \ {Client} : pc'[x] = pc[x]
  BY DEF IInv, TypeOK, Actors
<1>3. maint' \in [it : Nat, to_evict : Int, evicted : Int] /\ maint'.it = 1
  BY DEF NoScan
<1>4. LockInv' /\ ScanInv'
  BY <1>2, <1>3, MutexFree DEF LockInv, ScanInv
<1>5. TypeOK'
  BY <1>3 DEF IInv, TypeOK, PCs, treeVars, storageVars, Actors
<1>6. CallInv' /\ SlotInv'
  BY <1>2 DEF CallInv, SlotInv
<1>7. \A f \in Files : Pins(f)' = Pins(f)
  <2> SUFFICES ASSUME NEW f \in Files PROVE Pins(f)' = Pins(f)
    OBVIOUS
  <2>1. InCall(f) = 0 /\ InCall(f)' = 0
    BY <1>1, ConstantsAssumption DEF InCall
  <2> QED
    BY <2>1, PinsSum, HeldSame
<1>8. HashInv' /\ UserInv' /\ IdInv'
  BY <1>7, SameCount DEF IInv, HashInv, IdInv, treeVars
<1> QED
  BY <1>4, <1>5, <1>6, <1>8 DEF IInv

LEMMA FlushCacheInv == ASSUME IInv, FlushCache PROVE IInv'
<1>1. NoCall \in Call /\ NoCall.stage = "none" /\ NoCall.file = NoFile
      /\ NoCall.pfile = NoFile
  BY CallTypes DEF NoCall
<1> QED
  BY <1>1, FlushBeginInv DEF FlushCache

LEMMA DestroyInv == ASSUME IInv, Destroy PROVE IInv'
<1> DEFINE c == [NoCall EXCEPT !.stage = "destroy"]
<1>1. c \in Call /\ c.stage = "destroy" /\ c.file = NoFile /\ c.pfile = NoFile
  BY CallTypes DEF NoCall
<1>2. \A h \in Handles : handles[h].file = NoFile
  BY DEF Destroy, NoHandle
<1>3. FlushBegin(c)
  BY DEF Destroy
<1> HIDE DEF c
<1> QED
  BY <1>1, <1>2, <1>3, FlushBeginInv

LEMMA ModifyNodeInv ==
  ASSUME IInv, NEW h \in Handles, ModifyNode(h) PROVE IInv'
<1>0. PICK g \in Files : g = handles[h].file
  BY DEF IInv, TypeOK, ModifyNode, Loaded, Handle
<1> DEFINE s == handles[h].short
           nf == [file[g] EXCEPT !.nodes[s] = version']
           x == [handles[h] EXCEPT !.modified = TRUE]
<1>1. /\ handles[h].file = g /\ handles[h] \in Handle /\ file[g] \in NodeFile
      /\ version' \in Nat
  <2>1. version' = version + 1 /\ version \in Nat
    BY DEF IInv, TypeOK, ModifyNode
  <2>2. handles[h] \in Handle /\ file[g] \in NodeFile
    BY DEF IInv, TypeOK
  <2> QED
    BY <1>0, <2>1, <2>2
<1>2. /\ file' = [file EXCEPT ![g] = nf]
      /\ handles' = [handles EXCEPT ![h] = x]
      /\ UNCHANGED <<lru, hash, pc, cl, lockVars, maint>>
  BY <1>0 DEF ModifyNode
<1>3. nf \in NodeFile /\ nf.users = file[g].users /\ nf.id = file[g].id
      /\ nf.state = file[g].state
  BY <1>1 DEF NodeFile, Values
<1>4. x \in Handle /\ x.file = g /\ x.id = handles[h].id
  BY <1>1 DEF Handle
<1>5. truth' \in [Ids -> [Shorts -> Values]]
  BY <1>1 DEF ModifyNode, IInv, TypeOK, Values
<1>6. \A k \in Handles : handles'[k].file = handles[k].file
                         /\ handles'[k].id = handles[k].id
  <2>1. \A k \in Handles : handles'[k] = IF k = h THEN x ELSE handles[k]
    BY <1>2 DEF IInv, TypeOK
  <2> HIDE DEF x
  <2> QED
    BY <1>1, <1>4, <2>1
<1>7. file[g].state \in {"LOADING", "LOADED"}
  BY <1>1, Pinned
<1> HIDE DEF nf, x
<1>8. TypeOK'
  <2>1. file' \in [Files -> NodeFile]
    BY <1>2, <1>3 DEF IInv, TypeOK
  <2>2. handles' \in [Handles -> Handle]
    BY <1>2, <1>4 DEF IInv, TypeOK
  <2> QED
    BY <1>1, <1>2, <1>5, <2>1, <2>2 DEF IInv, TypeOK, ModifyNode, lockVars,
                                        storageVars
<1>9. LockInv' /\ ScanInv' /\ CallInv'
  BY <1>2 DEF IInv, LockInv, ScanInv, CallInv, lockVars
<1>10. SlotInv'
  BY <1>2, <1>6 DEF IInv, SlotInv
<1>11. \A f \in Files : Pins(f)' = Pins(f)
  <2> SUFFICES ASSUME NEW f \in Files PROVE Pins(f)' = Pins(f)
    OBVIOUS
  <2>1. InCall(f)' = InCall(f)
    BY <1>2 DEF InCall
  <2> QED
    BY <1>6, <2>1, PinsSum, HeldSame
<1>12. UserInv'
  <2>1. nf.users = Pins(g)'
    BY <1>1, <1>3, <1>11 DEF IInv, UserInv
  <2> QED
    BY <1>1, <1>2, <1>3, <1>7, <1>11, <2>1, Counted
<1>13. HashInv'
  BY <1>1, <1>2, <1>3, <1>7, HashKept
<1>14. IdInv'
  BY <1>1, <1>2, <1>3, <1>6, OldIds DEF IdInv
<1> QED
  BY <1>8, <1>9, <1>10, <1>12, <1>13, <1>14 DEF IInv

LEMMA ReleaseNodeInv ==
  ASSUME IInv, NEW h \in Handles, ReleaseNode(h) PROVE IInv'
<1>0. PICK g \in Files : g = handles[h].file
  BY DEF IInv, TypeOK, ReleaseNode, Handle
<1> DEFINE nf == Released(file[g], handles[h].modified)
           c == [NoCall EXCEPT !.file = g]
<1>1. /\ handles[h].file = g /\ handles[h] \in Handle /\ file[g] \in NodeFile
      /\ handles[h].modified \in BOOLEAN
  BY <1>0 DEF IInv, TypeOK, Handle
<1>2. /\ file' = [file EXCEPT ![g] = nf]
      /\ handles' = [handles EXCEPT ![h] = NoHandle]
      /\ pc' = [pc EXCEPT ![Client] = "unlock"]
      /\ pc[Client] = "idle" /\ cl' = c
      /\ UNCHANGED <<lru, hash, cacheMutex, maint>>
  BY <1>0 DEF ReleaseNode, At, Goto
<1>3. nf \in NodeFile /\ nf.users = file[g].users - 1 /\ nf.id = file[g].id
      /\ nf.state = file[g].state
  <2>1. file[g].users - 1 \in Int
        /\ (file[g].modified \/ handles[h].modified) \in BOOLEAN
    BY <1>1 DEF NodeFile
  <2> QED
    BY <1>1, <2>1 DEF NodeFile, Released
<1>4. NoHandle \in Handle /\ NoHandle.file = NoFile
  BY ConstantsAssumption DEF Handle, NoHandle
<1>5. c \in Call /\ c.stage = "none"
  BY <1>1, CallTypes DEF NoCall
<1>6. file[g].state \in {"LOADING", "LOADED"}
  BY <1>1, Pinned
<1>7. cl.stage = "none"
  BY <1>2 DEF IInv, CallInv, TypeOK, Call
<1> HIDE DEF nf, c
<1>8. TypeOK'
  <2>1. file' \in [Files -> NodeFile]
    BY <1>2, <1>3 DEF IInv, TypeOK
  <2>2. handles' \in [Handles -> Handle]
    BY <1>2, <1>4 DEF IInv, TypeOK
  <2>3. fileMutex' \in [Files -> Actors \cup {Nobody}]
    BY DEF IInv, TypeOK, ReleaseNode, Actors
  <2>4. pc' \in [Actors -> PCs]
    BY <1>2 DEF IInv, TypeOK, PCs
  <2> QED
    BY <1>2, <1>5, <2>1, <2>2, <2>3, <2>4 DEF IInv, TypeOK, ReleaseNode,
                                              storageVars
<1>9. LockInv' /\ ScanInv' /\ pc'[Client] = "unlock"
  BY <1>2, ClientUnlocked
<1>10. CallInv' /\ SlotInv'
  BY <1>2, <1>5, <1>9 DEF CallInv, SlotInv
<1>11. /\ Pins(g)' = Pins(g) - 1
       /\ \A f \in Files \ {g} : Pins(f)' = Pins(f)
  <2>1. \A f \in Files : InCall(f) = 0 /\ InCall(f)' = 0
    BY <1>2, <1>5, <1>7 DEF InCall
  <2>2. /\ HeldBy(g)' = HeldBy(g) - 1
        /\ \A f \in Files \ {g} : HeldBy(f)' = HeldBy(f)
    BY <1>1, <1>2, <1>4, HeldDrop DEF IInv, TypeOK
  <2> QED
    BY <1>1, <2>1, <2>2, PinsSum
<1>12. UserInv'
  <2>1. nf.users = Pins(g)'
    BY <1>1, <1>3, <1>11 DEF IInv, UserInv
  <2> QED
    BY <1>1, <1>2, <1>3, <1>6, <1>11, <2>1, Counted
<1>13. HashInv'
  BY <1>1, <1>2, <1>3, <1>6, HashKept
<1>14. IdInv'
  <2>1. \A k \in Handles : handles'[k].file # NoFile =>
                             handles'[k] = handles[k]
    BY <1>2, <1>4 DEF IInv, TypeOK
  <2> QED
    BY <1>1, <1>2, <1>3, <1>5, <2>1, OldIds DEF IdInv
<1> QED
  BY <1>8, <1>9, <1>10, <1>12, <1>13, <1>14 DEF IInv

LEMMA UnlockInv == ASSUME IInv, Unlock PROVE IInv'
<1> USE DEF Unlock, At, Goto
<1>1. NoCall.stage = "none" /\ NoCall \in Call
  BY CallTypes DEF NoCall
<1>2. cl.stage = "none"
  BY DEF IInv, CallInv, TypeOK, Call
<1>3. TypeOK'
  <2>1. fileMutex' \in [Files -> Actors \cup {Nobody}]
    BY DEF IInv, TypeOK
  <2>2. pc' \in [Actors -> PCs]
    BY DEF IInv, TypeOK, PCs
  <2> QED
    BY <1>1, <2>1, <2>2 DEF IInv, TypeOK, storageVars, treeVars
<1>4. LockInv' /\ ScanInv' /\ pc'[Client] = "idle"
  BY ClientUnlocked DEF treeVars
<1>5. CallInv' /\ SlotInv'
  BY <1>1, <1>4 DEF CallInv, SlotInv
<1>6. \A f \in Files : Pins(f)' = Pins(f)
  <2> SUFFICES ASSUME NEW f \in Files PROVE Pins(f)' = Pins(f)
    OBVIOUS
  <2>1. InCall(f) = 0 /\ InCall(f)' = 0
    BY <1>1, <1>2 DEF InCall
  <2> QED
    BY <2>1, PinsSum, HeldSame
<1>7. HashInv' /\ UserInv' /\ IdInv'
  BY <1>1, <1>6, SameCount DEF IInv, HashInv, IdInv, treeVars
<1> QED
  BY <1>3, <1>4, <1>5, <1>7 DEF IInv

(***************************************************************************)
(* getNodeFile and createNodeFile                                          *)
(***************************************************************************)

\* getNodeFile gives the call one reference, to file g.
LEMMA Fetches ==
  ASSUME IInv, pc[Client] = "find", NEW g \in Files, cl' = Fetched(g),
         UNCHANGED handles, pc'[Client] \in {"push", "got"}
  PROVE  /\ cl' \in Call /\ Target \in Ids
         /\ CallInv' /\ SlotInv'
         /\ Pins(g)' = Pins(g) + 1
         /\ \A f \in Files \ {g} : Pins(f)' = Pins(f)
<1>1. cl \in Call /\ cl.stage \in {"node", "parent", "child"} /\ g # NoFile
  BY ConstantsAssumption DEF IInv, CallInv, TypeOK, Call
<1>2. CASE cl.stage = "parent"
  <2>1. cl' = [cl EXCEPT !.pfile = g] /\ Target = Parent[cl.id]
    BY <1>2 DEF Fetched, Target
  <2>2. cl' \in Call /\ cl'.stage = "parent" /\ cl'.file = cl.file
        /\ cl'.pfile = g /\ cl'.slot = cl.slot /\ cl'.id = cl.id
    BY <1>1, <1>2, <2>1 DEF Call
  <2>3. cl.file = NoFile /\ cl.pfile = NoFile
    BY <1>2 DEF IInv, CallInv
  <2>4. Target \in Ids
    BY <1>1, <2>1, ConstantsAssumption DEF Call
  <2>5. CallInv' /\ SlotInv'
    BY <1>1, <1>2, <2>2, <2>3 DEF IInv, CallInv, SlotInv
  <2>6. InCall(g)' = 1 /\ InCall(g) = 0
        /\ \A f \in Files \ {g} : InCall(f)' = 0 /\ InCall(f) = 0
    BY <1>1, <1>2, <2>2, <2>3, ConstantsAssumption DEF InCall
  <2> QED
    BY <2>2, <2>4, <2>5, <2>6, PinsSum, HeldSame
<1>3. CASE cl.stage # "parent"
  <2>1. cl' = [cl EXCEPT !.file = g] /\ Target = cl.id
    BY <1>3 DEF Fetched, Target
  <2>2. cl' \in Call /\ cl'.stage = cl.stage /\ cl'.file = g
        /\ cl'.pfile = cl.pfile /\ cl'.slot = cl.slot /\ cl'.id = cl.id
    BY <1>1, <2>1 DEF Call
  <2>3. cl.file = NoFile
    BY <1>1, <1>3 DEF IInv, CallInv
  <2>4. Target \in Ids
    BY <1>1, <2>1 DEF Call
  <2>5. CallInv' /\ SlotInv'
    BY <1>1, <1>3, <2>2, <2>3 DEF IInv, CallInv, SlotInv
  <2>6. InCall(g)' = InCall(g) + 1
        /\ \A f \in Files \ {g} : InCall(f)' = InCall(f)
    BY <1>1, <2>2, <2>3, ConstantsAssumption DEF InCall
  <2>7. HeldBy(g)' = HeldBy(g)
        /\ \A f \in Files \ {g} : HeldBy(f)' = HeldBy(f)
    BY HeldSame
  <2>8. Pins(g)' = Pins(g) + 1
    BY <2>6, <2>7, PinsSum
  <2>9. \A f \in Files \ {g} : Pins(f)' = Pins(f)
    BY <2>6, <2>7, PinsSum
  <2> QED
    BY <2>2, <2>4, <2>5, <2>8, <2>9
<1> QED
  BY <1>2, <1>3

\* .. which leads to the file asked for.
LEMMA FetchedIds ==
  ASSUME IInv, pc[Client] = "find", NEW g \in Files, cl' = Fetched(g),
         UNCHANGED handles, NEW nf, file' = [file EXCEPT ![g] = nf],
         file[g].state = "FREE" \/ nf.id = file[g].id, nf.id = Target
  PROVE  IdInv'
<1>1. cl \in Call /\ file'[g] = nf /\ cl.stage # "none"
  BY DEF IInv, CallInv, TypeOK
<1>2. CASE cl.stage = "parent"
  <2>1. cl'.stage = "parent" /\ cl'.file = cl.file /\ cl'.pfile = g
        /\ cl'.id = cl.id /\ nf.id = Parent[cl.id]
    BY <1>1, <1>2 DEF Fetched, Target, Call
  <2> QED
    BY <1>1, <1>2, <2>1, OldIds DEF IdInv
<1>3. CASE cl.stage # "parent"
  <2>1. cl'.stage = cl.stage /\ cl'.file = g /\ cl'.pfile = cl.pfile
        /\ cl'.id = cl.id /\ nf.id = cl.id
    BY <1>1, <1>3 DEF Fetched, Target, Call
  <2> QED
    BY <1>1, <1>3, <2>1, OldIds DEF IdInv
<1> QED
  BY <1>2, <1>3

LEMMA FindHitInv == ASSUME IInv, FindHit PROVE IInv'
<1>0. PICK g \in Files : g = hash[Target]
  <2>1. cl \in Call /\ hash \in [Ids -> Files \cup {NoFile}]
    BY DEF IInv, TypeOK
  <2>2. Target \in Ids
    BY <2>1, ConstantsAssumption DEF Target, Call
  <2> QED
    BY <2>1, <2>2 DEF FindHit
<1> DEFINE nf == [file[g] EXCEPT !.users = @ + 1,
                     !.state = IF @ = "EVICTING" THEN "LOADING" ELSE @]
<1>1. /\ file' = [file EXCEPT ![g] = nf]
      /\ lru' = Cons(g, RemoveFirst(lru, g)) /\ cl' = Fetched(g)
      /\ pc' = [pc EXCEPT ![Client] = "got"]
      /\ pc[Client] = "find" /\ cacheMutex = Nobody
      /\ UNCHANGED <<hash, cacheMutex, maint, handles>>
  BY <1>0 DEF FindHit, At, Goto, lockVars
<1>2. LockInv' /\ ScanInv' /\ pc'[Client] = "got"
  BY <1>1, ClientUnlocked
<1>3. /\ cl' \in Call /\ Target \in Ids
      /\ CallInv' /\ SlotInv'
      /\ Pins(g)' = Pins(g) + 1
      /\ \A f \in Files \ {g} : Pins(f)' = Pins(f)
  BY <1>1, <1>2, Fetches
<1>4. file[g].id = Target /\ file[g].state # "FREE" /\ file[g] \in NodeFile
  BY <1>0, <1>3, ConstantsAssumption DEF IInv, TypeOK, HashInv
<1>5. nf \in NodeFile /\ nf.users = file[g].users + 1 /\ nf.id = file[g].id
      /\ nf.state \in {"LOADING", "LOADED"}
  <2>1. file[g].users + 1 \in Int /\ file[g].state \in NodeStates
    BY <1>4 DEF NodeFile
  <2> QED
    BY <1>4, <2>1 DEF NodeFile, NodeStates
<1> HIDE DEF nf
<1>6. TypeOK'
  <2>1. file' \in [Files -> NodeFile]
    BY <1>1, <1>5 DEF IInv, TypeOK
  <2>2. lru' \in Seq(Files)
    <3>1. RemoveFirst(lru, g) \in Seq(Files)
      BY RemoveFirstType DEF IInv, TypeOK
    <3> QED
      BY <1>1, <3>1 DEF Cons
  <2>3. pc' \in [Actors -> PCs]
    BY <1>1 DEF IInv, TypeOK, PCs
  <2> QED
    BY <1>3, <2>1, <2>2, <2>3 DEF IInv, TypeOK, FindHit, lockVars, storageVars
<1>7. UserInv'
  <2>1. nf.users = Pins(g)'
    BY <1>3, <1>5 DEF IInv, UserInv
  <2> QED
    BY <1>1, <1>3, <1>5, <2>1, Counted
<1>8. HashInv'
  BY <1>1, <1>5, HashKept
<1>9. IdInv'
  BY <1>1, <1>4, <1>5, FetchedIds
<1> QED
  BY <1>2, <1>3, <1>6, <1>7, <1>8, <1>9 DEF IInv

\* A new NodeFile has one user, and a FREE one had no references.
LEMMA NewFile ==
  ASSUME IInv, NEW g \in Files, file[g].state = "FREE", NEW i \in Ids,
         NEW st \in {"LOADING", "LOADED"}, NEW m \in BOOLEAN,
         file' = [file EXCEPT ![g] = NewNodeFile(i, st, m)], UNCHANGED hash,
         Pins(g)' = Pins(g) + 1,
         \A f \in Files \ {g} : Pins(f)' = Pins(f)
  PROVE  /\ file' \in [Files -> NodeFile] /\ NewNodeFile(i, st, m).id = i
         /\ UserInv' /\ HashInv'
<1> DEFINE nf == NewNodeFile(i, st, m)
<1>1. nf \in NodeFile /\ nf.users = 1 /\ nf.id = i /\ nf.state = st
  BY DEF NewNodeFile, NodeFile, NodeStates, Empty, Values, Absent
<1> HIDE DEF nf
<1>2. file' = [file EXCEPT ![g] = nf]
  BY DEF nf
<1>3. nf.users = Pins(g)'
  BY <1>1 DEF IInv, UserInv
<1>4. UserInv'
  BY <1>1, <1>2, <1>3, Counted
<1>5. HashInv'
  BY <1>1, <1>2, HashKept
<1>6. file' \in [Files -> NodeFile]
  BY <1>1, <1>2 DEF IInv, TypeOK
<1> QED
  BY <1>1, <1>4, <1>5, <1>6 DEF nf

LEMMA FindMissInv ==
  ASSUME IInv, NEW g \in Files, NEW m \in BOOLEAN, FindMiss(g, m) PROVE IInv'
<1>1. /\ file' = [file EXCEPT ![g] = NewNodeFile(Target, "LOADING", m)]
      /\ queue' = Append(queue, [NoJob EXCEPT !.file = g, !.id = Target])
      /\ cl' = Fetched(g) /\ file[g].state = "FREE"
      /\ pc' = [pc EXCEPT ![Client] = "push"] /\ pc[Client] = "find"
      /\ UNCHANGED <<lru, hash, cacheMutex, maint, handles>>
  BY DEF FindMiss, At, Goto, lockVars
<1>2. LockInv' /\ ScanInv' /\ pc'[Client] = "push"
  BY <1>1, ClientUnlocked
<1>3. /\ cl' \in Call /\ Target \in Ids
      /\ CallInv' /\ SlotInv'
      /\ Pins(g)' = Pins(g) + 1
      /\ \A f \in Files \ {g} : Pins(f)' = Pins(f)
  BY <1>1, <1>2, Fetches
<1>4. /\ file' \in [Files -> NodeFile]
      /\ NewNodeFile(Target, "LOADING", m).id = Target
      /\ UserInv' /\ HashInv'
  BY <1>1, <1>3, NewFile
<1>5. TypeOK'
  <2>1. [NoJob EXCEPT !.file = g, !.id = Target] \in Job
    BY <1>3, NoJobType DEF Job
  <2>2. queue' \in Seq(Job)
    BY <1>1, <2>1, AppendProperties DEF IInv, TypeOK
  <2>3. pc' \in [Actors -> PCs]
    BY <1>1 DEF IInv, TypeOK, PCs
  <2> QED
    BY <1>3, <1>4, <2>2, <2>3 DEF IInv, TypeOK, FindMiss, lockVars
<1>6. IdInv'
  BY <1>1, <1>4, FetchedIds
<1> QED
  BY <1>2, <1>3, <1>4, <1>5, <1>6 DEF IInv

LEMMA CreateRootInv ==
  ASSUME IInv, NEW g \in Files, NEW h \in Handles, CreateRoot(g, h) PROVE IInv'
<1> DEFINE c == [NoCall EXCEPT !.stage = "root", !.slot = h, !.file = g]
<1>1. /\ file' = [file EXCEPT ![g] = NewNodeFile(Root, "LOADED", TRUE)]
      /\ cl' = c /\ file[g].state = "FREE"
      /\ pc' = [pc EXCEPT ![Client] = "push"] /\ pc[Client] = "ctor"
      /\ UNCHANGED <<lru, hash, cacheMutex, maint, handles>>
  BY DEF CreateRoot, At, Goto, lockVars
<1>2. LockInv' /\ ScanInv' /\ pc'[Client] = "push"
  BY <1>1, ClientUnlocked
<1>3. cl.stage = "none" /\ \A k \in Handles : handles[k].file = NoFile
  BY <1>1 DEF IInv, CallInv, SlotInv, TypeOK, Call
<1>4. c \in Call /\ c.stage = "root" /\ c.file = g /\ c.pfile = NoFile
      /\ c.slot = h /\ c.id = Root
  BY CallTypes DEF NoCall
<1> HIDE DEF c
<1>5. CallInv' /\ SlotInv'
  BY <1>1, <1>2, <1>3, <1>4, ConstantsAssumption DEF CallInv, SlotInv
<1>6. Pins(g)' = Pins(g) + 1 /\ \A f \in Files \ {g} : Pins(f)' = Pins(f)
  <2>1. InCall(g)' = 1 /\ InCall(g) = 0
        /\ \A f \in Files \ {g} : InCall(f)' = 0 /\ InCall(f) = 0
    BY <1>1, <1>3, <1>4, ConstantsAssumption DEF InCall
  <2>2. \A f \in Files : HeldBy(f)' = HeldBy(f)
    BY <1>1, HeldSame
  <2> QED
    BY <2>1, <2>2, PinsSum
<1>7. /\ file' \in [Files -> NodeFile]
      /\ NewNodeFile(Root, "LOADED", TRUE).id = Root
      /\ UserInv' /\ HashInv'
  <2>1. Root \in Ids
    BY ConstantsAssumption
  <2> QED
    BY <1>1, <1>6, <2>1, NewFile
<1>8. TypeOK'
  <2>1. pc' \in [Actors -> PCs]
    BY <1>1 DEF IInv, TypeOK, PCs
  <2> QED
    BY <1>1, <1>4, <1>7, <2>1 DEF IInv, TypeOK, CreateRoot, lockVars,
                                  storageVars
<1>9. IdInv'
  <2>1. file'[g].id = Root
    BY <1>1, <1>7 DEF IInv, TypeOK
  <2> QED
    BY <1>1, <1>3, <1>4, <2>1 DEF IdInv
<1> QED
  BY <1>2, <1>5, <1>7, <1>8, <1>9 DEF IInv

LEMMA ParentHasFileInv == ASSUME IInv, ParentHasFile PROVE IInv'
<1>1. /\ cl' = [cl EXCEPT !.stage = "child"] /\ cl.stage = "parent"
      /\ pc' = [pc EXCEPT ![Client] = "find"] /\ pc[Client] = "got"
      /\ UNCHANGED <<file, lru, hash, cacheMutex, maint, handles>>
  BY DEF ParentHasFile, At, Goto, lockVars, treeVars
<1>2. LockInv' /\ ScanInv' /\ pc'[Client] = "find"
  BY <1>1, ClientUnlocked
<1>3. cl' \in Call /\ cl'.stage = "child" /\ cl'.file = cl.file
      /\ cl'.pfile = cl.pfile /\ cl'.slot = cl.slot /\ cl'.id = cl.id
  BY <1>1 DEF IInv, TypeOK, Call
<1>4. cl.file = NoFile /\ cl.pfile # NoFile
  BY <1>1 DEF IInv, CallInv
<1>5. CallInv' /\ SlotInv'
  BY <1>1, <1>2, <1>3, <1>4 DEF IInv, CallInv, SlotInv
<1>6. TypeOK'
  <2>1. pc' \in [Actors -> PCs]
    BY <1>1 DEF IInv, TypeOK, PCs
  <2> QED
    BY <1>1, <1>3, <2>1 DEF IInv, TypeOK, ParentHasFile, lockVars, storageVars,
                            treeVars
<1>7. \A f \in Files : Pins(f)' = Pins(f)
  <2> SUFFICES ASSUME NEW f \in Files PROVE Pins(f)' = Pins(f)
    OBVIOUS
  <2>1. InCall(f)' = InCall(f)
    BY <1>1, <1>3 DEF InCall
  <2>2. HeldBy(f)' = HeldBy(f)
    BY <1>1, HeldSame
  <2> QED
    BY <2>1, <2>2, PinsSum
<1>8. HashInv' /\ UserInv' /\ IdInv'
  BY <1>1, <1>3, <1>7, SameCount DEF IInv, HashInv, IdInv
<1> QED
  BY <1>2, <1>5, <1>6, <1>8 DEF IInv

LEMMA ParentLacksFileInv ==
  ASSUME IInv, NEW g \in Files, ParentLacksFile(g) PROVE IInv'
<1>1. /\ file' = [file EXCEPT ![g] = NewNodeFile(cl.id, "LOADED", TRUE)]
      /\ cl' = [cl EXCEPT !.stage = "created", !.file = g]
      /\ file[g].state = "FREE" /\ cl.stage = "parent"
      /\ pc' = [pc EXCEPT ![Client] = "push"] /\ pc[Client] = "got"
      /\ UNCHANGED <<lru, hash, cacheMutex, maint, handles>>
  BY DEF ParentLacksFile, At, Goto, lockVars
<1>2. LockInv' /\ ScanInv' /\ pc'[Client] = "push"
  BY <1>1, ClientUnlocked
<1>3. cl' \in Call /\ cl'.stage = "created" /\ cl'.file = g
      /\ cl'.pfile = cl.pfile /\ cl'.slot = cl.slot /\ cl'.id = cl.id
      /\ cl.id \in Ids
  BY <1>1 DEF IInv, TypeOK, Call
<1>4. cl.file = NoFile /\ cl.pfile # NoFile /\ g # NoFile
  BY <1>1, ConstantsAssumption DEF IInv, CallInv
<1>5. CallInv' /\ SlotInv'
  BY <1>1, <1>2, <1>3, <1>4 DEF IInv, CallInv, SlotInv
<1>6. Pins(g)' = Pins(g) + 1 /\ \A f \in Files \ {g} : Pins(f)' = Pins(f)
  <2>1. InCall(g)' = InCall(g) + 1
        /\ \A f \in Files \ {g} : InCall(f)' = InCall(f)
    BY <1>1, <1>3, <1>4, ConstantsAssumption DEF InCall
  <2>2. \A f \in Files : HeldBy(f)' = HeldBy(f)
    BY <1>1, HeldSame
  <2>3. Pins(g)' = Pins(g) + 1
    BY <2>1, <2>2, PinsSum
  <2>4. \A f \in Files \ {g} : Pins(f)' = Pins(f)
    BY <2>1, <2>2, PinsSum
  <2> QED
    BY <2>3, <2>4
<1>7. /\ file' \in [Files -> NodeFile]
      /\ NewNodeFile(cl.id, "LOADED", TRUE).id = cl.id
      /\ UserInv' /\ HashInv'
  BY <1>1, <1>3, <1>6, NewFile
<1>8. TypeOK'
  <2>1. pc' \in [Actors -> PCs]
    BY <1>1 DEF IInv, TypeOK, PCs
  <2> QED
    BY <1>1, <1>3, <1>7, <2>1 DEF IInv, TypeOK, ParentLacksFile, lockVars,
                                  storageVars
<1>9. IdInv'
  <2>1. file'[g].id = cl.id
    BY <1>1, <1>7 DEF IInv, TypeOK
  <2> QED
    BY <1>1, <1>3, <2>1, OldIds DEF IdInv
<1> QED
  BY <1>2, <1>5, <1>7, <1>8, <1>9 DEF IInv

LEMMA PushInv == ASSUME IInv, Push PROVE IInv'
<1> DEFINE p == IF cl.stage \in {"root", "created"} THEN "maint" ELSE "got"
<1>1. /\ lru' = Cons(Current, lru) /\ cacheMutex = Nobody
      /\ hash' = [hash EXCEPT ![Target] = IF @ = NoFile THEN Current ELSE @]
      /\ pc' = [pc EXCEPT ![Client] = p] /\ pc[Client] = "push"
      /\ UNCHANGED <<file, cacheMutex, maint, cl, handles>>
  BY DEF Push, PushFront, At, Goto, lockVars, clientVars
<1>2. LockInv' /\ ScanInv' /\ pc'[Client] = p
  BY <1>1, ClientUnlocked
<1>3. cl \in Call /\ cl.stage \in {"root", "node", "parent", "child", "created"}
  BY <1>1 DEF IInv, CallInv, TypeOK, Call
<1>4. Current \in Files /\ Target \in Ids
  <2>1. Current # NoFile
    BY <1>1, <1>3 DEF IInv, CallInv, Current
  <2> QED
    BY <1>3, <2>1, ConstantsAssumption DEF Current, Target, Call
<1>5. CallInv' /\ SlotInv'
  BY <1>1, <1>2, <1>3 DEF IInv, CallInv, SlotInv
<1>6. TypeOK'
  <2>1. pc' \in [Actors -> PCs]
    BY <1>1 DEF IInv, TypeOK, PCs
  <2>2. lru' \in Seq(Files)
    <3>1. lru \in Seq(Files)
      BY DEF IInv, TypeOK
    <3> QED
      BY <1>1, <1>4, <3>1 DEF Cons
  <2>3. hash' \in [Ids -> Files \cup {NoFile}]
    BY <1>1, <1>4 DEF IInv, TypeOK
  <2> QED
    BY <1>1, <2>1, <2>2, <2>3 DEF IInv, TypeOK, Push, lockVars, storageVars,
                                  clientVars
<1>7. UserInv'
  BY <1>1, PinsFrame DEF IInv, UserInv
<1>8. IdInv'
  BY <1>1 DEF IInv, IdInv
<1>9. HashInv'
  <2>1. file[Current].state # "FREE"
    BY <1>3, <1>4, Pinned DEF Current
  <2>2. file[Current].id = Target
    BY <1>3, <1>4, ConstantsAssumption DEF IInv, IdInv, Current, Target
  <2>3. hash \in [Ids -> Files \cup {NoFile}]
    BY DEF IInv, TypeOK
  <2> QED
    BY <1>1, <2>1, <2>2, <2>3 DEF IInv, HashInv
<1> QED
  BY <1>2, <1>5, <1>6, <1>7, <1>8, <1>9 DEF IInv

(***************************************************************************)
(* What the calls do with the file                                         *)
(***************************************************************************)

\* The call gives its file up, or hands the reference over to a handle.
LEMMA ReadNodeInv == ASSUME IInv, ReadNode PROVE IInv'
<1>1. /\ cl.stage = "node" /\ cl' = NoCall
      /\ pc' = [pc EXCEPT ![Client] = "idle"] /\ pc[Client] = "got"
      /\ UNCHANGED <<lru, hash, cacheMutex, maint>>
  BY DEF ReadNode, At, Goto, lockVars
<1>2. LockInv' /\ ScanInv' /\ pc'[Client] = "idle"
  BY <1>1, ClientUnlocked
<1>3. cl \in Call /\ cl.file # NoFile /\ cl.pfile = NoFile
      /\ cl.slot \in Handles /\ handles[cl.slot].file = NoFile
  BY <1>1 DEF IInv, CallInv, SlotInv, TypeOK
<1>4. PICK g \in Files : g = cl.file
  BY <1>3 DEF Call
<1>5. PICK h \in Handles : h = cl.slot
  BY <1>3
<1>6. NoCall \in Call /\ NoCall.stage = "none"
  BY CallTypes DEF NoCall
<1>7. CallInv'
  BY <1>1, <1>2, <1>6 DEF CallInv
<1>8. SlotInv'
  BY <1>1, <1>2, <1>6 DEF SlotInv
<1>9. InCall(g) = 1 /\ InCall(g)' = 0
      /\ \A f \in Files \ {g} : InCall(f) = 0 /\ InCall(f)' = 0
  BY <1>1, <1>3, <1>4, <1>6, ConstantsAssumption DEF InCall
<1>10. file[g] \in NodeFile /\ file[g].state \in {"LOADING", "LOADED"}
  BY <1>1, <1>4, Pinned DEF IInv, TypeOK
<1>11. pc' \in [Actors -> PCs]
  BY <1>1 DEF IInv, TypeOK, PCs
<1> DEFINE missing == file[g].nodes[cl.short] = Absent
<1>12. CASE missing /\ file[g].state # "LOADING"
  <2> DEFINE nf == [file[g] EXCEPT !.users = @ - 1]
  <2>1. file' = [file EXCEPT ![g] = nf] /\ UNCHANGED handles
    BY <1>4, <1>12 DEF ReadNode
  <2>2. nf \in NodeFile /\ nf.users = file[g].users - 1
        /\ nf.id = file[g].id /\ nf.state = file[g].state
    <3>1. file[g].users - 1 \in Int
      BY <1>10 DEF NodeFile
    <3> QED
      BY <1>10, <3>1 DEF NodeFile
  <2> HIDE DEF nf
  <2>3. TypeOK'
    <3>1. file' \in [Files -> NodeFile]
      BY <2>1, <2>2 DEF IInv, TypeOK
    <3> QED
      BY <1>1, <1>6, <1>11, <2>1, <3>1 DEF IInv, TypeOK, ReadNode, lockVars,
                                           storageVars
  <2>4. Pins(g)' = Pins(g) - 1 /\ \A f \in Files \ {g} : Pins(f)' = Pins(f)
    <3>1. \A f \in Files : HeldBy(f)' = HeldBy(f)
      BY <2>1, HeldSame
    <3> QED
      BY <1>9, <3>1, PinsSum
  <2>5. UserInv'
    <3>1. nf.users = Pins(g)'
      BY <2>2, <2>4 DEF IInv, UserInv
    <3> QED
      BY <1>10, <2>1, <2>2, <2>4, <3>1, Counted
  <2>6. HashInv'
    BY <1>1, <1>10, <2>1, <2>2, HashKept
  <2>7. IdInv'
    BY <1>1, <1>6, <2>1, <2>2, OldIds DEF IdInv
  <2> QED
    BY <1>2, <1>7, <1>8, <2>3, <2>5, <2>6, <2>7 DEF IInv
<1>13. CASE ~(missing /\ file[g].state # "LOADING")
  <2> DEFINE nf == [file[g] EXCEPT !.nodes[cl.short] = IF missing THEN 0 ELSE @]
             x == [file |-> g, id |-> cl.id, short |-> cl.short,
                   modified |-> FALSE]
  <2>1. file' = [file EXCEPT ![g] = nf]
        /\ handles' = [handles EXCEPT ![h] = x]
    BY <1>4, <1>5, <1>13 DEF ReadNode
  <2>2. nf \in NodeFile /\ nf.users = file[g].users
        /\ nf.id = file[g].id /\ nf.state = file[g].state
    BY <1>10 DEF NodeFile, Values
  <2>3. x \in Handle /\ x.file = g /\ x.id = cl.id
    BY <1>3 DEF Handle, Call
  <2> HIDE DEF nf, x
  <2>4. TypeOK'
    <3>1. file' \in [Files -> NodeFile]
      BY <2>1, <2>2 DEF IInv, TypeOK
    <3>2. handles' \in [Handles -> Handle]
      BY <2>1, <2>3 DEF IInv, TypeOK
    <3> QED
      BY <1>1, <1>6, <1>11, <3>1, <3>2 DEF IInv, TypeOK, ReadNode, lockVars,
                                           storageVars
  <2>5. \A f \in Files : Pins(f)' = Pins(f)
    <3>1. /\ HeldBy(g)' = HeldBy(g) + 1
          /\ \A f \in Files \ {g} : HeldBy(f)' = HeldBy(f)
      BY <1>3, <1>5, <2>1, <2>3, HeldAdd DEF IInv, TypeOK
    <3>2. Pins(g)' = Pins(g)
      BY <1>9, <3>1, PinsSum
    <3>3. \A f \in Files \ {g} : Pins(f)' = Pins(f)
      BY <1>9, <3>1, PinsSum
    <3> QED
      BY <3>2, <3>3
  <2>6. UserInv'
    <3>1. nf.users = Pins(g)'
      BY <2>2, <2>5 DEF IInv, UserInv
    <3> QED
      BY <1>10, <2>1, <2>2, <2>5, <3>1, Counted
  <2>7. HashInv'
    BY <1>1, <1>10, <2>1, <2>2, HashKept
  <2>8. IdInv'
    <3>1. \A k \in Handles : handles'[k] = IF k = h THEN x ELSE handles[k]
      BY <2>1 DEF IInv, TypeOK
    <3>2. file'[g].id = cl.id
      BY <1>1, <1>3, <1>4, <2>1, <2>2, OldIds
    <3>3. \A k \in Handles : handles[k].file # NoFile =>
             file'[handles[k].file].id = handles[k].id
      BY <2>1, <2>2, OldIds
    <3>4. \A k \in Handles : handles'[k].file # NoFile =>
             file'[handles'[k].file].id = handles'[k].id
      BY <2>3, <3>1, <3>2, <3>3
    <3> QED
      BY <1>1, <1>6, <3>4 DEF IdInv
  <2> QED
    BY <1>2, <1>7, <1>8, <2>4, <2>6, <2>7, <2>8 DEF IInv
<1> QED
  BY <1>12, <1>13

\* createChildNode gives the parent's file up.
LEMMA LinkParentInv == ASSUME IInv, LinkParent PROVE IInv'
<1>1. /\ cl.stage \in {"created", "child"} /\ cl' = [cl EXCEPT !.pfile = NoFile]
      /\ pc' = [pc EXCEPT ![Client] = "create"] /\ pc[Client] \in {"link", "got"}
      /\ version' = version + 1
      /\ UNCHANGED <<lru, hash, cacheMutex, maint>>
  BY DEF LinkParent, At, Goto, lockVars, IInv, CallInv, TypeOK, Call
<1>2. LockInv' /\ ScanInv' /\ pc'[Client] = "create"
  BY <1>1, ClientUnlocked
<1>3. cl \in Call /\ cl.file # NoFile /\ cl.pfile # NoFile
      /\ cl.slot \in Handles /\ handles[cl.slot].file = NoFile
  BY <1>1 DEF IInv, CallInv, SlotInv, TypeOK
<1>4. PICK g \in Files : g = cl.pfile
  BY <1>3 DEF Call
<1>5. cl' \in Call /\ cl'.stage = cl.stage /\ cl'.file = cl.file
      /\ cl'.pfile = NoFile /\ cl'.slot = cl.slot /\ cl'.id = cl.id
  BY <1>1, <1>3 DEF Call
<1>6. file[g] \in NodeFile /\ file[g].state \in {"LOADING", "LOADED"}
  BY <1>1, <1>4, Pinned DEF IInv, TypeOK
<1>7. version' \in Nat
  <2>1. version \in Nat
    BY DEF IInv, TypeOK
  <2> QED
    BY <1>1, <2>1
<1> DEFINE s == handles[cl.from].short
           wf == IF cl.stage = "created" THEN WithChildFile(file[g], cl.id)
                                         ELSE file[g]
           nf == [wf EXCEPT !.users = @ - 1, !.nodes[s] = version']
           x == [handles[cl.from] EXCEPT !.modified = TRUE]
<1>8. file' = [file EXCEPT ![g] = nf]
      /\ handles' = [handles EXCEPT ![cl.from] = x]
  BY <1>4 DEF LinkParent
<1>9. wf \in NodeFile /\ wf.users = file[g].users
      /\ wf.id = file[g].id /\ wf.state = file[g].state
  <2>1. cl.id \in Ids
    BY <1>3 DEF Call
  <2> QED
    BY <1>6, <2>1 DEF WithChildFile, NodeFile
<1> HIDE DEF wf
<1>10. nf \in NodeFile /\ nf.users = file[g].users - 1
       /\ nf.id = file[g].id /\ nf.state = file[g].state
  <2>1. wf.users - 1 \in Int /\ version' \in Values
    BY <1>7, <1>9 DEF NodeFile, Values
  <2> QED
    BY <1>9, <2>1 DEF NodeFile
<1>11. /\ handles' \in [Handles -> Handle]
       /\ \A k \in Handles : handles'[k].file = handles[k].file
                             /\ handles'[k].id = handles[k].id
  <2>1. cl.from \in Handles =>
          x \in Handle /\ x.file = handles[cl.from].file
          /\ x.id = handles[cl.from].id
    BY DEF IInv, TypeOK, Handle
  <2>2. handles \in [Handles -> Handle]
    BY DEF IInv, TypeOK
  <2> HIDE DEF x
  <2>3. \A k \in Handles : handles'[k] = IF k = cl.from THEN x ELSE handles[k]
    BY <1>8, <2>2
  <2> QED
    BY <1>8, <2>1, <2>2, <2>3, ExceptType
<1> HIDE DEF nf, x, s
<1>12. TypeOK'
  <2>1. file' \in [Files -> NodeFile]
    BY <1>8, <1>10 DEF IInv, TypeOK
  <2>2. truth' \in [Ids -> [Shorts -> Values]]
    BY <1>7 DEF LinkParent, IInv, TypeOK, Values
  <2>3. pc' \in [Actors -> PCs]
    BY <1>1 DEF IInv, TypeOK, PCs
  <2> QED
    BY <1>1, <1>5, <1>7, <1>11, <2>1, <2>2, <2>3
       DEF IInv, TypeOK, LinkParent, lockVars, storageVars
<1>13. CallInv' /\ SlotInv'
  BY <1>1, <1>2, <1>3, <1>5, <1>11 DEF CallInv, SlotInv
<1>14. Pins(g)' = Pins(g) - 1 /\ \A f \in Files \ {g} : Pins(f)' = Pins(f)
  <2>1. InCall(g)' = InCall(g) - 1
        /\ \A f \in Files \ {g} : InCall(f)' = InCall(f)
    BY <1>1, <1>4, <1>5, ConstantsAssumption DEF InCall
  <2>2. \A f \in Files : HeldBy(f)' = HeldBy(f)
    BY <1>11, HeldSame
  <2>3. Pins(g)' = Pins(g) - 1
    BY <2>1, <2>2, PinsSum
  <2>4. \A f \in Files \ {g} : Pins(f)' = Pins(f)
    BY <2>1, <2>2, PinsSum
  <2> QED
    BY <2>3, <2>4
<1>15. UserInv'
  <2>1. nf.users = Pins(g)'
    BY <1>10, <1>14 DEF IInv, UserInv
  <2> QED
    BY <1>6, <1>8, <1>10, <1>14, <2>1, Counted
<1>16. HashInv'
  BY <1>1, <1>6, <1>8, <1>10, HashKept
<1>17. IdInv'
  BY <1>1, <1>5, <1>8, <1>10, <1>11, OldIds DEF IdInv
<1> QED
  BY <1>2, <1>12, <1>13, <1>15, <1>16, <1>17 DEF IInv

\* createNode adds the reference of the new handle.
LEMMA CreateNodeInv == ASSUME IInv, CreateNode PROVE IInv'
<1>1. /\ pc' = [pc EXCEPT ![Client] = "inc"] /\ pc[Client] = "create"
      /\ reg' = [reg EXCEPT ![Client] = size + 1]
      /\ UNCHANGED <<lru, hash, cacheMutex, maint, cl>>
  BY DEF CreateNode, At, Goto, lockVars, LoadSize
<1>2. LockInv' /\ ScanInv' /\ pc'[Client] = "inc"
  BY <1>1, ClientUnlocked
<1>3. cl \in Call /\ cl.stage \in {"root", "child", "created"}
      /\ cl.file # NoFile /\ cl.slot \in Handles
      /\ handles[cl.slot].file = NoFile
  BY <1>1 DEF IInv, CallInv, SlotInv, TypeOK, Call
<1>4. PICK g \in Files : g = cl.file
  BY <1>3 DEF Call
<1>5. PICK h \in Handles : h = cl.slot
  BY <1>3
<1>6. file[g] \in NodeFile /\ file[g].state \in {"LOADING", "LOADED"}
  BY <1>3, <1>4, Pinned DEF IInv, TypeOK
<1> DEFINE nf == WithNewNode(file[g], cl.short)
           x == [file |-> g, id |-> cl.id, short |-> cl.short,
                 modified |-> FALSE]
<1>7. file' = [file EXCEPT ![g] = nf] /\ handles' = [handles EXCEPT ![h] = x]
  BY <1>4, <1>5 DEF CreateNode
<1>8. nf \in NodeFile /\ nf.users = file[g].users + 1
      /\ nf.id = file[g].id /\ nf.state = file[g].state
  <2>1. file[g].users + 1 \in Int /\ 0 \in Values
    BY <1>6 DEF NodeFile, Values
  <2> QED
    BY <1>6, <2>1 DEF NodeFile, WithNewNode
<1>9. x \in Handle /\ x.file = g /\ x.id = cl.id
  BY <1>3 DEF Handle, Call
<1> HIDE DEF nf, x
<1>10. TypeOK'
  <2>1. file' \in [Files -> NodeFile]
    BY <1>7, <1>8 DEF IInv, TypeOK
  <2>2. handles' \in [Handles -> Handle]
    BY <1>7, <1>9 DEF IInv, TypeOK
  <2>3. truth' \in [Ids -> [Shorts -> Values]]
    BY DEF CreateNode, IInv, TypeOK, Values
  <2>4. pc' \in [Actors -> PCs]
    BY <1>1 DEF IInv, TypeOK, PCs
  <2>5. reg' \in [Actors -> Int]
    <3>1. reg \in [Actors -> Int] /\ size \in Int
      BY DEF IInv, TypeOK
    <3>2. size + 1 \in Int
      BY <3>1
    <3> QED
      BY <1>1, <3>1, <3>2, ExceptType
  <2> QED
    BY <1>1, <2>1, <2>2, <2>3, <2>4, <2>5
       DEF IInv, TypeOK, CreateNode, lockVars, storageVars
<1>11. CallInv' /\ SlotInv'
  BY <1>1, <1>2, <1>3 DEF IInv, CallInv, SlotInv
<1>12. Pins(g)' = Pins(g) + 1 /\ \A f \in Files \ {g} : Pins(f)' = Pins(f)
  <2>1. \A f \in Files : InCall(f)' = InCall(f)
    BY <1>1 DEF InCall
  <2>2. /\ HeldBy(g)' = HeldBy(g) + 1
        /\ \A f \in Files \ {g} : HeldBy(f)' = HeldBy(f)
    BY <1>3, <1>5, <1>7, <1>9, HeldAdd DEF IInv, TypeOK
  <2>3. Pins(g)' = Pins(g) + 1
    BY <2>1, <2>2, PinsSum
  <2>4. \A f \in Files \ {g} : Pins(f)' = Pins(f)
    BY <2>1, <2>2, PinsSum
  <2> QED
    BY <2>3, <2>4
<1>13. UserInv'
  <2>1. nf.users = Pins(g)'
    BY <1>8, <1>12 DEF IInv, UserInv
  <2> QED
    BY <1>6, <1>7, <1>8, <1>12, <2>1, Counted
<1>14. HashInv'
  BY <1>1, <1>6, <1>7, <1>8, HashKept
<1>15. IdInv'
  <2>1. \A k \in Handles : handles'[k] = IF k = h THEN x ELSE handles[k]
    BY <1>7 DEF IInv, TypeOK
  <2>2. file'[g].id = cl.id
    BY <1>3, <1>4, <1>7, <1>8, OldIds
  <2>3. /\ \A k \in Handles : handles[k].file # NoFile =>
             file'[handles[k].file].id = handles[k].id
        /\ cl.file # NoFile => file'[cl.file].id = cl.id
        /\ cl.pfile # NoFile => file'[cl.pfile].id = Parent[cl.id]
    BY <1>3, <1>7, <1>8, OldIds
  <2>4. \A k \in Handles : handles'[k].file # NoFile =>
           file'[handles'[k].file].id = handles'[k].id
    BY <1>9, <2>1, <2>2, <2>3
  <2> QED
    BY <1>1, <2>3, <2>4 DEF IdInv
<1> QED
  BY <1>2, <1>10, <1>11, <1>13, <1>14, <1>15 DEF IInv

LEMMA CreateNodeStoreInv == ASSUME IInv, CreateNodeStore PROVE IInv'
<1>1. /\ pc' = [pc EXCEPT ![Client] = "drop"] /\ pc[Client] = "inc"
      /\ size' = reg[Client] /\ reg' = [reg EXCEPT ![Client] = 0]
      /\ UNCHANGED <<file, lru, hash, cacheMutex, maint, cl, handles>>
  BY DEF CreateNodeStore, At, Goto, lockVars, StoreSize, clientVars
<1>2. LockInv' /\ ScanInv' /\ pc'[Client] = "drop"
  BY <1>1, ClientUnlocked
<1>3. TypeOK'
  <2>1. pc' \in [Actors -> PCs]
    BY <1>1 DEF IInv, TypeOK, PCs
  <2>2. size' \in Int /\ reg' \in [Actors -> Int]
    <3>1. reg \in [Actors -> Int] /\ Client \in Actors
      BY DEF IInv, TypeOK, Actors
    <3> QED
      BY <1>1, <3>1
  <2> QED
    BY <1>1, <2>1, <2>2 DEF IInv, TypeOK, CreateNodeStore, lockVars,
                            storageVars, clientVars
<1>4. CallInv' /\ SlotInv'
  BY <1>1, <1>2 DEF IInv, CallInv, SlotInv
<1> QED
  BY <1>1, <1>2, <1>3, <1>4, Untouched DEF IInv

\* The call gives its file up.
LEMMA DropFileInv == ASSUME IInv, DropFile PROVE IInv'
<1>1. /\ cl' = NoCall
      /\ pc' = [pc EXCEPT ![Client] = "idle"] /\ pc[Client] = "drop"
      /\ UNCHANGED <<lru, hash, cacheMutex, maint, handles>>
  BY DEF DropFile, At, Goto, lockVars
<1>2. LockInv' /\ ScanInv' /\ pc'[Client] = "idle"
  BY <1>1, ClientUnlocked
<1>3. cl \in Call /\ cl.stage \in {"root", "child", "created"}
      /\ cl.file # NoFile /\ cl.pfile = NoFile
  BY <1>1 DEF IInv, CallInv, TypeOK, Call
<1>4. PICK g \in Files : g = cl.file
  BY <1>3 DEF Call
<1>5. NoCall \in Call /\ NoCall.stage = "none"
  BY CallTypes DEF NoCall
<1>6. file[g] \in NodeFile /\ file[g].state \in {"LOADING", "LOADED"}
  BY <1>3, <1>4, Pinned DEF IInv, TypeOK
<1> DEFINE nf == [file[g] EXCEPT !.users = @ - 1]
<1>7. file' = [file EXCEPT ![g] = nf]
  BY <1>4 DEF DropFile
<1>8. nf \in NodeFile /\ nf.users = file[g].users - 1
      /\ nf.id = file[g].id /\ nf.state = file[g].state
  <2>1. file[g].users - 1 \in Int
    BY <1>6 DEF NodeFile
  <2> QED
    BY <1>6, <2>1 DEF NodeFile
<1> HIDE DEF nf
<1>9. TypeOK'
  <2>1. file' \in [Files -> NodeFile]
    BY <1>7, <1>8 DEF IInv, TypeOK
  <2>2. pc' \in [Actors -> PCs]
    BY <1>1 DEF IInv, TypeOK, PCs
  <2> QED
    BY <1>1, <1>5, <2>1, <2>2 DEF IInv, TypeOK, DropFile, lockVars, storageVars
<1>10. CallInv' /\ SlotInv'
  BY <1>1, <1>2, <1>5 DEF CallInv, SlotInv
<1>11. Pins(g)' = Pins(g) - 1 /\ \A f \in Files \ {g} : Pins(f)' = Pins(f)
  <2>1. InCall(g) = 1 /\ InCall(g)' = 0
        /\ \A f \in Files \ {g} : InCall(f) = 0 /\ InCall(f)' = 0
    BY <1>1, <1>3, <1>4, <1>5, ConstantsAssumption DEF InCall
  <2>2. \A f \in Files : HeldBy(f)' = HeldBy(f)
    BY <1>1, HeldSame
  <2> QED
    BY <2>1, <2>2, PinsSum
<1>12. UserInv'
  <2>1. nf.users = Pins(g)'
    BY <1>8, <1>11 DEF IInv, UserInv
  <2> QED
    BY <1>6, <1>7, <1>8, <1>11, <2>1, Counted
<1>13. HashInv'
  BY <1>1, <1>6, <1>7, <1>8, HashKept
<1>14. IdInv'
  BY <1>1, <1>5, <1>7, <1>8, OldIds DEF IdInv
<1> QED
  BY <1>2, <1>9, <1>10, <1>12, <1>13, <1>14 DEF IInv

(***************************************************************************)
(* flushCache and the destructor                                           *)
(***************************************************************************)

LEMMA FlushFileInv == ASSUME IInv, FlushFile PROVE IInv'
<1> DEFINE g == lru[maint.it]
           j == [op |-> "flush", file |-> g, id |-> file[g].id,
                 data |-> Serialized(g)]
<1>1. /\ UNCHANGED <<file, lru, hash, cacheMutex, cl, handles, pc>>
      /\ maint' = [maint EXCEPT !.it = @ + 1]
      /\ pc[Client] = "flush" /\ maint.it <= Len(lru)
  BY DEF FlushFile, At, treeVars, lockVars, clientVars
<1>2. /\ maint' \in [it : Nat, to_evict : Int, evicted : Int]
      /\ maint'.it = maint.it + 1 /\ maint.it \in 1..Len(lru)
  <2>1. maint.it + 1 \in Nat /\ maint.it >= 1
    BY <1>1, ScanTypes DEF IInv, ScanInv
  <2>2. maint'.it = maint.it + 1
    BY <1>1, ScanTypes
  <2>3. maint' \in [it : Nat, to_evict : Int, evicted : Int]
    BY <1>1, <2>1, ScanTypes
  <2> QED
    BY <1>1, <2>1, <2>2, <2>3, ScanTypes
<1>3. g \in Files
  BY <1>2, ScanTypes, ElementOfSeq
<1>4. j \in Job
  <2>1. Serialized(g) \in Content /\ file[g].id \in Ids
    BY <1>3, SerializedType DEF IInv
  <2> QED
    BY <1>3, <2>1 DEF Job
<1>5. /\ queue' = queue \/ queue' = Append(queue, j)
      /\ remaining' = remaining \/ remaining' = remaining + 1
      /\ aborted' \in {aborted, "read only"}
  BY DEF FlushFile
<1> HIDE DEF j
<1>6. queue' \in Seq(Job) /\ remaining' \in Int
  <2>1. queue \in Seq(Job) /\ remaining \in Int
    BY DEF IInv, TypeOK
  <2>2. Append(queue, j) \in Seq(Job)
    BY <1>4, <2>1, AppendProperties
  <2>3. remaining + 1 \in Int
    BY <2>1
  <2> QED
    BY <1>5, <2>1, <2>2, <2>3
<1>7. TypeOK'
  BY <1>1, <1>2, <1>5, <1>6 DEF IInv, TypeOK, FlushFile, treeVars, lockVars,
                                clientVars
<1>8. LockInv' /\ ScanInv'
  <2>1. \A x \in Actors \ {Client} : pc[x] \notin {"scan", "scandec"}
    BY <1>1, ScanTypes, Alone
  <2> QED
    BY <1>1, <1>2, <2>1 DEF IInv, LockInv, ScanInv
<1> QED
  BY <1>1, <1>7, <1>8, Untouched, ClientStill DEF IInv

LEMMA FlushEndInv == ASSUME IInv, FlushEnd PROVE IInv'
<1> DEFINE p == IF cl.stage = "destroy" THEN "destroy" ELSE "idle"
<1>1. /\ UNCHANGED <<file, lru, hash, cl, handles>>
      /\ pc' = [pc EXCEPT ![Client] = p] /\ pc[Client] = "flush"
      /\ maint' = NoScan
  BY DEF FlushEnd, At, Goto, treeVars, clientVars
<1>2. /\ pc'[Client] = p
      /\ \A x \in Actors \ {Client} : pc'[x] = pc[x]
  BY <1>1 DEF IInv, TypeOK, Actors
<1>3. LockInv' /\ ScanInv'
  BY <1>1, <1>2, ScanTypes, Alone DEF LockInv, ScanInv
<1>4. TypeOK'
  <2>1. pc' \in [Actors -> PCs]
    BY <1>1 DEF IInv, TypeOK, PCs
  <2>2. maint' \in [it : Nat, to_evict : Int, evicted : Int]
    BY <1>1 DEF NoScan
  <2> QED
    BY <1>1, <2>1, <2>2 DEF IInv, TypeOK, FlushEnd, treeVars, storageVars,
                            clientVars
<1>5. CallInv' /\ SlotInv'
  <2>1. cl.stage \in {"none", "destroy"}
    BY <1>1 DEF IInv, CallInv, TypeOK, Call
  <2>2. CallInv'
    BY <1>1, <1>2, <2>1 DEF IInv, CallInv
  <2>3. SlotInv'
    BY <1>1, <1>2, <2>1 DEF IInv, SlotInv
  <2> QED
    BY <2>2, <2>3
<1> QED
  BY <1>1, <1>3, <1>4, <1>5, Untouched DEF IInv

LEMMA DestroyFileInv ==
  ASSUME IInv, NEW g \in Files, DestroyFile(g) PROVE IInv'
<1>1. /\ file' = [file EXCEPT ![g] = Unallocated]
      /\ hash' = [hash EXCEPT ![file[g].id] = NoFile]
      /\ lru' = RemoveFirst(lru, g)
      /\ reg' = [reg EXCEPT ![Client] = size + (-CacheSize(g))]
      /\ pc' = [pc EXCEPT ![Client] = "destroydec"] /\ pc[Client] = "destroy"
      /\ cacheMutex = Nobody /\ cacheMutex' = Client
      /\ UNCHANGED <<cl, handles, maint>>
  BY DEF DestroyFile, Erase, LoadSize, At, Goto, clientVars
<1>2. /\ pc'[Client] = "destroydec"
      /\ \A x \in Actors \ {Client} : pc'[x] = pc[x]
  BY <1>1 DEF IInv, TypeOK, Actors
<1>3. LockInv' /\ ScanInv'
  BY <1>1, <1>2, MutexFree DEF LockInv, ScanInv
<1>4. cl.stage = "destroy" /\ cl.file = NoFile /\ cl.pfile = NoFile
      /\ \A h \in Handles : handles[h].file = NoFile
  BY <1>1 DEF IInv, CallInv, SlotInv, TypeOK, Call
<1>5. TypeOK'
  <2>1. file' \in [Files -> NodeFile] /\ hash' \in [Ids -> Files \cup {NoFile}]
    BY <1>1, UnallocatedType DEF IInv, TypeOK
  <2>2. lru' \in Seq(Files)
    BY <1>1, RemoveFirstType DEF IInv, TypeOK
  <2>3. reg' \in [Actors -> Int]
    <3>1. size \in Int /\ reg \in [Actors -> Int] /\ CacheSize(g) \in Nat
      BY SizeNat DEF IInv, TypeOK
    <3>2. size + (-CacheSize(g)) \in Int
      BY <3>1
    <3> QED
      BY <1>1, <3>1, <3>2, ExceptType
  <2>4. pc' \in [Actors -> PCs] /\ cacheMutex' \in Actors \cup {Nobody}
    BY <1>1 DEF IInv, TypeOK, PCs, Actors
  <2> QED
    BY <1>1, <2>1, <2>2, <2>3, <2>4
       DEF IInv, TypeOK, DestroyFile, storageVars, clientVars
<1>6. CallInv' /\ SlotInv'
  BY <1>1, <1>2, <1>4 DEF CallInv, SlotInv
<1>7. file[g].users = 0
  <2>1. {h \in Handles : handles[h].file = g} = {}
    BY <1>4, ConstantsAssumption
  <2>2. HeldBy(g) = 0
    BY <2>1, FS_EmptySet DEF HeldBy
  <2>3. InCall(g) = 0
    BY <1>4, ConstantsAssumption DEF InCall
  <2> QED
    BY <2>2, <2>3, PinsSum DEF IInv, UserInv
<1>8. HashInv' /\ UserInv' /\ IdInv'
  BY <1>1, <1>7, Deleted
<1> QED
  BY <1>3, <1>5, <1>6, <1>8 DEF IInv

LEMMA DestroyFileStoreInv == ASSUME IInv, DestroyFileStore PROVE IInv'
<1>1. /\ UNCHANGED <<file, lru, hash, cl, handles, maint>>
      /\ pc' = [pc EXCEPT ![Client] = "destroy"] /\ pc[Client] = "destroydec"
      /\ size' = reg[Client] /\ reg' = [reg EXCEPT ![Client] = 0]
  BY DEF DestroyFileStore, At, Goto, clientVars, StoreSize
<1>2. /\ pc'[Client] = "destroy"
      /\ \A x \in Actors \ {Client} : pc'[x] = pc[x]
  BY <1>1 DEF IInv, TypeOK, Actors
<1>3. LockInv' /\ ScanInv'
  BY <1>1, <1>2, ScanTypes, Alone DEF LockInv, ScanInv
<1>4. TypeOK'
  <2>1. pc' \in [Actors -> PCs]
    BY <1>1 DEF IInv, TypeOK, PCs
  <2>2. size' \in Int /\ reg' \in [Actors -> Int]
    <3>1. reg \in [Actors -> Int] /\ Client \in Actors
      BY DEF IInv, TypeOK, Actors
    <3> QED
      BY <1>1, <3>1
  <2> QED
    BY <1>1, <2>1, <2>2 DEF IInv, TypeOK, DestroyFileStore, storageVars,
                            clientVars
<1>5. CallInv' /\ SlotInv'
  BY <1>1, <1>2 DEF IInv, CallInv, SlotInv, TypeOK, Call
<1> QED
  BY <1>1, <1>3, <1>4, <1>5, Untouched DEF IInv

LEMMA DestroyEndInv == ASSUME IInv, DestroyEnd PROVE IInv'
<1>1. /\ UNCHANGED <<file, lru, hash, cl, handles, maint, cacheMutex>>
      /\ pc' = [pc EXCEPT ![Client] = "gone"] /\ pc[Client] = "destroy"
  BY DEF DestroyEnd, At, Goto, treeVars, clientVars, lockVars
<1>2. LockInv' /\ ScanInv' /\ pc'[Client] = "gone"
  BY <1>1, ClientUnlocked
<1>3. TypeOK'
  <2>1. pc' \in [Actors -> PCs]
    BY <1>1 DEF IInv, TypeOK, PCs
  <2> QED
    BY <1>1, <2>1 DEF IInv, TypeOK, DestroyEnd, treeVars, lockVars,
                      storageVars, clientVars
<1>4. CallInv' /\ SlotInv'
  BY <1>1, <1>2 DEF IInv, CallInv, SlotInv, TypeOK, Call
<1> QED
  BY <1>1, <1>2, <1>3, <1>4, Untouched DEF IInv

(***************************************************************************)
(* The theorems                                                            *)
(***************************************************************************)

LEMMA InitInv == Init => IInv
<1> SUFFICES ASSUME NEW S \in Openings, InitWith(S) PROVE IInv
  BY DEF Init
<1>1. TypeOK
  <2>1. file \in [Files -> NodeFile]
    BY UnallocatedType DEF InitWith
  <2>2. NoCall \in Call /\ NoJob \in Job
    BY CallTypes, NoJobType
  <2>3. NoHandle \in Handle
    BY ConstantsAssumption DEF NoHandle, Handle
  <2>4. store \in [Ids -> Content]
    <3>1. Empty \in Content
      BY DEF Empty, Content, Values, Absent
    <3>2. \A i \in Ids :
            [child |-> {c \in S \ {Root} : Parent[c] = i},
             nodes |-> [s \in Shorts |-> 0]] \in Content
      <4>1. S \subseteq Ids
        BY ConstantsAssumption
      <4>2. [s \in Shorts |-> 0] \in [Shorts -> Values]
        BY DEF Values
      <4>3. \A i \in Ids : {c \in S \ {Root} : Parent[c] = i} \in SUBSET Ids
        BY <4>1
      <4> QED
        BY <4>2, <4>3 DEF Content
    <3> QED
      BY <3>1, <3>2 DEF InitWith
  <2>5. truth \in [Ids -> [Shorts -> Values]]
    <3>1. \A i \in Ids : store[i].nodes \in [Shorts -> Values]
      BY <2>4 DEF Content
    <3> QED
      BY <3>1 DEF InitWith
  <2>6. maint \in [it : Nat, to_evict : Int, evicted : Int]
    BY DEF InitWith, NoScan
  <2>7. pc \in [Actors -> PCs] /\ reg \in [Actors -> Int]
    BY DEF InitWith, PCs
  <2>8. hash \in [Ids -> Files \cup {NoFile}]
        /\ fileMutex \in [Files -> Actors \cup {Nobody}]
    BY DEF InitWith
  <2>9. lru \in Seq(Files) /\ queue \in Seq(Job)
    BY EmptySeq DEF InitWith
  <2>10. job \in [Threads -> Job] /\ handles \in [Handles -> Handle]
         /\ cl \in Call
    BY <2>2, <2>3 DEF InitWith
  <2>11. /\ cacheMutex \in Actors \cup {Nobody} /\ size \in Int /\ wsize \in Int
         /\ remaining \in Int /\ calls \in Nat /\ version \in Nat /\ aborted = "no"
    BY DEF InitWith
  <2> QED
    BY <2>1, <2>4, <2>5, <2>6, <2>7, <2>8, <2>9, <2>10, <2>11 DEF TypeOK
<1>2. /\ \A x \in Actors : pc[x] \in {"ctor", "idle"}
      /\ Client \in Actors /\ cl.stage = "none"
      /\ \A h \in Handles : handles[h].file = NoFile
  BY DEF InitWith, Actors, NoCall, NoHandle
<1>3. LockInv /\ ScanInv
  BY <1>2 DEF LockInv, ScanInv
<1>4. CallInv /\ SlotInv
  BY <1>2 DEF CallInv, SlotInv
<1>5. HashInv /\ IdInv
  BY <1>2 DEF HashInv, IdInv, InitWith
<1>6. UserInv
  <2> SUFFICES ASSUME NEW f \in Files
               PROVE  file[f].users = 0 /\ Pins(f) = 0
    BY DEF UserInv
  <2>1. {h \in Handles : handles[h].file = f} = {}
    BY <1>2, ConstantsAssumption
  <2>2. HeldBy(f) = 0
    BY <2>1, FS_EmptySet DEF HeldBy
  <2>3. InCall(f) = 0
    BY <1>2 DEF InCall
  <2>4. file[f].users = 0
    BY DEF InitWith, Unallocated
  <2> QED
    BY <2>2, <2>3, <2>4, PinsSum
<1> QED
  BY <1>1, <1>3, <1>4, <1>5, <1>6 DEF IInv

\* The invariant is inductive: every step of the client, of a thread that runs
\* cacheMaintenance and of the storage threads keeps it.
LEMMA NextInv == IInv /\ [Next]_vars => IInv'
<1> SUFFICES ASSUME IInv, [Next]_vars PROVE IInv'
  OBVIOUS
<1>1. CASE CallStep
  BY <1>1, GetRootInv, ModifyNodeInv, ReleaseNodeInv, GetChildNodeInv,
     CreateChildNodeInv, FlushCacheInv, DestroyInv DEF CallStep
<1>2. CASE ClientStep
  BY <1>2, CreateRootInv, FindHitInv, FindMissInv, PushInv, ReadNodeInv,
     ParentHasFileInv, ParentLacksFileInv, LinkParentInv, CreateNodeInv,
     CreateNodeStoreInv, DropFileInv, UnlockInv, FlushFileInv, FlushEndInv,
     DestroyFileInv, DestroyFileStoreInv, DestroyEndInv DEF ClientStep
<1>3. ASSUME NEW x \in Actors, MaintStep(x) PROVE IInv'
  BY <1>3, MaintBeginInv, MaintSkipInv, MaintDeleteInv, MaintDeleteStoreInv,
     MaintWriteInv, MaintEndInv DEF MaintStep
<1>4. ASSUME NEW t \in Threads, ThreadStep(t) PROVE IInv'
  BY <1>4, TakeJobInv, StorageGetInv, StoragePutInv, ReadNodeFileCbInv,
     ReadNodeFileCbLoadInv, ReadNodeFileCbStoreInv, EvictNodeFileCbInv,
     EvictNodeFileCbStoreInv, EvictNodeFileCbRequestedInv, FlushNodeFileCbInv
     DEF ThreadStep
<1>5. CASE UNCHANGED vars
  <2>1. UNCHANGED <<cl, handles, hash, file, pc>>
    BY <1>5 DEF vars, treeVars, clientVars
  <2>2. TypeOK' /\ LockInv' /\ ScanInv'
    BY <1>5 DEF IInv, TypeOK, LockInv, ScanInv, vars, treeVars, lockVars,
                storageVars, clientVars
  <2> QED
    BY <2>1, <2>2, Untouched, ClientStill DEF IInv
<1> QED
  BY <1>1, <1>2, <1>3, <1>4, <1>5 DEF Next

LEMMA Invariance == Spec => []IInv
<1> QED
  BY InitInv, NextInv, PTL DEF Spec

\* Every variable keeps its type, whatever the threads interleave: iterators of
\* cacheMaintenance and flushCache stay inside the list, and the files that
\* getNodeFile, readNode and createNode return are NodeFiles.
THEOREM TypeCorrect == Spec => []TypeOK
<1>1. IInv => TypeOK
  BY DEF IInv
<1> QED
  BY <1>1, Invariance, PTL

\* use_count is exact at every step of every interleaving, for any number of
\* files, handles and storage threads.
THEOREM UserCountCorrect == Spec => []UserCountExact
<1>1. IInv => UserCountExact
  BY DEF IInv, UserInv, UserCountExact
<1> QED
  BY <1>1, Invariance, PTL

\* No NodeFile is deleted, or about to be deleted, while a handle or a call of
\* the client points to it, for any number of files, handles and threads.
THEOREM NoUseAfterDelete == Spec => []PinnedFilesLive
<1>1. IInv => PinnedFilesLive
  <2> SUFFICES ASSUME IInv PROVE PinnedFilesLive
    OBVIOUS
  <2>1. /\ \A h \in Handles : handles[h].file \in Files \cup {NoFile}
        /\ cl.file \in Files \cup {NoFile} /\ cl.pfile \in Files \cup {NoFile}
    BY DEF IInv, TypeOK, Handle, Call
  <2> QED
    BY <2>1, Pinned DEF IInv, IdInv, PinnedFilesLive
<1> QED
  BY <1>1, Invariance, PTL

-----------------------------------------------------------------------------
(***************************************************************************)
(* Part 2.  The inductive invariant for the callbacks                      *)
(***************************************************************************)

\* A storage thread works on a request whose callback has not run.
Working == {"io", "readcb", "evictcb", "flushcb"}

\* A thread runs the callback of the operation it was asked for.
Fits(p, j) ==
  /\ p = "readcb"  => j.op = "read"
  /\ p = "evictcb" => j.op = "evict"
  /\ p = "flushcb" => j.op = "flush"
JobInv ==
  /\ \A j \in Pending : j.file \in Files
  /\ \A t \in Threads : Fits(pc[t], job[t])

\* At most one flush and one other request are under way for a file.
Alike(j, k) == j.file = k.file /\ (j.op = "flush" <=> k.op = "flush")
OneJob ==
  /\ \A m, n \in 1..Len(queue) : m # n => ~Alike(queue[m], queue[n])
  /\ \A n \in 1..Len(queue), t \in Threads :
       pc[t] \in Working => ~Alike(queue[n], job[t])
  /\ \A t, u \in Threads :
       t # u /\ pc[t] \in Working /\ pc[u] \in Working => ~Alike(job[t], job[u])

\* Files are in the list once, and a file to be pushed is not in it.
Entries(q) == {q[n] : n \in 1..Len(q)}
Once(q) == \A m, n \in 1..Len(q) : m # n => q[m] # q[n]
ListInv ==
  /\ Once(lru)
  /\ \A f \in Entries(lru) : file[f].state # "FREE"
  /\ pc[Client] = "push" => Current \notin Entries(lru)

\* flushCache counts the flushes under way, all of files it has passed.
Flushing == {j.file : j \in {k \in Pending : k.op = "flush"}}
FlushInv ==
  /\ IsFiniteSet(Flushing) /\ remaining = Cardinality(Flushing)
  /\ Flushing # {} => pc[Client] = "flush"
  /\ \A f \in Flushing : \E n \in 1..Len(lru) : n < maint.it /\ lru[n] = f

QInv == JobInv /\ CallbackTargetsLive /\ OneJob /\ ListInv /\ FlushInv

(***************************************************************************)
(* Lemmas about lists                                                      *)
(***************************************************************************)

\* erase takes one entry out of a list without duplicates.
LEMMA RemoveOnce ==
  ASSUME NEW S, NEW q \in Seq(S), NEW e, Once(q)
  PROVE  /\ Once(RemoveFirst(q, e))
         /\ Entries(RemoveFirst(q, e)) = Entries(q) \ {e}
<1>1. CASE \E i \in 1..Len(q) : q[i] = e
  <2> DEFINE I == {i \in 1..Len(q) : q[i] = e}
             k == Min(I)
             u == SubSeq(q, 1, k - 1)
             v == SubSeq(q, k + 1, Len(q))
             r == RemoveFirst(q, e)
  <2>1. r = RemoveAt(q, k)
    BY <1>1 DEF RemoveFirst, SelectInSeq
  <2>2. I \in SUBSET Nat /\ I # {}
    BY <1>1
  <2>3. k \in 1..Len(q) /\ q[k] = e
    BY <2>2, NatMin
  <2>4. r = u \o v
    BY <2>1 DEF RemoveAt
  <2> HIDE DEF k
  <2>5. /\ u \in Seq(S) /\ Len(u) = k - 1
        /\ \A n \in 1..(k - 1) : u[n] = q[n]
    BY <2>3, SubSeqProperties
  <2>6. /\ v \in Seq(S) /\ Len(v) = Len(q) - k
        /\ \A n \in 1..(Len(q) - k) : v[n] = q[k + n]
    BY <2>3, SubSeqProperties
  <2> HIDE DEF u, v, r
  <2>7. /\ Len(r) = Len(q) - 1
        /\ \A n \in 1..(Len(q) - 1) : r[n] = IF n < k THEN q[n] ELSE q[n + 1]
    <3>1. Len(r) = Len(q) - 1
      BY <2>3, <2>4, <2>5, <2>6, ConcatProperties
    <3>2. ASSUME NEW n \in 1..(Len(q) - 1)
          PROVE  r[n] = IF n < k THEN q[n] ELSE q[n + 1]
      <4>1. r[n] = IF n <= Len(u) THEN u[n] ELSE v[n - Len(u)]
        BY <2>3, <2>4, <2>5, <2>6, ConcatProperties
      <4>2. CASE n < k
        BY <4>1, <4>2, <2>3, <2>5
      <4>3. CASE ~(n < k)
        <5>1. n - Len(u) \in 1..(Len(q) - k) /\ ~(n <= Len(u))
          BY <4>3, <2>3, <2>5
        <5>2. v[n - Len(u)] = q[k + (n - Len(u))]
          BY <5>1, <2>6
        <5>3. k + (n - Len(u)) = n + 1
          BY <2>3, <2>5
        <5> QED
          BY <4>1, <4>3, <5>1, <5>2, <5>3
      <4> QED
        BY <4>2, <4>3
    <3> QED
      BY <3>1, <3>2
  <2>8. Once(r)
    <3> SUFFICES ASSUME NEW m \in 1..Len(r), NEW n \in 1..Len(r), m # n
                 PROVE  r[m] # r[n]
      BY DEF Once
    <3>1. PICK x \in 1..Len(q) : x = (IF m < k THEN m ELSE m + 1) /\ r[m] = q[x]
      BY <2>3, <2>7
    <3>2. PICK y \in 1..Len(q) : y = (IF n < k THEN n ELSE n + 1) /\ r[n] = q[y]
      BY <2>3, <2>7
    <3>3. x # y
      BY <3>1, <3>2, <2>3
    <3> QED
      BY <3>1, <3>2, <3>3 DEF Once
  <2>9. Entries(r) \subseteq Entries(q) \ {e}
    <3> SUFFICES ASSUME NEW n \in 1..Len(r)
                 PROVE  r[n] \in Entries(q) /\ r[n] # e
      BY DEF Entries
    <3>1. PICK x \in 1..Len(q) : x = (IF n < k THEN n ELSE n + 1) /\ r[n] = q[x]
      BY <2>3, <2>7
    <3>2. x # k
      BY <3>1, <2>3
    <3> QED
      BY <3>1, <3>2, <2>3 DEF Once, Entries
  <2>10. Entries(q) \ {e} \subseteq Entries(r)
    <3> SUFFICES ASSUME NEW x \in 1..Len(q), q[x] # e
                 PROVE  \E n \in 1..Len(r) : r[n] = q[x]
      BY DEF Entries
    <3>1. x # k
      BY <2>3
    <3>2. CASE x < k
      <4>1. x \in 1..Len(r) /\ r[x] = q[x]
        BY <3>2, <2>3, <2>7
      <4> QED
        BY <4>1
    <3>3. CASE x > k
      <4>1. x - 1 \in 1..Len(r) /\ r[x - 1] = q[(x - 1) + 1]
        BY <3>3, <2>3, <2>7
      <4> QED
        BY <4>1
    <3> QED
      BY <3>1, <3>2, <3>3, <2>3
  <2> QED
    BY <2>8, <2>9, <2>10 DEF r
<1>2. CASE ~\E i \in 1..Len(q) : q[i] = e
  BY <1>2 DEF RemoveFirst, Entries
<1> QED
  BY <1>1, <1>2

\* push_front adds one entry.
LEMMA ConsOnce ==
  ASSUME NEW S, NEW q \in Seq(S), NEW e \in S
  PROVE  /\ Entries(Cons(e, q)) = Entries(q) \cup {e}
         /\ Once(q) /\ e \notin Entries(q) => Once(Cons(e, q))
<1> DEFINE r == Cons(e, q)
<1>1. r = <<e>> \o q
  BY DEF Cons
<1>2. <<e>> \in Seq(S) /\ Len(<<e>>) = 1
  OBVIOUS
<1>3. Len(r) = Len(q) + 1
  BY <1>1, <1>2, ConcatProperties
<1>4. \A n \in 1..(Len(q) + 1) : r[n] = IF n = 1 THEN e ELSE q[n - 1]
  <2> SUFFICES ASSUME NEW n \in 1..(Len(q) + 1)
               PROVE  r[n] = IF n = 1 THEN e ELSE q[n - 1]
    OBVIOUS
  <2>1. r[n] = IF n <= 1 THEN <<e>>[n] ELSE q[n - 1]
    BY <1>1, <1>2, ConcatProperties
  <2> QED
    BY <2>1
<1> HIDE DEF r
<1>5. Entries(r) \subseteq Entries(q) \cup {e}
  <2> SUFFICES ASSUME NEW n \in 1..Len(r), r[n] # e
               PROVE  \E m \in 1..Len(q) : q[m] = r[n]
    BY DEF Entries
  <2>1. n - 1 \in 1..Len(q) /\ r[n] = q[n - 1]
    BY <1>3, <1>4
  <2> QED
    BY <2>1
<1>6. e \in Entries(r)
  <2>1. 1 \in 1..Len(r) /\ r[1] = e
    BY <1>3, <1>4
  <2> QED
    BY <2>1 DEF Entries
<1>7. Entries(q) \subseteq Entries(r)
  <2> SUFFICES ASSUME NEW m \in 1..Len(q)
               PROVE  \E n \in 1..Len(r) : r[n] = q[m]
    BY DEF Entries
  <2>1. m + 1 \in 1..Len(r) /\ r[m + 1] = q[(m + 1) - 1]
    BY <1>3, <1>4
  <2> QED
    BY <2>1
<1>8. ASSUME Once(q), e \notin Entries(q) PROVE Once(r)
  <2> SUFFICES ASSUME NEW m \in 1..Len(r), NEW n \in 1..Len(r), m < n
               PROVE  r[m] # r[n]
    BY DEF Once
  <2>1. n - 1 \in 1..Len(q) /\ r[n] = q[n - 1]
    BY <1>3, <1>4
  <2>2. CASE m = 1
    BY <1>3, <1>4, <1>8, <2>1, <2>2 DEF Entries
  <2>3. CASE m # 1
    <3>1. m - 1 \in 1..Len(q) /\ r[m] = q[m - 1] /\ m - 1 # n - 1
      BY <1>3, <1>4, <2>3
    <3> QED
      BY <1>8, <2>1, <3>1 DEF Once
  <2> QED
    BY <2>2, <2>3
<1> QED
  BY <1>5, <1>6, <1>7, <1>8 DEF r

(***************************************************************************)
(* Lemmas about the requests under way                                     *)
(***************************************************************************)

\* The types of what the proofs below refer to.
LEMMA Types ==
  ASSUME IInv
  PROVE  /\ file \in [Files -> NodeFile] /\ lru \in Seq(Files)
         /\ hash \in [Ids -> Files \cup {NoFile}]
         /\ pc \in [Actors -> PCs] /\ job \in [Threads -> Job]
         /\ queue \in Seq(Job) /\ maint.it \in Nat
         /\ Client \in Actors /\ Client \notin Threads /\ Threads \subseteq Actors
         /\ NoFile \notin Files
BY ConstantsAssumption DEF IInv, TypeOK, Actors

LEMMA PendingWhere ==
  /\ \A n \in 1..Len(queue) : queue[n] \in Pending
  /\ \A t \in Threads : pc[t] \in Working => job[t] \in Pending
  /\ \A j \in Pending : \/ \E n \in 1..Len(queue) : j = queue[n]
                        \/ \E t \in Threads : pc[t] \in Working /\ j = job[t]
BY DEF Pending, Working

\* Requests stay as they are while no thread takes, answers or adds one.
LEMMA RequestsStill ==
  ASSUME JobInv, OneJob, queue' = queue,
         \A t \in Threads : /\ pc'[t] \in Working <=> pc[t] \in Working
                            /\ pc[t] \in Working => job'[t] = job[t]
                            /\ Fits(pc'[t], job'[t])
  PROVE  Pending' = Pending /\ Flushing' = Flushing /\ JobInv' /\ OneJob'
<1>1. Pending' = Pending
  BY DEF Pending, Working
<1>2. Flushing' = Flushing
  BY <1>1 DEF Flushing
<1>3. JobInv'
  BY <1>1 DEF JobInv
<1>4. OneJob'
  BY DEF OneJob
<1> QED
  BY <1>1, <1>2, <1>3, <1>4

\* A request is added for a file that has none of its kind.
LEMMA RequestAdded ==
  ASSUME JobInv, OneJob, NEW j \in Job, queue \in Seq(Job), j.file \in Files,
         queue' = Append(queue, j), job' = job,
         \A t \in Threads : pc'[t] = pc[t],
         \A k \in Pending : ~Alike(k, j)
  PROVE  /\ Pending' = Pending \cup {j} /\ JobInv' /\ OneJob'
         /\ Flushing' = IF j.op = "flush" THEN Flushing \cup {j.file} ELSE Flushing
<1>1. /\ Len(queue') = Len(queue) + 1 /\ Len(queue) \in Nat
      /\ \A n \in 1..Len(queue) : queue'[n] = queue[n]
      /\ queue'[Len(queue) + 1] = j
  BY AppendProperties, LenProperties
<1>2. Pending' = Pending \cup {j}
  <2>1. {queue'[n] : n \in 1..Len(queue')} = {queue[n] : n \in 1..Len(queue)} \cup {j}
    <3> DEFINE A == {queue'[n] : n \in 1..Len(queue')}
               B == {queue[n] : n \in 1..Len(queue)}
    <3>1. ASSUME NEW x \in A PROVE x \in B \cup {j}
      <4>1. PICK n \in 1..Len(queue') : x = queue'[n]
        BY <3>1
      <4>2. CASE n = Len(queue) + 1
        BY <1>1, <4>1, <4>2
      <4>3. CASE n # Len(queue) + 1
        <5>1. n \in 1..Len(queue) /\ x = queue[n]
          BY <1>1, <4>1, <4>3
        <5> QED
          BY <5>1
      <4> QED
        BY <4>2, <4>3
    <3>2. ASSUME NEW x \in B PROVE x \in A
      <4>1. PICK n \in 1..Len(queue) : x = queue[n]
        BY <3>2
      <4>2. n \in 1..Len(queue') /\ x = queue'[n]
        BY <1>1, <4>1
      <4> QED
        BY <4>2
    <3>3. j \in A
      <4>1. Len(queue) + 1 \in 1..Len(queue')
        BY <1>1
      <4> QED
        BY <1>1, <4>1
    <3> HIDE DEF A, B
    <3>4. A = B \cup {j}
      BY <3>1, <3>2, <3>3
    <3> QED
      BY <3>4 DEF A, B
  <2> QED
    BY <2>1 DEF Pending
<1>3. JobInv'
  BY <1>2 DEF JobInv
<1>4. OneJob'
  <2>1. ASSUME NEW m \in 1..Len(queue'), NEW n \in 1..Len(queue'), m < n
        PROVE  ~Alike(queue'[m], queue'[n])
    <3>1. m \in 1..Len(queue) /\ queue'[m] = queue[m]
      BY <1>1, <2>1
    <3>2. CASE n = Len(queue) + 1
      BY <1>1, <3>1, <3>2, PendingWhere
    <3>3. CASE n # Len(queue) + 1
      <4>1. n \in 1..Len(queue) /\ queue'[n] = queue[n] /\ m # n
        BY <1>1, <2>1, <3>3
      <4> QED
        BY <3>1, <4>1 DEF OneJob
    <3> QED
      BY <3>2, <3>3
  <2>2. \A m, n \in 1..Len(queue') : m # n => ~Alike(queue'[m], queue'[n])
    <3> SUFFICES ASSUME NEW m \in 1..Len(queue'), NEW n \in 1..Len(queue'), m # n
                 PROVE  ~Alike(queue'[m], queue'[n])
      OBVIOUS
    <3>1. m < n \/ n < m
      BY <1>1
    <3>2. Alike(queue'[m], queue'[n]) <=> Alike(queue'[n], queue'[m])
      BY DEF Alike
    <3> QED
      BY <2>1, <3>1, <3>2
  <2>3. ASSUME NEW n \in 1..Len(queue'), NEW t \in Threads, pc'[t] \in Working
        PROVE  ~Alike(queue'[n], job'[t])
    <3>1. CASE n = Len(queue) + 1
      <4>1. job[t] \in Pending /\ ~Alike(job[t], j)
        BY <2>3, PendingWhere
      <4> QED
        BY <1>1, <3>1, <4>1 DEF Alike
    <3>2. CASE n # Len(queue) + 1
      <4>1. n \in 1..Len(queue) /\ queue'[n] = queue[n]
        BY <1>1, <3>2
      <4> QED
        BY <2>3, <4>1 DEF OneJob
    <3> QED
      BY <3>1, <3>2
  <2>4. \A t, u \in Threads :
          t # u /\ pc'[t] \in Working /\ pc'[u] \in Working
            => ~Alike(job'[t], job'[u])
    BY DEF OneJob
  <2> QED
    BY <2>2, <2>3, <2>4 DEF OneJob
<1>5. Flushing' = IF j.op = "flush" THEN Flushing \cup {j.file} ELSE Flushing
  BY <1>2 DEF Flushing
<1> QED
  BY <1>2, <1>3, <1>4, <1>5

\* A request is answered: its callback runs, and it is no longer pending.
LEMMA RequestAnswered ==
  ASSUME JobInv, OneJob, NEW t \in Threads, pc[t] \in Working,
         queue' = queue, pc'[t] \notin Working,
         \A u \in Threads : u # t => pc'[u] = pc[u] /\ job'[u] = job[u]
  PROVE  /\ Pending = Pending' \cup {job[t]} /\ JobInv' /\ OneJob'
         /\ \A k \in Pending' : k \in Pending /\ ~Alike(k, job[t])
         /\ Flushing' = IF job[t].op = "flush" THEN Flushing \ {job[t].file}
                                               ELSE Flushing
<1>1. /\ \A n \in 1..Len(queue') : queue'[n] \in Pending'
      /\ \A u \in Threads : pc'[u] \in Working => job'[u] \in Pending'
      /\ \A j \in Pending' :
            \/ \E n \in 1..Len(queue') : j = queue'[n]
            \/ \E u \in Threads : pc'[u] \in Working /\ j = job'[u]
  BY DEF Pending, Working
<1>2. ASSUME NEW k \in Pending' PROVE k \in Pending /\ ~Alike(k, job[t])
  <2>1. CASE \E n \in 1..Len(queue) : k = queue[n]
    BY <2>1, PendingWhere DEF OneJob
  <2>2. CASE \E u \in Threads : pc'[u] \in Working /\ k = job'[u]
    <3>1. PICK u \in Threads : pc'[u] \in Working /\ k = job'[u]
      BY <2>2
    <3>2. u # t /\ pc[u] \in Working /\ k = job[u]
      BY <3>1
    <3> QED
      BY <3>2, PendingWhere DEF OneJob
  <2> QED
    BY <1>1, <2>1, <2>2
<1>3. ASSUME NEW k \in Pending PROVE k \in Pending' \cup {job[t]}
  <2>1. CASE \E n \in 1..Len(queue) : k = queue[n]
    BY <1>1, <2>1
  <2>2. CASE \E u \in Threads : pc[u] \in Working /\ k = job[u]
    BY <1>1, <2>2
  <2> QED
    BY <2>1, <2>2, PendingWhere
<1>4. job[t] \in Pending
  BY PendingWhere
<1>5. Pending = Pending' \cup {job[t]}
  BY <1>2, <1>3, <1>4
<1>6. JobInv'
  <2>1. \A j \in Pending' : j.file \in Files
    BY <1>2 DEF JobInv
  <2>2. \A u \in Threads : Fits(pc'[u], job'[u])
    BY DEF JobInv, Fits, Working
  <2> QED
    BY <2>1, <2>2 DEF JobInv
<1>7. OneJob'
  BY DEF OneJob
<1>8. Flushing' = IF job[t].op = "flush" THEN Flushing \ {job[t].file}
                                         ELSE Flushing
  <2>1. CASE job[t].op = "flush"
    <3>1. \A k \in Pending' : k.op = "flush" => k.file # job[t].file
      BY <1>2, <2>1 DEF Alike
    <3>2. Flushing' \subseteq Flushing \ {job[t].file}
      BY <1>2, <3>1 DEF Flushing
    <3>3. Flushing \ {job[t].file} \subseteq Flushing'
      BY <1>3 DEF Flushing
    <3> QED
      BY <2>1, <3>2, <3>3
  <2>2. CASE job[t].op # "flush"
    BY <1>5, <2>2 DEF Flushing
  <2> QED
    BY <2>1, <2>2
<1> QED
  BY <1>2, <1>5, <1>6, <1>7, <1>8

(***************************************************************************)
(* Steps that leave the requests and the list alone                        *)
(***************************************************************************)

\* A step that takes, answers and adds no request, and moves, allocates and
\* deletes no file.
LEMMA Quiet ==
  ASSUME IInv, QInv, queue' = queue, lru' = lru, remaining' = remaining,
         \A t \in Threads :
            /\ pc'[t] \in Working <=> pc[t] \in Working
            /\ pc[t] \in Working => job'[t] = job[t]
            /\ Fits(pc'[t], job'[t]),
         \A f \in Files : /\ file'[f].id = file[f].id
                          /\ file'[f].state = file[f].state,
         pc'[Client] = "push" => pc[Client] = "push" /\ Current' = Current,
         pc[Client] = "flush" => pc'[Client] = "flush" /\ maint' = maint
  PROVE  QInv' /\ Pending' = Pending
<1>1. JobInv' /\ OneJob' /\ Pending' = Pending /\ Flushing' = Flushing
  BY RequestsStill DEF QInv
<1>2. CallbackTargetsLive'
  BY <1>1 DEF QInv, CallbackTargetsLive, JobInv
<1>3. ListInv'
  <2>1. \A f \in Entries(lru) : f \in Files
    BY Types DEF Entries
  <2> QED
    BY <2>1 DEF QInv, ListInv, Once, Entries
<1>4. FlushInv'
  BY <1>1 DEF QInv, FlushInv
<1> QED
  BY <1>1, <1>2, <1>3, <1>4 DEF QInv

\* The client moves on, and touches the users and the contents of a file only.
LEMMA ClientQuiet ==
  ASSUME IInv, QInv, queue' = queue, lru' = lru, remaining' = remaining,
         job' = job, NEW p, Goto(Client, p), p # "push", pc[Client] # "flush",
         \A f \in Files : /\ file'[f].id = file[f].id
                          /\ file'[f].state = file[f].state
  PROVE  QInv' /\ Pending' = Pending
<1>1. pc'[Client] = p /\ \A t \in Threads : pc'[t] = pc[t]
  BY Types DEF Goto
<1>2. \A t \in Threads : Fits(pc'[t], job'[t])
  BY <1>1 DEF QInv, JobInv
<1> QED
  BY <1>1, <1>2, Quiet

\* A thread that works on no request moves on.
LEMMA ThreadQuiet ==
  ASSUME IInv, QInv, queue' = queue, lru' = lru, remaining' = remaining,
         file' = file, cl' = cl, NEW t \in Threads, NEW p, Goto(t, p),
         pc[t] \notin Working, p \notin Working,
         pc[Client] = "flush" => maint' = maint,
         \A u \in Threads : u # t => job'[u] = job[u]
  PROVE  QInv' /\ Pending' = Pending
<1>1. pc'[Client] = pc[Client] /\ pc'[t] = p
      /\ \A u \in Threads : u # t => pc'[u] = pc[u]
  BY Types DEF Goto
<1>2. Current' = Current
  BY DEF Current
<1>3. \A u \in Threads : Fits(pc'[u], job'[u])
  BY <1>1 DEF QInv, JobInv, Fits, Working
<1> QED
  BY <1>1, <1>2, <1>3, Quiet

LEMMA GetRootQuiet ==
  ASSUME IInv, QInv, NEW h \in Handles, GetRoot(h)
  PROVE  QInv' /\ Pending' = Pending
BY ClientQuiet DEF GetRoot, BeginCall, At, treeVars, storageVars

LEMMA GetChildNodeQuiet ==
  ASSUME IInv, QInv, NEW p \in Handles, NEW i \in Ids, NEW s \in Shorts,
         NEW h \in Handles, GetChildNode(p, i, s, h)
  PROVE  QInv' /\ Pending' = Pending
BY ClientQuiet DEF GetChildNode, BeginCall, At, treeVars, storageVars

LEMMA CreateChildNodeQuiet ==
  ASSUME IInv, QInv, NEW p \in Handles, NEW i \in Ids, NEW s \in Shorts,
         NEW h \in Handles, CreateChildNode(p, i, s, h)
  PROVE  QInv' /\ Pending' = Pending
BY ClientQuiet DEF CreateChildNode, BeginCall, At, treeVars, storageVars

\* A change of one file that keeps its id and its state.
LEMMA SameFiles ==
  ASSUME IInv, NEW g, NEW nf, file' = [file EXCEPT ![g] = nf],
         g \in Files => nf.id = file[g].id /\ nf.state = file[g].state
  PROVE  \A f \in Files : /\ file'[f].id = file[f].id
                          /\ file'[f].state = file[f].state
BY Types

LEMMA ModifyNodeQuiet ==
  ASSUME IInv, QInv, NEW h \in Handles, ModifyNode(h)
  PROVE  QInv' /\ Pending' = Pending
<1> DEFINE g == handles[h].file
           nf == [file[g] EXCEPT !.nodes[handles[h].short] = version']
<1>1. file' = [file EXCEPT ![g] = nf]
  BY DEF ModifyNode
<1>2. g \in Files => nf.id = file[g].id /\ nf.state = file[g].state
  BY Types DEF NodeFile
<1> HIDE DEF g, nf
<1>3. \A f \in Files : file'[f].id = file[f].id /\ file'[f].state = file[f].state
  BY <1>1, <1>2, SameFiles
<1>4. pc' = pc /\ pc[Client] = "idle"
  BY DEF ModifyNode, At
<1>5. \A t \in Threads : Fits(pc'[t], job'[t])
  BY <1>4 DEF QInv, JobInv, ModifyNode, storageVars
<1> QED
  BY <1>3, <1>4, <1>5, Quiet DEF ModifyNode, storageVars

LEMMA ReleaseNodeQuiet ==
  ASSUME IInv, QInv, NEW h \in Handles, ReleaseNode(h)
  PROVE  QInv' /\ Pending' = Pending
<1> DEFINE g == handles[h].file
           nf == Released(file[g], handles[h].modified)
<1>1. file' = [file EXCEPT ![g] = nf]
  BY DEF ReleaseNode
<1>2. g \in Files => nf.id = file[g].id /\ nf.state = file[g].state
  BY Types DEF NodeFile, Released
<1> HIDE DEF g, nf
<1>3. \A f \in Files : file'[f].id = file[f].id /\ file'[f].state = file[f].state
  BY <1>1, <1>2, SameFiles
<1> QED
  BY <1>3, ClientQuiet DEF ReleaseNode, At, storageVars

LEMMA UnlockQuiet ==
  ASSUME IInv, QInv, Unlock PROVE QInv' /\ Pending' = Pending
BY ClientQuiet DEF Unlock, At, treeVars, storageVars

LEMMA ReadNodeQuiet ==
  ASSUME IInv, QInv, ReadNode PROVE QInv' /\ Pending' = Pending
<1> DEFINE g == cl.file
           nf == [file[g] EXCEPT !.users = @ - 1]
           mf == [file[g] EXCEPT !.nodes[cl.short] =
                    IF file[g].nodes[cl.short] = Absent THEN 0 ELSE @]
<1>1. file' = [file EXCEPT ![g] = nf] \/ file' = [file EXCEPT ![g] = mf]
  BY DEF ReadNode
<1>2. g \in Files => /\ nf.id = file[g].id /\ nf.state = file[g].state
                     /\ mf.id = file[g].id /\ mf.state = file[g].state
  BY Types DEF NodeFile
<1> HIDE DEF g, nf, mf
<1>3. \A f \in Files : file'[f].id = file[f].id /\ file'[f].state = file[f].state
  BY <1>1, <1>2, SameFiles
<1> QED
  BY <1>3, ClientQuiet DEF ReadNode, At, storageVars

LEMMA ParentHasFileQuiet ==
  ASSUME IInv, QInv, ParentHasFile PROVE QInv' /\ Pending' = Pending
BY ClientQuiet DEF ParentHasFile, At, treeVars, storageVars

LEMMA LinkParentQuiet ==
  ASSUME IInv, QInv, LinkParent PROVE QInv' /\ Pending' = Pending
<1> DEFINE g == cl.pfile
           mf == IF cl.stage = "created" THEN WithChildFile(file[g], cl.id)
                                         ELSE file[g]
           nf == [mf EXCEPT !.users = @ - 1,
                            !.nodes[handles[cl.from].short] = version']
<1>1. file' = [file EXCEPT ![g] = nf]
  BY DEF LinkParent
<1>2. g \in Files => nf.id = file[g].id /\ nf.state = file[g].state
  BY Types DEF NodeFile, WithChildFile
<1> HIDE DEF g, nf
<1>3. \A f \in Files : file'[f].id = file[f].id /\ file'[f].state = file[f].state
  BY <1>1, <1>2, SameFiles
<1> QED
  BY <1>3, ClientQuiet DEF LinkParent, At, storageVars

LEMMA CreateNodeQuiet ==
  ASSUME IInv, QInv, CreateNode PROVE QInv' /\ Pending' = Pending
<1> DEFINE g == cl.file
           nf == WithNewNode(file[g], cl.short)
<1>1. file' = [file EXCEPT ![g] = nf]
  BY DEF CreateNode
<1>2. g \in Files => nf.id = file[g].id /\ nf.state = file[g].state
  BY Types DEF NodeFile, WithNewNode
<1> HIDE DEF g, nf
<1>3. \A f \in Files : file'[f].id = file[f].id /\ file'[f].state = file[f].state
  BY <1>1, <1>2, SameFiles
<1> QED
  BY <1>3, ClientQuiet DEF CreateNode, At, storageVars

LEMMA CreateNodeStoreQuiet ==
  ASSUME IInv, QInv, CreateNodeStore PROVE QInv' /\ Pending' = Pending
BY ClientQuiet DEF CreateNodeStore, At, storageVars

LEMMA DropFileQuiet ==
  ASSUME IInv, QInv, DropFile PROVE QInv' /\ Pending' = Pending
<1> DEFINE g == cl.file
           nf == [file[g] EXCEPT !.users = @ - 1]
<1>1. file' = [file EXCEPT ![g] = nf]
  BY DEF DropFile
<1>2. g \in Files => nf.id = file[g].id /\ nf.state = file[g].state
  BY Types DEF NodeFile
<1> HIDE DEF g, nf
<1>3. \A f \in Files : file'[f].id = file[f].id /\ file'[f].state = file[f].state
  BY <1>1, <1>2, SameFiles
<1> QED
  BY <1>3, ClientQuiet DEF DropFile, At, storageVars

LEMMA DestroyFileStoreQuiet ==
  ASSUME IInv, QInv, DestroyFileStore PROVE QInv' /\ Pending' = Pending
BY ClientQuiet DEF DestroyFileStore, At, storageVars

LEMMA DestroyEndQuiet ==
  ASSUME IInv, QInv, DestroyEnd PROVE QInv' /\ Pending' = Pending
BY ClientQuiet DEF DestroyEnd, At, treeVars, storageVars

\* flushCache holds file_cache_mutex, so no scan is under way beside it.
LEMMA ScanNoFlush ==
  ASSUME IInv, NEW x \in Actors, pc[x] \in {"scan", "scandec"}
  PROVE  pc[Client] # "flush"
BY Types DEF IInv, LockInv

LEMMA MaintBeginQuiet ==
  ASSUME IInv, QInv, NEW x \in Actors, MaintBegin(x)
  PROVE  QInv' /\ Pending' = Pending
<1>1. pc[Client] # "flush"
  BY MutexFree, Types DEF MaintBegin
<1>2. CASE x = Client
  BY <1>1, <1>2, ClientQuiet DEF MaintBegin, At, treeVars, storageVars
<1>3. CASE x \in Threads
  BY <1>1, <1>3, ThreadQuiet
     DEF MaintBegin, At, treeVars, storageVars, clientVars, Working
<1> QED
  BY <1>2, <1>3 DEF Actors

LEMMA MaintSkipQuiet ==
  ASSUME IInv, QInv, NEW x \in Actors, MaintSkip(x)
  PROVE  QInv' /\ Pending' = Pending
<1>1. pc[Client] # "flush"
  BY ScanNoFlush DEF MaintSkip, Scanning, At
<1>2. \A t \in Threads : Fits(pc'[t], job'[t])
  BY DEF QInv, JobInv, MaintSkip, storageVars
<1> QED
  BY <1>1, <1>2, Quiet DEF MaintSkip, treeVars, storageVars, clientVars, Current

LEMMA MaintDeleteStoreQuiet ==
  ASSUME IInv, QInv, NEW x \in Actors, MaintDeleteStore(x)
  PROVE  QInv' /\ Pending' = Pending
<1>1. pc[Client] # "flush"
  BY ScanNoFlush DEF MaintDeleteStore, At
<1>2. CASE x = Client
  BY <1>1, <1>2, ClientQuiet DEF MaintDeleteStore, At, storageVars
<1>3. CASE x \in Threads
  BY <1>1, <1>3, ThreadQuiet
     DEF MaintDeleteStore, At, storageVars, clientVars, Working
<1> QED
  BY <1>2, <1>3 DEF Actors

LEMMA MaintEndQuiet ==
  ASSUME IInv, QInv, NEW x \in Actors, MaintEnd(x)
  PROVE  QInv' /\ Pending' = Pending
<1>1. pc[Client] # "flush"
  BY ScanNoFlush DEF MaintEnd, At
<1>2. CASE x = Client
  BY <1>1, <1>2, ClientQuiet DEF MaintEnd, At, treeVars
<1>3. CASE x \in Threads
  <2>1. x # Client /\ \A u \in Threads : u # x => job'[u] = job[u]
    BY <1>3, Types DEF MaintEnd
  <2> QED
    BY <1>1, <1>3, <2>1, ThreadQuiet
       DEF MaintEnd, At, treeVars, clientVars, Working
<1> QED
  BY <1>2, <1>3 DEF Actors

LEMMA ReadNodeFileCbLoadQuiet ==
  ASSUME IInv, QInv, NEW t \in Threads, ReadNodeFileCbLoad(t)
  PROVE  QInv' /\ Pending' = Pending
BY ThreadQuiet
   DEF ReadNodeFileCbLoad, At, treeVars, storageVars, clientVars, Working

LEMMA ReadNodeFileCbStoreQuiet ==
  ASSUME IInv, QInv, NEW t \in Threads, ReadNodeFileCbStore(t)
  PROVE  QInv' /\ Pending' = Pending
BY ThreadQuiet DEF ReadNodeFileCbStore, At, storageVars, clientVars, Working

LEMMA EvictNodeFileCbStoreQuiet ==
  ASSUME IInv, QInv, NEW t \in Threads, EvictNodeFileCbStore(t)
  PROVE  QInv' /\ Pending' = Pending
<1>1. \A u \in Threads : u # t => job'[u] = job[u]
  BY Types DEF EvictNodeFileCbStore
<1> QED
  BY <1>1, ThreadQuiet DEF EvictNodeFileCbStore, At, clientVars, Working

(***************************************************************************)
(* The storage threads                                                     *)
(***************************************************************************)

LEMMA TakeJobKeeps ==
  ASSUME IInv, QInv, NEW t \in Threads, TakeJob(t)
  PROVE  QInv' /\ Pending' = Pending
<1> DEFINE N == Len(queue)
<1>0. /\ queue \in Seq(Job) /\ queue # << >> /\ pc[t] = "idle"
      /\ job' = [job EXCEPT ![t] = Head(queue)] /\ queue' = Tail(queue)
      /\ pc' = [pc EXCEPT ![t] = "io"]
      /\ UNCHANGED <<file, lru, maint, cl, remaining>>
  BY Types DEF TakeJob, At, Goto, treeVars, clientVars
<1>1. /\ pc'[t] = "io" /\ pc'[Client] = pc[Client]
      /\ \A u \in Threads : u # t => pc'[u] = pc[u] /\ job'[u] = job[u]
  BY <1>0, Types
<1>2. /\ N \in Nat /\ N > 0 /\ job'[t] = queue[1] /\ Len(queue') = N - 1
      /\ \A n \in 1..(N - 1) : queue'[n] = queue[n + 1]
  BY <1>0, Types, HeadTailProperties, LenProperties, EmptySeq
<1> HIDE DEF N
<1>3. /\ pc[t] \notin Working /\ pc'[t] \in Working
      /\ Fits(pc'[t], job'[t])
  BY <1>0, <1>1 DEF Working, Fits
<1>4. /\ \A n \in 1..Len(queue') : queue'[n] \in Pending'
      /\ \A u \in Threads : pc'[u] \in Working => job'[u] \in Pending'
      /\ \A j \in Pending' :
            \/ \E n \in 1..Len(queue') : j = queue'[n]
            \/ \E u \in Threads : pc'[u] \in Working /\ j = job'[u]
  BY DEF Pending, Working
<1>5. ASSUME NEW n \in 1..(N - 1)
      PROVE  n + 1 \in 1..Len(queue) /\ queue'[n] = queue[n + 1] /\ n + 1 # 1
  BY <1>2 DEF N
<1>6. 1 \in 1..Len(queue)
  BY <1>2 DEF N
<1>7. ASSUME NEW j \in Pending' PROVE j \in Pending
  <2>1. CASE \E n \in 1..Len(queue') : j = queue'[n]
    BY <2>1, <1>2, <1>5, PendingWhere
  <2>2. CASE \E u \in Threads : pc'[u] \in Working /\ j = job'[u]
    <3>1. PICK u \in Threads : pc'[u] \in Working /\ j = job'[u]
      BY <2>2
    <3>2. CASE u = t
      BY <3>1, <3>2, <1>2, <1>6, PendingWhere
    <3>3. CASE u # t
      BY <3>1, <3>3, <1>1, PendingWhere
    <3> QED
      BY <3>2, <3>3
  <2> QED
    BY <1>4, <2>1, <2>2
<1>8. ASSUME NEW j \in Pending PROVE j \in Pending'
  <2>1. CASE \E n \in 1..Len(queue) : j = queue[n]
    <3>1. PICK n \in 1..Len(queue) : j = queue[n]
      BY <2>1
    <3>2. CASE n = 1
      BY <3>1, <3>2, <1>2, <1>3, <1>4
    <3>3. CASE n # 1
      <4>1. n - 1 \in 1..(N - 1) /\ (n - 1) + 1 = n
        BY <3>3, <1>2 DEF N
      <4>2. queue'[n - 1] = j
        BY <3>1, <4>1, <1>2
      <4> QED
        BY <4>1, <4>2, <1>2, <1>4
    <3> QED
      BY <3>2, <3>3
  <2>2. CASE \E u \in Threads : pc[u] \in Working /\ j = job[u]
    BY <2>2, <1>1, <1>3, <1>4
  <2> QED
    BY <2>1, <2>2, PendingWhere
<1>9. Pending' = Pending
  BY <1>7, <1>8
<1>10. JobInv'
  <2>1. \A u \in Threads : Fits(pc'[u], job'[u])
    BY <1>1, <1>3 DEF QInv, JobInv
  <2> QED
    BY <1>9, <2>1 DEF QInv, JobInv
<1>11. OneJob'
  <2>1. \A m, n \in 1..Len(queue') : m # n => ~Alike(queue'[m], queue'[n])
    <3> SUFFICES ASSUME NEW m \in 1..(N - 1), NEW n \in 1..(N - 1), m # n
                 PROVE  ~Alike(queue'[m], queue'[n])
      BY <1>2
    <3>1. m + 1 # n + 1
      BY <1>2
    <3> QED
      BY <3>1, <1>5 DEF QInv, OneJob
  <2>2. \A n \in 1..Len(queue'), u \in Threads :
          pc'[u] \in Working => ~Alike(queue'[n], job'[u])
    <3> SUFFICES ASSUME NEW n \in 1..(N - 1), NEW u \in Threads,
                        pc'[u] \in Working
                 PROVE  ~Alike(queue'[n], job'[u])
      BY <1>2
    <3>1. CASE u = t
      BY <3>1, <1>2, <1>5, <1>6 DEF QInv, OneJob
    <3>2. CASE u # t
      BY <3>2, <1>1, <1>5 DEF QInv, OneJob
    <3> QED
      BY <3>1, <3>2
  <2>3. ASSUME NEW u \in Threads, NEW v \in Threads, u # v,
               pc'[u] \in Working, pc'[v] \in Working
        PROVE  ~Alike(job'[u], job'[v])
    <3>1. CASE u = t
      BY <3>1, <2>3, <1>1, <1>2, <1>6 DEF QInv, OneJob
    <3>2. CASE v = t
      <4>1. ~Alike(queue[1], job[u])
        BY <3>2, <2>3, <1>1, <1>6 DEF QInv, OneJob
      <4> QED
        BY <4>1, <3>2, <2>3, <1>1, <1>2 DEF Alike
    <3>3. CASE u # t /\ v # t
      BY <3>3, <2>3, <1>1 DEF QInv, OneJob
    <3> QED
      BY <3>1, <3>2, <3>3
  <2> QED
    BY <2>1, <2>2, <2>3 DEF OneJob
<1>12. CallbackTargetsLive'
  BY <1>0, <1>9 DEF QInv, CallbackTargetsLive
<1>13. ListInv'
  BY <1>0, <1>1 DEF QInv, ListInv, Current
<1>14. FlushInv'
  <2>1. Flushing' = Flushing
    BY <1>9 DEF Flushing
  <2> QED
    BY <2>1, <1>0, <1>1 DEF QInv, FlushInv
<1> QED
  BY <1>9, <1>10, <1>11, <1>12, <1>13, <1>14 DEF QInv

\* get() fills in the contents, and changes no other part of the request.
LEMMA StorageGetKeeps ==
  ASSUME IInv, QInv, NEW t \in Threads, StorageGet(t)
  PROVE  /\ QInv' /\ Flushing' = Flushing
         /\ \A j \in Pending' : j \in Pending
                                \/ (j = job'[t] /\ job[t] \in Pending)
         /\ \A j \in Pending : j \in Pending' \/ j = job[t]
         /\ job'[t] \in Pending' /\ job[t] \in Pending
<1>0. /\ pc[t] = "io" /\ job[t].op = "read" /\ pc'[t] = "readcb"
      /\ pc'[Client] = pc[Client]
      /\ \A u \in Threads : u # t => pc'[u] = pc[u] /\ job'[u] = job[u]
      /\ UNCHANGED <<file, lru, maint, cl, remaining, queue>>
  BY Types DEF StorageGet, At, Goto, treeVars, clientVars
<1>1. job'[t].op = job[t].op /\ job'[t].file = job[t].file /\ job'[t].id = job[t].id
  <2> DEFINE j == [job[t] EXCEPT !.data = store[job[t].id]]
  <2>1. job' = job \/ job' = [job EXCEPT ![t] = j]
    BY DEF StorageGet
  <2>2. job[t] \in Job
    BY Types
  <2>3. j.op = job[t].op /\ j.file = job[t].file /\ j.id = job[t].id
    BY <2>2 DEF Job
  <2> HIDE DEF j
  <2> QED
    BY <2>1, <2>3, Types
<1>2. pc[t] \in Working /\ pc'[t] \in Working /\ Fits(pc'[t], job'[t])
  BY <1>0, <1>1 DEF Working, Fits
<1>3. /\ \A n \in 1..Len(queue) : queue[n] \in Pending'
      /\ \A u \in Threads : pc'[u] \in Working => job'[u] \in Pending'
      /\ \A j \in Pending' :
            \/ \E n \in 1..Len(queue) : j = queue[n]
            \/ \E u \in Threads : pc'[u] \in Working /\ j = job'[u]
  BY <1>0 DEF Pending, Working
<1>4. job'[t] \in Pending' /\ job[t] \in Pending
  BY <1>2, <1>3, PendingWhere
<1>5. \A j \in Pending' : j \in Pending \/ j = job'[t]
  BY <1>0, <1>3, PendingWhere
<1>6. \A j \in Pending : j \in Pending' \/ j = job[t]
  BY <1>0, <1>3, PendingWhere
<1>7. JobInv'
  <2>1. \A j \in Pending' : j.file \in Files
    BY <1>1, <1>4, <1>5 DEF QInv, JobInv
  <2>2. \A u \in Threads : Fits(pc'[u], job'[u])
    BY <1>0, <1>2 DEF QInv, JobInv
  <2> QED
    BY <2>1, <2>2 DEF JobInv
<1>8. OneJob'
  <2>1. \A u \in Threads : /\ pc'[u] \in Working <=> pc[u] \in Working
                           /\ job'[u].op = job[u].op
                           /\ job'[u].file = job[u].file
    BY <1>0, <1>1, <1>2
  <2> QED
    BY <1>0, <2>1 DEF QInv, OneJob, Alike
<1>9. CallbackTargetsLive'
  <2> SUFFICES ASSUME NEW j \in Pending'
               PROVE  /\ file[j.file].id = j.id
                      /\ j.op = "read"  => file[j.file].state = "LOADING"
                      /\ j.op = "evict" =>
                           file[j.file].state \in {"EVICTING", "LOADING"}
                      /\ j.op = "flush" =>
                           file[j.file].state \in {"EVICTING", "LOADED"}
    BY <1>0 DEF CallbackTargetsLive
  <2>1. PICK k \in Pending : j.op = k.op /\ j.file = k.file /\ j.id = k.id
    BY <1>1, <1>4, <1>5
  <2> QED
    BY <2>1 DEF QInv, CallbackTargetsLive
<1>10. ListInv'
  BY <1>0 DEF QInv, ListInv, Current
<1>11. Flushing' = Flushing
  <2>1. \A j \in Pending' : j.op = "flush" => j \in Pending
    BY <1>0, <1>1, <1>5
  <2>2. \A j \in Pending : j.op = "flush" => j \in Pending'
    BY <1>0, <1>6
  <2> QED
    BY <2>1, <2>2 DEF Flushing
<1>12. FlushInv'
  BY <1>0, <1>11 DEF QInv, FlushInv
<1> QED
  BY <1>4, <1>5, <1>6, <1>7, <1>8, <1>9, <1>10, <1>11, <1>12 DEF QInv

LEMMA StoragePutKeeps ==
  ASSUME IInv, QInv, NEW t \in Threads, StoragePut(t)
  PROVE  QInv' /\ Pending' = Pending
<1>0. /\ pc[t] = "io" /\ job[t].op # "read"
      /\ pc'[t] = IF job[t].op = "evict" THEN "evictcb" ELSE "flushcb"
      /\ pc'[Client] = pc[Client]
      /\ \A u \in Threads : u # t => pc'[u] = pc[u]
      /\ UNCHANGED <<file, lru, maint, cl, remaining, queue, job>>
  BY Types DEF StoragePut, At, Goto, treeVars, clientVars
<1>1. job[t].op \in {"read", "evict", "flush"}
  BY Types DEF Job
<1>2. pc[t] \in Working /\ pc'[t] \in Working /\ Fits(pc'[t], job'[t])
  BY <1>0, <1>1 DEF Working, Fits
<1>3. \A u \in Threads : Fits(pc'[u], job'[u])
  BY <1>0, <1>2 DEF QInv, JobInv
<1>4. Current' = Current
  BY <1>0 DEF Current
<1> QED
  BY <1>0, <1>2, <1>3, <1>4, Quiet

LEMMA ReadNodeFileCbKeeps ==
  ASSUME IInv, QInv, NEW t \in Threads, ReadNodeFileCb(t)
  PROVE  QInv' /\ Flushing' = Flushing
<1> DEFINE g == job[t].file
           nf == Deserialized(file[g], job[t].data)
<1>0. /\ pc[t] = "readcb" /\ pc'[t] = "readcbLoad" /\ pc'[Client] = pc[Client]
      /\ \A u \in Threads : u # t => pc'[u] = pc[u]
      /\ file' = [file EXCEPT ![g] = nf]
      /\ UNCHANGED <<lru, maint, cl, remaining, queue, job>>
  BY Types DEF ReadNodeFileCb, At, Goto, storageVars, clientVars
<1>1. pc[t] \in Working /\ pc'[t] \notin Working /\ job[t].op = "read"
  BY <1>0 DEF Working, QInv, JobInv, Fits
<1>2. job[t] \in Pending /\ g \in Files /\ file[g] \in NodeFile
  BY <1>1, PendingWhere, Types DEF QInv, JobInv
<1>3. nf.id = file[g].id /\ nf.state = "LOADED"
  BY <1>2 DEF Deserialized, NodeFile
<1>4. /\ Pending = Pending' \cup {job[t]} /\ JobInv' /\ OneJob'
      /\ \A k \in Pending' : k \in Pending /\ ~Alike(k, job[t])
      /\ Flushing' = Flushing
  BY <1>0, <1>1, RequestAnswered DEF QInv
<1> HIDE DEF g, nf
<1>5. /\ \A f \in Files : file'[f].id = file[f].id
      /\ \A f \in Files : f # g => file'[f] = file[f]
      /\ file'[g].state = "LOADED"
  BY <1>0, <1>2, <1>3, Types
<1>6. file[g].state = "LOADING"
  BY <1>1, <1>2 DEF QInv, CallbackTargetsLive, g
<1>7. CallbackTargetsLive'
  <2> SUFFICES ASSUME NEW k \in Pending'
               PROVE  /\ file'[k.file].id = k.id
                      /\ k.op = "read"  => file'[k.file].state = "LOADING"
                      /\ k.op = "evict" =>
                           file'[k.file].state \in {"EVICTING", "LOADING"}
                      /\ k.op = "flush" =>
                           file'[k.file].state \in {"EVICTING", "LOADED"}
    BY DEF CallbackTargetsLive
  <2>1. k \in Pending /\ k.file \in Files /\ ~Alike(k, job[t])
    BY <1>4 DEF QInv, JobInv
  <2>2. k.file # g
    <3>1. k.op = "flush" => file[k.file].state # "LOADING"
      BY <2>1 DEF QInv, CallbackTargetsLive
    <3> QED
      BY <1>1, <1>6, <2>1, <3>1 DEF Alike, g
  <2> QED
    BY <1>5, <2>1, <2>2 DEF QInv, CallbackTargetsLive
<1>8. ListInv'
  <2>1. \A f \in Entries(lru) : f \in Files
    BY Types DEF Entries
  <2>2. \A f \in Files : file[f].state # "FREE" => file'[f].state # "FREE"
    BY <1>5
  <2> QED
    BY <1>0, <2>1, <2>2 DEF QInv, ListInv, Current
<1>9. FlushInv'
  BY <1>0, <1>4 DEF QInv, FlushInv
<1> QED
  BY <1>4, <1>7, <1>8, <1>9 DEF QInv

\* Without flushCache under way no flush is.
LEMMA NoFlushes ==
  ASSUME QInv, pc[Client] # "flush" PROVE Flushing = {}
BY DEF QInv, FlushInv

\* A callback runs, and leaves the files of the other requests as they are.
LEMMA AnsweredKeeps ==
  ASSUME IInv, QInv, JobInv', OneJob', lru' = lru, cl' = cl, maint' = maint,
         pc'[Client] = pc[Client],
         Flushing' = Flushing, remaining' = remaining,
         \A f \in Files : file[f].state # "FREE" => file'[f].state # "FREE",
         \A k \in Pending' : /\ k \in Pending
                             /\ file'[k.file].id = file[k.file].id
                             /\ file'[k.file].state = file[k.file].state
  PROVE  QInv'
<1>1. CallbackTargetsLive'
  BY DEF QInv, CallbackTargetsLive
<1>2. ListInv'
  <2>1. \A f \in Entries(lru) : f \in Files
    BY Types DEF Entries
  <2> QED
    BY <2>1 DEF QInv, ListInv, Current
<1>3. FlushInv'
  BY DEF QInv, FlushInv
<1> QED
  BY <1>1, <1>2, <1>3 DEF QInv

\* A file that no request under way is about is erased and deleted.
LEMMA DeletedKeeps ==
  ASSUME IInv, QInv, NEW g \in Files, file' = [file EXCEPT ![g] = Unallocated],
         lru' = RemoveFirst(lru, g), remaining' = remaining, cl' = cl,
         JobInv', OneJob', Flushing' = Flushing, pc[Client] # "flush",
         pc'[Client] = "push" => pc[Client] = "push",
         \A k \in Pending' : k \in Pending /\ k.file # g
  PROVE  QInv'
<1>1. \A f \in Files : f # g => file'[f] = file[f]
  BY Types
<1>2. CallbackTargetsLive'
  <2>1. \A k \in Pending' : k.file \in Files /\ file'[k.file] = file[k.file]
    BY <1>1 DEF QInv, JobInv
  <2> QED
    BY <2>1 DEF QInv, CallbackTargetsLive
<1>3. ListInv'
  <2>1. Once(lru') /\ Entries(lru') = Entries(lru) \ {g}
    BY RemoveOnce, Types DEF QInv, ListInv
  <2>2. \A f \in Entries(lru) : f \in Files
    BY Types DEF Entries
  <2> QED
    BY <1>1, <2>1, <2>2 DEF QInv, ListInv, Current
<1>4. FlushInv'
  <2>1. Flushing' = {}
    BY NoFlushes
  <2> QED
    BY <2>1 DEF QInv, FlushInv
<1> QED
  BY <1>2, <1>3, <1>4 DEF QInv

LEMMA EvictNodeFileCbKeeps ==
  ASSUME IInv, QInv, NEW t \in Threads, EvictNodeFileCb(t)
  PROVE  QInv' /\ Flushing' = Flushing
<1> DEFINE g == job[t].file
<1>0. /\ pc[t] = "evictcb" /\ pc'[t] = "evictcbStore" /\ pc'[Client] = pc[Client]
      /\ \A u \in Threads : u # t => pc'[u] = pc[u]
      /\ UNCHANGED <<maint, cl, remaining, queue, job>>
  BY Types DEF EvictNodeFileCb, At, Goto, storageVars, clientVars
<1>1. pc[t] \in Working /\ pc'[t] \notin Working /\ job[t].op = "evict"
  BY <1>0 DEF Working, QInv, JobInv, Fits
<1>2. job[t] \in Pending /\ g \in Files
  BY <1>1, PendingWhere DEF QInv, JobInv
<1>3. pc[Client] # "flush"
  BY MutexFree, Types DEF EvictNodeFileCb
<1>4. /\ JobInv' /\ OneJob' /\ Flushing' = Flushing
      /\ \A k \in Pending' : k \in Pending /\ ~Alike(k, job[t])
  BY <1>0, <1>1, RequestAnswered DEF QInv
<1>5. \A k \in Pending' : k \in Pending /\ k.file # g
  <2>1. \A k \in Pending : k.op # "flush"
    BY <1>3, NoFlushes DEF Flushing
  <2> QED
    BY <1>1, <1>4, <2>1 DEF Alike
<1>6. CASE file[g].modified
  <2>1. file' = [file EXCEPT ![g] = Unallocated] /\ lru' = RemoveFirst(lru, g)
    BY <1>6 DEF EvictNodeFileCb, Erase
  <2> HIDE DEF g
  <2> QED
    BY <1>0, <1>2, <1>3, <1>4, <1>5, <2>1, DeletedKeeps
<1>7. CASE ~file[g].modified
  <2>1. UNCHANGED <<file, lru>>
    BY <1>7 DEF EvictNodeFileCb, treeVars
  <2> QED
    BY <1>0, <1>4, <2>1, AnsweredKeeps
<1> QED
  BY <1>4, <1>6, <1>7

LEMMA EvictNodeFileCbRequestedKeeps ==
  ASSUME IInv, QInv, NEW t \in Threads, EvictNodeFileCbRequested(t)
  PROVE  QInv' /\ Flushing' = Flushing
<1> DEFINE g == job[t].file
           nf == [file[g] EXCEPT !.modified = FALSE, !.state = "LOADED"]
<1>0. /\ pc[t] = "evictcb" /\ pc'[t] = "hung" /\ pc'[Client] = pc[Client]
      /\ \A u \in Threads : u # t => pc'[u] = pc[u]
      /\ UNCHANGED <<lru, maint, cl, remaining, queue, job>>
      /\ file' = file \/ file' = [file EXCEPT ![g] = nf]
  BY Types DEF EvictNodeFileCbRequested, At, Goto, storageVars, clientVars
<1>1. pc[t] \in Working /\ pc'[t] \notin Working /\ job[t].op = "evict"
  BY <1>0 DEF Working, QInv, JobInv, Fits
<1>2. job[t] \in Pending /\ g \in Files /\ file[g] \in NodeFile
  BY <1>1, PendingWhere, Types DEF QInv, JobInv
<1>3. pc[Client] # "flush"
  BY MutexFree, Types DEF EvictNodeFileCbRequested
<1>4. /\ JobInv' /\ OneJob' /\ Flushing' = Flushing
      /\ \A k \in Pending' : k \in Pending /\ ~Alike(k, job[t])
  BY <1>0, <1>1, RequestAnswered DEF QInv
<1>5. \A k \in Pending' : k \in Pending /\ k.file # g /\ k.file \in Files
  <2>1. \A k \in Pending : k.op # "flush"
    BY <1>3, NoFlushes DEF Flushing
  <2> QED
    BY <1>1, <1>4, <2>1 DEF Alike, QInv, JobInv
<1>6. nf.state = "LOADED"
  BY <1>2 DEF NodeFile
<1> HIDE DEF g, nf
<1>7. /\ \A f \in Files : f # g => file'[f] = file[f]
      /\ \A f \in Files : file[f].state # "FREE" => file'[f].state # "FREE"
  BY <1>0, <1>2, <1>6, Types
<1> QED
  BY <1>0, <1>4, <1>5, <1>7, AnsweredKeeps

LEMMA FlushNodeFileCbKeeps ==
  ASSUME IInv, QInv, NEW t \in Threads, FlushNodeFileCb(t)
  PROVE  QInv' /\ Flushing' = Flushing \ {job[t].file}
<1> DEFINE g == job[t].file
           nf == [file[g] EXCEPT !.modified = FALSE]
<1>0. /\ pc[t] = "flushcb" /\ pc'[t] = "idle" /\ pc'[Client] = pc[Client]
      /\ \A u \in Threads : u # t => pc'[u] = pc[u] /\ job'[u] = job[u]
      /\ UNCHANGED <<lru, maint, cl, queue>> /\ remaining' = remaining - 1
      /\ file' = [file EXCEPT ![g] = nf]
  BY Types DEF FlushNodeFileCb, At, Goto, clientVars
<1>1. pc[t] \in Working /\ pc'[t] \notin Working /\ job[t].op = "flush"
  BY <1>0 DEF Working, QInv, JobInv, Fits
<1>2. job[t] \in Pending /\ g \in Files /\ file[g] \in NodeFile
  BY <1>1, PendingWhere, Types DEF QInv, JobInv
<1>3. nf.id = file[g].id /\ nf.state = file[g].state
  BY <1>2 DEF NodeFile
<1>4. /\ JobInv' /\ OneJob' /\ Flushing' = Flushing \ {g}
      /\ \A k \in Pending' : k \in Pending /\ ~Alike(k, job[t])
  BY <1>0, <1>1, RequestAnswered DEF QInv
<1>5. g \in Flushing
  BY <1>1, <1>2 DEF Flushing
<1> HIDE DEF g, nf
<1>6. \A f \in Files : file'[f].id = file[f].id /\ file'[f].state = file[f].state
  BY <1>0, <1>3, SameFiles
<1>7. CallbackTargetsLive'
  BY <1>4, <1>6 DEF QInv, JobInv, CallbackTargetsLive
<1>8. ListInv'
  <2>1. \A f \in Entries(lru) : f \in Files
    BY Types DEF Entries
  <2> QED
    BY <1>0, <1>6, <2>1 DEF QInv, ListInv, Current
<1>9. FlushInv'
  <2>1. /\ IsFiniteSet(Flushing \ {g})
        /\ Cardinality(Flushing \ {g}) = Cardinality(Flushing) - 1
    BY <1>5, FS_RemoveElement DEF QInv, FlushInv
  <2> QED
    BY <1>0, <1>4, <2>1 DEF QInv, FlushInv
<1> QED
  BY <1>4, <1>7, <1>8, <1>9 DEF QInv, g

(***************************************************************************)
(* cacheMaintenance                                                        *)
(***************************************************************************)

LEMMA PendingType == ASSUME IInv PROVE Pending \subseteq Job
<1>1. \A n \in 1..Len(queue) : queue[n] \in Job
  BY Types, ElementOfSeq
<1> QED
  BY <1>1, Types, PendingWhere

\* No request is under way for a file that is LOADED while no flush runs.
LEMMA LoadedIdle ==
  ASSUME IInv, QInv, pc[Client] # "flush", NEW f, file[f].state = "LOADED"
  PROVE  \A k \in Pending : k.file # f
<1>1. \A k \in Pending : k.op # "flush"
  BY NoFlushes DEF Flushing
<1>2. \A k \in Pending : k.op \in {"read", "evict", "flush"}
  BY PendingType DEF Job
<1> QED
  BY <1>1, <1>2 DEF QInv, CallbackTargetsLive

LEMMA MaintDeleteKeeps ==
  ASSUME IInv, QInv, NEW x \in Actors, MaintDelete(x)
  PROVE  QInv' /\ Pending' = Pending
<1> DEFINE g == lru[maint.it]
<1>0. /\ pc[x] = "scan" /\ file[g].state = "LOADED"
      /\ file' = [file EXCEPT ![g] = Unallocated]
      /\ lru' = RemoveFirst(lru, g)
      /\ Goto(x, "scandec")
      /\ UNCHANGED <<cl, remaining, queue, job>>
  BY DEF MaintDelete, Scanning, At, Evictable, Erase, storageVars, clientVars
<1>1. g \in Files
  <2>1. maint.it \in 1..Len(lru)
    BY Types DEF MaintDelete, Scanning, At, IInv, ScanInv
  <2> QED
    BY <2>1, Types
<1>2. pc[Client] # "flush"
  BY <1>0, ScanNoFlush
<1> HIDE DEF g
<1>3. \A k \in Pending : k.file # g
  BY <1>0, <1>2, LoadedIdle
<1>4. \A u \in Actors : pc'[u] = IF u = x THEN "scandec" ELSE pc[u]
  BY <1>0, Types DEF Goto
<1>5. \A t \in Threads : /\ pc'[t] \in Working <=> pc[t] \in Working
                         /\ Fits(pc'[t], job'[t])
  BY <1>0, <1>4, Types DEF Working, QInv, JobInv, Fits
<1>6. JobInv' /\ OneJob' /\ Pending' = Pending /\ Flushing' = Flushing
  BY <1>0, <1>5, RequestsStill DEF QInv
<1>7. pc'[Client] = "push" => pc[Client] = "push"
  BY <1>4, Types
<1> QED
  BY <1>0, <1>1, <1>2, <1>3, <1>6, <1>7, DeletedKeeps

LEMMA MaintWriteKeeps ==
  ASSUME IInv, QInv, NEW x \in Actors, MaintWrite(x)
  PROVE  QInv'
<1> DEFINE g == lru[maint.it]
           nf == [file[g] EXCEPT !.state = "EVICTING"]
           j == [op |-> "evict", file |-> g, id |-> file[g].id,
                 data |-> Serialized(g)]
<1>0. /\ pc[x] = "scan" /\ file[g].state = "LOADED"
      /\ UNCHANGED <<lru, pc, cl, remaining, job>>
  BY DEF MaintWrite, Scanning, At, Evictable, clientVars
<1>1. g \in Files /\ file[g] \in NodeFile
  <2>1. maint.it \in 1..Len(lru)
    <3>1. pc[x] = "scan" /\ maint.it > 0
      BY DEF MaintWrite, Scanning, At
    <3> QED
      BY <3>1, Types DEF IInv, ScanInv
  <2> QED
    BY <2>1, Types
<1>2. pc[Client] # "flush"
  BY <1>0, ScanNoFlush
<1>3. CASE ~MayWrite
  <2>1. UNCHANGED <<file, queue, maint>>
    BY <1>3 DEF MaintWrite
  <2>2. \A t \in Threads : Fits(pc'[t], job'[t])
    BY <1>0 DEF QInv, JobInv
  <2> QED
    BY <1>0, <2>1, <2>2, Quiet DEF Current
<1>4. CASE MayWrite
  <2>1. file' = [file EXCEPT ![g] = nf] /\ queue' = Append(queue, j)
    BY <1>4 DEF MaintWrite
  <2>2. nf.id = file[g].id /\ nf.state = "EVICTING"
    BY <1>1 DEF NodeFile
  <2>3. j \in Job
    BY <1>1, SerializedType DEF Job, IInv
  <2>4. j.op = "evict" /\ j.file = g /\ j.id = file[g].id
    OBVIOUS
  <2> HIDE DEF g, nf, j
  <2>5. \A k \in Pending : k.file # g
    BY <1>0, <1>2, LoadedIdle
  <2>6. /\ Pending' = Pending \cup {j} /\ JobInv' /\ OneJob'
        /\ Flushing' = Flushing
    BY <1>0, <1>1, <2>1, <2>3, <2>4, <2>5, RequestAdded, Types DEF QInv, Alike
  <2>7. /\ \A f \in Files : f # g => file'[f] = file[f]
        /\ file'[g].id = file[g].id /\ file'[g].state = "EVICTING"
    BY <1>1, <2>1, <2>2, Types
  <2>8. CallbackTargetsLive'
    BY <2>4, <2>5, <2>6, <2>7 DEF QInv, JobInv, CallbackTargetsLive
  <2>9. ListInv'
    <3>1. \A f \in Entries(lru) : f \in Files /\ file'[f].state # "FREE"
      BY <2>7, Types DEF Entries, QInv, ListInv
    <3> QED
      BY <1>0, <3>1 DEF QInv, ListInv, Current
  <2>10. FlushInv'
    <3>1. Flushing = {}
      BY <1>2, NoFlushes
    <3> QED
      BY <1>0, <2>6, <3>1 DEF QInv, FlushInv
  <2> QED
    BY <2>6, <2>8, <2>9, <2>10 DEF QInv
<1> QED
  BY <1>3, <1>4

(***************************************************************************)
(* The client                                                              *)
(***************************************************************************)

\* A new file is allocated where no file is, and is not in the list yet.
LEMMA AllocatedKeeps ==
  ASSUME IInv, QInv, NEW g \in Files, file[g].state = "FREE",
         NEW nf, file' = [file EXCEPT ![g] = nf], nf.state # "FREE",
         lru' = lru, remaining' = remaining, Flushing' = Flushing,
         pc[Client] # "flush", Current' = g, JobInv', OneJob',
         \A k \in Pending' : \/ k \in Pending
                             \/ /\ k.file = g /\ k.op = "read" /\ k.id = nf.id
                                /\ nf.state = "LOADING"
  PROVE  QInv'
<1>1. \A k \in Pending : k.file # g
  <2>1. \A k \in Pending : k.op \in {"read", "evict", "flush"}
    BY PendingType DEF Job
  <2> QED
    BY <2>1 DEF QInv, CallbackTargetsLive
<1>2. file'[g] = nf /\ \A f \in Files : f # g => file'[f] = file[f]
  BY Types
<1>3. CallbackTargetsLive'
  BY <1>1, <1>2 DEF QInv, JobInv, CallbackTargetsLive
<1>4. ListInv'
  <2>1. \A f \in Entries(lru) : f \in Files /\ f # g
    BY Types DEF Entries, QInv, ListInv
  <2> QED
    BY <1>2, <2>1 DEF QInv, ListInv
<1>5. FlushInv'
  BY NoFlushes DEF QInv, FlushInv
<1> QED
  BY <1>3, <1>4, <1>5 DEF QInv

LEMMA CreateRootKeeps ==
  ASSUME IInv, QInv, NEW f \in Files, NEW h \in Handles, CreateRoot(f, h)
  PROVE  QInv' /\ Pending' = Pending
<1> DEFINE nf == NewNodeFile(Root, "LOADED", TRUE)
<1>1. /\ pc[Client] = "ctor" /\ Goto(Client, "push") /\ file[f].state = "FREE"
      /\ file' = [file EXCEPT ![f] = nf] /\ nf.state # "FREE"
      /\ UNCHANGED <<lru, queue, job, remaining>>
  BY DEF CreateRoot, At, storageVars, NewNodeFile
<1>2. Current' = f
  BY DEF CreateRoot, Current, NoCall
<1>3. \A t \in Threads : pc'[t] = pc[t]
  BY <1>1, Types DEF Goto
<1>4. JobInv' /\ OneJob' /\ Pending' = Pending /\ Flushing' = Flushing
  BY <1>1, <1>3, RequestsStill DEF QInv, JobInv
<1> HIDE DEF nf
<1> QED
  BY <1>1, <1>2, <1>4, AllocatedKeeps

LEMMA ParentLacksFileKeeps ==
  ASSUME IInv, QInv, NEW f \in Files, ParentLacksFile(f)
  PROVE  QInv' /\ Pending' = Pending
<1> DEFINE nf == NewNodeFile(cl.id, "LOADED", TRUE)
<1>1. /\ pc[Client] = "got" /\ Goto(Client, "push") /\ file[f].state = "FREE"
      /\ file' = [file EXCEPT ![f] = nf] /\ nf.state # "FREE"
      /\ UNCHANGED <<lru, queue, job, remaining>>
  BY DEF ParentLacksFile, At, storageVars, NewNodeFile
<1>2. Current' = f
  BY DEF ParentLacksFile, Current, IInv, TypeOK, Call
<1>3. \A t \in Threads : pc'[t] = pc[t]
  BY <1>1, Types DEF Goto
<1>4. JobInv' /\ OneJob' /\ Pending' = Pending /\ Flushing' = Flushing
  BY <1>1, <1>3, RequestsStill DEF QInv, JobInv
<1> HIDE DEF nf
<1> QED
  BY <1>1, <1>2, <1>4, AllocatedKeeps

LEMMA FetchedCurrent ==
  ASSUME IInv, NEW f, cl' = Fetched(f)
  PROVE  Current' = f /\ cl'.stage = cl.stage
<1>1. cl \in Call
  BY DEF IInv, TypeOK
<1> QED
  BY <1>1 DEF Fetched, Current, Call

LEMMA TargetType == ASSUME IInv PROVE Target \in Ids
<1>1. cl.id \in Ids
  BY DEF IInv, TypeOK, Call
<1> QED
  BY <1>1, ConstantsAssumption DEF Target

LEMMA FindMissKeeps ==
  ASSUME IInv, QInv, NEW f \in Files, NEW m \in BOOLEAN, FindMiss(f, m)
  PROVE  /\ QInv' /\ Flushing' = Flushing
         /\ Pending' = Pending \cup {[NoJob EXCEPT !.file = f, !.id = Target]}
         /\ Target \in Ids
<1> DEFINE nf == NewNodeFile(Target, "LOADING", m)
           j == [NoJob EXCEPT !.file = f, !.id = Target]
<1>1. /\ pc[Client] = "find" /\ Goto(Client, "push") /\ file[f].state = "FREE"
      /\ file' = [file EXCEPT ![f] = nf]
      /\ queue' = Append(queue, j) /\ cl' = Fetched(f)
      /\ UNCHANGED <<lru, job, remaining>>
  BY DEF FindMiss, At
<1>2. nf.state = "LOADING" /\ nf.id = Target
  BY DEF NewNodeFile
<1>3. Target \in Ids
  BY TargetType
<1>4. j \in Job /\ j.file = f /\ j.id = Target /\ j.op = "read"
  BY <1>3, NoJobType DEF Job, NoJob
<1>5. Current' = f
  BY <1>1, FetchedCurrent
<1>6. \A t \in Threads : pc'[t] = pc[t]
  BY <1>1, Types DEF Goto
<1>7. \A k \in Pending : k.file # f
  <2>1. \A k \in Pending : k.op \in {"read", "evict", "flush"}
    BY PendingType DEF Job
  <2> QED
    BY <1>1, <2>1 DEF QInv, CallbackTargetsLive
<1> HIDE DEF j, nf
<1>8. JobInv' /\ OneJob' /\ Pending' = Pending \cup {j} /\ Flushing' = Flushing
  BY <1>1, <1>4, <1>6, <1>7, RequestAdded, Types DEF QInv, Alike
<1>9. QInv'
  BY <1>1, <1>2, <1>4, <1>5, <1>8, AllocatedKeeps
<1> QED
  BY <1>3, <1>8, <1>9 DEF j

LEMMA FindHitKeeps ==
  ASSUME IInv, QInv, FindHit
  PROVE  QInv' /\ Pending' = Pending
<1> DEFINE g == hash[Target]
           nf == [file[g] EXCEPT !.users = @ + 1,
                                 !.state = IF @ = "EVICTING" THEN "LOADING"
                                                             ELSE @]
<1>1. /\ pc[Client] = "find" /\ Goto(Client, "got") /\ g # NoFile
      /\ cacheMutex = Nobody
      /\ file' = [file EXCEPT ![g] = nf] /\ lru' = Cons(g, RemoveFirst(lru, g))
      /\ UNCHANGED <<queue, job, remaining>>
  BY DEF FindHit, At, storageVars
<1>2. g \in Files /\ file[g] \in NodeFile /\ file[g].state # "FREE"
  <2>1. Target \in Ids
    BY TargetType
  <2> QED
    BY <1>1, <2>1, Types DEF IInv, HashInv
<1>3. /\ nf.id = file[g].id
      /\ nf.state = IF file[g].state = "EVICTING" THEN "LOADING"
                                                  ELSE file[g].state
  BY <1>2 DEF NodeFile
<1> HIDE DEF g, nf
<1>4. /\ \A f \in Files : f # g => file'[f] = file[f]
      /\ file'[g].id = file[g].id /\ file'[g].state # "FREE"
      /\ file'[g].state = IF file[g].state = "EVICTING" THEN "LOADING"
                                                        ELSE file[g].state
  BY <1>1, <1>2, <1>3, Types
<1>5. pc'[Client] = "got" /\ \A t \in Threads : pc'[t] = pc[t]
  BY <1>1, Types DEF Goto
<1>6. JobInv' /\ OneJob' /\ Pending' = Pending /\ Flushing' = Flushing
  BY <1>1, <1>5, RequestsStill DEF QInv, JobInv
<1>7. Flushing = {}
  BY <1>1, NoFlushes
<1>8. CallbackTargetsLive'
  <2>1. \A k \in Pending : k.op # "flush" /\ k.file \in Files
    BY <1>7 DEF Flushing, QInv, JobInv
  <2> QED
    BY <1>4, <1>6, <2>1 DEF QInv, CallbackTargetsLive
<1>9. ListInv'
  <2> DEFINE r == RemoveFirst(lru, g)
  <2>1. r \in Seq(Files) /\ Once(r) /\ Entries(r) = Entries(lru) \ {g}
    BY RemoveOnce, RemoveFirstType, Types DEF QInv, ListInv
  <2> HIDE DEF r
  <2>2. Once(Cons(g, r)) /\ Entries(Cons(g, r)) = Entries(r) \cup {g}
    BY <1>2, <2>1, ConsOnce
  <2>3. Once(lru') /\ Entries(lru') = Entries(lru) \cup {g}
    BY <1>1, <2>1, <2>2 DEF r
  <2>4. \A f \in Entries(lru) : f \in Files
    BY Types DEF Entries
  <2> QED
    BY <1>4, <1>5, <2>3, <2>4 DEF QInv, ListInv
<1>10. FlushInv'
  BY <1>1, <1>6, <1>7 DEF QInv, FlushInv
<1> QED
  BY <1>6, <1>8, <1>9, <1>10 DEF QInv

\* The file a call is to push is one the call holds.
LEMMA CurrentPinned ==
  ASSUME IInv, pc[Client] = "push"
  PROVE  /\ Current \in Files /\ file[Current].state \in {"LOADING", "LOADED"}
         /\ file[Current].id = Target
<1>1. cl.stage \in {"root", "node", "parent", "child", "created"} /\ cl \in Call
  BY DEF IInv, CallInv, TypeOK, Call
<1>2. Current # NoFile
  BY <1>1 DEF IInv, CallInv, Current
<1>3. Current \in Files /\ (Current = cl.file \/ Current = cl.pfile)
  BY <1>1, <1>2 DEF Current, Call
<1>4. file[Current].state \in {"LOADING", "LOADED"}
  BY <1>1, <1>3, Pinned
<1>5. file[Current].id = Target
  BY <1>1, <1>2 DEF Current, Target, IInv, IdInv
<1> QED
  BY <1>3, <1>4, <1>5

LEMMA PushKeeps ==
  ASSUME IInv, QInv, Push
  PROVE  QInv' /\ Pending' = Pending
<1>1. /\ pc[Client] = "push" /\ cacheMutex = Nobody
      /\ lru' = Cons(Current, lru)
      /\ UNCHANGED <<file, queue, job, remaining>>
      /\ Goto(Client, IF cl.stage \in {"root", "created"} THEN "maint" ELSE "got")
  BY DEF Push, PushFront, At, storageVars
<1>2. pc'[Client] # "push" /\ \A t \in Threads : pc'[t] = pc[t]
  BY <1>1, Types DEF Goto
<1>3. JobInv' /\ OneJob' /\ Pending' = Pending /\ Flushing' = Flushing
  BY <1>1, <1>2, RequestsStill DEF QInv, JobInv
<1>4. CallbackTargetsLive'
  BY <1>1, <1>3 DEF QInv, CallbackTargetsLive
<1>5. ListInv'
  <2>1. Current \in Files /\ file[Current].state # "FREE"
    BY <1>1, CurrentPinned
  <2>2. Once(lru') /\ Entries(lru') = Entries(lru) \cup {Current}
    BY <1>1, <2>1, ConsOnce, Types DEF QInv, ListInv
  <2> QED
    BY <1>1, <1>2, <2>1, <2>2 DEF QInv, ListInv
<1>6. FlushInv'
  <2>1. Flushing = {}
    BY <1>1, NoFlushes
  <2> QED
    BY <1>1, <1>3, <2>1 DEF QInv, FlushInv
<1> QED
  BY <1>3, <1>4, <1>5, <1>6 DEF QInv

LEMMA FlushBeginKeeps ==
  ASSUME IInv, QInv, NEW c, FlushBegin(c)
  PROVE  QInv' /\ Pending' = Pending
<1>1. /\ pc[Client] = "idle" /\ Goto(Client, "flush")
      /\ UNCHANGED <<file, lru, queue, job, remaining>>
  BY DEF FlushBegin, BeginCall, At, treeVars, storageVars
<1> QED
  BY <1>1, ClientQuiet

LEMMA FlushFileKeeps ==
  ASSUME IInv, QInv, FlushFile
  PROVE  QInv'
<1> DEFINE n == maint.it
           g == lru[n]
           j == [op |-> "flush", file |-> g, id |-> file[g].id,
                 data |-> Serialized(g)]
<1>0. /\ pc[Client] = "flush" /\ n <= Len(lru)
      /\ maint' = [maint EXCEPT !.it = @ + 1]
      /\ UNCHANGED <<file, lru, pc, cl, job>>
  BY DEF FlushFile, At, treeVars, clientVars
<1>1. n \in 1..Len(lru) /\ maint'.it = n + 1 /\ n \in Nat
  <2>1. maint \in [it : Nat, to_evict : Int, evicted : Int]
    BY DEF IInv, TypeOK
  <2> QED
    BY <1>0, <2>1 DEF IInv, ScanInv
<1>2. g \in Files /\ file[g].state # "FREE" /\ file[g].state \in NodeStates
  BY <1>1, Types DEF QInv, ListInv, Entries, NodeFile
<1>3. \A t \in Threads : Fits(pc'[t], job'[t])
  BY <1>0 DEF QInv, JobInv
<1>4. ListInv'
  BY <1>0 DEF QInv, ListInv, Current
<1>5. CASE NeedsFlush(g) /\ MayWrite
  <2>1. remaining' = remaining + 1 /\ queue' = Append(queue, j)
    BY <1>5 DEF FlushFile
  <2>2. file[g].state \in {"EVICTING", "LOADED"}
    BY <1>2, <1>5 DEF NeedsFlush, NodeStates
  <2>3. j \in Job
    BY <1>2, SerializedType DEF Job, IInv
  <2>4. j.op = "flush" /\ j.file = g /\ j.id = file[g].id
    OBVIOUS
  <2>5. g \notin Flushing
    <3> SUFFICES ASSUME g \in Flushing PROVE FALSE
      OBVIOUS
    <3>1. PICK m \in 1..Len(lru) : m < n /\ lru[m] = g
      BY DEF QInv, FlushInv
    <3> QED
      BY <1>1, <3>1 DEF QInv, ListInv, Once
  <2> HIDE DEF j, g
  <2>6. \A k \in Pending : ~Alike(k, j)
    BY <2>4, <2>5 DEF Alike, Flushing
  <2>7. /\ Pending' = Pending \cup {j} /\ JobInv' /\ OneJob'
        /\ Flushing' = Flushing \cup {g}
    BY <1>0, <1>2, <2>1, <2>3, <2>4, <2>6, RequestAdded, Types DEF QInv
  <2>8. CallbackTargetsLive'
    BY <1>0, <2>2, <2>4, <2>7 DEF QInv, CallbackTargetsLive
  <2>9. FlushInv'
    <3>1. /\ IsFiniteSet(Flushing \cup {g})
          /\ Cardinality(Flushing \cup {g}) = Cardinality(Flushing) + 1
      BY <2>5, FS_AddElement DEF QInv, FlushInv
    <3>2. \A f \in Flushing' : \E m \in 1..Len(lru) : m < n + 1 /\ lru[m] = f
      <4> SUFFICES ASSUME NEW f \in Flushing'
                   PROVE  \E m \in 1..Len(lru) : m < n + 1 /\ lru[m] = f
        OBVIOUS
      <4>1. CASE f = g
        BY <1>1, <4>1 DEF g
      <4>2. CASE f \in Flushing
        <5>1. PICK m \in 1..Len(lru) : m < n /\ lru[m] = f
          BY <4>2 DEF QInv, FlushInv
        <5>2. m < n + 1
          BY <1>1, <5>1
        <5> QED
          BY <5>1, <5>2
      <4> QED
        BY <2>7, <4>1, <4>2
    <3>3. remaining' = Cardinality(Flushing')
      BY <2>1, <2>7, <3>1 DEF QInv, FlushInv
    <3>4. IsFiniteSet(Flushing')
      BY <2>7, <3>1
    <3> HIDE DEF n
    <3> QED
      BY <1>0, <1>1, <3>2, <3>3, <3>4 DEF FlushInv
  <2> QED
    BY <1>4, <2>7, <2>8, <2>9 DEF QInv
<1>6. CASE ~(NeedsFlush(g) /\ MayWrite)
  <2>1. UNCHANGED <<queue, remaining>>
    BY <1>6 DEF FlushFile
  <2>2. JobInv' /\ OneJob' /\ Pending' = Pending /\ Flushing' = Flushing
    BY <1>0, <1>3, <2>1, RequestsStill DEF QInv
  <2>3. CallbackTargetsLive'
    BY <1>0, <2>2 DEF QInv, CallbackTargetsLive
  <2>4. FlushInv'
    <3>1. \A f \in Flushing : \E m \in 1..Len(lru) : m < n + 1 /\ lru[m] = f
      <4> SUFFICES ASSUME NEW f \in Flushing
                   PROVE  \E m \in 1..Len(lru) : m < n + 1 /\ lru[m] = f
        OBVIOUS
      <4>1. PICK m \in 1..Len(lru) : m < n /\ lru[m] = f
        BY DEF QInv, FlushInv
      <4>2. m < n + 1
        BY <1>1, <4>1
      <4> QED
        BY <4>1, <4>2
    <3> HIDE DEF n
    <3> QED
      BY <1>0, <1>1, <2>1, <2>2, <3>1 DEF QInv, FlushInv
  <2> QED
    BY <1>4, <2>2, <2>3, <2>4 DEF QInv
<1> QED
  BY <1>5, <1>6

\* flushCache returns when its writes are done, so no flush is left.
LEMMA FlushEndKeeps ==
  ASSUME IInv, QInv, FlushEnd
  PROVE  QInv' /\ Pending' = Pending /\ Flushing = {}
<1>1. /\ pc[Client] = "flush" /\ remaining = 0
      /\ Goto(Client, IF cl.stage = "destroy" THEN "destroy" ELSE "idle")
      /\ UNCHANGED <<file, lru, queue, job, cl, remaining>>
  BY DEF FlushEnd, FlushDone, At, treeVars, storageVars, clientVars
<1>2. Flushing = {}
  BY <1>1, FS_EmptySet DEF QInv, FlushInv
<1>3. /\ pc'[Client] # "push" /\ pc'[Client] # "flush"
      /\ \A t \in Threads : pc'[t] = pc[t]
  BY <1>1, Types DEF Goto
<1>4. JobInv' /\ OneJob' /\ Pending' = Pending /\ Flushing' = Flushing
  BY <1>1, <1>3, RequestsStill DEF QInv, JobInv
<1>5. CallbackTargetsLive'
  BY <1>1, <1>4 DEF QInv, CallbackTargetsLive
<1>6. ListInv'
  BY <1>1, <1>3 DEF QInv, ListInv
<1>7. FlushInv'
  BY <1>1, <1>2, <1>4 DEF QInv, FlushInv
<1> QED
  BY <1>2, <1>4, <1>5, <1>6, <1>7 DEF QInv

LEMMA DestroyFileKeeps ==
  ASSUME IInv, QInv, NEW f \in Files, DestroyFile(f)
  PROVE  QInv' /\ Pending' = Pending
<1>0. /\ pc[Client] = "destroy" /\ file[f].state = "LOADED"
      /\ file' = [file EXCEPT ![f] = Unallocated]
      /\ lru' = RemoveFirst(lru, f)
      /\ Goto(Client, "destroydec")
      /\ UNCHANGED <<cl, remaining, queue, job>>
  BY DEF DestroyFile, At, Erase, storageVars, clientVars
<1>1. \A k \in Pending : k.file # f
  BY <1>0, LoadedIdle
<1>2. pc'[Client] = "destroydec" /\ \A t \in Threads : pc'[t] = pc[t]
  BY <1>0, Types DEF Goto
<1>3. JobInv' /\ OneJob' /\ Pending' = Pending /\ Flushing' = Flushing
  BY <1>0, <1>2, RequestsStill DEF QInv, JobInv
<1> QED
  BY <1>0, <1>1, <1>2, <1>3, DeletedKeeps

(***************************************************************************)
(* The theorem                                                             *)
(***************************************************************************)

LEMMA InitRequests == Init => QInv
<1> SUFFICES ASSUME NEW S \in Openings, InitWith(S) PROVE QInv
  BY DEF Init
<1>1. queue = << >> /\ lru = << >> /\ remaining = 0
      /\ \A t \in Threads : pc[t] = "idle"
      /\ pc[Client] \in {"ctor", "idle"}
  BY ConstantsAssumption DEF InitWith, Actors
<1>2. Len(queue) = 0 /\ Len(lru) = 0 /\ 1..0 = {}
  BY <1>1, EmptySeq
<1>3. \A t \in Threads : pc[t] \notin Working
  BY <1>1 DEF Working
<1>4. Pending = {}
  BY <1>2, <1>3, PendingWhere
<1>5. Flushing = {}
  BY <1>4 DEF Flushing
<1>6. JobInv /\ CallbackTargetsLive
  BY <1>1, <1>4 DEF JobInv, Fits, CallbackTargetsLive
<1>7. OneJob
  BY <1>2, <1>3 DEF OneJob
<1>8. ListInv
  BY <1>1, <1>2 DEF ListInv, Once, Entries
<1>9. FlushInv
  BY <1>1, <1>5, FS_EmptySet DEF FlushInv
<1> QED
  BY <1>6, <1>7, <1>8, <1>9 DEF QInv

LEMMA NextRequests == IInv /\ QInv /\ [Next]_vars => QInv'
<1> SUFFICES ASSUME IInv, QInv, [Next]_vars PROVE QInv'
  OBVIOUS
<1>1. CASE CallStep
  BY <1>1, GetRootQuiet, ModifyNodeQuiet, ReleaseNodeQuiet, GetChildNodeQuiet,
     CreateChildNodeQuiet, FlushBeginKeeps DEF CallStep, FlushCache, Destroy
<1>2. CASE ClientStep
  BY <1>2, CreateRootKeeps, FindHitKeeps, FindMissKeeps, PushKeeps,
     ReadNodeQuiet, ParentHasFileQuiet, ParentLacksFileKeeps, LinkParentQuiet,
     CreateNodeQuiet, CreateNodeStoreQuiet, DropFileQuiet, UnlockQuiet,
     FlushFileKeeps, FlushEndKeeps, DestroyFileKeeps, DestroyFileStoreQuiet,
     DestroyEndQuiet DEF ClientStep
<1>3. ASSUME NEW x \in Actors, MaintStep(x) PROVE QInv'
  BY <1>3, MaintBeginQuiet, MaintSkipQuiet, MaintDeleteKeeps,
     MaintDeleteStoreQuiet, MaintWriteKeeps, MaintEndQuiet DEF MaintStep
<1>4. ASSUME NEW t \in Threads, ThreadStep(t) PROVE QInv'
  BY <1>4, TakeJobKeeps, StorageGetKeeps, StoragePutKeeps, ReadNodeFileCbKeeps,
     ReadNodeFileCbLoadQuiet, ReadNodeFileCbStoreQuiet, EvictNodeFileCbKeeps,
     EvictNodeFileCbStoreQuiet, EvictNodeFileCbRequestedKeeps,
     FlushNodeFileCbKeeps DEF ThreadStep
<1>5. CASE UNCHANGED vars
  <2>1. UNCHANGED <<file, lru, queue, job, pc, cl, maint, remaining>>
    BY <1>5 DEF vars, treeVars, storageVars, clientVars
  <2>2. \A t \in Threads : Fits(pc'[t], job'[t])
    BY <2>1 DEF QInv, JobInv
  <2> QED
    BY <2>1, <2>2, Quiet DEF Current
<1> QED
  BY <1>1, <1>2, <1>3, <1>4, <1>5 DEF Next

LEMMA RequestsInvariance == Spec => [](IInv /\ QInv)
<1>1. Init => IInv /\ QInv
  BY InitInv, InitRequests
<1>2. (IInv /\ QInv) /\ [Next]_vars => (IInv /\ QInv)'
  BY NextInv, NextRequests
<1> QED
  BY <1>1, <1>2, PTL DEF Spec

\* For any number of files, handles, threads and calls: when readNodeFileCb,
\* evictNodeFileCb or flushNodeFileCb runs, the NodeFile its raw pointer or its
\* iterator was bound to is alive, has the id it had then and is in a state
\* the callback handles.
THEOREM CallbacksFindTheirFiles == Spec => []CallbackTargetsLive
<1>1. IInv /\ QInv => CallbackTargetsLive
  BY DEF QInv
<1> QED
  BY <1>1, RequestsInvariance, PTL

-----------------------------------------------------------------------------
(***************************************************************************)
(* Part 3.  The inductive invariant for the contents                       *)
(***************************************************************************)

Live(f) == file[f].state # "FREE"
Settled(f) == file[f].state \in {"LOADED", "EVICTING"}
\* A file flushCache has to write.
Dirty(f) == Settled(f) /\ file[f].modified

\* The files whose contents are still to be read.
Reading == {j.file : j \in {k \in Pending : k.op = "read"}}

\* The list and the hash hold the same files, one for each id; only the file a
\* call is about to push is outside.  The constructor starts from nothing.
IndexInv ==
  /\ \A f \in Entries(lru) : hash[file[f].id] = f
  /\ \A i \in Ids : hash[i] # NoFile => hash[i] \in Entries(lru)
  /\ \A f \in Files : Live(f) =>
       hash[file[f].id] = f \/ (pc[Client] = "push" /\ f = Current)
  /\ pc[Client] = "push" => hash[Target] = NoFile
  /\ pc[Client] = "ctor" =>
       /\ \A f \in Files : ~Live(f)
       /\ \A i \in Ids : store[i] = Empty /\ truth[i] = Empty.nodes

\* createChildNode before it has linked the new node to its parent, and a call
\* after createNode.
Linking == /\ cl.stage \in {"parent", "child", "created"}
           /\ pc[Client] \notin {"create", "inc", "drop"}
Made == pc[Client] \in {"inc", "drop"}

\* What a call of the client knows of the files and the nodes it refers to.
CallerInv ==
  /\ Linking => /\ cl.from \in Handles /\ handles[cl.from].file # NoFile
                /\ handles[cl.from].id = Parent[cl.id]
                /\ file[handles[cl.from].file].state = "LOADED"
  /\ cl.stage \in {"child", "created"} /\ cl.pfile # NoFile =>
       file[cl.pfile].state = "LOADED"
  /\ cl.stage \in {"root", "created"} \/ pc[Client] \in {"create", "inc", "drop"} =>
       file[cl.file].state = "LOADED"
  /\ cl.stage = "node" => truth[cl.id][cl.short] # Absent
  /\ cl.stage \in {"root", "parent", "child", "created"} /\ ~Made =>
       truth[cl.id][cl.short] = Absent
  /\ pc[Client] # "ctor" /\ (cl.stage = "root" => Made) =>
       truth[Root][RootNode] # Absent
  /\ cl.stage = "root" => cl.short = RootNode
  /\ \A h \in Handles : handles[h].file # NoFile =>
       truth[handles[h].id][handles[h].short] # Absent

\* Where the last value of every node is: in the file in memory, once it has
\* been read, or else in the storage.
DataInv ==
  /\ \A f \in Files : Live(f) /\ f \notin Reading =>
       file[f].nodes = truth[file[f].id]
  /\ \A f \in Files : Live(f) /\ f \in Reading =>
       /\ store[file[f].id].nodes = truth[file[f].id]
       /\ \A s \in Shorts :
            file[f].nodes[s] # Absent => truth[file[f].id][s] # Absent
  /\ \A i \in Ids : (\A f \in Files : Live(f) => file[f].id # i) =>
       store[i].nodes = truth[i]

\* No handle holds back a change of the file.
Reported(f) == \A h \in Handles : handles[h].file = f => ~handles[h].modified

\* What the storage, and the requests to it, hold.
StoreInv ==
  /\ \A f \in Files : Settled(f) /\ ~file[f].modified /\ Reported(f) =>
       store[file[f].id] = Serialized(f)
  /\ \A j \in Pending : j.op # "read" => j.data = Serialized(j.file)
  /\ \A t \in Threads : pc[t] \in {"evictcb", "flushcb"} =>
       store[job[t].id] = job[t].data
  /\ \A t \in Threads : pc[t] = "readcb" /\ aborted = "no" =>
       job[t].data = store[job[t].id]

\* The file above i, in memory or in the storage, has i's child_files bit.
Known(i) ==
  /\ \A f \in Files : Live(f) /\ file[f].id = Parent[i] /\ f \notin Reading =>
       i \in file[f].child
  /\ (\A f \in Files : Live(f) /\ file[f].id = Parent[i] => f \in Reading) =>
       i \in store[Parent[i]].child
\* A file createChildNode has created and has not reported to its parent.
Unlinked(f) == cl.stage = "created" /\ f = cl.file /\ cl.pfile # NoFile
ChildInv ==
  /\ \A i \in Ids \ {Root} :
       store[i] # Empty \/ (\E s \in Shorts : truth[i][s] # Absent) => Known(i)
  /\ \A f \in Files : Live(f) /\ file[f].id # Root /\ ~Unlinked(f) =>
       Known(file[f].id)
  /\ cl.stage = "child" /\ cl.id # Root => Known(cl.id)

\* What flushCache has passed is written or under way; after it, the
\* destructor finds no file to write.
Passed(f) == \E n \in 1..Len(lru) : n < maint.it /\ lru[n] = f
WrittenInv ==
  /\ pc[Client] = "flush" /\ aborted = "no" =>
       \A f \in Files : Dirty(f) /\ Passed(f) => f \in Flushing
  /\ pc[Client] \in {"destroy", "destroydec", "gone"} =>
       \A f \in Files : ~Dirty(f)
  /\ pc[Client] = "gone" => \A f \in Files : ~Live(f)

DInv == IndexInv /\ CallerInv /\ DataInv /\ StoreInv /\ ChildInv /\ WrittenInv

(***************************************************************************)
(* Lemmas about a state                                                    *)
(***************************************************************************)

LEMMA DataTypes ==
  ASSUME IInv
  PROVE  /\ store \in [Ids -> Content] /\ truth \in [Ids -> [Shorts -> Values]]
         /\ handles \in [Handles -> Handle] /\ cl \in Call
         /\ Parent \in [Ids -> Ids] /\ Root \in Ids /\ version \in Nat
         /\ Absent \notin Nat
<1>1. Absent \notin Nat
  BY DEF Absent
<1> QED
  BY <1>1, ConstantsAssumption DEF IInv, TypeOK

\* There is one NodeFile for an id.
LEMMA Unique ==
  ASSUME IInv, IndexInv, NEW f \in Files, NEW g \in Files, Live(f), Live(g),
         file[f].id = file[g].id
  PROVE  f = g
<1>1. file[f].id \in Ids
  BY Types DEF NodeFile
<1>2. ASSUME pc[Client] = "push"
      PROVE  file[Current].id = Target /\ hash[Target] = NoFile
  BY <1>2, CurrentPinned DEF IndexInv
<1> QED
  BY <1>1, <1>2, Types DEF IndexInv

\* The files of requests are alive; those being read are not LOADED, and have
\* no write under way.
LEMMA RequestFiles ==
  ASSUME IInv, QInv
  PROVE  /\ \A j \in Pending : j.file \in Files /\ Live(j.file)
                               /\ file[j.file].id = j.id
         /\ \A f \in Reading : f \in Files /\ file[f].state = "LOADING"
         /\ \A j \in Pending : j.op # "read" => j.file \notin Reading
<1>1. \A j \in Pending : j.op \in {"read", "evict", "flush"}
  BY PendingType DEF Job
<1>2. \A j \in Pending : /\ j.file \in Files /\ Live(j.file)
                         /\ file[j.file].id = j.id
  BY <1>1 DEF QInv, JobInv, CallbackTargetsLive, Live
<1>3. \A f \in Reading : f \in Files /\ file[f].state = "LOADING"
  BY <1>2 DEF Reading, QInv, CallbackTargetsLive
<1>4. \A j, k \in Pending : j # k => ~Alike(j, k)
  <2> SUFFICES ASSUME NEW j \in Pending, NEW k \in Pending, j # k
               PROVE  ~Alike(j, k)
    OBVIOUS
  <2>1. CASE \E n \in 1..Len(queue) : j = queue[n]
    <3>1. CASE \E n \in 1..Len(queue) : k = queue[n]
      BY <2>1, <3>1 DEF QInv, OneJob
    <3>2. CASE \E t \in Threads : pc[t] \in Working /\ k = job[t]
      BY <2>1, <3>2 DEF QInv, OneJob
    <3> QED
      BY <3>1, <3>2, PendingWhere
  <2>2. CASE \E t \in Threads : pc[t] \in Working /\ j = job[t]
    <3>1. CASE \E n \in 1..Len(queue) : k = queue[n]
      <4>1. ~Alike(k, j)
        BY <2>2, <3>1 DEF QInv, OneJob
      <4> QED
        BY <4>1 DEF Alike
    <3>2. CASE \E t \in Threads : pc[t] \in Working /\ k = job[t]
      BY <2>2, <3>2 DEF QInv, OneJob
    <3> QED
      BY <3>1, <3>2, PendingWhere
  <2> QED
    BY <2>1, <2>2, PendingWhere
<1>5. ASSUME NEW j \in Pending, j.op # "read" PROVE j.file \notin Reading
  <2> SUFFICES ASSUME NEW k \in Pending, k.op = "read", k.file = j.file
               PROVE  FALSE
    BY DEF Reading
  <2>1. j # k /\ file[j.file].state = "LOADING"
    BY <1>5 DEF QInv, CallbackTargetsLive
  <2>2. j.op = "evict"
    BY <1>1, <1>5, <2>1 DEF QInv, CallbackTargetsLive
  <2> QED
    BY <1>4, <2>1, <2>2 DEF Alike
<1> QED
  BY <1>2, <1>3, <1>5

\* The files the client refers to have users.
LEMMA UsedFiles ==
  ASSUME IInv
  PROVE  /\ \A h \in Handles : handles[h].file \in Files =>
               file[handles[h].file].users # 0
         /\ cl.stage # "none" /\ cl.file \in Files => file[cl.file].users # 0
         /\ cl.stage # "none" /\ cl.pfile \in Files => file[cl.pfile].users # 0
BY Unpinned

(***************************************************************************)
(* What a step that leaves the contents alone keeps                        *)
(***************************************************************************)

\* Users, flags and states may change; no file is allocated or deleted.
SameContents ==
  \A f \in Files : /\ file'[f].id = file[f].id
                   /\ file'[f].nodes = file[f].nodes
                   /\ file'[f].child = file[f].child
                   /\ file'[f].state = "FREE" <=> file[f].state = "FREE"

LEMMA DataStill ==
  ASSUME DataInv, SameContents, Reading' = Reading, UNCHANGED <<store, truth>>
  PROVE  DataInv'
BY DEF DataInv, SameContents, Live

LEMMA KnownStill ==
  ASSUME SameContents, Reading' = Reading, UNCHANGED store, NEW i
  PROVE  Known(i)' <=> Known(i)
BY DEF Known, SameContents, Live

LEMMA ChildStill ==
  ASSUME ChildInv, SameContents, Reading' = Reading, UNCHANGED <<store, truth>>,
         \A f \in Files : Unlinked(f) => Unlinked(f)',
         cl'.stage = "child" /\ cl'.id # Root => Known(cl'.id)
  PROVE  ChildInv'
<1>1. \A i : Known(i)' <=> Known(i)
  BY KnownStill
<1>2. \A i \in Ids \ {Root} :
        store'[i] # Empty \/ (\E s \in Shorts : truth'[i][s] # Absent) => Known(i)'
  BY <1>1 DEF ChildInv
<1>3. \A f \in Files : Live(f)' /\ file'[f].id # Root /\ ~Unlinked(f)' =>
        Known(file[f].id)'
  BY <1>1 DEF ChildInv, SameContents, Live
<1>4. \A f \in Files : Live(f)' /\ file'[f].id # Root /\ ~Unlinked(f)' =>
        Known(file[f].id)' /\ file'[f].id = file[f].id
  BY <1>3 DEF SameContents
<1>5. cl'.stage = "child" /\ cl'.id # Root => Known(cl.id)' \/ Known(cl'.id)
  OBVIOUS
<1> QED
  BY <1>1, <1>2, <1>4 DEF ChildInv

LEMMA IndexStill ==
  ASSUME IInv, IndexInv, SameContents, UNCHANGED <<lru, hash, store, truth>>,
         pc'[Client] = "ctor" => pc[Client] = "ctor",
         pc'[Client] = "push" <=> pc[Client] = "push",
         pc[Client] = "push" => Current' = Current /\ Target' = Target
  PROVE  IndexInv'
<1>1. \A f \in Entries(lru) : f \in Files
  BY Types DEF Entries
<1> QED
  BY <1>1 DEF IndexInv, SameContents, Live

LEMMA StoreStill ==
  ASSUME IInv, QInv, StoreInv, SameContents, UNCHANGED store, aborted = "no",
         \A f \in Files :
            Settled(f)' /\ ~file'[f].modified /\ Reported(f)' =>
            Settled(f) /\ ~file[f].modified /\ Reported(f),
         \A j \in Pending' : j.op # "read" => j \in Pending,
         \A t \in Threads : pc'[t] \in {"readcb", "evictcb", "flushcb"} =>
            \/ pc[t] = pc'[t] /\ job'[t] = job[t]
            \/ /\ pc'[t] = "readcb"
               /\ aborted' = "no" => job'[t].data = store[job'[t].id]
  PROVE  StoreInv'
<1>1. \A f \in Files : Serialized(f)' = Serialized(f)
  BY DEF SameContents, Serialized
<1>2. \A j \in Pending : j.file \in Files
  BY DEF QInv, JobInv
<1>3. \A f \in Files : Settled(f)' /\ ~file'[f].modified /\ Reported(f)' =>
        store'[file'[f].id] = Serialized(f)'
  BY <1>1 DEF StoreInv, SameContents
<1>4. ASSUME NEW j \in Pending', j.op # "read" PROVE j.data = Serialized(j.file)'
  <2>1. j \in Pending /\ j.file \in Files
    BY <1>2, <1>4
  <2>2. file'[j.file].nodes = file[j.file].nodes
        /\ file'[j.file].child = file[j.file].child
    BY <2>1 DEF SameContents
  <2> QED
    BY <1>4, <2>1, <2>2 DEF StoreInv, Serialized
<1>5. \A t \in Threads : pc'[t] \in {"evictcb", "flushcb"} =>
        store'[job'[t].id] = job'[t].data
  BY DEF StoreInv
<1>6. \A t \in Threads : pc'[t] = "readcb" /\ aborted' = "no" =>
        job'[t].data = store'[job'[t].id]
  BY DEF StoreInv
<1> QED
  BY <1>3, <1>4, <1>5, <1>6 DEF StoreInv

\* No other file becomes one that must be written.
LEMMA WrittenStill ==
  ASSUME IInv, WrittenInv, UNCHANGED lru, aborted = "no",
         pc'[Client] = "flush" => pc[Client] = "flush" /\ maint' = maint,
         pc'[Client] \in {"destroy", "destroydec"} =>
            pc[Client] \in {"destroy", "destroydec"},
         pc'[Client] = "gone" => pc[Client] = "gone",
         \A f \in Files : /\ Live(f)' => Live(f)
                          /\ Dirty(f)' => Dirty(f)
                          /\ Dirty(f)' /\ f \in Flushing => f \in Flushing'
  PROVE  WrittenInv'
<1>1. pc'[Client] = "flush" => \A f \in Files : Passed(f)' <=> Passed(f)
  BY DEF Passed
<1> QED
  BY <1>1 DEF WrittenInv

\* The client hardly moves, and a LOADED file in use stays LOADED.
LEMMA CallerStill ==
  ASSUME IInv, CallerInv, UNCHANGED <<cl, handles, truth>>,
         \/ pc'[Client] = pc[Client]
         \/ /\ pc[Client] \notin {"ctor", "create", "inc", "drop"}
            /\ pc'[Client] \notin {"ctor", "create", "inc", "drop"},
         \A f \in Files : file[f].state = "LOADED" /\ file[f].users # 0 =>
            file'[f].state = "LOADED"
  PROVE  CallerInv'
<1>1. /\ \A h \in Handles : handles[h].file \in Files \cup {NoFile}
      /\ cl.file \in Files \cup {NoFile} /\ cl.pfile \in Files \cup {NoFile}
  BY DataTypes DEF Handle, Call
<1>2. Linking' <=> Linking
  BY DEF Linking
<1>3. Made' <=> Made
  BY DEF Made
<1>0. pc'[Client] \in {"create", "inc", "drop"} =>
        pc[Client] \in {"create", "inc", "drop"}
  OBVIOUS
<1>4. ASSUME Linking PROVE file'[handles[cl.from].file].state = "LOADED"
  BY <1>1, <1>4, UsedFiles DEF CallerInv
<1>5. ASSUME cl.stage \in {"child", "created"}, cl.pfile # NoFile
      PROVE  file'[cl.pfile].state = "LOADED"
  BY <1>1, <1>5, UsedFiles DEF CallerInv
<1>6. ASSUME cl.stage \in {"root", "created"} \/ pc[Client] \in {"create", "inc", "drop"}
      PROVE  file'[cl.file].state = "LOADED"
  <2>1. cl.stage # "none" /\ cl.file # NoFile
    BY <1>6 DEF IInv, CallInv, TypeOK, Call
  <2> QED
    BY <1>1, <1>6, <2>1, UsedFiles DEF CallerInv
<1> QED
  BY <1>0, <1>2, <1>3, <1>4, <1>5, <1>6 DEF CallerInv

\* A step that changes no file, neither the index nor the storage: what is
\* left to show is about the call of the client.
LEMMA Steady ==
  ASSUME IInv, QInv, DInv, UNCHANGED <<file, lru, hash, store, truth, handles>>,
         aborted = "no", Pending' = Pending, CallerInv',
         \A t \in Threads : pc'[t] \in {"readcb", "evictcb", "flushcb"} =>
            pc[t] = pc'[t] /\ job'[t] = job[t],
         pc'[Client] = "ctor" => pc[Client] = "ctor",
         pc'[Client] = "push" <=> pc[Client] = "push",
         pc[Client] = "push" => Current' = Current /\ Target' = Target,
         pc'[Client] = "flush" => pc[Client] = "flush" /\ maint' = maint,
         pc'[Client] \in {"destroy", "destroydec"} =>
            pc[Client] \in {"destroy", "destroydec"},
         pc'[Client] = "gone" => pc[Client] = "gone",
         \A f \in Files : Unlinked(f) => Unlinked(f)',
         cl'.stage = "child" /\ cl'.id # Root => Known(cl'.id)
  PROVE  DInv'
<1>1. SameContents
  BY DEF SameContents
<1>2. Reading' = Reading /\ Flushing' = Flushing
  BY DEF Reading, Flushing
<1>3. IndexInv'
  BY <1>1, IndexStill DEF DInv
<1>4. DataInv'
  BY <1>1, <1>2, DataStill DEF DInv
<1>5. ChildInv'
  BY <1>1, <1>2, ChildStill DEF DInv
<1>6. StoreInv'
  <2>1. \A f \in Files : /\ Settled(f)' <=> Settled(f)
                         /\ Reported(f)' <=> Reported(f)
    BY DEF Settled, Reported
  <2> QED
    BY <1>1, <2>1, StoreStill DEF DInv
<1>7. WrittenInv'
  <2>1. \A f \in Files : (Dirty(f)' <=> Dirty(f)) /\ (Live(f)' <=> Live(f))
    BY DEF Settled, Dirty, Live
  <2> QED
    BY <1>2, <2>1, WrittenStill DEF DInv
<1> QED
  BY <1>3, <1>4, <1>5, <1>6, <1>7 DEF DInv

\* The step of a thread that does not touch the client.
LEMMA ThreadSteady ==
  ASSUME IInv, QInv, DInv,
         UNCHANGED <<file, lru, hash, store, truth, handles, cl>>,
         aborted = "no", Pending' = Pending, pc'[Client] = pc[Client],
         pc[Client] = "flush" => maint' = maint,
         \A t \in Threads : pc'[t] \in {"readcb", "evictcb", "flushcb"} =>
            pc[t] = pc'[t] /\ job'[t] = job[t]
  PROVE  DInv'
<1>1. CallerInv'
  BY CallerStill DEF DInv
<1>2. Current' = Current /\ Target' = Target
  BY DEF Current, Target
<1>3. \A f \in Files : Unlinked(f) => Unlinked(f)'
  BY DEF Unlinked
<1>4. cl'.stage = "child" /\ cl'.id # Root => Known(cl'.id)
  BY DEF DInv, ChildInv
<1> QED
  BY <1>1, <1>2, <1>3, <1>4, Steady

(***************************************************************************)
(* Steps without effect on the contents                                    *)
(***************************************************************************)

LEMMA TakeJobData ==
  ASSUME IInv, QInv, DInv, NEW t \in Threads, TakeJob(t) PROVE DInv'
<1>1. /\ UNCHANGED <<file, lru, hash, store, truth, handles, cl, maint>>
      /\ aborted = "no"
      /\ pc' = [pc EXCEPT ![t] = "io"] /\ job' = [job EXCEPT ![t] = Head(queue)]
  BY DEF TakeJob, At, Goto, treeVars, clientVars
<1>2. /\ pc'[Client] = pc[Client] /\ pc'[t] = "io"
      /\ \A u \in Threads : u # t => pc'[u] = pc[u] /\ job'[u] = job[u]
  BY <1>1, Types
<1>3. Pending' = Pending
  BY TakeJobKeeps
<1> QED
  BY <1>1, <1>2, <1>3, ThreadSteady

\* A thread that runs no callback moves to a place where it runs none.
LEMMA ThreadMoves ==
  ASSUME IInv, QInv, DInv, NEW t \in Threads, NEW p, Goto(t, p),
         p \notin {"readcb", "evictcb", "flushcb"},
         UNCHANGED <<file, lru, hash, store, truth, handles, cl>>,
         aborted = "no", Pending' = Pending,
         pc[Client] = "flush" => maint' = maint,
         \A u \in Threads : u # t => job'[u] = job[u]
  PROVE  DInv'
<1>1. /\ pc'[Client] = pc[Client] /\ pc'[t] = p
      /\ \A u \in Threads : u # t => pc'[u] = pc[u]
  BY Types DEF Goto
<1> QED
  BY <1>1, ThreadSteady

LEMMA ReadNodeFileCbLoadData ==
  ASSUME IInv, QInv, DInv, NEW t \in Threads, ReadNodeFileCbLoad(t) PROVE DInv'
<1>1. Pending' = Pending
  BY ReadNodeFileCbLoadQuiet
<1> QED
  BY <1>1, ThreadMoves
     DEF ReadNodeFileCbLoad, At, treeVars, storageVars, clientVars

LEMMA ReadNodeFileCbStoreData ==
  ASSUME IInv, QInv, DInv, NEW t \in Threads, ReadNodeFileCbStore(t) PROVE DInv'
<1>1. Pending' = Pending
  BY ReadNodeFileCbStoreQuiet
<1> QED
  BY <1>1, ThreadMoves DEF ReadNodeFileCbStore, At, storageVars, clientVars

LEMMA EvictNodeFileCbStoreData ==
  ASSUME IInv, QInv, DInv, NEW t \in Threads, EvictNodeFileCbStore(t)
  PROVE  DInv'
<1>1. Pending' = Pending
  BY EvictNodeFileCbStoreQuiet
<1>2. \A u \in Threads : u # t => job'[u] = job[u]
  BY Types DEF EvictNodeFileCbStore
<1> QED
  BY <1>1, <1>2, ThreadMoves DEF EvictNodeFileCbStore, At, clientVars

\* The client moves within a call, from outside file_cache_mutex or from a
\* scan, without changing anything else.
LEMMA ClientMoves ==
  ASSUME IInv, QInv, DInv, NEW p, Goto(Client, p),
         UNCHANGED <<file, lru, hash, store, truth, handles, job>>,
         aborted = "no", Pending' = Pending, CallerInv',
         p \notin {"ctor", "push", "flush", "destroy", "destroydec", "gone"},
         pc[Client] # "push",
         \A f \in Files : Unlinked(f) => Unlinked(f)',
         cl'.stage = "child" /\ cl'.id # Root => Known(cl'.id)
  PROVE  DInv'
<1>1. pc'[Client] = p /\ \A u \in Threads : pc'[u] = pc[u]
  BY Types DEF Goto
<1> QED
  BY <1>1, Steady

\* cacheMaintenance moves within a call of the client.
LEMMA ClientScans ==
  ASSUME IInv, QInv, DInv, NEW p, Goto(Client, p),
         pc[Client] \in {"maint", "scan", "scandec"},
         p \in {"scan", "scandec", "link"} \/ (p = "create" /\ cl.stage = "root"),
         UNCHANGED <<file, lru, hash, store, truth, handles, job, cl>>,
         aborted = "no", Pending' = Pending
  PROVE  DInv'
<1>1. pc'[Client] = p
  BY Types DEF Goto
<1>2. Linking' => Linking
  BY <1>1 DEF Linking
<1>3. ~Made' /\ ~Made
  BY <1>1 DEF Made
<1>4. CallerInv'
  BY <1>1, <1>2, <1>3 DEF DInv, CallerInv
<1>5. \A f \in Files : Unlinked(f) => Unlinked(f)'
  BY DEF Unlinked
<1>6. cl'.stage = "child" /\ cl'.id # Root => Known(cl'.id)
  BY DEF DInv, ChildInv
<1> QED
  BY <1>4, <1>5, <1>6, ClientMoves

LEMMA MaintBeginData ==
  ASSUME IInv, QInv, DInv, NEW x \in Actors, MaintBegin(x) PROVE DInv'
<1>1. Pending' = Pending
  BY MaintBeginQuiet
<1>2. pc[Client] # "flush"
  BY MutexFree, Types DEF MaintBegin
<1>3. CASE x = Client
  BY <1>1, <1>3, ClientScans
     DEF MaintBegin, At, treeVars, storageVars, clientVars
<1>4. CASE x \in Threads
  BY <1>1, <1>2, <1>4, ThreadMoves
     DEF MaintBegin, At, treeVars, storageVars, clientVars
<1> QED
  BY <1>3, <1>4 DEF Actors

LEMMA MaintSkipData ==
  ASSUME IInv, QInv, DInv, NEW x \in Actors, MaintSkip(x) PROVE DInv'
<1>1. Pending' = Pending
  BY MaintSkipQuiet
<1>2. pc[Client] # "flush"
  BY ScanNoFlush DEF MaintSkip, Scanning, At
<1> QED
  BY <1>1, <1>2, ThreadSteady
     DEF MaintSkip, Scanning, At, treeVars, storageVars, clientVars

LEMMA MaintDeleteStoreData ==
  ASSUME IInv, QInv, DInv, NEW x \in Actors, MaintDeleteStore(x) PROVE DInv'
<1>1. Pending' = Pending
  BY MaintDeleteStoreQuiet
<1>2. pc[Client] # "flush"
  BY ScanNoFlush DEF MaintDeleteStore, At
<1>3. CASE x = Client
  BY <1>1, <1>3, ClientScans DEF MaintDeleteStore, At, storageVars, clientVars
<1>4. CASE x \in Threads
  BY <1>1, <1>2, <1>4, ThreadMoves
     DEF MaintDeleteStore, At, storageVars, clientVars
<1> QED
  BY <1>3, <1>4 DEF Actors

LEMMA MaintEndData ==
  ASSUME IInv, QInv, DInv, NEW x \in Actors, MaintEnd(x) PROVE DInv'
<1>1. Pending' = Pending
  BY MaintEndQuiet
<1>2. pc[Client] # "flush"
  BY ScanNoFlush DEF MaintEnd, At
<1>3. CASE x = Client
  BY <1>1, <1>3, ClientScans DEF MaintEnd, At, treeVars, clientVars
<1>4. CASE x \in Threads
  <2>1. x # Client /\ \A u \in Threads : u # x => job'[u] = job[u]
    BY <1>4, Types DEF MaintEnd
  <2> QED
    BY <1>1, <1>2, <1>4, <2>1, ThreadMoves DEF MaintEnd, At, treeVars, clientVars
<1> QED
  BY <1>3, <1>4 DEF Actors

(***************************************************************************)
(* The storage threads                                                     *)
(***************************************************************************)

LEMMA StorageGetData ==
  ASSUME IInv, QInv, DInv, NEW t \in Threads, StorageGet(t) PROVE DInv'
<1> DEFINE j == [job[t] EXCEPT !.data = store[job[t].id]]
<1>0. /\ UNCHANGED <<file, lru, hash, store, truth, handles, cl, maint>>
      /\ aborted = "no" /\ job[t].op = "read"
      /\ pc' = [pc EXCEPT ![t] = "readcb"]
      /\ \/ job' = job /\ aborted' # "no"
         \/ job' = [job EXCEPT ![t] = j]
  BY DEF StorageGet, At, Goto, treeVars, clientVars
<1>1. /\ j.op = "read" /\ j.file = job[t].file /\ j.id = job[t].id
      /\ j.data = store[job[t].id]
  <2>1. job[t] \in Job
    BY Types
  <2> QED
    BY <1>0, <2>1 DEF Job
<1> HIDE DEF j
<1>2. /\ pc'[Client] = pc[Client] /\ pc'[t] = "readcb"
      /\ \A u \in Threads : u # t => pc'[u] = pc[u] /\ job'[u] = job[u]
      /\ (job'[t] = job[t] /\ aborted' # "no") \/ job'[t] = j
  BY <1>0, Types
<1>3. SameContents
  BY <1>0 DEF SameContents
<1>4. /\ Flushing' = Flushing
      /\ \A k \in Pending' : k \in Pending \/ k = job'[t]
      /\ \A k \in Pending : k \in Pending' \/ k = job[t]
      /\ job'[t] \in Pending' /\ job[t] \in Pending
  BY StorageGetKeeps
<1>5. job'[t].op = "read" /\ job'[t].file = job[t].file
  BY <1>0, <1>1, <1>2
<1>6. Reading' = Reading
  BY <1>0, <1>4, <1>5 DEF Reading
<1>7. IndexInv'
  BY <1>0, <1>2, <1>3, IndexStill DEF DInv, Current, Target
<1>8. CallerInv'
  BY <1>0, <1>2, CallerStill DEF DInv
<1>9. DataInv'
  BY <1>0, <1>3, <1>6, DataStill DEF DInv
<1>10. ChildInv'
  BY <1>0, <1>3, <1>6, ChildStill DEF DInv, ChildInv, Unlinked
<1>11. StoreInv'
  <2>1. \A f \in Files : Settled(f)' /\ ~file'[f].modified /\ Reported(f)' =>
          Settled(f) /\ ~file[f].modified /\ Reported(f)
    BY <1>0 DEF Settled, Reported
  <2>2. \A k \in Pending' : k.op # "read" => k \in Pending
    BY <1>4, <1>5
  <2>3. aborted' = "no" => job'[t].data = store[job'[t].id]
    BY <1>1, <1>2
  <2>4. \A u \in Threads : pc'[u] \in {"readcb", "evictcb", "flushcb"} =>
            \/ pc[u] = pc'[u] /\ job'[u] = job[u]
            \/ /\ pc'[u] = "readcb"
               /\ aborted' = "no" => job'[u].data = store[job'[u].id]
    BY <1>2, <2>3
  <2> QED
    BY <1>0, <1>3, <2>1, <2>2, <2>4, StoreStill DEF DInv
<1>12. WrittenInv'
  <2>1. \A f \in Files : (Dirty(f)' <=> Dirty(f)) /\ (Live(f)' <=> Live(f))
    BY <1>0 DEF Settled, Dirty, Live
  <2> QED
    BY <1>0, <1>2, <1>4, <2>1, WrittenStill DEF DInv
<1> QED
  BY <1>7, <1>8, <1>9, <1>10, <1>11, <1>12 DEF DInv

\* A file with a request under way is not one that was created just now.
LEMMA RequestLinked ==
  ASSUME IInv, QInv, DInv, NEW j \in Pending, pc[Client] = "ctor" \/ Unlinked(j.file)
  PROVE  FALSE
<1>1. j.file \in Files /\ Live(j.file)
  BY RequestFiles
<1>2. pc[Client] # "ctor"
  BY <1>1 DEF DInv, IndexInv
<1>3. Unlinked(j.file)
  BY <1>2
<1>4. file[j.file].state = "LOADED"
  BY <1>3 DEF DInv, CallerInv, Unlinked
<1>5. pc[Client] # "flush"
  BY <1>3 DEF IInv, CallInv, Unlinked
<1> QED
  BY <1>4, <1>5, LoadedIdle

LEMMA StoragePutData ==
  ASSUME IInv, QInv, DInv, NEW t \in Threads, StoragePut(t) PROVE DInv'
<1> DEFINE g == job[t].file
           d == job[t].data
           k == job[t].id
<1>0. /\ UNCHANGED <<file, lru, hash, truth, handles, cl, maint, job>>
      /\ aborted = "no" /\ job[t].op # "read" /\ pc[t] = "io"
      /\ pc' = [pc EXCEPT ![t] = IF job[t].op = "evict" THEN "evictcb" ELSE "flushcb"]
      /\ store' = [store EXCEPT ![k] = d]
  BY DEF StoragePut, At, Goto, treeVars, clientVars
<1>1. /\ pc'[Client] = pc[Client] /\ pc'[t] # "readcb"
      /\ \A u \in Threads : u # t => pc'[u] = pc[u]
  BY <1>0, Types
<1>2. SameContents
  BY <1>0 DEF SameContents
<1>3. Pending' = Pending
  BY StoragePutKeeps
<1>4. Reading' = Reading /\ Flushing' = Flushing
  BY <1>3 DEF Reading, Flushing
<1>5. job[t] \in Pending
  BY <1>0, PendingWhere DEF Working
<1>6. g \in Files /\ Live(g) /\ file[g].id = k /\ g \notin Reading
  BY <1>0, <1>5, RequestFiles
<1>7. d = Serialized(g) /\ k \in Ids
  BY <1>0, <1>5, Types DEF DInv, StoreInv, Job
<1> HIDE DEF g, d, k
<1>8. store'[k] = Serialized(g) /\ \A i \in Ids : i # k => store'[i] = store[i]
  BY <1>0, <1>7, DataTypes
<1>9. \A f \in Files : Live(f) /\ file[f].id = k => f = g
  BY <1>6, Unique DEF DInv
<1>10. \A f \in Files : file[f].id \in Ids
  BY Types DEF NodeFile
<1>11. IndexInv'
  <2>1. pc[Client] # "ctor"
    BY <1>5, RequestLinked
  <2> QED
    BY <1>0, <1>1, <2>1 DEF DInv, IndexInv, Live, Current, Target
<1>12. CallerInv'
  BY <1>0, <1>1, CallerStill DEF DInv
<1>13. DataInv'
  <2>1. \A f \in Files : Live(f) /\ f \in Reading => file[f].id # k
    BY <1>6, <1>9
  <2> QED
    BY <1>0, <1>4, <1>6, <1>8, <1>10, <2>1 DEF DInv, DataInv, Live
<1>14. ChildInv'
  <2>1. ASSUME NEW i \in Ids, Known(i) PROVE Known(i)'
    <3>1. Parent[i] \in Ids
      BY DataTypes
    <3> QED
      BY <1>0, <1>4, <1>6, <1>8, <2>1, <3>1 DEF Known, Live
  <2>2. k # Root => Known(k)
    <3>1. ~Unlinked(g)
      BY <1>5, RequestLinked DEF g
    <3> QED
      BY <1>6, <3>1 DEF DInv, ChildInv
  <2>3. \A i \in Ids \ {Root} :
          store'[i] # Empty \/ (\E s \in Shorts : truth'[i][s] # Absent) => Known(i)'
    BY <1>0, <1>8, <2>1, <2>2 DEF DInv, ChildInv
  <2>4. \A f \in Files : Live(f)' /\ file'[f].id # Root /\ ~Unlinked(f)' =>
          Known(file[f].id)'
    BY <1>0, <1>10, <2>1 DEF DInv, ChildInv, Live, Unlinked
  <2>5. cl'.stage = "child" /\ cl'.id # Root => Known(cl.id)'
    <3>1. cl.id \in Ids
      BY DataTypes DEF Call
    <3> QED
      BY <1>0, <2>1, <3>1 DEF DInv, ChildInv
  <2> QED
    BY <1>0, <2>3, <2>4, <2>5 DEF ChildInv
<1>15. StoreInv'
  <2>1. \A f \in Files : Serialized(f)' = Serialized(f)
    BY <1>0 DEF Serialized
  <2>2. \A f \in Files : Settled(f)' /\ ~file'[f].modified /\ Reported(f)' =>
          store'[file[f].id] = Serialized(f)
    <3> SUFFICES ASSUME NEW f \in Files, Settled(f), ~file[f].modified, Reported(f)
                 PROVE  store'[file[f].id] = Serialized(f)
      BY <1>0 DEF Settled, Reported
    <3>1. CASE file[f].id = k
      <4>1. f = g
        BY <1>9, <3>1 DEF Settled, Live
      <4> QED
        BY <1>8, <3>1, <4>1
    <3>2. CASE file[f].id # k
      BY <1>8, <1>10, <3>2 DEF DInv, StoreInv
    <3> QED
      BY <3>1, <3>2
  <2>3. \A j \in Pending' : j.op # "read" => j.data = Serialized(j.file)
    BY <1>3 DEF DInv, StoreInv
  <2>4. ASSUME NEW u \in Threads, pc'[u] \in {"evictcb", "flushcb"}
        PROVE  store'[job[u].id] = job[u].data
    <3>1. CASE u = t
      BY <3>1, <1>7, <1>8 DEF k, d
    <3>2. CASE u # t
      <4>1. pc[u] \in {"evictcb", "flushcb"} /\ job[u] \in Pending
            /\ job[u].op # "read" /\ job[u].id \in Ids
        BY <1>1, <2>4, <3>2, PendingWhere, Types DEF Working, QInv, JobInv, Fits, Job
      <4>2. CASE job[u].id = k
        <5>1. job[u].file = g
          BY <1>9, <4>1, <4>2, RequestFiles
        <5>2. job[u].data = Serialized(g)
          BY <4>1, <5>1 DEF DInv, StoreInv
        <5> QED
          BY <1>8, <4>2, <5>2
      <4>3. CASE job[u].id # k
        BY <1>8, <4>1, <4>3 DEF DInv, StoreInv
      <4> QED
        BY <4>2, <4>3
    <3> QED
      BY <3>1, <3>2
  <2>5. ASSUME NEW u \in Threads, pc'[u] = "readcb"
        PROVE  job[u].data = store'[job[u].id]
    <3>1. pc[u] = "readcb" /\ job[u] \in Pending /\ job[u].op = "read"
          /\ job[u].id \in Ids
      BY <1>1, <2>5, PendingWhere, Types DEF Working, QInv, JobInv, Fits, Job
    <3>2. job[u].file \in Reading /\ job[u].file \in Files /\ Live(job[u].file)
          /\ file[job[u].file].id = job[u].id
      BY <3>1, RequestFiles DEF Reading
    <3>3. job[u].id # k
      BY <1>6, <1>9, <3>2
    <3> QED
      BY <1>0, <1>8, <3>1, <3>3 DEF DInv, StoreInv
  <2>6. \A j \in Pending' : j.op # "read" => j.data = Serialized(j.file)'
    BY <1>0, <2>3 DEF Serialized
  <2> QED
    BY <1>0, <2>1, <2>2, <2>4, <2>5, <2>6 DEF StoreInv
<1>16. WrittenInv'
  <2>1. \A f \in Files : (Dirty(f)' <=> Dirty(f)) /\ (Live(f)' <=> Live(f))
    BY <1>0 DEF Settled, Dirty, Live
  <2> QED
    BY <1>0, <1>1, <1>4, <2>1, WrittenStill DEF DInv
<1> QED
  BY <1>11, <1>12, <1>13, <1>14, <1>15, <1>16 DEF DInv

\* A callback that finds its file in a state it does not expect aborts.
LEMMA AnsweredNothing ==
  ASSUME IInv, QInv, DInv, NEW t \in Threads, pc[t] = "evictcb",
         UNCHANGED <<file, lru, hash, store, truth, handles, cl, maint>>,
         queue' = queue, aborted = "no", pc'[t] \notin Working,
         pc'[Client] = pc[Client],
         \A u \in Threads : u # t => pc'[u] = pc[u] /\ job'[u] = job[u]
  PROVE  DInv'
<1>1. pc[t] \in Working /\ job[t].op = "evict"
  BY DEF Working, QInv, JobInv, Fits
<1>2. Pending = Pending' \cup {job[t]} /\ Flushing' = Flushing
  BY <1>1, RequestAnswered DEF QInv
<1>3. Reading' = Reading
  BY <1>1, <1>2 DEF Reading
<1>4. SameContents
  BY DEF SameContents
<1>5. IndexInv'
  BY <1>4, IndexStill DEF DInv, Current, Target
<1>6. CallerInv'
  BY CallerStill DEF DInv
<1>7. DataInv'
  BY <1>3, <1>4, DataStill DEF DInv
<1>8. ChildInv'
  BY <1>3, <1>4, ChildStill DEF DInv, ChildInv, Unlinked
<1>9. StoreInv'
  <2>1. \A f \in Files : Settled(f)' /\ ~file'[f].modified /\ Reported(f)' =>
          Settled(f) /\ ~file[f].modified /\ Reported(f)
    BY DEF Settled, Reported
  <2>2. \A u \in Threads : pc'[u] \in {"readcb", "evictcb", "flushcb"} =>
          pc[u] = pc'[u] /\ job'[u] = job[u]
    BY DEF Working
  <2> QED
    BY <1>2, <1>4, <2>1, <2>2, StoreStill DEF DInv
<1>10. WrittenInv'
  <2>1. \A f \in Files : (Dirty(f)' <=> Dirty(f)) /\ (Live(f)' <=> Live(f))
    BY DEF Settled, Dirty, Live
  <2> QED
    BY <1>2, <2>1, WrittenStill DEF DInv
<1> QED
  BY <1>5, <1>6, <1>7, <1>8, <1>9, <1>10 DEF DInv

\* The callback of a write marks its file as written.
LEMMA Acknowledged ==
  ASSUME IInv, QInv, DInv, NEW t \in Threads, pc[t] \in {"evictcb", "flushcb"},
         NEW g, g = job[t].file, NEW nf, file' = [file EXCEPT ![g] = nf],
         nf.id = file[g].id, nf.nodes = file[g].nodes, nf.child = file[g].child,
         nf.modified = FALSE, nf.state # "FREE",
         file[g].state = "LOADED" => nf.state = "LOADED",
         UNCHANGED <<lru, hash, store, truth, handles, cl, maint>>,
         queue' = queue, aborted = "no", pc'[t] \notin Working,
         pc'[Client] = pc[Client],
         \A u \in Threads : u # t => pc'[u] = pc[u] /\ job'[u] = job[u]
  PROVE  DInv'
<1>1. pc[t] \in Working /\ job[t].op # "read"
  BY DEF Working, QInv, JobInv, Fits
<1>2. /\ Pending = Pending' \cup {job[t]}
      /\ \A k \in Pending' : k \in Pending
      /\ \A f \in Flushing : f # g => f \in Flushing'
  <2>1. /\ Pending = Pending' \cup {job[t]}
        /\ \A k \in Pending' : k \in Pending
        /\ Flushing' = IF job[t].op = "flush" THEN Flushing \ {job[t].file}
                                              ELSE Flushing
    BY <1>1, RequestAnswered DEF QInv
  <2> QED
    BY <2>1
<1>3. Reading' = Reading
  BY <1>1, <1>2 DEF Reading
<1>4. job[t] \in Pending /\ g \in Files /\ Live(g) /\ file[g].id = job[t].id
  BY <1>1, PendingWhere, RequestFiles
<1>5. file'[g] = nf /\ \A f \in Files : f # g => file'[f] = file[f]
  BY <1>4, Types
<1>6. SameContents
  BY <1>4, <1>5 DEF SameContents, Live
<1>7. IndexInv'
  BY <1>6, IndexStill DEF DInv, Current, Target
<1>8. CallerInv'
  BY <1>5, CallerStill DEF DInv
<1>9. DataInv'
  BY <1>3, <1>6, DataStill DEF DInv
<1>10. ChildInv'
  BY <1>3, <1>6, ChildStill DEF DInv, ChildInv, Unlinked
<1>11. StoreInv'
  <2>1. store[file[g].id] = Serialized(g)
    BY <1>1, <1>4 DEF DInv, StoreInv
  <2>2. \A f \in Files : Serialized(f)' = Serialized(f) /\ file'[f].id = file[f].id
    BY <1>6 DEF SameContents, Serialized
  <2>3. \A f \in Files : Settled(f)' /\ ~file'[f].modified /\ Reported(f)' =>
          store'[file'[f].id] = Serialized(f)'
    <3> SUFFICES ASSUME NEW f \in Files,
                        Settled(f)', ~file'[f].modified, Reported(f)'
                 PROVE  store[file[f].id] = Serialized(f)
      BY <2>2
    <3>1. CASE f = g
      BY <2>1, <3>1
    <3>2. CASE f # g
      BY <1>5, <3>2 DEF DInv, StoreInv, Settled, Reported
    <3> QED
      BY <3>1, <3>2
  <2>4. \A j \in Pending' : j.op # "read" => j.data = Serialized(j.file)'
    <3> SUFFICES ASSUME NEW j \in Pending', j.op # "read"
                 PROVE  j.data = Serialized(j.file)'
      OBVIOUS
    <3>1. PICK f \in Files : f = j.file
      BY <1>2 DEF QInv, JobInv
    <3>2. j.data = Serialized(f)'
      BY <1>2, <2>2, <3>1 DEF DInv, StoreInv
    <3> QED
      BY <3>1, <3>2
  <2>5. \A u \in Threads : pc'[u] \in {"readcb", "evictcb", "flushcb"} =>
          pc[u] = pc'[u] /\ job'[u] = job[u]
    BY DEF Working
  <2> QED
    BY <2>3, <2>4, <2>5 DEF DInv, StoreInv
<1>12. WrittenInv'
  <2>1. \A f \in Files : /\ Live(f)' => Live(f)
                         /\ Dirty(f)' => Dirty(f) /\ f # g
    BY <1>5, <1>4 DEF Settled, Dirty, Live
  <2> QED
    BY <1>2, <2>1, WrittenStill DEF DInv
<1> QED
  BY <1>7, <1>8, <1>9, <1>10, <1>11, <1>12 DEF DInv

LEMMA FlushNodeFileCbData ==
  ASSUME IInv, QInv, DInv, NEW t \in Threads, FlushNodeFileCb(t) PROVE DInv'
<1> DEFINE g == job[t].file
           nf == [file[g] EXCEPT !.modified = FALSE]
<1>1. /\ pc[t] = "flushcb" /\ aborted = "no" /\ queue' = queue
      /\ file' = [file EXCEPT ![g] = nf]
      /\ UNCHANGED <<lru, hash, store, truth, handles, cl, maint>>
  BY DEF FlushNodeFileCb, At, clientVars
<1>2. /\ pc'[t] \notin Working /\ pc'[Client] = pc[Client]
      /\ \A u \in Threads : u # t => pc'[u] = pc[u] /\ job'[u] = job[u]
  BY Types DEF FlushNodeFileCb, Goto, Working
<1>3. file[g] \in NodeFile /\ Live(g)
  <2>1. job[t] \in Pending
    BY <1>1, PendingWhere DEF Working
  <2> QED
    BY <2>1, RequestFiles, Types
<1>4. /\ nf.id = file[g].id /\ nf.nodes = file[g].nodes
      /\ nf.child = file[g].child /\ nf.modified = FALSE
      /\ nf.state = file[g].state
  BY <1>3 DEF NodeFile
<1> HIDE DEF nf
<1> QED
  BY <1>1, <1>2, <1>3, <1>4, Acknowledged DEF Live

LEMMA EvictNodeFileCbRequestedData ==
  ASSUME IInv, QInv, DInv, NEW t \in Threads, EvictNodeFileCbRequested(t)
  PROVE  DInv'
<1> DEFINE g == job[t].file
           nf == [file[g] EXCEPT !.modified = FALSE, !.state = "LOADED"]
<1>1. /\ pc[t] = "evictcb" /\ aborted = "no" /\ queue' = queue /\ job' = job
      /\ UNCHANGED <<lru, hash, store, truth, handles, cl, maint>>
      /\ file' = file \/ file' = [file EXCEPT ![g] = nf]
  BY DEF EvictNodeFileCbRequested, At, clientVars, storageVars
<1>2. /\ pc'[t] \notin Working /\ pc'[Client] = pc[Client]
      /\ \A u \in Threads : u # t => pc'[u] = pc[u]
  BY Types DEF EvictNodeFileCbRequested, Goto, Working
<1>3. file[g] \in NodeFile /\ Live(g)
  <2>1. job[t] \in Pending
    BY <1>1, PendingWhere DEF Working
  <2> QED
    BY <2>1, RequestFiles, Types
<1>4. /\ nf.id = file[g].id /\ nf.nodes = file[g].nodes
      /\ nf.child = file[g].child /\ nf.modified = FALSE
      /\ nf.state = "LOADED"
  BY <1>3 DEF NodeFile
<1> HIDE DEF nf
<1>5. CASE file' = file
  BY <1>1, <1>2, <1>5, AnsweredNothing
<1>6. CASE file' = [file EXCEPT ![g] = nf]
  BY <1>1, <1>2, <1>4, <1>6, Acknowledged
<1> QED
  BY <1>1, <1>5, <1>6

\* A file that nobody uses and the storage has is erased and deleted.
LEMMA DeletedData ==
  ASSUME IInv, QInv, DInv, NEW g \in Files, Live(g), file[g].users = 0,
         g \notin Reading, store[file[g].id] = Serialized(g),
         file' = [file EXCEPT ![g] = Unallocated],
         hash' = [hash EXCEPT ![file[g].id] = NoFile],
         lru' = RemoveFirst(lru, g),
         UNCHANGED <<store, truth, handles, cl>>, aborted = "no",
         pc[Client] # "flush",
         \/ pc'[Client] = pc[Client]
         \/ pc[Client] = "scan" /\ pc'[Client] = "scandec"
         \/ pc[Client] = "destroy" /\ pc'[Client] = "destroydec",
         \A j \in Pending' : j \in Pending /\ j.file # g,
         Reading' = Reading,
         \A u \in Threads : pc'[u] \in {"readcb", "evictcb", "flushcb"} =>
            pc[u] = pc'[u] /\ job'[u] = job[u]
  PROVE  DInv'
<1> DEFINE k == file[g].id
<1>0. k \in Ids /\ \A f \in Files : file[f].id \in Ids
  BY Types DEF NodeFile
<1>1. file'[g] = Unallocated /\ \A f \in Files : f # g => file'[f] = file[f]
  BY Types
<1>2. ~Live(g)' /\ \A f \in Files : f # g => (Live(f)' <=> Live(f))
  BY <1>1 DEF Live, Unallocated
<1>3. \A f \in Files : Live(f) /\ f # g => file[f].id # k
  BY Unique DEF DInv
<1>4. \A f \in Entries(lru) : f \in Files /\ Live(f)
  BY Types DEF Entries, QInv, ListInv, Live
<1>5. Entries(lru') = Entries(lru) \ {g}
  BY RemoveOnce, Types DEF QInv, ListInv
<1>6. pc'[Client] = "push" => g # Current /\ Current' = Current /\ Target' = Target
                              /\ pc[Client] = "push"
  <2> SUFFICES ASSUME pc'[Client] = "push" PROVE g # Current
    BY DEF Current, Target
  <2>1. pc[Client] = "push"
    OBVIOUS
  <2>2. cl.stage # "none"
    BY <2>1 DEF IInv, CallInv
  <2> QED
    BY <2>2, Unpinned DEF Current
<1>7. hash'[k] = NoFile /\ \A i \in Ids : i # k => hash'[i] = hash[i]
  BY <1>0, Types
<1>8. IndexInv'
  <2>1. \A f \in Entries(lru') : hash'[file'[f].id] = f
    BY <1>0, <1>1, <1>3, <1>4, <1>5, <1>7 DEF DInv, IndexInv
  <2>2. \A i \in Ids : hash'[i] # NoFile => hash'[i] \in Entries(lru')
    <3> SUFFICES ASSUME NEW i \in Ids, hash'[i] # NoFile
                 PROVE  hash'[i] \in Entries(lru')
      OBVIOUS
    <3>1. i # k /\ hash'[i] = hash[i]
      BY <1>7
    <3>2. hash[i] # g
      BY <3>1 DEF IInv, HashInv
    <3> QED
      BY <1>5, <3>1, <3>2 DEF DInv, IndexInv
  <2>3. \A f \in Files : Live(f)' =>
          hash'[file'[f].id] = f \/ (pc'[Client] = "push" /\ f = Current')
    <3> SUFFICES ASSUME NEW f \in Files, f # g, Live(f)
                 PROVE  hash[file[f].id] = f \/ (pc'[Client] = "push" /\ f = Current')
      BY <1>0, <1>1, <1>2, <1>3, <1>7
    <3> QED
      BY DEF DInv, IndexInv, Current
  <2>4. pc'[Client] = "push" => hash'[Target'] = NoFile
    <3>1. Target \in Ids
      BY TargetType
    <3> QED
      BY <1>6, <1>7, <3>1 DEF DInv, IndexInv
  <2>5. pc'[Client] # "ctor"
    BY DEF DInv, IndexInv
  <2> QED
    BY <2>1, <2>2, <2>3, <2>4, <2>5 DEF IndexInv
<1>9. CallerInv'
  BY <1>1, CallerStill DEF DInv
<1>10. DataInv'
  <2>1. file[g].nodes = truth[k] /\ store[k].nodes = truth[k]
    BY DEF DInv, DataInv, Serialized
  <2>2. \A f \in Files : Live(f)' /\ f \notin Reading' =>
          file'[f].nodes = truth'[file'[f].id]
    BY <1>1, <1>2 DEF DInv, DataInv
  <2>3. \A f \in Files : Live(f)' /\ f \in Reading' =>
          /\ store'[file'[f].id].nodes = truth'[file'[f].id]
          /\ \A s \in Shorts :
               file'[f].nodes[s] # Absent => truth'[file'[f].id][s] # Absent
    BY <1>1, <1>2 DEF DInv, DataInv
  <2>4. \A i \in Ids : (\A f \in Files : Live(f)' => file'[f].id # i) =>
          store'[i].nodes = truth'[i]
    <3> SUFFICES ASSUME NEW i \in Ids, i # k,
                        \A f \in Files : Live(f)' => file'[f].id # i
                 PROVE  store[i].nodes = truth[i]
      BY <2>1
    <3>1. \A f \in Files : Live(f) => file[f].id # i
      BY <1>1, <1>2
    <3> QED
      BY <3>1 DEF DInv, DataInv
  <2> QED
    BY <2>2, <2>3, <2>4 DEF DataInv
<1>11. ChildInv'
  <2>1. ASSUME NEW i \in Ids, Known(i) PROVE Known(i)'
    <3>1. \A f \in Files : Live(f)' /\ file'[f].id = Parent[i] /\ f \notin Reading'
            => i \in file'[f].child
      BY <1>1, <1>2, <2>1 DEF Known
    <3>2. ASSUME \A f \in Files : Live(f)' /\ file'[f].id = Parent[i] => f \in Reading'
          PROVE  i \in store'[Parent[i]].child
      <4>1. CASE Parent[i] = k
        <5>1. i \in file[g].child
          BY <2>1, <4>1 DEF Known
        <5> QED
          BY <4>1, <5>1 DEF Serialized
      <4>2. CASE Parent[i] # k
        <5>1. \A f \in Files : Live(f) /\ file[f].id = Parent[i] => f \in Reading
          BY <1>1, <1>2, <3>2, <4>2
        <5> QED
          BY <2>1, <5>1 DEF Known
      <4> QED
        BY <4>1, <4>2
    <3> QED
      BY <3>1, <3>2 DEF Known
  <2>2. \A i \in Ids \ {Root} :
          store'[i] # Empty \/ (\E s \in Shorts : truth'[i][s] # Absent) => Known(i)'
    BY <2>1 DEF DInv, ChildInv
  <2>3. ASSUME NEW f \in Files, Live(f)', file'[f].id # Root, ~Unlinked(f)'
        PROVE  Known(file[f].id)' /\ file'[f].id = file[f].id
    BY <1>0, <1>1, <1>2, <2>1, <2>3 DEF DInv, ChildInv, Unlinked
  <2>4. cl'.stage = "child" /\ cl'.id # Root => Known(cl.id)'
    <3>1. cl.id \in Ids
      BY DataTypes DEF Call
    <3> QED
      BY <2>1, <3>1 DEF DInv, ChildInv
  <2> QED
    BY <2>2, <2>3, <2>4 DEF ChildInv
<1>12. StoreInv'
  <2>1. \A f \in Files : f # g => Serialized(f)' = Serialized(f)
    BY <1>1 DEF Serialized
  <2>2. \A f \in Files : Settled(f)' /\ ~file'[f].modified /\ Reported(f)' =>
          store'[file'[f].id] = Serialized(f)'
    <3> SUFFICES ASSUME NEW f \in Files,
                        Settled(f)', ~file'[f].modified, Reported(f)'
                 PROVE  store[file'[f].id] = Serialized(f)'
      OBVIOUS
    <3>1. f # g
      BY <1>1 DEF Settled, Unallocated
    <3> QED
      BY <1>1, <2>1, <3>1 DEF DInv, StoreInv, Settled, Reported
  <2>3. ASSUME NEW j \in Pending', j.op # "read" PROVE j.data = Serialized(j.file)'
    <3>1. PICK f \in Files : f = j.file
      BY DEF QInv, JobInv
    <3>2. j.data = Serialized(f)'
      BY <2>1, <2>3, <3>1 DEF DInv, StoreInv
    <3> QED
      BY <3>1, <3>2
  <2> QED
    BY <2>2, <2>3 DEF DInv, StoreInv
<1>13. WrittenInv'
  <2>1. \A f \in Files : Dirty(f)' => Dirty(f)
    BY <1>1 DEF Settled, Dirty, Unallocated
  <2> QED
    BY <1>2, <2>1 DEF DInv, WrittenInv
<1> QED
  BY <1>8, <1>9, <1>10, <1>11, <1>12, <1>13 DEF DInv

\* A LOADED file without users and without changes is in the storage.
LEMMA CleanStored ==
  ASSUME IInv, DInv, NEW g \in Files, Settled(g), ~file[g].modified,
         file[g].users = 0
  PROVE  store[file[g].id] = Serialized(g)
<1>1. Reported(g)
  BY Unpinned DEF Reported
<1> QED
  BY <1>1 DEF DInv, StoreInv

\* A file that cacheMaintenance may evict has no users.
LEMMA EvictableUnused ==
  ASSUME IInv, NEW g \in Files, file[g].users <= 0
  PROVE  file[g].users = 0
<1>1. file[g].users = Pins(g) /\ Pins(g) \in Nat
  BY PinsNat DEF IInv, UserInv
<1> QED
  BY <1>1

LEMMA MaintDeleteData ==
  ASSUME IInv, QInv, DInv, NEW x \in Actors, MaintDelete(x)
  PROVE  /\ DInv'
         /\ \A f \in Files : Live(f) /\ ~Live(f)' =>
              file[f].users = 0 /\ store[file[f].id] = Serialized(f)
<1> DEFINE g == lru[maint.it]
<1>0. /\ pc[x] = "scan" /\ aborted = "no" /\ file[g].state = "LOADED"
      /\ file[g].users <= 0 /\ ~file[g].modified /\ maint.it > 0
      /\ file' = [file EXCEPT ![g] = Unallocated]
      /\ lru' = RemoveFirst(lru, g)
      /\ hash' = [hash EXCEPT ![file[g].id] = NoFile]
      /\ pc' = [pc EXCEPT ![x] = "scandec"]
      /\ UNCHANGED <<store, truth, handles, cl, job>>
  BY DEF MaintDelete, Scanning, At, Goto, Evictable, Erase, storageVars, clientVars
<1>1. g \in Files
  <2>1. maint.it \in 1..Len(lru)
    BY <1>0, Types DEF IInv, ScanInv
  <2> QED
    BY <2>1, Types
<1> HIDE DEF g
<1>2. pc[Client] # "flush"
  BY <1>0, ScanNoFlush
<1>3. file[g].users = 0 /\ Settled(g) /\ Live(g)
  BY <1>0, <1>1, EvictableUnused DEF Settled, Live
<1>4. store[file[g].id] = Serialized(g)
  BY <1>0, <1>1, <1>3, CleanStored
<1>5. \A j \in Pending : j.file # g
  BY <1>0, <1>2, LoadedIdle
<1>6. Pending' = Pending
  BY MaintDeleteKeeps
<1>7. Reading' = Reading /\ g \notin Reading
  BY <1>5, <1>6 DEF Reading
<1>8. \A u \in Actors : pc'[u] = IF u = x THEN "scandec" ELSE pc[u]
  BY <1>0, Types
<1>9. \/ pc'[Client] = pc[Client]
      \/ pc[Client] = "scan" /\ pc'[Client] = "scandec"
  BY <1>0, <1>8, Types
<1>10. \A u \in Threads : pc'[u] \in {"readcb", "evictcb", "flushcb"} =>
         pc[u] = pc'[u] /\ job'[u] = job[u]
  BY <1>0, <1>8, Types
<1>11. DInv'
  BY <1>0, <1>1, <1>2, <1>3, <1>4, <1>5, <1>6, <1>7, <1>9, <1>10, DeletedData
<1>12. \A f \in Files : f # g => file'[f] = file[f]
  BY <1>0, Types
<1> QED
  BY <1>3, <1>4, <1>11, <1>12 DEF Live

LEMMA DestroyFileData ==
  ASSUME IInv, QInv, DInv, NEW g \in Files, DestroyFile(g)
  PROVE  /\ DInv'
         /\ \A f \in Files : Live(f) /\ ~Live(f)' =>
              file[f].users = 0 /\ store[file[f].id] = Serialized(f)
<1>0. /\ pc[Client] = "destroy" /\ aborted = "no" /\ file[g].state = "LOADED"
      /\ file' = [file EXCEPT ![g] = Unallocated]
      /\ lru' = RemoveFirst(lru, g)
      /\ hash' = [hash EXCEPT ![file[g].id] = NoFile]
      /\ pc' = [pc EXCEPT ![Client] = "destroydec"]
      /\ UNCHANGED <<store, truth, handles, cl, job>>
  BY DEF DestroyFile, At, Goto, Erase, storageVars, clientVars
<1>1. pc'[Client] = "destroydec" /\ \A u \in Threads : pc'[u] = pc[u]
  BY <1>0, Types
<1>2. Settled(g) /\ Live(g) /\ ~file[g].modified
  BY <1>0 DEF Settled, Live, Dirty, DInv, WrittenInv
<1>3. file[g].users = 0
  <2>1. cl.stage = "destroy"
    BY <1>0 DEF IInv, CallInv, TypeOK, Call
  <2>2. \A h \in Handles : handles[h].file # g
    BY <2>1, Types DEF IInv, SlotInv
  <2>3. cl.file # g /\ cl.pfile # g
    BY <2>1, Types DEF IInv, CallInv
  <2>4. {h \in Handles : handles[h].file = g} = {}
    BY <2>2
  <2>5. HeldBy(g) = 0
    BY <2>4, FS_EmptySet DEF HeldBy
  <2>6. InCall(g) = 0
    BY <2>3 DEF InCall
  <2> QED
    BY <2>5, <2>6, PinsSum DEF IInv, UserInv
<1>4. store[file[g].id] = Serialized(g)
  BY <1>2, <1>3, CleanStored
<1>5. \A j \in Pending : j.file # g
  BY <1>0, LoadedIdle
<1>6. Pending' = Pending
  BY DestroyFileKeeps
<1>7. Reading' = Reading /\ g \notin Reading
  BY <1>5, <1>6 DEF Reading
<1>8. DInv'
  BY <1>0, <1>1, <1>2, <1>3, <1>4, <1>5, <1>6, <1>7, DeletedData
<1>9. \A f \in Files : f # g => file'[f] = file[f]
  BY <1>0, Types
<1> QED
  BY <1>3, <1>4, <1>8, <1>9 DEF Live

LEMMA EvictNodeFileCbData ==
  ASSUME IInv, QInv, DInv, NEW t \in Threads, EvictNodeFileCb(t)
  PROVE  /\ DInv'
         /\ \A f \in Files : Live(f) /\ ~Live(f)' =>
              file[f].users = 0 /\ store[file[f].id] = Serialized(f)
<1> DEFINE g == job[t].file
<1>0. /\ pc[t] = "evictcb" /\ aborted = "no" /\ file[g].state = "EVICTING"
      /\ queue' = queue /\ pc' = [pc EXCEPT ![t] = "evictcbStore"]
      /\ cacheMutex = Nobody
      /\ UNCHANGED <<store, truth, handles, cl, job, maint>>
  BY DEF EvictNodeFileCb, At, Goto, storageVars, clientVars
<1>1. /\ pc'[Client] = pc[Client] /\ pc'[t] = "evictcbStore"
      /\ \A u \in Threads : u # t => pc'[u] = pc[u]
  BY <1>0, Types
<1>2. pc[t] \in Working /\ pc'[t] \notin Working /\ job[t].op = "evict"
  BY <1>0, <1>1 DEF Working, QInv, JobInv, Fits
<1>3. /\ job[t] \in Pending /\ g \in Files /\ Live(g) /\ file[g].id = job[t].id
      /\ g \notin Reading
  BY <1>2, PendingWhere, RequestFiles
<1>4. CASE ~file[g].modified
  <2>1. UNCHANGED <<file, lru, hash>>
    BY <1>4 DEF EvictNodeFileCb, treeVars
  <2>2. DInv'
    BY <1>0, <1>1, <1>2, <2>1, AnsweredNothing
  <2> QED
    BY <2>1, <2>2 DEF Live
<1>5. CASE file[g].modified
  <2>1. /\ file' = [file EXCEPT ![g] = Unallocated]
        /\ lru' = RemoveFirst(lru, g)
        /\ hash' = [hash EXCEPT ![file[g].id] = NoFile]
    BY <1>5 DEF EvictNodeFileCb, Erase
  <2>2. store[file[g].id] = Serialized(g)
    BY <1>0, <1>2, <1>3 DEF DInv, StoreInv
  <2> HIDE DEF g
  <2>3. file[g].users = 0
    BY <1>0, <1>3 DEF IInv, UserInv
  <2>4. pc[Client] # "flush"
    BY <1>0, MutexFree, Types
  <2>5. /\ Pending = Pending' \cup {job[t]}
        /\ \A k \in Pending' : k \in Pending /\ ~Alike(k, job[t])
    BY <1>0, <1>1, <1>2, RequestAnswered DEF QInv
  <2>6. \A k \in Pending' : k \in Pending /\ k.file # g
    <3>1. \A k \in Pending : k.op # "flush"
      BY <2>4, NoFlushes DEF Flushing
    <3> QED
      BY <1>2, <2>5, <3>1 DEF Alike, g
  <2>7. Reading' = Reading
    BY <1>2, <2>5 DEF Reading
  <2>8. \A u \in Threads : pc'[u] \in {"readcb", "evictcb", "flushcb"} =>
          pc[u] = pc'[u] /\ job'[u] = job[u]
    BY <1>0, <1>1
  <2>9. DInv'
    BY <1>0, <1>1, <1>3, <2>1, <2>2, <2>3, <2>4, <2>6, <2>7, <2>8, DeletedData
  <2>10. \A f \in Files : f # g => file'[f] = file[f]
    BY <2>1, Types
  <2> QED
    BY <2>2, <2>3, <2>9, <2>10 DEF Live
<1> QED
  BY <1>4, <1>5

\* readNodeFileCb: what the storage had, over the placeholders handed out
\* since, is the last value of every node.
LEMMA ReadNodeFileCbData ==
  ASSUME IInv, QInv, DInv, NEW t \in Threads, ReadNodeFileCb(t) PROVE DInv'
<1> DEFINE g == job[t].file
           d == job[t].data
           nf == Deserialized(file[g], d)
           k == file[g].id
<1>0. /\ pc[t] = "readcb" /\ aborted = "no" /\ queue' = queue
      /\ file' = [file EXCEPT ![g] = nf] /\ pc' = [pc EXCEPT ![t] = "readcbLoad"]
      /\ UNCHANGED <<lru, hash, store, truth, handles, cl, maint, job, aborted>>
  BY DEF ReadNodeFileCb, At, Goto, storageVars, clientVars
<1>1. /\ pc'[Client] = pc[Client] /\ pc'[t] = "readcbLoad"
      /\ \A u \in Threads : u # t => pc'[u] = pc[u]
  BY <1>0, Types
<1>2. pc[t] \in Working /\ pc'[t] \notin Working /\ job[t].op = "read"
  BY <1>0, <1>1 DEF Working, QInv, JobInv, Fits
<1>3. /\ job[t] \in Pending /\ g \in Files /\ Live(g) /\ k = job[t].id
      /\ g \in Reading
  BY <1>2, PendingWhere, RequestFiles DEF Reading
<1>4. k = file[g].id /\ file[g] \in NodeFile /\ k \in Ids /\ \A f \in Files : file[f].id \in Ids
  BY <1>3, Types DEF NodeFile
<1>5. d = store[k] /\ d \in Content
  BY <1>0, <1>3, <1>4, DataTypes DEF DInv, StoreInv
<1>6. /\ d.nodes = truth[k] /\ truth[k] \in [Shorts -> Values]
      /\ \A s \in Shorts : file[g].nodes[s] # Absent => truth[k][s] # Absent
  BY <1>3, <1>4, <1>5, DataTypes DEF DInv, DataInv
<1>7. /\ nf.id = k /\ nf.state = "LOADED" /\ nf.modified = FALSE
      /\ nf.child = d.child
      /\ nf.nodes = [s \in Shorts |-> IF d.nodes[s] # Absent THEN d.nodes[s]
                                      ELSE file[g].nodes[s]]
  BY <1>4 DEF Deserialized, NodeFile
<1> HIDE DEF nf, g, d, k
<1>8. nf.nodes = truth[k]
  BY <1>6, <1>7
<1>9. [child |-> nf.child, nodes |-> nf.nodes] = store[k]
  BY <1>5, <1>6, <1>7, <1>8 DEF Content
<1>10. file'[g] = nf /\ \A f \in Files : f # g => file'[f] = file[f]
  BY <1>0, <1>3, Types
<1>11. \A f \in Files : (Live(f)' <=> Live(f)) /\ file'[f].id = file[f].id
  BY <1>3, <1>4, <1>7, <1>10 DEF Live
<1>12. /\ Pending = Pending' \cup {job[t]}
       /\ \A j \in Pending' : j \in Pending /\ ~Alike(j, job[t])
       /\ Flushing' = Flushing
  BY <1>0, <1>1, <1>2, RequestAnswered DEF QInv
<1>13. Reading' = Reading \ {g}
  <2>1. \A j \in Pending' : j.op = "read" => j.file # g
    BY <1>2, <1>12 DEF Alike, g
  <2> QED
    BY <1>12, <2>1 DEF Reading, g
<1>14. \A f \in Files : Live(f) /\ file[f].id = k => f = g
  BY <1>3, <1>4, Unique DEF DInv
<1>15. \A j \in Pending' : j.op # "read" => j.file # g
  BY <1>3, <1>12, RequestFiles
<1>16. IndexInv'
  <2>1. \A f \in Entries(lru) : f \in Files
    BY Types DEF Entries
  <2>2. pc[Client] # "ctor"
    BY <1>3 DEF DInv, IndexInv
  <2> QED
    BY <1>0, <1>1, <1>11, <2>1, <2>2 DEF DInv, IndexInv, Current, Target
<1>17. CallerInv'
  BY <1>0, <1>1, <1>7, <1>10, CallerStill DEF DInv
<1>18. DataInv'
  <2>1. \A f \in Files : Live(f)' /\ f \notin Reading' =>
          file'[f].nodes = truth'[file'[f].id]
    BY <1>0, <1>7, <1>8, <1>10, <1>11, <1>13 DEF DInv, DataInv
  <2>2. \A f \in Files : Live(f)' /\ f \in Reading' =>
          /\ store'[file'[f].id].nodes = truth'[file'[f].id]
          /\ \A s \in Shorts :
               file'[f].nodes[s] # Absent => truth'[file'[f].id][s] # Absent
    BY <1>0, <1>10, <1>11, <1>13 DEF DInv, DataInv
  <2>3. \A i \in Ids : (\A f \in Files : Live(f)' => file'[f].id # i) =>
          store'[i].nodes = truth'[i]
    BY <1>0, <1>11 DEF DInv, DataInv
  <2> QED
    BY <2>1, <2>2, <2>3 DEF DataInv
<1>19. ChildInv'
  <2>1. ASSUME NEW i \in Ids, Known(i) PROVE Known(i)'
    <3>1. CASE Parent[i] = k
      <4>1. i \in store[k].child
        BY <1>3, <1>14, <2>1, <3>1 DEF Known
      <4>2. i \in file'[g].child
        BY <1>5, <1>7, <1>10, <4>1
      <4>3. \A f \in Files : Live(f)' /\ file'[f].id = Parent[i] => f = g
        BY <1>11, <1>14, <3>1
      <4>4. \A f \in Files : f = g =>
              Live(f)' /\ file'[f].id = Parent[i] /\ f \notin Reading'
        BY <1>3, <1>4, <1>11, <1>13, <3>1
      <4>5. \A f \in Files : Live(f)' /\ file'[f].id = Parent[i] /\ f \notin Reading'
              => i \in file'[f].child
        BY <4>2, <4>3
      <4>6. ~\A f \in Files : Live(f)' /\ file'[f].id = Parent[i] => f \in Reading'
        BY <1>3, <4>4
      <4> QED
        BY <4>5, <4>6 DEF Known
    <3>2. CASE Parent[i] # k
      <4>1. \A f \in Files : file[f].id = Parent[i] =>
              file'[f] = file[f] /\ (f \in Reading' <=> f \in Reading)
        BY <1>4, <1>10, <1>13, <3>2
      <4> QED
        BY <1>0, <1>11, <2>1, <4>1 DEF Known
    <3> QED
      BY <3>1, <3>2
  <2>2. \A i \in Ids \ {Root} :
          store'[i] # Empty \/ (\E s \in Shorts : truth'[i][s] # Absent) => Known(i)'
    BY <1>0, <2>1 DEF DInv, ChildInv
  <2>3. ASSUME NEW f \in Files, Live(f)', file'[f].id # Root, ~Unlinked(f)'
        PROVE  Known(file[f].id)' /\ file'[f].id = file[f].id
    BY <1>0, <1>4, <1>11, <2>1, <2>3 DEF DInv, ChildInv, Unlinked
  <2>4. cl'.stage = "child" /\ cl'.id # Root => Known(cl.id)'
    <3>1. cl.id \in Ids
      BY DataTypes DEF Call
    <3> QED
      BY <1>0, <2>1, <3>1 DEF DInv, ChildInv
  <2> QED
    BY <2>2, <2>3, <2>4 DEF ChildInv
<1>20. StoreInv'
  <2>1. /\ \A f \in Files : f # g => Serialized(f)' = Serialized(f)
        /\ \A f \in Files : f = g => Serialized(f)' = store[k]
    BY <1>9, <1>10 DEF Serialized
  <2>2. \A f \in Files : Settled(f)' /\ ~file'[f].modified /\ Reported(f)' =>
          store'[file'[f].id] = Serialized(f)'
    <3> SUFFICES ASSUME NEW f \in Files,
                        Settled(f)', ~file'[f].modified, Reported(f)'
                 PROVE  store[file[f].id] = Serialized(f)'
      BY <1>0, <1>11
    <3>1. CASE f = g
      BY <1>4, <2>1, <3>1
    <3>2. CASE f # g
      BY <1>0, <1>10, <2>1, <3>2 DEF DInv, StoreInv, Settled, Reported
    <3> QED
      BY <3>1, <3>2
  <2>3. ASSUME NEW j \in Pending', j.op # "read" PROVE j.data = Serialized(j.file)'
    <3>1. PICK f \in Files : f = j.file /\ f # g
      BY <1>12, <1>15, <2>3 DEF QInv, JobInv
    <3>2. j.data = Serialized(f)'
      BY <1>12, <2>1, <2>3, <3>1 DEF DInv, StoreInv
    <3> QED
      BY <3>1, <3>2
  <2> QED
    BY <1>0, <1>1, <2>2, <2>3 DEF DInv, StoreInv
<1>21. WrittenInv'
  <2>1. \A f \in Files : Dirty(f)' => Dirty(f)
    BY <1>7, <1>10 DEF Settled, Dirty
  <2> QED
    BY <1>0, <1>1, <1>11, <1>12, <2>1, WrittenStill DEF DInv
<1> QED
  BY <1>16, <1>17, <1>18, <1>19, <1>20, <1>21 DEF DInv

(***************************************************************************)
(* cacheMaintenance and flushCache                                         *)
(***************************************************************************)

LEMMA MaintWriteData ==
  ASSUME IInv, QInv, DInv, NEW x \in Actors, MaintWrite(x) PROVE DInv'
<1> DEFINE g == lru[maint.it]
           nf == [file[g] EXCEPT !.state = "EVICTING"]
           j == [op |-> "evict", file |-> g, id |-> file[g].id,
                 data |-> Serialized(g)]
<1>0. /\ pc[x] = "scan" /\ aborted = "no" /\ file[g].state = "LOADED"
      /\ file[g].users <= 0 /\ file[g].modified /\ maint.it > 0
      /\ UNCHANGED <<lru, hash, store, truth, handles, cl, job, pc>>
  BY DEF MaintWrite, Scanning, At, Evictable, clientVars
<1>1. g \in Files /\ file[g] \in NodeFile
  <2>1. maint.it \in 1..Len(lru)
    BY <1>0, Types DEF IInv, ScanInv
  <2> QED
    BY <2>1, Types
<1>2. pc[Client] # "flush"
  BY <1>0, ScanNoFlush
<1>3. CASE ~MayWrite
  <2>1. UNCHANGED <<file, queue, maint>>
    BY <1>3 DEF MaintWrite
  <2>2. Pending' = Pending
    BY <1>0, <2>1 DEF Pending
  <2> QED
    BY <1>0, <1>2, <2>1, <2>2, ThreadSteady
<1>4. CASE MayWrite
  <2>1. file' = [file EXCEPT ![g] = nf] /\ queue' = Append(queue, j)
    BY <1>4 DEF MaintWrite
  <2>2. /\ nf.id = file[g].id /\ nf.state = "EVICTING" /\ nf.nodes = file[g].nodes
        /\ nf.child = file[g].child /\ nf.modified = file[g].modified
    BY <1>1 DEF NodeFile
  <2>3. j \in Job
    BY <1>1, SerializedType DEF Job, IInv
  <2>4. j.op = "evict" /\ j.file = g /\ j.data = Serialized(g)
    OBVIOUS
  <2> HIDE DEF g, nf, j
  <2>5. \A k \in Pending : k.file # g
    BY <1>0, <1>2, LoadedIdle
  <2>6. Pending' = Pending \cup {j} /\ Flushing' = Flushing
    BY <1>0, <1>1, <2>1, <2>3, <2>4, <2>5, RequestAdded, Types DEF QInv, Alike
  <2>7. Reading' = Reading
    BY <2>4, <2>6 DEF Reading
  <2>8. file'[g] = nf /\ \A f \in Files : f # g => file'[f] = file[f]
    BY <1>1, <2>1, Types
  <2>9. SameContents
    BY <1>0, <2>2, <2>8 DEF SameContents
  <2>10. IndexInv'
    BY <1>0, <2>9, IndexStill DEF DInv, Current, Target
  <2>11. file[g].users = 0
    BY <1>0, <1>1, EvictableUnused
  <2>12. CallerInv'
    BY <1>0, <2>8, <2>11, CallerStill DEF DInv
  <2>13. DataInv'
    BY <1>0, <2>7, <2>9, DataStill DEF DInv
  <2>14. ChildInv'
    BY <1>0, <2>7, <2>9, ChildStill DEF DInv, ChildInv, Unlinked
  <2>15. StoreInv'
    <3>1. \A f \in Files : /\ Serialized(f)' = Serialized(f)
                           /\ file'[f].id = file[f].id
      BY <2>9 DEF SameContents, Serialized
    <3>2. \A f \in Files : Settled(f)' /\ ~file'[f].modified /\ Reported(f)' =>
            store'[file'[f].id] = Serialized(f)'
      <4> SUFFICES ASSUME NEW f \in Files,
                          Settled(f)', ~file'[f].modified, Reported(f)'
                   PROVE  store[file[f].id] = Serialized(f)
        BY <1>0, <3>1
      <4>1. f # g
        BY <1>0, <2>2, <2>8
      <4> QED
        BY <1>0, <2>8, <4>1 DEF DInv, StoreInv, Settled, Reported
    <3>3. ASSUME NEW k \in Pending', k.op # "read" PROVE k.data = Serialized(k.file)'
      <4>1. PICK f \in Files : f = k.file
        BY <1>1, <2>4, <2>6 DEF QInv, JobInv
      <4>2. k.data = Serialized(f)
        BY <2>4, <2>6, <3>3, <4>1 DEF DInv, StoreInv
      <4> QED
        BY <3>1, <4>1, <4>2
    <3> QED
      BY <1>0, <3>2, <3>3 DEF DInv, StoreInv
  <2>16. WrittenInv'
    <3>1. \A f \in Files : /\ Live(f)' => Live(f)
                           /\ Dirty(f)' => Dirty(f)
      BY <1>0, <2>2, <2>8 DEF Settled, Dirty, Live
    <3> QED
      BY <1>0, <1>2, <2>6, <3>1, WrittenStill DEF DInv
  <2> QED
    BY <2>10, <2>12, <2>13, <2>14, <2>15, <2>16 DEF DInv
<1> QED
  BY <1>3, <1>4

LEMMA FlushBeginData ==
  ASSUME IInv, QInv, DInv, NEW c, FlushBegin(c),
         c = NoCall \/ c = [NoCall EXCEPT !.stage = "destroy"]
  PROVE  DInv'
<1>1. /\ pc[Client] = "idle" /\ aborted = "no" /\ cl' = c /\ maint'.it = 1
      /\ UNCHANGED <<file, lru, hash, store, truth, handles, job, queue>>
  BY DEF FlushBegin, BeginCall, At, treeVars, storageVars, NoScan
<1>2. pc'[Client] = "flush" /\ \A u \in Threads : pc'[u] = pc[u]
  BY Types DEF FlushBegin, BeginCall, Goto
<1>3. Pending' = Pending
  BY FlushBeginKeeps
<1>4. Reading' = Reading
  BY <1>3 DEF Reading
<1>5. cl'.stage \in {"none", "destroy"}
  BY <1>1 DEF NoCall
<1>6. SameContents
  BY <1>1 DEF SameContents
<1>7. IndexInv'
  BY <1>1, <1>2, <1>6, IndexStill DEF DInv
<1>8. CallerInv'
  <2>1. cl.stage # "root"
    BY <1>1 DEF IInv, CallInv
  <2> QED
    BY <1>1, <1>2, <1>5, <2>1 DEF DInv, CallerInv, Linking, Made
<1>9. DataInv'
  BY <1>1, <1>4, <1>6, DataStill DEF DInv
<1>10. ChildInv'
  <2>1. \A f \in Files : ~Unlinked(f)
    BY <1>1 DEF IInv, CallInv, Unlinked
  <2> QED
    BY <1>1, <1>4, <1>5, <1>6, <2>1, ChildStill DEF DInv
<1>11. StoreInv'
  <2>1. \A f \in Files : Settled(f)' /\ ~file'[f].modified /\ Reported(f)' =>
          Settled(f) /\ ~file[f].modified /\ Reported(f)
    BY <1>1 DEF Settled, Reported
  <2> QED
    BY <1>1, <1>2, <1>3, <1>6, <2>1, StoreStill DEF DInv
<1>12. WrittenInv'
  <2>1. \A f \in Files : ~Passed(f)'
    <3> SUFFICES ASSUME NEW n \in 1..Len(lru), n < 1 PROVE FALSE
      BY <1>1 DEF Passed
    <3> QED
      OBVIOUS
  <2> QED
    BY <1>2, <2>1 DEF WrittenInv
<1> QED
  BY <1>7, <1>8, <1>9, <1>10, <1>11, <1>12 DEF DInv

LEMMA FlushFileData ==
  ASSUME IInv, QInv, DInv, FlushFile PROVE DInv'
<1> DEFINE n == maint.it
           g == lru[n]
           j == [op |-> "flush", file |-> g, id |-> file[g].id,
                 data |-> Serialized(g)]
<1>0. /\ pc[Client] = "flush" /\ n <= Len(lru) /\ aborted = "no"
      /\ maint' = [maint EXCEPT !.it = @ + 1]
      /\ UNCHANGED <<file, lru, hash, store, truth, handles, pc, cl, job>>
  BY DEF FlushFile, At, treeVars, clientVars
<1>1. n \in 1..Len(lru) /\ maint'.it = n + 1 /\ n \in Nat
  <2>1. maint \in [it : Nat, to_evict : Int, evicted : Int]
    BY DEF IInv, TypeOK
  <2> QED
    BY <1>0, <2>1 DEF IInv, ScanInv
<1>2. g \in Files /\ Live(g) /\ file[g].state \in NodeStates
  BY <1>1, Types DEF QInv, ListInv, Entries, NodeFile, Live
<1>3. \/ /\ NeedsFlush(g) /\ MayWrite /\ queue' = Append(queue, j)
      \/ /\ NeedsFlush(g) /\ ~MayWrite /\ queue' = queue /\ aborted' # "no"
      \/ /\ ~NeedsFlush(g) /\ queue' = queue
  BY DEF FlushFile
<1>4. j \in Job /\ j.op = "flush" /\ j.file = g /\ j.data = Serialized(g)
  BY <1>2, SerializedType DEF Job, IInv
<1> HIDE DEF j
<1>5. ASSUME queue' = Append(queue, j)
      PROVE  Pending' = Pending \cup {j} /\ Flushing' = Flushing \cup {g}
  <2>1. g \notin Flushing
    <3> SUFFICES ASSUME g \in Flushing PROVE FALSE
      OBVIOUS
    <3>1. PICK m \in 1..Len(lru) : m < n /\ lru[m] = g
      BY DEF QInv, FlushInv
    <3> QED
      BY <1>1, <3>1 DEF QInv, ListInv, Once
  <2>2. \A k \in Pending : ~Alike(k, j)
    BY <1>4, <2>1 DEF Alike, Flushing
  <2> QED
    BY <1>0, <1>2, <1>4, <1>5, <2>2, RequestAdded, Types DEF QInv
<1>6. ASSUME queue' = queue PROVE Pending' = Pending /\ Flushing' = Flushing
  BY <1>0, <1>6 DEF Pending, Flushing
<1>7. /\ Pending' = Pending \/ Pending' = Pending \cup {j}
      /\ Flushing \subseteq Flushing'
      /\ NeedsFlush(g) /\ aborted' = "no" => g \in Flushing'
  BY <1>3, <1>5, <1>6
<1>8. Reading' = Reading
  BY <1>4, <1>7 DEF Reading
<1>9. SameContents
  BY <1>0 DEF SameContents
<1>10. IndexInv'
  BY <1>0, <1>9, IndexStill DEF DInv, Current, Target
<1>11. CallerInv'
  BY <1>0, CallerStill DEF DInv
<1>12. DataInv'
  BY <1>0, <1>8, <1>9, DataStill DEF DInv
<1>13. ChildInv'
  BY <1>0, <1>8, <1>9, ChildStill DEF DInv, ChildInv, Unlinked
<1>14. StoreInv'
  <2>1. ASSUME NEW k \in Pending', k.op # "read" PROVE k.data = Serialized(k.file)
    BY <1>4, <1>7, <2>1 DEF DInv, StoreInv
  <2>2. ASSUME NEW k \in Pending', k.op # "read" PROVE k.data = Serialized(k.file)'
    BY <1>0, <2>1, <2>2 DEF Serialized
  <2>3. \A f \in Files : Settled(f)' /\ ~file'[f].modified /\ Reported(f)' =>
          store'[file'[f].id] = Serialized(f)'
    BY <1>0 DEF DInv, StoreInv, Settled, Reported, Serialized
  <2> QED
    BY <1>0, <2>2, <2>3 DEF DInv, StoreInv
<1>15. WrittenInv'
  <2> SUFFICES ASSUME aborted' = "no", NEW f \in Files, Dirty(f)', Passed(f)'
               PROVE  f \in Flushing'
    BY <1>0 DEF WrittenInv
  <2>1. Dirty(f)
    BY <1>0 DEF Dirty, Settled
  <2>2. PICK m \in 1..Len(lru) : m < n + 1 /\ lru[m] = f
    <3> HIDE DEF n
    <3> QED
      BY <1>0, <1>1 DEF Passed
  <2>3. CASE m = n
    <3>1. NeedsFlush(g)
      BY <2>1, <2>2, <2>3 DEF NeedsFlush, Dirty, Settled
    <3> QED
      BY <1>7, <2>2, <2>3, <3>1
  <2>4. CASE m # n
    <3>1. m < n
      BY <1>1, <2>2, <2>4
    <3>2. Passed(f)
      BY <2>2, <3>1 DEF Passed
    <3> QED
      BY <1>0, <1>7, <2>1, <3>2 DEF DInv, WrittenInv
  <2> QED
    BY <2>3, <2>4
<1> QED
  BY <1>10, <1>11, <1>12, <1>13, <1>14, <1>15 DEF DInv

\* Every live file is in the list while no call is about to push one.
LEMMA LiveListed ==
  ASSUME IInv, IndexInv, pc[Client] # "push", NEW f \in Files, Live(f)
  PROVE  f \in Entries(lru) /\ hash[file[f].id] = f /\ file[f].id \in Ids
BY Types DEF IndexInv, NodeFile

\* When flushCache is about to return, nothing is left to write.
LEMMA FlushedAll ==
  ASSUME IInv, QInv, DInv, FlushEnd
  PROVE  \A f \in Files : ~Dirty(f)
<1> SUFFICES ASSUME NEW f \in Files, Dirty(f) PROVE FALSE
  OBVIOUS
<1>1. pc[Client] = "flush" /\ maint.it > Len(lru) /\ aborted = "no"
  BY DEF FlushEnd, At
<1>2. Flushing = {}
  BY FlushEndKeeps
<1>3. Live(f)
  BY DEF Dirty, Settled, Live
<1>4. PICK n \in 1..Len(lru) : lru[n] = f
  BY <1>1, <1>3, LiveListed DEF Entries, DInv
<1>5. Len(lru) \in Nat /\ maint.it \in Nat
  BY Types, LenProperties
<1>6. n < maint.it
  BY <1>1, <1>4, <1>5
<1>7. Passed(f)
  BY <1>4, <1>6 DEF Passed
<1> QED
  BY <1>1, <1>2, <1>7 DEF DInv, WrittenInv

LEMMA FlushEndData ==
  ASSUME IInv, QInv, DInv, FlushEnd PROVE DInv'
<1>0. /\ pc[Client] = "flush" /\ aborted = "no"
      /\ UNCHANGED <<file, lru, hash, store, truth, handles, cl, job>>
  BY DEF FlushEnd, At, treeVars, storageVars, clientVars
<1>1. /\ pc'[Client] = IF cl.stage = "destroy" THEN "destroy" ELSE "idle"
      /\ \A u \in Threads : pc'[u] = pc[u]
  BY Types DEF FlushEnd, Goto
<1>2. Pending' = Pending
  BY FlushEndKeeps
<1>3. Reading' = Reading
  BY <1>2 DEF Reading
<1>4. SameContents
  BY <1>0 DEF SameContents
<1>5. IndexInv'
  BY <1>0, <1>1, <1>4, IndexStill DEF DInv
<1>6. CallerInv'
  BY <1>0, <1>1, CallerStill DEF DInv
<1>7. DataInv'
  BY <1>0, <1>3, <1>4, DataStill DEF DInv
<1>8. ChildInv'
  BY <1>0, <1>3, <1>4, ChildStill DEF DInv, ChildInv, Unlinked
<1>9. StoreInv'
  <2>1. \A f \in Files : Settled(f)' /\ ~file'[f].modified /\ Reported(f)' =>
          Settled(f) /\ ~file[f].modified /\ Reported(f)
    BY <1>0 DEF Settled, Reported
  <2> QED
    BY <1>0, <1>1, <1>2, <1>4, <2>1, StoreStill DEF DInv
<1>10. WrittenInv'
  <2>1. \A f \in Files : ~Dirty(f)'
    BY <1>0, FlushedAll DEF Dirty, Settled
  <2> QED
    BY <1>1, <2>1 DEF WrittenInv
<1> QED
  BY <1>5, <1>6, <1>7, <1>8, <1>9, <1>10 DEF DInv

LEMMA DestroyFileStoreData ==
  ASSUME IInv, QInv, DInv, DestroyFileStore PROVE DInv'
<1>0. /\ pc[Client] = "destroydec" /\ aborted = "no"
      /\ UNCHANGED <<file, lru, hash, store, truth, handles, cl, job>>
  BY DEF DestroyFileStore, At, storageVars, clientVars
<1>1. pc'[Client] = "destroy" /\ \A u \in Threads : pc'[u] = pc[u]
  BY Types DEF DestroyFileStore, Goto
<1>2. Pending' = Pending
  BY DestroyFileStoreQuiet
<1>3. CallerInv'
  BY <1>0, <1>1, CallerStill DEF DInv
<1> QED
  BY <1>0, <1>1, <1>2, <1>3, Steady DEF Unlinked, DInv, ChildInv

LEMMA DestroyEndData ==
  ASSUME IInv, QInv, DInv, DestroyEnd PROVE DInv'
<1>0. /\ pc[Client] = "destroy" /\ aborted = "no"
      /\ UNCHANGED <<file, lru, hash, store, truth, handles, cl, job>>
      /\ \A i \in Ids : hash[i] = NoFile
  BY DEF DestroyEnd, At, treeVars, storageVars, clientVars
<1>1. pc'[Client] = "gone" /\ \A u \in Threads : pc'[u] = pc[u]
  BY Types DEF DestroyEnd, Goto
<1>2. Pending' = Pending
  BY DestroyEndQuiet
<1>3. Reading' = Reading
  BY <1>2 DEF Reading
<1>4. SameContents
  BY <1>0 DEF SameContents
<1>5. IndexInv'
  BY <1>0, <1>1, <1>4, IndexStill DEF DInv
<1>6. CallerInv'
  BY <1>0, <1>1, CallerStill DEF DInv
<1>7. DataInv'
  BY <1>0, <1>3, <1>4, DataStill DEF DInv
<1>8. ChildInv'
  BY <1>0, <1>3, <1>4, ChildStill DEF DInv, ChildInv, Unlinked
<1>9. StoreInv'
  <2>1. \A f \in Files : Settled(f)' /\ ~file'[f].modified /\ Reported(f)' =>
          Settled(f) /\ ~file[f].modified /\ Reported(f)
    BY <1>0 DEF Settled, Reported
  <2> QED
    BY <1>0, <1>1, <1>2, <1>4, <2>1, StoreStill DEF DInv
<1>10. WrittenInv'
  <2>1. \A f \in Files : ~Live(f)
    BY <1>0, LiveListed, Types DEF DInv
  <2>2. \A f \in Files : ~Live(f)' /\ ~Dirty(f)'
    BY <1>0, <2>1 DEF Live, Dirty, Settled
  <2> QED
    BY <1>1, <2>2 DEF WrittenInv
<1> QED
  BY <1>5, <1>6, <1>7, <1>8, <1>9, <1>10 DEF DInv

(***************************************************************************)
(* The calls of the client                                                 *)
(***************************************************************************)

\* A call begins: the client refers to no node yet.
LEMMA CallBegins ==
  ASSUME IInv, QInv, DInv, NEW c, BeginCall(c, "find"),
         c.stage \in {"node", "parent"},
         c.stage = "node" => truth[c.id][c.short] # Absent,
         c.stage = "parent" =>
            /\ truth[c.id][c.short] = Absent
            /\ c.from \in Handles /\ Loaded(c.from)
            /\ handles[c.from].id = Parent[c.id],
         UNCHANGED <<file, lru, hash, store, truth, handles, job, queue>>,
         Pending' = Pending
  PROVE  DInv'
<1>1. pc[Client] = "idle" /\ aborted = "no" /\ cl' = c /\ Goto(Client, "find")
  BY DEF BeginCall, At
<1>2. pc'[Client] = "find"
  BY <1>1, Types DEF Goto
<1>3. cl.stage \in {"none"}
  BY <1>1 DEF IInv, CallInv, TypeOK, Call
<1>4. CallerInv'
  BY <1>1, <1>2, <1>3 DEF DInv, CallerInv, Linking, Made, Loaded
<1>5. \A f \in Files : ~Unlinked(f)
  BY <1>3 DEF Unlinked
<1> QED
  BY <1>1, <1>4, <1>5, ClientMoves

LEMMA GetRootData ==
  ASSUME IInv, QInv, DInv, NEW h \in Handles, GetRoot(h) PROVE DInv'
<1> DEFINE c == [NoCall EXCEPT !.stage = "node", !.slot = h, !.blocking = TRUE]
<1>1. /\ BeginCall(c, "find")
      /\ UNCHANGED <<file, lru, hash, store, truth, handles, job, queue>>
  BY DEF GetRoot, treeVars, storageVars
<1>2. c.stage = "node" /\ c.id = Root /\ c.short = RootNode
  BY DEF NoCall
<1>3. truth[Root][RootNode] # Absent
  <2>1. pc[Client] = "idle"
    BY <1>1 DEF BeginCall, At
  <2>2. cl.stage # "root"
    BY <2>1 DEF IInv, CallInv
  <2> QED
    BY <2>1, <2>2 DEF DInv, CallerInv
<1>4. Pending' = Pending
  BY GetRootQuiet
<1> HIDE DEF c
<1> QED
  BY <1>1, <1>2, <1>3, <1>4, CallBegins

LEMMA GetChildNodeData ==
  ASSUME IInv, QInv, DInv, NEW p \in Handles, NEW i \in Ids, NEW s \in Shorts,
         NEW h \in Handles, GetChildNode(p, i, s, h)
  PROVE  DInv'
<1> DEFINE c == [NoCall EXCEPT !.stage = "node", !.id = i, !.short = s,
                               !.slot = h]
<1>1. /\ BeginCall(c, "find") /\ truth[i][s] # Absent
      /\ UNCHANGED <<file, lru, hash, store, truth, handles, job, queue>>
  BY DEF GetChildNode, treeVars, storageVars
<1>2. c.stage = "node" /\ c.id = i /\ c.short = s
  BY DEF NoCall
<1>3. Pending' = Pending
  BY GetChildNodeQuiet
<1> HIDE DEF c
<1> QED
  BY <1>1, <1>2, <1>3, CallBegins

LEMMA CreateChildNodeData ==
  ASSUME IInv, QInv, DInv, NEW p \in Handles, NEW i \in Ids, NEW s \in Shorts,
         NEW h \in Handles, CreateChildNode(p, i, s, h)
  PROVE  DInv'
<1> DEFINE c == [NoCall EXCEPT !.stage = "parent", !.id = i, !.short = s,
                               !.slot = h, !.from = p]
<1>1. /\ BeginCall(c, "find") /\ truth[i][s] = Absent
      /\ Loaded(p) /\ handles[p].id = Parent[i]
      /\ UNCHANGED <<file, lru, hash, store, truth, handles, job, queue>>
  BY DEF CreateChildNode, treeVars, storageVars
<1>2. c.stage = "parent" /\ c.id = i /\ c.short = s /\ c.from = p
  BY DEF NoCall
<1>3. Pending' = Pending
  BY CreateChildNodeQuiet
<1> HIDE DEF c
<1> QED
  BY <1>1, <1>2, <1>3, CallBegins

LEMMA UnlockData ==
  ASSUME IInv, QInv, DInv, Unlock PROVE DInv'
<1>1. /\ pc[Client] = "unlock" /\ Goto(Client, "idle") /\ cl' = NoCall
      /\ aborted = "no"
      /\ UNCHANGED <<file, lru, hash, store, truth, handles, job>>
  BY DEF Unlock, At, treeVars, storageVars
<1>2. pc'[Client] = "idle" /\ cl'.stage = "none"
  BY <1>1, Types DEF Goto, NoCall
<1>3. cl.stage = "none"
  BY <1>1 DEF IInv, CallInv, TypeOK, Call
<1>4. CallerInv'
  BY <1>1, <1>2, <1>3 DEF DInv, CallerInv, Linking, Made
<1>5. Pending' = Pending
  BY UnlockQuiet
<1>6. \A f \in Files : ~Unlinked(f)
  BY <1>3 DEF Unlinked
<1> QED
  BY <1>1, <1>2, <1>4, <1>5, <1>6, ClientMoves

\* The parent's file, once loaded, has the child_files bit.
LEMMA ParentKnows ==
  ASSUME IInv, QInv, DInv, cl.stage = "parent", pc[Client] = "got",
         file[cl.pfile].state = "LOADED"
  PROVE  /\ cl.pfile \in Files /\ Live(cl.pfile) /\ cl.pfile \notin Reading
         /\ file[cl.pfile].id = Parent[cl.id]
         /\ Known(cl.id) <=> cl.id \in file[cl.pfile].child
<1>1. cl.pfile \in Files /\ file[cl.pfile].id = Parent[cl.id]
  BY DataTypes DEF IInv, CallInv, IdInv, Call
<1>2. Live(cl.pfile) /\ cl.pfile \notin Reading
  BY RequestFiles DEF Live
<1>3. \A f \in Files : Live(f) /\ file[f].id = Parent[cl.id] => f = cl.pfile
  BY <1>1, <1>2, Unique DEF DInv
<1> QED
  BY <1>1, <1>2, <1>3 DEF Known

LEMMA ParentHasFileData ==
  ASSUME IInv, QInv, DInv, ParentHasFile PROVE DInv'
<1>1. /\ pc[Client] = "got" /\ Goto(Client, "find") /\ cl.stage = "parent"
      /\ aborted = "no" /\ cl' = [cl EXCEPT !.stage = "child"]
      /\ file[cl.pfile].state = "LOADED"
      /\ cl.id = Root \/ cl.id \in file[cl.pfile].child
      /\ UNCHANGED <<file, lru, hash, store, truth, handles, job>>
  BY DEF ParentHasFile, At, treeVars, storageVars
<1>2. /\ cl'.stage = "child" /\ cl'.id = cl.id /\ cl'.from = cl.from
      /\ cl'.pfile = cl.pfile /\ cl'.short = cl.short
  BY <1>1, DataTypes DEF Call
<1>3. pc'[Client] = "find"
  BY <1>1, Types DEF Goto
<1>4. CallerInv'
  BY <1>1, <1>2, <1>3 DEF DInv, CallerInv, Linking, Made
<1>5. cl.id # Root => Known(cl.id)
  BY <1>1, ParentKnows
<1>6. Pending' = Pending
  BY ParentHasFileQuiet
<1>7. \A f \in Files : ~Unlinked(f)
  BY <1>1 DEF Unlinked
<1> QED
  BY <1>1, <1>2, <1>4, <1>5, <1>6, <1>7, ClientMoves

LEMMA CreateNodeStoreData ==
  ASSUME IInv, QInv, DInv, CreateNodeStore PROVE DInv'
<1>1. /\ pc[Client] = "inc" /\ Goto(Client, "drop") /\ aborted = "no"
      /\ UNCHANGED <<file, lru, hash, store, truth, handles, job, cl>>
  BY DEF CreateNodeStore, At, storageVars, clientVars
<1>2. pc'[Client] = "drop"
  BY <1>1, Types DEF Goto
<1>3. CallerInv'
  BY <1>1, <1>2 DEF DInv, CallerInv, Linking, Made
<1>4. Pending' = Pending
  BY CreateNodeStoreQuiet
<1> QED
  BY <1>1, <1>3, <1>4, ClientMoves DEF Unlinked, DInv, ChildInv

\* A step of the client that changes the users and the flags of a file, and
\* releases a handle: what is left to show is about the call.
LEMMA FlagsData ==
  ASSUME IInv, QInv, DInv, SameContents, CallerInv', NEW p, Goto(Client, p),
         UNCHANGED <<lru, hash, store, truth, job>>,
         aborted = "no", Pending' = Pending,
         p \in {"idle", "unlock"}, pc[Client] \in {"idle", "got", "drop"},
         \A f \in Files :
            /\ Settled(f)' /\ ~file'[f].modified /\ Reported(f)' =>
               Settled(f) /\ ~file[f].modified /\ Reported(f),
         \A f \in Files : ~Unlinked(f), cl'.stage = "none"
  PROVE  DInv'
<1>1. pc'[Client] = p /\ \A u \in Threads : pc'[u] = pc[u]
  BY Types DEF Goto
<1>2. Reading' = Reading
  BY DEF Reading
<1>3. IndexInv'
  BY <1>1, IndexStill DEF DInv
<1>4. DataInv'
  BY <1>2, DataStill DEF DInv
<1>5. ChildInv'
  BY <1>2, ChildStill DEF DInv
<1>6. StoreInv'
  BY <1>1, StoreStill DEF DInv
<1>7. WrittenInv'
  BY <1>1 DEF WrittenInv
<1> QED
  BY <1>3, <1>4, <1>5, <1>6, <1>7 DEF DInv

LEMMA ReleaseNodeData ==
  ASSUME IInv, QInv, DInv, NEW h \in Handles, ReleaseNode(h) PROVE DInv'
<1> DEFINE g == handles[h].file
           nf == Released(file[g], handles[h].modified)
<1>1. /\ pc[Client] = "idle" /\ Goto(Client, "unlock") /\ aborted = "no"
      /\ g # NoFile /\ file' = [file EXCEPT ![g] = nf]
      /\ cl' = [NoCall EXCEPT !.file = g]
      /\ handles' = [handles EXCEPT ![h] = NoHandle]
      /\ UNCHANGED <<lru, hash, store, truth, job>>
  BY DEF ReleaseNode, At, storageVars
<1>2. g \in Files /\ file[g] \in NodeFile /\ handles[h].modified \in BOOLEAN
  BY <1>1, Types, DataTypes DEF Handle
<1>3. /\ nf.id = file[g].id /\ nf.nodes = file[g].nodes /\ nf.child = file[g].child
      /\ nf.state = file[g].state
      /\ ~nf.modified => ~file[g].modified /\ ~handles[h].modified
  BY <1>2 DEF NodeFile, Released
<1> HIDE DEF g, nf
<1>4. file'[g] = nf /\ \A f \in Files : f # g => file'[f] = file[f]
  BY <1>1, <1>2, Types
<1>5. SameContents
  BY <1>3, <1>4 DEF SameContents
<1>6. \A x \in Handles : handles'[x] = IF x = h THEN NoHandle ELSE handles[x]
  BY <1>1, DataTypes
<1>7. cl.stage = "none" /\ cl'.stage = "none"
  BY <1>1, DataTypes DEF IInv, CallInv, Call, NoCall
<1>8. pc'[Client] = "unlock"
  BY <1>1, Types DEF Goto
<1>9. CallerInv'
  BY <1>1, <1>6, <1>7, <1>8 DEF DInv, CallerInv, Linking, Made, NoHandle
<1>10. ASSUME NEW f \in Files, Settled(f)', ~file'[f].modified, Reported(f)'
       PROVE  Settled(f) /\ ~file[f].modified /\ Reported(f)
  <2>1. Settled(f) /\ ~file[f].modified
    BY <1>3, <1>4, <1>10 DEF Settled
  <2>2. \A x \in Handles : x # h /\ handles[x].file = f => ~handles[x].modified
    BY <1>6, <1>10 DEF Reported
  <2>3. handles[h].file = f => ~handles[h].modified
    BY <1>3, <1>4, <1>10 DEF g
  <2> QED
    BY <2>1, <2>2, <2>3 DEF Reported
<1>11. Pending' = Pending
  BY ReleaseNodeQuiet
<1> QED
  BY <1>1, <1>5, <1>7, <1>9, <1>10, <1>11, FlagsData DEF Unlinked

LEMMA DropFileData ==
  ASSUME IInv, QInv, DInv, DropFile PROVE DInv'
<1> DEFINE g == cl.file
           nf == [file[g] EXCEPT !.users = @ - 1]
<1>1. /\ pc[Client] = "drop" /\ Goto(Client, "idle") /\ aborted = "no"
      /\ file' = [file EXCEPT ![g] = nf] /\ cl' = NoCall
      /\ UNCHANGED <<lru, hash, store, truth, job, handles>>
  BY DEF DropFile, At, storageVars
<1>2. cl.stage \in {"root", "child", "created"} /\ cl.pfile = NoFile
  BY <1>1, DataTypes DEF IInv, CallInv, Call
<1>3. g \in Files /\ file[g] \in NodeFile
  BY <1>1, <1>2, Types, DataTypes DEF IInv, CallInv, Call
<1>4. /\ nf.id = file[g].id /\ nf.nodes = file[g].nodes /\ nf.child = file[g].child
      /\ nf.state = file[g].state /\ nf.modified = file[g].modified
  BY <1>3 DEF NodeFile
<1> HIDE DEF g, nf
<1>5. file'[g] = nf /\ \A f \in Files : f # g => file'[f] = file[f]
  BY <1>1, <1>3, Types
<1>6. SameContents
  BY <1>4, <1>5 DEF SameContents
<1>7. pc'[Client] = "idle" /\ cl'.stage = "none"
  BY <1>1, Types DEF Goto, NoCall
<1>8. CallerInv'
  BY <1>1, <1>7 DEF DInv, CallerInv, Linking, Made
<1>9. ASSUME NEW f \in Files, Settled(f)', ~file'[f].modified, Reported(f)'
      PROVE  Settled(f) /\ ~file[f].modified /\ Reported(f)
  BY <1>1, <1>4, <1>5, <1>9 DEF Settled, Reported
<1>10. Pending' = Pending
  BY DropFileQuiet
<1> QED
  BY <1>1, <1>2, <1>6, <1>7, <1>8, <1>9, <1>10, FlagsData DEF Unlinked

LEMMA PushData ==
  ASSUME IInv, QInv, DInv, Push PROVE DInv'
<1>1. /\ pc[Client] = "push" /\ aborted = "no" /\ lru' = Cons(Current, lru)
      /\ hash' = [hash EXCEPT ![Target] = IF @ = NoFile THEN Current ELSE @]
      /\ UNCHANGED <<file, store, truth, handles, cl, job>>
  BY DEF Push, PushFront, At, storageVars, clientVars
<1>2. /\ pc'[Client] = IF cl.stage \in {"root", "created"} THEN "maint" ELSE "got"
      /\ \A u \in Threads : pc'[u] = pc[u]
  BY Types DEF Push, Goto
<1>3. Pending' = Pending
  BY PushKeeps
<1>4. Reading' = Reading
  BY <1>3 DEF Reading
<1>5. SameContents
  BY <1>1 DEF SameContents
<1>6. /\ Target \in Ids /\ hash[Target] = NoFile
      /\ Current \in Files /\ file[Current].id = Target
  BY <1>1, TargetType, CurrentPinned DEF DInv, IndexInv
<1>7. IndexInv'
  <2>1. hash'[Target] = Current /\ \A i \in Ids : i # Target => hash'[i] = hash[i]
    BY <1>1, <1>6, Types
  <2>2. Entries(lru') = Entries(lru) \cup {Current}
    BY <1>1, <1>6, ConsOnce, Types
  <2>3. \A f \in Entries(lru) : f \in Files
    BY Types DEF Entries
  <2>4. \A f \in Files : file[f].id \in Ids
    BY Types DEF NodeFile
  <2>5. \A f \in Entries(lru') : hash'[file[f].id] = f
    BY <1>6, <2>1, <2>2, <2>3, <2>4, Types DEF DInv, IndexInv
  <2>6. \A i \in Ids : hash'[i] # NoFile => hash'[i] \in Entries(lru')
    BY <2>1, <2>2 DEF DInv, IndexInv
  <2>7. \A f \in Files : Live(f) => hash'[file[f].id] = f
    BY <1>6, <2>1, <2>4, Types DEF DInv, IndexInv
  <2> QED
    BY <1>1, <1>2, <2>5, <2>6, <2>7 DEF IndexInv, Live
<1>8. CallerInv'
  BY <1>1, <1>2, CallerStill DEF DInv
<1>9. DataInv'
  BY <1>1, <1>4, <1>5, DataStill DEF DInv
<1>10. ChildInv'
  BY <1>1, <1>4, <1>5, ChildStill DEF DInv, ChildInv, Unlinked
<1>11. StoreInv'
  <2>1. \A f \in Files : Settled(f)' /\ ~file'[f].modified /\ Reported(f)' =>
          Settled(f) /\ ~file[f].modified /\ Reported(f)
    BY <1>1 DEF Settled, Reported
  <2> QED
    BY <1>1, <1>2, <1>3, <1>5, <2>1, StoreStill DEF DInv
<1>12. WrittenInv'
  BY <1>2 DEF WrittenInv
<1> QED
  BY <1>7, <1>8, <1>9, <1>10, <1>11, <1>12 DEF DInv

\* The call getNodeFile works for, before and after it returns the file.
LEMMA FetchedCall ==
  ASSUME IInv, NEW f, cl' = Fetched(f), pc[Client] = "find"
  PROVE  /\ cl.stage \in {"node", "parent", "child"}
         /\ cl'.stage = cl.stage /\ cl'.id = cl.id /\ cl'.short = cl.short
         /\ cl'.from = cl.from /\ Current' = f /\ Target' = Target
         /\ cl.stage = "child" => cl'.pfile = cl.pfile
<1>1. cl \in Call
  BY DataTypes
<1>2. cl.stage \in {"node", "parent", "child"}
  BY <1>1 DEF IInv, CallInv, Call
<1>3. /\ cl'.stage = cl.stage /\ cl'.id = cl.id /\ cl'.short = cl.short
      /\ cl'.from = cl.from
      /\ cl.stage = "child" => cl'.pfile = cl.pfile
  BY <1>1 DEF Fetched, Call
<1>4. Current' = f
  BY FetchedCurrent
<1> QED
  BY <1>2, <1>3, <1>4 DEF Target

LEMMA FindHitData ==
  ASSUME IInv, QInv, DInv, FindHit PROVE DInv'
<1> DEFINE g == hash[Target]
           nf == [file[g] EXCEPT !.users = @ + 1,
                                 !.state = IF @ = "EVICTING" THEN "LOADING"
                                                             ELSE @]
<1>1. /\ pc[Client] = "find" /\ aborted = "no" /\ g # NoFile
      /\ file' = [file EXCEPT ![g] = nf] /\ lru' = Cons(g, RemoveFirst(lru, g))
      /\ cl' = Fetched(g)
      /\ UNCHANGED <<hash, store, truth, handles, job>>
  BY DEF FindHit, At, storageVars
<1>2. pc'[Client] = "got" /\ \A u \in Threads : pc'[u] = pc[u]
  BY Types DEF FindHit, Goto
<1>3. /\ g \in Files /\ file[g] \in NodeFile /\ file[g].state # "FREE"
      /\ g \in Entries(lru)
  <2>1. Target \in Ids
    BY TargetType
  <2> QED
    BY <1>1, <2>1, Types DEF IInv, HashInv, DInv, IndexInv
<1>4. /\ nf.id = file[g].id /\ nf.nodes = file[g].nodes /\ nf.child = file[g].child
      /\ nf.modified = file[g].modified
      /\ nf.state = IF file[g].state = "EVICTING" THEN "LOADING"
                                                  ELSE file[g].state
  BY <1>3 DEF NodeFile
<1>5. Entries(lru') = Entries(lru)
  <2> DEFINE r == RemoveFirst(lru, g)
  <2>1. r \in Seq(Files)
    BY RemoveFirstType, Types
  <2>2. Entries(r) = Entries(lru) \ {g}
    BY RemoveOnce, Types DEF QInv, ListInv
  <2> HIDE DEF r
  <2>3. Entries(Cons(g, r)) = Entries(r) \cup {g}
    BY <1>3, <2>1, ConsOnce
  <2> QED
    BY <1>1, <1>3, <2>2, <2>3 DEF r
<1>6. /\ cl.stage \in {"node", "parent", "child"}
      /\ cl'.stage = cl.stage /\ cl'.id = cl.id /\ cl'.short = cl.short
      /\ cl'.from = cl.from /\ (cl.stage = "child" => cl'.pfile = cl.pfile)
  BY <1>1, FetchedCall
<1> HIDE DEF g, nf
<1>7. file'[g] = nf /\ \A f \in Files : f # g => file'[f] = file[f]
  BY <1>1, <1>3, Types
<1>8. SameContents
  BY <1>3, <1>4, <1>7 DEF SameContents
<1>9. Pending' = Pending
  BY FindHitKeeps
<1>10. Reading' = Reading
  BY <1>9 DEF Reading
<1>11. IndexInv'
  <2>1. \A f \in Entries(lru) : f \in Files
    BY Types DEF Entries
  <2> QED
    BY <1>1, <1>2, <1>5, <1>8, <2>1 DEF DInv, IndexInv, SameContents, Live
<1>12. CallerInv'
  <2>1. \A f \in Files : file[f].state = "LOADED" => file'[f].state = "LOADED"
    BY <1>4, <1>7
  <2>2. (\A h \in Handles : handles[h].file \in Files \cup {NoFile})
        /\ cl.pfile \in Files \cup {NoFile}
    BY DataTypes DEF Handle, Call
  <2>3. Linking' => Linking
    BY <1>1, <1>2, <1>6 DEF Linking
  <2> QED
    BY <1>1, <1>2, <1>6, <2>1, <2>2, <2>3 DEF DInv, CallerInv, Made
<1>13. DataInv'
  BY <1>1, <1>8, <1>10, DataStill DEF DInv
<1>14. ChildInv'
  <2>1. \A f \in Files : ~Unlinked(f)
    BY <1>6 DEF Unlinked
  <2>2. cl'.stage = "child" /\ cl'.id # Root => Known(cl'.id)
    BY <1>6 DEF DInv, ChildInv
  <2> QED
    BY <1>1, <1>8, <1>10, <2>1, <2>2, ChildStill DEF DInv
<1>15. StoreInv'
  <2>1. \A f \in Files : Settled(f)' /\ ~file'[f].modified /\ Reported(f)' =>
          Settled(f) /\ ~file[f].modified /\ Reported(f)
    BY <1>1, <1>4, <1>7 DEF Settled, Reported
  <2> QED
    BY <1>1, <1>2, <1>8, <1>9, <2>1, StoreStill DEF DInv
<1>16. WrittenInv'
  BY <1>2 DEF WrittenInv
<1> QED
  BY <1>11, <1>12, <1>13, <1>14, <1>15, <1>16 DEF DInv

(***************************************************************************)
(* The steps that allocate a file                                          *)
(***************************************************************************)

\* A file is allocated for an id that has none.
LEMMA AllocatedData ==
  ASSUME IInv, QInv, DInv, NEW g \in Files, ~Live(g), NEW nf,
         file' = [file EXCEPT ![g] = nf], nf.state \in {"LOADING", "LOADED"},
         nf.state = "LOADED" => nf.modified, nf.nodes = Empty.nodes,
         nf.child = {}, nf.id \in Ids, nf.id = Target', Current' = g,
         hash[nf.id] = NoFile, pc[Client] \in {"ctor", "find", "got"},
         Goto(Client, "push"), aborted = "no",
         UNCHANGED <<lru, hash, store, truth, handles, job>>,
         \A j \in Pending' : j.op # "read" => j \in Pending
  PROVE  /\ IndexInv' /\ StoreInv' /\ WrittenInv'
         /\ pc'[Client] = "push" /\ file'[g] = nf
         /\ \A f \in Files : f # g => file'[f] = file[f]
         /\ \A f \in Files : Live(f) => file[f].id # nf.id
         /\ store[nf.id].nodes = truth[nf.id]
         /\ g \notin Reading
<1>1. file'[g] = nf /\ \A f \in Files : f # g => file'[f] = file[f]
  BY Types
<1>2. pc'[Client] = "push" /\ \A u \in Threads : pc'[u] = pc[u]
  BY Types DEF Goto
<1>3. \A f \in Files : Live(f) => file[f].id # nf.id
  BY LiveListed, Types DEF DInv
<1>4. store[nf.id].nodes = truth[nf.id]
  BY <1>3 DEF DInv, DataInv
<1>5. g \notin Reading /\ \A j \in Pending : j.file \in Files /\ j.file # g
  <2>1. file[g].state = "FREE"
    BY DEF Live
  <2> QED
    BY <2>1, RequestFiles DEF Live
<1>6. IndexInv'
  <2>1. \A f \in Entries(lru) : f \in Files /\ f # g
    BY Types DEF Entries, QInv, ListInv, Live
  <2> QED
    BY <1>1, <1>2, <2>1 DEF DInv, IndexInv, Live
<1>7. StoreInv'
  <2>1. ASSUME NEW f \in Files, Settled(f)', ~file'[f].modified, Reported(f)'
        PROVE  store'[file'[f].id] = Serialized(f)'
    <3>1. f # g
      BY <1>1, <2>1 DEF Settled
    <3>2. Settled(f) /\ ~file[f].modified /\ Reported(f)
      BY <1>1, <2>1, <3>1 DEF Settled, Reported
    <3> QED
      BY <1>1, <3>1, <3>2 DEF DInv, StoreInv, Serialized
  <2>2. ASSUME NEW j \in Pending', j.op # "read" PROVE j.data = Serialized(j.file)'
    <3>1. j \in Pending /\ j.file \in Files /\ j.file # g
      BY <1>5, <2>2
    <3> QED
      BY <1>1, <2>2, <3>1 DEF DInv, StoreInv, Serialized
  <2> QED
    BY <1>2, <2>1, <2>2 DEF DInv, StoreInv
<1>8. WrittenInv'
  BY <1>2 DEF WrittenInv
<1> QED
  BY <1>1, <1>2, <1>3, <1>4, <1>5, <1>6, <1>7, <1>8

LEMMA FindMissData ==
  ASSUME IInv, QInv, DInv, NEW g \in Files, NEW m \in BOOLEAN, FindMiss(g, m)
  PROVE  DInv'
<1> DEFINE nf == NewNodeFile(Target, "LOADING", m)
           j == [NoJob EXCEPT !.file = g, !.id = Target]
           k == Target
<1>1. /\ pc[Client] = "find" /\ aborted = "no" /\ hash[k] = NoFile
      /\ file[g].state = "FREE" /\ file' = [file EXCEPT ![g] = nf]
      /\ cl' = Fetched(g) /\ Goto(Client, "push")
      /\ UNCHANGED <<lru, hash, store, truth, handles, job>>
  BY DEF FindMiss, At
<1>2. /\ nf.state = "LOADING" /\ nf.id = k /\ nf.nodes = Empty.nodes
      /\ nf.child = {}
  BY DEF NewNodeFile
<1>3. Pending' = Pending \cup {j} /\ k \in Ids
  BY FindMissKeeps
<1>4. j.op = "read" /\ j.file = g
  BY DEF NoJob
<1>5. /\ cl.stage \in {"node", "parent", "child"}
      /\ cl'.stage = cl.stage /\ cl'.id = cl.id /\ cl'.short = cl.short
      /\ cl'.from = cl.from /\ Current' = g /\ Target' = k
      /\ cl.stage = "child" => cl'.pfile = cl.pfile
  BY <1>1, FetchedCall
<1>6. /\ k = Parent[cl.id] \/ cl.stage # "parent"
      /\ k = cl.id \/ cl.stage = "parent"
  BY DEF Target
<1> HIDE DEF j, nf, k
<1>7. /\ IndexInv' /\ StoreInv' /\ WrittenInv'
      /\ pc'[Client] = "push" /\ file'[g] = nf
      /\ \A f \in Files : f # g => file'[f] = file[f]
      /\ \A f \in Files : Live(f) => file[f].id # k
      /\ store[k].nodes = truth[k] /\ g \notin Reading
  <2>1. \A x \in Pending' : x.op # "read" => x \in Pending
    BY <1>3, <1>4
  <2>2. ~Live(g)
    BY <1>1 DEF Live
  <2>3. nf.id = Target' /\ hash[nf.id] = NoFile /\ nf.id \in Ids
    BY <1>1, <1>2, <1>3, <1>5
  <2>4. pc[Client] \in {"ctor", "find", "got"} /\ nf.state \in {"LOADING", "LOADED"}
    BY <1>1, <1>2
  <2>5. nf.state = "LOADED" => nf.modified
    BY <1>2
  <2>6. UNCHANGED <<lru, hash, store, truth, handles, job>>
    BY <1>1
  <2>7. /\ file' = [file EXCEPT ![g] = nf] /\ Goto(Client, "push")
        /\ aborted = "no" /\ Current' = g
    BY <1>1, <1>5
  <2>8. nf.nodes = Empty.nodes /\ nf.child = {}
    BY <1>2
  <2>9. /\ IndexInv' /\ StoreInv' /\ WrittenInv'
        /\ pc'[Client] = "push" /\ file'[g] = nf
        /\ \A f \in Files : f # g => file'[f] = file[f]
        /\ \A f \in Files : Live(f) => file[f].id # nf.id
        /\ store[nf.id].nodes = truth[nf.id] /\ g \notin Reading
    BY <2>1, <2>2, <2>3, <2>4, <2>5, <2>6, <2>7, <2>8, AllocatedData
  <2> QED
    BY <1>2, <2>9
<1>8. Reading' = Reading \cup {g}
  BY <1>3, <1>4 DEF Reading
<1>9. \A f \in Files : Live(f)' <=> Live(f) \/ f = g
  BY <1>2, <1>7 DEF Live
<1>10. CallerInv'
  <2>1. \A f \in Files : file[f].state = "LOADED" => file'[f].state = "LOADED"
    BY <1>1, <1>7
  <2>2. (\A h \in Handles : handles[h].file \in Files \cup {NoFile})
        /\ cl.pfile \in Files \cup {NoFile}
    BY DataTypes DEF Handle, Call
  <2>3. Linking' => Linking
    BY <1>1, <1>5 DEF Linking
  <2> QED
    BY <1>1, <1>5, <1>7, <2>1, <2>2, <2>3 DEF DInv, CallerInv, Made
<1>11. DataInv'
  <2>1. \A f \in Files : Live(f)' /\ f \notin Reading' =>
          file'[f].nodes = truth'[file'[f].id]
    BY <1>1, <1>7, <1>8, <1>9 DEF DInv, DataInv
  <2>2. \A f \in Files : Live(f)' /\ f \in Reading' =>
          /\ store'[file'[f].id].nodes = truth'[file'[f].id]
          /\ \A s \in Shorts :
               file'[f].nodes[s] # Absent => truth'[file'[f].id][s] # Absent
    <3>1. \A s \in Shorts : nf.nodes[s] = Absent
      BY <1>2 DEF Empty
    <3> QED
      BY <1>1, <1>2, <1>7, <1>8, <1>9, <3>1 DEF DInv, DataInv
  <2>3. ASSUME NEW i \in Ids, \A f \in Files : Live(f)' => file'[f].id # i
        PROVE  store'[i].nodes = truth'[i]
    <3>1. \A f \in Files : Live(f) => file[f].id # i
      BY <1>1, <1>7, <1>9, <2>3 DEF Live
    <3> QED
      BY <1>1, <3>1 DEF DInv, DataInv
  <2> QED
    BY <2>1, <2>2, <2>3 DEF DataInv
<1>12. ChildInv'
  <2>1. ASSUME NEW i, Known(i) PROVE Known(i)'
    <3>1. \A f \in Files : Live(f)' /\ file'[f].id = Parent[i] /\ f \notin Reading' =>
            i \in file'[f].child
      BY <1>7, <1>8, <1>9, <2>1 DEF Known
    <3>2. (\A f \in Files : Live(f)' /\ file'[f].id = Parent[i] => f \in Reading')
            => (\A f \in Files : Live(f) /\ file[f].id = Parent[i] => f \in Reading)
      BY <1>1, <1>7, <1>8, <1>9 DEF Live
    <3> QED
      BY <1>1, <2>1, <3>1, <3>2 DEF Known
  <2>2. k # Root => Known(k)
    <3>1. CASE cl.stage = "node"
      <4>1. truth[k][cl.short] # Absent /\ cl.short \in Shorts
        BY <1>6, <3>1, DataTypes DEF DInv, CallerInv, Call
      <4> QED
        BY <1>3, <4>1 DEF DInv, ChildInv
    <3>2. CASE cl.stage = "child"
      BY <1>6, <3>2 DEF DInv, ChildInv
    <3>3. CASE cl.stage = "parent"
      <4> DEFINE h == handles[cl.from]
      <4>1. Linking
        BY <1>1, <3>3 DEF Linking
      <4>2. /\ cl.from \in Handles /\ h.file # NoFile /\ h.id = k
            /\ file[h.file].state = "LOADED"
        BY <1>6, <3>3, <4>1 DEF DInv, CallerInv
      <4>3. h.file \in Files /\ file[h.file].id = k /\ Live(h.file)
        BY <4>2, DataTypes DEF Handle, IInv, IdInv, Live
      <4> QED
        BY <1>7, <4>3
    <3> QED
      BY <1>5, <3>1, <3>2, <3>3
  <2>3. \A i \in Ids \ {Root} :
          store'[i] # Empty \/ (\E s \in Shorts : truth'[i][s] # Absent) => Known(i)'
    BY <1>1, <2>1 DEF DInv, ChildInv
  <2>4. ASSUME NEW f \in Files, Live(f)', file'[f].id # Root, NEW i, i = file'[f].id
        PROVE  Known(i)'
    <3>1. CASE f = g
      BY <1>2, <1>7, <2>1, <2>2, <2>4, <3>1
    <3>2. CASE f # g
      <4>1. Live(f) /\ file[f] = file'[f] /\ ~Unlinked(f)
        BY <1>5, <1>7, <1>9, <2>4, <3>2 DEF Unlinked
      <4> QED
        BY <2>1, <2>4, <4>1 DEF DInv, ChildInv
    <3> QED
      BY <3>1, <3>2
  <2>5. cl'.stage = "child" /\ cl'.id # Root => Known(cl.id)'
    BY <1>5, <2>1 DEF DInv, ChildInv
  <2>6. \A f \in Files : Live(f)' /\ file'[f].id # Root => Known(file[f].id)'
    BY <2>4
  <2> QED
    BY <1>5, <2>3, <2>5, <2>6 DEF ChildInv
<1> QED
  BY <1>7, <1>10, <1>11, <1>12 DEF DInv

\* createNodeFile, for an id that neither the cache nor the storage knows.
LEMMA CreatedData ==
  ASSUME IInv, QInv, DInv, NEW g \in Files, ~Live(g), NEW i \in Ids, NEW nf,
         nf.state = "LOADED", nf.id = i, nf.nodes = Empty.nodes, nf.child = {},
         nf.modified, file' = [file EXCEPT ![g] = nf],
         i = Target', Current' = g, hash[i] = NoFile, store[i] = Empty,
         pc[Client] \in {"ctor", "got"}, Goto(Client, "push"), aborted = "no",
         UNCHANGED <<lru, hash, store, truth, handles, job>>, Pending' = Pending,
         i = Root \/ Unlinked(g)', \A f \in Files : ~Unlinked(f),
         cl'.stage # "child", CallerInv'
  PROVE  DInv'
<1>1. /\ nf.state = "LOADED" /\ nf.id = i /\ nf.nodes = Empty.nodes
      /\ nf.child = {} /\ nf.modified
      /\ UNCHANGED <<store, truth>>
  OBVIOUS
<1>2. /\ IndexInv' /\ StoreInv' /\ WrittenInv'
      /\ pc'[Client] = "push" /\ file'[g] = nf
      /\ \A f \in Files : f # g => file'[f] = file[f]
      /\ \A f \in Files : Live(f) => file[f].id # nf.id
      /\ store[nf.id].nodes = truth[nf.id] /\ g \notin Reading
  <2>1. \A x \in Pending' : x.op # "read" => x \in Pending
    OBVIOUS
  <2>2. nf.id = Target' /\ hash[nf.id] = NoFile /\ nf.id \in Ids
    BY <1>1
  <2>3. pc[Client] \in {"ctor", "find", "got"} /\ nf.state \in {"LOADING", "LOADED"}
    BY <1>1
  <2>4. nf.nodes = Empty.nodes /\ nf.child = {} /\ (nf.state = "LOADED" => nf.modified)
    BY <1>1
  <2> QED
    BY <2>1, <2>2, <2>3, <2>4, AllocatedData
<1>3. Reading' = Reading
  BY DEF Reading
<1>4. \A f \in Files : Live(f)' <=> Live(f) \/ f = g
  BY <1>1, <1>2 DEF Live
<1>5. DataInv'
  <2>1. \A f \in Files : Live(f)' /\ f \notin Reading' =>
          file'[f].nodes = truth'[file'[f].id]
    <3>1. file'[g].nodes = truth'[file'[g].id]
      BY <1>1, <1>2
    <3>2. \A f \in Files : f # g /\ Live(f)' /\ f \notin Reading' =>
            file'[f].nodes = truth'[file'[f].id]
      BY <1>1, <1>2, <1>3, <1>4 DEF DInv, DataInv
    <3> QED
      BY <3>1, <3>2
  <2>2. \A f \in Files : Live(f)' /\ f \in Reading' =>
          /\ store'[file'[f].id].nodes = truth'[file'[f].id]
          /\ \A s \in Shorts :
               file'[f].nodes[s] # Absent => truth'[file'[f].id][s] # Absent
    <3>1. \A f \in Files : Live(f)' /\ f \in Reading' =>
            Live(f) /\ f \in Reading /\ file'[f] = file[f]
      BY <1>2, <1>3, <1>4
    <3> QED
      BY <1>1, <3>1 DEF DInv, DataInv
  <2>3. ASSUME NEW x \in Ids, \A f \in Files : Live(f)' => file'[f].id # x
        PROVE  store'[x].nodes = truth'[x]
    <3>1. \A f \in Files : Live(f) => file[f].id # x
      BY <1>2, <1>4, <2>3 DEF Live
    <3> QED
      BY <3>1 DEF DInv, DataInv
  <2> QED
    BY <2>1, <2>2, <2>3 DEF DataInv
<1>6. ChildInv'
  <2>1. ASSUME NEW x, Known(x) PROVE Known(x)'
    <3>1. Parent[x] # i
      <4> SUFFICES ASSUME Parent[x] = i PROVE FALSE
        OBVIOUS
      <4>1. x \in store[i].child
        BY <1>1, <1>2, <2>1 DEF Known
      <4> QED
        BY <4>1 DEF Empty
    <3>2. \A f \in Files : Live(f)' /\ file'[f].id = Parent[x] =>
            Live(f) /\ file'[f] = file[f]
      BY <1>1, <1>2, <1>4, <3>1
    <3>3. \A f \in Files : Live(f) => f # g /\ Live(f)' /\ file'[f] = file[f]
      BY <1>2, <1>4
    <3> QED
      BY <1>1, <1>3, <2>1, <3>2, <3>3 DEF Known
  <2>2. \A x \in Ids \ {Root} :
          store'[x] # Empty \/ (\E s \in Shorts : truth'[x][s] # Absent) => Known(x)'
    BY <2>1 DEF DInv, ChildInv
  <2>3. ASSUME NEW f \in Files, Live(f)', file'[f].id # Root, ~Unlinked(f)', NEW x,
               x = file'[f].id
        PROVE  Known(x)'
    <3>1. f # g
      BY <1>1, <1>2, <2>3
    <3>2. Live(f) /\ file[f] = file'[f] /\ ~Unlinked(f)
      BY <1>2, <1>4, <2>3, <3>1
    <3> QED
      BY <2>1, <2>3, <3>2 DEF DInv, ChildInv
  <2>4. \A f \in Files : Live(f)' /\ file'[f].id # Root /\ ~Unlinked(f)' =>
          Known(file[f].id)'
    BY <2>3
  <2> QED
    BY <2>2, <2>4 DEF ChildInv
<1> QED
  BY <1>2, <1>5, <1>6 DEF DInv

LEMMA CreateRootData ==
  ASSUME IInv, QInv, DInv, NEW g \in Files, NEW h \in Handles, CreateRoot(g, h)
  PROVE  DInv'
<1> DEFINE nf == NewNodeFile(Root, "LOADED", TRUE)
<1>1. /\ pc[Client] = "ctor" /\ aborted = "no" /\ file[g].state = "FREE"
      /\ file' = [file EXCEPT ![g] = nf] /\ Goto(Client, "push")
      /\ cl' = [NoCall EXCEPT !.stage = "root", !.slot = h, !.file = g]
      /\ UNCHANGED <<lru, hash, store, truth, handles, job>>
  BY DEF CreateRoot, At, storageVars
<1>2. /\ cl'.stage = "root" /\ cl'.file = g /\ cl'.id = Root
      /\ cl'.short = RootNode /\ cl'.pfile = NoFile
  BY <1>1 DEF NoCall
<1>3. Root \in Ids /\ Target' = Root /\ Current' = g
  BY <1>2, DataTypes DEF Target, Current
<1>4. /\ store[Root] = Empty /\ truth[Root] = Empty.nodes
      /\ hash[Root] = NoFile
  <2>1. \A f \in Files : ~Live(f)
    BY <1>1 DEF DInv, IndexInv
  <2> QED
    BY <1>1, <1>3, <2>1, Types DEF DInv, IndexInv, IInv, HashInv, Live
<1>5. ~Live(g)
  BY <1>1 DEF Live
<1>6. cl.stage = "none"
  BY <1>1, DataTypes DEF IInv, CallInv, Call
<1>7. pc'[Client] = "push"
  BY <1>1, Types DEF Goto
<1>8. /\ nf.state = "LOADED" /\ nf.id = Root /\ nf.nodes = Empty.nodes
      /\ nf.child = {} /\ nf.modified
  BY DEF NewNodeFile
<1>9. CallerInv'
  <2>1. file'[g].state = "LOADED"
    BY <1>1, <1>8, Types
  <2>2. truth'[Root][RootNode] = Absent
    BY <1>1, <1>4, ConstantsAssumption DEF Empty
  <2>3. ~Made' /\ ~Linking'
    BY <1>2, <1>7 DEF Made, Linking
  <2>4. \A x \in Handles : handles[x].file = NoFile
    BY <1>1 DEF IInv, SlotInv
  <2> QED
    BY <1>1, <1>2, <1>7, <2>1, <2>2, <2>3, <2>4 DEF CallerInv
<1>10. Pending' = Pending
  BY CreateRootKeeps
<1>11. \A f \in Files : ~Unlinked(f)
  BY <1>6 DEF Unlinked
<1> HIDE DEF nf
<1> QED
  BY <1>1, <1>2, <1>3, <1>4, <1>5, <1>8, <1>9, <1>10, <1>11, CreatedData

LEMMA ParentLacksFileData ==
  ASSUME IInv, QInv, DInv, NEW g \in Files, ParentLacksFile(g)
  PROVE  DInv'
<1> DEFINE nf == NewNodeFile(cl.id, "LOADED", TRUE)
<1>1. /\ pc[Client] = "got" /\ aborted = "no" /\ cl.stage = "parent"
      /\ file[cl.pfile].state = "LOADED" /\ cl.id # Root
      /\ cl.id \notin file[cl.pfile].child /\ file[g].state = "FREE"
      /\ file' = [file EXCEPT ![g] = nf] /\ Goto(Client, "push")
      /\ cl' = [cl EXCEPT !.stage = "created", !.file = g]
      /\ UNCHANGED <<lru, hash, store, truth, handles, job>>
  BY DEF ParentLacksFile, At, storageVars
<1>2. /\ cl'.stage = "created" /\ cl'.file = g /\ cl'.id = cl.id
      /\ cl'.short = cl.short /\ cl'.pfile = cl.pfile /\ cl'.from = cl.from
      /\ cl.id \in Ids
  BY <1>1, DataTypes DEF Call
<1>3. Target' = cl.id /\ Current' = g
  BY <1>2 DEF Target, Current
<1>4. ~Known(cl.id) /\ cl.pfile \in Files
  BY <1>1, ParentKnows
<1>5. \A f \in Files : ~Unlinked(f)
  BY <1>1 DEF Unlinked
<1>6. store[cl.id] = Empty
  BY <1>1, <1>2, <1>4 DEF DInv, ChildInv
<1>7. \A f \in Files : Live(f) => file[f].id # cl.id
  BY <1>1, <1>4, <1>5 DEF DInv, ChildInv
<1>8. hash[cl.id] = NoFile
  BY <1>2, <1>7, Types DEF IInv, HashInv, Live
<1>9. ~Live(g)
  BY <1>1 DEF Live
<1>10. pc'[Client] = "push"
  BY <1>1, Types DEF Goto
<1>11. /\ nf.state = "LOADED" /\ nf.id = cl.id /\ nf.nodes = Empty.nodes
       /\ nf.child = {} /\ nf.modified
  BY DEF NewNodeFile
<1>12. Unlinked(g)'
  BY <1>2, <1>4, Types DEF Unlinked
<1>13. Pending' = Pending
  BY ParentLacksFileKeeps
<1>14. CallerInv'
  <2>1. /\ file'[g].state = "LOADED"
        /\ \A f \in Files : file[f].state = "LOADED" => file'[f].state = "LOADED"
    BY <1>1, <1>11, Types
  <2>2. ~Made' /\ ~Made
    BY <1>1, <1>10 DEF Made
  <2>3. Linking
    BY <1>1 DEF Linking
  <2>4. handles[cl.from].file \in Files
    BY <2>3, DataTypes DEF DInv, CallerInv, Handle
  <2>5. /\ cl.from \in Handles /\ handles[cl.from].file # NoFile
        /\ handles[cl.from].id = Parent[cl.id]
        /\ file'[handles[cl.from].file].state = "LOADED"
    BY <2>1, <2>3, <2>4 DEF DInv, CallerInv
  <2> QED
    BY <1>1, <1>2, <1>4, <1>10, <2>1, <2>2, <2>5 DEF DInv, CallerInv
<1> HIDE DEF nf
<1> QED
  BY <1>1, <1>2, <1>3, <1>5, <1>6, <1>8, <1>9, <1>11, <1>12, <1>13, <1>14,
     CreatedData

(***************************************************************************)
(* The steps that change a node                                            *)
(***************************************************************************)

\* A node of a LOADED file gets a value, and the file or a handle on it says so.
LEMMA ChangedData ==
  ASSUME IInv, QInv, DInv, NEW g \in Files, file[g].state = "LOADED",
         \A f \in Files : f # g => file'[f] = file[f],
         file'[g].state = "LOADED", file'[g].id = file[g].id,
         file[g].child \subseteq file'[g].child,
         NEW s \in Shorts, NEW v \in Nat,
         file'[g].nodes = [file[g].nodes EXCEPT ![s] = v],
         truth' = [truth EXCEPT ![file[g].id][s] = v],
         \A f \in Files : f = g /\ Reported(f)' => file'[f].modified,
         \A f \in Files : f # g /\ Reported(f)' => Reported(f),
         pc'[Client] \in {"idle", "create", "inc"},
         \A t \in Threads : pc'[t] = pc[t],
         pc[Client] \in {"idle", "got", "link", "create"}, aborted = "no",
         UNCHANGED <<lru, hash, store, job>>, Pending' = Pending,
         file[g].id # Root => Known(file[g].id),
         \A f \in Files, i \in Ids :
            Unlinked(f) /\ i = file[f].id => Unlinked(f)' \/ Known(i)',
         cl'.stage = "child" => cl.stage = "child" /\ cl'.id = cl.id
  PROVE  IndexInv' /\ DataInv' /\ StoreInv' /\ ChildInv' /\ WrittenInv'
<1> DEFINE k == file[g].id
<1>0. /\ truth' = [truth EXCEPT ![k] = [truth[k] EXCEPT ![s] = v]]
      /\ k \in Ids /\ UNCHANGED <<lru, hash, store, job>>
  <2>1. k \in Ids
    BY Types DEF NodeFile
  <2> QED
    BY <2>1, DataTypes
<1>1. \A f \in Files : f # g => file'[f] = file[f]
  OBVIOUS
<1>2. \A u \in Threads : pc'[u] = pc[u]
  OBVIOUS
<1>3. Live(g) /\ g \notin Reading /\ Reading' = Reading
  BY RequestFiles DEF Live, Reading
<1>4. file'[g].id = k /\ (k # Root => Known(k))
  OBVIOUS
<1> HIDE DEF k
<1>5. /\ \A f \in Files : Live(f)' <=> Live(f)
      /\ \A f \in Files : file'[f].id = file[f].id
      /\ \A f \in Files : file[f].child \subseteq file'[f].child
      /\ \A f \in Files : file[f].id \in Ids
  <2>1. \A f \in Files : file[f].id \in Ids
    BY Types DEF NodeFile
  <2> QED
    BY <1>1, <1>3, <1>4, <2>1 DEF Live, k
<1>6. \A f \in Files : Live(f) /\ f # g => file[f].id # k
  BY <1>3, Unique DEF DInv, k
<1>7. /\ truth'[k] = [truth[k] EXCEPT ![s] = v]
      /\ \A i \in Ids : i # k => truth'[i] = truth[i]
  BY <1>0, DataTypes
<1>8. IndexInv'
  <2>1. \A f \in Entries(lru) : f \in Files
    BY Types DEF Entries
  <2>2. pc[Client] # "push" /\ pc'[Client] \notin {"push", "ctor"}
    BY <1>2
  <2> QED
    BY <1>0, <1>5, <2>1, <2>2 DEF DInv, IndexInv
<1>9. DataInv'
  <2>1. ASSUME NEW f \in Files, Live(f), f \notin Reading
        PROVE  file'[f].nodes = truth'[file[f].id]
    <3>1. CASE f = g
      BY <1>1, <1>3, <1>7, <3>1 DEF DInv, DataInv, k
    <3>2. CASE f # g
      BY <1>1, <1>5, <1>6, <1>7, <2>1, <3>2 DEF DInv, DataInv
    <3> QED
      BY <3>1, <3>2
  <2>2. ASSUME NEW f \in Files, Live(f), f \in Reading
        PROVE  f # g /\ file'[f] = file[f] /\ truth'[file[f].id] = truth[file[f].id]
    BY <1>1, <1>3, <1>5, <1>6, <1>7, <2>2
  <2>3. ASSUME NEW i \in Ids, \A f \in Files : Live(f) => file[f].id # i
        PROVE  i # k
    BY <1>3, <2>3 DEF k
  <2>4. \A f \in Files : Live(f)' /\ f \in Reading' =>
       /\ store'[file'[f].id].nodes = truth'[file'[f].id]
       /\ \A x \in Shorts :
            file'[f].nodes[x] # Absent => truth'[file'[f].id][x] # Absent
    BY <1>0, <1>3, <1>5, <2>2 DEF DInv, DataInv
  <2>5. \A i \in Ids : (\A f \in Files : Live(f)' => file'[f].id # i) =>
       store'[i].nodes = truth'[i]
    BY <1>0, <1>5, <1>7, <2>3 DEF DInv, DataInv
  <2> QED
    BY <1>3, <1>5, <2>1, <2>4, <2>5 DEF DataInv
<1>10. StoreInv'
  <2>1. ASSUME NEW f \in Files, Settled(f)', ~file'[f].modified, Reported(f)'
        PROVE  store'[file'[f].id] = Serialized(f)'
    <3>1. f # g
      BY <1>1, <2>1
    <3>2. Settled(f) /\ ~file[f].modified /\ Reported(f)
      BY <1>1, <2>1, <3>1 DEF Settled
    <3> QED
      BY <1>0, <1>1, <3>1, <3>2 DEF DInv, StoreInv, Serialized
  <2>2. ASSUME NEW j \in Pending', j.op # "read" PROVE j.data = Serialized(j.file)'
    <3>1. j \in Pending /\ j.file \in Files /\ j.file # g
      BY <2>2, RequestFiles, LoadedIdle
    <3> QED
      BY <1>1, <2>2, <3>1 DEF DInv, StoreInv, Serialized
  <2> QED
    BY <1>0, <1>2, <2>1, <2>2 DEF DInv, StoreInv
<1>11. ChildInv'
  <2>1. ASSUME NEW i, Known(i) PROVE Known(i)'
    BY <1>0, <1>3, <1>5, <2>1 DEF Known
  <2>2. \A i \in Ids \ {Root} :
          store'[i] # Empty \/ (\E x \in Shorts : truth'[i][x] # Absent) => Known(i)'
    BY <1>0, <1>4, <1>7, <2>1 DEF DInv, ChildInv
  <2>3. ASSUME NEW f \in Files, Live(f)', file'[f].id # Root, ~Unlinked(f)', NEW i,
               i = file[f].id
        PROVE  Known(i)'
    BY <1>5, <2>1, <2>3 DEF DInv, ChildInv
  <2>4. \A f \in Files : Live(f)' /\ file'[f].id # Root /\ ~Unlinked(f)' =>
          Known(file[f].id)'
    BY <1>5, <2>3
  <2>5. cl'.stage = "child" /\ cl'.id # Root => Known(cl.id)'
    BY <2>1 DEF DInv, ChildInv
  <2> QED
    BY <2>2, <2>4, <2>5 DEF ChildInv
<1>12. WrittenInv'
  BY <1>2 DEF WrittenInv
<1> QED
  BY <1>8, <1>9, <1>10, <1>11, <1>12

\* A node that exists goes on to exist.
LEMMA TruthKept ==
  ASSUME IInv, NEW i \in Ids, NEW s \in Shorts, NEW v \in Nat,
         truth' = [truth EXCEPT ![i][s] = v]
  PROVE  /\ truth'[i][s] = v /\ truth'[i][s] # Absent
         /\ \A k \in Ids, x \in Shorts :
              truth[k][x] # Absent => truth'[k][x] # Absent
         /\ \A k \in Ids, x \in Shorts :
              k # i \/ x # s => truth'[k][x] = truth[k][x]
<1>1. truth' = [truth EXCEPT ![i] = [truth[i] EXCEPT ![s] = v]]
  BY DataTypes
<1>2. truth'[i] = [truth[i] EXCEPT ![s] = v] /\ truth[i] \in [Shorts -> Values]
      /\ \A k \in Ids : k # i => truth'[k] = truth[k]
  BY <1>1, DataTypes
<1>3. truth'[i][s] = v /\ v # Absent /\ \A x \in Shorts : x # s => truth'[i][x] = truth[i][x]
  BY <1>2, DataTypes
<1> QED
  BY <1>2, <1>3

LEMMA ModifyNodeData ==
  ASSUME IInv, QInv, DInv, NEW h \in Handles, ModifyNode(h) PROVE DInv'
<1> DEFINE g == handles[h].file
           s == handles[h].short
           nf == [file[g] EXCEPT !.nodes[s] = version']
<1>1. /\ pc[Client] = "idle" /\ aborted = "no" /\ g # NoFile
      /\ file[g].state = "LOADED" /\ version' = version + 1
      /\ file' = [file EXCEPT ![g] = nf]
      /\ truth' = [truth EXCEPT ![handles[h].id][s] = version']
      /\ handles' = [handles EXCEPT ![h].modified = TRUE]
      /\ pc' = pc /\ UNCHANGED <<lru, hash, store, job, cl>>
  BY DEF ModifyNode, At, Loaded, storageVars
<1>2. /\ g \in Files /\ file[g] \in NodeFile /\ s \in Shorts
      /\ handles[h] \in Handle /\ version' \in Nat
  BY <1>1, Types, DataTypes DEF Handle
<1>3. handles[h].id = file[g].id /\ file[g].id \in Ids
  BY <1>1, <1>2 DEF IInv, IdInv, NodeFile
<1>4. /\ nf.id = file[g].id /\ nf.child = file[g].child /\ nf.state = "LOADED"
      /\ nf.nodes = [file[g].nodes EXCEPT ![s] = version']
  BY <1>1, <1>2 DEF NodeFile
<1>5. /\ handles'[h].file = g /\ handles'[h].modified
      /\ \A x \in Handles : /\ x # h => handles'[x] = handles[x]
                            /\ handles'[x].file = handles[x].file
                            /\ handles'[x].id = handles[x].id
                            /\ handles'[x].short = handles[x].short
  BY <1>1, <1>2, DataTypes DEF Handle
<1>6. truth[file[g].id][s] # Absent
  BY <1>1, <1>3 DEF DInv, CallerInv
<1>7. cl.stage = "none"
  BY <1>1, DataTypes DEF IInv, CallInv, Call
<1> HIDE DEF nf
<1>a. PICK v \in Nat : v = version'
  BY <1>2
<1>8. IndexInv' /\ DataInv' /\ StoreInv' /\ ChildInv' /\ WrittenInv'
  <2>1. /\ \A f \in Files : f = g => ~Reported(f)'
        /\ \A f \in Files : f # g /\ Reported(f)' => Reported(f)
    BY <1>5 DEF Reported
  <2>2. file[g].id # Root => Known(file[g].id)
    BY <1>2, <1>3, <1>6 DEF DInv, ChildInv
  <2>3. Pending' = Pending
    BY ModifyNodeQuiet
  <2>4. truth' = [truth EXCEPT ![file[g].id][s] = v]
    BY <1>1, <1>3, <1>a
  <2>5. /\ \A f \in Files, i \in Ids :
             Unlinked(f) /\ i = file[f].id => Unlinked(f)' \/ Known(i)'
        /\ cl'.stage # "child"
    BY <1>1, <1>7 DEF Unlinked
  <2>6. /\ g \in Files /\ file[g].state = "LOADED" /\ aborted = "no"
        /\ s \in Shorts /\ UNCHANGED <<lru, hash, store, job>>
        /\ pc[Client] \in {"idle", "got", "link", "create"}
        /\ pc'[Client] \in {"idle", "create", "inc"}
        /\ \A t \in Threads : pc'[t] = pc[t]
    BY <1>1, <1>2
  <2>7. file'[g] = nf /\ \A f \in Files : f # g => file'[f] = file[f]
    BY <1>1, <1>2, Types
  <2>8. /\ file'[g].id = file[g].id /\ file[g].child \subseteq file'[g].child
        /\ file'[g].state = "LOADED"
        /\ file'[g].nodes = [file[g].nodes EXCEPT ![s] = v]
    BY <1>4, <1>a, <2>7
  <2> HIDE DEF g, s
  <2> QED
    BY <2>1, <2>2, <2>3, <2>4, <2>5, <2>6, <2>7, <2>8, ChangedData
<1>9. CallerInv'
  <2>1. \A k \in Ids, x \in Shorts : truth[k][x] # Absent => truth'[k][x] # Absent
    BY <1>1, <1>2, <1>3, TruthKept
  <2>2. \A x \in Handles : handles[x].id \in Ids /\ handles[x].short \in Shorts
    BY DataTypes DEF Handle
  <2>3. ~Linking' /\ ~Made'
    BY <1>1, <1>7 DEF Linking, Made
  <2>4. truth'[Root][RootNode] # Absent
    BY <1>1, <1>7, <2>1, ConstantsAssumption DEF DInv, CallerInv
  <2>5. \A x \in Handles : handles'[x].file # NoFile =>
          truth'[handles'[x].id][handles'[x].short] # Absent
    BY <1>5, <2>1, <2>2 DEF DInv, CallerInv
  <2> QED
    BY <1>1, <1>7, <2>3, <2>4, <2>5 DEF CallerInv
<1> QED
  BY <1>8, <1>9 DEF DInv

LEMMA LinkParentData ==
  ASSUME IInv, QInv, DInv, LinkParent PROVE DInv'
<1> DEFINE g == cl.pfile
           h == cl.from
           s == handles[h].short
           mf == IF cl.stage = "created" THEN WithChildFile(file[g], cl.id)
                                         ELSE file[g]
           nf == [mf EXCEPT !.users = @ - 1, !.nodes[s] = version']
<1>1. /\ pc[Client] = "link" \/ (pc[Client] = "got" /\ cl.stage = "child"
                                 /\ file[cl.file].state = "LOADED")
      /\ aborted = "no" /\ version' = version + 1
      /\ file' = [file EXCEPT ![g] = nf]
      /\ truth' = [truth EXCEPT ![handles[h].id][s] = version']
      /\ handles' = [handles EXCEPT ![h].modified = TRUE]
      /\ cl' = [cl EXCEPT !.pfile = NoFile]
      /\ UNCHANGED <<lru, hash, store, job>>
  BY DEF LinkParent, At, storageVars
<1>2. pc'[Client] = "create" /\ \A u \in Threads : pc'[u] = pc[u]
  BY Types DEF LinkParent, Goto
<1>3. cl.stage \in {"child", "created"} /\ g # NoFile /\ cl.file # NoFile /\ cl \in Call
  BY <1>1, DataTypes DEF IInv, CallInv, Call
<1>4. /\ h \in Handles /\ handles[h].file # NoFile
      /\ handles[h].id = Parent[cl.id]
      /\ file[handles[h].file].state = "LOADED"
  <2>1. Linking
    BY <1>1, <1>3 DEF Linking
  <2> QED
    BY <2>1 DEF DInv, CallerInv
<1>5. /\ g \in Files /\ file[g] \in NodeFile /\ file[g].state = "LOADED"
      /\ file[g].id = Parent[cl.id]
  BY <1>3, Types DEF Call, DInv, CallerInv, IInv, IdInv
<1>6. /\ handles[h] \in Handle /\ s \in Shorts /\ handles[h].id \in Ids
      /\ handles[h].file \in Files
      /\ file[handles[h].file].id = handles[h].id
  BY <1>4, DataTypes DEF Handle, IInv, IdInv
<1>7. handles[h].file = g /\ handles[h].id = file[g].id /\ file[g].id \in Ids
  BY <1>4, <1>5, <1>6, Unique DEF Live, DInv
<1>8. truth[file[g].id][s] # Absent
  BY <1>4, <1>7 DEF DInv, CallerInv
<1>9. PICK v \in Nat : v = version'
  BY <1>1, DataTypes
<1>10. /\ mf \in NodeFile /\ mf.id = file[g].id /\ mf.nodes = file[g].nodes
       /\ mf.state = "LOADED" /\ file[g].child \subseteq mf.child
       /\ cl.stage = "created" => cl.id \in mf.child
  <2>1. cl.id \in Ids
    BY <1>3 DEF Call
  <2> QED
    BY <1>5, <2>1 DEF WithChildFile, NodeFile
<1>11. /\ nf.id = file[g].id /\ nf.child = mf.child /\ nf.state = "LOADED"
       /\ nf.nodes = [file[g].nodes EXCEPT ![s] = v]
  <2> HIDE DEF mf
  <2> QED
    BY <1>9, <1>10 DEF NodeFile
<1> HIDE DEF nf, mf
<1>12. file'[g] = nf /\ \A f \in Files : f # g => file'[f] = file[f]
  BY <1>1, <1>5, Types
<1>13. /\ handles'[h].file = g /\ handles'[h].modified
       /\ \A x \in Handles : /\ x # h => handles'[x] = handles[x]
                             /\ handles'[x].file = handles[x].file
                             /\ handles'[x].id = handles[x].id
                             /\ handles'[x].short = handles[x].short
  BY <1>1, <1>4, <1>6, <1>7, DataTypes DEF Handle
<1>14. /\ cl'.stage = cl.stage /\ cl'.id = cl.id /\ cl'.short = cl.short
       /\ cl'.pfile = NoFile /\ cl'.file = cl.file
  BY <1>1, <1>3 DEF Call
<1>15. Pending' = Pending
  BY LinkParentQuiet
<1>16. cl.stage = "created" => \A i \in Ids : i = cl.id => Known(i)'
  <2> SUFFICES ASSUME cl.stage = "created", NEW i \in Ids, i = cl.id PROVE Known(i)'
    OBVIOUS
  <2>1. Live(g) /\ g \notin Reading /\ Reading' = Reading
    BY <1>5, <1>15, RequestFiles DEF Live, Reading
  <2>2. \A f \in Files : (Live(f)' <=> Live(f)) /\ file'[f].id = file[f].id
    BY <1>5, <1>11, <1>12 DEF Live
  <2>3. \A f \in Files : Live(f) /\ file[f].id = Parent[i] => f = g
    BY <1>5, <2>1, Unique DEF DInv
  <2>4. i \in file'[g].child
    BY <1>10, <1>11, <1>12
  <2> QED
    BY <1>5, <2>1, <2>2, <2>3, <2>4 DEF Known
<1>17. IndexInv' /\ DataInv' /\ StoreInv' /\ ChildInv' /\ WrittenInv'
  <2>1. /\ \A f \in Files : f = g => ~Reported(f)'
        /\ \A f \in Files : f # g /\ Reported(f)' => Reported(f)
    BY <1>4, <1>13 DEF Reported
  <2>2. file[g].id # Root => Known(file[g].id)
    BY <1>6, <1>7, <1>8 DEF DInv, ChildInv
  <2>3. truth' = [truth EXCEPT ![file[g].id][s] = v]
    BY <1>1, <1>7, <1>9
  <2>4. ASSUME NEW f \in Files, NEW i \in Ids, Unlinked(f), i = file[f].id
        PROVE  Known(i)'
    <3>1. cl.stage = "created" /\ i = cl.id
      BY <1>3, <2>4 DEF Unlinked, IInv, IdInv
    <3> QED
      BY <1>16, <3>1
  <2>5. cl'.stage = "child" => cl.stage = "child" /\ cl'.id = cl.id
    BY <1>14
  <2>6. /\ g \in Files /\ file[g].state = "LOADED" /\ aborted = "no"
        /\ s \in Shorts /\ UNCHANGED <<lru, hash, store, job>>
        /\ pc[Client] \in {"idle", "got", "link", "create"}
        /\ pc'[Client] \in {"idle", "create", "inc"}
        /\ \A t \in Threads : pc'[t] = pc[t]
    BY <1>1, <1>2, <1>5, <1>6
  <2>7. /\ \A f \in Files : f # g => file'[f] = file[f]
        /\ file'[g].id = file[g].id /\ file[g].child \subseteq file'[g].child
        /\ file'[g].state = "LOADED"
        /\ file'[g].nodes = [file[g].nodes EXCEPT ![s] = v]
    BY <1>10, <1>11, <1>12
  <2> HIDE DEF g, s
  <2> QED
    BY <1>15, <2>1, <2>2, <2>3, <2>4, <2>5, <2>6, <2>7, ChangedData
<1>18. CallerInv'
  <2>1. /\ \A k \in Ids, x \in Shorts : truth[k][x] # Absent => truth'[k][x] # Absent
        /\ \A k \in Ids, x \in Shorts :
             k # file[g].id \/ x # s => truth'[k][x] = truth[k][x]
    <3>1. PICK i \in Ids, y \in Shorts : i = file[g].id /\ y = s
      BY <1>6, <1>7
    <3>2. truth' = [truth EXCEPT ![i][y] = v]
      BY <1>1, <1>7, <1>9, <3>1
    <3>3. \A k \in Ids, x \in Shorts : truth[k][x] # Absent => truth'[k][x] # Absent
      BY <1>9, <3>1, <3>2, TruthKept
    <3>4. \A k \in Ids, x \in Shorts : k # i \/ x # y => truth'[k][x] = truth[k][x]
      BY <1>9, <3>1, <3>2, TruthKept
    <3> QED
      BY <3>1, <3>3, <3>4
  <2>2. \A x \in Handles : handles[x].id \in Ids /\ handles[x].short \in Shorts
    BY DataTypes DEF Handle
  <2>3. ~Linking' /\ ~Made' /\ ~Made
    BY <1>1, <1>2, <1>3 DEF Linking, Made
  <2>4. cl.id \in Ids /\ cl.short \in Shorts /\ cl.file \in Files
    BY <1>3 DEF Call
  <2>5. truth[cl.id][cl.short] = Absent
    BY <1>3, <2>3 DEF DInv, CallerInv
  <2>6. truth'[cl.id][cl.short] = Absent
    BY <1>8, <2>1, <2>4, <2>5
  <2>7. file'[cl.file].state = "LOADED"
    <3>1. file[cl.file].state = "LOADED"
      BY <1>1, <1>3 DEF DInv, CallerInv, IInv, CallInv
    <3> QED
      BY <1>11, <1>12, <2>4, <3>1
  <2>8. truth'[Root][RootNode] # Absent
    BY <1>1, <1>3, <2>1, ConstantsAssumption DEF DInv, CallerInv
  <2>9. \A x \in Handles : handles'[x].file # NoFile =>
          truth'[handles'[x].id][handles'[x].short] # Absent
    BY <1>13, <2>1, <2>2 DEF DInv, CallerInv
  <2> QED
    BY <1>2, <1>3, <1>14, <2>3, <2>6, <2>7, <2>8, <2>9 DEF CallerInv
<1> QED
  BY <1>17, <1>18 DEF DInv

LEMMA CreateNodeData ==
  ASSUME IInv, QInv, DInv, CreateNode PROVE DInv'
<1> DEFINE g == cl.file
           s == cl.short
           nf == WithNewNode(file[g], s)
           nh == [file |-> g, id |-> cl.id, short |-> s, modified |-> FALSE]
<1>1. /\ pc[Client] = "create" /\ aborted = "no"
      /\ file' = [file EXCEPT ![g] = nf]
      /\ truth' = [truth EXCEPT ![cl.id][s] = 0]
      /\ handles' = [handles EXCEPT ![cl.slot] = nh]
      /\ UNCHANGED <<lru, hash, store, job, cl>>
  BY DEF CreateNode, At, storageVars
<1>2. pc'[Client] = "inc" /\ \A u \in Threads : pc'[u] = pc[u]
  BY Types DEF CreateNode, Goto
<1>3. /\ cl.stage \in {"root", "child", "created"} /\ g # NoFile
      /\ cl.pfile = NoFile /\ cl \in Call
  BY <1>1, DataTypes DEF IInv, CallInv, Call
<1>4. /\ g \in Files /\ file[g] \in NodeFile /\ file[g].state = "LOADED"
      /\ file[g].id = cl.id /\ cl.id \in Ids /\ s \in Shorts
  BY <1>1, <1>3, Types DEF Call, DInv, CallerInv, IInv, IdInv
<1>5. cl.slot \in Handles /\ handles[cl.slot].file = NoFile
  BY <1>1, <1>3 DEF IInv, SlotInv
<1>6. Live(g) /\ g \notin Reading
  BY <1>4, RequestFiles DEF Live
<1>7. truth[cl.id][s] = Absent
  BY <1>1, <1>3 DEF DInv, CallerInv, Made
<1>8. file[g].nodes[s] = Absent
  BY <1>4, <1>6, <1>7 DEF DInv, DataInv
<1>9. /\ nf.id = cl.id /\ nf.child = file[g].child /\ nf.state = "LOADED"
      /\ nf.modified /\ nf.nodes = [file[g].nodes EXCEPT ![s] = 0]
  BY <1>4, <1>8 DEF WithNewNode, NodeFile
<1>10. nh.file = g /\ nh.id = cl.id /\ nh.short = s
  OBVIOUS
<1> HIDE DEF nf, nh
<1>11. file'[g] = nf /\ \A f \in Files : f # g => file'[f] = file[f]
  BY <1>1, <1>4, Types
<1>12. handles'[cl.slot] = nh /\ \A x \in Handles : x # cl.slot => handles'[x] = handles[x]
  BY <1>1, <1>5, DataTypes
<1>13. \A f \in Files : ~Unlinked(f)
  BY <1>3 DEF Unlinked
<1>14. IndexInv' /\ DataInv' /\ StoreInv' /\ ChildInv' /\ WrittenInv'
  <2>1. \A f \in Files : f # g /\ Reported(f)' => Reported(f)
    BY <1>5, <1>12, Types DEF Reported
  <2>2. file[g].id # Root => Known(file[g].id)
    BY <1>4, <1>6, <1>13 DEF DInv, ChildInv
  <2>3. truth' = [truth EXCEPT ![file[g].id][s] = 0]
    BY <1>1, <1>4
  <2>4. cl'.stage = "child" => cl.stage = "child" /\ cl'.id = cl.id
    BY <1>1
  <2>5. /\ g \in Files /\ file[g].state = "LOADED" /\ aborted = "no"
        /\ s \in Shorts /\ UNCHANGED <<lru, hash, store, job>>
        /\ pc[Client] \in {"idle", "got", "link", "create"}
        /\ pc'[Client] \in {"idle", "create", "inc"}
        /\ \A t \in Threads : pc'[t] = pc[t]
    BY <1>1, <1>2, <1>4
  <2>6. /\ \A f \in Files : f # g => file'[f] = file[f]
        /\ file'[g].id = file[g].id /\ file[g].child \subseteq file'[g].child
        /\ file'[g].state = "LOADED" /\ file'[g].modified
        /\ file'[g].nodes = [file[g].nodes EXCEPT ![s] = 0]
    BY <1>4, <1>9, <1>11
  <2>7. Pending' = Pending
    BY CreateNodeQuiet
  <2>8. 0 \in Nat
    OBVIOUS
  <2> HIDE DEF g, s
  <2> QED
    BY <1>13, <2>1, <2>2, <2>3, <2>4, <2>5, <2>6, <2>7, <2>8, ChangedData
<1>15. CallerInv'
  <2>1. /\ truth'[cl.id][s] # Absent
        /\ \A k \in Ids, x \in Shorts : truth[k][x] # Absent => truth'[k][x] # Absent
    BY <1>1, <1>4, TruthKept
  <2>2. \A x \in Handles : handles[x].id \in Ids /\ handles[x].short \in Shorts
    BY DataTypes DEF Handle
  <2>3. ~Linking' /\ Made'
    BY <1>1, <1>2, <1>3 DEF Linking, Made
  <2>4. truth'[Root][RootNode] # Absent
    <3>1. CASE cl.stage = "root"
      BY <2>1, <3>1 DEF IInv, CallInv, DInv, CallerInv
    <3>2. CASE cl.stage # "root"
      BY <1>1, <2>1, <3>2, ConstantsAssumption DEF DInv, CallerInv
    <3> QED
      BY <3>1, <3>2
  <2>5. \A x \in Handles : handles'[x].file # NoFile =>
          truth'[handles'[x].id][handles'[x].short] # Absent
    BY <1>10, <1>12, <2>1, <2>2 DEF DInv, CallerInv
  <2>6. file'[cl.file].state = "LOADED"
    BY <1>9, <1>11
  <2>7. cl.stage = "root" => cl.short = RootNode
    BY DEF DInv, CallerInv
  <2> QED
    BY <1>1, <1>2, <1>3, <2>3, <2>4, <2>5, <2>6, <2>7 DEF CallerInv
<1> QED
  BY <1>14, <1>15 DEF DInv

\* A placeholder is put into a file that is being read.
LEMMA PlaceholderData ==
  ASSUME IInv, QInv, DInv, NEW g \in Files, Live(g), g \in Reading,
         \A f \in Files : f # g => file'[f] = file[f],
         file'[g].id = file[g].id, file'[g].state = file[g].state,
         file'[g].child = file[g].child, NEW s \in Shorts,
         truth[file[g].id][s] # Absent,
         \A x \in Shorts : x # s => file'[g].nodes[x] = file[g].nodes[x],
         \A f \in Files : Reported(f)' => Reported(f),
         pc'[Client] = "idle", \A t \in Threads : pc'[t] = pc[t],
         pc[Client] = "got", aborted = "no",
         UNCHANGED <<lru, hash, store, truth, job>>, Pending' = Pending,
         \A f \in Files : ~Unlinked(f), cl'.stage = "none"
  PROVE  IndexInv' /\ DataInv' /\ StoreInv' /\ ChildInv' /\ WrittenInv'
<1>1. Reading' = Reading /\ file[g].state = "LOADING"
  BY RequestFiles DEF Reading
<1>2. \A f \in Files : /\ Live(f)' <=> Live(f)
                       /\ file'[f].id = file[f].id
                       /\ file'[f].child = file[f].child
  BY DEF Live
<1>3. IndexInv'
  <2>1. \A f \in Entries(lru) : f \in Files
    BY Types DEF Entries
  <2> QED
    BY <1>2, <2>1 DEF DInv, IndexInv
<1>4. DataInv'
  <2>1. \A f \in Files : Live(f)' /\ f \notin Reading' =>
          file'[f].nodes = truth'[file'[f].id]
    BY <1>1, <1>2 DEF DInv, DataInv
  <2>2. ASSUME NEW f \in Files, Live(f)', f \in Reading'
        PROVE  /\ store'[file'[f].id].nodes = truth'[file'[f].id]
               /\ \A x \in Shorts :
                    file'[f].nodes[x] # Absent => truth'[file'[f].id][x] # Absent
    <3>1. Live(f) /\ f \in Reading /\ file'[f].id = file[f].id
      BY <1>1, <1>2, <2>2
    <3>2. \A x \in Shorts : file'[f].nodes[x] # file[f].nodes[x] =>
            truth[file[f].id][x] # Absent
      OBVIOUS
    <3> QED
      BY <3>1, <3>2 DEF DInv, DataInv
  <2>3. \A i \in Ids : (\A f \in Files : Live(f)' => file'[f].id # i) =>
          store'[i].nodes = truth'[i]
    BY <1>2 DEF DInv, DataInv
  <2> QED
    BY <2>1, <2>2, <2>3 DEF DataInv
<1>5. StoreInv'
  <2>1. ASSUME NEW f \in Files, Settled(f)', ~file'[f].modified, Reported(f)'
        PROVE  store'[file'[f].id] = Serialized(f)'
    <3>1. f # g
      BY <1>1, <2>1 DEF Settled
    <3>2. Settled(f) /\ ~file[f].modified /\ Reported(f)
      BY <2>1, <3>1 DEF Settled
    <3> QED
      BY <3>1, <3>2 DEF DInv, StoreInv, Serialized
  <2>2. ASSUME NEW j \in Pending', j.op # "read" PROVE j.data = Serialized(j.file)'
    <3>1. j \in Pending /\ j.file \in Files /\ j.file # g
      BY <2>2, RequestFiles
    <3> QED
      BY <2>2, <3>1 DEF DInv, StoreInv, Serialized
  <2> QED
    BY <2>1, <2>2 DEF DInv, StoreInv
<1>6. ChildInv'
  <2>1. ASSUME NEW i, Known(i) PROVE Known(i)'
    BY <1>1, <1>2, <2>1 DEF Known
  <2>2. \A f \in Files : Live(f)' /\ file'[f].id # Root /\ ~Unlinked(f)' =>
          Known(file[f].id)'
    BY <1>2, <2>1 DEF DInv, ChildInv
  <2> QED
    BY <2>1, <2>2 DEF DInv, ChildInv
<1>7. WrittenInv'
  BY DEF WrittenInv
<1> QED
  BY <1>3, <1>4, <1>5, <1>6, <1>7

LEMMA ReadNodeData ==
  ASSUME IInv, QInv, DInv, ReadNode PROVE DInv'
<1> DEFINE g == cl.file
           s == cl.short
           missing == file[g].nodes[s] = Absent
           nf == [file[g] EXCEPT !.users = @ - 1]
           mf == [file[g] EXCEPT !.nodes[s] = IF missing THEN 0 ELSE @]
           nh == [file |-> g, id |-> cl.id, short |-> s, modified |-> FALSE]
<1>1. /\ pc[Client] = "got" /\ aborted = "no" /\ cl.stage = "node"
      /\ Goto(Client, "idle") /\ cl' = NoCall
      /\ UNCHANGED <<lru, hash, store, truth, job>>
      /\ \/ file' = [file EXCEPT ![g] = nf] /\ handles' = handles
         \/ /\ file' = [file EXCEPT ![g] = mf]
            /\ handles' = [handles EXCEPT ![cl.slot] = nh]
  BY DEF ReadNode, At, storageVars
<1>2. pc'[Client] = "idle" /\ \A u \in Threads : pc'[u] = pc[u]
  BY <1>1, Types DEF Goto
<1>3. /\ g \in Files /\ file[g] \in NodeFile /\ file[g].id = cl.id
      /\ cl.id \in Ids /\ s \in Shorts
      /\ cl.slot \in Handles /\ handles[cl.slot].file = NoFile
  BY <1>1, Types, DataTypes DEF Call, IInv, IdInv, CallInv, SlotInv
<1>4. Live(g)
  BY <1>1, <1>3, Pinned DEF Live
<1>5. truth[cl.id][s] # Absent
  BY <1>1 DEF DInv, CallerInv
<1>6. cl'.stage = "none"
  BY <1>1 DEF NoCall
<1>7. Pending' = Pending
  BY ReadNodeQuiet
<1>8. \A f \in Files : ~Unlinked(f)
  BY <1>1 DEF Unlinked
<1>9. /\ nf.id = file[g].id /\ nf.child = file[g].child /\ nf.nodes = file[g].nodes
      /\ nf.state = file[g].state /\ nf.modified = file[g].modified
  BY <1>3 DEF NodeFile
<1>10. /\ mf.id = file[g].id /\ mf.child = file[g].child
       /\ mf.state = file[g].state /\ mf.modified = file[g].modified
       /\ \A x \in Shorts : x # s => mf.nodes[x] = file[g].nodes[x]
       /\ ~missing => mf.nodes = file[g].nodes
  <2>1. file[g].nodes \in [Shorts -> Values]
    BY <1>3 DEF NodeFile
  <2>2. mf.nodes = [file[g].nodes EXCEPT ![s] = IF missing THEN 0 ELSE file[g].nodes[s]]
    BY <1>3 DEF NodeFile
  <2>3. /\ \A x \in Shorts : x # s => mf.nodes[x] = file[g].nodes[x]
        /\ ~missing => mf.nodes = file[g].nodes
    <3> HIDE DEF mf
    <3> QED
      BY <2>1, <2>2
  <2> QED
    BY <1>3, <2>3 DEF NodeFile
<1>11. nh.file = g /\ nh.id = cl.id /\ nh.short = s /\ ~nh.modified
  OBVIOUS
<1>12. missing => g \in Reading
  BY <1>3, <1>4, <1>5 DEF DInv, DataInv
<1> HIDE DEF nf, mf, nh, missing
<1>13. \/ file'[g] = nf /\ handles' = handles
       \/ file'[g] = mf /\ handles' = [handles EXCEPT ![cl.slot] = nh]
  BY <1>1, <1>3, Types
<1>14. \A f \in Files : f # g => file'[f] = file[f]
  BY <1>1, <1>3, Types
<1>15. \A x \in Handles : handles'[x] = handles[x] \/ (x = cl.slot /\ handles'[x] = nh)
  BY <1>13, DataTypes
<1>16. \A f \in Files : Reported(f)' => Reported(f)
  <2>1. \A f \in Files, x \in Handles : handles[x].file = f => handles'[x] = handles[x]
    BY <1>3, <1>15, Types
  <2> QED
    BY <2>1 DEF Reported
<1>17. CallerInv'
  <2>1. ~Linking' /\ ~Made'
    BY <1>2, <1>6 DEF Linking, Made
  <2>2. truth[Root][RootNode] # Absent
    BY <1>1 DEF DInv, CallerInv
  <2>3. \A x \in Handles : handles'[x].file # NoFile =>
          truth[handles'[x].id][handles'[x].short] # Absent
    BY <1>5, <1>11, <1>15 DEF DInv, CallerInv
  <2> QED
    BY <1>1, <1>2, <1>6, <2>1, <2>2, <2>3 DEF CallerInv
<1>18. CASE file'[g].nodes = file[g].nodes
  <2>1. SameContents
    BY <1>9, <1>10, <1>13, <1>14, <1>18 DEF SameContents
  <2>2. \A f \in Files : Settled(f)' /\ ~file'[f].modified /\ Reported(f)' =>
          Settled(f) /\ ~file[f].modified /\ Reported(f)
    BY <1>9, <1>10, <1>13, <1>14, <1>16 DEF Settled
  <2> QED
    BY <1>1, <1>6, <1>7, <1>8, <1>17, <2>1, <2>2, FlagsData
<1>19. CASE file'[g].nodes # file[g].nodes
  <2>1. file'[g] = mf /\ g \in Reading
    BY <1>9, <1>10, <1>12, <1>13, <1>19
  <2>2. /\ file'[g].id = file[g].id /\ file'[g].state = file[g].state
        /\ file'[g].child = file[g].child
        /\ \A x \in Shorts : x # s => file'[g].nodes[x] = file[g].nodes[x]
    BY <1>10, <2>1
  <2>3. truth[file[g].id][s] # Absent
    BY <1>3, <1>5
  <2> HIDE DEF g, s
  <2>4. IndexInv' /\ DataInv' /\ StoreInv' /\ ChildInv' /\ WrittenInv'
    BY <1>1, <1>2, <1>3, <1>4, <1>6, <1>7, <1>8, <1>14, <1>16, <2>1, <2>2, <2>3,
       PlaceholderData
  <2> QED
    BY <1>17, <2>4 DEF DInv
<1> QED
  BY <1>18, <1>19

(***************************************************************************)
(* The theorems                                                            *)
(***************************************************************************)

LEMMA InitData == Init => DInv
<1> SUFFICES ASSUME NEW S \in Openings, InitWith(S), IInv PROVE DInv
  BY InitInv DEF Init
<1>1. /\ file = [f \in Files |-> Unallocated] /\ lru = << >>
      /\ hash = [i \in Ids |-> NoFile] /\ queue = << >>
      /\ cl = NoCall /\ handles = [h \in Handles |-> NoHandle]
      /\ truth = [i \in Ids |-> store[i].nodes]
  BY DEF InitWith
<1>2. store = [i \in Ids |->
                 IF i \in S
                 THEN [child |-> {c \in S \ {Root} : Parent[c] = i},
                       nodes |-> [s \in Shorts |-> 0]]
                 ELSE Empty]
  BY DEF InitWith
<1>3. /\ pc[Client] = IF S = {} THEN "ctor" ELSE "idle"
      /\ \A t \in Threads : pc[t] = "idle"
  BY ConstantsAssumption DEF InitWith, Actors
<1>4. \A f \in Files : ~Live(f)
  BY <1>1 DEF Live, Unallocated
<1>5. Entries(lru) = {}
  <2>1. Len(lru) = 0 /\ 1..0 = {}
    BY <1>1, EmptySeq
  <2> QED
    BY <2>1 DEF Entries
<1>6. Pending = {}
  <2>1. Len(queue) = 0 /\ 1..0 = {}
    BY <1>1, EmptySeq
  <2>2. \A t \in Threads : pc[t] \notin Working
    BY <1>3 DEF Working
  <2> QED
    BY <2>1, <2>2, PendingWhere
<1>7. cl.stage = "none" /\ \A h \in Handles : handles[h].file = NoFile
  BY <1>1 DEF NoCall, NoHandle
<1>8. \A i \in Ids : truth[i] = store[i].nodes
  BY <1>1
<1>9. IndexInv
  <2>1. \A i \in Ids : hash[i] = NoFile
    BY <1>1
  <2>2. S = {} => \A i \in Ids : store[i] = Empty /\ truth[i] = Empty.nodes
    BY <1>2, <1>8
  <2> QED
    BY <1>3, <1>4, <1>5, <2>1, <2>2 DEF IndexInv
<1>10. CallerInv
  <2>1. ASSUME S # {} PROVE truth[Root][RootNode] # Absent
    <3>1. Root \in S /\ Root \in Ids
      BY <2>1, ConstantsAssumption
    <3>2. store[Root].nodes = [s \in Shorts |-> 0]
      BY <1>2, <3>1
    <3> QED
      BY <1>8, <3>1, <3>2, ConstantsAssumption DEF Absent
  <2> QED
    BY <1>3, <1>7, <2>1 DEF CallerInv, Linking
<1>11. DataInv
  BY <1>4, <1>8 DEF DataInv
<1>12. StoreInv
  BY <1>3, <1>4, <1>6 DEF StoreInv, Settled, Live
<1>13. ChildInv
  <2>1. ASSUME NEW i \in Ids \ {Root}, i \in S PROVE Known(i)
    <3>1. Parent[i] \in S /\ Parent[i] \in Ids
      BY <2>1, ConstantsAssumption
    <3>2. store[Parent[i]].child = {c \in S \ {Root} : Parent[c] = Parent[i]}
      BY <1>2, <3>1
    <3> QED
      BY <1>4, <2>1, <3>2 DEF Known
  <2>2. ASSUME NEW i \in Ids, i \notin S
        PROVE  store[i] = Empty /\ \A s \in Shorts : truth[i][s] = Absent
    BY <1>2, <1>8, <2>2 DEF Empty
  <2> QED
    BY <1>4, <1>7, <2>1, <2>2 DEF ChildInv
<1>14. WrittenInv
  BY <1>3 DEF WrittenInv
<1> QED
  BY <1>9, <1>10, <1>11, <1>12, <1>13, <1>14 DEF DInv

LEMMA NextData == IInv /\ QInv /\ DInv /\ [Next]_vars => DInv'
<1> SUFFICES ASSUME IInv, QInv, DInv, [Next]_vars PROVE DInv'
  OBVIOUS
<1>1. CASE CallStep
  BY <1>1, GetRootData, ModifyNodeData, ReleaseNodeData, GetChildNodeData,
     CreateChildNodeData, FlushBeginData DEF CallStep, FlushCache, Destroy
<1>2. CASE ClientStep
  BY <1>2, CreateRootData, FindHitData, FindMissData, PushData, ReadNodeData,
     ParentHasFileData, ParentLacksFileData, LinkParentData, CreateNodeData,
     CreateNodeStoreData, DropFileData, UnlockData, FlushFileData, FlushEndData,
     DestroyFileData, DestroyFileStoreData, DestroyEndData DEF ClientStep
<1>3. ASSUME NEW x \in Actors, MaintStep(x) PROVE DInv'
  BY <1>3, MaintBeginData, MaintSkipData, MaintDeleteData,
     MaintDeleteStoreData, MaintWriteData, MaintEndData DEF MaintStep
<1>4. ASSUME NEW t \in Threads, ThreadStep(t) PROVE DInv'
  BY <1>4, TakeJobData, StorageGetData, StoragePutData, ReadNodeFileCbData,
     ReadNodeFileCbLoadData, ReadNodeFileCbStoreData, EvictNodeFileCbData,
     EvictNodeFileCbStoreData, EvictNodeFileCbRequestedData,
     FlushNodeFileCbData DEF ThreadStep
<1>5. CASE UNCHANGED vars
  <2>1. UNCHANGED <<file, lru, hash, store, truth, handles, cl, queue, job, pc,
                    maint, aborted>>
    BY <1>5 DEF vars, treeVars, storageVars, clientVars
  <2>2. IndexInv'
    BY <2>1 DEF DInv, IndexInv, Live, Current, Target
  <2>3. Pending' = Pending
    BY <2>1 DEF Pending
  <2>4. Reading' = Reading /\ Flushing' = Flushing
    BY <2>3 DEF Reading, Flushing
  <2>5. SameContents
    BY <2>1 DEF SameContents
  <2>6. CallerInv'
    BY <2>1, CallerStill DEF DInv
  <2>7. DataInv'
    BY <2>1, <2>4, <2>5, DataStill DEF DInv
  <2>8. ChildInv'
    BY <2>1, <2>4, <2>5, ChildStill DEF DInv, ChildInv, Unlinked
  <2>9. StoreInv'
    <3>1. \A j \in Pending' : j.op # "read" => j.data = Serialized(j.file)'
      BY <2>1, <2>3 DEF DInv, StoreInv, Serialized
    <3> QED
      BY <2>1, <3>1 DEF DInv, StoreInv, Settled, Reported, Serialized
  <2>10. WrittenInv'
    BY <2>1, <2>4 DEF DInv, WrittenInv, Dirty, Settled, Passed, Live
  <2> QED
    BY <2>2, <2>6, <2>7, <2>8, <2>9, <2>10 DEF DInv
<1> QED
  BY <1>1, <1>2, <1>3, <1>4, <1>5 DEF Next

LEMMA DataInvariance == Spec => [](IInv /\ QInv /\ DInv)
<1>1. Init => IInv /\ QInv /\ DInv
  BY InitInv, InitRequests, InitData
<1>2. (IInv /\ QInv /\ DInv) /\ [Next]_vars => (IInv /\ QInv /\ DInv)'
  BY NextInv, NextRequests, NextData
<1> QED
  BY <1>1, <1>2, PTL DEF Spec

\* The cache's list and hash_map, of which Cache's push_front, erase and
\* move_to_front change both, describe the same NodeFiles, whatever the client
\* and the storage threads do: one for each id, and none of them is forgotten.
THEOREM IndexStaysCoherent == Spec => []CacheIndexCoherent
<1>1. IInv /\ QInv /\ DInv => CacheIndexCoherent
  <2> SUFFICES ASSUME IInv, QInv, DInv PROVE CacheIndexCoherent
    OBVIOUS
  <2>1. ASSUME NEW m \in 1..Len(lru), NEW n \in 1..Len(lru), m # n
        PROVE  file[lru[m]].id # file[lru[n]].id
    <3>1. lru[m] # lru[n] /\ lru[m] \in Entries(lru) /\ lru[n] \in Entries(lru)
      BY <2>1 DEF QInv, ListInv, Once, Entries
    <3> QED
      BY <3>1 DEF DInv, IndexInv
  <2>2. \A i \in Ids : hash[i] # NoFile =>
          file[hash[i]].id = i /\ \E n \in 1..Len(lru) : lru[n] = hash[i]
    BY DEF DInv, IndexInv, IInv, HashInv, Entries
  <2>3. \A f \in Files : file[f].state # "FREE" =>
          hash[file[f].id] = f \/ (pc[Client] = "push" /\ f = Current)
    BY DEF DInv, IndexInv, Live
  <2> QED
    BY <2>1, <2>2, <2>3 DEF CacheIndexCoherent
<1> QED
  BY <1>1, DataInvariance, PTL

\* What View chooses is the one file of the id that is in memory.
LEMMA ViewIs ==
  ASSUME IInv, QInv, DInv, NEW i
  PROVE  /\ \A f \in Files : Live(f) /\ file[f].id = i /\ f \notin Reading =>
              View(i) = Serialized(f)
         /\ (\A f \in Files : Live(f) /\ file[f].id = i => f \in Reading) =>
              View(i) = store[i]
<1>1. \A f \in Files : InMemory(i, f) <=>
        Live(f) /\ file[f].id = i /\ f \notin Reading
  BY DEF InMemory, Live, Reading
<1>2. ASSUME NEW f \in Files, InMemory(i, f)
      PROVE  View(i) = Serialized(f)
  <2>1. \A x \in Files : InMemory(i, x) => x = f
    BY <1>1, <1>2, Unique DEF DInv
  <2>2. (CHOOSE x \in Files : InMemory(i, x)) = f
    BY <1>2, <2>1
  <2> QED
    BY <1>2, <2>2 DEF View
<1>3. ASSUME \A f \in Files : ~InMemory(i, f)
      PROVE  View(i) = store[i]
  BY <1>3 DEF View
<1> QED
  BY <1>1, <1>2, <1>3

\* No change made through a NodeHandle is lost, for any number of files,
\* handles, threads and calls: the value a reader finds, in the NodeFile in
\* memory or in the storage, is the last one the client wrote, whether the file
\* is being read, written, evicted or requested again meanwhile.
THEOREM UpdatesAreKept == Spec => []NoLostUpdate
<1>1. IInv /\ QInv /\ DInv => NoLostUpdate
  <2> SUFFICES ASSUME IInv, QInv, DInv, NEW i \in Ids
               PROVE  View(i).nodes = truth[i]
    BY DEF NoLostUpdate
  <2>1. CASE \E f \in Files : Live(f) /\ file[f].id = i /\ f \notin Reading
    <3>1. PICK f \in Files : Live(f) /\ file[f].id = i /\ f \notin Reading
      BY <2>1
    <3>2. View(i) = Serialized(f)
      BY <3>1, ViewIs
    <3> QED
      BY <3>1, <3>2 DEF DInv, DataInv, Serialized
  <2>2. CASE \A f \in Files : Live(f) /\ file[f].id = i => f \in Reading
    <3>1. View(i) = store[i]
      BY <2>2, ViewIs
    <3>2. store[i].nodes = truth[i]
      BY <2>2 DEF DInv, DataInv
    <3> QED
      BY <3>1, <3>2
  <2> QED
    BY <2>1, <2>2
<1> QED
  BY <1>1, DataInvariance, PTL

\* createChildNode never takes an existing child file for a new one: the
\* child_files byte of the file above, in memory or in the storage, names every
\* file that has nodes.
THEOREM ChildFilesStayKnown == Spec => []ChildFilesKnown
<1>1. IInv /\ QInv /\ DInv => ChildFilesKnown
  <2> SUFFICES ASSUME IInv, QInv, DInv, NEW i \in Ids \ {Root},
                      NEW s \in Shorts, truth[i][s] # Absent
               PROVE  i \in View(Parent[i]).child
    BY DEF ChildFilesKnown
  <2>1. Known(i)
    BY DEF DInv, ChildInv
  <2>2. CASE \E f \in Files : Live(f) /\ file[f].id = Parent[i] /\ f \notin Reading
    <3>1. PICK f \in Files : Live(f) /\ file[f].id = Parent[i] /\ f \notin Reading
      BY <2>2
    <3>2. View(Parent[i]) = Serialized(f)
      BY <3>1, ViewIs
    <3> QED
      BY <2>1, <3>1, <3>2 DEF Known, Serialized
  <2>3. CASE \A f \in Files : Live(f) /\ file[f].id = Parent[i] => f \in Reading
    <3>1. View(Parent[i]) = store[Parent[i]]
      BY <2>3, ViewIs
    <3> QED
      BY <2>1, <2>3, <3>1 DEF Known
  <2> QED
    BY <2>2, <2>3
<1> QED
  BY <1>1, DataInvariance, PTL

\* When ~MegaTree has returned, every change the client made is in the storage
\* and no callback is left that would reach a deleted NodeFile.
THEOREM DestructorStoresAll == Spec => []DestroyedIsStored
<1>1. IInv /\ QInv /\ DInv => DestroyedIsStored
  <2> SUFFICES ASSUME IInv, QInv, DInv, pc[Client] = "gone"
               PROVE  Pending = {} /\ \A i \in Ids : store[i].nodes = truth[i]
    BY DEF DestroyedIsStored
  <2>1. \A f \in Files : ~Live(f)
    BY DEF DInv, WrittenInv
  <2>2. Pending = {}
    BY <2>1, RequestFiles
  <2> QED
    BY <2>1, <2>2 DEF DInv, DataInv
<1> QED
  BY <1>1, DataInvariance, PTL

\* Every step that deletes a NodeFile: cacheMaintenance, evictNodeFileCb and
\* the destructor.
LEMMA DeletedStored ==
  ASSUME IInv, QInv, DInv, [Next]_vars, NEW f \in Files, Live(f), ~Live(f)'
  PROVE  file[f].users = 0 /\ store[file[f].id] = Serialized(f)
<1>0. ASSUME NEW g, NEW nf, file' = [file EXCEPT ![g] = nf],
             g \in Files => nf.state # "FREE" \/ file[g].state = "FREE"
      PROVE  FALSE
  BY <1>0, Types DEF Live
<1>1. ASSUME NEW x \in Actors, MaintStep(x)
      PROVE  file[f].users = 0 /\ store[file[f].id] = Serialized(f)
  <2>1. CASE MaintDelete(x)
    BY <2>1, MaintDeleteData
  <2>2. CASE MaintWrite(x)
    <3> DEFINE g == lru[maint.it]
               nf == [file[g] EXCEPT !.state = "EVICTING"]
    <3>1. file' = file \/ file' = [file EXCEPT ![g] = nf]
      BY <2>2 DEF MaintWrite
    <3>2. g \in Files => nf.state = "EVICTING"
      BY Types DEF NodeFile
    <3> HIDE DEF nf, g
    <3> QED
      BY <3>1, <3>2, Types DEF Live
  <2>3. CASE file' = file
    BY <2>3 DEF Live
  <2> QED
    BY <1>1, <2>1, <2>2, <2>3 DEF MaintStep, MaintBegin, MaintSkip,
       MaintDeleteStore, MaintEnd, treeVars
<1>2. ASSUME NEW t \in Threads, ThreadStep(t)
      PROVE  file[f].users = 0 /\ store[file[f].id] = Serialized(f)
  <2>1. CASE EvictNodeFileCb(t)
    BY <2>1, EvictNodeFileCbData
  <2>2. CASE ReadNodeFileCb(t) \/ EvictNodeFileCbRequested(t) \/ FlushNodeFileCb(t)
    <3> DEFINE g == job[t].file
               nf == Deserialized(file[g], job[t].data)
               mf == [file[g] EXCEPT !.modified = FALSE, !.state = "LOADED"]
               of == [file[g] EXCEPT !.modified = FALSE]
    <3>1. \/ file' = file
          \/ file' = [file EXCEPT ![g] = nf]
          \/ file' = [file EXCEPT ![g] = mf]
          \/ file' = [file EXCEPT ![g] = of]
      BY <2>2 DEF ReadNodeFileCb, EvictNodeFileCbRequested, FlushNodeFileCb
    <3>2. g \in Files => /\ nf.state = "LOADED" /\ mf.state = "LOADED"
                         /\ of.state = file[g].state
      <4> SUFFICES ASSUME g \in Files
                   PROVE  /\ nf.state = "LOADED" /\ mf.state = "LOADED"
                          /\ of.state = file[g].state
        OBVIOUS
      <4>1. file[g] \in NodeFile
        BY Types
      <4> QED
        BY <4>1 DEF NodeFile, Deserialized
    <3> HIDE DEF g, nf, mf, of
    <3>3. file' = file
      BY <1>0, <3>1, <3>2
    <3> QED
      BY <3>3 DEF Live
  <2>3. CASE file' = file
    BY <2>3 DEF Live
  <2> QED
    BY <1>2, <2>1, <2>2, <2>3 DEF ThreadStep, TakeJob, StorageGet, StoragePut,
       ReadNodeFileCbLoad, ReadNodeFileCbStore, EvictNodeFileCbStore, treeVars
<1>4. CASE CallStep
  <2>1. ASSUME NEW h \in Handles, ModifyNode(h) PROVE FALSE
    <3> DEFINE g == handles[h].file
               nf == [file[g] EXCEPT !.nodes[handles[h].short] = version']
    <3>1. file' = [file EXCEPT ![g] = nf]
      BY <2>1 DEF ModifyNode
    <3>2. g \in Files => nf.state = file[g].state
      BY Types DEF NodeFile
    <3> HIDE DEF g, nf
    <3> QED
      BY <1>0, <3>1, <3>2
  <2>2. ASSUME NEW h \in Handles, ReleaseNode(h) PROVE FALSE
    <3> DEFINE g == handles[h].file
               nf == Released(file[g], handles[h].modified)
    <3>1. file' = [file EXCEPT ![g] = nf]
      BY <2>2 DEF ReleaseNode
    <3>2. g \in Files => nf.state = file[g].state
      BY Types DEF NodeFile, Released
    <3> HIDE DEF g, nf
    <3> QED
      BY <1>0, <3>1, <3>2
  <2>3. CASE file' = file
    BY <2>3 DEF Live
  <2> QED
    BY <1>4, <2>1, <2>2, <2>3 DEF CallStep, GetRoot, GetChildNode,
       CreateChildNode, FlushCache, Destroy, FlushBegin, treeVars
<1>5. CASE ClientStep
  <2>1. ASSUME NEW g \in Files, DestroyFile(g)
        PROVE  file[f].users = 0 /\ store[file[f].id] = Serialized(f)
    BY <2>1, DestroyFileData
  <2>2. ASSUME NEW g \in Files,
               \/ \E h \in Handles : CreateRoot(g, h)
               \/ \E m \in BOOLEAN : FindMiss(g, m)
               \/ ParentLacksFile(g)
        PROVE  FALSE
    <3>1. file[g].state = "FREE" /\ \E nf : file' = [file EXCEPT ![g] = nf]
      BY <2>2 DEF CreateRoot, FindMiss, ParentLacksFile
    <3> QED
      BY <1>0, <3>1
  <2>3. ASSUME FindHit PROVE FALSE
    <3> DEFINE g == hash[Target]
               nf == [file[g] EXCEPT !.users = @ + 1,
                                     !.state = IF @ = "EVICTING" THEN "LOADING"
                                                                 ELSE @]
    <3>1. file' = [file EXCEPT ![g] = nf]
      BY <2>3 DEF FindHit
    <3>2. g \in Files => nf.state = IF file[g].state = "EVICTING" THEN "LOADING"
                                                                 ELSE file[g].state
      BY Types DEF NodeFile
    <3> HIDE DEF g, nf
    <3> QED
      BY <1>0, <3>1, <3>2
  <2>4. ASSUME ReadNode PROVE FALSE
    <3> DEFINE g == cl.file
               nf == [file[g] EXCEPT !.users = @ - 1]
               mf == [file[g] EXCEPT !.nodes[cl.short] =
                        IF file[g].nodes[cl.short] = Absent THEN 0 ELSE @]
    <3>1. file' = [file EXCEPT ![g] = nf] \/ file' = [file EXCEPT ![g] = mf]
      BY <2>4 DEF ReadNode
    <3>2. g \in Files => nf.state = file[g].state /\ mf.state = file[g].state
      BY Types DEF NodeFile
    <3> HIDE DEF g, nf, mf
    <3> QED
      BY <1>0, <3>1, <3>2
  <2>5. ASSUME LinkParent PROVE FALSE
    <3> DEFINE g == cl.pfile
               mf == IF cl.stage = "created" THEN WithChildFile(file[g], cl.id)
                                             ELSE file[g]
               nf == [mf EXCEPT !.users = @ - 1,
                                !.nodes[handles[cl.from].short] = version']
    <3>1. file' = [file EXCEPT ![g] = nf]
      BY <2>5 DEF LinkParent
    <3>2. g \in Files => mf \in NodeFile /\ mf.state = file[g].state
      <4> SUFFICES ASSUME g \in Files PROVE mf \in NodeFile /\ mf.state = file[g].state
        OBVIOUS
      <4>1. file[g] \in NodeFile /\ cl.id \in Ids
        BY Types, DataTypes DEF Call
      <4> QED
        BY <4>1 DEF NodeFile, WithChildFile
    <3>3. g \in Files => nf.state = file[g].state
      <4> HIDE DEF mf
      <4> QED
        BY <3>2 DEF NodeFile
    <3> HIDE DEF g, nf
    <3> QED
      BY <1>0, <3>1, <3>3
  <2>6. ASSUME CreateNode \/ DropFile PROVE FALSE
    <3> DEFINE g == cl.file
               mf == WithNewNode(file[g], cl.short)
               nf == [file[g] EXCEPT !.users = @ - 1]
    <3>1. file' = [file EXCEPT ![g] = nf] \/ file' = [file EXCEPT ![g] = mf]
      BY <2>6 DEF CreateNode, DropFile
    <3>2. g \in Files => nf.state = file[g].state /\ mf.state = file[g].state
      BY Types DEF NodeFile, WithNewNode
    <3> HIDE DEF g, nf, mf
    <3> QED
      BY <1>0, <3>1, <3>2
  <2>7. CASE file' = file
    BY <2>7 DEF Live
  <2> QED
    BY <1>5, <2>1, <2>2, <2>3, <2>4, <2>5, <2>6, <2>7 DEF ClientStep, Push,
       ParentHasFile, CreateNodeStore, Unlock, FlushFile, FlushEnd,
       DestroyFileStore, DestroyEnd, treeVars
<1>6. CASE UNCHANGED vars
  BY <1>6 DEF vars, treeVars, Live
<1> QED
  BY <1>1, <1>2, <1>4, <1>5, <1>6 DEF Next

\* A NodeFile is deleted only when no handle and no call refers to it and the
\* storage has its contents, whichever of cacheMaintenance, evictNodeFileCb and
\* the destructor deletes it, in any interleaving.
THEOREM DeletesOnlyStored == Spec => DeletedOnlyWhenStored
<1> DEFINE A == \A f \in Files :
                  file[f].state # "FREE" /\ file'[f].state = "FREE"
                    => Pins(f) = 0 /\ store[file[f].id] = Serialized(f)
<1>1. IInv /\ QInv /\ DInv /\ [Next]_vars => [A]_vars
  <2> SUFFICES ASSUME IInv, QInv, DInv, [Next]_vars,
                      NEW f \in Files, file[f].state # "FREE",
                      file'[f].state = "FREE"
               PROVE  Pins(f) = 0 /\ store[file[f].id] = Serialized(f)
    OBVIOUS
  <2>1. Live(f) /\ ~Live(f)'
    BY DEF Live
  <2>2. file[f].users = 0 /\ store[file[f].id] = Serialized(f)
    BY <2>1, DeletedStored
  <2> QED
    BY <2>2 DEF IInv, UserInv
<1> QED
  BY <1>1, DataInvariance, PTL DEF Spec, DeletedOnlyWhenStored

\* flushCache is left by its last step only.
LEMMA FlushLeft ==
  ASSUME IInv, [Next]_vars, pc[Client] = "flush", pc'[Client] # "flush"
  PROVE  FlushEnd
<1>1. ASSUME NEW t \in Threads, NEW p, Goto(t, p) PROVE FALSE
  BY <1>1, Types DEF Goto
<1>2. CASE CallStep
  BY <1>2 DEF CallStep, GetRoot, GetChildNode, CreateChildNode, FlushCache,
     Destroy, FlushBegin, BeginCall, ModifyNode, ReleaseNode, At
<1>3. CASE ClientStep
  <2>1. ~FlushFile
    BY DEF FlushFile
  <2> QED
    BY <1>3, <2>1 DEF ClientStep, CreateRoot, FindHit, FindMiss, Push, ReadNode,
       ParentHasFile, ParentLacksFile, LinkParent, CreateNode, CreateNodeStore,
       DropFile, Unlock, DestroyFile, DestroyFileStore, DestroyEnd, At
<1>4. ASSUME NEW x \in Actors, MaintStep(x) PROVE FALSE
  <2>1. CASE x = Client
    BY <1>4, <2>1 DEF MaintStep, MaintBegin, MaintSkip, MaintDelete,
       MaintDeleteStore, MaintWrite, MaintEnd, Scanning, At
  <2>2. CASE x \in Threads
    <3>1. x # Client
      BY <2>2, Types
    <3>2. (\E p : Goto(x, p)) \/ pc' = pc
      BY <1>4 DEF MaintStep, MaintBegin, MaintSkip, MaintDelete,
         MaintDeleteStore, MaintWrite, MaintEnd
    <3> QED
      BY <1>1, <2>2, <3>2
  <2> QED
    BY <2>1, <2>2 DEF Actors
<1>5. ASSUME NEW t \in Threads, ThreadStep(t) PROVE FALSE
  <2>1. \E p : Goto(t, p)
    BY <1>5 DEF ThreadStep, TakeJob, StorageGet, StoragePut, ReadNodeFileCb,
       ReadNodeFileCbLoad, ReadNodeFileCbStore, EvictNodeFileCb,
       EvictNodeFileCbStore, EvictNodeFileCbRequested, FlushNodeFileCb
  <2> QED
    BY <1>1, <2>1
<1>6. CASE UNCHANGED vars
  BY <1>6 DEF vars
<1> QED
  BY <1>2, <1>3, <1>4, <1>5, <1>6 DEF Next

\* When flushCache returns, every cached file that is not being loaded, and
\* whose handles have reported their changes, is in the storage: the loop skips
\* no file, and the wait does not end before the last write.
THEOREM FlushReachesStorage == Spec => FlushStoresAll
<1> DEFINE A == pc[Client] = "flush" /\ pc'[Client] # "flush" =>
                  \A f \in Files :
                    /\ file[f].state \in {"LOADED", "EVICTING"}
                    /\ \A h \in Handles : handles[h].file = f => ~handles[h].modified
                    => store[file[f].id] = Serialized(f)
<1>1. IInv /\ QInv /\ DInv /\ [Next]_vars => [A]_vars
  <2> SUFFICES ASSUME IInv, QInv, DInv, [Next]_vars,
                      pc[Client] = "flush", pc'[Client] # "flush",
                      NEW f \in Files, file[f].state \in {"LOADED", "EVICTING"},
                      \A h \in Handles : handles[h].file = f => ~handles[h].modified
               PROVE  store[file[f].id] = Serialized(f)
    OBVIOUS
  <2>1. \A x \in Files : ~Dirty(x)
    BY FlushLeft, FlushedAll
  <2>2. Settled(f) /\ ~file[f].modified /\ Reported(f)
    BY <2>1 DEF Settled, Dirty, Reported
  <2> QED
    BY <2>2 DEF DInv, StoreInv
<1> QED
  BY <1>1, DataInvariance, PTL DEF Spec, FlushStoresAll

(***************************************************************************)
(* The size of the writes under way                                        *)
(***************************************************************************)

\* The evictions counted in current_write_size: their callbacks have not run,
\* or have not come to the subtraction.
Writes ==
  {j \in Pending : j.op = "evict"}
  \cup {job[t] : t \in {u \in Threads : pc[u] = "hung"}}

\* The nodes a set of requests writes
Written(W) ==
  {e \in Files \X Shorts : \E j \in W : j.file = e[1] /\ j.data.nodes[e[2]] # Absent}

WInv ==
  /\ IsFiniteSet(Written(Writes))
  /\ aborted = "no" => wsize = Cardinality(Written(Writes))

\* Working on a request, or stuck in evictNodeFileCb
Busy == Working \cup {"hung"}

\* The same requests are counted, and their size is.
LEMMA SameWrites ==
  ASSUME WInv, wsize' = wsize, aborted' = "no" => aborted = "no",
         \A j : j.op = "evict" => (j \in Pending' <=> j \in Pending),
         \A t \in Threads : /\ pc'[t] = "hung" <=> pc[t] = "hung"
                            /\ pc[t] = "hung" => job'[t] = job[t]
  PROVE  WInv'
<1>1. {j \in Pending' : j.op = "evict"} = {j \in Pending : j.op = "evict"}
  OBVIOUS
<1>2. Writes' = Writes
  BY <1>1 DEF Writes
<1>3. Written(Writes)' = Written(Writes)
  BY <1>2 DEF Written
<1> QED
  BY <1>3 DEF WInv

\* A step that neither takes, answers nor adds a request
LEMMA NoWrite ==
  ASSUME WInv, wsize' = wsize, aborted' = "no" => aborted = "no", queue' = queue,
         \A t \in Threads : \/ pc'[t] = pc[t] /\ job'[t] = job[t]
                            \/ pc[t] \notin Busy /\ pc'[t] \notin Busy
  PROVE  WInv'
<1>1. Pending' = Pending
  BY DEF Pending, Busy, Working
<1>2. \A t \in Threads : /\ pc'[t] = "hung" <=> pc[t] = "hung"
                         /\ pc[t] = "hung" => job'[t] = job[t]
  BY DEF Busy
<1> QED
  BY <1>1, <1>2, SameWrites

\* A step of the client that adds no request
LEMMA ClientNoWrite ==
  ASSUME IInv, WInv, wsize' = wsize, aborted' = aborted, queue' = queue, job' = job,
         pc' = pc \/ \E p : Goto(Client, p)
  PROVE  WInv'
<1>1. \A t \in Threads : pc'[t] = pc[t]
  BY Types DEF Goto
<1> QED
  BY <1>1, NoWrite

\* The nodes of one file are as many as cacheSize() says.
LEMMA NodesOfFile ==
  ASSUME NEW f
  PROVE  LET S == {s \in Shorts : file[f].nodes[s] # Absent}
         IN  /\ IsFiniteSet({f} \X S) /\ Cardinality({f} \X S) = CacheSize(f)
             /\ CacheSize(f) \in Nat
<1> DEFINE S == {s \in Shorts : file[f].nodes[s] # Absent}
<1>1. IsFiniteSet(S)
  BY FS_Subset, FiniteAssumption
<1>2. Cardinality(S) = CacheSize(f) /\ CacheSize(f) \in Nat
  BY SizeNat DEF CacheSize
<1> HIDE DEF S
<1>3. IsFiniteSet({f}) /\ Cardinality({f}) = 1
  BY FS_Singleton
<1>4. IsFiniteSet({f} \X S) /\ Cardinality({f} \X S) = Cardinality({f}) * Cardinality(S)
  BY <1>1, <1>3, FS_Product
<1>5. 1 * CacheSize(f) = CacheSize(f)
  BY <1>2
<1> QED
  BY <1>2, <1>3, <1>4, <1>5 DEF S

\* cacheMaintenance begins a write and counts the nodes of the file.
LEMMA MaintWriteSize ==
  ASSUME IInv, QInv, WInv, NEW x \in Actors, MaintWrite(x)
  PROVE  WInv'
<1> DEFINE g == lru[maint.it]
           j == [op |-> "evict", file |-> g, id |-> file[g].id,
                 data |-> Serialized(g)]
           S == {s \in Shorts : file[g].nodes[s] # Absent}
<1>0. /\ pc[x] = "scan" /\ file[g].state = "LOADED" /\ aborted = "no"
      /\ UNCHANGED <<pc, job>>
  BY DEF MaintWrite, Scanning, At, Evictable
<1>1. g \in Files /\ file[g] \in NodeFile
  <2>1. maint.it \in 1..Len(lru)
    <3>1. pc[x] = "scan" /\ maint.it > 0
      BY DEF MaintWrite, Scanning, At
    <3> QED
      BY <3>1, Types DEF IInv, ScanInv
  <2> QED
    BY <2>1, Types
<1>2. CASE ~MayWrite
  <2>1. UNCHANGED <<wsize, queue>>
    BY <1>2 DEF MaintWrite
  <2> QED
    BY <1>0, <2>1, NoWrite
<1>3. CASE MayWrite
  <2>1. queue' = Append(queue, j) /\ wsize' = wsize + CacheSize(g) /\ aborted' = aborted
    BY <1>3 DEF MaintWrite, BeginWrite
  <2>2. j \in Job /\ j.file = g /\ j.op = "evict" /\ j.data.nodes = file[g].nodes
    BY <1>1, SerializedType DEF Job, IInv, Serialized
  <2> HIDE DEF g, j
  <2>3. \A k \in Pending : k.file # g
    BY <1>0, LoadedIdle, ScanNoFlush
  <2>4. Pending' = Pending \cup {j}
    BY <1>0, <1>1, <2>1, <2>2, <2>3, RequestAdded, Types DEF QInv, Alike
  <2>5. Writes = {k \in Pending : k.op = "evict"}
    <3>1. \A t \in Threads : pc[t] # "hung"
      BY <1>0, Types DEF IInv, LockInv
    <3> QED
      BY <3>1 DEF Writes
  <2>6. Writes' = Writes \cup {j}
    <3>1. \A t \in Threads : pc'[t] # "hung"
      BY <1>0, Types DEF IInv, LockInv
    <3> QED
      BY <2>2, <2>4, <2>5, <3>1 DEF Writes
  <2>7. Written(Writes)' = Written(Writes) \cup ({g} \X S)
    <3>1. Written(Writes)' = Written(Writes \cup {j})
      BY <2>6 DEF Written
    <3>2. ASSUME NEW e \in Files \X Shorts
          PROVE  e \in Written(Writes \cup {j}) <=> e \in Written(Writes) \cup ({g} \X S)
      <4>1. e \in Written(Writes \cup {j})
              <=> e \in Written(Writes) \/ (g = e[1] /\ file[g].nodes[e[2]] # Absent)
        BY <2>2 DEF Written
      <4>2. e \in {g} \X S <=> g = e[1] /\ file[g].nodes[e[2]] # Absent
        OBVIOUS
      <4> QED
        BY <4>1, <4>2
    <3>3. Written(Writes \cup {j}) \subseteq Files \X Shorts
          /\ Written(Writes) \subseteq Files \X Shorts
      BY DEF Written
    <3>4. {g} \X S \subseteq Files \X Shorts
      BY <1>1
    <3> HIDE DEF S
    <3> QED
      BY <3>1, <3>2, <3>3, <3>4
  <2>8. Written(Writes) \cap ({g} \X S) = {}
    BY <2>3, <2>5 DEF Written
  <2>9. /\ IsFiniteSet({g} \X S) /\ Cardinality({g} \X S) = CacheSize(g)
        /\ CacheSize(g) \in Nat
    BY NodesOfFile
  <2> HIDE DEF S
  <2>10. /\ IsFiniteSet(Written(Writes)) /\ wsize = Cardinality(Written(Writes))
         /\ Cardinality(Written(Writes)) \in Nat
    BY <1>0, FS_CardinalityType DEF WInv
  <2>11. /\ IsFiniteSet(Written(Writes) \cup ({g} \X S))
         /\ Cardinality(Written(Writes) \cup ({g} \X S))
              = Cardinality(Written(Writes)) + CacheSize(g)
    <3>1. Cardinality(Written(Writes) \cap ({g} \X S)) = 0
      BY <2>8, FS_EmptySet
    <3>2. /\ IsFiniteSet(Written(Writes) \cup ({g} \X S))
          /\ Cardinality(Written(Writes) \cup ({g} \X S))
               = Cardinality(Written(Writes)) + Cardinality({g} \X S)
                   - Cardinality(Written(Writes) \cap ({g} \X S))
      BY <2>9, <2>10, FS_Union
    <3> QED
      BY <2>9, <2>10, <3>1, <3>2
  <2> QED
    BY <2>1, <2>7, <2>10, <2>11 DEF WInv
<1> QED
  BY <1>2, <1>3

\* evictNodeFileCb deletes the file and gives back its nodes, which are the ones
\* that were written.
LEMMA EvictNodeFileCbSize ==
  ASSUME IInv, QInv, DInv, WInv, NEW t \in Threads, EvictNodeFileCb(t)
  PROVE  WInv'
<1> DEFINE g == job[t].file
           S == {s \in Shorts : file[g].nodes[s] # Absent}
<1>0. /\ pc[t] = "evictcb" /\ pc'[t] = "evictcbStore" /\ aborted = "no"
      /\ \A u \in Threads : u # t => pc'[u] = pc[u]
      /\ cacheMutex = Nobody /\ UNCHANGED <<queue, job>>
  BY Types DEF EvictNodeFileCb, At, Goto, storageVars
<1>1. pc[t] \in Working /\ pc'[t] \notin Working /\ job[t].op = "evict"
  BY <1>0 DEF Working, QInv, JobInv, Fits
<1>2. job[t] \in Pending /\ g \in Files
  BY <1>1, PendingWhere DEF QInv, JobInv
<1>3. /\ Pending = Pending' \cup {job[t]}
      /\ \A k \in Pending' : k \in Pending /\ ~Alike(k, job[t])
  BY <1>0, <1>1, RequestAnswered DEF QInv
<1>4. \A u \in Threads : pc[u] # "hung" /\ pc'[u] # "hung"
  BY <1>0, MutexFree, Types
<1>5. Writes = {k \in Pending : k.op = "evict"} /\ Writes' = {k \in Pending' : k.op = "evict"}
  BY <1>4 DEF Writes
<1>6. job[t].data.nodes = file[g].nodes
  <2>1. job[t].op # "read"
    BY <1>1
  <2>2. job[t].data = Serialized(g)
    BY <1>2, <2>1 DEF DInv, StoreInv
  <2> QED
    BY <2>2 DEF Serialized
<1>7. Writes = Writes' \cup {job[t]} /\ \A k \in Writes' : k.file # g
  BY <1>1, <1>3, <1>5 DEF Alike
<1> HIDE DEF g
<1>8. Written(Writes)' = Written(Writes) \ ({g} \X S) /\ {g} \X S \subseteq Written(Writes)
  <2>1. Written(Writes)' = Written(Writes')
    BY DEF Written
  <2>2. ASSUME NEW e \in Files \X Shorts
        PROVE  /\ e \in Written(Writes') => e \in Written(Writes) \ ({g} \X S)
               /\ e \in Written(Writes) \ ({g} \X S) => e \in Written(Writes')
               /\ e \in {g} \X S => e \in Written(Writes)
    <3>1. e \in {g} \X S <=> g = e[1] /\ file[g].nodes[e[2]] # Absent
      OBVIOUS
    <3>2. e \in Written(Writes)
            <=> e \in Written(Writes') \/ (g = e[1] /\ file[g].nodes[e[2]] # Absent)
      BY <1>6, <1>7 DEF Written, g
    <3>3. e \in Written(Writes') => g # e[1]
      BY <1>7 DEF Written
    <3> QED
      BY <3>1, <3>2, <3>3
  <2>3. Written(Writes') \subseteq Files \X Shorts /\ Written(Writes) \subseteq Files \X Shorts
    BY DEF Written
  <2>4. {g} \X S \subseteq Files \X Shorts
    BY <1>2
  <2> HIDE DEF S
  <2> QED
    BY <2>1, <2>2, <2>3, <2>4
<1>9. /\ Cardinality({g} \X S) = CacheSize(g) /\ CacheSize(g) \in Nat
  BY NodesOfFile
<1> HIDE DEF S
<1>10. /\ IsFiniteSet(Written(Writes)) /\ wsize = Cardinality(Written(Writes))
       /\ Cardinality(Written(Writes)) \in Nat
  BY <1>0, FS_CardinalityType DEF WInv
<1>11. /\ IsFiniteSet(Written(Writes) \ ({g} \X S))
       /\ Cardinality(Written(Writes) \ ({g} \X S))
            = Cardinality(Written(Writes)) - CacheSize(g)
  <2>1. Written(Writes) \cap ({g} \X S) = {g} \X S
    BY <1>8
  <2>2. Cardinality(Written(Writes) \cap ({g} \X S)) = CacheSize(g)
    BY <1>9, <2>1
  <2>3. /\ IsFiniteSet(Written(Writes) \ ({g} \X S))
        /\ Cardinality(Written(Writes) \ ({g} \X S))
             = Cardinality(Written(Writes)) - Cardinality(Written(Writes) \cap ({g} \X S))
    BY <1>10, FS_Difference
  <2> QED
    BY <2>2, <2>3
<1>12. aborted' = "no" => wsize' = wsize - CacheSize(g)
  BY DEF EvictNodeFileCb, EndWrite, g
<1> QED
  BY <1>8, <1>10, <1>11, <1>12 DEF WInv

\* evictNodeFileCb returns the file and does not come to the subtraction.
LEMMA EvictNodeFileCbRequestedSize ==
  ASSUME IInv, QInv, WInv, NEW t \in Threads, EvictNodeFileCbRequested(t)
  PROVE  WInv'
<1>0. /\ pc[t] = "evictcb" /\ pc'[t] = "hung" /\ aborted = "no"
      /\ \A u \in Threads : u # t => pc'[u] = pc[u]
      /\ UNCHANGED <<queue, job, wsize>>
  BY Types DEF EvictNodeFileCbRequested, At, Goto, storageVars
<1>1. pc[t] \in Working /\ pc'[t] \notin Working /\ job[t].op = "evict"
  BY <1>0 DEF Working, QInv, JobInv, Fits
<1>2. Pending = Pending' \cup {job[t]}
  BY <1>0, <1>1, RequestAnswered DEF QInv
<1>3. Writes' = Writes
  <2>1. \A u \in Threads : pc'[u] = "hung" <=> pc[u] = "hung" \/ u = t
    BY <1>0
  <2>2. {job'[u] : u \in {v \in Threads : pc'[v] = "hung"}}
          = {job[u] : u \in {v \in Threads : pc[v] = "hung"}} \cup {job[t]}
    BY <1>0, <2>1
  <2> QED
    BY <1>1, <1>2, <2>2 DEF Writes
<1>4. Written(Writes)' = Written(Writes)
  BY <1>3 DEF Written
<1> QED
  BY <1>0, <1>4 DEF WInv

\* A request joins the queue.
LEMMA QueueGrows ==
  ASSUME NEW j, queue \in Seq(Job), queue' = Append(queue, j), job' = job,
         \A t \in Threads : pc'[t] = pc[t]
  PROVE  Pending' = Pending \cup {j}
<1>1. /\ Len(queue') = Len(queue) + 1 /\ Len(queue) \in Nat
      /\ \A n \in 1..Len(queue) : queue'[n] = queue[n]
      /\ queue'[Len(queue) + 1] = j
  OBVIOUS
<1>2. \A x : (\E n \in 1..Len(queue') : x = queue'[n])
              <=> (\E n \in 1..Len(queue) : x = queue[n]) \/ x = j
  <2>1. ASSUME NEW n \in 1..Len(queue')
        PROVE  n \in 1..Len(queue) \/ n = Len(queue) + 1
    BY <1>1
  <2>2. 1..Len(queue) \subseteq 1..Len(queue') /\ Len(queue) + 1 \in 1..Len(queue')
    BY <1>1
  <2> QED
    BY <1>1, <2>1, <2>2
<1> QED
  BY <1>2 DEF Pending

\* A request that is not an eviction is added.
LEMMA OtherAdded ==
  ASSUME WInv, wsize' = wsize, aborted' = "no" => aborted = "no",
         NEW j, j.op # "evict", Pending' = Pending \cup {j},
         \A t \in Threads : pc'[t] = pc[t] /\ job'[t] = job[t]
  PROVE  WInv'
BY SameWrites

\* A request that is not an eviction is answered.
LEMMA OtherAnswered ==
  ASSUME WInv, QInv, wsize' = wsize, aborted' = aborted, NEW t \in Threads,
         pc[t] \in Working, job[t].op # "evict", queue' = queue,
         pc'[t] \notin Busy,
         \A u \in Threads : u # t => pc'[u] = pc[u] /\ job'[u] = job[u]
  PROVE  WInv'
<1>1. Pending = Pending' \cup {job[t]}
  BY RequestAnswered DEF QInv, Busy
<1>2. \A u \in Threads : /\ pc'[u] = "hung" <=> pc[u] = "hung"
                         /\ pc[u] = "hung" => job'[u] = job[u]
  BY DEF Busy, Working
<1> QED
  BY <1>1, <1>2, SameWrites

\* The steps of the client
LEMMA ClientSize ==
  ASSUME IInv, QInv, WInv, CallStep \/ ClientStep
  PROVE  WInv'
<1> USE DEF BeginCall, treeVars, storageVars
<1>1. CASE \E h \in Handles : GetRoot(h) \/ ModifyNode(h) \/ ReleaseNode(h)
  BY <1>1, ClientNoWrite DEF GetRoot, ModifyNode, ReleaseNode
<1>2. CASE \E p, h \in Handles, i \in Ids, s \in Shorts :
             GetChildNode(p, i, s, h) \/ CreateChildNode(p, i, s, h)
  BY <1>2, ClientNoWrite DEF GetChildNode, CreateChildNode
<1>3. CASE FlushCache \/ Destroy
  BY <1>3, ClientNoWrite DEF FlushCache, Destroy, FlushBegin
<1>4. CASE \E f \in Files, h \in Handles : CreateRoot(f, h)
  BY <1>4, ClientNoWrite DEF CreateRoot
<1>5. CASE FindHit \/ Push \/ ReadNode \/ ParentHasFile
  BY <1>5, ClientNoWrite DEF FindHit, Push, ReadNode, ParentHasFile
<1>6. CASE \E f \in Files : ParentLacksFile(f) \/ DestroyFile(f)
  BY <1>6, ClientNoWrite DEF ParentLacksFile, DestroyFile
<1>7. CASE LinkParent \/ CreateNode \/ CreateNodeStore \/ DropFile
  BY <1>7, ClientNoWrite DEF LinkParent, CreateNode, CreateNodeStore, DropFile
<1>8. CASE Unlock \/ FlushEnd \/ DestroyFileStore \/ DestroyEnd
  BY <1>8, ClientNoWrite DEF Unlock, FlushEnd, DestroyFileStore, DestroyEnd
<1>9. ASSUME NEW f \in Files, NEW m \in BOOLEAN, FindMiss(f, m)
      PROVE  WInv'
  <2> DEFINE j == [NoJob EXCEPT !.file = f, !.id = Target]
  <2>1. queue' = Append(queue, j) /\ UNCHANGED <<wsize, job, aborted>>
        /\ \A t \in Threads : pc'[t] = pc[t]
    BY <1>9, Types DEF FindMiss, Goto
  <2>2. j.op = "read"
    BY DEF NoJob
  <2> HIDE DEF j
  <2>3. Pending' = Pending \cup {j}
    BY <2>1, QueueGrows, Types
  <2> QED
    BY <2>1, <2>2, <2>3, OtherAdded
<1>10. CASE FlushFile
  <2> DEFINE g == lru[maint.it]
             j == [op |-> "flush", file |-> g, id |-> file[g].id,
                   data |-> Serialized(g)]
  <2>1. UNCHANGED <<wsize, job, pc>> /\ aborted = "no"
    BY <1>10 DEF FlushFile, At
  <2>2. queue' = queue \/ queue' = Append(queue, j)
    BY <1>10 DEF FlushFile
  <2>3. j.op = "flush"
    OBVIOUS
  <2> HIDE DEF j
  <2>4. CASE queue' = queue
    BY <2>1, <2>4, NoWrite
  <2>5. CASE queue' = Append(queue, j)
    <3>1. Pending' = Pending \cup {j}
      BY <2>1, <2>5, QueueGrows, Types
    <3> QED
      BY <2>1, <2>3, <3>1, OtherAdded
  <2> QED
    BY <2>2, <2>4, <2>5
<1> QED
  BY <1>1, <1>2, <1>3, <1>4, <1>5, <1>6, <1>7, <1>8, <1>9, <1>10
     DEF CallStep, ClientStep

\* The steps of cacheMaintenance
LEMMA MaintSize ==
  ASSUME IInv, QInv, WInv, NEW x \in Actors, MaintStep(x)
  PROVE  WInv'
<1>1. CASE MaintWrite(x)
  BY <1>1, MaintWriteSize
<1>2. CASE MaintSkip(x)
  BY <1>2, NoWrite DEF MaintSkip, treeVars, storageVars
<1>3. CASE MaintBegin(x) \/ MaintDelete(x) \/ MaintDeleteStore(x) \/ MaintEnd(x)
  <2> USE DEF At, treeVars, storageVars
  <2>1. /\ UNCHANGED <<wsize, queue>> /\ aborted = "no"
        /\ \A u \in Threads : u # x => job'[u] = job[u]
    <3>1. UNCHANGED <<wsize, queue>> /\ aborted = "no"
      BY <1>3 DEF MaintBegin, MaintDelete, MaintDeleteStore, MaintEnd, Scanning
    <3>2. job' = job \/ job' = [job EXCEPT ![x] = NoJob]
      BY <1>3 DEF MaintBegin, MaintDelete, MaintDeleteStore, MaintEnd
    <3> QED
      BY <3>1, <3>2, Types
  <2>2. pc[x] \in {"maint", "scan", "scandec"}
    BY <1>3 DEF MaintBegin, MaintDelete, MaintDeleteStore, MaintEnd, Scanning
  <2>3. \E p \in {"scan", "scandec", "idle", "create", "link"} : Goto(x, p)
    <3>1. CASE MaintBegin(x)
      BY <3>1 DEF MaintBegin
    <3>2. CASE MaintDelete(x)
      BY <3>2 DEF MaintDelete
    <3>3. CASE MaintDeleteStore(x)
      BY <3>3 DEF MaintDeleteStore
    <3>4. CASE MaintEnd(x)
      BY <3>4 DEF MaintEnd
    <3> QED
      BY <1>3, <3>1, <3>2, <3>3, <3>4
  <2>4. PICK p : Goto(x, p) /\ p \notin Busy
    BY <2>3 DEF Busy, Working
  <2>5. pc'[x] = p /\ \A u \in Threads : u # x => pc'[u] = pc[u]
    BY <2>4, Types DEF Goto
  <2>6. pc[x] \notin Busy
    BY <2>2 DEF Busy, Working
  <2> QED
    BY <2>1, <2>4, <2>5, <2>6, NoWrite
<1> QED
  BY <1>1, <1>2, <1>3 DEF MaintStep

\* The steps of the storage threads
LEMMA ThreadSize ==
  ASSUME IInv, QInv, DInv, WInv, NEW t \in Threads, ThreadStep(t)
  PROVE  WInv'
<1> USE DEF treeVars, storageVars
<1>1. CASE TakeJob(t)
  <2>1. Pending' = Pending
    BY <1>1, TakeJobKeeps
  <2>2. /\ UNCHANGED <<wsize, aborted>> /\ pc[t] = "idle" /\ pc'[t] = "io"
        /\ \A u \in Threads : u # t => pc'[u] = pc[u] /\ job'[u] = job[u]
    BY <1>1, Types DEF TakeJob, At, Goto
  <2> QED
    BY <2>1, <2>2, SameWrites
<1>2. CASE StorageGet(t)
  <2>1. /\ pc[t] = "io" /\ pc'[t] = "readcb" /\ job[t].op = "read" /\ aborted = "no"
        /\ wsize' = wsize
        /\ \A u \in Threads : u # t => pc'[u] = pc[u] /\ job'[u] = job[u]
    BY <1>2, Types DEF StorageGet, At, Goto
  <2>2. job'[t].op = "read"
    <3> DEFINE j == [job[t] EXCEPT !.data = store[job[t].id]]
    <3>1. job' = job \/ job' = [job EXCEPT ![t] = j]
      BY <1>2 DEF StorageGet
    <3>2. job[t] \in Job
      BY Types
    <3>3. j.op = "read"
      BY <2>1, <3>2 DEF Job
    <3> HIDE DEF j
    <3> QED
      BY <2>1, <3>1, <3>3, Types
  <2>3. /\ \A j \in Pending' : j \in Pending \/ j = job'[t]
        /\ \A j \in Pending : j \in Pending' \/ j = job[t]
    BY <1>2, StorageGetKeeps
  <2>4. \A j : j.op = "evict" => (j \in Pending' <=> j \in Pending)
    BY <2>1, <2>2, <2>3
  <2> QED
    BY <2>1, <2>4, SameWrites
<1>3. CASE StoragePut(t)
  <2>1. /\ UNCHANGED <<wsize, aborted, queue, job>> /\ pc[t] = "io"
        /\ pc'[t] \in {"evictcb", "flushcb"}
        /\ \A u \in Threads : u # t => pc'[u] = pc[u]
    BY <1>3, Types DEF StoragePut, At, Goto
  <2>2. Pending' = Pending
    BY <2>1 DEF Pending
  <2> QED
    BY <2>1, <2>2, SameWrites
<1>4. CASE ReadNodeFileCb(t)
  <2>1. /\ UNCHANGED <<wsize, aborted, queue, job>> /\ pc[t] = "readcb"
        /\ pc'[t] = "readcbLoad" /\ \A u \in Threads : u # t => pc'[u] = pc[u]
    BY <1>4, Types DEF ReadNodeFileCb, At, Goto
  <2>2. job[t].op = "read" /\ pc[t] \in Working /\ pc'[t] \notin Busy
    BY <2>1 DEF QInv, JobInv, Fits, Working, Busy
  <2> QED
    BY <2>1, <2>2, OtherAnswered
<1>5. CASE FlushNodeFileCb(t)
  <2>1. /\ UNCHANGED <<wsize, aborted, queue>> /\ pc[t] = "flushcb" /\ pc'[t] = "idle"
        /\ \A u \in Threads : u # t => pc'[u] = pc[u] /\ job'[u] = job[u]
    BY <1>5, Types DEF FlushNodeFileCb, At, Goto
  <2>2. job[t].op = "flush" /\ pc[t] \in Working /\ pc'[t] \notin Busy
    BY <2>1 DEF QInv, JobInv, Fits, Working, Busy
  <2> QED
    BY <2>1, <2>2, OtherAnswered
<1>6. CASE ReadNodeFileCbLoad(t) \/ ReadNodeFileCbStore(t) \/ EvictNodeFileCbStore(t)
  <2>1. /\ UNCHANGED <<wsize, aborted, queue>>
        /\ pc[t] \in {"readcbLoad", "readcbStore", "evictcbStore"}
        /\ pc'[t] \in {"readcbStore", "maint", "idle"}
        /\ \A u \in Threads : u # t => pc'[u] = pc[u] /\ job'[u] = job[u]
    BY <1>6, Types DEF ReadNodeFileCbLoad, ReadNodeFileCbStore, EvictNodeFileCbStore, At, Goto
  <2>2. pc[t] \notin Busy /\ pc'[t] \notin Busy
    BY <2>1 DEF Busy, Working
  <2> QED
    BY <2>1, <2>2, NoWrite
<1>7. CASE EvictNodeFileCb(t)
  BY <1>7, EvictNodeFileCbSize
<1>8. CASE EvictNodeFileCbRequested(t)
  BY <1>8, EvictNodeFileCbRequestedSize
<1> QED
  BY <1>1, <1>2, <1>3, <1>4, <1>5, <1>6, <1>7, <1>8 DEF ThreadStep

\* The first state counts no write.
LEMMA InitSize == Init => WInv
<1> SUFFICES ASSUME NEW stored \in Openings, InitWith(stored) PROVE WInv
  BY DEF Init
<1>1. queue = << >> /\ wsize = 0 /\ \A t \in Threads : pc[t] = "idle"
  BY ConstantsAssumption DEF InitWith, Actors
<1>2. Pending = {}
  BY <1>1 DEF Pending
<1>3. Writes = {}
  BY <1>1, <1>2 DEF Writes
<1>4. Written(Writes) = {}
  BY <1>3 DEF Written
<1> QED
  BY <1>1, <1>4, FS_EmptySet DEF WInv

\* Every step keeps the count.
LEMMA NextSize == IInv /\ QInv /\ DInv /\ WInv /\ [Next]_vars => WInv'
<1> SUFFICES ASSUME IInv, QInv, DInv, WInv, [Next]_vars PROVE WInv'
  OBVIOUS
<1>1. CASE UNCHANGED vars
  BY <1>1, NoWrite DEF vars, treeVars, storageVars
<1> QED
  BY <1>1, ClientSize, MaintSize, ThreadSize DEF Next

\* For every instance: current_write_size is the number of nodes of the files
\* that are being written to be evicted, whatever is asked for and handed out in
\* the meantime, so that the subtraction of evictNodeFileCb never takes it below
\* zero; a callback that does not come to its subtraction leaves in it exactly
\* the nodes it has written.
THEOREM WriteSizeStaysExact == Spec => []WriteSizeExact
<1>1. ASSUME QInv, DInv, WInv PROVE WriteSizeExact
  <2> DEFINE A == {e \in Files \X Shorts :
               \/ /\ \E j \in Pending : j.op = "evict" /\ j.file = e[1]
                  /\ file[e[1]].nodes[e[2]] # Absent
               \/ \E t \in Threads : /\ pc[t] = "hung" /\ job[t].file = e[1]
                                     /\ job[t].data.nodes[e[2]] # Absent}
  <2>1. \A j \in Pending : j.op = "evict" => j.data.nodes = file[j.file].nodes
    <3> SUFFICES ASSUME NEW j \in Pending, j.op = "evict"
                 PROVE  j.data.nodes = file[j.file].nodes
      OBVIOUS
    <3>1. j.data = Serialized(j.file)
      BY <1>1 DEF DInv, StoreInv
    <3> QED
      BY <3>1 DEF Serialized
  <2>2. ASSUME NEW e \in Files \X Shorts
        PROVE  e \in A <=> e \in Written(Writes)
    BY <2>1 DEF Written, Writes
  <2>3. Written(Writes) \subseteq Files \X Shorts
    BY DEF Written
  <2>4. A = Written(Writes)
    BY <2>2, <2>3
  <2> QED
    BY <1>1, <2>4 DEF WInv, WriteSizeExact
<1>2. Init => WInv
  BY InitSize
<1>3. IInv /\ QInv /\ DInv /\ WInv /\ [Next]_vars => WInv'
  BY NextSize
<1> QED
  BY <1>1, <1>2, <1>3, DataInvariance, PTL DEF Spec
=============================================================================
