------------------------- MODULE HbaseStorageProofs -------------------------
(***************************************************************************)
(* Theorems about HbaseStorage, for all readers, rows and batch sizes.     *)
(***************************************************************************)
EXTENDS HbaseStorage, SequenceTheorems, FiniteSetTheorems, WellFoundedInduction,
        TLAPS

Typed ==
  /\ readQueue \in Seq(reads) /\ reads \subseteq ReadRequests
  /\ writeQueue \in Seq(writes) /\ writes \subseteq WriteRequests
  /\ thread \in [Threads -> {"top", "lock", "wait", "io", "call", "exit"}]
  /\ batch \in [Threads -> Seq(ReadRequests \cup WriteRequests)]
  /\ \A t \in Readers : batch[t] \in Seq(reads)
  /\ \A t \in Writers : batch[t] \in Seq(writes)
  /\ results \in [Threads -> Seq(Int)]
  /\ rows \in [Paths -> Int] /\ acked \in [Paths -> Int]
  /\ floor \in [1..MaxReads -> Int]

\* Requests are numbered in the order of the calls.
Numbered ==
  /\ IsFiniteSet(reads) /\ \A r \in reads : r.n <= Cardinality(reads)
  /\ IsFiniteSet(writes) /\ \A w \in writes : w.n <= Cardinality(writes)

\* A thread has a batch while it works on it, and a reader results once it has
\* read; nobody is there any more when the destructor has returned.
ThreadInv ==
  /\ \A t \in Threads : batch[t] # << >> <=> thread[t] \in {"io", "call"}
  /\ \A t \in Readers :
       Len(results[t]) = (IF thread[t] = "call" THEN Len(batch[t]) ELSE 0)
  /\ \A t \in Writers : results[t] = << >>
  /\ dtor = "gone" => \A t \in Threads : thread[t] = "exit"

\* The writes not answered yet are in the order of the calls, those the writer
\* has taken before those in the queue, and all are newer than what is
\* acknowledged.
Increasing(q) == \A i, k \in DOMAIN q : i < k => q[i].n < q[k].n
NewerThanAcked(q) == \A p \in Paths : \A i \in DOMAIN q : acked[p] < q[i].n

WriteInv ==
  /\ \A p \in Paths : acked[p] <= Cardinality(writes)
  /\ Increasing(writeQueue) /\ NewerThanAcked(writeQueue)
  /\ \A w \in Writers :
       /\ Increasing(batch[w]) /\ NewerThanAcked(batch[w])
       /\ \A i \in DOMAIN batch[w], k \in DOMAIN writeQueue :
            batch[w][i].n < writeQueue[k].n
       /\ thread[w] = "call" => \A i \in DOMAIN batch[w] :
            batch[w][i].n <= rows[batch[w][i].path]

\* Acknowledged before the call, acknowledged now.
FloorInv(q) == \A i \in DOMAIN q : floor[q[i].n] <= acked[q[i].path]
ReadInv == FloorInv(readQueue) /\ \A t \in Readers : FloorInv(batch[t])

\* The inductive invariant.  AcknowledgedIsRead is about the table and the
\* results; why they are new enough is in the order of the requests on the way.
IInv == Typed /\ Numbered /\ ThreadInv /\ WriteInv /\ ReadInv /\ AcknowledgedIsRead

-----------------------------------------------------------------------------
(* Numbers and sequences *)

\* A set of natural numbers that is not empty and has a bound has a maximum.
LEMMA NatMaximum ==
  ASSUME NEW n \in Nat, NEW T \in SUBSET (1..n), T # {}
  PROVE  \E m \in T : \A k \in T : k <= m
<1> DEFINE R == OpToRel(<, Nat)
           U == {n - k : k \in T}
<1>1. PICK u \in U : \A v \in U : ~(<<v, u>> \in R)
  <2>1. IsWellFoundedOn(R, Nat)
    BY NatLessThanWellFounded
  <2>2. U \subseteq Nat /\ U # {}
    <3>1. \A k \in T : n - k \in Nat
      OBVIOUS
    <3> QED BY <3>1
  <2> HIDE DEF R, U
  <2> QED BY <2>1, <2>2, WFMin
<1>2. R = {ss \in Nat \X Nat : ss[1] < ss[2]}
  BY DEF OpToRel
<1> HIDE DEF R
<1>3. PICK m \in T : u = n - m
  OBVIOUS
<1>4. ASSUME NEW k \in T PROVE k <= m
  <2>1. n - k \in U /\ n - k \in Nat /\ n - m \in Nat /\ k \in Nat /\ m \in Nat
    OBVIOUS
  <2>2. <<n - k, n - m>> \in R <=> n - k < n - m
    BY <1>2, <2>1
  <2> QED BY <1>1, <1>3, <2>1, <2>2
<1> QED BY <1>4

\* A batch b is the front of the queue q, and r is the rest.
Split(S, q, b, r) ==
  \E n \in 1..Len(q) :
    /\ b = SubSeq(q, 1, n) /\ r = SubSeq(q, n + 1, Len(q))
    /\ b \in Seq(S) /\ Len(b) = n /\ \A i \in 1..n : b[i] = q[i]
    /\ r \in Seq(S) /\ Len(r) = Len(q) - n
    /\ \A i \in 1..(Len(q) - n) : r[i] = q[n + i]

LEMMA TakenFacts ==
  ASSUME NEW S, NEW q \in Seq(S), q # << >>, NEW max \in Nat \ {0}
  PROVE  Split(S, q, Taken(q, max).batch, Taken(q, max).rest)
<1> DEFINE n == IF Len(q) < max THEN Len(q) ELSE max
<1>1. Len(q) \in Nat /\ n \in 1..Len(q)
  BY EmptySeq
<1>2. Taken(q, max).batch = SubSeq(q, 1, n) /\ Taken(q, max).rest = SubSeq(q, n + 1, Len(q))
  BY DEF Taken
<1> HIDE DEF n
<1>3. /\ SubSeq(q, 1, n) \in Seq(S) /\ Len(SubSeq(q, 1, n)) = n
      /\ \A i \in 1..n : SubSeq(q, 1, n)[i] = q[i]
  BY <1>1
<1>4. /\ SubSeq(q, n + 1, Len(q)) \in Seq(S) /\ Len(SubSeq(q, n + 1, Len(q))) = Len(q) - n
      /\ \A i \in 1..(Len(q) - n) : SubSeq(q, n + 1, Len(q))[i] = q[n + i]
  BY <1>1
<1> QED BY <1>1, <1>2, <1>3, <1>4 DEF Split

\* The head and the tail of a batch.
LEMMA TailFacts ==
  ASSUME NEW S, NEW q \in Seq(S), q # << >>
  PROVE  /\ Head(q) \in S /\ Head(q) = q[1] /\ 1 \in DOMAIN q /\ DOMAIN q = 1..Len(q)
         /\ Tail(q) \in Seq(S) /\ Len(q) \in Nat \ {0} /\ Len(Tail(q)) = Len(q) - 1
         /\ DOMAIN Tail(q) = 1..(Len(q) - 1)
         /\ \A i \in 1..(Len(q) - 1) : Tail(q)[i] = q[i + 1]
         /\ Tail(q) = << >> <=> Len(q) = 1
<1>1. Len(q) \in Nat \ {0}
  BY EmptySeq
<1>2. Tail(q) \in Seq(S) /\ Len(Tail(q)) = Len(q) - 1
  BY HeadTailProperties
<1>3. Tail(q) = << >> <=> Len(q) = 1
  <2>1. Tail(q) = << >> <=> Len(Tail(q)) = 0
    BY <1>2, EmptySeq
  <2> QED BY <1>1, <1>2, <2>1
<1>4. \A i \in 1..(Len(q) - 1) : Tail(q)[i] = q[i + 1]
  BY <1>1, HeadTailProperties
<1>5. Head(q) \in S /\ Head(q) = q[1] /\ 1 \in DOMAIN q /\ DOMAIN q = 1..Len(q)
  BY <1>1
<1> QED BY <1>1, <1>2, <1>3, <1>4, <1>5

\* A new request has a new number.
LEMMA NewRequest ==
  ASSUME NEW S, NEW R, S \subseteq R, IsFiniteSet(S), \A x \in R : x.n \in Nat,
         \A x \in S : x.n <= Cardinality(S), NEW r \in R, r.n = Cardinality(S) + 1
  PROVE  /\ r \notin S /\ IsFiniteSet(S \cup {r}) /\ Cardinality(S) \in Nat
         /\ Cardinality(S \cup {r}) = Cardinality(S) + 1
         /\ \A x \in S \cup {r} : x.n <= Cardinality(S \cup {r})
<1>1. Cardinality(S) \in Nat
  BY FS_CardinalityType
<1>2. r \notin S
  BY <1>1
<1>3. IsFiniteSet(S \cup {r}) /\ Cardinality(S \cup {r}) = Cardinality(S) + 1
  BY <1>2, FS_AddElement
<1> QED BY <1>1, <1>2, <1>3

\* What putBatch makes of a row: no older than any mutation of it in the batch.
LEMMA MutatedFacts ==
  ASSUME Typed, NEW b \in Seq(WriteRequests), Increasing(b), NEW p \in Paths
  PROVE  /\ Mutated(p, b) \in Int
         /\ \A i \in DOMAIN b : b[i].path = p => b[i].n <= Mutated(p, b)
         /\ Mutated(p, b) = rows[p] \/ \E i \in DOMAIN b : Mutated(p, b) = b[i].n
<1> DEFINE muts == {i \in DOMAIN b : b[i].path = p}
<1>1. DOMAIN b = 1..Len(b) /\ Len(b) \in Nat /\ \A i \in DOMAIN b : b[i].n \in Int
  <2>1. \A w \in WriteRequests : w.n \in Int
    BY DEF WriteRequests
  <2> QED BY <2>1
<1>2. CASE muts = {}
  BY <1>2 DEF Mutated, Typed
<1>3. CASE muts # {}
  <2> DEFINE m == CHOOSE i \in muts : \A j \in muts : j <= i
  <2>1. \E i \in muts : \A j \in muts : j <= i
    BY <1>1, <1>3, NatMaximum
  <2>2. m \in muts /\ \A j \in muts : j <= m
    BY <2>1
  <2>3. Mutated(p, b) = b[m].n
    BY <1>3 DEF Mutated
  <2> HIDE DEF m
  <2>4. m \in DOMAIN b /\ m \in Nat /\ \A i \in DOMAIN b : b[i].path = p => i <= m /\ i \in Nat
    BY <1>1, <2>2
  <2>5. \A i \in DOMAIN b : b[i].path = p => i = m \/ i < m
    BY <2>4
  <2> QED BY <1>1, <2>3, <2>4, <2>5 DEF Increasing
<1> QED BY <1>2, <1>3

LEMMA RequestFields ==
  /\ \A r \in ReadRequests : r.op = "get" /\ r.n \in 1..MaxReads /\ r.n \in Nat /\ r.path \in Paths
  /\ \A w \in WriteRequests : w.op = "put" /\ w.n \in 1..MaxWrites /\ w.n \in Nat /\ w.path \in Paths
  /\ \A n \in 1..MaxReads, p \in Paths : [op |-> "get", n |-> n, path |-> p] \in ReadRequests
  /\ \A n \in 1..MaxWrites, p \in Paths : [op |-> "put", n |-> n, path |-> p] \in WriteRequests
BY StorageAssumption DEF ReadRequests, WriteRequests

-----------------------------------------------------------------------------
(* Steps that leave the work of every thread alone *)

\* The threads at work are the same, with the same work.
SameWork ==
  /\ thread' \in [Threads -> {"top", "lock", "wait", "io", "call", "exit"}]
  /\ \A t \in Threads :
       \/ thread'[t] = thread[t]
       \/ thread[t] \notin {"io", "call"} /\ thread'[t] \notin {"io", "call"}
  /\ dtor' = "gone" => \A t \in Threads : thread'[t] = "exit"
  /\ UNCHANGED <<batch, results>>

LEMMA SameWorkThreads ==
  ASSUME Typed, ThreadInv, SameWork
  PROVE  ThreadInv'
<1>1. \A t \in Threads : thread'[t] \in {"io", "call"} <=> thread[t] \in {"io", "call"}
  BY DEF SameWork
<1>2. \A t \in Threads : thread'[t] = "call" <=> thread[t] = "call"
  BY DEF SameWork
<1>3. Readers \subseteq Threads
  BY DEF Threads
<1> QED BY <1>1, <1>2, <1>3 DEF ThreadInv, SameWork

\* Only threads and the destructor move.
LEMMA MovesKeep ==
  ASSUME IInv, SameWork, UNCHANGED <<queueVars, rows, historyVars>>
  PROVE  IInv'
<1>1. UNCHANGED <<readQueue, writeQueue, reads, writes, floor, acked, rows, batch, results>>
  BY DEF queueVars, historyVars, SameWork
<1>2. Typed' /\ Numbered' /\ ReadInv'
  BY <1>1 DEF IInv, Typed, Numbered, ReadInv, FloorInv, SameWork
<1>3. ThreadInv'
  BY SameWorkThreads DEF IInv
<1>4. WriteInv'
  <2>1. \A w \in Writers : thread'[w] = "call" => thread[w] = "call"
    BY DEF SameWork, Threads
  <2> QED BY <1>1, <2>1 DEF IInv, WriteInv, Increasing, NewerThanAcked
<1>5. AcknowledgedIsRead'
  BY <1>1 DEF IInv, AcknowledgedIsRead
<1> QED BY <1>2, <1>3, <1>4, <1>5 DEF IInv

\* notify_one wakes a thread that has no work.
LEMMA NotifyOneMoves ==
  ASSUME IInv, NEW S \in SUBSET Threads, NotifyOne(S), dtor # "gone", UNCHANGED <<dtor, batch, results>>
  PROVE  SameWork
BY DEF IInv, Typed, NotifyOne, In, Goto, SameWork

\* Without a callback running nothing is called after the destructor.
LEMMA CallsBeforeGone ==
  ASSUME IInv, MayCall
  PROVE  dtor # "gone"
BY DEF IInv, ThreadInv, MayCall, In

\* A result belongs to a request of the batch.
LEMMA ResultsOfBatch ==
  ASSUME Typed, ThreadInv, NEW t \in Readers, NEW i \in DOMAIN results[t]
  PROVE  /\ thread[t] = "call" /\ i \in DOMAIN batch[t] /\ batch[t][i] \in reads
         /\ DOMAIN results[t] = DOMAIN batch[t]
<1>1. t \in Threads
  BY DEF Threads
<1>2. results[t] \in Seq(Int) /\ batch[t] \in Seq(reads)
  BY <1>1 DEF Typed
<1>3. Len(results[t]) # 0
  BY <1>2
<1>4. thread[t] = "call" /\ Len(results[t]) = Len(batch[t])
  BY <1>3 DEF ThreadInv
<1> QED BY <1>2, <1>4

-----------------------------------------------------------------------------
(* getAsync and putAsync *)

LEMMA GetAsyncKeeps ==
  ASSUME IInv, NEW p \in Paths, GetAsync(p)
  PROVE  IInv'
<1> DEFINE r == [op |-> "get", n |-> Cardinality(reads) + 1, path |-> p]
<1>1. Cardinality(reads) \in Nat /\ r \in ReadRequests
  <2>1. Cardinality(reads) \in Nat
    BY FS_CardinalityType DEF IInv, Numbered
  <2>2. Cardinality(reads) + 1 \in 1..MaxReads
    BY <2>1, StorageAssumption DEF GetAsync
  <2> QED BY <2>1, <2>2, RequestFields
<1>2. r.n = Cardinality(reads) + 1 /\ r.path = p /\ r.n \in 1..MaxReads
  BY <1>1, RequestFields
<1>3. /\ readQueue' = Append(readQueue, r) /\ reads' = reads \cup {r}
      /\ floor' = [floor EXCEPT ![r.n] = acked[p]]
      /\ UNCHANGED <<writeQueue, batch, results, rows, dtor, writes, acked>>
  BY DEF GetAsync
<1>4. SameWork
  <2>1. dtor # "gone" /\ Readers \in SUBSET Threads
    BY CallsBeforeGone DEF GetAsync, Threads
  <2> QED BY <1>3, <2>1, NotifyOneMoves DEF GetAsync
<1> HIDE DEF r
<1>5. /\ IsFiniteSet(reads') /\ Cardinality(reads') = Cardinality(reads) + 1
      /\ \A x \in reads' : x.n <= Cardinality(reads')
  <2>1. reads \subseteq ReadRequests /\ \A x \in ReadRequests : x.n \in Nat
    BY RequestFields DEF IInv, Typed
  <2> QED BY <1>1, <1>2, <1>3, <2>1, NewRequest DEF IInv, Numbered
<1>6. \A x \in reads : x.n \in 1..MaxReads /\ floor'[x.n] = floor[x.n] /\ x.path \in Paths
  <2>1. \A x \in reads : x.n \in 1..MaxReads /\ x.n # r.n /\ x.path \in Paths
    BY <1>1, <1>2, RequestFields DEF IInv, Typed, Numbered
  <2> QED BY <1>3, <2>1 DEF IInv, Typed
<1>7. Typed'
  <2>1. readQueue \in Seq(reads') /\ \A t \in Readers : batch[t] \in Seq(reads')
    BY <1>3, SeqMonotonic DEF IInv, Typed
  <2>2. readQueue' \in Seq(reads') /\ reads' \subseteq ReadRequests
    BY <1>1, <1>3, <2>1 DEF IInv, Typed
  <2>3. floor' \in [1..MaxReads -> Int]
    BY <1>2, <1>3 DEF IInv, Typed
  <2> QED BY <1>3, <1>4, <2>1, <2>2, <2>3 DEF IInv, Typed, SameWork
<1>8. Numbered'
  BY <1>3, <1>5 DEF IInv, Numbered
<1>9. ThreadInv'
  BY <1>4, SameWorkThreads DEF IInv
<1>10. WriteInv'
  <2>1. \A w \in Writers : thread'[w] = "call" => thread[w] = "call"
    BY <1>4 DEF SameWork, Threads
  <2> QED BY <1>3, <2>1 DEF IInv, WriteInv, Increasing, NewerThanAcked
<1>11. ReadInv'
  <2>1. ASSUME NEW t \in Readers PROVE FloorInv(batch[t])'
    <3>1. \A i \in DOMAIN batch[t] : batch[t][i] \in reads
      BY DEF IInv, Typed
    <3> QED BY <1>3, <1>6, <3>1 DEF IInv, ReadInv, FloorInv
  <2>2. FloorInv(readQueue)'
    <3>1. \A i \in DOMAIN readQueue : readQueue[i] \in reads
      BY DEF IInv, Typed
    <3>2. \A i \in DOMAIN readQueue' :
            (i \in DOMAIN readQueue /\ readQueue'[i] = readQueue[i]) \/ readQueue'[i] = r
      BY <1>3 DEF IInv, Typed
    <3>3. floor'[r.n] = acked[r.path]
      BY <1>2, <1>3 DEF IInv, Typed
    <3>4. acked[r.path] \in Int
      BY <1>2 DEF IInv, Typed
    <3> QED BY <1>3, <1>6, <3>1, <3>2, <3>3, <3>4 DEF IInv, ReadInv, FloorInv
  <2> QED BY <2>1, <2>2 DEF ReadInv
<1>12. AcknowledgedIsRead'
  <2>1. \A t \in Readers : \A i \in DOMAIN results[t] : batch[t][i] \in reads
    BY ResultsOfBatch DEF IInv
  <2> QED BY <1>3, <1>6, <2>1 DEF IInv, AcknowledgedIsRead
<1> QED BY <1>7, <1>8, <1>9, <1>10, <1>11, <1>12 DEF IInv

LEMMA PutAsyncKeeps ==
  ASSUME IInv, NEW p \in Paths, PutAsync(p)
  PROVE  IInv'
<1> DEFINE w == [op |-> "put", n |-> Cardinality(writes) + 1, path |-> p]
<1>1. Cardinality(writes) \in Nat /\ w \in WriteRequests
  <2>1. Cardinality(writes) \in Nat
    BY FS_CardinalityType DEF IInv, Numbered
  <2>2. Cardinality(writes) + 1 \in 1..MaxWrites
    BY <2>1, StorageAssumption DEF PutAsync
  <2> QED BY <2>1, <2>2, RequestFields
<1>2. w.n = Cardinality(writes) + 1
  OBVIOUS
<1>3. /\ writeQueue' = Append(writeQueue, w) /\ writes' = writes \cup {w}
      /\ UNCHANGED <<readQueue, batch, results, rows, dtor, reads, acked, floor>>
  BY DEF PutAsync
<1>4. SameWork
  <2>1. dtor # "gone" /\ Writers \in SUBSET Threads
    BY CallsBeforeGone DEF PutAsync, Threads
  <2> QED BY <1>3, <2>1, NotifyOneMoves DEF PutAsync
<1> HIDE DEF w
<1>5. /\ IsFiniteSet(writes') /\ Cardinality(writes') = Cardinality(writes) + 1
      /\ \A x \in writes' : x.n <= Cardinality(writes')
  <2>1. writes \subseteq WriteRequests /\ \A x \in WriteRequests : x.n \in Nat
    BY RequestFields DEF IInv, Typed
  <2> QED BY <1>1, <1>2, <1>3, <2>1, NewRequest DEF IInv, Numbered
<1>6. \A x \in writes : x.n < w.n /\ x.n \in Nat
  BY <1>1, <1>2, RequestFields DEF IInv, Typed, Numbered
<1>7. Typed'
  <2>1. writeQueue \in Seq(writes') /\ \A t \in Writers : batch[t] \in Seq(writes')
    BY <1>3, SeqMonotonic DEF IInv, Typed
  <2>2. writeQueue' \in Seq(writes') /\ writes' \subseteq WriteRequests
    BY <1>1, <1>3, <2>1 DEF IInv, Typed
  <2> QED BY <1>3, <1>4, <2>1, <2>2 DEF IInv, Typed, SameWork
<1>8. Numbered'
  BY <1>3, <1>5 DEF IInv, Numbered
<1>9. ThreadInv'
  BY <1>4, SameWorkThreads DEF IInv
<1>10. WriteInv'
  <2>1. \A t \in Writers : thread'[t] = "call" => thread[t] = "call"
    BY <1>4 DEF SameWork, Threads
  <2>2. /\ DOMAIN writeQueue = 1..Len(writeQueue) /\ Len(writeQueue) \in Nat
        /\ \A i \in DOMAIN writeQueue : writeQueue[i] \in writes
    BY DEF IInv, Typed
  <2>3. /\ DOMAIN writeQueue' = 1..(Len(writeQueue) + 1)
        /\ \A i \in DOMAIN writeQueue' :
             \/ i \in DOMAIN writeQueue /\ writeQueue'[i] = writeQueue[i]
             \/ i = Len(writeQueue) + 1 /\ writeQueue'[i] = w
    <3>1. writeQueue \in Seq(writes \cup {w})
      BY SeqMonotonic DEF IInv, Typed
    <3> QED BY <1>3, <2>2, <3>1
  <2>4. \A q \in Paths : acked[q] \in Int /\ acked[q] <= Cardinality(writes)
    BY DEF IInv, Typed, WriteInv
  <2>5. \A q \in Paths : acked'[q] <= Cardinality(writes')
    BY <1>1, <1>3, <1>5, <2>4
  <2>6. Increasing(writeQueue)'
    <3> SUFFICES ASSUME NEW i \in DOMAIN writeQueue', NEW k \in DOMAIN writeQueue', i < k
                 PROVE  writeQueue'[i].n < writeQueue'[k].n
      BY DEF Increasing
    <3>1. i \in DOMAIN writeQueue /\ writeQueue'[i] = writeQueue[i]
      BY <2>2, <2>3
    <3>2. CASE k \in DOMAIN writeQueue /\ writeQueue'[k] = writeQueue[k]
      BY <3>1, <3>2 DEF IInv, WriteInv, Increasing
    <3>3. CASE writeQueue'[k] = w
      BY <1>6, <2>2, <3>1, <3>3
    <3> QED BY <2>3, <3>2, <3>3
  <2>7. NewerThanAcked(writeQueue)'
    <3> SUFFICES ASSUME NEW q \in Paths, NEW i \in DOMAIN writeQueue'
                 PROVE  acked[q] < writeQueue'[i].n
      BY <1>3 DEF NewerThanAcked
    <3>1. CASE i \in DOMAIN writeQueue /\ writeQueue'[i] = writeQueue[i]
      BY <3>1 DEF IInv, WriteInv, NewerThanAcked
    <3>2. CASE writeQueue'[i] = w
      BY <1>1, <1>2, <2>4, <3>2
    <3> QED BY <2>3, <3>1, <3>2
  <2>8. ASSUME NEW t \in Writers, NEW i \in DOMAIN batch[t], NEW k \in DOMAIN writeQueue'
        PROVE  batch[t][i].n < writeQueue'[k].n
    <3>1. batch[t][i] \in writes
      BY DEF IInv, Typed
    <3>2. CASE k \in DOMAIN writeQueue /\ writeQueue'[k] = writeQueue[k]
      BY <3>2 DEF IInv, WriteInv
    <3>3. CASE writeQueue'[k] = w
      BY <1>6, <3>1, <3>3
    <3> QED BY <2>3, <3>2, <3>3
  <2> QED BY <1>3, <2>1, <2>5, <2>6, <2>7, <2>8 DEF IInv, WriteInv, Increasing, NewerThanAcked
<1>11. ReadInv' /\ AcknowledgedIsRead'
  BY <1>3 DEF IInv, ReadInv, FloorInv, AcknowledgedIsRead
<1> QED BY <1>7, <1>8, <1>9, <1>10, <1>11 DEF IInv

-----------------------------------------------------------------------------
(* The threads *)

LEMMA ThreadSets ==
  /\ Readers \subseteq Threads /\ Writers \subseteq Threads
  /\ \A t \in Readers : t \notin Writers
BY StorageAssumption DEF Threads

\* A thread that has not left: the destructor has not returned.
LEMMA ThreadThere ==
  ASSUME ThreadInv, NEW t \in Threads, NEW s, At(t, s), s # "exit"
  PROVE  dtor # "gone"
BY DEF ThreadInv, At

LEMMA TakeReadsKeeps ==
  ASSUME IInv, NEW t \in Readers, TakeReads(t)
  PROVE  IInv'
<1>1. /\ t \in Threads /\ t \notin Writers /\ thread[t] = "lock" /\ dtor # "gone"
      /\ batch[t] = << >> /\ readQueue \in Seq(reads) /\ readQueue # << >>
  <2>1. t \in Threads /\ t \notin Writers
    BY ThreadSets
  <2> QED BY <2>1, ThreadThere DEF TakeReads, At, IInv, ThreadInv, Typed
<1> DEFINE b == Taken(readQueue, ReadBatch).batch
           q == Taken(readQueue, ReadBatch).rest
<1>2. PICK n \in 1..Len(readQueue) :
        /\ b \in Seq(reads) /\ Len(b) = n /\ \A i \in 1..n : b[i] = readQueue[i]
        /\ q \in Seq(reads) /\ Len(q) = Len(readQueue) - n
        /\ \A i \in 1..(Len(readQueue) - n) : q[i] = readQueue[n + i]
  <2>1. ReadBatch \in Nat \ {0}
    BY StorageAssumption
  <2>2. Split(reads, readQueue, b, q)
    BY <1>1, <2>1, TakenFacts
  <2> HIDE DEF b, q
  <2> QED BY <2>2 DEF Split
<1>3. /\ batch' = [batch EXCEPT ![t] = b] /\ readQueue' = q
      /\ thread' = [thread EXCEPT ![t] = "io"]
      /\ UNCHANGED <<writeQueue, results, rows, dtor, reads, writes, floor, acked>>
  BY DEF TakeReads, Goto, historyVars
<1> HIDE DEF b, q
<1>4. b # << >>
  BY <1>1, <1>2
<1>5. /\ batch'[t] = b /\ thread'[t] = "io"
      /\ \A u \in Threads : u # t => batch'[u] = batch[u] /\ thread'[u] = thread[u]
  BY <1>1, <1>3 DEF IInv, Typed
<1>6. Typed'
  <2>1. b \in Seq(ReadRequests \cup WriteRequests)
    BY <1>2, SeqMonotonic DEF IInv, Typed
  <2>2. batch' \in [Threads -> Seq(ReadRequests \cup WriteRequests)]
    BY <1>3, <2>1 DEF IInv, Typed
  <2>3. \A u \in Readers : batch'[u] \in Seq(reads)
    BY <1>2, <1>5, ThreadSets DEF IInv, Typed
  <2>4. \A u \in Writers : batch'[u] \in Seq(writes)
    BY <1>1, <1>5, ThreadSets DEF IInv, Typed
  <2>5. thread' \in [Threads -> {"top", "lock", "wait", "io", "call", "exit"}]
    BY <1>3 DEF IInv, Typed
  <2> QED BY <1>2, <1>3, <2>2, <2>3, <2>4, <2>5 DEF IInv, Typed
<1>7. ThreadInv'
  BY <1>1, <1>3, <1>4, <1>5, ThreadSets DEF IInv, ThreadInv
<1>8. WriteInv'
  <2>1. \A w \in Writers : batch'[w] = batch[w] /\ thread'[w] = thread[w]
    BY <1>1, <1>5, ThreadSets
  <2> QED BY <1>3, <2>1 DEF IInv, WriteInv, Increasing, NewerThanAcked
<1>9. ReadInv'
  <2>1. FloorInv(readQueue)
    BY DEF IInv, ReadInv
  <2>2. FloorInv(b)
    BY <1>1, <1>2, <2>1 DEF FloorInv
  <2>3. FloorInv(q)
    <3>1. \A i \in DOMAIN q : n + i \in DOMAIN readQueue /\ q[i] = readQueue[n + i]
      <4>1. Len(readQueue) \in Nat /\ DOMAIN readQueue = 1..Len(readQueue) /\ n \in Nat
            /\ DOMAIN q = 1..(Len(readQueue) - n)
        BY <1>1, <1>2
      <4> QED BY <1>2, <4>1
    <3> QED BY <2>1, <3>1 DEF FloorInv
  <2>4. \A u \in Readers : batch'[u] = b \/ batch'[u] = batch[u]
    BY <1>5, ThreadSets
  <2> QED BY <1>3, <2>2, <2>3, <2>4 DEF IInv, ReadInv, FloorInv
<1>10. AcknowledgedIsRead'
  <2>1. \A u \in Readers : \A i \in DOMAIN results[u] : u # t
    BY <1>1, ResultsOfBatch DEF IInv
  <2>2. \A u \in Readers : \A i \in DOMAIN results[u] : batch'[u] = batch[u]
    BY <2>1, <1>5, ThreadSets
  <2> QED BY <1>3, <2>2 DEF IInv, AcknowledgedIsRead
<1> QED BY <1>3, <1>6, <1>7, <1>8, <1>9, <1>10 DEF IInv, Numbered

\* One writer: what it takes is all the writes taken and not answered.
LEMMA TakeWritesKeeps ==
  ASSUME IInv, NEW t \in Writers, TakeWrites(t)
  PROVE  IInv'
<1>1. /\ t \in Threads /\ t \notin Readers /\ thread[t] = "lock" /\ dtor # "gone"
      /\ batch[t] = << >> /\ writeQueue \in Seq(writes) /\ writeQueue # << >>
  <2>1. t \in Threads /\ t \notin Readers
    BY ThreadSets
  <2> QED BY <2>1, ThreadThere DEF TakeWrites, At, IInv, ThreadInv, Typed
<1> DEFINE b == Taken(writeQueue, WriteBatch).batch
           q == Taken(writeQueue, WriteBatch).rest
<1>2. PICK n \in 1..Len(writeQueue) :
        /\ b \in Seq(writes) /\ Len(b) = n /\ \A i \in 1..n : b[i] = writeQueue[i]
        /\ q \in Seq(writes) /\ Len(q) = Len(writeQueue) - n
        /\ \A i \in 1..(Len(writeQueue) - n) : q[i] = writeQueue[n + i]
  <2>1. WriteBatch \in Nat \ {0}
    BY StorageAssumption
  <2>2. Split(writes, writeQueue, b, q)
    BY <1>1, <2>1, TakenFacts
  <2> HIDE DEF b, q
  <2> QED BY <2>2 DEF Split
<1>3. /\ batch' = [batch EXCEPT ![t] = b] /\ writeQueue' = q
      /\ thread' = [thread EXCEPT ![t] = "io"]
      /\ UNCHANGED <<readQueue, results, rows, dtor, reads, writes, floor, acked>>
  BY DEF TakeWrites, Goto, historyVars
<1> HIDE DEF b, q
<1>4. b # << >>
  BY <1>1, <1>2
<1>5. /\ batch'[t] = b /\ thread'[t] = "io"
      /\ \A u \in Threads : u # t => batch'[u] = batch[u] /\ thread'[u] = thread[u]
  BY <1>1, <1>3 DEF IInv, Typed
<1>6. Typed'
  <2>1. b \in Seq(ReadRequests \cup WriteRequests)
    BY <1>2, SeqMonotonic DEF IInv, Typed
  <2>2. batch' \in [Threads -> Seq(ReadRequests \cup WriteRequests)]
    BY <1>3, <2>1 DEF IInv, Typed
  <2>3. \A u \in Readers : batch'[u] \in Seq(reads)
    BY <1>1, <1>5, ThreadSets DEF IInv, Typed
  <2>4. \A u \in Writers : batch'[u] \in Seq(writes)
    BY <1>2, <1>5, ThreadSets DEF IInv, Typed
  <2>5. thread' \in [Threads -> {"top", "lock", "wait", "io", "call", "exit"}]
    BY <1>3 DEF IInv, Typed
  <2> QED BY <1>2, <1>3, <2>2, <2>3, <2>4, <2>5 DEF IInv, Typed
<1>7. ThreadInv'
  BY <1>1, <1>3, <1>4, <1>5, ThreadSets DEF IInv, ThreadInv
<1>8. WriteInv'
  <2>1. /\ DOMAIN writeQueue = 1..Len(writeQueue) /\ Len(writeQueue) \in Nat
        /\ DOMAIN b = 1..n /\ DOMAIN q = 1..(Len(writeQueue) - n) /\ n \in Nat
    BY <1>1, <1>2
  <2>2. /\ \A i \in DOMAIN b : i \in DOMAIN writeQueue /\ b[i] = writeQueue[i] /\ i \in Nat /\ i <= n
        /\ \A i \in DOMAIN q : n + i \in DOMAIN writeQueue /\ q[i] = writeQueue[n + i] /\ i \in Nat /\ i > 0
    BY <1>2, <2>1
  <2>3. Increasing(writeQueue) /\ NewerThanAcked(writeQueue)
    BY DEF IInv, WriteInv
  <2>4. Increasing(b) /\ NewerThanAcked(b) /\ NewerThanAcked(q)
    BY <2>2, <2>3 DEF Increasing, NewerThanAcked
  <2>5. Increasing(q)
    <3> SUFFICES ASSUME NEW i \in DOMAIN q, NEW k \in DOMAIN q, i < k PROVE q[i].n < q[k].n
      BY DEF Increasing
    <3>1. n + i < n + k
      BY <2>1, <2>2
    <3> QED BY <2>2, <2>3, <3>1 DEF Increasing
  <2>6. ASSUME NEW i \in DOMAIN b, NEW k \in DOMAIN q PROVE b[i].n < q[k].n
    <3>1. i < n + k
      BY <2>1, <2>2
    <3> QED BY <2>2, <2>3, <3>1 DEF Increasing
  <2>7. \A w \in Writers : w = t
    BY OneWriter
  <2>8. UNCHANGED <<acked, writes>> /\ writeQueue' = q
    BY <1>3
  <2> QED BY <1>5, <2>4, <2>5, <2>6, <2>7, <2>8 DEF IInv, WriteInv, Increasing, NewerThanAcked
<1>9. ReadInv' /\ AcknowledgedIsRead'
  <2>1. \A u \in Readers : batch'[u] = batch[u]
    BY <1>1, <1>5, ThreadSets
  <2> QED BY <1>3, <2>1 DEF IInv, ReadInv, FloorInv, AcknowledgedIsRead
<1> QED BY <1>3, <1>6, <1>7, <1>8, <1>9 DEF IInv, Numbered

\* getBatch: a result is what the table holds, which is no older than what was
\* acknowledged when the request was made.
LEMMA GetBatchKeeps ==
  ASSUME IInv, NEW t \in Readers, GetBatch(t)
  PROVE  IInv'
<1> DEFINE found == {i \in DOMAIN batch[t] : rows[batch[t][i].path] # Absent}
<1>1. /\ t \in Threads /\ t \notin Writers /\ thread[t] = "io" /\ dtor # "gone"
      /\ batch[t] \in Seq(reads) /\ batch[t] # << >>
  <2>1. t \in Threads /\ t \notin Writers
    BY ThreadSets
  <2> QED BY <2>1, ThreadThere DEF GetBatch, At, IInv, ThreadInv, Typed
<1>2. UNCHANGED <<readQueue, writeQueue, rows, dtor, reads, writes, floor, acked>>
  BY DEF GetBatch, historyVars, queueVars
<1>3. CASE /\ batch' = [batch EXCEPT ![t] = << >>] /\ thread' = [thread EXCEPT ![t] = "top"]
           /\ UNCHANGED results
  <2>1. /\ batch'[t] = << >> /\ thread'[t] = "top"
        /\ \A u \in Threads : u # t => batch'[u] = batch[u] /\ thread'[u] = thread[u]
    BY <1>1, <1>3 DEF IInv, Typed
  <2>2. Typed'
    <3>1. batch' \in [Threads -> Seq(ReadRequests \cup WriteRequests)]
      BY <1>3, EmptySeq DEF IInv, Typed
    <3>2. \A u \in Readers : batch'[u] \in Seq(reads)
      BY <2>1, ThreadSets, EmptySeq DEF IInv, Typed
    <3>3. \A u \in Writers : batch'[u] \in Seq(writes)
      BY <1>1, <2>1, ThreadSets DEF IInv, Typed
    <3>4. thread' \in [Threads -> {"top", "lock", "wait", "io", "call", "exit"}]
      BY <1>3 DEF IInv, Typed
    <3> QED BY <1>2, <1>3, <3>1, <3>2, <3>3, <3>4 DEF IInv, Typed
  <2>3. ThreadInv'
    BY <1>1, <1>2, <1>3, <2>1, ThreadSets DEF IInv, ThreadInv
  <2>4. WriteInv'
    <3>1. \A w \in Writers : batch'[w] = batch[w] /\ thread'[w] = thread[w]
      BY <1>1, <2>1, ThreadSets
    <3> QED BY <1>2, <3>1 DEF IInv, WriteInv, Increasing, NewerThanAcked
  <2>5. ReadInv'
    <3>1. \A u \in Readers : batch'[u] = << >> \/ batch'[u] = batch[u]
      BY <2>1, ThreadSets
    <3> QED BY <1>2, <3>1 DEF IInv, ReadInv, FloorInv
  <2>6. AcknowledgedIsRead'
    <3>1. \A u \in Readers : \A i \in DOMAIN results[u] : u # t
      BY <1>1, ResultsOfBatch DEF IInv
    <3>2. \A u \in Readers : \A i \in DOMAIN results[u] : batch'[u] = batch[u]
      BY <3>1, <2>1, ThreadSets
    <3> QED BY <1>2, <1>3, <3>2 DEF IInv, AcknowledgedIsRead
  <2> QED BY <1>2, <2>2, <2>3, <2>4, <2>5, <2>6 DEF IInv, Numbered
<1>4. CASE /\ thread' = [thread EXCEPT ![t] = "call"] /\ UNCHANGED batch
           /\ results' = [results EXCEPT ![t] = [i \in DOMAIN batch[t] |-> rows[batch[t][i].path]]]
  <2> DEFINE res == [i \in DOMAIN batch[t] |-> rows[batch[t][i].path]]
  <2>1. \A i \in DOMAIN batch[t] :
          batch[t][i] \in reads /\ batch[t][i].path \in Paths /\ batch[t][i].n \in 1..MaxReads
    BY <1>1, RequestFields DEF IInv, Typed
  <2>2. res \in Seq(Int) /\ Len(res) = Len(batch[t]) /\ DOMAIN res = DOMAIN batch[t]
    <3>1. DOMAIN batch[t] = 1..Len(batch[t]) /\ Len(batch[t]) \in Nat
      BY <1>1
    <3>2. \A i \in DOMAIN batch[t] : rows[batch[t][i].path] \in Int
      BY <2>1 DEF IInv, Typed
    <3>3. res \in [1..Len(batch[t]) -> Int]
      BY <3>1, <3>2
    <3> HIDE DEF res
    <3> QED BY <3>1, <3>3
  <2>3. \A i \in DOMAIN batch[t] : res[i] >= floor[batch[t][i].n]
    <3> SUFFICES ASSUME NEW i \in DOMAIN batch[t]
                 PROVE  rows[batch[t][i].path] >= floor[batch[t][i].n]
      OBVIOUS
    <3>1. floor[batch[t][i].n] <= acked[batch[t][i].path]
      BY DEF IInv, ReadInv, FloorInv
    <3>2. acked[batch[t][i].path] <= rows[batch[t][i].path]
      BY <2>1 DEF IInv, AcknowledgedIsRead, Typed
    <3>3. /\ floor[batch[t][i].n] \in Int /\ acked[batch[t][i].path] \in Int
          /\ rows[batch[t][i].path] \in Int
      BY <2>1 DEF IInv, Typed
    <3> QED BY <3>1, <3>2, <3>3
  <2>4. results' = [results EXCEPT ![t] = res]
    BY <1>4
  <2> HIDE DEF res
  <2>5. /\ results'[t] = res /\ thread'[t] = "call"
        /\ \A u \in Threads : u # t => results'[u] = results[u] /\ thread'[u] = thread[u]
    BY <1>1, <1>4, <2>4 DEF IInv, Typed
  <2>6. Typed'
    <3>1. results' \in [Threads -> Seq(Int)]
      BY <2>2, <2>4 DEF IInv, Typed
    <3>2. thread' \in [Threads -> {"top", "lock", "wait", "io", "call", "exit"}]
      BY <1>4 DEF IInv, Typed
    <3> QED BY <1>2, <1>4, <3>1, <3>2 DEF IInv, Typed
  <2>7. ThreadInv'
    BY <1>1, <1>2, <1>4, <2>2, <2>5, ThreadSets DEF IInv, ThreadInv
  <2>8. WriteInv' /\ ReadInv'
    <3>1. \A w \in Writers : thread'[w] = thread[w]
      BY <1>1, <2>5, ThreadSets
    <3> QED BY <1>2, <1>4, <3>1 DEF IInv, WriteInv, Increasing, NewerThanAcked, ReadInv, FloorInv
  <2>9. AcknowledgedIsRead'
    <3>1. ASSUME NEW u \in Readers, NEW i \in DOMAIN results'[u]
          PROVE  results'[u][i] >= floor[batch[u][i].n]
      <4>1. CASE u = t
        BY <2>2, <2>3, <2>5, <3>1, <4>1
      <4>2. CASE u # t
        BY <2>5, <3>1, <4>2, ThreadSets DEF IInv, AcknowledgedIsRead
      <4> QED BY <4>1, <4>2
    <3> QED BY <1>2, <1>4, <3>1 DEF IInv, AcknowledgedIsRead
  <2> QED BY <1>2, <2>6, <2>7, <2>8, <2>9 DEF IInv, Numbered
<1>5. CASE UNCHANGED <<thread, batch, results>>
  <2>1. SameWork
    BY <1>1, <1>2, <1>5 DEF SameWork, IInv, Typed
  <2> QED BY <2>1, MovesKeep DEF GetBatch
<1> QED BY <1>3, <1>4, <1>5 DEF GetBatch, Goto

\* putBatch: every row is at least as new as the mutations of the batch, which
\* are newer than what was acknowledged.
LEMMA PutBatchKeeps ==
  ASSUME IInv, NEW t \in Writers, PutBatch(t)
  PROVE  IInv'
<1>1. /\ t \in Threads /\ t \notin Readers /\ thread[t] = "io" /\ dtor # "gone"
      /\ batch[t] \in Seq(writes)
  <2>1. t \in Threads /\ t \notin Readers
    BY ThreadSets
  <2> QED BY <2>1, ThreadThere DEF PutBatch, At, IInv, ThreadInv, Typed
<1>2. /\ rows' = [p \in Paths |-> Mutated(p, batch[t])] /\ thread' = [thread EXCEPT ![t] = "call"]
      /\ UNCHANGED <<readQueue, writeQueue, batch, results, dtor, reads, writes, floor, acked>>
  BY DEF PutBatch, Goto, historyVars, queueVars
<1>3. batch[t] \in Seq(WriteRequests) /\ Increasing(batch[t]) /\ NewerThanAcked(batch[t])
  BY <1>1, SeqMonotonic DEF IInv, Typed, WriteInv
<1>4. ASSUME NEW p \in Paths
      PROVE  /\ rows'[p] \in Int /\ rows'[p] >= acked[p]
             /\ \A i \in DOMAIN batch[t] : batch[t][i].path = p => batch[t][i].n <= rows'[p]
  <2>1. /\ rows'[p] = Mutated(p, batch[t]) /\ Mutated(p, batch[t]) \in Int
        /\ \A i \in DOMAIN batch[t] : batch[t][i].path = p => batch[t][i].n <= Mutated(p, batch[t])
        /\ Mutated(p, batch[t]) = rows[p] \/ \E i \in DOMAIN batch[t] : Mutated(p, batch[t]) = batch[t][i].n
    BY <1>2, <1>3, MutatedFacts DEF IInv
  <2>2. rows[p] >= acked[p] /\ acked[p] \in Int /\ rows[p] \in Int
    BY DEF IInv, AcknowledgedIsRead, Typed
  <2>3. \A i \in DOMAIN batch[t] : acked[p] < batch[t][i].n
    BY <1>3 DEF NewerThanAcked
  <2> QED BY <2>1, <2>2, <2>3
<1>5. thread'[t] = "call" /\ \A u \in Threads : u # t => thread'[u] = thread[u]
  BY <1>1, <1>2 DEF IInv, Typed
<1>6. Typed'
  <2>1. rows' \in [Paths -> Int]
    BY <1>2, <1>4
  <2>2. thread' \in [Threads -> {"top", "lock", "wait", "io", "call", "exit"}]
    BY <1>2 DEF IInv, Typed
  <2> QED BY <1>2, <2>1, <2>2 DEF IInv, Typed
<1>7. ThreadInv'
  BY <1>1, <1>2, <1>5, ThreadSets DEF IInv, ThreadInv
<1>8. WriteInv'
  <2>1. \A w \in Writers : w = t
    BY OneWriter
  <2>2. \A i \in DOMAIN batch[t] : batch[t][i].path \in Paths
    BY <1>3, RequestFields
  <2>3. \A i \in DOMAIN batch[t] : batch[t][i].n <= rows'[batch[t][i].path]
    BY <1>4, <2>2
  <2> QED BY <1>2, <2>1, <2>3 DEF IInv, WriteInv, Increasing, NewerThanAcked
<1>9. ReadInv' /\ AcknowledgedIsRead'
  BY <1>2, <1>4 DEF IInv, ReadInv, FloorInv, AcknowledgedIsRead
<1> QED BY <1>2, <1>6, <1>7, <1>8, <1>9 DEF IInv, Numbered

\* A callback ends: the thread goes on with the rest of its batch.
LEMMA CallBackFacts ==
  ASSUME IInv, NEW t \in Threads, CallBack(t)
  PROVE  /\ thread[t] = "call" /\ dtor # "gone" /\ batch[t] # << >>
         /\ batch[t] \in Seq(ReadRequests \cup WriteRequests)
         /\ batch' = [batch EXCEPT ![t] = Tail(batch[t])] /\ batch'[t] = Tail(batch[t])
         /\ thread'[t] = (IF Len(batch[t]) = 1 THEN "top" ELSE "call")
         /\ \A u \in Threads : u # t =>
              batch'[u] = batch[u] /\ thread'[u] = thread[u] /\ results'[u] = results[u]
         /\ thread' \in [Threads -> {"top", "lock", "wait", "io", "call", "exit"}]
         /\ batch' \in [Threads -> Seq(ReadRequests \cup WriteRequests)]
         /\ batch'[t] # << >> <=> thread'[t] \in {"io", "call"}
         /\ UNCHANGED <<readQueue, writeQueue, rows, dtor, reads, writes, floor>>
<1>1. /\ thread[t] = "call" /\ dtor # "gone" /\ batch[t] # << >>
      /\ batch[t] \in Seq(ReadRequests \cup WriteRequests)
  BY ThreadThere DEF CallBack, At, IInv, ThreadInv, Typed
<1>2. /\ batch' = [batch EXCEPT ![t] = Tail(batch[t])]
      /\ thread' = [thread EXCEPT ![t] = IF Len(batch[t]) = 1 THEN "top" ELSE "call"]
      /\ results' = [results EXCEPT ![t] = IF results[t] = << >> THEN results[t] ELSE Tail(results[t])]
      /\ UNCHANGED <<readQueue, writeQueue, rows, dtor, reads, writes, floor>>
  BY DEF CallBack, Goto, queueVars
<1>3. Tail(batch[t]) \in Seq(ReadRequests \cup WriteRequests) /\ (Tail(batch[t]) = << >> <=> Len(batch[t]) = 1)
  BY <1>1, TailFacts
<1>4. batch \in [Threads -> Seq(ReadRequests \cup WriteRequests)] /\ DOMAIN results = Threads
      /\ thread \in [Threads -> {"top", "lock", "wait", "io", "call", "exit"}]
  BY DEF IInv, Typed
<1>5. batch'[t] = Tail(batch[t]) /\ thread'[t] = (IF Len(batch[t]) = 1 THEN "top" ELSE "call")
  BY <1>2, <1>4
<1>6. batch'[t] # << >> <=> thread'[t] \in {"io", "call"}
  BY <1>3, <1>5
<1> QED BY <1>1, <1>2, <1>3, <1>4, <1>5, <1>6

LEMMA ReaderCallBackKeeps ==
  ASSUME IInv, NEW t \in Readers, CallBack(t)
  PROVE  IInv'
<1> DEFINE b == batch[t]
           n == Len(b)
<1>1. t \in Threads /\ t \notin Writers /\ b \in Seq(reads) /\ results[t] \in Seq(Int)
  BY ThreadSets DEF IInv, Typed
<1>2. b # << >> /\ thread[t] = "call" /\ Len(results[t]) = n
  BY <1>1, CallBackFacts DEF IInv, ThreadInv
<1>3. /\ Tail(b) \in Seq(reads) /\ Head(b) \in reads /\ n \in Nat \ {0} /\ DOMAIN Tail(b) = 1..(n - 1)
      /\ Len(Tail(b)) = n - 1 /\ DOMAIN b = 1..n
      /\ \A i \in 1..(n - 1) : Tail(b)[i] = b[i + 1]
  BY <1>1, <1>2, TailFacts
<1>4. results[t] # << >>
  BY <1>1, <1>2, <1>3
<1>5. /\ Tail(results[t]) \in Seq(Int) /\ Len(Tail(results[t])) = n - 1
      /\ DOMAIN Tail(results[t]) = 1..(n - 1) /\ DOMAIN results[t] = 1..n
      /\ \A i \in 1..(n - 1) : Tail(results[t])[i] = results[t][i + 1]
  <2> DEFINE R == results[t]
  <2>1. R \in Seq(Int) /\ R # << >> /\ Len(R) = n
    BY <1>1, <1>2, <1>4
  <2> HIDE DEF R, n
  <2>2. /\ Tail(R) \in Seq(Int) /\ Len(Tail(R)) = Len(R) - 1 /\ DOMAIN R = 1..Len(R)
        /\ DOMAIN Tail(R) = 1..(Len(R) - 1) /\ \A i \in 1..(Len(R) - 1) : Tail(R)[i] = R[i + 1]
    BY <2>1, TailFacts
  <2> QED BY <2>1, <2>2 DEF R
<1>6. results' = [results EXCEPT ![t] = Tail(results[t])] /\ results'[t] = Tail(results[t])
  BY <1>1, <1>4 DEF CallBack, IInv, Typed
<1>7. acked' = acked
  <2>1. Head(b).op = "get"
    BY <1>3, RequestFields DEF IInv, Typed
  <2> QED BY <2>1 DEF CallBack
<1>8. \A u \in Threads : u # t =>
         batch'[u] = batch[u] /\ thread'[u] = thread[u] /\ results'[u] = results[u]
  BY <1>1, CallBackFacts
<1>9. batch'[t] = Tail(b) /\ UNCHANGED <<readQueue, writeQueue, rows, dtor, reads, writes, floor>>
      /\ dtor # "gone"
  BY <1>1, CallBackFacts
<1>10. thread'[t] = (IF n = 1 THEN "top" ELSE "call") /\ (batch'[t] # << >> <=> thread'[t] \in {"io", "call"})
  BY <1>1, CallBackFacts
<1>11. Typed'
  <2>1. results' \in [Threads -> Seq(Int)]
    BY <1>5, <1>6 DEF IInv, Typed
  <2>2. \A u \in Readers : batch'[u] \in Seq(reads)
    BY <1>3, <1>8, <1>9, ThreadSets DEF IInv, Typed
  <2>3. \A u \in Writers : batch'[u] \in Seq(writes)
    BY <1>1, <1>8, ThreadSets DEF IInv, Typed
  <2>4. /\ thread' \in [Threads -> {"top", "lock", "wait", "io", "call", "exit"}]
        /\ batch' \in [Threads -> Seq(ReadRequests \cup WriteRequests)]
    BY <1>1, CallBackFacts
  <2> QED BY <1>7, <1>9, <2>1, <2>2, <2>3, <2>4 DEF IInv, Typed
<1>12. ThreadInv'
  <2>1. Len(results'[t]) = (IF thread'[t] = "call" THEN Len(batch'[t]) ELSE 0)
    <3>1. Len(results'[t]) = n - 1 /\ Len(batch'[t]) = n - 1
      BY <1>3, <1>5, <1>6, <1>9
    <3>2. n = 1 \/ thread'[t] = "call"
      BY <1>10
    <3>3. n = 1 => thread'[t] # "call"
      BY <1>10
    <3> HIDE DEF n
    <3> QED BY <1>3, <3>1, <3>2, <3>3
  <2>2. \A u \in Readers : Len(results'[u]) = (IF thread'[u] = "call" THEN Len(batch'[u]) ELSE 0)
    BY <1>8, <2>1, ThreadSets DEF IInv, ThreadInv
  <2>3. \A u \in Writers : results'[u] = << >>
    BY <1>1, <1>8, ThreadSets DEF IInv, ThreadInv
  <2>4. \A u \in Threads : batch'[u] # << >> <=> thread'[u] \in {"io", "call"}
    BY <1>8, <1>10 DEF IInv, ThreadInv
  <2> QED BY <1>9, <2>2, <2>3, <2>4 DEF ThreadInv
<1>13. WriteInv'
  <2>1. \A w \in Writers : batch'[w] = batch[w] /\ thread'[w] = thread[w]
    BY <1>1, <1>8, ThreadSets
  <2> QED BY <1>7, <1>9, <2>1 DEF IInv, WriteInv, Increasing, NewerThanAcked
<1>14. ReadInv'
  <2>1. FloorInv(b)
    BY DEF IInv, ReadInv
  <2>2. FloorInv(Tail(b))
    BY <1>3, <2>1 DEF FloorInv
  <2>3. \A u \in Readers : batch'[u] = Tail(b) \/ batch'[u] = batch[u]
    BY <1>8, <1>9, ThreadSets
  <2> QED BY <1>7, <1>9, <2>2, <2>3 DEF IInv, ReadInv, FloorInv
<1>15. AcknowledgedIsRead'
  <2>1. ASSUME NEW i \in 1..(n - 1) PROVE Tail(results[t])[i] >= floor[Tail(b)[i].n]
    <3>1. i + 1 \in DOMAIN results[t] /\ Tail(results[t])[i] = results[t][i + 1] /\ Tail(b)[i] = b[i + 1]
      BY <1>3, <1>5
    <3> QED BY <3>1 DEF IInv, AcknowledgedIsRead
  <2>2. ASSUME NEW u \in Readers, NEW i \in DOMAIN results'[u]
        PROVE  results'[u][i] >= floor[batch'[u][i].n]
    <3>1. CASE u = t
      BY <1>5, <1>6, <1>9, <2>1, <2>2, <3>1
    <3>2. CASE u # t
      BY <1>8, <2>2, <3>2, ThreadSets DEF IInv, AcknowledgedIsRead
    <3> QED BY <3>1, <3>2
  <2> QED BY <1>7, <1>9, <2>2 DEF IInv, AcknowledgedIsRead
<1> QED BY <1>9, <1>11, <1>12, <1>13, <1>14, <1>15 DEF IInv, Numbered

\* The callback of a write: the oldest one not answered is acknowledged.
LEMMA WriterCallBackKeeps ==
  ASSUME IInv, NEW t \in Writers, CallBack(t)
  PROVE  IInv'
<1> DEFINE b == batch[t]
           n == Len(b)
           r == Head(b)
<1>1. t \in Threads /\ t \notin Readers /\ b \in Seq(writes) /\ results[t] = << >>
  BY ThreadSets DEF IInv, Typed, ThreadInv
<1>2. b # << >> /\ thread[t] = "call"
  BY <1>1, CallBackFacts
<1>3. /\ Tail(b) \in Seq(writes) /\ r \in writes /\ r = b[1] /\ n \in Nat \ {0}
      /\ DOMAIN Tail(b) = 1..(n - 1) /\ DOMAIN b = 1..n /\ 1 \in DOMAIN b
      /\ \A i \in 1..(n - 1) : Tail(b)[i] = b[i + 1]
  BY <1>1, <1>2, TailFacts
<1>4. r.op = "put" /\ r.n \in Nat /\ r.path \in Paths
  BY <1>3, RequestFields DEF IInv, Typed
<1>5. acked' = [acked EXCEPT ![r.path] = r.n]
  <2>1. acked[r.path] < r.n /\ acked[r.path] \in Int
    BY <1>3, <1>4 DEF IInv, WriteInv, NewerThanAcked, Typed
  <2> QED BY <1>4, <2>1 DEF CallBack
<1>6. \A p \in Paths : /\ acked[p] \in Int /\ acked'[p] \in Int
                       /\ acked[p] <= acked'[p] /\ (acked'[p] = acked[p] \/ (acked'[p] = r.n /\ p = r.path))
  <2>1. \A p \in Paths : acked[p] \in Int /\ acked[p] < r.n
    BY <1>3 DEF IInv, WriteInv, NewerThanAcked, Typed
  <2>2. \A p \in Paths : acked'[p] = (IF p = r.path THEN r.n ELSE acked[p])
    BY <1>5 DEF IInv, Typed
  <2> QED BY <1>4, <2>1, <2>2
<1>7. \A u \in Threads : u # t =>
         batch'[u] = batch[u] /\ thread'[u] = thread[u] /\ results'[u] = results[u]
  BY <1>1, CallBackFacts
<1>8. batch'[t] = Tail(b) /\ UNCHANGED <<readQueue, writeQueue, rows, dtor, reads, writes, floor>>
      /\ dtor # "gone" /\ (batch'[t] # << >> <=> thread'[t] \in {"io", "call"})
  BY <1>1, CallBackFacts
<1>9. results' = results
  <2>1. results' = [results EXCEPT ![t] = results[t]]
    BY <1>1 DEF CallBack
  <2> QED BY <2>1 DEF IInv, Typed
<1>10. Typed'
  <2>1. \A u \in Writers : batch'[u] \in Seq(writes)
    BY <1>3, <1>7, <1>8, ThreadSets DEF IInv, Typed
  <2>2. \A u \in Readers : batch'[u] \in Seq(reads)
    BY <1>1, <1>7, ThreadSets DEF IInv, Typed
  <2>3. /\ thread' \in [Threads -> {"top", "lock", "wait", "io", "call", "exit"}]
        /\ batch' \in [Threads -> Seq(ReadRequests \cup WriteRequests)]
    BY <1>1, CallBackFacts
  <2>4. acked' \in [Paths -> Int]
    BY <1>4, <1>5 DEF IInv, Typed
  <2> QED BY <1>8, <1>9, <2>1, <2>2, <2>3, <2>4 DEF IInv, Typed
<1>11. ThreadInv'
  <2>1. \A u \in Threads : batch'[u] # << >> <=> thread'[u] \in {"io", "call"}
    BY <1>7, <1>8 DEF IInv, ThreadInv
  <2>2. \A u \in Readers : Len(results'[u]) = (IF thread'[u] = "call" THEN Len(batch'[u]) ELSE 0)
    BY <1>1, <1>7, ThreadSets DEF IInv, ThreadInv
  <2> QED BY <1>8, <1>9, <2>1, <2>2 DEF IInv, ThreadInv
<1>12. WriteInv'
  <2>1. /\ Increasing(b) /\ NewerThanAcked(b) /\ Increasing(writeQueue) /\ NewerThanAcked(writeQueue)
        /\ \A i \in DOMAIN b, k \in DOMAIN writeQueue : b[i].n < writeQueue[k].n
        /\ \A i \in DOMAIN b : b[i].n <= rows[b[i].path]
    BY <1>2 DEF IInv, WriteInv
  <2>2. /\ \A i \in DOMAIN Tail(b) : i + 1 \in DOMAIN b /\ Tail(b)[i] = b[i + 1] /\ 1 < i + 1 /\ i \in Nat
    BY <1>3
  <2>3. \A i \in DOMAIN Tail(b) : r.n < Tail(b)[i].n
    BY <1>3, <2>1, <2>2 DEF Increasing
  <2>4. \A k \in DOMAIN writeQueue : r.n < writeQueue[k].n
    BY <1>3, <2>1
  <2>5. Increasing(Tail(b))
    <3> SUFFICES ASSUME NEW i \in DOMAIN Tail(b), NEW k \in DOMAIN Tail(b), i < k
                 PROVE  Tail(b)[i].n < Tail(b)[k].n
      BY DEF Increasing
    <3>1. i + 1 < k + 1
      BY <2>2
    <3> QED BY <2>1, <2>2, <3>1 DEF Increasing
  <2>6. \A p \in Paths : \A i \in DOMAIN Tail(b) : acked'[p] < Tail(b)[i].n
    BY <1>6, <2>1, <2>2, <2>3 DEF NewerThanAcked
  <2>7. \A p \in Paths : \A k \in DOMAIN writeQueue : acked'[p] < writeQueue[k].n
    BY <1>6, <2>1, <2>4 DEF NewerThanAcked
  <2>8. \A p \in Paths : acked'[p] <= Cardinality(writes)
    BY <1>3, <1>6 DEF IInv, WriteInv, Numbered
  <2>9. \A w \in Writers : w = t
    BY OneWriter
  <2>10. /\ \A i \in DOMAIN Tail(b), k \in DOMAIN writeQueue : Tail(b)[i].n < writeQueue[k].n
         /\ \A i \in DOMAIN Tail(b) : Tail(b)[i].n <= rows[Tail(b)[i].path]
    BY <2>1, <2>2
  <2> HIDE DEF b
  <2> QED BY <1>8, <2>1, <2>5, <2>6, <2>7, <2>8, <2>9, <2>10 DEF WriteInv, Increasing, NewerThanAcked
<1>13. ReadInv'
  <2>1. ASSUME NEW q \in Seq(reads), FloorInv(q) PROVE FloorInv(q)'
    <3> SUFFICES ASSUME NEW i \in DOMAIN q PROVE floor[q[i].n] <= acked'[q[i].path]
      BY <1>8 DEF FloorInv
    <3>1. q[i] \in ReadRequests
      BY DEF IInv, Typed
    <3>2. q[i].path \in Paths /\ q[i].n \in 1..MaxReads
      BY <3>1, RequestFields
    <3>3. floor[q[i].n] \in Int /\ floor[q[i].n] <= acked[q[i].path]
      BY <2>1, <3>2 DEF IInv, Typed, FloorInv
    <3> QED BY <1>6, <3>2, <3>3
  <2>2. \A u \in Readers : batch'[u] = batch[u] /\ batch[u] \in Seq(reads)
    BY <1>1, <1>7, ThreadSets DEF IInv, Typed
  <2>3. readQueue \in Seq(reads) /\ readQueue' = readQueue
    BY <1>8 DEF IInv, Typed
  <2>4. FloorInv(readQueue)'
    BY <2>1, <2>3 DEF IInv, ReadInv, FloorInv
  <2>5. ASSUME NEW u \in Readers PROVE FloorInv(batch[u])'
    BY <2>1, <2>2 DEF IInv, ReadInv, FloorInv
  <2> QED BY <2>4, <2>5 DEF ReadInv
<1>14. AcknowledgedIsRead'
  <2>1. ASSUME NEW p \in Paths PROVE rows[p] >= acked'[p]
    <3>1. rows[p] >= acked[p] /\ rows[p] \in Int
      BY DEF IInv, AcknowledgedIsRead, Typed
    <3>2. r.n <= rows[r.path]
      BY <1>2, <1>3 DEF IInv, WriteInv
    <3> QED BY <1>4, <1>6, <3>1, <3>2
  <2>2. \A u \in Readers : batch'[u] = batch[u]
    BY <1>1, <1>7, ThreadSets
  <2> QED BY <1>8, <1>9, <2>1, <2>2 DEF IInv, AcknowledgedIsRead
<1> QED BY <1>8, <1>10, <1>11, <1>12, <1>13, <1>14 DEF IInv, Numbered

-----------------------------------------------------------------------------
(* The theorem *)

LEMMA InitHolds ==
  ASSUME Init
  PROVE  IInv
<1>1. \A t \in Threads : batch[t] = << >> /\ results[t] = << >> /\ thread[t] = "top"
  BY DEF Init
<1>2. Typed
  <2>1. \A S : << >> \in Seq(S)
    BY EmptySeq
  <2>2. rows \in [Paths -> Int] /\ acked \in [Paths -> Int] /\ floor \in [1..MaxReads -> Int]
    BY DEF Init, Absent
  <2>3. /\ thread \in [Threads -> {"top", "lock", "wait", "io", "call", "exit"}]
        /\ batch \in [Threads -> Seq(ReadRequests \cup WriteRequests)] /\ results \in [Threads -> Seq(Int)]
    BY <2>1 DEF Init
  <2> QED BY <1>1, <2>1, <2>2, <2>3, ThreadSets DEF Init, Typed
<1>3. Numbered /\ Cardinality(writes) = 0
  BY FS_EmptySet DEF Init, Numbered
<1>4. ThreadInv
  BY <1>1, EmptySeq, ThreadSets DEF Init, ThreadInv
<1>5. \A p \in Paths : acked[p] <= 0 /\ acked[p] = rows[p] /\ rows[p] \in Int
  BY DEF Init, Absent
<1>6. WriteInv
  BY <1>1, <1>3, <1>5, ThreadSets DEF Init, WriteInv, Increasing, NewerThanAcked
<1>7. ReadInv /\ AcknowledgedIsRead
  BY <1>1, <1>5, ThreadSets DEF Init, ReadInv, FloorInv, AcknowledgedIsRead
<1> QED BY <1>2, <1>3, <1>4, <1>6, <1>7 DEF IInv

LEMMA NextKeeps ==
  ASSUME IInv, [Next]_vars
  PROVE  IInv'
<1>1. ASSUME NEW t \in Threads, Test(t) \/ Wait(t) \/ SpuriousWakeup(t) PROVE IInv'
  <2>1. dtor # "gone"
    BY <1>1, ThreadThere DEF Test, Wait, SpuriousWakeup, IInv
  <2>2. SameWork
    BY <1>1, <2>1 DEF Test, Wait, SpuriousWakeup, At, Goto, SameWork, IInv, Typed
  <2> QED BY <1>1, <2>2, MovesKeep DEF Test, Wait, SpuriousWakeup
<1>2. CASE Stop \/ DtorStep
  <2>1. SameWork
    BY <1>2 DEF Stop, DtorStep, NotifyAll, Interrupt, Join, In, SameWork, IInv, Typed, Threads
  <2> QED BY <1>2, <2>1, MovesKeep DEF Stop, DtorStep, NotifyAll, Interrupt, Join
<1>3. CASE UNCHANGED vars
  <2>1. SameWork
    BY <1>3 DEF vars, SameWork, IInv, Typed, ThreadInv
  <2> QED BY <1>3, <2>1, MovesKeep DEF vars
<1> QED BY <1>1, <1>2, <1>3, ThreadSets, GetAsyncKeeps, PutAsyncKeeps, TakeReadsKeeps, TakeWritesKeeps,
           GetBatchKeeps, PutBatchKeeps, ReaderCallBackKeeps, WriterCallBackKeeps
           DEF Next, ReaderStep, WriterStep

LEMMA StorageInvariant == Spec => []IInv
<1>1. Init => IInv
  BY InitHolds
<1>2. IInv /\ [Next]_vars => IInv'
  BY NextKeeps
<1> QED BY <1>1, <1>2, PTL DEF Spec

\* A read requested after the callback of a write of the row has run returns
\* that write or a newer one, whatever readers, writer and destructor do, and no
\* row is ever older than an acknowledged write of it (hbase_storage.cpp).
THEOREM ReadsSeeAcknowledged == Spec => []AcknowledgedIsRead
<1>1. IInv => AcknowledgedIsRead
  BY DEF IInv
<1> QED BY <1>1, StorageInvariant, PTL

-----------------------------------------------------------------------------
(* The threads implement two executors *)

ReadHands  == [t \in Readers |-> batch[t]]
WriteHands == [t \in Writers |-> batch[t]]

LEMMA NoBoth == ReadRequests \cap WriteRequests = {}
BY RequestFields

\* Steps that leave the abstract state of the readers, or of the writer, alone.
LEMMA ReadStutter ==
  ASSUME UNCHANGED <<readQueue, reads>>, dtor' = "gone" <=> dtor = "gone",
         \A t \in Readers : batch'[t] = batch[t],
         called' \cap ReadRequests = called \cap ReadRequests
  PROVE  UNCHANGED ReadExecutor!executorVars
<1>1. ReadHands' = ReadHands
  BY DEF ReadHands
<1> QED BY <1>1 DEF ReadExecutor!executorVars, ReadHands

LEMMA WriteStutter ==
  ASSUME UNCHANGED <<writeQueue, writes>>, dtor' = "gone" <=> dtor = "gone",
         \A t \in Writers : batch'[t] = batch[t],
         called' \cap WriteRequests = called \cap WriteRequests
  PROVE  UNCHANGED WriteExecutor!executorVars
<1>1. WriteHands' = WriteHands
  BY DEF WriteHands
<1> QED BY <1>1 DEF WriteExecutor!executorVars, WriteHands

LEMMA GetAsyncSubmits ==
  ASSUME IInv, NEW p \in Paths, GetAsync(p)
  PROVE  /\ \E r \in ReadRequests : ReadExecutor!Submit(r)
         /\ UNCHANGED WriteExecutor!executorVars
<1> DEFINE r == [op |-> "get", n |-> Cardinality(reads) + 1, path |-> p]
<1>1. Cardinality(reads) \in Nat /\ r \in ReadRequests
  <2>1. Cardinality(reads) \in Nat
    BY FS_CardinalityType DEF IInv, Numbered
  <2>2. Cardinality(reads) + 1 \in 1..MaxReads
    BY <2>1, StorageAssumption DEF GetAsync
  <2> QED BY <2>1, <2>2, RequestFields
<1>2. r \notin reads
  BY <1>1, RequestFields DEF IInv, Numbered, Typed
<1>3. /\ readQueue' = Append(readQueue, r) /\ reads' = reads \cup {r}
      /\ UNCHANGED <<batch, dtor, called, writeQueue, writes>>
  BY DEF GetAsync
<1>4. dtor # "gone"
  BY CallsBeforeGone DEF GetAsync
<1> HIDE DEF r
<1>5. ReadRequests \ reads' = (ReadRequests \ reads) \ {r}
  BY <1>3
<1>6. ReadHands' = ReadHands
  BY <1>3 DEF ReadHands
<1>7. ReadExecutor!Submit(r)
  BY <1>1, <1>2, <1>3, <1>4, <1>5, <1>6 DEF ReadExecutor!Submit, ReadHands
<1>8. UNCHANGED WriteExecutor!executorVars
  BY <1>3, WriteStutter
<1> QED BY <1>1, <1>7, <1>8

LEMMA PutAsyncSubmits ==
  ASSUME IInv, NEW p \in Paths, PutAsync(p)
  PROVE  /\ \E w \in WriteRequests : WriteExecutor!Submit(w)
         /\ UNCHANGED ReadExecutor!executorVars
<1> DEFINE w == [op |-> "put", n |-> Cardinality(writes) + 1, path |-> p]
<1>1. Cardinality(writes) \in Nat /\ w \in WriteRequests
  <2>1. Cardinality(writes) \in Nat
    BY FS_CardinalityType DEF IInv, Numbered
  <2>2. Cardinality(writes) + 1 \in 1..MaxWrites
    BY <2>1, StorageAssumption DEF PutAsync
  <2> QED BY <2>1, <2>2, RequestFields
<1>2. w \notin writes
  BY <1>1, RequestFields DEF IInv, Numbered, Typed
<1>3. /\ writeQueue' = Append(writeQueue, w) /\ writes' = writes \cup {w}
      /\ UNCHANGED <<batch, dtor, called, readQueue, reads>>
  BY DEF PutAsync
<1>4. dtor # "gone"
  BY CallsBeforeGone DEF PutAsync
<1> HIDE DEF w
<1>5. WriteRequests \ writes' = (WriteRequests \ writes) \ {w}
  BY <1>3
<1>6. WriteHands' = WriteHands
  BY <1>3 DEF WriteHands
<1>7. WriteExecutor!Submit(w)
  BY <1>1, <1>2, <1>3, <1>4, <1>5, <1>6 DEF WriteExecutor!Submit, WriteHands
<1>8. UNCHANGED ReadExecutor!executorVars
  BY <1>3, ReadStutter
<1> QED BY <1>1, <1>7, <1>8

LEMMA TakeReadsTakes ==
  ASSUME IInv, NEW t \in Readers, TakeReads(t)
  PROVE  /\ \E n \in 1..Len(readQueue) : ReadExecutor!Take(t, n)
         /\ UNCHANGED WriteExecutor!executorVars
<1>1. t \in Threads /\ t \notin Writers /\ dtor # "gone" /\ batch[t] = << >>
      /\ readQueue \in Seq(reads) /\ readQueue # << >> /\ ReadBatch \in Nat \ {0}
  <2>1. t \in Threads /\ t \notin Writers
    BY ThreadSets
  <2> QED BY <2>1, ThreadThere, StorageAssumption DEF TakeReads, At, IInv, ThreadInv, Typed
<1> DEFINE b == Taken(readQueue, ReadBatch).batch
           q == Taken(readQueue, ReadBatch).rest
<1>2. /\ batch' = [batch EXCEPT ![t] = b] /\ readQueue' = q
      /\ UNCHANGED <<writeQueue, dtor, reads, writes, called>>
  BY DEF TakeReads, historyVars
<1>3. Split(reads, readQueue, b, q)
  BY <1>1, TakenFacts
<1> HIDE DEF b, q
<1>4. PICK n \in 1..Len(readQueue) : b = SubSeq(readQueue, 1, n) /\ q = SubSeq(readQueue, n + 1, Len(readQueue))
  BY <1>3 DEF Split
<1>5. ReadHands' = [ReadHands EXCEPT ![t] = b] /\ ReadHands[t] = << >>
  BY <1>1, <1>2, ThreadSets DEF ReadHands, IInv, Typed
<1>6. ReadExecutor!Take(t, n)
  BY <1>1, <1>2, <1>4, <1>5 DEF ReadExecutor!Take, ReadHands
<1>7. UNCHANGED WriteExecutor!executorVars
  <2>1. \A w \in Writers : batch'[w] = batch[w]
    BY <1>1, <1>2, ThreadSets DEF IInv, Typed
  <2> QED BY <1>2, <2>1, WriteStutter
<1> QED BY <1>6, <1>7

LEMMA TakeWritesTakes ==
  ASSUME IInv, NEW t \in Writers, TakeWrites(t)
  PROVE  /\ \E n \in 1..Len(writeQueue) : WriteExecutor!Take(t, n)
         /\ UNCHANGED ReadExecutor!executorVars
<1>1. t \in Threads /\ t \notin Readers /\ dtor # "gone" /\ batch[t] = << >>
      /\ writeQueue \in Seq(writes) /\ writeQueue # << >> /\ WriteBatch \in Nat \ {0}
  <2>1. t \in Threads /\ t \notin Readers
    BY ThreadSets
  <2> QED BY <2>1, ThreadThere, StorageAssumption DEF TakeWrites, At, IInv, ThreadInv, Typed
<1> DEFINE b == Taken(writeQueue, WriteBatch).batch
           q == Taken(writeQueue, WriteBatch).rest
<1>2. /\ batch' = [batch EXCEPT ![t] = b] /\ writeQueue' = q
      /\ UNCHANGED <<readQueue, dtor, reads, writes, called>>
  BY DEF TakeWrites, historyVars
<1>3. Split(writes, writeQueue, b, q)
  BY <1>1, TakenFacts
<1> HIDE DEF b, q
<1>4. PICK n \in 1..Len(writeQueue) : b = SubSeq(writeQueue, 1, n) /\ q = SubSeq(writeQueue, n + 1, Len(writeQueue))
  BY <1>3 DEF Split
<1>5. WriteHands' = [WriteHands EXCEPT ![t] = b] /\ WriteHands[t] = << >>
  BY <1>1, <1>2, ThreadSets DEF WriteHands, IInv, Typed
<1>6. WriteExecutor!Take(t, n)
  BY <1>1, <1>2, <1>4, <1>5 DEF WriteExecutor!Take, WriteHands
<1>7. UNCHANGED ReadExecutor!executorVars
  <2>1. \A u \in Readers : batch'[u] = batch[u]
    BY <1>1, <1>2, ThreadSets DEF IInv, Typed
  <2> QED BY <1>2, <2>1, ReadStutter
<1> QED BY <1>6, <1>7

\* getBatch either drops a batch of missing rows, or changes no request.
LEMMA GetBatchDrops ==
  ASSUME IInv, NEW t \in Readers, GetBatch(t)
  PROVE  /\ DropsMissing \/ UNCHANGED ReadExecutor!executorVars
         /\ UNCHANGED WriteExecutor!executorVars
<1>1. t \in Threads /\ t \notin Writers /\ batch[t] # << >>
  BY ThreadSets DEF GetBatch, At, IInv, ThreadInv
<1>2. UNCHANGED <<readQueue, writeQueue, dtor, reads, writes, called>>
  BY DEF GetBatch, historyVars, queueVars
<1>3. \/ /\ batch' = [batch EXCEPT ![t] = << >>]
         /\ \A i \in DOMAIN batch[t] : rows[batch[t][i].path] = Absent
      \/ UNCHANGED batch
  BY DEF GetBatch
<1>4. DropsMissing \/ UNCHANGED ReadExecutor!executorVars
  BY <1>1, <1>2, <1>3, ReadStutter DEF DropsMissing
<1>5. \A w \in Writers : batch'[w] = batch[w]
  BY <1>1, <1>3, ThreadSets DEF IInv, Typed
<1> QED BY <1>2, <1>4, <1>5, WriteStutter

LEMMA ReaderCompletes ==
  ASSUME IInv, NEW t \in Readers, CallBack(t)
  PROVE  ReadExecutor!Complete(t) /\ UNCHANGED WriteExecutor!executorVars
<1>1. t \in Threads /\ t \notin Writers /\ batch[t] \in Seq(reads)
  BY ThreadSets DEF IInv, Typed
<1>2. /\ dtor # "gone" /\ batch[t] # << >> /\ batch' = [batch EXCEPT ![t] = Tail(batch[t])]
      /\ \A u \in Threads : u # t => batch'[u] = batch[u]
      /\ UNCHANGED <<readQueue, writeQueue, dtor, reads, writes>>
  BY <1>1, CallBackFacts
<1>3. called' = called \cup {Head(batch[t])} /\ Head(batch[t]) \in ReadRequests
  BY <1>1, <1>2, TailFacts DEF CallBack, IInv, Typed
<1>4. /\ called' \cap ReadRequests = (called \cap ReadRequests) \cup {Head(batch[t])}
      /\ called' \cap WriteRequests = called \cap WriteRequests
  BY <1>3, NoBoth
<1>5. ReadHands' = [ReadHands EXCEPT ![t] = Tail(ReadHands[t])] /\ ReadHands[t] = batch[t]
  BY <1>1, <1>2, ThreadSets DEF ReadHands, IInv, Typed
<1>6. ReadExecutor!Complete(t)
  BY <1>2, <1>4, <1>5 DEF ReadExecutor!Complete, ReadHands
<1>7. \A w \in Writers : batch'[w] = batch[w]
  BY <1>1, <1>2, ThreadSets
<1> QED BY <1>2, <1>4, <1>6, <1>7, WriteStutter

LEMMA WriterCompletes ==
  ASSUME IInv, NEW t \in Writers, CallBack(t)
  PROVE  WriteExecutor!Complete(t) /\ UNCHANGED ReadExecutor!executorVars
<1>1. t \in Threads /\ t \notin Readers /\ batch[t] \in Seq(writes)
  BY ThreadSets DEF IInv, Typed
<1>2. /\ dtor # "gone" /\ batch[t] # << >> /\ batch' = [batch EXCEPT ![t] = Tail(batch[t])]
      /\ \A u \in Threads : u # t => batch'[u] = batch[u]
      /\ UNCHANGED <<readQueue, writeQueue, dtor, reads, writes>>
  BY <1>1, CallBackFacts
<1>3. called' = called \cup {Head(batch[t])} /\ Head(batch[t]) \in WriteRequests
  BY <1>1, <1>2, TailFacts DEF CallBack, IInv, Typed
<1>4. /\ called' \cap WriteRequests = (called \cap WriteRequests) \cup {Head(batch[t])}
      /\ called' \cap ReadRequests = called \cap ReadRequests
  BY <1>3, NoBoth
<1>5. WriteHands' = [WriteHands EXCEPT ![t] = Tail(WriteHands[t])] /\ WriteHands[t] = batch[t]
  BY <1>1, <1>2, ThreadSets DEF WriteHands, IInv, Typed
<1>6. WriteExecutor!Complete(t)
  BY <1>2, <1>4, <1>5 DEF WriteExecutor!Complete, WriteHands
<1>7. \A u \in Readers : batch'[u] = batch[u]
  BY <1>1, <1>2, ThreadSets
<1> QED BY <1>2, <1>4, <1>6, <1>7, ReadStutter

LEMMA JoinCloses ==
  ASSUME IInv, Join
  PROVE  ReadExecutor!Close /\ WriteExecutor!Close
<1>1. \A t \in Threads : batch[t] = << >>
  BY DEF Join, In, IInv, ThreadInv
<1>2. \A t \in Readers : ReadHands[t] = << >>
  BY <1>1, ThreadSets DEF ReadHands
<1>3. \A t \in Writers : WriteHands[t] = << >>
  BY <1>1, ThreadSets DEF WriteHands
<1>4. ReadHands' = ReadHands /\ WriteHands' = WriteHands
  BY DEF Join, ReadHands, WriteHands
<1>5. UNCHANGED <<readQueue, writeQueue, reads, writes, called>> /\ dtor # "gone" /\ dtor' = "gone"
  BY DEF Join, queueVars, historyVars
<1> QED BY <1>2, <1>3, <1>4, <1>5 DEF ReadExecutor!Close, WriteExecutor!Close, ReadHands, WriteHands

LEMMA ExecutorInit ==
  ASSUME Init
  PROVE  ReadExecutor!Init /\ WriteExecutor!Init
<1>1. \A t \in Threads : batch[t] = << >>
  BY DEF Init
<1>2. ReadHands = [t \in Readers |-> << >>] /\ WriteHands = [t \in Writers |-> << >>]
  BY <1>1, ThreadSets DEF ReadHands, WriteHands
<1>3. /\ readQueue = << >> /\ writeQueue = << >> /\ reads = {} /\ writes = {} /\ called = {}
      /\ dtor # "gone"
  BY DEF Init
<1>4. /\ ReadRequests \ reads = ReadRequests /\ called \cap ReadRequests = {}
      /\ WriteRequests \ writes = WriteRequests /\ called \cap WriteRequests = {}
  BY <1>3
<1> QED BY <1>2, <1>3, <1>4 DEF ReadExecutor!Init, WriteExecutor!Init, ReadHands, WriteHands

LEMMA ExecutorNext ==
  ASSUME IInv, [Next]_vars
  PROVE  /\ ReadExecutor!Next \/ DropsMissing \/ UNCHANGED ReadExecutor!executorVars
         /\ WriteExecutor!Next \/ UNCHANGED WriteExecutor!executorVars
<1>1. ASSUME NEW p \in Paths, GetAsync(p) \/ PutAsync(p)
      PROVE  \/ ReadExecutor!Next /\ UNCHANGED WriteExecutor!executorVars
             \/ WriteExecutor!Next /\ UNCHANGED ReadExecutor!executorVars
  BY <1>1, GetAsyncSubmits, PutAsyncSubmits DEF ReadExecutor!Next, WriteExecutor!Next
<1>2. ASSUME NEW t \in Readers, TakeReads(t) \/ CallBack(t)
      PROVE  ReadExecutor!Next /\ UNCHANGED WriteExecutor!executorVars
  BY <1>2, TakeReadsTakes, ReaderCompletes DEF ReadExecutor!Next
<1>3. ASSUME NEW t \in Writers, TakeWrites(t) \/ CallBack(t)
      PROVE  WriteExecutor!Next /\ UNCHANGED ReadExecutor!executorVars
  BY <1>3, TakeWritesTakes, WriterCompletes DEF WriteExecutor!Next
<1>4. ASSUME NEW t \in Readers, GetBatch(t)
      PROVE  /\ DropsMissing \/ UNCHANGED ReadExecutor!executorVars
             /\ UNCHANGED WriteExecutor!executorVars
  BY <1>4, GetBatchDrops
<1>5. CASE Join
  BY <1>5, JoinCloses DEF ReadExecutor!Next, WriteExecutor!Next
<1>6. ASSUME \/ \E t \in Threads : Test(t) \/ Wait(t) \/ SpuriousWakeup(t)
             \/ \E t \in Writers : PutBatch(t)
             \/ Stop \/ NotifyAll \/ Interrupt \/ UNCHANGED vars
      PROVE  UNCHANGED ReadExecutor!executorVars /\ UNCHANGED WriteExecutor!executorVars
  <2>1. UNCHANGED <<readQueue, writeQueue, reads, writes, called, batch>> /\ (dtor' = "gone" <=> dtor = "gone")
    BY <1>6 DEF Test, Wait, SpuriousWakeup, PutBatch, Stop, NotifyAll, Interrupt, vars, queueVars, historyVars
  <2> QED BY <2>1, ReadStutter, WriteStutter
<1> QED BY <1>1, <1>2, <1>3, <1>4, <1>5, <1>6, ThreadSets DEF Next, ReaderStep, WriterStep, DtorStep

\* The readers start requests in the order of the getAsync calls, each by one of
\* them, run every callback once and in order, drop only batches of missing rows,
\* and do nothing once the destructor has returned; the writer does the same for
\* putAsync and drops nothing: both implement the executor the tree relies on.
THEOREM StorageImplementsExecutors == Spec => ThreadsImplementExecutor
<1>1. Init => ReadExecutor!Init /\ WriteExecutor!Init
  BY ExecutorInit
<1>2. IInv /\ [Next]_vars =>
        /\ [ReadExecutor!Next \/ DropsMissing]_(ReadExecutor!executorVars)
        /\ [WriteExecutor!Next]_(WriteExecutor!executorVars)
  BY ExecutorNext
<1> QED BY <1>1, <1>2, StorageInvariant, PTL DEF Spec, ThreadsImplementExecutor, WriteExecutor!Spec
=============================================================================
