---------------------------- MODULE HbaseStorage ----------------------------
(***************************************************************************)
(* The HBase back end of a tree (megatree_storage/src/hbase_storage.cpp):  *)
(* reader and writer threads that take batches from two queues, submit     *)
(* them to HBase and run the callbacks, and the destructor that stops them *)
(* while they may be anywhere.                                             *)
(*                                                                         *)
(* The two queue mutexes are held only between waits, so a critical        *)
(* section is one step; a thread at "lock" is about to take the mutex and  *)
(* test its queue.  async_thread_keep_running is read and written without  *)
(* a lock.  HBase itself is external: getRows returns the rows that exist, *)
(* mutateRows applies its mutations in order.  The value of a row is the   *)
(* number of the write that produced it.                                   *)
(***************************************************************************)
EXTENDS Integers, Sequences, FiniteSets, SequencesExt

CONSTANTS
  Readers, Writers,       \* threads; the code has ten readers and one writer
  Paths,                  \* rows of the table
  Stored,                 \* rows that exist when the storage is opened
  ReadBatch, WriteBatch,  \* ASYNC_READ_BATCH_SIZE, ASYNC_WRITE_BATCH_SIZE
  MaxReads, MaxWrites     \* bounds: calls of getAsync and of putAsync

ASSUME StorageAssumption ==
  /\ Readers \cap Writers = {} /\ Stored \subseteq Paths
  /\ ReadBatch \in Nat \ {0} /\ WriteBatch \in Nat \ {0}
  /\ MaxReads \in Nat /\ MaxWrites \in Nat

\* NUM_WRITER_THREADS is 1.
ASSUME OneWriter == \A w1, w2 \in Writers : w1 = w2

VARIABLES
  keepRunning,  \* async_thread_keep_running
  readQueue,    \* read_queue, front first
  writeQueue,   \* write_queue, front first
  thread,       \* where each thread is: "top", "lock", "wait", "io", "call" or "exit"
  batch,        \* paths and callbacks a thread has taken and not finished
  results,      \* what getBatch has returned to a reader, for its batch
  interrupted,  \* threads with an interruption requested
  rows,         \* the table: the value of each row, or Absent
  dtor,         \* where the destructor is
  aborted,      \* getBatch has called abort()
  reads,        \* history: calls of getAsync
  writes,       \* history: calls of putAsync
  floor,        \* history: the value each read must at least return
  acked,        \* history: the newest write of a row whose callback has run
  called        \* history: requests whose callback has run

queueVars   == <<readQueue, writeQueue>>
historyVars == <<reads, writes, floor, acked, called>>
vars == <<keepRunning, queueVars, thread, batch, results, interrupted, rows,
          dtor, aborted, historyVars>>

Threads == Readers \cup Writers
Absent  == -1

ReadRequests  == [op : {"get"}, n : 1..MaxReads,  path : Paths]
WriteRequests == [op : {"put"}, n : 1..MaxWrites, path : Paths]

In(S, s)   == {t \in S : thread[t] = s}
At(t, s)   == thread[t] = s /\ ~aborted
Goto(t, s) == thread' = [thread EXCEPT ![t] = s]

Init ==
  /\ keepRunning = TRUE /\ readQueue = << >> /\ writeQueue = << >>
  /\ thread = [t \in Threads |-> "top"]
  /\ batch = [t \in Threads |-> << >>] /\ results = [t \in Threads |-> << >>]
  /\ interrupted = {} /\ dtor = "alive" /\ aborted = FALSE
  /\ rows = [p \in Paths |-> IF p \in Stored THEN 0 ELSE Absent]
  /\ reads = {} /\ writes = {} /\ called = {}
  /\ floor = [n \in 1..MaxReads |-> Absent] /\ acked = rows

-----------------------------------------------------------------------------
(* The calls of the tree *)

\* Fault: the notification is left out.
NotifyNobody(S) == UNCHANGED thread

\* notify_one() on the condition that the threads S wait for.
NotifyOne(S) ==
  \/ \E t \in In(S, "wait") : Goto(t, "lock")
  \/ In(S, "wait") = {} /\ UNCHANGED thread

\* The owner calls until it destroys the storage, a callback also afterwards.
MayCall == ~aborted /\ (dtor = "alive" \/ In(Threads, "call") # {})

GetAsync(p) ==
  /\ MayCall /\ Cardinality(reads) < MaxReads
  /\ LET r == [op |-> "get", n |-> Cardinality(reads) + 1, path |-> p]
     IN /\ readQueue' = Append(readQueue, r)
        /\ reads' = reads \cup {r}
        /\ floor' = [floor EXCEPT ![r.n] = acked[p]]
  /\ NotifyOne(Readers)
  /\ UNCHANGED <<keepRunning, writeQueue, batch, results, interrupted, rows,
                 dtor, aborted, writes, acked, called>>

PutAsync(p) ==
  /\ MayCall /\ Cardinality(writes) < MaxWrites
  /\ LET w == [op |-> "put", n |-> Cardinality(writes) + 1, path |-> p]
     IN /\ writeQueue' = Append(writeQueue, w)
        /\ writes' = writes \cup {w}
  /\ NotifyOne(Writers)
  /\ UNCHANGED <<keepRunning, readQueue, batch, results, interrupted, rows,
                 dtor, aborted, reads, floor, acked, called>>

-----------------------------------------------------------------------------
(* asyncReadThread and asyncWriteThread *)

\* while (async_thread_keep_running)
Test(t) ==
  /\ At(t, "top")
  /\ Goto(t, IF keepRunning THEN "lock" ELSE "exit")
  /\ UNCHANGED <<keepRunning, queueVars, batch, results, interrupted, rows,
                 dtor, aborted, historyVars>>

\* The queue is empty: wait, or leave by thread_interrupted.
Wait(t) ==
  /\ At(t, "lock")
  /\ (IF t \in Readers THEN readQueue ELSE writeQueue) = << >>
  /\ Goto(t, IF t \in interrupted THEN "exit" ELSE "wait")
  /\ UNCHANGED <<keepRunning, queueVars, batch, results, interrupted, rows,
                 dtor, aborted, historyVars>>

\* wait() may return without a notification.
SpuriousWakeup(t) ==
  /\ At(t, "wait")
  /\ Goto(t, "lock")
  /\ UNCHANGED <<keepRunning, queueVars, batch, results, interrupted, rows,
                 dtor, aborted, historyVars>>

\* Fault: a batch is taken from the back of the queue, newest request first.
TakenFromBack(q, max) ==
  LET n == IF Len(q) < max THEN Len(q) ELSE max
  IN [batch |-> Reverse(SubSeq(q, Len(q) - n + 1, Len(q))),
      rest  |-> SubSeq(q, 1, Len(q) - n)]

\* A batch: at most max requests from the front of the queue.
Taken(q, max) ==
  LET n == IF Len(q) < max THEN Len(q) ELSE max
  IN [batch |-> SubSeq(q, 1, n), rest |-> SubSeq(q, n + 1, Len(q))]

TakeReads(t) ==
  /\ At(t, "lock") /\ readQueue # << >>
  /\ batch' = [batch EXCEPT ![t] = Taken(readQueue, ReadBatch).batch]
  /\ readQueue' = Taken(readQueue, ReadBatch).rest
  /\ Goto(t, "io")
  /\ UNCHANGED <<keepRunning, writeQueue, results, interrupted, rows, dtor,
                 aborted, historyVars>>

TakeWrites(t) ==
  /\ At(t, "lock") /\ writeQueue # << >>
  /\ batch' = [batch EXCEPT ![t] = Taken(writeQueue, WriteBatch).batch]
  /\ writeQueue' = Taken(writeQueue, WriteBatch).rest
  /\ Goto(t, "io")
  /\ UNCHANGED <<keepRunning, readQueue, results, interrupted, rows, dtor,
                 aborted, historyVars>>

\* getBatch: when HBase knows none of the rows the results are cleared, and
\* with them go the callbacks; when it knows some of them, abort().
GetBatch(t) ==
  /\ At(t, "io")
  /\ LET found == {i \in DOMAIN batch[t] : rows[batch[t][i].path] # Absent}
     IN \/ /\ found = {}
           /\ Goto(t, "top")
           /\ batch' = [batch EXCEPT ![t] = << >>]
           /\ UNCHANGED <<results, aborted>>
        \/ /\ found = DOMAIN batch[t]
           /\ Goto(t, "call")
           /\ results' = [results EXCEPT ![t] =
                            [i \in found |-> rows[batch[t][i].path]]]
           /\ UNCHANGED <<batch, aborted>>
        \/ /\ found # {} /\ found # DOMAIN batch[t]
           /\ aborted' = TRUE
           /\ UNCHANGED <<thread, batch, results>>
  /\ UNCHANGED <<keepRunning, queueVars, interrupted, rows, dtor, historyVars>>

\* The last mutation of a row in a batch, or the row as it is.
Mutated(p, b) ==
  LET muts == {i \in DOMAIN b : b[i].path = p}
  IN IF muts = {} THEN rows[p]
     ELSE b[CHOOSE i \in muts : \A j \in muts : j <= i].n

\* Fault: the mutations are not submitted.
PutBatchLost(t) ==
  /\ At(t, "io")
  /\ Goto(t, "call")
  /\ UNCHANGED <<keepRunning, queueVars, batch, results, interrupted, rows, dtor,
                 aborted, historyVars>>

PutBatch(t) ==
  /\ At(t, "io")
  /\ rows' = [p \in Paths |-> Mutated(p, batch[t])]
  /\ Goto(t, "call")
  /\ UNCHANGED <<keepRunning, queueVars, batch, results, interrupted, dtor,
                 aborted, historyVars>>

\* callbacks[i](results[i]); after the last one the loop starts again.
CallBack(t) ==
  /\ At(t, "call")
  /\ LET r == Head(batch[t]) IN
       /\ called' = called \cup {r}
       /\ acked' = IF r.op = "put" /\ r.n > acked[r.path]
                   THEN [acked EXCEPT ![r.path] = r.n] ELSE acked
  /\ batch' = [batch EXCEPT ![t] = Tail(@)]
  /\ results' = [results EXCEPT ![t] = IF @ = << >> THEN @ ELSE Tail(@)]
  /\ Goto(t, IF Len(batch[t]) = 1 THEN "top" ELSE "call")
  /\ UNCHANGED <<keepRunning, queueVars, interrupted, rows, dtor, aborted,
                 reads, writes, floor>>

-----------------------------------------------------------------------------
(* ~HbaseStorage *)

\* Without a lock: a thread may have tested the flag and not wait yet.
Stop ==
  /\ ~aborted /\ dtor = "alive"
  /\ keepRunning' = FALSE /\ dtor' = "notify"
  /\ UNCHANGED <<queueVars, thread, batch, results, interrupted, rows, aborted,
                 historyVars>>

\* Woken threads find their queue empty and wait again.
NotifyAll ==
  /\ ~aborted /\ dtor = "notify"
  /\ thread' = [t \in Threads |-> IF thread[t] = "wait" THEN "lock"
                                                        ELSE thread[t]]
  /\ dtor' = "interrupt"
  /\ UNCHANGED <<keepRunning, queueVars, batch, results, interrupted, rows,
                 aborted, historyVars>>

\* Fault: the threads are joined without having been interrupted.
InterruptNobody ==
  /\ ~aborted /\ dtor = "interrupt"
  /\ dtor' = "join"
  /\ UNCHANGED <<keepRunning, queueVars, thread, batch, results, interrupted,
                 rows, aborted, historyVars>>

\* interrupt() on every thread, with both mutexes held: a waiting thread leaves
\* its wait by thread_interrupted, another one will at its next wait.
Interrupt ==
  /\ ~aborted /\ dtor = "interrupt"
  /\ interrupted' = Threads
  /\ thread' = [t \in Threads |-> IF thread[t] = "wait" THEN "exit"
                                                        ELSE thread[t]]
  /\ dtor' = "join"
  /\ UNCHANGED <<keepRunning, queueVars, batch, results, rows, aborted,
                 historyVars>>

Join ==
  /\ ~aborted /\ dtor = "join" /\ In(Threads, "exit") = Threads
  /\ dtor' = "gone"
  /\ UNCHANGED <<keepRunning, queueVars, thread, batch, results, interrupted,
                 rows, aborted, historyVars>>

-----------------------------------------------------------------------------
ReaderStep(t) == Test(t) \/ Wait(t) \/ TakeReads(t) \/ GetBatch(t) \/ CallBack(t)
WriterStep(t) == Test(t) \/ Wait(t) \/ TakeWrites(t) \/ PutBatch(t) \/ CallBack(t)
DtorStep == NotifyAll \/ Interrupt \/ Join

Next ==
  \/ \E p \in Paths : GetAsync(p) \/ PutAsync(p)
  \/ \E t \in Readers : ReaderStep(t)
  \/ \E t \in Writers : WriterStep(t)
  \/ \E t \in Threads : SpuriousWakeup(t)
  \/ Stop \/ DtorStep

Spec == Init /\ [][Next]_vars

\* Threads that can run do run, HBase answers and callbacks return; a
\* destructor that has begun goes on.
FairSpec ==
  /\ Spec
  /\ \A t \in Readers : WF_vars(ReaderStep(t))
  /\ \A t \in Writers : WF_vars(WriterStep(t))
  /\ WF_vars(DtorStep)

-----------------------------------------------------------------------------
(* Properties *)

\* The readers as an executor, and the writers.
ReadExecutor ==
  INSTANCE AsyncExecutor WITH
    Requests <- ReadRequests, Workers <- Readers,
    fresh <- ReadRequests \ reads, pending <- readQueue,
    hands <- [t \in Readers |-> batch[t]],
    done <- called \cap ReadRequests, closed <- dtor = "gone"

WriteExecutor ==
  INSTANCE AsyncExecutor WITH
    Requests <- WriteRequests, Workers <- Writers,
    fresh <- WriteRequests \ writes, pending <- writeQueue,
    hands <- [t \in Writers |-> batch[t]],
    done <- called \cap WriteRequests, closed <- dtor = "gone"

\* A reader finishes a batch without running its callbacks: no row of it exists.
DropsMissing ==
  \E t \in Readers :
    /\ batch[t] # << >> /\ batch' = [batch EXCEPT ![t] = << >>]
    /\ \A i \in DOMAIN batch[t] : rows[batch[t][i].path] = Absent
    /\ UNCHANGED <<readQueue, reads, called, dtor>>

\* asyncReadThread starts requests in the order of the getAsync calls, runs
\* every callback once and in order, and none after the destructor; only a
\* batch without an existing row is finished unanswered.  asyncWriteThread does
\* the same for putAsync, and drops nothing.
ThreadsImplementExecutor ==
  /\ ReadExecutor!Init
  /\ [][ReadExecutor!Next \/ DropsMissing]_(ReadExecutor!executorVars)
  /\ WriteExecutor!Spec

\* putAsync calls for one row take effect in their order: a row is never older
\* than a write of it whose callback has run.  Readers and writers share nothing
\* but the table, yet a read requested after the callback of a write returns
\* that write or a newer one.
AcknowledgedIsRead ==
  /\ \A p \in Paths : rows[p] >= acked[p]
  /\ \A t \in Readers : \A i \in DOMAIN results[t] :
       results[t][i] >= floor[batch[t][i].n]

\* Requests whose caller waits for an answer: the writes, and the reads of rows
\* that existed when getAsync was called.
Unanswered == (writes \cup {r \in reads : floor[r.n] # Absent}) \ called

\* The callback of every such request runs, unless the storage is destroyed or
\* a row of the same batch is missing, which aborts the process (getBatch): no
\* notification of getAsync and putAsync is lost, and the callers (sendResult of
\* the server, the callbacks of the tree) are called.
RequestsAnswered ==
  Unanswered # {} ~> Unanswered = {} \/ ~keepRunning \/ aborted

\* The destructor joins every thread, wherever it was when the flag changed.
DestructorReturns == dtor = "notify" ~> dtor = "gone" \/ aborted
=============================================================================
