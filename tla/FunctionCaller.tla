--------------------------- MODULE FunctionCaller ---------------------------
(***************************************************************************)
(* The thread pool of DiskStorage (megatree_core, function_caller.h).      *)
(*                                                                         *)
(* The mutex is held only between waits, so everything a thread does while *)
(* it holds the mutex is one step.  A thread that was notified is a thread *)
(* about to take the mutex ("check"): the loop of threadLoop tests the     *)
(* queue again after every wait, so where it came from does not matter.    *)
(***************************************************************************)
EXTENDS Integers, Sequences, FiniteSets, SequencesExt

CONSTANTS
  Threads,    \* the pool
  Functions,  \* bound: the functions that may be added, each once
  NoFunction  \* the empty boost::function

ASSUME PoolAssumption ==
  NoFunction \notin Functions /\ IsFiniteSet(Threads) /\ Threads # {}

VARIABLES
  running,   \* running
  queue,     \* queue, the std::list, front first
  thread,    \* where each thread is in threadLoop
  func,      \* the local f of each thread
  dtor,      \* where the destructor is
  fresh,     \* history: functions not added yet
  called     \* history: functions whose call has returned

vars == <<running, queue, thread, func, dtor, fresh, called>>

ThreadStates == {"check", "wait", "call", "exit"}
In(s) == {t \in Threads : thread[t] = s}

\* FunctionCaller(thread_pool_size): every thread is on its way to the mutex.
Init ==
  /\ running = TRUE /\ queue = << >>
  /\ thread = [t \in Threads |-> "check"]
  /\ func = [t \in Threads |-> NoFunction]
  /\ dtor = "alive" /\ fresh = Functions /\ called = {}

\* Fault: the notification is left out.
NotifyNobody == UNCHANGED thread

\* condition.notify_one(): any one of the waiting threads wakes up.
NotifyOne ==
  \/ \E t \in In("wait") : thread' = [thread EXCEPT ![t] = "check"]
  \/ In("wait") = {} /\ UNCHANGED thread

\* condition.notify_all().
NotifyAll ==
  thread' = [t \in Threads |-> IF thread[t] = "wait" THEN "check" ELSE thread[t]]

\* addFunction, called by the owner of the pool or, from a callback, by a
\* function of the pool; the latter also while the destructor joins.
AddFunction(f) ==
  /\ f \in fresh
  /\ dtor = "alive" \/ In("call") # {}
  /\ queue' = Cons(f, queue)
  /\ NotifyOne
  /\ fresh' = fresh \ {f}
  /\ UNCHANGED <<running, func, dtor, called>>

\* The queue is empty: wait.
Wait(t) ==
  /\ thread[t] = "check" /\ queue = << >> /\ running
  /\ thread' = [thread EXCEPT ![t] = "wait"]
  /\ UNCHANGED <<running, queue, func, dtor, fresh, called>>

\* Both tests of running: the thread returns whatever is queued.
Exit(t) ==
  /\ thread[t] = "check" /\ ~running
  /\ thread' = [thread EXCEPT ![t] = "exit"]
  /\ UNCHANGED <<running, queue, func, dtor, fresh, called>>

\* Fault: the function added last is taken first.
TakeNewest(t) ==
  /\ thread[t] = "check" /\ queue # << >> /\ running
  /\ func' = [func EXCEPT ![t] = Head(queue)]
  /\ queue' = Tail(queue)
  /\ thread' = [thread EXCEPT ![t] = "call"]
  /\ UNCHANGED <<running, dtor, fresh, called>>

\* queue.back() and pop_back(), then the mutex is released.
Take(t) ==
  /\ thread[t] = "check" /\ queue # << >> /\ running
  /\ func' = [func EXCEPT ![t] = Last(queue)]
  /\ queue' = Front(queue)
  /\ thread' = [thread EXCEPT ![t] = "call"]
  /\ UNCHANGED <<running, dtor, fresh, called>>

\* f() returns; the next iteration has a new f.
Return(t) ==
  /\ thread[t] = "call"
  /\ called' = called \cup {func[t]}
  /\ func' = [func EXCEPT ![t] = NoFunction]
  /\ thread' = [thread EXCEPT ![t] = "check"]
  /\ UNCHANGED <<running, queue, dtor, fresh>>

\* condition.wait may return without a notification.
SpuriousWakeup(t) ==
  /\ thread[t] = "wait"
  /\ thread' = [thread EXCEPT ![t] = "check"]
  /\ UNCHANGED <<running, queue, func, dtor, fresh, called>>

\* ~FunctionCaller: stop the threads, then join them.
Destroy ==
  /\ dtor = "alive"
  /\ dtor' = "join" /\ running' = FALSE
  /\ NotifyAll
  /\ UNCHANGED <<queue, func, fresh, called>>

Join ==
  /\ dtor = "join" /\ In("exit") = Threads
  /\ dtor' = "gone"
  /\ UNCHANGED <<running, queue, thread, func, fresh, called>>

ThreadStep(t) == Wait(t) \/ Exit(t) \/ Take(t) \/ Return(t)

Next ==
  \/ \E f \in Functions : AddFunction(f)
  \/ \E t \in Threads : ThreadStep(t) \/ SpuriousWakeup(t)
  \/ Destroy
  \/ Join

Spec == Init /\ [][Next]_vars

\* A thread that is not waiting is scheduled and the function it calls
\* returns; nothing forces a spurious wakeup or the destruction of the pool.
FairSpec == Spec /\ (\A t \in Threads : WF_vars(ThreadStep(t))) /\ WF_vars(Join)

-----------------------------------------------------------------------------
(* Properties *)

\* Every variable keeps its type, and a thread holds a function exactly while
\* it calls it.
TypeOK ==
  /\ running \in BOOLEAN /\ queue \in Seq(Functions)
  /\ thread \in [Threads -> ThreadStates]
  /\ func \in [Threads -> Functions \cup {NoFunction}]
  /\ \A t \in Threads : func[t] # NoFunction <=> thread[t] = "call"
  /\ dtor \in {"alive", "join", "gone"}
  /\ fresh \subseteq Functions /\ called \subseteq Functions

\* addFunction loses no wakeup: as long as a thread sleeps, there is an awake
\* thread on its way to the queue for every function in it.
NoIdleWhileQueued ==
  In("wait") # {} => Len(queue) <= Cardinality(In("check"))

\* The pool as an executor with batches of one.
Executor ==
  INSTANCE AsyncExecutor WITH
    Requests <- Functions, Workers <- Threads,
    pending  <- Reverse(queue),
    hands    <- [t \in Threads |-> IF thread[t] = "call" THEN <<func[t]>>
                                                         ELSE << >>],
    done     <- called, closed <- dtor = "gone"

\* threadLoop calls the functions in the order they were added, each once, and
\* none after the destructor.
ImplementsExecutor == Executor!Spec

\* A function that is added is called, unless the pool is destroyed first.
AddedIsCalled ==
  \A f \in Functions : f \notin fresh ~> f \in called \/ ~running

\* The destructor returns: every thread leaves threadLoop, the waiting ones too.
DestructorReturns == dtor = "join" ~> dtor = "gone"
=============================================================================
