----------------------- MODULE FunctionCallerProofs -----------------------
(***************************************************************************)
(* Theorems about FunctionCaller, for any number of threads and functions. *)
(***************************************************************************)
EXTENDS FunctionCaller, SequenceTheorems, FiniteSetTheorems, TLAPS

\* running tells where the destructor is; once it is false nobody waits again,
\* and the destructor returns after the last thread has.
DtorInv ==
  /\ running <=> dtor = "alive"
  /\ ~running => In("wait") = {}
  /\ dtor = "gone" => In("exit") = Threads

\* The inductive invariant.  NoIdleWhileQueued alone is not inductive: when
\* threads exit, it survives only because none is left waiting.
PoolInv == TypeOK /\ DtorInv /\ NoIdleWhileQueued

-----------------------------------------------------------------------------
(* What the helpers on sequences and sets do *)

\* The list after addFunction.
LEMMA ConsFacts ==
  ASSUME NEW f \in Functions, NEW q \in Seq(Functions)
  PROVE  /\ Cons(f, q) \in Seq(Functions) /\ Len(Cons(f, q)) = Len(q) + 1
         /\ Reverse(Cons(f, q)) = Append(Reverse(q), f)
<1>1. /\ Cons(f, q) \in Seq(Functions) /\ Len(Cons(f, q)) = Len(q) + 1
      /\ Cons(f, q)[1] = f
      /\ \A i \in 1..Len(q) : Cons(f, q)[i + 1] = q[i]
  BY DEF Cons
<1> DEFINE a == Reverse(Cons(f, q))
           b == Append(Reverse(q), f)
           n == Len(q)
<1>2. n \in Nat /\ Reverse(q) \in Seq(Functions) /\ Len(Reverse(q)) = n
  BY DEF Reverse
<1>3. a = [i \in 1..(n + 1) |-> Cons(f, q)[(n + 1 - i) + 1]]
  BY <1>1 DEF Reverse
<1>4. b \in Seq(Functions) /\ Len(b) = n + 1 /\ DOMAIN b = 1..(n + 1)
  BY <1>2
<1>5. ASSUME NEW i \in 1..(n + 1) PROVE a[i] = b[i]
  <2>1. CASE i = n + 1
    BY <1>1, <1>2, <1>3, <2>1
  <2>2. CASE i # n + 1
    <3>1. i \in 1..n /\ n - i + 1 \in 1..n
      BY <2>2, <1>2
    <3>2. a[i] = Cons(f, q)[(n - i + 1) + 1]
      BY <1>3, <1>2, <3>1
    <3>3. a[i] = q[n - i + 1]
      BY <3>1, <3>2, <1>1
    <3>4. b[i] = Reverse(q)[i]
      BY <3>1, <1>2
    <3> QED BY <3>1, <3>3, <3>4 DEF Reverse
  <2> QED BY <2>1, <2>2
<1>6. a = b
  <2>1. a \in Seq(Functions) /\ Len(a) = n + 1
    BY <1>1 DEF Reverse
  <2> HIDE DEF a, b
  <2> QED BY <1>4, <1>5, <2>1, SeqEqual
<1> QED BY <1>1, <1>6

\* The list after a thread has taken its last element.
LEMMA FrontFacts ==
  ASSUME NEW q \in Seq(Functions), q # << >>
  PROVE  /\ Front(q) \in Seq(Functions) /\ Len(Front(q)) = Len(q) - 1
         /\ Last(q) \in Functions
         /\ Len(Reverse(q)) = Len(q)
         /\ SubSeq(Reverse(q), 1, 1) = <<Last(q)>>
         /\ SubSeq(Reverse(q), 2, Len(q)) = Reverse(Front(q))
<1> DEFINE n == Len(q)
           r == Reverse(q)
<1>1. n \in Nat /\ n >= 1
  BY EmptySeq
<1>2. /\ Front(q) \in Seq(Functions) /\ Len(Front(q)) = n - 1
      /\ \A i \in 1..(n - 1) : Front(q)[i] = q[i]
  <2>1. 1 \in Int /\ n - 1 \in Int /\ \A i \in 1..(n - 1) : q[i] \in Functions
    BY <1>1
  <2> DEFINE u == SubSeq(q, 1, n - 1)
  <2>2. /\ u \in Seq(Functions)
        /\ Len(u) = IF 1 <= n - 1 THEN n - 1 - 1 + 1 ELSE 0
        /\ \A i \in 1..(n - 1 - 1 + 1) : u[i] = q[1 + i - 1]
    BY ONLY <2>1, SubSeqProperties
  <2>3. Len(u) = n - 1 /\ \A i \in 1..(n - 1) : u[i] = q[i]
    <3> HIDE DEF u, n
    <3>1. Len(u) = n - 1
      BY <1>1, <2>2
    <3>2. ASSUME NEW i \in 1..(n - 1) PROVE u[i] = q[i]
      <4>1. i \in 1..(n - 1 - 1 + 1) /\ 1 + i - 1 = i
        BY <1>1
      <4> QED BY <4>1, <2>2
    <3> QED BY <3>1, <3>2
  <2> QED BY <2>2, <2>3 DEF Front
<1>3. Last(q) \in Functions
  BY <1>1 DEF Last
<1>4. /\ r \in Seq(Functions) /\ Len(r) = n
      /\ \A i \in 1..n : r[i] = q[(n - i) + 1]
  BY <1>1 DEF Reverse
<1>5. SubSeq(r, 1, 1) = <<Last(q)>>
  <2> HIDE DEF r
  <2>1. SubSeq(r, 1, 1) = <<r[1]>>
    <3>1. 1 \in 1..Len(r)
      BY <1>1, <1>4
    <3>2. SubSeq(r, 1, 1) = <<r[1]>> \o SubSeq(r, 2, 1)
      BY <3>1, <1>4, SubSeqRecursiveFirst
    <3>3. SubSeq(r, 2, 1) = << >>
      BY SubSeqEmpty
    <3>4. r[1] \in Functions
      BY <3>1, <1>4
    <3>5. <<r[1]>> \o << >> = <<r[1]>>
      BY <3>4, ConcatEmptySeq
    <3> QED BY <3>2, <3>3, <3>5
  <2>2. r[1] = q[n]
    BY <1>1, <1>4
  <2> QED BY <2>1, <2>2 DEF Last
<1>6. SubSeq(r, 2, n) = Reverse(Front(q))
  <2> DEFINE a == SubSeq(r, 2, n)
             b == Reverse(Front(q))
  <2>1. b \in Seq(Functions) /\ Len(b) = n - 1
        /\ \A i \in 1..(n - 1) : b[i] = Front(q)[(n - 1 - i) + 1]
    BY <1>1, <1>2 DEF Reverse
  <2>2. a \in Seq(Functions) /\ Len(a) = n - 1
        /\ \A i \in 1..(n - 1) : a[i] = r[i + 1]
    <3> HIDE DEF r
    <3> QED BY <1>1, <1>4, SubSeqProperties
  <2>3. ASSUME NEW i \in 1..(n - 1) PROVE a[i] = b[i]
    <3> HIDE DEF r, a, b
    <3>1. n - i \in 1..(n - 1) /\ i + 1 \in 1..n
      BY <1>1
    <3>2. a[i] = q[n - i]
      BY <1>1, <1>4, <2>2, <3>1
    <3>3. b[i] = Front(q)[n - i]
      BY <1>1, <2>1, <3>1
    <3> QED BY <1>2, <3>1, <3>2, <3>3
  <2>4. a = b
    <3> HIDE DEF r, a, b
    <3> QED BY <1>1, <2>1, <2>2, <2>3, SeqEqual
  <2> QED BY <2>4
<1> QED BY <1>2, <1>3, <1>4, <1>5, <1>6

\* The set of threads in a state is finite.
LEMMA InFinite ==
  \A s : IsFiniteSet(In(s)) /\ Cardinality(In(s)) \in Nat
BY PoolAssumption, FS_Subset, FS_CardinalityType DEF In

\* A thread that becomes awake counts, once.
LEMMA CheckGrows ==
  ASSUME thread \in [Threads -> ThreadStates], NEW t \in Threads,
         thread[t] # "check", thread' = [thread EXCEPT ![t] = "check"]
  PROVE  Cardinality(In("check")') = Cardinality(In("check")) + 1
<1>1. In("check")' = In("check") \cup {t} /\ t \notin In("check")
  BY DEF In
<1> QED BY <1>1, InFinite, FS_AddElement

\* An awake thread that goes elsewhere no longer counts.
LEMMA CheckShrinks ==
  ASSUME thread \in [Threads -> ThreadStates], NEW t \in Threads, NEW s,
         s # "check", thread[t] = "check", thread' = [thread EXCEPT ![t] = s]
  PROVE  Cardinality(In("check")') = Cardinality(In("check")) - 1
<1>1. In("check")' = In("check") \ {t} /\ t \in In("check")
  BY DEF In
<1> QED BY <1>1, InFinite, FS_RemoveElement

-----------------------------------------------------------------------------
(* The invariant *)

LEMMA PoolInvInit == Init => PoolInv
<1> SUFFICES ASSUME Init PROVE PoolInv
  OBVIOUS
<1>1. TypeOK
  BY PoolAssumption DEF Init, TypeOK, ThreadStates
<1>2. In("wait") = {}
  BY DEF Init, In
<1> QED BY <1>1, <1>2 DEF Init, PoolInv, DtorInv, NoIdleWhileQueued

LEMMA AddFunctionInv ==
  ASSUME PoolInv, NEW f \in Functions, AddFunction(f)
  PROVE  PoolInv'
<1> USE DEF PoolInv
<1>0. queue' \in Seq(Functions) /\ Len(queue') = Len(queue) + 1 /\ Len(queue) \in Nat
  BY ConsFacts DEF AddFunction, TypeOK
<1>1. CASE In("wait") = {} /\ UNCHANGED thread
  <2>1. TypeOK'
    BY <1>0, <1>1 DEF AddFunction, TypeOK
  <2>2. \A s : In(s)' = In(s)
    BY <1>1 DEF In
  <2> QED BY <2>1, <2>2, <1>1 DEF AddFunction, DtorInv, NoIdleWhileQueued
<1>2. CASE \E t \in In("wait") : thread' = [thread EXCEPT ![t] = "check"]
  <2>1. PICK t \in Threads : /\ thread[t] = "wait" /\ t \in In("wait")
                             /\ thread' = [thread EXCEPT ![t] = "check"]
    BY <1>2 DEF In
  <2>2. TypeOK'
    BY <1>0, <2>1 DEF AddFunction, TypeOK, ThreadStates
  <2>3. Cardinality(In("check")') = Cardinality(In("check")) + 1
    BY <2>1, CheckGrows DEF TypeOK
  <2>4. Len(queue) <= Cardinality(In("check"))
    BY <2>1 DEF NoIdleWhileQueued
  <2>5. NoIdleWhileQueued'
    BY <1>0, <2>3, <2>4, InFinite DEF NoIdleWhileQueued
  <2>6. running /\ dtor = "alive" /\ UNCHANGED <<running, dtor>>
    BY <2>1 DEF DtorInv, AddFunction
  <2> QED BY <2>2, <2>5, <2>6 DEF DtorInv
<1> QED BY <1>1, <1>2 DEF AddFunction, NotifyOne

LEMMA WaitInv ==
  ASSUME PoolInv, NEW t \in Threads, Wait(t)
  PROVE  PoolInv'
<1> USE DEF PoolInv
<1>1. TypeOK'
  BY DEF Wait, TypeOK, ThreadStates
<1>2. Len(queue') = 0 /\ Cardinality(In("check"))' \in Nat
  <2>1. IsFiniteSet(In("check")')
    BY PoolAssumption, FS_Subset DEF In
  <2> QED BY <2>1, FS_CardinalityType DEF Wait
<1>3. running' /\ dtor' = "alive"
  BY DEF Wait, DtorInv
<1> QED BY <1>1, <1>2, <1>3 DEF DtorInv, NoIdleWhileQueued

LEMMA ExitInv ==
  ASSUME PoolInv, NEW t \in Threads, Exit(t)
  PROVE  PoolInv'
<1> USE DEF PoolInv
<1>1. TypeOK'
  BY DEF Exit, TypeOK, ThreadStates
<1>2. In("wait")' = {}
  BY DEF Exit, DtorInv, In, TypeOK
<1>3. dtor # "gone"
  <2>1. t \notin In("exit")
    BY DEF Exit, In
  <2> QED BY <2>1 DEF DtorInv
<1> QED BY <1>1, <1>2, <1>3 DEF Exit, DtorInv, NoIdleWhileQueued

LEMMA TakeInv ==
  ASSUME PoolInv, NEW t \in Threads, Take(t)
  PROVE  PoolInv'
<1> USE DEF PoolInv
<1>1. /\ queue' \in Seq(Functions) /\ Len(queue') = Len(queue) - 1
      /\ Len(queue) \in Nat /\ Last(queue) \in Functions
  BY FrontFacts DEF Take, TypeOK
<1>2. TypeOK'
  BY <1>1, PoolAssumption DEF Take, TypeOK, ThreadStates
<1>3. Cardinality(In("check")') = Cardinality(In("check")) - 1
  BY CheckShrinks DEF Take, TypeOK
<1>4. In("wait")' = In("wait")
  BY DEF Take, In, TypeOK
<1>5. NoIdleWhileQueued'
  BY <1>1, <1>3, <1>4, InFinite DEF NoIdleWhileQueued
<1>6. running' /\ dtor' = "alive"
  BY DEF Take, DtorInv
<1> QED BY <1>2, <1>5, <1>6 DEF DtorInv

LEMMA ReturnInv ==
  ASSUME PoolInv, NEW t \in Threads, Return(t)
  PROVE  PoolInv'
<1> USE DEF PoolInv
<1>1. TypeOK'
  BY DEF Return, TypeOK, ThreadStates
<1>2. In("wait")' = In("wait")
  BY DEF Return, In, TypeOK
<1>3. Cardinality(In("check")') = Cardinality(In("check")) + 1
  BY CheckGrows DEF Return, TypeOK
<1>4. NoIdleWhileQueued'
  BY <1>2, <1>3, InFinite DEF Return, NoIdleWhileQueued, TypeOK
<1>5. dtor # "gone"
  <2>1. t \notin In("exit")
    BY DEF Return, In
  <2> QED BY <2>1 DEF DtorInv
<1> QED BY <1>1, <1>2, <1>4, <1>5 DEF Return, DtorInv

LEMMA SpuriousWakeupInv ==
  ASSUME PoolInv, NEW t \in Threads, SpuriousWakeup(t)
  PROVE  PoolInv'
<1> USE DEF PoolInv
<1>1. TypeOK'
  BY DEF SpuriousWakeup, TypeOK, ThreadStates
<1>2. Cardinality(In("check")') = Cardinality(In("check")) + 1
  BY CheckGrows DEF SpuriousWakeup, TypeOK
<1>3. t \in In("wait")
  BY DEF SpuriousWakeup, In
<1>4. NoIdleWhileQueued'
  BY <1>2, <1>3, InFinite DEF SpuriousWakeup, NoIdleWhileQueued, TypeOK
<1>5. running' /\ dtor' = "alive"
  BY <1>3 DEF SpuriousWakeup, DtorInv
<1> QED BY <1>1, <1>4, <1>5 DEF DtorInv

LEMMA DestroyInv ==
  ASSUME PoolInv, Destroy
  PROVE  PoolInv'
<1> USE DEF PoolInv
<1>1. TypeOK'
  BY DEF Destroy, NotifyAll, TypeOK, ThreadStates
<1>2. In("wait")' = {}
  BY DEF Destroy, NotifyAll, In, TypeOK
<1> QED BY <1>1, <1>2 DEF Destroy, DtorInv, NoIdleWhileQueued

LEMMA JoinInv ==
  ASSUME PoolInv, Join
  PROVE  PoolInv'
<1>1. \A s : In(s)' = In(s)
  BY DEF Join, In
<1> QED BY <1>1 DEF Join, PoolInv, TypeOK, DtorInv, NoIdleWhileQueued

LEMMA PoolInvNext == PoolInv /\ [Next]_vars => PoolInv'
<1> SUFFICES ASSUME PoolInv, [Next]_vars PROVE PoolInv'
  OBVIOUS
<1>1. ASSUME NEW f \in Functions, AddFunction(f) PROVE PoolInv'
  BY <1>1, AddFunctionInv
<1>2. ASSUME NEW t \in Threads, ThreadStep(t) \/ SpuriousWakeup(t) PROVE PoolInv'
  BY <1>2, WaitInv, ExitInv, TakeInv, ReturnInv, SpuriousWakeupInv DEF ThreadStep
<1>3. CASE Destroy
  BY <1>3, DestroyInv
<1>4. CASE Join
  BY <1>4, JoinInv
<1>5. CASE UNCHANGED vars
  <2>1. \A s : In(s)' = In(s)
    BY <1>5 DEF vars, In
  <2> QED BY <1>5, <2>1 DEF vars, PoolInv, TypeOK, DtorInv, NoIdleWhileQueued
<1> QED BY <1>1, <1>2, <1>3, <1>4, <1>5 DEF Next

LEMMA PoolInvariant == Spec => []PoolInv
BY PoolInvInit, PoolInvNext, PTL DEF Spec

-----------------------------------------------------------------------------
(* Theorems *)

\* Every variable of the pool keeps its type, and a thread holds a function
\* exactly while threadLoop calls it.
THEOREM PoolTypeCorrect == Spec => []TypeOK
<1>1. PoolInv => TypeOK
  BY DEF PoolInv
<1> QED BY <1>1, PoolInvariant, PTL

\* addFunction loses no wakeup: while a thread of the pool sleeps, there is an
\* awake thread for every function in the queue.
THEOREM NoLostWakeup == Spec => []NoIdleWhileQueued
<1>1. PoolInv => NoIdleWhileQueued
  BY DEF PoolInv
<1> QED BY <1>1, PoolInvariant, PTL

-----------------------------------------------------------------------------
(* The pool implements AsyncExecutor *)

Hands == [t \in Threads |-> IF thread[t] = "call" THEN <<func[t]>> ELSE << >>]

LEMMA ExecutorInit == Init => Executor!Init
<1> SUFFICES ASSUME Init PROVE Executor!Init
  OBVIOUS
<1>1. Reverse(queue) = << >>
  BY DEF Init, Reverse
<1>2. Hands = [t \in Threads |-> << >>]
  BY DEF Init, Hands
<1> QED BY <1>1, <1>2 DEF Init, Executor!Init, Hands

\* Steps that leave the abstract state alone.
LEMMA ExecutorStutter ==
  ASSUME UNCHANGED <<queue, func, fresh, called>>, dtor' = "gone" <=> dtor = "gone",
         \A t \in Threads : thread'[t] = "call" <=> thread[t] = "call"
  PROVE  UNCHANGED Executor!executorVars
<1>1. Hands' = Hands
  BY DEF Hands
<1>2. Reverse(queue)' = Reverse(queue)
  OBVIOUS
<1> QED BY <1>1, <1>2 DEF Executor!executorVars, Hands

LEMMA AddFunctionSubmits ==
  ASSUME PoolInv, NEW f \in Functions, AddFunction(f)
  PROVE  Executor!Submit(f)
<1>1. dtor # "gone"
  <2>1. In("exit") = Threads => In("call") = {}
    BY DEF In
  <2> QED BY <2>1 DEF AddFunction, PoolInv, DtorInv
<1>2. Reverse(queue)' = Append(Reverse(queue), f)
  BY ConsFacts DEF AddFunction, PoolInv, TypeOK
<1>3. \A t \in Threads : thread'[t] = "call" <=> thread[t] = "call"
  BY DEF AddFunction, NotifyOne, In, PoolInv, TypeOK
<1>4. Hands' = Hands
  BY <1>3 DEF Hands, AddFunction
<1> QED BY <1>1, <1>2, <1>4 DEF AddFunction, Executor!Submit, Hands

LEMMA TakeTakes ==
  ASSUME PoolInv, NEW t \in Threads, Take(t)
  PROVE  1 \in 1..Len(Reverse(queue)) /\ Executor!Take(t, 1)
<1>1. /\ queue \in Seq(Functions) /\ queue # << >> /\ Len(queue) \in Nat
      /\ Len(queue) # 0
  BY EmptySeq DEF Take, PoolInv, TypeOK
<1>2. /\ Len(Reverse(queue)) = Len(queue)
      /\ SubSeq(Reverse(queue), 1, 1) = <<Last(queue)>>
      /\ SubSeq(Reverse(queue), 2, Len(queue)) = Reverse(queue')
  BY <1>1, FrontFacts DEF Take
<1>3. dtor # "gone" /\ Hands[t] = << >>
  BY DEF Take, PoolInv, DtorInv, Hands
<1>4. Hands' = [Hands EXCEPT ![t] = <<Last(queue)>>]
  BY DEF Hands, Take, PoolInv, TypeOK
<1>5. Reverse(queue)' = SubSeq(Reverse(queue), 1 + 1, Len(Reverse(queue)))
  BY <1>2
<1>6. Executor!Take(t, 1)
  BY <1>2, <1>3, <1>4, <1>5 DEF Take, Executor!Take, Hands
<1> QED BY <1>1, <1>2, <1>6

LEMMA ReturnCompletes ==
  ASSUME PoolInv, NEW t \in Threads, Return(t)
  PROVE  Executor!Complete(t)
<1>1. dtor # "gone"
  <2>1. t \notin In("exit")
    BY DEF Return, In
  <2> QED BY <2>1 DEF PoolInv, DtorInv
<1>2. Hands[t] = <<func[t]>> /\ Hands[t] # << >> /\ Head(Hands[t]) = func[t]
      /\ Tail(Hands[t]) = << >>
  BY DEF Return, Hands
<1>3. Hands' = [Hands EXCEPT ![t] = << >>]
  BY DEF Hands, Return, PoolInv, TypeOK
<1>4. Hands' = [Hands EXCEPT ![t] = Tail(Hands[t])]
  BY <1>2, <1>3
<1>5. called' = called \cup {Head(Hands[t])}
  BY <1>2 DEF Return
<1>6. Reverse(queue)' = Reverse(queue)
  BY DEF Return
<1> QED BY <1>1, <1>2, <1>4, <1>5, <1>6 DEF Return, Executor!Complete, Hands

LEMMA JoinCloses ==
  ASSUME PoolInv, Join
  PROVE  Executor!Close
<1>1. \A t \in Threads : Hands[t] = << >>
  BY DEF Join, In, Hands
<1>2. Hands' = Hands /\ Reverse(queue)' = Reverse(queue)
  BY DEF Join, Hands
<1> QED BY <1>1, <1>2 DEF Join, Executor!Close, Hands

LEMMA ExecutorNext ==
  PoolInv /\ [Next]_vars => [Executor!Next]_(Executor!executorVars)
<1> SUFFICES ASSUME PoolInv, [Next]_vars
             PROVE  Executor!Next \/ UNCHANGED Executor!executorVars
  OBVIOUS
<1>1. ASSUME NEW f \in Functions, AddFunction(f) PROVE Executor!Next
  BY <1>1, AddFunctionSubmits DEF Executor!Next
<1>2. ASSUME NEW t \in Threads, Take(t) PROVE Executor!Next
  BY <1>2, TakeTakes DEF Executor!Next
<1>3. ASSUME NEW t \in Threads, Return(t) PROVE Executor!Next
  BY <1>3, ReturnCompletes DEF Executor!Next
<1>4. CASE Join
  BY <1>4, JoinCloses DEF Executor!Next
<1>5. ASSUME NEW t \in Threads, Wait(t) \/ Exit(t) \/ SpuriousWakeup(t)
      PROVE  UNCHANGED Executor!executorVars
  <2>1. \A u \in Threads : thread'[u] = "call" <=> thread[u] = "call"
    BY <1>5 DEF Wait, Exit, SpuriousWakeup, PoolInv, TypeOK
  <2> QED BY <1>5, <2>1, ExecutorStutter DEF Wait, Exit, SpuriousWakeup
<1>6. CASE Destroy
  <2>1. \A u \in Threads : thread'[u] = "call" <=> thread[u] = "call"
    BY <1>6 DEF Destroy, NotifyAll
  <2> QED BY <1>6, <2>1, ExecutorStutter DEF Destroy
<1>7. CASE UNCHANGED vars
  BY <1>7, ExecutorStutter DEF vars
<1> QED
  BY <1>1, <1>2, <1>3, <1>4, <1>5, <1>6, <1>7 DEF Next, ThreadStep

\* threadLoop calls the functions in the order addFunction was called, each by
\* one thread and once, and none once the destructor has returned: the pool
\* implements the executor the storage relies on.
THEOREM PoolImplementsExecutor == Spec => ImplementsExecutor
BY ExecutorInit, ExecutorNext, PoolInvariant, PTL
   DEF Spec, ImplementsExecutor, Executor!Spec
=============================================================================
