--------------------------- MODULE AsyncExecutor ---------------------------
(***************************************************************************)
(* What the tree expects of the threads behind a storage, whichever way    *)
(* they are organised (the FunctionCaller of DiskStorage, the reader and   *)
(* writer threads of HbaseStorage): requests are started in the order they *)
(* were made, each by one worker and once, a worker finishes what it has   *)
(* taken in order, and once the owner's destructor has returned no worker  *)
(* does anything.  Requests not started by then are dropped.               *)
(***************************************************************************)
EXTENDS Naturals, Sequences

CONSTANTS Requests, Workers

VARIABLES
  fresh,    \* requests not made yet
  pending,  \* requests made and not started, oldest first
  hands,    \* the requests each worker has taken and not finished
  done,     \* requests finished
  closed    \* the destructor has returned

executorVars == <<fresh, pending, hands, done, closed>>

Init ==
  /\ fresh = Requests /\ pending = << >> /\ done = {} /\ closed = FALSE
  /\ hands = [w \in Workers |-> << >>]

Submit(r) ==
  /\ ~closed /\ r \in fresh
  /\ fresh' = fresh \ {r} /\ pending' = Append(pending, r)
  /\ UNCHANGED <<hands, done, closed>>

\* A worker with free hands starts the n oldest requests.
Take(w, n) ==
  /\ ~closed /\ hands[w] = << >>
  /\ hands' = [hands EXCEPT ![w] = SubSeq(pending, 1, n)]
  /\ pending' = SubSeq(pending, n + 1, Len(pending))
  /\ UNCHANGED <<fresh, done, closed>>

Complete(w) ==
  /\ ~closed /\ hands[w] # << >>
  /\ done' = done \cup {Head(hands[w])}
  /\ hands' = [hands EXCEPT ![w] = Tail(@)]
  /\ UNCHANGED <<fresh, pending, closed>>

Close ==
  /\ ~closed /\ \A w \in Workers : hands[w] = << >>
  /\ closed' = TRUE
  /\ UNCHANGED <<fresh, pending, hands, done>>

Next ==
  \/ \E r \in Requests : Submit(r)
  \/ \E w \in Workers :
       Complete(w) \/ \E n \in 1..Len(pending) : Take(w, n)
  \/ Close

Spec == Init /\ [][Next]_executorVars
=============================================================================
