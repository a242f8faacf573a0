--------------------------- MODULE RangeQueryLoop ---------------------------
(***************************************************************************)
(* rangeQueryLoop of megatree_cpp/src/tree_functions.cpp: a range query    *)
(* that does not wait for a node file.  A child whose file is still being  *)
(* read is kept, with its handle, for a later turn of the queue.           *)
(*                                                                         *)
(* The tree is fixed while the query runs.  What the query asks of a cell, *)
(* outside of the range, inside or across its border, is a constant; so is *)
(* whether the descent stops there.  The read callbacks load files at any  *)
(* moment, and cacheMaintenance drops a file without open handles.         *)
(***************************************************************************)
EXTENDS Naturals, Sequences, FiniteSets, SequencesExt

CONSTANTS
  Nodes, Root,
  Kids,       \* the children of a node, in the order of their numbers
  Files, FileOf,
  Side,       \* of a node's cell: "outside", "inside", "across" the range
  Stop,       \* leaves, and nodes at the resolution of the query
  PointIn,    \* nodes whose point is in the range
  MaxEvict    \* bound: evictions during the query

ASSUME TreeAssumption ==
  /\ Root \in Nodes /\ Kids \in [Nodes -> Seq(Nodes)] /\ FileOf \in [Nodes -> Files]
  /\ Stop \subseteq Nodes /\ PointIn \subseteq Nodes /\ MaxEvict \in Nat
  /\ Side \in [Nodes -> {"outside", "inside", "across"}]
  /\ \A n \in Nodes : n \in Stop \/ Kids[n] # << >>
  /\ \A n \in Nodes : \A i \in DOMAIN Kids[n] :
       Side[n] # "across" => Side[Kids[n][i]] = Side[n]

\* A node has one parent, which the root has not (getParent of node_geometry.h).
ASSUME ParentAssumption ==
  \A n \in Nodes : \A i \in DOMAIN Kids[n] :
    /\ Kids[n][i] # Root
    /\ \A m \in Nodes : \A j \in DOMAIN Kids[m] :
         Kids[n][i] = Kids[m][j] => n = m /\ i = j

VARIABLES
  file,       \* "absent", "loading" or "loaded"
  handles,    \* open handles of each node
  queue,      \* process_queue
  toLoad,     \* nodes_to_load
  stack,      \* the calls running, innermost last: node, next child, getAll
  fresh,      \* the child handle just taken, as a sequence of at most one node
  results,    \* nodes whose points were returned, in order
  done,       \* the loop has ended
  evictions

vars == <<file, handles, queue, toLoad, stack, fresh, results, done, evictions>>

\* A call of queryRangeRecursiveAsync, or of getAllPointsRecursiveAsync
Frame(n, getAll) == [node |-> n, child |-> 1, getAll |-> getAll]

Loaded(n) == file[FileOf[n]] = "loaded"
Opened(n) == [handles EXCEPT ![n] = @ + 1]
Released(n) == [handles EXCEPT ![n] = @ - 1]

\* getRoot waits until the root is loaded.
Init ==
  /\ file = [f \in Files |-> IF f = FileOf[Root] THEN "loaded" ELSE "absent"]
  /\ handles = [n \in Nodes |-> IF n = Root THEN 1 ELSE 0]
  /\ queue = <<Root>> /\ toLoad = << >> /\ stack = << >> /\ fresh = << >>
  /\ results = << >> /\ done = FALSE /\ evictions = 0

-----------------------------------------------------------------------------
(* The loop.                                                               *)

TakeFront ==
  /\ stack = << >> /\ queue # << >> /\ Loaded(Head(queue))
  /\ stack' = <<Frame(Head(queue), FALSE)>>
  /\ UNCHANGED <<file, handles, queue, toLoad, fresh, results, done, evictions>>

MoveToBack ==
  /\ stack = << >> /\ queue # << >> /\ ~Loaded(Head(queue))
  /\ queue' = Append(Tail(queue), Head(queue))
  /\ UNCHANGED <<file, handles, toLoad, stack, fresh, results, done, evictions>>

Finish ==
  /\ stack = << >> /\ queue = << >> /\ ~done
  /\ done' = TRUE
  /\ UNCHANGED <<file, handles, queue, toLoad, stack, fresh, results, evictions>>

-----------------------------------------------------------------------------
(* queryRangeRecursiveAsync and getAllPointsRecursiveAsync.                *)

Top == Last(stack)
Calling == stack # << >> /\ fresh = << >>
GetAll == Top.getAll \/ Side[Top.node] = "inside"
Outside == ~Top.getAll /\ Side[Top.node] = "outside"

\* Nothing is left to do in the innermost call: outside, at its last point, or
\* past its last child.
Ended == Outside \/ Top.node \in Stop \/ Top.child > Len(Kids[Top.node])

\* The point the innermost call returns
TopResult ==
  IF ~Outside /\ Top.node \in Stop /\ (GetAll \/ Top.node \in PointIn)
  THEN <<Top.node>> ELSE << >>

\* Fault: nodes_to_load replaces the queue.
AfterTurnLost == toLoad
\* process_queue.pop_front and spliceToBack
AfterTurn == Tail(queue) \o toLoad

\* Fault: the handle is not released.
ReturnWithoutRelease ==
  /\ Calling /\ Ended
  /\ results' = results \o TopResult
  /\ stack' = Front(stack)
  /\ IF Len(stack) = 1 THEN queue' = AfterTurn /\ toLoad' = << >>
                       ELSE UNCHANGED <<queue, toLoad>>
  /\ UNCHANGED <<file, handles, fresh, done, evictions>>

\* The call returns, and its caller releases the handle; the caller of the
\* outermost call is the loop.
ReturnCall ==
  /\ Calling /\ Ended
  /\ results' = results \o TopResult
  /\ handles' = Released(Top.node)
  /\ stack' = Front(stack)
  /\ IF Len(stack) = 1 THEN queue' = AfterTurn /\ toLoad' = << >>
                       ELSE UNCHANGED <<queue, toLoad>>
  /\ UNCHANGED <<file, fresh, done, evictions>>

\* getChildNode: a file that is not in the cache is requested.
GetChild ==
  /\ Calling /\ ~Ended
  /\ LET c == Kids[Top.node][Top.child]
     IN /\ fresh' = <<c>> /\ handles' = Opened(c)
        /\ file' = [file EXCEPT ![FileOf[c]] = IF @ = "absent" THEN "loading" ELSE @]
  /\ UNCHANGED <<queue, toLoad, stack, results, done, evictions>>

Stepped == [stack EXCEPT ![Len(stack)].child = @ + 1]

\* Fault: the handle of a child that is not valid is released.
LaterWithoutHandle ==
  /\ fresh # << >> /\ ~Loaded(fresh[1])
  /\ toLoad' = toLoad \o fresh /\ fresh' = << >> /\ stack' = Stepped
  /\ handles' = Released(fresh[1])
  /\ UNCHANGED <<file, queue, results, done, evictions>>

LoadLater ==
  /\ fresh # << >> /\ ~Loaded(fresh[1])
  /\ toLoad' = toLoad \o fresh /\ fresh' = << >> /\ stack' = Stepped
  /\ UNCHANGED <<file, handles, queue, results, done, evictions>>

Recurse ==
  /\ fresh # << >> /\ Loaded(fresh[1])
  /\ stack' = Append(Stepped, Frame(fresh[1], GetAll)) /\ fresh' = << >>
  /\ UNCHANGED <<file, handles, queue, toLoad, results, done, evictions>>

-----------------------------------------------------------------------------
(* The cache.                                                              *)

\* readNodeFileCb
Load(f) ==
  /\ file[f] = "loading"
  /\ file' = [file EXCEPT ![f] = "loaded"]
  /\ UNCHANGED <<handles, queue, toLoad, stack, fresh, results, done, evictions>>

\* cacheMaintenance
Evict(f) ==
  /\ file[f] = "loaded" /\ evictions < MaxEvict
  /\ \A n \in Nodes : FileOf[n] = f => handles[n] = 0
  /\ file' = [file EXCEPT ![f] = "absent"] /\ evictions' = evictions + 1
  /\ UNCHANGED <<handles, queue, toLoad, stack, fresh, results, done>>

Loop ==
  \/ TakeFront \/ MoveToBack \/ Finish
  \/ ReturnCall \/ GetChild \/ LoadLater \/ Recurse

Next == Loop \/ \E f \in Files : Load(f) \/ Evict(f)

\* The thread of the query runs on, and storage answers every read.
Spec == Init /\ [][Next]_vars /\ WF_vars(Loop) /\ \A f \in Files : WF_vars(Load(f))

-----------------------------------------------------------------------------
(* Properties.                                                             *)

InSeq(n, s) == Cardinality({i \in DOMAIN s : s[i] = n})
Places(n) ==
  InSeq(n, queue) + InSeq(n, toLoad) + InSeq(n, fresh)
    + Cardinality({i \in 2 .. Len(stack) : stack[i].node = n})

\* Every open handle is on the queue, among the nodes to load, just taken or on
\* the stack, exactly once: none leaks, and none is used after its release
\* (releaseNode at the end of each call and of each turn of the loop).  A call
\* reads only a node that is loaded: rangeQueryLoop tests isValid before, and
\* the handle keeps the file from being evicted.
HandlesOwned ==
  /\ \A n \in Nodes : handles[n] = Places(n)
  /\ \A i \in DOMAIN stack : Loaded(stack[i].node)

\* The nodes queryRange visits from n on: the descent goes on below a node that
\* is not outside and where it does not stop.
Descends(n) == n \notin Stop /\ Side[n] # "outside"
Closed(S) == \A n \in S : Descends(n) => \A i \in DOMAIN Kids[n] : Kids[n][i] \in S
From(n) == {m \in Nodes : \A S \in SUBSET Nodes : n \in S /\ Closed(S) => m \in S}

\* The nodes whose points queryRange returns
Expected ==
  {n \in From(Root) \cap Stop :
     Side[n] = "inside" \/ (Side[n] = "across" /\ n \in PointIn)}

\* In whatever order the files arrive and are evicted, the loop returns every
\* point that queryRange returns, and each once.
ResultsExact ==
  /\ \A i, j \in DOMAIN results : results[i] = results[j] => i = j
  /\ ToSet(results) \subseteq Expected
  /\ done => ToSet(results) = Expected

\* The loop ends.
Terminates == <>done
=============================================================================
