--------------------------- MODULE FrustumQuerier ---------------------------
(***************************************************************************)
(* The query of the web client for the cells in view                       *)
(* (megatree_web/js/frustum_querier.js), with the part of index.js that    *)
(* starts one when the camera moves and getCell of megatree.js, which      *)
(* answers from the cell cache or by an XMLHttpRequest.                    *)
(*                                                                         *)
(* JavaScript runs one handler at a time: a timer or a response is taken   *)
(* only when `stack` is empty.  A handler is a chain of steps, because     *)
(* getCell calls back at once for a cached cell and processQueue can so be *)
(* entered again from inside processCell: `stack` holds the calls that     *)
(* have not returned.                                                      *)
(*                                                                         *)
(* A cell stands for its id and for the object that carries it; an octant  *)
(* with a child stands for that child.  A camera and its frustum is a      *)
(* view.  The resolution correction is a number of resolution steps.       *)
(***************************************************************************)
EXTENDS Integers, Sequences, FiniteSets, SequencesExt

CONSTANTS
  Cells, Views,
  Roots,        \* the root cells of the enabled trees, in the order of trees_info
  Kids,         \* the children of each cell, in the order of their octants
  InFrustum,    \* isInsideFrustum of a view for a cell: -1, 0 or 1
  Detail,       \* the last correction at which a view needs the children of a cell
  Desired,      \* desired_cell_count
  MinLevel,     \* the correction at which a box is as small as min_box_size_meters
  MaxLevel,     \* bound: above it every cell is small enough in every view
  BatchLimit,   \* cells queued by one processQueue before it yields (50)
  CacheSize,    \* cells in the cell cache (10000)
  Failing,      \* cells the server may answer with an error
  FirstView,
  MaxMoves      \* bound: camera moves

ASSUME FrustumAssumption ==
  /\ IsFiniteSet(Cells) /\ FirstView \in Views /\ Failing \subseteq Cells
  /\ Roots \in Seq(Cells) /\ Kids \in [Cells -> Seq(Cells)]
  /\ InFrustum \in [Views -> [Cells -> {-1, 0, 1}]]
  /\ Detail \in [Views -> [Cells -> Int]]
  /\ Desired \in Nat /\ BatchLimit \in Nat /\ CacheSize \in Nat \ {0}
  /\ MaxMoves \in Nat /\ MinLevel \in Int /\ MinLevel <= 0 /\ MaxLevel \in Nat
  /\ {"none", "roots"} \cap Cells = {}

\* The cells are those of different octrees: no cell has two parents or is two
\* children of one.
ASSUME ForestAssumption ==
  /\ IsInjective(Roots) /\ \A c \in Cells : IsInjective(Kids[c])
  /\ \A c \in Cells : ToSet(Kids[c]) \cap (ToSet(Roots) \cup {c}) = {}
  /\ \A c, d \in Cells : c # d => ToSet(Kids[c]) \cap ToSet(Kids[d]) = {}

VARIABLES
  camera,          \* the view of cam
  updatePending,   \* existing_frustum_trigger: the 15 ms timer of index.js
  moves,           \* camera moves so far
  query,           \* fields of the querier, see Idle
  retries,         \* pending timers of triggerFrustum, in the order they fire
  resumes,         \* number of pending timers of processQueue
  requests,        \* the XMLHttpRequests under way, see Xhr
  cache,           \* ids in cellCache, most recently used first
  showing,         \* show_children of each cell
  inside,          \* inside_frustum of each cell
  stack,           \* the calls running, innermost last
  currentCells     \* what the page draws

vars == <<camera, updatePending, moves, query, retries, resumes, requests,
          cache, showing, inside, stack, currentCells>>

\* The frames of stack: triggerFrustum, at its next root; processQueue, at the
\* head of its loop; processCell of a cell, at its next child.
RootFrame(i) == [cell |-> "roots", child |-> i]
QueueFrame == [cell |-> "none", child |-> 0]
CellFrame(c) == [cell |-> c, child |-> 1]

\* triggerFrustum(1.0) and triggerFrustum(-1.0) ask for more and fewer cells.
More == 1
Fewer == -1

Init ==
  /\ camera = FirstView /\ updatePending = TRUE /\ moves = 0
  /\ query = [view |-> FirstView, queue |-> << >>, index |-> 0, inFlight |-> 0,
              count |-> Desired, level |-> 0, completed |-> FALSE,
              processing |-> FALSE, interrupted |-> FALSE, calls |-> 0,
              lastTrigger |-> 0]
  /\ retries = << >> /\ resumes = 0 /\ requests = {} /\ cache = << >>
  /\ showing = [c \in Cells |-> {}] /\ inside = [c \in Cells |-> -1]
  /\ stack = << >>
  /\ currentCells = [cells |-> {}, showing |-> << >>, view |-> FirstView,
                     finished |-> FALSE, interrupted |-> FALSE]

Idle == stack = << >>

-----------------------------------------------------------------------------
(* getCell and the cell cache *)

Cached(c) == c \in ToSet(cache)

\* cellCache.get of a cached cell
Touched(ca, c) == Cons(c, RemoveFirst(ca, c))

\* cellCache.put: the cell used longest ago makes room.
Put(ca, c) ==
  LET used == Touched(ca, c)
  IN IF Len(used) > CacheSize THEN Front(used) ELSE used

\* getCell sends a request whether or not one for the cell is under way: `inside`
\* is the child_in_frustum its callback will read, and `nr` tells requests for
\* one cell apart (no two have the same, as the sum only grows until they are
\* aborted).
Xhr(c, value) == [cell |-> c, inside |-> value, nr |-> Len(query.queue) + query.inFlight]

-----------------------------------------------------------------------------
(* triggerFrustum *)

\* The correction for the next query, from what the last one counted.  The
\* first comparison is with Desired * 1.2 * 1.1, the second with
\* Desired / 1.2 / 1.1.
AdaptedLevel ==
  IF query.count * 100 > Desired * 132
  THEN IF query.level < MaxLevel THEN query.level + 1 ELSE query.level
  ELSE IF query.count * 132 < Desired * 100 /\ query.completed
          /\ query.level - 1 >= MinLevel
  THEN query.level - 1
  ELSE query.level

\* Fault: the requests of the query before are not aborted.
StartWithoutCancel(v, id) ==
  /\ query' = [query EXCEPT
                 !.view = v, !.lastTrigger = id,
                 !.level = AdaptedLevel, !.completed = FALSE, !.count = 0,
                 !.queue = << >>, !.index = 0, !.interrupted = FALSE,
                 !.processing = TRUE]
  /\ stack' = <<RootFrame(1)>>
  /\ UNCHANGED requests

\* Requests under way are aborted, and the roots are looked up.
Start(v, id) ==
  /\ query' = [query EXCEPT
                 !.view = v, !.lastTrigger = id,
                 !.level = AdaptedLevel, !.completed = FALSE, !.count = 0,
                 !.queue = << >>, !.index = 0, !.interrupted = FALSE,
                 !.inFlight = IF @ > 0 THEN 0 ELSE @, !.processing = TRUE]
  /\ requests' = IF query.inFlight > 0 THEN {} ELSE requests
  /\ stack' = <<RootFrame(1)>>

InRootLoop == ~Idle /\ Last(stack).cell = "roots"
MoreRoots == Last(stack).child <= Len(Roots)
NextRoot == Roots[Last(stack).child]
AfterFrame == [stack EXCEPT ![Len(stack)].child = @ + 1]

\* A root in the cache is queued at once.  A root is never told whether it is
\* inside the frustum.
RootHit ==
  /\ InRootLoop /\ MoreRoots /\ Cached(NextRoot)
  /\ cache' = Touched(cache, NextRoot)
  /\ query' = [query EXCEPT !.queue = Append(@, NextRoot)]
  /\ stack' = AfterFrame
  /\ UNCHANGED <<camera, updatePending, moves, retries, resumes, requests,
                 showing, inside, currentCells>>

\* Any other root is requested.
RootMiss ==
  /\ InRootLoop /\ MoreRoots /\ ~Cached(NextRoot)
  /\ requests' = requests \cup {Xhr(NextRoot, -1)}
  /\ query' = [query EXCEPT !.inFlight = @ + 1]
  /\ stack' = AfterFrame
  /\ UNCHANGED <<camera, updatePending, moves, retries, resumes, cache, showing,
                 inside, currentCells>>

\* With a root in the queue, processing starts; else when one arrives.
RootsDone ==
  /\ InRootLoop /\ ~MoreRoots
  /\ IF query.queue # << >>
     THEN /\ query' = [query EXCEPT !.calls = 0]
          /\ stack' = <<QueueFrame>>
     ELSE /\ query' = [query EXCEPT !.processing = FALSE]
          /\ stack' = << >>
  /\ UNCHANGED <<camera, updatePending, moves, retries, resumes, requests, cache,
                 showing, inside, currentCells>>

\* A new camera view schedules getFrustum, unless one is scheduled.
MoveCamera(v) ==
  /\ Idle /\ moves < MaxMoves /\ v # camera
  /\ camera' = v /\ updatePending' = TRUE /\ moves' = moves + 1
  /\ UNCHANGED <<query, retries, resumes, requests, cache, showing, inside,
                 stack, currentCells>>

\* The timer of triggerFrustumUpdate: getFrustum with the camera of now.
GetFrustum ==
  /\ Idle /\ updatePending
  /\ Start(camera, 0)
  /\ updatePending' = FALSE
  /\ UNCHANGED <<camera, moves, retries, resumes, cache, showing, inside,
                 currentCells>>

\* A timer of triggerFrustum, for a query that may be over by now.
SelfInducedLoop == query.lastTrigger # 0 /\ Head(retries) # query.lastTrigger

\* Fault: every timer restarts the query.
RetryAlways ==
  /\ Idle /\ retries # << >>
  /\ Start(query.view, Head(retries))
  /\ retries' = Tail(retries)
  /\ UNCHANGED <<camera, updatePending, moves, resumes, cache, showing, inside,
                 currentCells>>

Retry ==
  /\ Idle /\ retries # << >> /\ ~SelfInducedLoop
  /\ Start(query.view, Head(retries))
  /\ retries' = Tail(retries)
  /\ UNCHANGED <<camera, updatePending, moves, resumes, cache, showing, inside,
                 currentCells>>

BreakLoop ==
  /\ Idle /\ retries # << >> /\ SelfInducedLoop
  /\ retries' = Tail(retries)
  /\ UNCHANGED <<camera, updatePending, moves, query, resumes, requests, cache,
                 showing, inside, stack, currentCells>>

-----------------------------------------------------------------------------
(* processQueue and processCell *)

Resume ==
  /\ Idle /\ resumes > 0
  /\ resumes' = resumes - 1
  /\ stack' = <<QueueFrame>>
  /\ query' = [query EXCEPT !.calls = 0]
  /\ UNCHANGED <<camera, updatePending, moves, retries, requests, cache,
                 showing, inside, currentCells>>

\* processCell has returned to the processQueue on top of the stack s: the
\* next cell, or a break for the event loop.
NextCell(q, s) ==
  /\ query' = [q EXCEPT !.index = @ + 1]
  /\ IF q.calls > BatchLimit
     THEN stack' = Front(s) /\ resumes' = resumes + 1
     ELSE stack' = s /\ UNCHANGED resumes

InQueueLoop == ~Idle /\ Last(stack) = QueueFrame
HasCell == query.index < Len(query.queue) /\ ~query.interrupted
NextInQueue == query.queue[query.index + 1]
TooMany == (query.count + query.inFlight) * 2 > Desired * 3

\* Too many cells: the query is given up and a coarser one follows.
Interrupt ==
  /\ InQueueLoop /\ HasCell /\ TooMany
  /\ requests' = {}
  /\ retries' = Append(retries, Fewer)
  /\ NextCell([query EXCEPT !.interrupted = TRUE, !.inFlight = 0,
                            !.count = @ + query.inFlight], stack)
  /\ UNCHANGED <<camera, updatePending, moves, cache, showing, inside,
                 currentCells>>

ParentOf(c) == {p \in Cells : c \in ToSet(Kids[p])}

\* Fault: the parent is not told that the cell is loaded.
ShownTwice(c) == [showing EXCEPT ![c] = ToSet(Kids[c])]

\* The cell shows all its octants and its parent no longer shows it.
ShownLoaded(c) ==
  [d \in Cells |-> IF d = c THEN ToSet(Kids[c])
                   ELSE IF d \in ParentOf(c) THEN showing[d] \ {c}
                   ELSE showing[d]]

SmallEnough(c) == Kids[c] = << >> \/ Detail[query.view][c] <= query.level

\* A leaf, or a cell that is small enough, is drawn as it is.
DrawCell ==
  /\ InQueueLoop /\ HasCell /\ ~TooMany /\ SmallEnough(NextInQueue)
  /\ showing' = ShownLoaded(NextInQueue)
  /\ NextCell([query EXCEPT !.count = @ + 1], stack)
  /\ UNCHANGED <<camera, updatePending, moves, retries, requests, cache, inside,
                 currentCells>>

\* Any other is refined, child by child.
RefineCell ==
  /\ InQueueLoop /\ HasCell /\ ~TooMany /\ ~SmallEnough(NextInQueue)
  /\ showing' = ShownLoaded(NextInQueue)
  /\ query' = [query EXCEPT !.count = @ + 1]
  /\ stack' = Append(stack, CellFrame(NextInQueue))
  /\ UNCHANGED <<camera, updatePending, moves, retries, resumes, requests,
                 cache, inside, currentCells>>

InChildLoop == ~Idle /\ Last(stack).cell \in Cells
Parent == Last(stack).cell
MoreChildren == Last(stack).child <= Len(Kids[Parent])
Child == Kids[Parent][Last(stack).child]
ChildInFrustum(c, d) ==
  IF inside[c] < 1 THEN InFrustum[query.view][d] ELSE inside[c]
Wanted(c, d) == inside[c] > 0 \/ ChildInFrustum(c, d) > -1

\* A wanted child in the cache is queued at once; a processQueue is started
\* for it when none is known to run.
ChildHit ==
  /\ InChildLoop /\ MoreChildren /\ Wanted(Parent, Child) /\ Cached(Child)
  /\ cache' = Touched(cache, Child)
  /\ inside' = [inside EXCEPT ![Child] = ChildInFrustum(Parent, Child)]
  /\ query' = [query EXCEPT !.queue = Append(@, Child),
                            !.calls = IF query.processing THEN @ + 1 ELSE 0]
  /\ stack' = IF query.processing THEN AfterFrame
              ELSE Append(AfterFrame, QueueFrame)
  /\ UNCHANGED <<camera, updatePending, moves, retries, resumes, requests,
                 showing, currentCells>>

\* Any other wanted child is requested.  Its callback reads the variable
\* child_in_frustum of this call when the loop has ended: it has the value
\* of the last child.
ChildMiss ==
  /\ InChildLoop /\ MoreChildren /\ Wanted(Parent, Child) /\ ~Cached(Child)
  /\ requests' = requests \cup {Xhr(Child, ChildInFrustum(Parent, Last(Kids[Parent])))}
  /\ query' = [query EXCEPT !.inFlight = @ + 1]
  /\ stack' = AfterFrame
  /\ UNCHANGED <<camera, updatePending, moves, retries, resumes, cache, showing,
                 inside, currentCells>>

\* A child outside of the frustum: the parent does not show it either.
ChildOutside ==
  /\ InChildLoop /\ MoreChildren /\ ~Wanted(Parent, Child)
  /\ showing' = [showing EXCEPT ![Parent] = @ \ {Child}]
  /\ stack' = AfterFrame
  /\ UNCHANGED <<camera, updatePending, moves, query, retries, resumes, requests,
                 cache, inside, currentCells>>

ChildrenDone ==
  /\ InChildLoop /\ ~MoreChildren
  /\ NextCell(query, Front(stack))
  /\ UNCHANGED <<camera, updatePending, moves, retries, requests, cache, showing,
                 inside, currentCells>>

\* The queue is empty or the query was interrupted: the page gets copies of
\* the cells.  With no request in flight the query is finished, and a finer
\* one follows if there are few cells (fewer than Desired / 1.5).
EndOfQueue ==
  /\ InQueueLoop /\ ~HasCell
  /\ LET finished == query.inFlight <= 0
         cells == ToSet(query.queue)
     IN /\ query' = [query EXCEPT !.processing = FALSE,
                                  !.completed = finished \/ @]
        /\ retries' = IF finished /\ query.count * 3 < Desired * 2
                         /\ query.level - 1 >= MinLevel
                      THEN Append(retries, More) ELSE retries
        /\ currentCells' = [cells |-> cells, view |-> query.view,
                            showing |-> [c \in cells |-> showing[c]],
                            finished |-> finished,
                            interrupted |-> query.interrupted]
  /\ stack' = Front(stack)
  /\ UNCHANGED <<camera, updatePending, moves, resumes, requests, cache, showing,
                 inside>>

-----------------------------------------------------------------------------
(* Responses *)

\* onload with status 200: the cell is cached and queued.
OnLoad(r) ==
  /\ Idle /\ r \in requests
  /\ requests' = requests \ {r}
  /\ cache' = Put(cache, r.cell)
  /\ showing' = [showing EXCEPT ![r.cell] = {}]
  /\ inside' = [inside EXCEPT ![r.cell] = r.inside]
  /\ query' = [query EXCEPT !.queue = Append(@, r.cell), !.inFlight = @ - 1,
                            !.calls = IF ~query.processing THEN 0
                                      ELSE IF r.cell \in ToSet(Roots) THEN @
                                      ELSE @ + 1]
  /\ stack' = IF query.processing THEN << >> ELSE <<QueueFrame>>
  /\ UNCHANGED <<camera, updatePending, moves, retries, resumes, currentCells>>

\* Any other status: the failure callback writes a line to the console.
OnFailure(r) ==
  /\ Idle /\ r \in requests /\ r.cell \in Failing
  /\ requests' = requests \ {r}
  /\ UNCHANGED <<camera, updatePending, moves, query, retries, resumes, cache,
                 showing, inside, stack, currentCells>>

-----------------------------------------------------------------------------
Handler ==
  \/ RootHit \/ RootMiss \/ RootsDone
  \/ Interrupt \/ DrawCell \/ RefineCell \/ ChildHit \/ ChildMiss
  \/ ChildOutside \/ ChildrenDone \/ EndOfQueue

Answer(c) == \E r \in requests : r.cell = c /\ OnLoad(r)

Next ==
  \/ \E v \in Views : MoveCamera(v)
  \/ GetFrustum \/ Retry \/ BreakLoop \/ Resume
  \/ Handler
  \/ \E r \in requests : OnLoad(r)
  \/ \E r \in requests : OnFailure(r)

Spec == Init /\ [][Next]_vars

\* The browser runs a handler to its end, fires every timer and delivers
\* every response; nobody has to move the camera.
FairSpec ==
  /\ Spec
  /\ WF_vars(Handler) /\ WF_vars(GetFrustum) /\ WF_vars(Retry \/ BreakLoop)
  /\ WF_vars(Resume) /\ \A c \in Cells : WF_vars(Answer(c))

-----------------------------------------------------------------------------
(* Properties *)

\* The cells that processCell has seen in this query.
Processed == ToSet(SubSeq(query.queue, 1, query.index))

\* A response belongs to the query that receives it: a request that the server
\* has not answered is for a root or for a child of a cell this query has
\* processed or is processing, and it is counted in inFlight, by which
\* triggerFrustum decides whether there are requests to abort.  Until the query
\* is interrupted no cell on request is in the queue, and between two handlers
\* none is on request twice, so that none on request is queued twice.  (Calls of
\* processCell within one another do request cells again, and an interruption
\* ends them.)
RequestsCurrent ==
  /\ \A r \in requests :
       \/ r.cell \in ToSet(Roots)
       \/ ParentOf(r.cell) \cap
            (Processed \cup {stack[i].cell : i \in 1..Len(stack)}) # {}
  /\ Cardinality(requests) <= query.inFlight
  /\ ~query.interrupted => \A r \in requests :
       /\ r.cell \notin ToSet(query.queue)
       /\ Idle => \A s \in requests : s.cell = r.cell => s = r

\* What the page draws has neither holes nor overlaps, however the responses
\* were ordered and whichever failed: of a child that is in view, either the
\* child itself or its octant of the parent is drawn, and never both
\* (show_children).  An interrupted query promises nothing.
NoHolesNoOverlap ==
  ~currentCells.interrupted =>
    \A c \in currentCells.cells : \A d \in ToSet(Kids[c]) :
      /\ d \in currentCells.cells => d \notin currentCells.showing[c]
      /\ d \notin currentCells.cells /\ InFrustum[currentCells.view][d] # -1
           => d \in currentCells.showing[c]

\* When the camera stops, the timers that ask for more and for fewer cells die
\* out, and the page keeps the result of a query for that camera.  It is
\* finished unless a child of one of its cells could not be loaded, as a failed
\* request stays counted in inFlight and finishedCallback is called at 0 only;
\* in an interrupted query another request for that child may have brought it.
\* (A root that cannot be loaded leaves the page with nothing of its tree.)
SettlesOnCamera ==
  <>[](/\ Idle /\ retries = << >> /\ resumes = 0 /\ requests = {}
       /\ currentCells.view = camera
       /\ \/ currentCells.finished
          \/ \E c \in Failing :
               /\ ParentOf(c) \cap currentCells.cells # {}
               /\ c \notin currentCells.cells \/ currentCells.interrupted)
=============================================================================
