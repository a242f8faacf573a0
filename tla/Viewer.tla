------------------------------- MODULE Viewer -------------------------------
(***************************************************************************)
(* The page of the web client with its two servers: the trees it shows,    *)
(* the selection, the road detection jobs, and the requests under way      *)
(* (src/megatree_web/js: index.js, megatree.js, road_detection.js,         *)
(* selection.js; src/megatree_server/src/server.cpp).                      *)
(*                                                                         *)
(* The browser runs one handler at a time, so a handler is one step; the   *)
(* user, the timers and the responses come between any two of them.  A     *)
(* handler that throws keeps what it has done so far.  Coordinates,        *)
(* colours, drawing and the distances measured, which no handler decides   *)
(* by, are left out; the motion of the camera is module OrbitCam and the   *)
(* frustum query module FrustumQuerier.                                    *)
(***************************************************************************)
EXTENDS Naturals, Sequences, FiniteSets

CONSTANTS
  UrlTrees,        \* the trees named in the address of the page
  JobTrees,        \* the result tree of the first job, of the second, ...
  WithViewpoint,   \* the trees whose metadata has a default camera
  UrlView,         \* whether the address of the page has a viewpoint
  NoTree,          \* the null of an entry that was removed
  MaxFaults        \* bound: answers with a status other than 200, requests or
                   \* answers lost, and restarts of the file server together

Jobs == 1..Len(JobTrees)
Trees == UrlTrees \cup {JobTrees[j] : j \in Jobs}

ASSUME ViewerAssumption ==
  /\ UrlView \in BOOLEAN /\ JobTrees \in Seq(Trees) /\ NoTree \notin Trees
  /\ \A i, j \in Jobs : JobTrees[i] = JobTrees[j] => i = j
  /\ \A i \in Jobs : JobTrees[i] \notin UrlTrees
  /\ MaxFaults \in Nat

VARIABLES
  trees_info,      \* a sequence of trees, Null where one was removed
  cam,             \* "none", or where the viewpoint came from
  existing_frustum_trigger,
  queried,         \* the trees of the last frustum query
  currentCells,    \* whether there are cells on the screen to pick from
  selection,       \* "none", "point" or "box"
  mouseButtonDown, \* 4 during a selection, 0 otherwise
  jobs_info,       \* the jobs started, in order
  request,         \* for each tree, the request or timer under way
  served,          \* g_storage_map of the file server
  failures, lost, restarts

screen == <<queried, currentCells>>
mouse == <<selection, mouseButtonDown>>
faults == <<failures, lost, restarts>>
FaultLeft == failures + lost + restarts < MaxFaults

vars == <<trees_info, cam, existing_frustum_trigger, screen, mouse, jobs_info,
          request, served, faults>>

Null == [name |-> NoTree, enabled |-> FALSE]

\* A request: what is asked for, and where it is.  An answered one waits for
\* its onload; a timer will send it.
Idle == [what |-> "nothing", at |-> "none"]
Sent(w) == [what |-> w, at |-> "sent"]
Timer(w) == [what |-> w, at |-> "timer"]

\* start(): the camera of the address if there is one, and the metadata of
\* every tree in the address.
Init ==
  /\ trees_info = << >> /\ jobs_info = << >>
  /\ cam = (IF UrlView THEN "url" ELSE "none")
  /\ existing_frustum_trigger = UrlView
  /\ queried = {} /\ currentCells = FALSE
  /\ selection = "none" /\ mouseButtonDown = 0
  /\ request = [t \in Trees |-> IF t \in UrlTrees THEN Sent("metadata") ELSE Idle]
  /\ served = UrlTrees
  /\ failures = 0 /\ lost = 0 /\ restarts = 0

-----------------------------------------------------------------------------
(* The trees shown *)

EnabledTrees == {trees_info[i].name : i \in {k \in DOMAIN trees_info : trees_info[k].enabled}}

\* triggerFrustumUpdate: without a camera nothing happens.
TriggerFrustumUpdate ==
  existing_frustum_trigger' = (existing_frustum_trigger \/ cam' # "none")

\* The timer it sets: the query goes over the trees of now.  A query without
\* trees never calls back, so the cells on the screen stay.
FrustumTimer ==
  /\ existing_frustum_trigger /\ existing_frustum_trigger' = FALSE
  /\ queried' = EnabledTrees
  /\ currentCells' = (currentCells \/ EnabledTrees # {})
  /\ UNCHANGED <<trees_info, cam, mouse, jobs_info, request, served, faults>>

\* The sliders, the key f, the resized window, a motion of the camera.
Retrigger ==
  /\ cam # "none" /\ UNCHANGED cam /\ TriggerFrustumUpdate
  /\ UNCHANGED <<trees_info, screen, mouse, jobs_info, request, served, faults>>

\* toggleTreeMode, the keys 1 to 9; it throws on a tree that was removed.
\* With shift it changes the colour and enables the tree.
ToggleTreeMode(i, shift) ==
  /\ cam # "none" /\ trees_info[i] # Null
  /\ trees_info' = [trees_info EXCEPT ![i].enabled = shift \/ ~@]
  /\ UNCHANGED cam /\ TriggerFrustumUpdate
  /\ UNCHANGED <<screen, mouse, jobs_info, request, served, faults>>

\* Fault in AddTree: only a new camera triggers a query.
AddTreeNoTrigger(t) ==
  /\ trees_info' = Append(trees_info, [name |-> t, enabled |-> TRUE])
  /\ cam' = IF cam = "none" THEN "metadata" ELSE cam
  /\ existing_frustum_trigger' = (existing_frustum_trigger \/ cam' # cam)

\* addTree: a viewpoint of the metadata replaces every camera but that of the
\* address.
AddTree(t) ==
  /\ trees_info' = Append(trees_info, [name |-> t, enabled |-> TRUE])
  /\ cam' = IF cam = "none" \/ (t \in WithViewpoint /\ cam # "url")
            THEN "metadata" ELSE cam
  /\ TriggerFrustumUpdate

-----------------------------------------------------------------------------
(* The mouse.  The listeners are set with the first camera. *)

\* onMouseDown without shift, which begins a drag of the camera.
MouseDown ==
  /\ cam # "none" /\ mouseButtonDown' = 0
  /\ UNCHANGED <<trees_info, cam, existing_frustum_trigger, screen, selection,
                 jobs_info, request, served, faults>>

\* onMouseDown with shift on a point; without a point it throws.
ShiftMouseDown ==
  /\ cam # "none" /\ currentCells
  /\ mouseButtonDown' = 4 /\ selection' = "point"
  /\ UNCHANGED <<trees_info, cam, existing_frustum_trigger, screen, jobs_info,
                 request, served, faults>>

\* onMouseMove of a selection, which throws when the selection is gone.
MouseMove ==
  /\ mouseButtonDown = 4 /\ selection # "none"
  /\ selection' = "box"
  /\ UNCHANGED <<trees_info, cam, existing_frustum_trigger, screen,
                 mouseButtonDown, jobs_info, request, served, faults>>

\* onMouseUp; assert(selection) throws before the button is reset.
MouseUp ==
  /\ cam # "none" /\ ~(mouseButtonDown = 4 /\ selection = "none")
  /\ mouseButtonDown' = 0
  /\ UNCHANGED <<trees_info, cam, existing_frustum_trigger, screen, selection,
                 jobs_info, request, served, faults>>

\* The key Escape: clearSelection.
Escape ==
  /\ cam # "none" /\ selection' = "none"
  /\ UNCHANGED <<trees_info, cam, existing_frustum_trigger, screen,
                 mouseButtonDown, jobs_info, request, served, faults>>

-----------------------------------------------------------------------------
(* Road detection jobs *)

Settled(job) == job.finished \/ job.failed \/ job.removed

\* The button "Start job".  lookAt throws for a selection that is a point, and
\* onRoadButtonClicked, which has added the job by then, without a first tree.
StartJob ==
  /\ Len(jobs_info) < Len(JobTrees)
  /\ jobs_info # << >> => Settled(jobs_info[Len(jobs_info)])
  /\ selection = "box"
  /\ jobs_info' = Append(jobs_info, [finished |-> FALSE, failed |-> FALSE,
                                     removed |-> FALSE, tree_name |-> NoTree])
  /\ request' = IF trees_info = << >> \/ trees_info[1] = Null THEN request
                ELSE [request EXCEPT ![JobTrees[Len(jobs_info')]] = Sent("detect")]
  /\ UNCHANGED <<trees_info, cam, existing_frustum_trigger, screen, mouse,
                 served, faults>>

\* Fault in RemoveJob: it returns once it has found the tree.
RemoveJobReturnsEarly(j) ==
  LET mine(i) == jobs_info[j].tree_name # NoTree
                   /\ trees_info[i].name = jobs_info[j].tree_name
  IN /\ ~jobs_info[j].removed
     /\ jobs_info' = [jobs_info EXCEPT ![j].removed =
                        ~\E i \in DOMAIN trees_info : mine(i)]
     /\ trees_info' = [i \in DOMAIN trees_info |-> IF mine(i) THEN Null ELSE trees_info[i]]
     /\ UNCHANGED cam /\ TriggerFrustumUpdate
     /\ UNCHANGED <<screen, mouse, request, served, faults>>

\* JobInfo.remove: nothing of the road detection is cancelled.
RemoveJob(j) ==
  LET mine(i) == jobs_info[j].tree_name # NoTree
                   /\ trees_info[i].name = jobs_info[j].tree_name
  IN /\ ~jobs_info[j].removed
     /\ jobs_info' = [jobs_info EXCEPT ![j].removed = TRUE]
     /\ trees_info' = [i \in DOMAIN trees_info |-> IF mine(i) THEN Null ELSE trees_info[i]]
     /\ UNCHANGED cam
     /\ IF \E i \in DOMAIN trees_info : mine(i) THEN TriggerFrustumUpdate
        ELSE UNCHANGED existing_frustum_trigger
     /\ UNCHANGED <<screen, mouse, request, served, faults>>

\* The request of tree t becomes r, and nothing else of the page changes.
Continue(t, r) ==
  /\ request' = [request EXCEPT ![t] = r]
  /\ UNCHANGED <<trees_info, cam, existing_frustum_trigger, screen, mouse, jobs_info>>

JobFails(j) ==
  /\ jobs_info' = [jobs_info EXCEPT ![j].failed = TRUE]
  /\ request' = [request EXCEPT ![JobTrees[j]] = Idle]
  /\ UNCHANGED <<trees_info, cam, existing_frustum_trigger, screen, mouse>>

\* The algorithm server accepts the box: poll the progress.
DetectOk(j) ==
  /\ request[JobTrees[j]] = Sent("detect") /\ Continue(JobTrees[j], Sent("progress"))
  /\ UNCHANGED <<served, faults>>

\* pollRoadDetectionProgress and pollRoadDetectionCompletion: not done yet.
NotYet(j, w) ==
  /\ w \in {"progress", "completion"}
  /\ request[JobTrees[j]] = Sent(w) /\ Continue(JobTrees[j], Timer(w))
  /\ UNCHANGED <<served, faults>>

ProgressDone(j) ==
  /\ request[JobTrees[j]] = Sent("progress") /\ Continue(JobTrees[j], Sent("completion"))
  /\ UNCHANGED <<served, faults>>

\* finishedCallback: the tree has its name, and is served unless the job was
\* removed.
CompletionDone(j) ==
  /\ request[JobTrees[j]] = Sent("completion")
  /\ jobs_info' = [jobs_info EXCEPT ![j].tree_name = JobTrees[j]]
  /\ request' = [request EXCEPT ![JobTrees[j]] =
                   IF jobs_info[j].removed THEN Idle ELSE Sent("serve")]
  /\ UNCHANGED <<trees_info, cam, existing_frustum_trigger, screen, mouse,
                 served, faults>>

\* The timeout of a poll.
PollTimer(j, w) ==
  /\ request[JobTrees[j]] = Timer(w) /\ Continue(JobTrees[j], Sent(w))
  /\ UNCHANGED <<served, faults>>

\* Fault in AlgorithmError: a poll that fails is not tried again.
AlgorithmErrorGivesUp(j, w) ==
  /\ w \in {"detect", "progress", "completion"}
  /\ request[JobTrees[j]] = Sent(w)
  /\ FaultLeft /\ failures' = failures + 1
  /\ IF w = "detect" THEN JobFails(j) ELSE Continue(JobTrees[j], Idle)
  /\ UNCHANGED <<served, lost, restarts>>

\* A status other than 200 from the algorithm server: a poll tries again.
AlgorithmError(j, w) ==
  /\ w \in {"detect", "progress", "completion"}
  /\ request[JobTrees[j]] = Sent(w)
  /\ FaultLeft /\ failures' = failures + 1
  /\ IF w = "detect" THEN JobFails(j) ELSE Continue(JobTrees[j], Timer(w))
  /\ UNCHANGED <<served, lost, restarts>>

-----------------------------------------------------------------------------
(* The file server *)

\* serve_new_tree: the tree is opened before the answer goes out.  For a name
\* it does not accept the answer is empty; the algorithm server chose the name.
ServeNewTree(t, accepted) ==
  /\ request[t] = Sent("serve")
  /\ served' = IF accepted THEN served \cup {t} ELSE served
  /\ request' = [request EXCEPT ![t].at = IF accepted THEN "ok" ELSE "error"]
  /\ UNCHANGED <<trees_info, cam, existing_frustum_trigger, screen, mouse,
                 jobs_info, faults>>

\* emitFile: a request for a tree it does not serve is never answered.  The
\* file may be missing.
EmitFile(t, found) ==
  /\ request[t] = Sent("metadata")
  /\ IF t \in served
     THEN /\ found \/ FaultLeft
          /\ failures' = (IF found THEN failures ELSE failures + 1)
          /\ request' = [request EXCEPT ![t].at = IF found THEN "ok" ELSE "error"]
     ELSE /\ request' = [request EXCEPT ![t].at = "lost"] /\ UNCHANGED failures
  /\ UNCHANGED <<trees_info, cam, existing_frustum_trigger, screen, mouse,
                 jobs_info, served, lost, restarts>>

\* The server forgets the trees it was told to serve.
Restart ==
  /\ FaultLeft /\ restarts' = restarts + 1
  /\ served' = UrlTrees
  /\ UNCHANGED <<trees_info, cam, existing_frustum_trigger, screen, mouse,
                 jobs_info, request, failures, lost>>

\* A request or its answer is lost; the page has no onerror handler.
Lose(t) ==
  /\ request[t].at \in {"sent", "ok", "error"}
  /\ FaultLeft /\ lost' = lost + 1
  /\ Continue(t, [request[t] EXCEPT !.at = "lost"])
  /\ UNCHANGED <<served, failures, restarts>>

\* onload of serveNewTree.
ServeOnload(j) ==
  /\ request[JobTrees[j]].what = "serve"
  /\ CASE request[JobTrees[j]].at = "ok" -> Continue(JobTrees[j], Sent("metadata"))
       [] request[JobTrees[j]].at = "error" -> JobFails(j)
       [] OTHER -> FALSE
  /\ UNCHANGED <<served, faults>>

\* onload of getMetaData for a tree of the address; an error is ignored.
UrlMetadataOnload(t) ==
  /\ request[t].what = "metadata" /\ request[t].at \in {"ok", "error"}
  /\ request' = [request EXCEPT ![t] = Idle]
  /\ IF request[t].at = "ok" THEN AddTree(t)
     ELSE UNCHANGED <<trees_info, cam, existing_frustum_trigger>>
  /\ UNCHANGED <<screen, mouse, jobs_info, served, faults>>

\* onload of getMetaData for the result of a job: the tree is added; if the
\* job was not removed it has finished, and the selection is cleared.
JobMetadataOnload(j) ==
  LET t == JobTrees[j] IN
  /\ request[t].what = "metadata"
  /\ CASE request[t].at = "error" -> JobFails(j)
       [] request[t].at = "ok" ->
            /\ request' = [request EXCEPT ![t] = Idle]
            /\ AddTree(t)
            /\ jobs_info' = [jobs_info EXCEPT ![j].finished = ~jobs_info[j].removed]
            /\ selection' = IF jobs_info[j].removed THEN selection ELSE "none"
            /\ UNCHANGED <<screen, mouseButtonDown>>
       [] OTHER -> FALSE
  /\ UNCHANGED <<served, faults>>

-----------------------------------------------------------------------------
Next ==
  \/ FrustumTimer \/ Retrigger
  \/ \E i \in DOMAIN trees_info, shift \in BOOLEAN : ToggleTreeMode(i, shift)
  \/ MouseDown \/ ShiftMouseDown \/ MouseMove \/ MouseUp \/ Escape
  \/ StartJob \/ \E j \in DOMAIN jobs_info : RemoveJob(j)
  \/ \E j \in Jobs :
       \/ DetectOk(j) \/ ProgressDone(j) \/ CompletionDone(j)
       \/ ServeOnload(j) \/ JobMetadataOnload(j)
       \/ \E w \in {"detect", "progress", "completion"} :
            NotYet(j, w) \/ PollTimer(j, w) \/ AlgorithmError(j, w)
  \/ \E t \in Trees :
       \/ \E b \in BOOLEAN : ServeNewTree(t, b) \/ EmitFile(t, b)
       \/ Lose(t)
  \/ \E t \in UrlTrees : UrlMetadataOnload(t)
  \/ Restart

Spec == Init /\ [][Next]_vars

\* What the browser and the servers owe a job that has a request.
JobStep(j) ==
  \/ DetectOk(j) \/ ServeOnload(j) \/ JobMetadataOnload(j)
  \/ \E w \in {"progress", "completion"} : PollTimer(j, w)
  \/ \E b \in BOOLEAN : ServeNewTree(JobTrees[j], b) \/ EmitFile(JobTrees[j], b)

\* A request that is not lost is answered, an answer is handled, a timer
\* fires, and road detection ends after some number of polls.
FairSpec ==
  /\ Spec
  /\ \A j \in Jobs :
       WF_vars(JobStep(j)) /\ SF_vars(ProgressDone(j)) /\ SF_vars(CompletionDone(j))

-----------------------------------------------------------------------------
(* Properties *)

Shown(t) == {i \in DOMAIN trees_info : trees_info[i].name = t}

\* At most one job is under way, and it has a request, a timer or a lost
\* request: the test of "Start job" on the last job is enough, and there is
\* always a first tree to detect roads on.  The result of a job is in trees_info
\* exactly if the job has finished, and once; a job that was removed leaves at
\* most one (index.js, start and onRoadButtonClicked, against JobInfo.remove).
JobsConsistent ==
  \A j \in DOMAIN jobs_info :
    /\ ~Settled(jobs_info[j]) => j = Len(jobs_info) /\ request[JobTrees[j]] # Idle
    /\ Cardinality(Shown(JobTrees[j])) \in
         (IF jobs_info[j].removed THEN {0, 1}
          ELSE IF jobs_info[j].finished THEN {1} ELSE {0})

\* Without a trigger pending, the last frustum query was about the trees that
\* are enabled now (index.js, triggerFrustumUpdate and its callers).
QueryCurrent ==
  cam # "none" /\ ~existing_frustum_trigger => queried = EnabledTrees

\* A job that was started finishes, fails or is removed, unless a request of
\* it got no answer (road_detection.js).
JobSettles ==
  \A j \in Jobs : (j \in DOMAIN jobs_info) ~>
    (j \in DOMAIN jobs_info
       /\ (Settled(jobs_info[j]) \/ request[JobTrees[j]].at = "lost"))
=============================================================================
