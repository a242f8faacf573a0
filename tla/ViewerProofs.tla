---------------------------- MODULE ViewerProofs ----------------------------
(***************************************************************************)
(* Theorems about Viewer, for all trees, jobs and numbers of faults.       *)
(***************************************************************************)
EXTENDS Viewer, FiniteSetTheorems, TLAPS

TreeInfo == [name : Trees \cup {NoTree}, enabled : BOOLEAN]
JobInfo == [finished : BOOLEAN, failed : BOOLEAN, removed : BOOLEAN,
            tree_name : Trees \cup {NoTree}]
Request ==
  [what : {"nothing", "metadata", "detect", "progress", "completion", "serve"},
   at : {"none", "sent", "timer", "ok", "error", "lost"}]

Typed ==
  /\ trees_info \in Seq(TreeInfo)
  /\ jobs_info \in Seq(JobInfo) /\ Len(jobs_info) <= Len(JobTrees)
  /\ request \in [Trees -> Request]
  /\ cam \in {"none", "url", "metadata"} /\ existing_frustum_trigger \in BOOLEAN
  /\ currentCells \in BOOLEAN

\* Nothing on the page has the name t, or one entry at most.
Unseen(t) == \A i \in DOMAIN trees_info : trees_info[i].name # t
SeenOnce(t) ==
  \A i, k \in DOMAIN trees_info :
    trees_info[i].name = t /\ trees_info[k].name = t => i = k

\* A job has a request or a result, and neither before it is started.
JobState(j) ==
  LET t == JobTrees[j] IN
  /\ j > Len(jobs_info) => request[t] = Idle /\ Unseen(t)
  /\ request[t] # Idle => Unseen(t) /\ ~jobs_info[j].finished /\ ~jobs_info[j].failed
  /\ SeenOnce(t)
  /\ j <= Len(jobs_info) =>
       /\ jobs_info[j].tree_name \in {NoTree, t}
       /\ ~Settled(jobs_info[j]) => j = Len(jobs_info) /\ request[t] # Idle
       /\ ~jobs_info[j].removed => (jobs_info[j].finished <=> ~Unseen(t))
RequestInv == \A j \in Jobs : JobState(j)

\* The first tree is one of the address, which no job removes, and without a
\* tree there is nothing to select and no job.
FirstInv ==
  /\ trees_info # << >> => trees_info[1].name \in UrlTrees
  /\ jobs_info # << >> \/ selection # "none" \/ currentCells => trees_info # << >>

\* The inductive invariant.  JobsConsistent does not say where the requests of a
\* job are, that the name it removes is that of its own result, or why there is
\* a first tree.
IInv == Typed /\ RequestInv /\ FirstInv /\ QueryCurrent

-----------------------------------------------------------------------------
(* Trees, jobs and requests *)

LEMMA TreesOfJobs ==
  /\ \A j \in Jobs : JobTrees[j] \in Trees /\ JobTrees[j] \notin UrlTrees
  /\ \A i, j \in Jobs : JobTrees[i] = JobTrees[j] => i = j
  /\ UrlTrees \subseteq Trees /\ NoTree \notin Trees /\ Len(JobTrees) \in Nat
BY ViewerAssumption DEF Jobs, Trees

LEMMA RequestTypes ==
  /\ Idle \in Request
  /\ \A w \in {"metadata", "detect", "progress", "completion", "serve"} :
       /\ Sent(w) \in Request /\ Sent(w) # Idle
       /\ Timer(w) \in Request /\ Timer(w) # Idle
BY DEF Request, Idle, Sent, Timer

\* A job with a request has been started.
LEMMA HasRequest ==
  ASSUME Typed, RequestInv, NEW j \in Jobs, request[JobTrees[j]] # Idle
  PROVE  j \in DOMAIN jobs_info /\ j \in 1..Len(jobs_info)
<1>1. j <= Len(jobs_info)
  BY DEF RequestInv, JobState, Typed, Jobs
<1> QED BY <1>1 DEF Typed, Jobs

\* The parts of the page a step leaves alone.
LEMMA SameNames ==
  ASSUME Typed, NEW t, DOMAIN trees_info' = DOMAIN trees_info,
         \A i \in DOMAIN trees_info : trees_info'[i].name = trees_info[i].name
  PROVE  (Unseen(t)' <=> Unseen(t)) /\ (SeenOnce(t)' <=> SeenOnce(t))
BY DEF Unseen, SeenOnce

\* A request goes on: it was not idle and does not become idle.
LEMMA RequestGoesOn ==
  ASSUME IInv, NEW t \in Trees, NEW r \in Request, request[t] # Idle, r # Idle,
         request' = [request EXCEPT ![t] = r],
         UNCHANGED <<trees_info, cam, existing_frustum_trigger, screen, mouse, jobs_info>>
  PROVE  IInv'
<1>1. Typed'
  BY DEF IInv, Typed, screen, mouse
<1>2. \A u \in Trees : request'[u] = Idle <=> request[u] = Idle
  BY DEF IInv, Typed
<1>3. RequestInv'
  <2> SUFFICES ASSUME NEW j \in Jobs PROVE JobState(j)'
    BY DEF RequestInv
  <2>1. JobState(j) /\ JobTrees[j] \in Trees
    BY TreesOfJobs DEF IInv, RequestInv
  <2> QED BY <1>2, <2>1 DEF JobState, Unseen, SeenOnce, Settled
<1>4. FirstInv' /\ QueryCurrent'
  BY DEF IInv, FirstInv, QueryCurrent, EnabledTrees, screen, mouse
<1> QED BY <1>1, <1>3, <1>4 DEF IInv

\* The state a step of job j leaves of the others.
LEMMA OtherJobs ==
  ASSUME IInv, NEW j \in DOMAIN jobs_info, NEW job \in JobInfo,
         NEW r \in Request, NEW k \in Jobs, k # j,
         jobs_info' = [jobs_info EXCEPT ![j] = job],
         request' = [request EXCEPT ![JobTrees[j]] = r],
         Unseen(JobTrees[k])' <=> Unseen(JobTrees[k]),
         SeenOnce(JobTrees[k])' <=> SeenOnce(JobTrees[k])
  PROVE  JobState(k)'
<1>1. j \in Jobs /\ Len(jobs_info') = Len(jobs_info) /\ Len(jobs_info) \in Nat
  BY DEF IInv, Typed, Jobs
<1>2. JobTrees[k] # JobTrees[j] /\ JobTrees[k] \in Trees
  BY <1>1, TreesOfJobs
<1>3. request'[JobTrees[k]] = request[JobTrees[k]]
  BY <1>2 DEF IInv, Typed
<1>4. jobs_info'[k] = jobs_info[k] \/ k \notin DOMAIN jobs_info
  BY DEF IInv, Typed
<1>5. JobState(k)
  BY DEF IInv, RequestInv
<1>6. CASE k \in DOMAIN jobs_info
  BY <1>1, <1>3, <1>4, <1>5, <1>6 DEF JobState, Settled
<1>7. CASE k \notin DOMAIN jobs_info
  <2>1. k > Len(jobs_info) /\ ~(k <= Len(jobs_info))
    BY <1>7, <1>1 DEF IInv, Typed, Jobs
  <2> QED BY <1>1, <1>3, <1>5, <2>1 DEF JobState
<1> QED BY <1>6, <1>7

\* A job fails.
LEMMA JobFailsKeeps ==
  ASSUME IInv, NEW j \in Jobs, request[JobTrees[j]] # Idle, JobFails(j)
  PROVE  IInv'
<1>1. j \in DOMAIN jobs_info /\ j \in 1..Len(jobs_info)
  BY HasRequest DEF IInv
<1> DEFINE job == [jobs_info[j] EXCEPT !.failed = TRUE]
<1>2. jobs_info[j] \in JobInfo /\ job \in JobInfo /\ jobs_info' = [jobs_info EXCEPT ![j] = job]
  <2>1. jobs_info[j] \in JobInfo
    BY <1>1 DEF IInv, Typed
  <2>2. job \in JobInfo
    BY <2>1 DEF JobInfo
  <2>3. jobs_info' = [jobs_info EXCEPT ![j].failed = TRUE]
    BY DEF JobFails
  <2> QED BY <1>1, <2>1, <2>2, <2>3
<1>3. JobTrees[j] \in Trees /\ request' = [request EXCEPT ![JobTrees[j]] = Idle]
  BY TreesOfJobs DEF JobFails
<1>4. Typed' /\ Len(jobs_info') = Len(jobs_info)
  BY <1>1, <1>2, <1>3, RequestTypes DEF IInv, Typed, JobFails, screen, mouse
<1>5. \A t : (Unseen(t)' <=> Unseen(t)) /\ (SeenOnce(t)' <=> SeenOnce(t))
  BY DEF JobFails, Unseen, SeenOnce
<1>6. JobState(j)'
  <2>1. request'[JobTrees[j]] = Idle /\ jobs_info'[j] = job
    BY <1>1, <1>2, <1>3 DEF IInv, Typed
  <2>2. JobState(j) /\ j <= Len(jobs_info) /\ Len(jobs_info) \in Nat
    BY <1>1 DEF IInv, RequestInv, Typed
  <2> QED BY <1>1, <1>2, <1>4, <1>5, <2>1, <2>2 DEF JobState, Settled, JobInfo
<1>7. RequestInv'
  BY <1>1, <1>2, <1>3, <1>5, <1>6, OtherJobs, RequestTypes DEF RequestInv
<1>8. jobs_info # << >>
  BY <1>1
<1>9. FirstInv' /\ QueryCurrent'
  BY <1>8 DEF IInv, FirstInv, QueryCurrent, EnabledTrees, screen, mouse, JobFails
<1> QED BY <1>4, <1>7, <1>9 DEF IInv

-----------------------------------------------------------------------------
(* The trees *)

\* A tree is added, and a query will come.
LEMMA AddTreeFacts ==
  ASSUME Typed, NEW t \in Trees, AddTree(t)
  PROVE  /\ trees_info' \in Seq(TreeInfo) /\ trees_info' # << >>
         /\ DOMAIN trees_info' = 1..(Len(trees_info) + 1)
         /\ \A i \in 1..Len(trees_info) : trees_info'[i] = trees_info[i]
         /\ trees_info'[Len(trees_info) + 1].name = t
         /\ trees_info = << >> => trees_info'[1].name = t
         /\ cam' \in {"none", "url", "metadata"} /\ existing_frustum_trigger' = TRUE
<1> DEFINE e == [name |-> t, enabled |-> TRUE]
<1>1. e \in TreeInfo /\ e.name = t /\ trees_info' = Append(trees_info, e) /\ trees_info \in Seq(TreeInfo)
  BY DEF TreeInfo, AddTree, Typed
<1> HIDE DEF e
<1>2. /\ trees_info' \in Seq(TreeInfo) /\ trees_info' # << >>
      /\ DOMAIN trees_info' = 1..(Len(trees_info) + 1)
      /\ \A i \in 1..Len(trees_info) : trees_info'[i] = trees_info[i]
      /\ trees_info'[Len(trees_info) + 1] = e
      /\ trees_info = << >> => trees_info'[1] = e
  BY <1>1
<1>3. cam' # "none" /\ cam' \in {"none", "url", "metadata"}
  BY DEF AddTree, Typed
<1>4. existing_frustum_trigger' = TRUE
  BY <1>3 DEF AddTree, TriggerFrustumUpdate, Typed
<1> QED BY <1>1, <1>2, <1>3, <1>4

\* What the names say after it.
LEMMA AddTreeNames ==
  ASSUME Typed, NEW t \in Trees, AddTree(t)
  PROVE  /\ \A u : u # t => (Unseen(u)' <=> Unseen(u)) /\ (SeenOnce(u)' <=> SeenOnce(u))
         /\ ~Unseen(t)' /\ (Unseen(t) => SeenOnce(t)')
<1> DEFINE n == Len(trees_info) + 1
<1>1. /\ DOMAIN trees_info' = 1..n /\ n \in Nat /\ n \in 1..n
      /\ \A i \in 1..n : i = n \/ i \in DOMAIN trees_info
      /\ \A i \in DOMAIN trees_info : i \in 1..n /\ i # n /\ trees_info'[i].name = trees_info[i].name
      /\ trees_info'[n].name = t
  <2>1. Len(trees_info) \in Nat /\ DOMAIN trees_info = 1..Len(trees_info)
    BY DEF Typed
  <2>2. n \in Nat /\ n \in 1..n /\ \A i \in 1..n : i = n \/ i \in DOMAIN trees_info
    BY <2>1
  <2>3. \A i \in DOMAIN trees_info : i \in 1..n /\ i # n
    BY <2>1
  <2>4. DOMAIN trees_info' = 1..n /\ trees_info'[n].name = t
    BY AddTreeFacts
  <2>5. \A i \in DOMAIN trees_info : trees_info'[i] = trees_info[i]
    BY <2>1, AddTreeFacts
  <2> QED BY <2>2, <2>3, <2>4, <2>5
<1> HIDE DEF n
<1>2. ASSUME NEW u, u # t
      PROVE  (Unseen(u)' <=> Unseen(u)) /\ (SeenOnce(u)' <=> SeenOnce(u))
  BY <1>1, <1>2 DEF Unseen, SeenOnce
<1>3. ~Unseen(t)' /\ (Unseen(t) => SeenOnce(t)')
  BY <1>1 DEF Unseen, SeenOnce
<1> QED BY <1>2, <1>3

\* Metadata arrives for a tree of the address.
LEMMA UrlMetadataOnloadKeeps ==
  ASSUME IInv, NEW t \in UrlTrees, UrlMetadataOnload(t)
  PROVE  IInv'
<1>1. t \in Trees /\ \A j \in Jobs : JobTrees[j] # t /\ JobTrees[j] \in Trees
  BY TreesOfJobs
<1>2. /\ request' = [request EXCEPT ![t] = Idle]
      /\ UNCHANGED <<jobs_info, selection, currentCells, queried>>
  BY DEF UrlMetadataOnload, screen, mouse
<1>3. request' \in [Trees -> Request] /\ \A j \in Jobs : request'[JobTrees[j]] = request[JobTrees[j]]
  BY <1>1, <1>2, RequestTypes DEF IInv, Typed
<1>4. CASE AddTree(t)
  <2>1. Typed'
    BY <1>1, <1>2, <1>3, <1>4, AddTreeFacts DEF IInv, Typed
  <2>2. RequestInv'
    <3> SUFFICES ASSUME NEW j \in Jobs PROVE JobState(j)'
      BY DEF RequestInv
    <3>1. JobState(j)
      BY DEF IInv, RequestInv
    <3>2. (Unseen(JobTrees[j])' <=> Unseen(JobTrees[j])) /\ (SeenOnce(JobTrees[j])' <=> SeenOnce(JobTrees[j]))
      BY <1>1, <1>4, AddTreeNames DEF IInv
    <3> QED BY <1>2, <1>3, <3>1, <3>2 DEF JobState
  <2>3. FirstInv'
    <3>1. trees_info' # << >> /\ existing_frustum_trigger' = TRUE
      BY <1>1, <1>4, AddTreeFacts DEF IInv
    <3>2. CASE trees_info = << >>
      BY <1>1, <1>4, <3>1, <3>2, AddTreeFacts DEF IInv, FirstInv
    <3>3. CASE trees_info # << >>
      <4>1. 1 \in 1..Len(trees_info)
        BY <3>3 DEF IInv, Typed
      <4> QED BY <1>1, <1>4, <3>1, <3>3, <4>1, AddTreeFacts DEF IInv, FirstInv
    <3> QED BY <3>2, <3>3
  <2>4. QueryCurrent'
    BY <1>1, <1>4, AddTreeFacts DEF IInv, QueryCurrent
  <2> QED BY <2>1, <2>2, <2>3, <2>4 DEF IInv
<1>5. CASE UNCHANGED <<trees_info, cam, existing_frustum_trigger>>
  <2>1. Typed' /\ FirstInv' /\ QueryCurrent'
    BY <1>2, <1>3, <1>5 DEF IInv, Typed, FirstInv, QueryCurrent, EnabledTrees
  <2>2. RequestInv'
    <3> SUFFICES ASSUME NEW j \in Jobs PROVE JobState(j)'
      BY DEF RequestInv
    <3>1. JobState(j)
      BY DEF IInv, RequestInv
    <3> QED BY <1>2, <1>3, <1>5, <3>1 DEF JobState, Unseen, SeenOnce
  <2> QED BY <2>1, <2>2 DEF IInv
<1> QED BY <1>4, <1>5 DEF UrlMetadataOnload

\* Metadata arrives for the result of a job.
LEMMA JobMetadataOnloadKeeps ==
  ASSUME IInv, NEW j \in Jobs, JobMetadataOnload(j)
  PROVE  IInv'
<1> DEFINE t == JobTrees[j]
<1>1. t \in Trees /\ request[t] # Idle
  BY TreesOfJobs DEF JobMetadataOnload, Idle
<1>2. j \in DOMAIN jobs_info /\ j \in 1..Len(jobs_info) /\ jobs_info # << >>
  BY <1>1, HasRequest DEF IInv
<1>3. CASE request[t].at = "error"
  BY <1>1, <1>3, JobFailsKeeps DEF JobMetadataOnload
<1>4. CASE request[t].at = "ok"
  <2> DEFINE job == [jobs_info[j] EXCEPT !.finished = ~jobs_info[j].removed]
  <2>1. jobs_info[j] \in JobInfo /\ job \in JobInfo
    <3>1. jobs_info[j] \in JobInfo
      BY <1>2 DEF IInv, Typed
    <3> QED BY <3>1 DEF JobInfo
  <2>2. /\ request' = [request EXCEPT ![t] = Idle] /\ AddTree(t)
        /\ jobs_info' = [jobs_info EXCEPT ![j] = job]
        /\ UNCHANGED screen
    BY <1>2, <1>4 DEF JobMetadataOnload
  <2>3. Typed' /\ Len(jobs_info') = Len(jobs_info)
    <3>1. jobs_info' \in Seq(JobInfo) /\ Len(jobs_info') = Len(jobs_info)
      BY <1>2, <2>1, <2>2 DEF IInv, Typed
    <3>2. request' \in [Trees -> Request]
      BY <2>2, RequestTypes DEF IInv, Typed
    <3>3. /\ trees_info' \in Seq(TreeInfo) /\ cam' \in {"none", "url", "metadata"}
          /\ existing_frustum_trigger' = TRUE
      BY <1>1, <2>2, AddTreeFacts DEF IInv
    <3> QED BY <2>2, <3>1, <3>2, <3>3 DEF IInv, Typed, screen
  <2>4. \A k \in Jobs : k # j => JobState(k)'
    <3> SUFFICES ASSUME NEW k \in Jobs, k # j PROVE JobState(k)'
      OBVIOUS
    <3>1. JobTrees[k] # t
      BY TreesOfJobs
    <3>2. (Unseen(JobTrees[k])' <=> Unseen(JobTrees[k])) /\ (SeenOnce(JobTrees[k])' <=> SeenOnce(JobTrees[k]))
      BY <1>1, <2>2, <3>1, AddTreeNames DEF IInv
    <3> QED BY <1>2, <2>1, <2>2, <3>2, RequestTypes, OtherJobs
  <2>5. JobState(j)'
    <3>1. request'[t] = Idle /\ jobs_info'[j] = job
      BY <1>1, <1>2, <2>2 DEF IInv, Typed
    <3>2. JobState(j) /\ j <= Len(jobs_info) /\ Len(jobs_info) \in Nat /\ ~(j > Len(jobs_info))
      BY <1>2 DEF IInv, RequestInv, Typed
    <3>3. Unseen(t) /\ ~jobs_info[j].finished /\ ~jobs_info[j].failed
      BY <1>1, <3>2 DEF JobState
    <3>4. ~Unseen(t)' /\ SeenOnce(t)'
      BY <1>1, <2>2, <3>3, AddTreeNames DEF IInv
    <3> HIDE DEF t
    <3>5. job.removed = jobs_info[j].removed /\ job.finished = ~jobs_info[j].removed
          /\ job.tree_name = jobs_info[j].tree_name
      BY <2>1 DEF JobInfo
    <3>6. t = JobTrees[j]
      BY DEF t
    <3> HIDE DEF job
    <3> QED BY <2>3, <3>1, <3>2, <3>3, <3>4, <3>5, <3>6 DEF JobState, Settled
  <2>6. FirstInv'
    <3>1. trees_info # << >> /\ trees_info \in Seq(TreeInfo)
      BY <1>2 DEF IInv, FirstInv, Typed
    <3>2. 1 \in 1..Len(trees_info)
      BY <3>1
    <3> QED BY <1>1, <2>2, <3>1, <3>2, AddTreeFacts DEF IInv, FirstInv
  <2>7. QueryCurrent'
    BY <1>1, <2>2, AddTreeFacts DEF IInv, QueryCurrent
  <2> QED BY <2>3, <2>4, <2>5, <2>6, <2>7 DEF IInv, RequestInv
<1> QED BY <1>3, <1>4 DEF JobMetadataOnload

\* A tree is shown or hidden.
LEMMA ToggleTreeModeKeeps ==
  ASSUME IInv, NEW i \in DOMAIN trees_info, NEW shift \in BOOLEAN, ToggleTreeMode(i, shift)
  PROVE  IInv'
<1> DEFINE e == [trees_info[i] EXCEPT !.enabled = shift \/ ~trees_info[i].enabled]
<1>1. trees_info[i] \in TreeInfo /\ e \in TreeInfo /\ e.name = trees_info[i].name
  <2>1. trees_info[i] \in TreeInfo
    BY DEF IInv, Typed
  <2> QED BY <2>1 DEF TreeInfo
<1>2. trees_info' = [trees_info EXCEPT ![i] = e]
  BY DEF ToggleTreeMode
<1> HIDE DEF e
<1>3. /\ trees_info' \in Seq(TreeInfo) /\ DOMAIN trees_info' = DOMAIN trees_info
      /\ \A k \in DOMAIN trees_info : trees_info'[k].name = trees_info[k].name
  BY <1>1, <1>2 DEF IInv, Typed
<1>4. existing_frustum_trigger' = TRUE
  BY DEF ToggleTreeMode, TriggerFrustumUpdate, IInv, Typed
<1>5. Typed'
  BY <1>3, <1>4 DEF ToggleTreeMode, IInv, Typed, screen, mouse
<1>6. RequestInv'
  <2> SUFFICES ASSUME NEW j \in Jobs PROVE JobState(j)'
    BY DEF RequestInv
  <2>1. JobState(j)
    BY DEF IInv, RequestInv
  <2>2. (Unseen(JobTrees[j])' <=> Unseen(JobTrees[j])) /\ (SeenOnce(JobTrees[j])' <=> SeenOnce(JobTrees[j]))
    BY <1>3, SameNames DEF IInv
  <2> QED BY <2>1, <2>2 DEF JobState, ToggleTreeMode
<1>7. FirstInv'
  <2>1. trees_info # << >> /\ trees_info' # << >> /\ 1 \in DOMAIN trees_info
    BY <1>3 DEF IInv, Typed
  <2> QED BY <1>3, <2>1 DEF ToggleTreeMode, IInv, FirstInv, screen, mouse
<1> QED BY <1>4, <1>5, <1>6, <1>7 DEF IInv, QueryCurrent

-----------------------------------------------------------------------------
(* Starting, removing and completing a job *)

\* There is a first tree, so the new job has its request.
LEMMA StartJobKeeps ==
  ASSUME IInv, StartJob
  PROVE  IInv'
<1> DEFINE n == Len(jobs_info) + 1
           job == [finished |-> FALSE, failed |-> FALSE, removed |-> FALSE, tree_name |-> NoTree]
<1>1. /\ jobs_info \in Seq(JobInfo) /\ Len(jobs_info) \in Nat /\ n \in Nat /\ n \in Jobs
      /\ Len(jobs_info) < Len(JobTrees)
  BY TreesOfJobs DEF StartJob, IInv, Typed, Jobs
<1>2. job \in JobInfo
  BY DEF JobInfo
<1>3. /\ jobs_info' = Append(jobs_info, job) /\ jobs_info' \in Seq(JobInfo)
      /\ Len(jobs_info') = n /\ jobs_info'[n] = job
      /\ \A k \in 1..Len(jobs_info) : jobs_info'[k] = jobs_info[k]
  BY <1>1, <1>2 DEF StartJob
<1>4. trees_info # << >> /\ 1 \in DOMAIN trees_info /\ trees_info[1] # Null
  <2>1. trees_info # << >> /\ trees_info[1].name \in UrlTrees
    BY DEF StartJob, IInv, FirstInv
  <2>2. 1 \in DOMAIN trees_info
    BY <2>1 DEF IInv, Typed
  <2> QED BY <2>1, <2>2, TreesOfJobs DEF Null
<1>5. request' = [request EXCEPT ![JobTrees[n]] = Sent("detect")]
  BY <1>3, <1>4 DEF StartJob
<1>6. Typed'
  BY <1>1, <1>3, <1>5, RequestTypes, TreesOfJobs DEF IInv, Typed, StartJob, screen, mouse
<1>7. \A t : (Unseen(t)' <=> Unseen(t)) /\ (SeenOnce(t)' <=> SeenOnce(t))
  BY DEF StartJob, Unseen, SeenOnce
<1>8. RequestInv'
  <2> SUFFICES ASSUME NEW k \in Jobs PROVE JobState(k)'
    BY DEF RequestInv
  <2>1. JobState(k) /\ JobState(n) /\ k \in Nat
    BY <1>1 DEF IInv, RequestInv, Jobs
  <2>2. CASE k = n
    <3>1. request'[JobTrees[n]] # Idle
      BY <1>1, <1>5, RequestTypes, TreesOfJobs DEF IInv, Typed
    <3>2. Unseen(JobTrees[n]) /\ SeenOnce(JobTrees[n])
      BY <1>1, <2>1 DEF JobState
    <3>3. ~job.finished /\ ~job.failed /\ job.tree_name = NoTree
      OBVIOUS
    <3> HIDE DEF job
    <3> QED BY <1>1, <1>3, <1>7, <2>2, <3>1, <3>2, <3>3 DEF JobState
  <2>3. CASE k # n
    <3>1. request'[JobTrees[k]] = request[JobTrees[k]]
      BY <1>1, <1>5, <2>3, TreesOfJobs DEF IInv, Typed
    <3>2. CASE k \in 1..Len(jobs_info)
      <4>1. Settled(jobs_info[k])
        <5>1. CASE k = Len(jobs_info)
          BY <3>2, <5>1, <1>1 DEF StartJob
        <5>2. CASE k # Len(jobs_info)
          BY <3>2, <5>2, <2>1, <1>1 DEF JobState
        <5> QED BY <5>1, <5>2
      <4>2. k <= Len(jobs_info) /\ k <= n /\ ~(k > n) /\ jobs_info'[k] = jobs_info[k]
        BY <1>1, <1>3, <3>2
      <4> QED BY <1>3, <1>7, <2>1, <3>1, <4>1, <4>2 DEF JobState
    <3>3. CASE k \notin 1..Len(jobs_info)
      <4>1. k > Len(jobs_info) /\ k > n /\ ~(k <= n)
        BY <1>1, <2>3, <3>3 DEF Jobs
      <4> QED BY <1>3, <1>7, <2>1, <3>1, <4>1 DEF JobState
    <3> QED BY <3>2, <3>3
  <2> QED BY <2>2, <2>3
<1>9. FirstInv' /\ QueryCurrent'
  BY <1>4 DEF StartJob, IInv, FirstInv, QueryCurrent, EnabledTrees, screen, mouse
<1> QED BY <1>6, <1>8, <1>9 DEF IInv

\* The completion of a job names its tree; of a removed job nothing is left.
LEMMA CompletionDoneKeeps ==
  ASSUME IInv, NEW j \in Jobs, CompletionDone(j)
  PROVE  IInv'
<1> DEFINE t == JobTrees[j]
           job == [jobs_info[j] EXCEPT !.tree_name = t]
           r == IF jobs_info[j].removed THEN Idle ELSE Sent("serve")
<1>1. t \in Trees /\ request[t] # Idle
  BY TreesOfJobs, RequestTypes DEF CompletionDone
<1>2. j \in DOMAIN jobs_info /\ j \in 1..Len(jobs_info) /\ jobs_info # << >>
  BY <1>1, HasRequest DEF IInv
<1>3. jobs_info[j] \in JobInfo /\ job \in JobInfo
  <2>1. jobs_info[j] \in JobInfo
    BY <1>2 DEF IInv, Typed
  <2> QED BY <1>1, <2>1 DEF JobInfo
<1>4. /\ jobs_info' = [jobs_info EXCEPT ![j] = job]
      /\ request' = [request EXCEPT ![t] = r] /\ r \in Request
      /\ UNCHANGED <<trees_info, cam, existing_frustum_trigger, screen, mouse>>
  BY <1>2, RequestTypes DEF CompletionDone
<1>5. Typed' /\ Len(jobs_info') = Len(jobs_info)
  <2>1. jobs_info' \in Seq(JobInfo) /\ Len(jobs_info') = Len(jobs_info)
    BY <1>2, <1>3, <1>4 DEF IInv, Typed
  <2>2. request' \in [Trees -> Request]
    BY <1>4 DEF IInv, Typed
  <2> QED BY <1>4, <2>1, <2>2 DEF IInv, Typed, screen, mouse
<1>6. \A u : (Unseen(u)' <=> Unseen(u)) /\ (SeenOnce(u)' <=> SeenOnce(u))
  BY <1>4 DEF Unseen, SeenOnce
<1>7. \A k \in Jobs : k # j => JobState(k)'
  BY <1>2, <1>3, <1>4, <1>6, OtherJobs
<1>8. JobState(j)'
  <2>1. request'[t] = r /\ jobs_info'[j] = job
    BY <1>1, <1>2, <1>4 DEF IInv, Typed
  <2>2. JobState(j) /\ j <= Len(jobs_info) /\ Len(jobs_info) \in Nat /\ ~(j > Len(jobs_info))
    BY <1>2 DEF IInv, RequestInv, Typed
  <2>3. /\ job.removed = jobs_info[j].removed /\ job.finished = jobs_info[j].finished
        /\ job.failed = jobs_info[j].failed /\ job.tree_name = JobTrees[j]
    BY <1>3 DEF JobInfo
  <2>4. r # Idle <=> ~jobs_info[j].removed
    BY RequestTypes
  <2> HIDE DEF job, r
  <2> QED BY <1>1, <1>5, <1>6, <2>1, <2>2, <2>3, <2>4 DEF JobState, Settled
<1>9. FirstInv' /\ QueryCurrent'
  BY <1>2, <1>4 DEF IInv, FirstInv, QueryCurrent, EnabledTrees, screen, mouse
<1> QED BY <1>5, <1>7, <1>8, <1>9 DEF IInv, RequestInv

\* A job is removed with the result it has by then.
LEMMA RemoveJobKeeps ==
  ASSUME IInv, NEW j \in DOMAIN jobs_info, RemoveJob(j)
  PROVE  IInv'
<1> DEFINE t == JobTrees[j]
           job == [jobs_info[j] EXCEPT !.removed = TRUE]
           mine(i) == jobs_info[j].tree_name # NoTree
                        /\ trees_info[i].name = jobs_info[j].tree_name
<1>1. /\ j \in Jobs /\ j \in 1..Len(jobs_info) /\ t \in Trees /\ t \notin UrlTrees /\ t # NoTree
      /\ j <= Len(jobs_info) /\ Len(jobs_info) \in Nat /\ ~(j > Len(jobs_info))
  <2>1. j \in Jobs /\ j \in 1..Len(jobs_info)
    BY TreesOfJobs DEF IInv, Typed, Jobs
  <2> QED BY <2>1, TreesOfJobs DEF IInv, Typed
<1>2. jobs_info[j] \in JobInfo /\ job \in JobInfo
  <2>1. jobs_info[j] \in JobInfo
    BY DEF IInv, Typed
  <2> QED BY <2>1 DEF JobInfo
<1>3. /\ jobs_info' = [jobs_info EXCEPT ![j] = job]
      /\ trees_info' = [i \in DOMAIN trees_info |-> IF mine(i) THEN Null ELSE trees_info[i]]
      /\ UNCHANGED <<cam, screen, mouse, request>>
      /\ IF \E i \in DOMAIN trees_info : mine(i) THEN TriggerFrustumUpdate
         ELSE UNCHANGED existing_frustum_trigger
  BY DEF RemoveJob
<1>4. JobState(j) /\ jobs_info[j].tree_name \in {NoTree, t}
  BY <1>1 DEF IInv, RequestInv, JobState
<1>5. /\ DOMAIN trees_info' = DOMAIN trees_info
      /\ \A i \in DOMAIN trees_info :
           \/ trees_info'[i] = trees_info[i]
           \/ trees_info'[i].name = NoTree /\ trees_info[i].name = t
  <2>1. Null.name = NoTree
    BY DEF Null
  <2> QED BY <1>3, <1>4, <2>1
<1>6. trees_info' \in Seq(TreeInfo)
  <2>1. Null \in TreeInfo
    BY DEF Null, TreeInfo
  <2>2. trees_info \in Seq(TreeInfo) /\ Len(trees_info) \in Nat /\ DOMAIN trees_info = 1..Len(trees_info)
        /\ \A i \in 1..Len(trees_info) : trees_info[i] \in TreeInfo
    BY DEF IInv, Typed
  <2>3. trees_info' \in [1..Len(trees_info) -> TreeInfo]
    BY <1>3, <2>1, <2>2
  <2> QED BY <2>2, <2>3
<1>7. existing_frustum_trigger' \in BOOLEAN
  BY <1>3 DEF IInv, Typed, TriggerFrustumUpdate
<1>8. Typed' /\ Len(jobs_info') = Len(jobs_info)
  <2>1. jobs_info' \in Seq(JobInfo) /\ Len(jobs_info') = Len(jobs_info)
    BY <1>2, <1>3 DEF IInv, Typed
  <2> QED BY <1>3, <1>6, <1>7, <2>1 DEF IInv, Typed, screen, mouse
<1>9. ASSUME NEW k \in Jobs, k # j PROVE JobState(k)'
  <2>1. JobTrees[k] # t /\ JobTrees[k] # NoTree
    BY <1>1, <1>9, TreesOfJobs
  <2>2. (Unseen(JobTrees[k])' <=> Unseen(JobTrees[k])) /\ (SeenOnce(JobTrees[k])' <=> SeenOnce(JobTrees[k]))
    BY <1>5, <2>1 DEF Unseen, SeenOnce
  <2>3. request' = [request EXCEPT ![t] = request[t]] /\ request[t] \in Request
    BY <1>1, <1>3 DEF IInv, Typed
  <2> QED BY <1>2, <1>3, <1>9, <2>2, <2>3, OtherJobs
<1>10. JobState(j)'
  <2>1. (Unseen(t) => Unseen(t)') /\ SeenOnce(t)'
    BY <1>1, <1>4, <1>5 DEF JobState, Unseen, SeenOnce
  <2>2. jobs_info'[j] = job /\ request'[t] = request[t]
    BY <1>3 DEF IInv, Typed
  <2>3. /\ job.removed = TRUE /\ job.finished = jobs_info[j].finished
        /\ job.failed = jobs_info[j].failed /\ job.tree_name = jobs_info[j].tree_name
    BY <1>2 DEF JobInfo
  <2> HIDE DEF job
  <2> QED BY <1>1, <1>4, <1>8, <2>1, <2>2, <2>3 DEF JobState, Settled
<1>11. FirstInv'
  <2>1. trees_info # << >> /\ trees_info[1].name \in UrlTrees
    BY DEF IInv, FirstInv, Typed
  <2>2. 1 \in DOMAIN trees_info
    BY <2>1 DEF IInv, Typed
  <2>3. trees_info'[1] = trees_info[1] /\ trees_info' # << >>
    BY <1>1, <1>5, <2>1, <2>2
  <2> QED BY <2>1, <2>3 DEF FirstInv
<1>12. QueryCurrent'
  <2>1. CASE \E i \in DOMAIN trees_info : mine(i)
    BY <1>3, <2>1 DEF QueryCurrent, TriggerFrustumUpdate
  <2>2. CASE ~\E i \in DOMAIN trees_info : mine(i)
    <3>1. trees_info' = trees_info
      BY <1>3, <2>2 DEF IInv, Typed
    <3> QED BY <1>3, <2>2, <3>1 DEF IInv, QueryCurrent, EnabledTrees, screen
  <2> QED BY <2>1, <2>2
<1> QED BY <1>8, <1>9, <1>10, <1>11, <1>12 DEF IInv, RequestInv

-----------------------------------------------------------------------------
(* The theorems *)

\* The timer, the mouse and the restart of the server change neither the trees
\* nor the jobs nor the requests.
LEMMA QuietKeeps ==
  ASSUME IInv,
         \/ FrustumTimer \/ Retrigger \/ MouseDown \/ ShiftMouseDown
         \/ MouseMove \/ MouseUp \/ Escape \/ Restart \/ UNCHANGED vars
  PROVE  IInv'
<1>1. UNCHANGED <<trees_info, cam, jobs_info, request>>
  BY DEF FrustumTimer, Retrigger, MouseDown, ShiftMouseDown, MouseMove, MouseUp, Escape,
         Restart, vars
<1>2. existing_frustum_trigger' \in BOOLEAN /\ currentCells' \in BOOLEAN
  BY DEF FrustumTimer, Retrigger, MouseDown, ShiftMouseDown, MouseMove, MouseUp, Escape,
         Restart, vars, screen, IInv, Typed, TriggerFrustumUpdate
<1>3. Typed'
  BY <1>1, <1>2 DEF IInv, Typed
<1>4. RequestInv'
  <2> SUFFICES ASSUME NEW j \in Jobs PROVE JobState(j)'
    BY DEF RequestInv
  <2>1. JobState(j)
    BY DEF IInv, RequestInv
  <2> QED BY <1>1, <2>1 DEF JobState, Unseen, SeenOnce
<1>5. QueryCurrent'
  <2>1. EnabledTrees' = EnabledTrees
    BY <1>1 DEF EnabledTrees
  <2> QED BY <1>1, <2>1 DEF IInv, QueryCurrent, FrustumTimer, Retrigger, MouseDown,
             ShiftMouseDown, MouseMove, MouseUp, Escape, Restart, vars, screen,
             TriggerFrustumUpdate, Typed
<1>6. FirstInv'
  <2>1. CASE FrustumTimer
    <3>1. EnabledTrees # {} => trees_info # << >>
      BY DEF EnabledTrees
    <3> QED BY <2>1, <3>1 DEF IInv, FirstInv, FrustumTimer, mouse
  <2>2. CASE ~FrustumTimer
    BY <2>2 DEF IInv, FirstInv, Retrigger, MouseDown, ShiftMouseDown, MouseMove, MouseUp,
                Escape, Restart, vars, screen, mouse
  <2> QED BY <2>1, <2>2
<1> QED BY <1>3, <1>4, <1>5, <1>6 DEF IInv

LEMMA InitHolds ==
  ASSUME Init
  PROVE  IInv
<1>1. Typed
  <2>1. request \in [Trees -> Request]
    BY RequestTypes DEF Init
  <2>2. trees_info \in Seq(TreeInfo) /\ jobs_info \in Seq(JobInfo) /\ Len(jobs_info) <= Len(JobTrees)
    BY TreesOfJobs DEF Init
  <2>3. cam \in {"none", "url", "metadata"} /\ currentCells \in BOOLEAN
    BY DEF Init
  <2>4. existing_frustum_trigger \in BOOLEAN
    BY ViewerAssumption DEF Init
  <2> QED BY <2>1, <2>2, <2>3, <2>4 DEF Typed
<1>2. RequestInv
  <2> SUFFICES ASSUME NEW j \in Jobs PROVE JobState(j)
    BY DEF RequestInv
  <2>1. request[JobTrees[j]] = Idle /\ Len(jobs_info) = 0 /\ j > 0 /\ j \in Nat
    BY TreesOfJobs DEF Init, Jobs
  <2>2. \A t : Unseen(t) /\ SeenOnce(t)
    BY DEF Init, Unseen, SeenOnce
  <2> QED BY <2>1, <2>2 DEF JobState
<1>3. FirstInv /\ QueryCurrent
  BY DEF Init, FirstInv, QueryCurrent
<1> QED BY <1>1, <1>2, <1>3 DEF IInv

LEMMA NextKeeps ==
  ASSUME IInv, [Next]_vars
  PROVE  IInv'
<1>1. ASSUME NEW t \in Trees, NEW r \in Request, request[t] # Idle, r # Idle, Continue(t, r)
      PROVE  IInv'
  BY <1>1, RequestGoesOn DEF Continue
<1>2. ASSUME NEW j \in Jobs,
             \/ DetectOk(j) \/ ProgressDone(j)
             \/ \E w \in {"detect", "progress", "completion"} :
                  NotYet(j, w) \/ PollTimer(j, w) \/ AlgorithmError(j, w)
      PROVE  IInv'
  <2>1. JobTrees[j] \in Trees
    BY TreesOfJobs
  <2>2. CASE DetectOk(j) \/ ProgressDone(j)
    BY <1>1, <2>1, <2>2, RequestTypes DEF DetectOk, ProgressDone
  <2>3. ASSUME NEW w \in {"detect", "progress", "completion"}, NotYet(j, w) \/ PollTimer(j, w)
        PROVE  IInv'
    BY <1>1, <2>1, <2>3, RequestTypes DEF NotYet, PollTimer
  <2>4. ASSUME NEW w \in {"detect", "progress", "completion"}, AlgorithmError(j, w)
        PROVE  IInv'
    <3>1. request[JobTrees[j]] # Idle
      BY <2>4, RequestTypes DEF AlgorithmError
    <3>2. CASE w = "detect"
      BY <2>4, <3>1, <3>2, JobFailsKeeps DEF AlgorithmError
    <3>3. CASE w # "detect"
      BY <1>1, <2>1, <2>4, <3>1, <3>3, RequestTypes DEF AlgorithmError
    <3> QED BY <3>2, <3>3
  <2> QED BY <1>2, <2>2, <2>3, <2>4
<1>3. ASSUME NEW j \in Jobs, ServeOnload(j) PROVE IInv'
  <2>1. JobTrees[j] \in Trees /\ request[JobTrees[j]] # Idle
    BY <1>3, TreesOfJobs DEF ServeOnload, Idle
  <2>2. CASE request[JobTrees[j]].at = "ok"
    BY <1>1, <1>3, <2>1, <2>2, RequestTypes DEF ServeOnload
  <2>3. CASE request[JobTrees[j]].at = "error"
    BY <1>3, <2>1, <2>3, JobFailsKeeps DEF ServeOnload
  <2> QED BY <1>3, <2>2, <2>3 DEF ServeOnload
<1>4. ASSUME NEW t \in Trees,
             (\E b \in BOOLEAN : ServeNewTree(t, b) \/ EmitFile(t, b)) \/ Lose(t)
      PROVE  IInv'
  <2>1. request[t] # Idle
    BY <1>4 DEF ServeNewTree, EmitFile, Lose, Sent, Idle
  <2>2. PICK a \in {"ok", "error", "lost"} :
           /\ request' = [request EXCEPT ![t].at = a]
           /\ UNCHANGED <<trees_info, cam, existing_frustum_trigger, screen, mouse, jobs_info>>
    BY <1>4 DEF ServeNewTree, EmitFile, Lose, Continue
  <2> DEFINE r == [request[t] EXCEPT !.at = a]
  <2>3. r \in Request /\ r # Idle
    <3>1. request[t] \in Request
      BY DEF IInv, Typed
    <3> QED BY <3>1 DEF Request, Idle
  <2>4. request' = [request EXCEPT ![t] = r]
    BY <2>2
  <2> HIDE DEF r
  <2> QED BY <2>1, <2>2, <2>3, <2>4, RequestGoesOn
<1> QED BY <1>2, <1>3, <1>4, QuietKeeps, StartJobKeeps, RemoveJobKeeps, CompletionDoneKeeps,
           ToggleTreeModeKeeps, UrlMetadataOnloadKeeps, JobMetadataOnloadKeeps DEF Next

\* At most one job is under way, and it has a request; the result of a job is
\* in trees_info exactly if the job has finished.
LEMMA JobsFollow ==
  ASSUME IInv
  PROVE  JobsConsistent
<1> SUFFICES ASSUME NEW j \in DOMAIN jobs_info
             PROVE  /\ ~Settled(jobs_info[j]) => j = Len(jobs_info) /\ request[JobTrees[j]] # Idle
                    /\ Cardinality(Shown(JobTrees[j])) \in
                         (IF jobs_info[j].removed THEN {0, 1}
                          ELSE IF jobs_info[j].finished THEN {1} ELSE {0})
  BY DEF JobsConsistent
<1> DEFINE t == JobTrees[j]
<1>1. j \in Jobs /\ j <= Len(jobs_info)
  BY TreesOfJobs DEF IInv, Typed, Jobs
<1>2. JobState(j)
  BY <1>1 DEF IInv, RequestInv
<1>3. CASE Unseen(t)
  <2>1. Shown(t) = {}
    BY <1>3 DEF Shown, Unseen
  <2>2. Cardinality(Shown(t)) = 0
    BY <2>1, FS_EmptySet
  <2> QED BY <1>1, <1>2, <1>3, <2>2 DEF JobState
<1>4. CASE ~Unseen(t)
  <2>1. PICK k \in DOMAIN trees_info : trees_info[k].name = t
    BY <1>4 DEF Unseen
  <2>2. Shown(t) = {k}
    BY <1>2, <2>1 DEF JobState, SeenOnce, Shown
  <2>3. Cardinality(Shown(t)) = 1
    BY <2>2, FS_Singleton
  <2> QED BY <1>1, <1>2, <1>4, <2>3 DEF JobState
<1> QED BY <1>3, <1>4

\* Whatever the user, the servers and the timers do, and in whatever order: two
\* jobs are never under way together, none is without a request, there is a
\* first tree whenever a job starts, and the result of a job is shown exactly if
\* it has finished (index.js, start and onRoadButtonClicked, JobInfo.remove).
THEOREM JobsStayConsistent == Spec => []JobsConsistent
<1>1. Init => IInv
  BY InitHolds
<1>2. IInv /\ [Next]_vars => IInv'
  BY NextKeeps
<1>3. IInv => JobsConsistent
  BY JobsFollow
<1> QED BY <1>1, <1>2, <1>3, PTL DEF Spec

\* What was queried is what is enabled, unless a query is still to come: no
\* handler that changes the trees forgets the trigger (index.js,
\* triggerFrustumUpdate and its callers).
THEOREM ShowsWhatWasQueried == Spec => []QueryCurrent
<1>1. Init => IInv
  BY InitHolds
<1>2. IInv /\ [Next]_vars => IInv'
  BY NextKeeps
<1>3. IInv => QueryCurrent
  BY DEF IInv
<1> QED BY <1>1, <1>2, <1>3, PTL DEF Spec
=============================================================================
