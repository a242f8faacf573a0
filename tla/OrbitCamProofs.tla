--------------------------- MODULE OrbitCamProofs ---------------------------
(***************************************************************************)
(* Theorems about OrbitCam, for all views, steps and bounds.               *)
(***************************************************************************)
EXTENDS OrbitCam, SequenceTheorems, FiniteSetTheorems, TLAPS

\* The pose is within the thresholds of the old values.
Steady ==
  /\ Dist(old.yaw, cam.yaw) <= 5 /\ Dist(old.pitch, cam.pitch) <= 5
  /\ 20 * Dist(old.distance, cam.distance) <= cam.distance

\* So was the pose queried for, unless a query is about to come.
Recent ==
  ~existing_frustum_trigger =>
    /\ Dist(old.yaw, queried.pose.yaw) <= 5
    /\ Dist(old.pitch, queried.pose.pitch) <= 5
    /\ 20 * Dist(old.distance, queried.pose.distance) <= queried.pose.distance
    /\ queried.near = planes

PlanesSet == ready => planes = near_plane_distance

\* The timeouts of each camera object have ids up to that of the object, one at
\* most has this id, and none of the camera unless it is moving.
MotionInv ==
  /\ \A t \in timers : t.id <= profile_executor_id[t.object]
  /\ \A t1, t2 \in timers :
       t1.object = t2.object /\ Live(t1) /\ Live(t2) => t1 = t2
  /\ ~moving => \A t \in timers : t.object = object => ~Live(t)

\* The inductive invariant.  DriftBounded relates the camera to the query; what
\* a step keeps is how far each of them is from the old values.
IInv == TypeOK /\ Steady /\ Recent /\ PlanesSet /\ MotionInv

-----------------------------------------------------------------------------
(* The setters *)

\* The range of the setters is that of a pose.
LEMMA LimitedInt ==
  ASSUME NEW f \in Fields, NEW x \in Int
  PROVE  Limited(f, x) \in Int /\ (f = "distance" => Limited(f, x) > 0)
BY OrbitCamAssumption DEF Limited, Clamp, Fields

\* Whatever fields are set, the camera stays within the thresholds of the old
\* values, and these only change with a trigger.
LEMMA SetToKeeps ==
  ASSUME TypeOK, Steady, NEW pose \in [Fields -> Int], NEW fields \in SUBSET Fields,
         NEW trigger \in BOOLEAN, SetTo(pose, fields, trigger)
  PROVE  /\ cam' \in Poses /\ old' \in Poses /\ existing_frustum_trigger' \in BOOLEAN
         /\ Steady'
         /\ ~existing_frustum_trigger' => old' = old /\ ~existing_frustum_trigger /\ ~trigger
<1> DEFINE p == [f \in Fields |-> IF f \in fields THEN Limited(f, pose[f]) ELSE cam[f]]
           called == {f \in fields : CallsBack(f, p)}
<1>1. /\ cam' = p /\ old' = [f \in Fields |-> IF f \in called THEN p[f] ELSE old[f]]
      /\ existing_frustum_trigger' = (existing_frustum_trigger \/ trigger \/ called # {})
  BY DEF SetTo
<1>2. cam \in [Fields -> Int] /\ cam["distance"] > 0 /\ old \in [Fields -> Int] /\ old["distance"] > 0
  BY DEF TypeOK, Poses
<1>3. p \in [Fields -> Int] /\ p["distance"] > 0
  <2>1. ASSUME NEW f \in Fields PROVE p[f] \in Int /\ (f = "distance" => p[f] > 0)
    BY <1>2, LimitedInt
  <2> QED BY <2>1 DEF Fields
<1>4. cam' \in Poses
  BY <1>1, <1>3 DEF Poses
<1>5. old' \in [Fields -> Int] /\ old'["distance"] > 0
  BY <1>1, <1>2, <1>3 DEF Fields
<1>6. existing_frustum_trigger' \in BOOLEAN
  BY <1>1 DEF TypeOK
<1>7. ~existing_frustum_trigger' => old' = old /\ ~existing_frustum_trigger /\ ~trigger
  <2>1. called = {} => old' = old
    BY <1>1, <1>2
  <2> QED BY <1>1, <2>1
<1>8. ASSUME NEW f \in {"yaw", "pitch"} PROVE Dist(old'[f], cam'[f]) <= 5
  <2> f \in Fields BY DEF Fields
  <2> HIDE DEF p
  <2>1. CASE f \in called
    BY <1>1, <1>3, <2>1 DEF Dist
  <2>2. CASE f \notin called /\ f \in fields
    <3>1. ~(Dist(old[f], p[f]) > 5)
      BY <2>2 DEF CallsBack
    <3> QED BY <1>1, <1>2, <1>3, <2>2, <3>1 DEF Dist
  <2>3. CASE f \notin fields
    <3>1. p[f] = cam[f]
      BY <2>3 DEF p
    <3> QED BY <1>1, <2>3, <3>1 DEF Steady
  <2> QED BY <2>1, <2>2, <2>3
<1>9. 20 * Dist(old'["distance"], cam'["distance"]) <= cam'["distance"]
  <2> DEFINE f == "distance"
  <2>0. f \in Fields BY DEF Fields
  <2> HIDE DEF p
  <2>1. CASE f \in called
    BY <1>1, <1>3, <2>0, <2>1 DEF Dist
  <2>2. CASE f \notin called /\ f \in fields
    <3>1. ~(20 * Dist(old[f], p[f]) > p[f])
      BY <2>2 DEF CallsBack
    <3> QED BY <1>1, <1>2, <1>3, <2>0, <2>2, <3>1 DEF Dist
  <2>3. CASE f \notin fields
    <3>1. p[f] = cam[f]
      BY <2>0, <2>3 DEF p
    <3> QED BY <1>1, <2>0, <2>3, <3>1 DEF Steady
  <2> QED BY <2>1, <2>2, <2>3
<1> QED BY <1>4, <1>5, <1>6, <1>7, <1>8, <1>9 DEF Steady, Poses

\* Without a step of the trigger, what was queried for is as recent as before.
LEMMA RecentKept ==
  ASSUME Recent, queried' = queried,
         ~existing_frustum_trigger' =>
           old' = old /\ ~existing_frustum_trigger /\ planes' = planes
  PROVE  Recent'
BY DEF Recent

-----------------------------------------------------------------------------
(* The ids of motions *)

\* What stopProfile and goto do to the ids.
LEMMA IdsCounted ==
  ASSUME TypeOK,
         profile_executor_id' = [profile_executor_id EXCEPT ![object] = @ + 1]
  PROVE  /\ profile_executor_id' \in Seq(Nat) /\ profile_executor_id' # << >>
         /\ object' = object /\ object \in Nat \ {0}
         /\ profile_executor_id[object] \in Nat
         /\ profile_executor_id'[object] = profile_executor_id[object] + 1
         /\ \A i \in 1..object : i # object => profile_executor_id'[i] = profile_executor_id[i]
<1> DEFINE ids == profile_executor_id
           n == object
<1>1. ids \in Seq(Nat) /\ ids # << >> /\ n = Len(ids)
  BY DEF TypeOK, object
<1>2. n \in Nat \ {0} /\ DOMAIN ids = 1..n /\ \A i \in 1..n : ids[i] \in Nat
  <2>1. Len(ids) # 0
    BY <1>1, EmptySeq
  <2> QED BY <1>1, <2>1, LenProperties, ElementOfSeq
<1>3. ids' = [i \in 1..n |-> IF i = n THEN ids[n] + 1 ELSE ids[i]]
  BY <1>2
<1>4. ids' \in Seq(Nat) /\ Len(ids') = n
  <2>1. \A i \in 1..n : ids'[i] \in Nat
    BY <1>2, <1>3
  <2>2. ids' \in [1..n -> Nat]
    BY <1>3, <2>1
  <2> QED BY <1>2, <2>2, SeqDef, LenProperties
<1>5. object' = n
  BY <1>4 DEF object
<1>6. ids' # << >>
  BY <1>2, <1>4, EmptySeq
<1> QED BY <1>2, <1>3, <1>4, <1>5, <1>6

\* The types of a timeout.
Timeouts == [object : 1..object, id : Nat, time : Nat, duration : Nat,
             start : Poses, goal : Poses, part : 0..2]

\* After stopProfile no timeout of the camera has its id.
LEMMA StopProfileKeeps ==
  ASSUME TypeOK, MotionInv, StopProfile, timers' = timers
  PROVE  /\ profile_executor_id' \in Seq(Nat) /\ profile_executor_id' # << >>
         /\ object' = object /\ moving' \in BOOLEAN /\ MotionInv'
<1>1. profile_executor_id' = [profile_executor_id EXCEPT ![object] = @ + 1] /\ moving' = FALSE
  BY DEF StopProfile
<1> DEFINE ids == profile_executor_id
<1>2. /\ object' = object /\ object \in Nat \ {0} /\ ids[object] \in Nat
      /\ ids'[object] = ids[object] + 1
      /\ \A i \in 1..object : i # object => ids'[i] = ids[i]
  BY <1>1, IdsCounted
<1>3. \A t \in timers : /\ t.object \in 1..object /\ t.id \in Nat
                        /\ t.id <= ids[t.object]
  BY DEF TypeOK, MotionInv
<1>4. \A t \in timers : t.object = object => t.id < ids'[t.object]
  BY <1>2, <1>3
<1>5. \A t \in timers : t.object # object => ids'[t.object] = ids[t.object]
  BY <1>2, <1>3
<1> HIDE DEF ids
<1>6. \A t \in timers : t.id <= ids'[t.object]
  <2> TAKE t \in timers
  <2>1. CASE t.object = object
    BY <2>1, <1>2, <1>3
  <2>2. CASE t.object # object
    BY <2>2, <1>3, <1>5
  <2> QED BY <2>1, <2>2
<1>7. \A t \in timers : t.id = ids'[t.object] => t.object # object /\ t.id = ids[t.object]
  BY <1>2, <1>3, <1>4, <1>5
<1> USE DEF ids
<1>8. MotionInv'
  BY <1>1, <1>2, <1>6, <1>7 DEF MotionInv, Live
<1> QED BY <1>1, <1>8, IdsCounted

\* The timeout that executeProfileIteration sets.
LEMMA NextTimeout ==
  ASSUME NEW timer \in Timeouts, NEW part \in 0..2
  PROVE  LET next == [timer EXCEPT !.time = @ + 1, !.part = part]
         IN next \in Timeouts /\ next.object = timer.object /\ next.id = timer.id
<1>1. timer.time + 1 \in Nat
  BY DEF Timeouts
<1>2. ASSUME NEW n \in Nat
      PROVE  /\ [timer EXCEPT !.time = n] \in Timeouts
             /\ [timer EXCEPT !.time = n].object = timer.object
             /\ [timer EXCEPT !.time = n].id = timer.id
  BY DEF Timeouts
<1>3. ASSUME NEW t \in Timeouts
      PROVE  /\ [t EXCEPT !.part = part] \in Timeouts
             /\ [t EXCEPT !.part = part].object = t.object
             /\ [t EXCEPT !.part = part].id = t.id
  BY DEF Timeouts
<1>4. [timer EXCEPT !.time = @ + 1, !.part = part]
        = [[timer EXCEPT !.time = @ + 1] EXCEPT !.part = part]
  BY DEF Timeouts
<1> QED BY <1>1, <1>2, <1>3, <1>4

\* A timeout leaves, and if it moved the camera the next one takes its place.
LEMMA TimerKeeps ==
  ASSUME TypeOK, MotionInv, NEW timer \in timers, NEW part \in 0..2,
         timers' = (timers \ {timer}) \cup (IF Live(timer) THEN NextIteration(timer, part) ELSE {}),
         UNCHANGED <<profile_executor_id, moving>>
  PROVE  timers' \subseteq Timeouts /\ MotionInv'
<1> DEFINE next == [timer EXCEPT !.time = @ + 1, !.part = part]
<1>1. timer \in Timeouts
  BY DEF TypeOK, Timeouts
<1>2. /\ next \in Timeouts /\ next.object = timer.object /\ next.id = timer.id
  BY <1>1, NextTimeout
<1>3. timers' \subseteq (timers \ {timer}) \cup (IF Live(timer) THEN {next} ELSE {})
  BY DEF NextIteration
<1>4. timers' \subseteq Timeouts
  BY <1>2, <1>3 DEF TypeOK, Timeouts
<1> HIDE DEF next
<1>5. \A t \in timers' : \/ t \in timers /\ t # timer
                         \/ Live(timer) /\ t = next
  BY <1>3
<1>6. object' = object /\ (\A t : Live(t)' <=> Live(t))
  BY DEF object, Live
<1>7. Live(next) <=> Live(timer)
  BY <1>2 DEF Live
<1>8. \A t \in timers' : t.id <= profile_executor_id[t.object]
  BY <1>2, <1>5 DEF MotionInv
<1>9. \A t1, t2 \in timers' : t1.object = t2.object /\ Live(t1) /\ Live(t2) => t1 = t2
  BY <1>2, <1>5 DEF MotionInv
<1>10. ~moving => \A t \in timers' : t.object = object => ~Live(t)
  BY <1>2, <1>5, <1>7 DEF MotionInv
<1> QED BY <1>4, <1>6, <1>8, <1>9, <1>10 DEF MotionInv, Live

\* Steps that leave the motions alone.
LEMMA MotionSame ==
  ASSUME TypeOK, MotionInv, UNCHANGED motion
  PROVE  /\ profile_executor_id' \in Seq(Nat) /\ profile_executor_id' # << >>
         /\ timers' \subseteq Timeouts' /\ moving' \in BOOLEAN /\ MotionInv'
BY DEF TypeOK, MotionInv, Live, motion, object, Timeouts

-----------------------------------------------------------------------------
(* Each action keeps IInv *)

\* A pose with some of its angles and lengths replaced.
LEMMA PoseFields ==
  ASSUME NEW p \in Poses
  PROVE  /\ p \in [Fields -> Int] /\ p.distance \in Int /\ p.distance > 0
         /\ p.yaw \in Int /\ p.pitch \in Int /\ p.origin \in Int
BY DEF Poses, Fields

LEMMA PoseExcept ==
  ASSUME NEW p \in [Fields -> Int], NEW x \in Int
  PROVE  /\ [p EXCEPT !.yaw = x] \in [Fields -> Int]
         /\ [p EXCEPT !.pitch = x] \in [Fields -> Int]
         /\ [p EXCEPT !.distance = x] \in [Fields -> Int]
         /\ [p EXCEPT !.origin = x] \in [Fields -> Int]
BY DEF Fields

LEMMA InitIInv == Init => IInv
<1> SUFFICES ASSUME Init PROVE IInv
  OBVIOUS
<1> PICK v \in Views :
       /\ cam = v /\ old = v /\ profile_executor_id = <<0>>
       /\ timers = {} /\ moving = FALSE /\ mouseButtonDown = 0 /\ ready = FALSE
       /\ near_plane_distance = Nearest /\ custom_clipping = FALSE
       /\ planes = Nearest /\ existing_frustum_trigger = TRUE
       /\ queried = [pose |-> v, near |-> Nearest] /\ events = 0
  BY DEF Init
<1>1. v \in Poses
  BY OrbitCamAssumption
<1>2. TypeOK
  <2>1. queried \in [pose : Poses, near : Nat] /\ near_plane_distance \in Nat /\ planes \in Nat
    BY <1>1 DEF Nearest
  <2>2. profile_executor_id \in Seq(Nat) /\ profile_executor_id # << >>
    OBVIOUS
  <2>3. events \in 0..MaxEvents
    BY OrbitCamAssumption
  <2> QED BY <1>1, <2>1, <2>2, <2>3 DEF TypeOK
<1>3. Steady
  BY <1>1, PoseFields DEF Steady, Dist
<1> QED BY <1>2, <1>3 DEF IInv, Recent, PlanesSet, MotionInv

LEMMA FrustumTimerKeeps == IInv /\ FrustumTimer => IInv'
<1> SUFFICES ASSUME IInv, FrustumTimer PROVE IInv'
  OBVIOUS
<1> USE DEF IInv
<1>1. /\ cam' = cam /\ old' = old /\ planes' = planes /\ queried' = [pose |-> cam, near |-> planes]
      /\ near_plane_distance' = near_plane_distance /\ custom_clipping' = custom_clipping
      /\ existing_frustum_trigger' = FALSE /\ ready' = ready
      /\ mouseButtonDown' = mouseButtonDown /\ events' = events /\ UNCHANGED motion
  BY DEF FrustumTimer, clipping
<1>2. MotionInv' /\ profile_executor_id' \in Seq(Nat) /\ profile_executor_id' # << >>
      /\ timers' \subseteq Timeouts' /\ moving' \in BOOLEAN
  BY <1>1, MotionSame
<1>3. TypeOK'
  BY <1>1, <1>2 DEF TypeOK, Timeouts
<1>4. Steady'
  BY <1>1 DEF Steady
<1>5. Recent'
  BY <1>1 DEF Recent, Steady
<1>6. PlanesSet'
  BY <1>1 DEF PlanesSet
<1> QED BY <1>2, <1>3, <1>4, <1>5, <1>6

\* The setters of the camera's own handlers, which leave the planes alone.
LEMMA SettersKeep ==
  ASSUME IInv, NEW pose \in [Fields -> Int], NEW fields \in SUBSET Fields,
         SetTo(pose, fields, FALSE), UNCHANGED <<ready, clipping, queried>>,
         mouseButtonDown' \in {0, 1, 2, 4}, events' \in 0..MaxEvents,
         profile_executor_id' \in Seq(Nat), profile_executor_id' # << >>,
         timers' \subseteq Timeouts', moving' \in BOOLEAN, MotionInv'
  PROVE  IInv'
<1> USE DEF IInv
<1>1. /\ cam' \in Poses /\ old' \in Poses /\ existing_frustum_trigger' \in BOOLEAN
      /\ Steady'
      /\ ~existing_frustum_trigger' => old' = old /\ ~existing_frustum_trigger
  BY SetToKeeps
<1>2. /\ near_plane_distance' = near_plane_distance /\ custom_clipping' = custom_clipping
      /\ planes' = planes /\ ready' = ready /\ queried' = queried
  BY DEF clipping
<1>3. TypeOK'
  BY <1>1, <1>2 DEF TypeOK, Timeouts
<1>4. Recent'
  BY <1>1, <1>2, RecentKept
<1>5. PlanesSet'
  BY <1>2 DEF PlanesSet
<1> QED BY <1>1, <1>3, <1>4, <1>5

LEMMA GotoKeeps ==
  ASSUME IInv, NEW v \in Views, NEW duration \in 0..MaxFrames, Goto(v, duration)
  PROVE  IInv'
<1> USE DEF IInv
<1> DEFINE goal == [v EXCEPT !.yaw = cam.yaw + AngleDiff(v.yaw, cam.yaw),
                             !.pitch = cam.pitch + AngleDiff(v.pitch, cam.pitch)]
           timer == [object |-> object, id |-> profile_executor_id[object] + 1, time |-> 0,
                     duration |-> duration, start |-> cam, goal |-> goal, part |-> 0]
           next == [timer EXCEPT !.time = @ + 1, !.part = 0]
           ids == profile_executor_id
<1>1. /\ UserEvent /\ ids' = [ids EXCEPT ![object] = @ + 1]
      /\ moving' = TRUE /\ timers' = timers \cup NextIteration(timer, 0) /\ MoveTo(cam)
      /\ UNCHANGED <<mouseButtonDown, ready, clipping, queried>>
  BY DEF Goto
<1>2. /\ ids' \in Seq(Nat) /\ ids' # << >> /\ object' = object /\ object \in Nat \ {0}
      /\ ids[object] \in Nat /\ ids'[object] = ids[object] + 1
      /\ \A i \in 1..object : i # object => ids'[i] = ids[i]
  BY <1>1, IdsCounted
<1>3. cam \in Poses /\ v \in Poses
  BY OrbitCamAssumption DEF TypeOK
<1>4. goal \in Poses
  <2>1. \A a1, a2 \in Int : AngleDiff(a1, a2) \in Int
    BY DEF AngleDiff
  <2>2. cam.yaw \in Int /\ v.yaw \in Int /\ cam.pitch \in Int /\ v.pitch \in Int
    BY <1>3, PoseFields
  <2>3. /\ AngleDiff(v.yaw, cam.yaw) \in Int /\ AngleDiff(v.pitch, cam.pitch) \in Int
    BY <2>1, <2>2
  <2>4. ASSUME NEW x \in Int, NEW y \in Int
        PROVE  [v EXCEPT !.yaw = x, !.pitch = y] \in Poses
    BY <1>3 DEF Poses, Fields
  <2>5. /\ cam.yaw + AngleDiff(v.yaw, cam.yaw) \in Int
        /\ cam.pitch + AngleDiff(v.pitch, cam.pitch) \in Int
    BY <2>2, <2>3
  <2> QED BY <2>4, <2>5
<1> HIDE DEF goal
<1>5. timer \in Timeouts /\ timer.object = object /\ timer.id = ids'[object]
  <2>1. duration \in Nat
    BY OrbitCamAssumption
  <2> QED BY <1>2, <1>3, <1>4, <2>1 DEF Timeouts
<1> HIDE DEF timer
<1>6. next \in Timeouts /\ next.object = object /\ next.id = ids'[object]
  <2>1. 0 \in 0..2
    OBVIOUS
  <2>2. next \in Timeouts /\ next.object = timer.object /\ next.id = timer.id
    BY <1>5, <2>1, NextTimeout
  <2> HIDE DEF next
  <2> QED BY <1>5, <2>2
<1>7. timers' \subseteq timers \cup {next}
  BY <1>1 DEF NextIteration
<1> HIDE DEF next
<1>8. \A t \in timers : /\ t \in Timeouts /\ t.object \in 1..object /\ t.id \in Nat
                        /\ t.id <= ids[t.object]
  BY DEF TypeOK, MotionInv, Timeouts
<1>9. timers' \subseteq Timeouts'
  BY <1>2, <1>6, <1>7, <1>8 DEF Timeouts
<1>10. \A t \in timers : t.object = object => t.id < ids'[t.object]
  BY <1>2, <1>8
<1>11. \A t \in timers : t.object # object => ids'[t.object] = ids[t.object]
  BY <1>2, <1>8
<1>12. \A t \in timers : t.id <= ids'[t.object]
  <2> TAKE t \in timers
  <2>1. CASE t.object = object
    BY <2>1, <1>2, <1>8
  <2>2. CASE t.object # object
    BY <2>2, <1>8, <1>11
  <2> QED BY <2>1, <2>2
<1>13. \A t \in timers : t.id = ids'[t.object] => t.object # object /\ t.id = ids[t.object]
  <2>1. \A x \in Nat : ~(x < x)
    OBVIOUS
  <2> QED BY <1>8, <1>10, <1>11, <2>1
<1>14. next.id <= ids'[next.object]
  BY <1>2, <1>6
<1>15. MotionInv'
  <2>1. \A t \in timers' : t.id <= ids'[t.object]
    BY <1>7, <1>12, <1>14
  <2>2. \A t1, t2 \in timers' :
          t1.object = t2.object /\ t1.id = ids'[t1.object] /\ t2.id = ids'[t2.object] => t1 = t2
    <3>1. \A t \in timers : t.id = ids'[t.object] => t.object # next.object
      BY <1>6, <1>13
    <3>2. \A t1, t2 \in timers :
            t1.object = t2.object /\ t1.id = ids[t1.object] /\ t2.id = ids[t2.object] => t1 = t2
      BY DEF MotionInv, Live
    <3> QED BY <1>7, <1>13, <3>1, <3>2
  <2> QED BY <1>1, <2>1, <2>2 DEF MotionInv, Live
<1>16. /\ SetTo(cam, Fields, FALSE) /\ cam \in [Fields -> Int]
  BY <1>1, <1>3 DEF MoveTo, Poses
<1>17. mouseButtonDown' \in {0, 1, 2, 4} /\ events' \in 0..MaxEvents
  BY <1>1, OrbitCamAssumption DEF UserEvent, TypeOK
<1> QED BY <1>1, <1>2, <1>9, <1>15, <1>16, <1>17, SettersKeep

LEMMA ProfileTimerKeeps ==
  ASSUME IInv, NEW timer \in timers, NEW part \in 0..2, ProfileTimer(timer, part)
  PROVE  IInv'
<1> USE DEF IInv
<1>1. /\ timers' = (timers \ {timer}) \cup
                     (IF Live(timer) THEN NextIteration(timer, part) ELSE {})
      /\ UNCHANGED <<profile_executor_id, moving, mouseButtonDown, ready, clipping,
                     queried, events>>
      /\ \/ MoveTo(Position(timer.start, timer.goal, part))
         \/ /\ existing_frustum_trigger' \in {existing_frustum_trigger, TRUE}
            /\ UNCHANGED <<cam, old>>
  BY DEF ProfileTimer
<1>2. timers' \subseteq Timeouts /\ MotionInv'
  BY <1>1, TimerKeeps
<1>3. object' = object /\ Timeouts' = Timeouts
  BY <1>1 DEF object, Timeouts
<1>4. /\ profile_executor_id' \in Seq(Nat) /\ profile_executor_id' # << >>
      /\ timers' \subseteq Timeouts' /\ moving' \in BOOLEAN
      /\ mouseButtonDown' \in {0, 1, 2, 4} /\ events' \in 0..MaxEvents
  BY <1>1, <1>2, <1>3 DEF TypeOK
<1>5. CASE MoveTo(Position(timer.start, timer.goal, part))
  <2>1. timer.start \in Poses /\ timer.goal \in Poses
    BY DEF TypeOK
  <2>2. Position(timer.start, timer.goal, part) \in [Fields -> Int]
    <3>1. \A x, y \in Int : (x + y) \div 2 \in Int
      OBVIOUS
    <3>2. Apex(timer.start, timer.goal) \in Int
      BY <2>1, PoseFields DEF Apex, Dist
    <3>3. \A f \in Fields : timer.start[f] \in Int /\ timer.goal[f] \in Int
      BY <2>1 DEF Poses
    <3>4. part = 0 \/ part = 1 \/ part = 2
      OBVIOUS
    <3> QED BY <3>1, <3>2, <3>3, <3>4 DEF Position
  <2>3. SetTo(Position(timer.start, timer.goal, part), Fields, FALSE)
    BY <1>5 DEF MoveTo
  <2> QED BY <1>1, <1>2, <1>4, <2>2, <2>3, SettersKeep
<1>6. CASE /\ existing_frustum_trigger' \in {existing_frustum_trigger, TRUE}
           /\ UNCHANGED <<cam, old>>
  <2>1. /\ near_plane_distance' = near_plane_distance /\ custom_clipping' = custom_clipping
        /\ planes' = planes /\ ready' = ready /\ queried' = queried
    BY <1>1 DEF clipping
  <2>2. TypeOK'
    BY <1>4, <1>6, <2>1 DEF TypeOK, Timeouts
  <2>3. Recent'
    BY <1>6, <2>1 DEF Recent
  <2> QED BY <1>2, <1>6, <2>1, <2>2, <2>3 DEF Steady, PlanesSet
<1> QED BY <1>1, <1>5, <1>6

LEMMA NewCameraKeeps ==
  ASSUME IInv, NEW v \in Views, NewCamera(v)
  PROVE  IInv'
<1> USE DEF IInv
<1> DEFINE ids == profile_executor_id
<1>1. /\ UserEvent /\ cam' = v /\ old' = v /\ ids' = Append(ids, 0)
      /\ moving' = FALSE /\ existing_frustum_trigger' = TRUE /\ timers' = timers
      /\ mouseButtonDown' = mouseButtonDown /\ ready' = ready /\ queried' = queried
      /\ near_plane_distance' = near_plane_distance
      /\ custom_clipping' = custom_clipping /\ planes' = planes
  BY DEF NewCamera, clipping
<1>2. v \in Poses
  BY OrbitCamAssumption
<1>3. /\ ids' \in Seq(Nat) /\ ids' # << >> /\ object \in Nat /\ object' = object + 1
      /\ \A i \in 1..object : ids'[i] = ids[i]
  BY <1>1, AppendProperties, LenProperties DEF TypeOK, object
<1>4. \A t \in timers : t.object \in 1..object /\ ids'[t.object] = ids[t.object]
  BY <1>3 DEF TypeOK
<1>5. 1..object \subseteq 1..object'
  BY <1>3
<1>6. timers' \subseteq Timeouts'
  BY <1>1, <1>5 DEF TypeOK, Timeouts
<1>7. MotionInv'
  <2>1. \A t \in timers : t.object # object'
    BY <1>3, <1>4
  <2> QED BY <1>1, <1>4, <2>1 DEF MotionInv, Live
<1>8. events' \in 0..MaxEvents
  BY <1>1, OrbitCamAssumption DEF UserEvent, TypeOK
<1>9. TypeOK'
  BY <1>1, <1>2, <1>3, <1>6, <1>8 DEF TypeOK, Timeouts
<1>10. Steady'
  BY <1>1, <1>2, PoseFields DEF Steady, Dist
<1> QED BY <1>1, <1>7, <1>9, <1>10 DEF Recent, PlanesSet

\* The mouse, without a motion of the camera.
LEMMA ButtonsKeep ==
  ASSUME IInv, (\E button \in {1, 2, 4} : MouseDown(button)) \/ MouseUp
  PROVE  IInv'
<1> USE DEF IInv
<1>1. /\ cam' = cam /\ old' = old /\ queried' = queried /\ ready' = ready
      /\ existing_frustum_trigger' = existing_frustum_trigger
      /\ near_plane_distance' = near_plane_distance
      /\ custom_clipping' = custom_clipping /\ planes' = planes
      /\ mouseButtonDown' \in {0, 1, 2, 4} /\ timers' = timers
  BY DEF MouseDown, MouseUp, clipping, query, motion
<1>2. events' \in 0..MaxEvents
  BY OrbitCamAssumption DEF MouseDown, MouseUp, UserEvent, TypeOK
<1>3. StopProfile \/ UNCHANGED motion
  BY DEF MouseDown, MouseUp
<1>4. /\ profile_executor_id' \in Seq(Nat) /\ profile_executor_id' # << >>
      /\ timers' \subseteq Timeouts' /\ moving' \in BOOLEAN /\ MotionInv'
  <2>1. CASE UNCHANGED motion
    BY <2>1, MotionSame
  <2>2. CASE StopProfile
    BY <1>1, <2>2, StopProfileKeeps DEF Timeouts, TypeOK
  <2> QED BY <1>3, <2>1, <2>2
<1>5. TypeOK'
  BY <1>1, <1>2, <1>4 DEF TypeOK, Timeouts
<1> QED BY <1>1, <1>4, <1>5 DEF Steady, Recent, PlanesSet

LEMMA RotateKeeps ==
  ASSUME IInv, NEW turn \in Turns, NEW tilt \in Turns, Rotate(turn, tilt)
  PROVE  IInv'
<1> USE DEF IInv
<1>1. cam \in Poses /\ turn \in Int /\ tilt \in Int
  BY OrbitCamAssumption DEF TypeOK
<1>2. cam.yaw + turn \in Int /\ cam.pitch + tilt \in Int /\ cam \in [Fields -> Int]
  BY <1>1, PoseFields
<1>3. [cam EXCEPT !.yaw = @ + turn, !.pitch = @ + tilt] \in [Fields -> Int]
  BY <1>1, <1>2 DEF Fields
<1>4. /\ SetTo([cam EXCEPT !.yaw = @ + turn, !.pitch = @ + tilt], {"yaw", "pitch"}, FALSE)
      /\ {"yaw", "pitch"} \in SUBSET Fields
  BY DEF Rotate, Fields
<1>5. /\ UNCHANGED motion /\ UNCHANGED <<ready, clipping, queried>>
      /\ mouseButtonDown' \in {0, 1, 2, 4} /\ events' \in 0..MaxEvents
  BY OrbitCamAssumption DEF Rotate, UserEvent, TypeOK
<1>6. /\ profile_executor_id' \in Seq(Nat) /\ profile_executor_id' # << >>
      /\ timers' \subseteq Timeouts' /\ moving' \in BOOLEAN /\ MotionInv'
  BY <1>5, MotionSame
<1> QED BY <1>3, <1>4, <1>5, <1>6, SettersKeep

\* The origin has no part in the thresholds that are bounded.
LEMMA StrafeKeeps ==
  ASSUME IInv, NEW left \in Pans, NEW up \in Pans, Strafe(left, up)
  PROVE  IInv'
<1> USE DEF IInv
<1> DEFINE step(percent) == (percent * cam.distance) \div 100
           far(o1, o2) == 20 * Dist(o1, o2) > cam.distance
           first == cam.origin + step(left)
           second == first + step(up)
           between == IF far(old.origin, first) THEN first ELSE old.origin
           last == IF far(between, second) THEN second ELSE between
<1>1. /\ UserEvent /\ cam' = [cam EXCEPT !.origin = second]
      /\ old' = [old EXCEPT !.origin = last]
      /\ existing_frustum_trigger' =
           (existing_frustum_trigger \/ far(old.origin, first) \/ far(between, second))
      /\ UNCHANGED <<motion, mouseButtonDown, ready, clipping, queried>>
  BY DEF Strafe
<1>2. cam \in Poses /\ old \in Poses /\ left \in Int /\ up \in Int
  BY OrbitCamAssumption DEF TypeOK
<1>3. \A x \in Int : x \div 100 \in Int
  OBVIOUS
<1>4. first \in Int /\ second \in Int
  <2>1. cam.distance \in Int /\ cam.origin \in Int
    BY <1>2, PoseFields
  <2>2. left * cam.distance \in Int /\ up * cam.distance \in Int
    BY <1>2, <2>1
  <2>3. step(left) \in Int /\ step(up) \in Int
    BY <1>3, <2>2
  <2> QED BY <2>1, <2>3
<1> HIDE DEF step, first, second
<1>5. last \in Int
  BY <1>2, <1>4, PoseFields
<1>6. /\ cam' \in Poses /\ cam'.yaw = cam.yaw /\ cam'.pitch = cam.pitch
      /\ cam'.distance = cam.distance
  BY <1>1, <1>2, <1>4 DEF Poses, Fields
<1>7. ~existing_frustum_trigger' => old' = old /\ ~existing_frustum_trigger
  <2>1. [old EXCEPT !.origin = old.origin] = old
    BY <1>2 DEF Poses, Fields
  <2> QED BY <1>1, <2>1
<1> HIDE DEF last, far, between
<1>8. /\ old' \in Poses /\ old'.yaw = old.yaw /\ old'.pitch = old.pitch
      /\ old'.distance = old.distance
  BY <1>1, <1>2, <1>5 DEF Poses, Fields
<1>9. Steady'
  BY <1>6, <1>8 DEF Steady
<1>10. /\ near_plane_distance' = near_plane_distance /\ custom_clipping' = custom_clipping
       /\ planes' = planes /\ ready' = ready /\ queried' = queried
       /\ mouseButtonDown' = mouseButtonDown /\ UNCHANGED motion
  BY <1>1 DEF clipping
<1>11. existing_frustum_trigger' \in BOOLEAN
  BY <1>1 DEF TypeOK
<1>12. events' \in 0..MaxEvents
  BY <1>1, OrbitCamAssumption DEF UserEvent, TypeOK
<1>13. /\ profile_executor_id' \in Seq(Nat) /\ profile_executor_id' # << >>
       /\ timers' \subseteq Timeouts' /\ moving' \in BOOLEAN /\ MotionInv'
  BY <1>10, MotionSame
<1>14. TypeOK'
  BY <1>6, <1>8, <1>10, <1>11, <1>12, <1>13 DEF TypeOK, Timeouts
<1>15. Recent'
  BY <1>7, <1>10, RecentKept
<1> QED BY <1>9, <1>10, <1>13, <1>14, <1>15 DEF PlanesSet

LEMMA ScrollKeeps ==
  ASSUME IInv, NEW percent \in Wheels, Scroll(percent)
  PROVE  IInv'
<1> USE DEF IInv
<1> DEFINE move_by == (percent * cam.distance) \div 100
           near == AtLeast(Nearest, near_plane_distance - (move_by \div 2))
           goal == [cam EXCEPT !.distance = @ - move_by]
<1>1. /\ UserEvent /\ StopProfile
      /\ IF custom_clipping THEN near_plane_distance' = near /\ planes' = near
         ELSE UNCHANGED <<near_plane_distance, planes>>
      /\ SetTo(goal, {"distance"}, custom_clipping)
      /\ UNCHANGED <<timers, mouseButtonDown, ready, custom_clipping, queried>>
  BY DEF Scroll
<1>2. cam \in Poses /\ percent \in Int
  BY OrbitCamAssumption DEF TypeOK
<1>3. move_by \in Int
  <2>1. percent * cam.distance \in Int
    BY <1>2, PoseFields
  <2>2. \A x \in Int : x \div 100 \in Int
    OBVIOUS
  <2> QED BY <2>1, <2>2
<1> HIDE DEF move_by
<1>4. goal \in [Fields -> Int]
  <2>1. cam.distance - move_by \in Int /\ cam \in [Fields -> Int]
    BY <1>2, <1>3, PoseFields
  <2> QED BY <2>1, PoseExcept
<1>5. near \in Nat
  <2>1. move_by \div 2 \in Int
    BY <1>3
  <2> QED BY <2>1 DEF AtLeast, Nearest, TypeOK
<1> HIDE DEF goal, near
<1>6. {"distance"} \in SUBSET Fields /\ custom_clipping \in BOOLEAN
  BY DEF Fields, TypeOK
<1>7. /\ cam' \in Poses /\ old' \in Poses /\ existing_frustum_trigger' \in BOOLEAN
      /\ Steady'
      /\ ~existing_frustum_trigger' =>
           old' = old /\ ~existing_frustum_trigger /\ ~custom_clipping
  BY <1>1, <1>4, <1>6, SetToKeeps
<1>8. near_plane_distance' \in Nat /\ planes' \in Nat
  BY <1>1, <1>5 DEF TypeOK
<1>9. /\ profile_executor_id' \in Seq(Nat) /\ profile_executor_id' # << >>
      /\ object' = object /\ moving' \in BOOLEAN /\ MotionInv'
  BY <1>1, StopProfileKeeps
<1>10. timers' \subseteq Timeouts'
  BY <1>1, <1>9 DEF TypeOK, Timeouts
<1>11. events' \in 0..MaxEvents
  BY <1>1, OrbitCamAssumption DEF UserEvent, TypeOK
<1>12. TypeOK'
  BY <1>1, <1>7, <1>8, <1>9, <1>10, <1>11 DEF TypeOK, Timeouts
<1>13. Recent'
  <2>1. ~existing_frustum_trigger' => planes' = planes
    BY <1>1, <1>7
  <2> QED BY <1>1, <1>7, <2>1, RecentKept
<1>14. PlanesSet'
  BY <1>1 DEF PlanesSet
<1> QED BY <1>7, <1>9, <1>12, <1>13, <1>14

\* The keys of the near plane, and the shader program.
LEMMA PlanesKeep ==
  ASSUME IInv, ResetNearPlane \/ (\E step \in {-1, 1} : MoveNearPlane(step)) \/ ProgramLoaded
  PROVE  IInv'
<1> USE DEF IInv
<1>1. /\ cam' = cam /\ old' = old /\ queried' = queried /\ UNCHANGED motion
      /\ mouseButtonDown' = mouseButtonDown
  BY DEF ResetNearPlane, MoveNearPlane, ProgramLoaded
<1>2. near_plane_distance' \in Nat
  <2>1. ASSUME NEW step \in {-1, 1} PROVE AtLeast(Nearest, near_plane_distance + step) \in Nat
    BY DEF AtLeast, Nearest, TypeOK
  <2>2. Nearest \in Nat
    BY DEF Nearest
  <2> QED BY <2>1, <2>2 DEF ResetNearPlane, MoveNearPlane, ProgramLoaded, TypeOK
<1>3. \/ /\ ready' = ready
         /\ planes' = IF ready THEN near_plane_distance' ELSE planes
         /\ existing_frustum_trigger' = (existing_frustum_trigger \/ ready)
      \/ /\ ready' = TRUE /\ planes' = near_plane_distance
         /\ near_plane_distance' = near_plane_distance /\ existing_frustum_trigger' = TRUE
  BY DEF ResetNearPlane, MoveNearPlane, ProgramLoaded, SetProjectionMatrix
<1>4. custom_clipping' \in BOOLEAN
  <2>1. CASE ResetNearPlane
    BY <2>1 DEF ResetNearPlane
  <2>2. CASE \E step \in {-1, 1} : MoveNearPlane(step)
    <3>1. custom_clipping' = IF ready THEN near_plane_distance' > Nearest
                                      ELSE custom_clipping
      BY <2>2 DEF MoveNearPlane
    <3>2. CASE ready
      <4>1. custom_clipping' = (near_plane_distance' > Nearest)
        BY <3>1, <3>2, Zenon
      <4>2. (near_plane_distance' > Nearest) \in BOOLEAN
        BY <1>2, SMT DEF Nearest
      <4> QED BY <4>1, <4>2, Zenon
    <3>3. CASE ~ready
      <4>1. custom_clipping' = custom_clipping
        BY <3>1, <3>3, Zenon
      <4> QED BY <4>1 DEF TypeOK
    <3> QED BY <3>2, <3>3
  <2>3. CASE ProgramLoaded
    BY <2>3 DEF ProgramLoaded, TypeOK
  <2> QED BY <2>1, <2>2, <2>3
<1>5. planes' \in Nat /\ PlanesSet'
  BY <1>2, <1>3 DEF TypeOK, PlanesSet
<1>6. ready' \in BOOLEAN /\ existing_frustum_trigger' \in BOOLEAN
  BY <1>3 DEF TypeOK
<1>7. events' \in 0..MaxEvents
  BY OrbitCamAssumption DEF ResetNearPlane, MoveNearPlane, ProgramLoaded, UserEvent, TypeOK
<1>8. /\ profile_executor_id' \in Seq(Nat) /\ profile_executor_id' # << >>
      /\ timers' \subseteq Timeouts' /\ moving' \in BOOLEAN /\ MotionInv'
  BY <1>1, MotionSame
<1>9. TypeOK'
  BY <1>1, <1>2, <1>4, <1>5, <1>6, <1>7, <1>8 DEF TypeOK, Timeouts
<1>10. Recent'
  <2>1. ~existing_frustum_trigger' => planes' = planes /\ ~existing_frustum_trigger
    BY <1>3
  <2> QED BY <1>1, <2>1, RecentKept
<1> QED BY <1>1, <1>5, <1>8, <1>9, <1>10 DEF Steady

LEMMA StutterKeeps == IInv /\ UNCHANGED vars => IInv'
<1> SUFFICES ASSUME IInv, UNCHANGED vars PROVE IInv'
  OBVIOUS
<1> USE DEF IInv
<1>1. /\ cam' = cam /\ old' = old /\ queried' = queried /\ ready' = ready
      /\ existing_frustum_trigger' = existing_frustum_trigger
      /\ near_plane_distance' = near_plane_distance
      /\ custom_clipping' = custom_clipping /\ planes' = planes
      /\ mouseButtonDown' = mouseButtonDown /\ events' = events /\ UNCHANGED motion
  BY DEF vars, clipping, query
<1>2. /\ profile_executor_id' \in Seq(Nat) /\ profile_executor_id' # << >>
      /\ timers' \subseteq Timeouts' /\ moving' \in BOOLEAN /\ MotionInv'
  BY <1>1, MotionSame
<1>3. TypeOK'
  BY <1>1, <1>2 DEF TypeOK, Timeouts
<1> QED BY <1>1, <1>2, <1>3 DEF Steady, Recent, PlanesSet

LEMMA NextIInv == IInv /\ [Next]_vars => IInv'
<1> SUFFICES ASSUME IInv, [Next]_vars PROVE IInv'
  OBVIOUS
<1>1. CASE FrustumTimer
  BY <1>1, FrustumTimerKeeps
<1>2. CASE Iteration
  BY <1>2, ProfileTimerKeeps DEF Iteration
<1>3. CASE ProgramLoaded \/ ResetNearPlane \/ \E step \in {-1, 1} : MoveNearPlane(step)
  BY <1>3, PlanesKeep
<1>4. CASE \E v \in Views : NewCamera(v) \/ \E duration \in 0..MaxFrames : Goto(v, duration)
  BY <1>4, NewCameraKeeps, GotoKeeps
<1>5. CASE (\E button \in {1, 2, 4} : MouseDown(button)) \/ MouseUp
  BY <1>5, ButtonsKeep
<1>6. CASE \E turn, tilt \in Turns : Rotate(turn, tilt)
  BY <1>6, RotateKeeps
<1>7. CASE \E left, up \in Pans : Strafe(left, up)
  BY <1>7, StrafeKeeps
<1>8. CASE \E percent \in Wheels : Scroll(percent)
  BY <1>8, ScrollKeeps
<1>9. CASE UNCHANGED vars
  BY <1>9, StutterKeeps
<1> QED BY <1>1, <1>2, <1>3, <1>4, <1>5, <1>6, <1>7, <1>8, <1>9 DEF Next

-----------------------------------------------------------------------------
(* Theorems *)

\* IInv holds in every behaviour of the camera.
LEMMA AlwaysIInv == Spec => []IInv
<1>1. Init => IInv
  BY InitIInv
<1>2. IInv /\ [Next]_vars => IInv'
  BY NextIInv
<1> QED BY <1>1, <1>2, PTL DEF Spec

\* However many small steps are taken, the view on the screen was queried for
\* within the thresholds of the setters twice over, and with the near plane of
\* now, unless a query is about to come (orbitcam.js, setYaw, setPitch and
\* setDistance; index.js, triggerFrustumUpdate).
THEOREM QueryFollowsView == Spec => []DriftBounded
<1>1. IInv => DriftBounded
  <2> SUFFICES ASSUME IInv, ~existing_frustum_trigger
               PROVE  /\ Dist(cam.yaw, queried.pose.yaw) <= 10
                      /\ Dist(cam.pitch, queried.pose.pitch) <= 10
                      /\ 20 * Dist(cam.distance, queried.pose.distance)
                           <= cam.distance + queried.pose.distance
                      /\ ready => queried.near = near_plane_distance
    BY DEF DriftBounded
  <2>1. \A x, y, z, a, b \in Int :
          /\ Dist(y, x) <= 5 /\ Dist(y, z) <= 5 => Dist(x, z) <= 10
          /\ 20 * Dist(y, x) <= a /\ 20 * Dist(y, z) <= b => 20 * Dist(x, z) <= a + b
    BY DEF Dist
  <2>2. /\ cam.yaw \in Int /\ cam.pitch \in Int /\ cam.distance \in Int
        /\ old.yaw \in Int /\ old.pitch \in Int /\ old.distance \in Int
    BY PoseFields DEF IInv, TypeOK
  <2>3. /\ queried.pose.yaw \in Int /\ queried.pose.pitch \in Int
        /\ queried.pose.distance \in Int
    BY PoseFields DEF IInv, TypeOK
  <2> QED BY <2>1, <2>2, <2>3 DEF IInv, Steady, Recent, PlanesSet
<1> QED BY <1>1, AlwaysIInv, PTL

\* One timeout at most can move the camera, and none after the motion was
\* stopped, however many cameras, motions and timeouts there were
\* (orbitcam.js, stopProfile and executeProfileIteration).
THEOREM LastMotionOnly == Spec => []OneMotion
<1>1. IInv => OneMotion
  <2> SUFFICES ASSUME IInv PROVE OneMotion
    OBVIOUS
  <2> DEFINE moves == {timer \in timers : timer.object = object /\ Live(timer)}
  <2>1. \A t1, t2 \in moves : t1 = t2
    BY DEF IInv, MotionInv
  <2>2. ~moving => moves = {}
    BY DEF IInv, MotionInv
  <2>3. moves = {} \/ \E t \in moves : moves = {t}
    BY <2>1
  <2> HIDE DEF moves
  <2>4. Cardinality(moves) <= 1
    <3>1. CASE moves = {}
      BY <3>1, FS_EmptySet
    <3>2. CASE \E t \in moves : moves = {t}
      <4>1. PICK t \in moves : moves = {t}
        BY <3>2
      <4>2. Cardinality({t}) = 1
        BY FS_Singleton
      <4> QED BY <4>1, <4>2
    <3> QED BY <2>3, <3>1, <3>2
  <2> QED BY <2>2, <2>4 DEF OneMotion, moves
<1> QED BY <1>1, AlwaysIInv, PTL
=============================================================================
