------------------------------ MODULE OrbitCam ------------------------------
(***************************************************************************)
(* The camera of the web client: its pose, the motions that timers carry   *)
(* out, and the frustum queries its changes trigger                        *)
(* (src/megatree_web/js: orbitcam.js and the handlers of index.js that     *)
(* move the camera or change the near plane).                              *)
(*                                                                         *)
(* Angles are in degrees; distances, the origin (along one axis) and the   *)
(* near plane in units of half a metre.  Rounding to this grid stands for  *)
(* the coordinates; no guard depends on it.  Every handler is one step.    *)
(***************************************************************************)
EXTENDS Integers, Sequences, FiniteSets

CONSTANTS
  Views,           \* the poses of the views, picked points and metadata
  Turns,           \* angles a drag turns the camera by
  Pans,            \* percentages of the distance a drag moves the origin by
  Wheels,          \* percentages of the distance the wheel moves closer by
  Closest, Farthest,
  MaxFrames,       \* bound: the longest motion, in frames
  MaxEvents        \* bound: actions of the user, new cameras included

Fields == {"yaw", "pitch", "distance", "origin"}
Poses == {p \in [Fields -> Int] : p.distance > 0}

ASSUME OrbitCamAssumption ==
  /\ Views \subseteq Poses /\ Views # {}
  /\ Turns \subseteq Int /\ Pans \subseteq Int /\ Wheels \subseteq Int
  /\ Closest \in Nat \ {0} /\ Farthest \in Nat /\ Closest <= Farthest
  /\ MaxFrames \in Nat /\ MaxEvents \in Nat

VARIABLES
  cam,             \* the pose now
  old,             \* old_yaw, old_pitch, old_distance, old_origin
  profile_executor_id,  \* of every OrbitCam object made; the last is the camera
  timers,          \* the timeouts of executeProfileIteration
  mouseButtonDown, \* 0, 1 (left), 2 (centre) or 4 (selection)
  ready,           \* whether the shader program is loaded
  near_plane_distance, custom_clipping,
  planes,          \* the near plane that the frustum querier has
  existing_frustum_trigger,
  queried,         \* pose and near plane of the last query
  moving,          \* history: a motion was begun and not stopped since
  events

motion == <<profile_executor_id, timers, moving>>
clipping == <<near_plane_distance, custom_clipping, planes>>
query == <<existing_frustum_trigger, queried>>
vars == <<cam, old, motion, mouseButtonDown, ready, clipping, query, events>>

Nearest == 2   \* a metre

Dist(x, y) == IF x < y THEN y - x ELSE x - y
AtLeast(low, x) == IF x < low THEN low ELSE x
Clamp(low, x, high) == IF x < low THEN low ELSE IF x > high THEN high ELSE x

Init ==
  \E v \in Views :
    /\ cam = v /\ old = v /\ profile_executor_id = <<0>>
    /\ timers = {} /\ moving = FALSE /\ mouseButtonDown = 0 /\ ready = FALSE
    /\ near_plane_distance = Nearest /\ custom_clipping = FALSE /\ planes = Nearest
    /\ existing_frustum_trigger = TRUE /\ queried = [pose |-> v, near |-> Nearest]
    /\ events = 0

-----------------------------------------------------------------------------
(* setYaw, setPitch, setDistance and setOrigin                             *)

\* The range a setter keeps its value in.
Limited(field, x) ==
  CASE field = "pitch" -> Clamp(-90, x, 90)
    [] field = "distance" -> Clamp(Closest, x, Farthest)
    [] OTHER -> x

\* Whether the setter of a field calls motionCallback in the pose p.
CallsBack(field, p) ==
  IF field \in {"yaw", "pitch"} THEN Dist(old[field], p[field]) > 5
  ELSE 20 * Dist(old[field], p[field]) > p.distance

\* Fault in SetTo: the old values follow every change.
SetToForgets(pose, fields, trigger) ==
  LET p == [f \in Fields |-> IF f \in fields THEN Limited(f, pose[f]) ELSE cam[f]]
      called == {f \in fields : CallsBack(f, p)}
  IN /\ cam' = p /\ old' = [f \in Fields |-> IF f \in fields THEN p[f] ELSE old[f]]
     /\ existing_frustum_trigger' = (existing_frustum_trigger \/ trigger \/ called # {})

\* The setters of some fields, that of the distance before that of the origin.
\* A setter that calls back keeps its value as the old one; motionCallback
\* triggers a frustum query, and the caller may have triggered one.
SetTo(pose, fields, trigger) ==
  LET p == [f \in Fields |-> IF f \in fields THEN Limited(f, pose[f]) ELSE cam[f]]
      called == {f \in fields : CallsBack(f, p)}
  IN /\ cam' = p /\ old' = [f \in Fields |-> IF f \in called THEN p[f] ELSE old[f]]
     /\ existing_frustum_trigger' = (existing_frustum_trigger \/ trigger \/ called # {})

\* The timer of triggerFrustumUpdate.
FrustumTimer ==
  /\ existing_frustum_trigger /\ existing_frustum_trigger' = FALSE
  /\ queried' = [pose |-> cam, near |-> planes]
  /\ UNCHANGED <<cam, old, motion, mouseButtonDown, ready, clipping, events>>

UserEvent == events < MaxEvents /\ events' = events + 1

-----------------------------------------------------------------------------
(* Motions *)

object == Len(profile_executor_id)
Live(timer) == timer.id = profile_executor_id[timer.object]

\* Fault in StopProfile: the id stays.
StopProfileKeepsId == UNCHANGED profile_executor_id /\ moving' = FALSE

\* stopProfile; the timeouts stay and find another id.
StopProfile ==
  /\ profile_executor_id' = [profile_executor_id EXCEPT ![object] = @ + 1]
  /\ moving' = FALSE

\* angle_diff: the shorter way round; half a turn keeps its direction.
AngleDiff(a1, a2) ==
  IF a1 - a2 > 0 /\ (a1 - a2) % 360 = 180 THEN 180
  ELSE ((a1 - a2 + 180) % 360) - 180

\* A position of the profiles: at the start, half way or at the end; on a way
\* that is far the distance goes up to twice the length of the way first.
Apex(start, goal) == 2 * Dist(start.origin, goal.origin)
IsFar(start, goal) ==
  Dist(start.origin, goal.origin) >= start.distance + goal.distance
Position(start, goal, part) ==
  LET at(x, y) == CASE part = 0 -> x [] part = 1 -> (x + y) \div 2 [] part = 2 -> y
  IN [f \in Fields |->
        IF f = "distance" /\ part = 1 /\ IsFar(start, goal) THEN Apex(start, goal)
        ELSE at(start[f], goal[f])]

\* executeProfileIteration moves the camera.
MoveTo(p) == SetTo(p, Fields, FALSE)

\* Fault in NextIteration: the next iteration is given the time of this one.
NextIterationSameTime(timer, part) ==
  IF timer.time + 1 < timer.duration THEN {[timer EXCEPT !.part = part]} ELSE {}

\* The timeout of the next iteration, unless the duration is over by then.
NextIteration(timer, part) ==
  IF timer.time + 1 < timer.duration
  THEN {[timer EXCEPT !.time = @ + 1, !.part = part]} ELSE {}

\* goto, from a view, a job or a picked point: the profiles begin at the pose
\* of now and the first iteration runs at once.
Goto(v, duration) ==
  LET goal == [v EXCEPT !.yaw = cam.yaw + AngleDiff(v.yaw, cam.yaw),
                        !.pitch = cam.pitch + AngleDiff(v.pitch, cam.pitch)]
      timer == [object |-> object, id |-> profile_executor_id[object] + 1, time |-> 0,
                duration |-> duration, start |-> cam, goal |-> goal, part |-> 0]
  IN /\ UserEvent
     /\ profile_executor_id' = [profile_executor_id EXCEPT ![object] = @ + 1]
     /\ moving' = TRUE
     /\ timers' = timers \cup NextIteration(timer, 0)
     /\ MoveTo(cam)
     /\ UNCHANGED <<mouseButtonDown, ready, clipping, queried>>

\* The timeout of an iteration.  A camera that was replaced goes on with its
\* motion; its callback triggers a query all the same.
ProfileTimer(timer, part) ==
  /\ timer \in timers /\ timer.part <= part
  /\ timers' = (timers \ {timer}) \cup
       (IF Live(timer) THEN NextIteration(timer, part) ELSE {})
  /\ CASE Live(timer) /\ timer.object = object ->
            MoveTo(Position(timer.start, timer.goal, part))
       [] Live(timer) /\ timer.object # object ->
            /\ existing_frustum_trigger' \in {existing_frustum_trigger, TRUE}
            /\ UNCHANGED <<cam, old>>
       [] ~Live(timer) -> UNCHANGED <<cam, old, existing_frustum_trigger>>
  /\ UNCHANGED <<profile_executor_id, moving, mouseButtonDown, ready, clipping,
                 queried, events>>

\* initCam: another object, with the pose of a tree's metadata.
NewCamera(v) ==
  /\ UserEvent /\ cam' = v /\ old' = v
  /\ profile_executor_id' = Append(profile_executor_id, 0) /\ moving' = FALSE
  /\ existing_frustum_trigger' = TRUE
  /\ UNCHANGED <<timers, mouseButtonDown, ready, clipping, queried>>

-----------------------------------------------------------------------------
(* The mouse *)

MouseDown(button) ==
  /\ UserEvent /\ StopProfile /\ mouseButtonDown' = button
  /\ UNCHANGED <<cam, old, timers, ready, clipping, query>>

\* A button released outside the canvas stays down.
MouseUp ==
  /\ mouseButtonDown' = 0
  /\ UNCHANGED <<cam, old, motion, ready, clipping, query, events>>

\* onMouseMove with the left button: yaw, then pitch.
Rotate(turn, tilt) ==
  /\ mouseButtonDown = 1 /\ UserEvent
  /\ SetTo([cam EXCEPT !.yaw = @ + turn, !.pitch = @ + tilt], {"yaw", "pitch"}, FALSE)
  /\ UNCHANGED <<motion, mouseButtonDown, ready, clipping, queried>>

\* With the centre button: goLeft, then goUp, each with setOrigin.
Strafe(left, up) ==
  LET step(percent) == (percent * cam.distance) \div 100
      far(o1, o2) == 20 * Dist(o1, o2) > cam.distance
      first == cam.origin + step(left)
      second == first + step(up)
      between == IF far(old.origin, first) THEN first ELSE old.origin
  IN /\ mouseButtonDown = 2 /\ UserEvent
     /\ cam' = [cam EXCEPT !.origin = second]
     /\ old' = [old EXCEPT !.origin = IF far(between, second) THEN second ELSE between]
     /\ existing_frustum_trigger' =
          (existing_frustum_trigger \/ far(old.origin, first) \/ far(between, second))
     /\ UNCHANGED <<motion, mouseButtonDown, ready, clipping, queried>>

\* mouseScroll: with custom clipping the near plane moves along.
Scroll(percent) ==
  LET move_by == (percent * cam.distance) \div 100
      near == AtLeast(Nearest, near_plane_distance - (move_by \div 2))
  IN /\ UserEvent /\ StopProfile
     /\ IF custom_clipping
        THEN near_plane_distance' = near /\ planes' = near
        ELSE UNCHANGED <<near_plane_distance, planes>>
     /\ SetTo([cam EXCEPT !.distance = @ - move_by], {"distance"}, custom_clipping)
     /\ UNCHANGED <<timers, mouseButtonDown, ready, custom_clipping, queried>>

-----------------------------------------------------------------------------
(* The near plane *)

\* setProjectionMatrix; it throws until the shader program is loaded.
SetProjectionMatrix ==
  /\ planes' = IF ready THEN near_plane_distance' ELSE planes
  /\ existing_frustum_trigger' = (existing_frustum_trigger \/ ready)

\* The key i.
ResetNearPlane ==
  /\ UserEvent /\ near_plane_distance' = Nearest /\ custom_clipping' = FALSE
  /\ SetProjectionMatrix
  /\ UNCHANGED <<cam, old, motion, mouseButtonDown, ready, queried>>

\* The keys o (step -1) and p (step 1).
MoveNearPlane(step) ==
  /\ UserEvent
  /\ near_plane_distance' = AtLeast(Nearest, near_plane_distance + step)
  /\ SetProjectionMatrix
  /\ custom_clipping' = IF ready THEN near_plane_distance' > Nearest ELSE custom_clipping
  /\ UNCHANGED <<cam, old, motion, mouseButtonDown, ready, queried>>

\* onProgramLoaded, once the shaders are there.
ProgramLoaded ==
  /\ ~ready /\ ready' = TRUE
  /\ planes' = near_plane_distance /\ existing_frustum_trigger' = TRUE
  /\ UNCHANGED <<cam, old, motion, mouseButtonDown, near_plane_distance,
                 custom_clipping, queried, events>>

-----------------------------------------------------------------------------
Iteration == \E timer \in timers, part \in 0..2 : ProfileTimer(timer, part)

Next ==
  \/ FrustumTimer \/ Iteration \/ ProgramLoaded
  \/ \E v \in Views : NewCamera(v) \/ \E duration \in 0..MaxFrames : Goto(v, duration)
  \/ \E button \in {1, 2, 4} : MouseDown(button)
  \/ MouseUp
  \/ \E turn, tilt \in Turns : Rotate(turn, tilt)
  \/ \E left, up \in Pans : Strafe(left, up)
  \/ \E percent \in Wheels : Scroll(percent)
  \/ ResetNearPlane \/ \E step \in {-1, 1} : MoveNearPlane(step)

Spec == Init /\ [][Next]_vars

\* A timer of the browser fires.
FairSpec == Spec /\ WF_vars(FrustumTimer) /\ WF_vars(Iteration)

-----------------------------------------------------------------------------
(* Properties *)

\* Types and ranges.
TypeOK ==
  /\ cam \in Poses /\ old \in Poses /\ queried \in [pose : Poses, near : Nat]
  /\ profile_executor_id \in Seq(Nat) /\ profile_executor_id # << >>
  /\ timers \subseteq [object : 1..object, id : Nat, time : Nat, duration : Nat,
                       start : Poses, goal : Poses, part : 0..2]
  /\ mouseButtonDown \in {0, 1, 2, 4} /\ near_plane_distance \in Nat /\ planes \in Nat
  /\ ready \in BOOLEAN /\ custom_clipping \in BOOLEAN
  /\ existing_frustum_trigger \in BOOLEAN /\ moving \in BOOLEAN
  /\ events \in 0..MaxEvents

\* Without a trigger pending, the cells on the screen were queried for a view
\* that is at most 10 degrees and a tenth of the mean distance away, and with
\* the near plane of now, however many small steps were taken: the setters
\* compare with the value of the last callback (orbitcam.js, setYaw, setPitch,
\* setDistance; index.js, triggerFrustumUpdate and setProjectionMatrix).
DriftBounded ==
  ~existing_frustum_trigger =>
    /\ Dist(cam.yaw, queried.pose.yaw) <= 10
    /\ Dist(cam.pitch, queried.pose.pitch) <= 10
    /\ 20 * Dist(cam.distance, queried.pose.distance) <= cam.distance + queried.pose.distance
    /\ ready => queried.near = near_plane_distance

\* At most one timeout can move the camera, and none after the user stopped
\* the motion: the others find another id (orbitcam.js, stopProfile and
\* executeProfileIteration).
OneMotion ==
  LET moves == {timer \in timers : timer.object = object /\ Live(timer)}
  IN Cardinality(moves) <= 1 /\ (~moving => moves = {})

\* Once the user is done, every motion ends and the view is queried for
\* (orbitcam.js, executeProfileIteration; index.js, triggerFrustumUpdate).
ViewSettles == <>[](timers = {} /\ ~existing_frustum_trigger)
=============================================================================
