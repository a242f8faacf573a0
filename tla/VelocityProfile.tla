--------------------------- MODULE VelocityProfile ---------------------------
(***************************************************************************)
(* The velocity profiles of a camera motion, as functions of time          *)
(* (src/megatree_web/js: velocityprofile_trap.js, velocityprofile_mapped.js,*)
(* velocityprofile_mapped_double.js, and mapping1 of orbitcam.js).         *)
(*                                                                         *)
(* Numbers are exact fractions <<n, d>> with d >= 0.  As in the code,      *)
(* 0/0 is <<0, 0>>, and a comparison with it by < is FALSE.                *)
(***************************************************************************)
EXTENDS Integers

Gcd[m \in Nat, n \in Nat] == IF n = 0 THEN m ELSE Gcd[n, m % n]
AbsInt(n) == IF n < 0 THEN -n ELSE n
Reduced(n, d) ==
  IF d = 0 THEN <<IF n = 0 THEN 0 ELSE n \div AbsInt(n), 0>>
  ELSE LET g == Gcd[d, AbsInt(n)] IN <<n \div g, d \div g>>

Frac(n) == <<n, 1>>
Zero == Frac(0)
One == Frac(1)
x ++ y == Reduced(x[1] * y[2] + y[1] * x[2], x[2] * y[2])
x -- y == x ++ <<-y[1], y[2]>>
x ** y == Reduced(x[1] * y[1], x[2] * y[2])
x // y == IF y[1] < 0 THEN Reduced((-x[1]) * y[2], x[2] * (-y[1]))
          ELSE Reduced(x[1] * y[2], x[2] * y[1])
Less(x, y) == x[1] * y[2] < y[1] * x[2]
LessEq(x, y) == x[1] * y[2] <= y[1] * x[2]
Abs(x) == <<AbsInt(x[1]), x[2]>>
Sign(x) == IF Less(x, Zero) THEN Frac(-1) ELSE One
Two == Frac(2)

\* Exact for the squares of fractions, to which the inputs are restricted.
Sqrt(x) ==
  LET Root(n) == CHOOSE k \in 0..n : k * k = n
  IN <<Root(x[1]), Root(x[2])>>

-----------------------------------------------------------------------------
(* VelocityProfileTrap *)

\* The polynomial p1 + time * (p2 + p3 * time).
Poly(p, time) == p[1] ++ (time ** (p[2] ++ (p[3] ** time)))

\* Fault in Joined: the slope is carried over without that of the new part.
JoinedWrongSlope(p, p3, time) ==
  LET p2 == p[2] ++ (Two ** p[3] ** time)
  IN <<Poly(p, time) -- (time ** (p2 ++ (time ** p3))), p2, p3>>

\* The polynomial with second coefficient p3 that agrees with p, in value and
\* in slope, at a time.
Joined(p, p3, time) ==
  LET p2 == (p[2] ++ (Two ** p[3] ** time)) -- (Two ** p3 ** time)
  IN <<Poly(p, time) -- (time ** (p2 ++ (time ** p3))), p2, p3>>

\* The constructor: the velocity saturates, or is never reached.
Trap(pos1, pos2, maxvel, maxacc) ==
  LET s == Sign(pos2 -- pos1)
      t1 == maxvel // maxacc
      deltax1 == (s ** maxacc ** t1 ** t1) // Two
      deltaT == ((pos2 -- pos1) -- (Two ** deltax1)) // (s ** maxvel)
      saturates == Less(Zero, deltaT)
      time1 == IF saturates THEN t1 ELSE Sqrt(((pos2 -- pos1) // s) // maxacc)
      duration == IF saturates THEN (Two ** t1) ++ deltaT ELSE time1 ** Two
      time2 == IF saturates THEN duration -- t1 ELSE time1
      a == <<pos1, Zero, (s ** maxacc) // Two>>
      b == Joined(a, Zero, time1)
      c == Joined(b, Zero -- a[3], time2)
  IN [startpos |-> pos1, endpos |-> pos2, time1 |-> time1, time2 |-> time2,
      duration |-> duration, a |-> a, b |-> b, c |-> c]

\* setProfileDuration.  For a profile of length 0 the times become 0/0.
TrapSetProfileDuration(p, newduration) ==
  LET factor == p.duration // newduration
      slower(q) == <<q[1], q[2] ** factor, q[3] ** factor ** factor>>
  IN IF newduration = p.duration THEN p
     ELSE [p EXCEPT !.a = slower(@), !.b = slower(@), !.c = slower(@),
                    !.duration = newduration,
                    !.time1 = @ // factor, !.time2 = @ // factor]

TrapGetPos(p, time) ==
  CASE Less(time, Zero) -> p.startpos
    [] ~Less(time, Zero) /\ Less(time, p.time1) -> Poly(p.a, time)
    [] ~Less(time, Zero) /\ ~Less(time, p.time1) /\ Less(time, p.time2) -> Poly(p.b, time)
    [] ~Less(time, p.time1) /\ ~Less(time, p.time2) /\ LessEq(time, p.duration) -> Poly(p.c, time)
    [] OTHER -> p.endpos

-----------------------------------------------------------------------------
(* VelocityProfileMapped and VelocityProfileMappedDouble *)

\* mapping1 with power 3; map1 and map2 are the two distances.
Mapping1(map1, map2, value) ==
  LET up(m1, m2, v) ==
        (v ** v ** v ** m2) //
          (((m2 -- m1) ** v) ++ (m1 ** v ** v) ++ (One -- v))
  IN IF Less(map1, map2) THEN up(map1, map2, value)
     ELSE One -- up(map2, map1, One -- value)

\* Without a length there is no profile.
Mapped(pos1, pos2, maxvel, maxacc) ==
  LET length == Abs(pos2 -- pos1)
      profile == IF length = Zero THEN << >> ELSE Trap(Zero, One, maxvel, maxacc)
  IN [pos1 |-> pos1, pos2 |-> pos2, length |-> length, profile |-> profile,
      duration |-> IF length = Zero THEN Zero ELSE profile.duration]

MappedSetProfileDuration(p, newduration) ==
  [p EXCEPT !.duration = newduration,
            !.profile = IF p.length = Zero THEN @
                        ELSE TrapSetProfileDuration(@, newduration)]

MappedGetPos(p, time) ==
  IF p.length = Zero THEN p.pos1
  ELSE p.pos1 ++ (Mapping1(p.pos1, p.pos2, TrapGetPos(p.profile, time))
                    ** p.length ** Sign(p.pos2 -- p.pos1))

Double(pos1, pos2, pos3, maxvel, maxacc) ==
  LET p0 == Mapped(pos1, pos2, maxvel, maxacc)
      p1 == Mapped(pos2, pos3, maxvel, maxacc)
  IN [profile0 |-> p0, profile1 |-> p1, duration |-> p0.duration ++ p1.duration]

DoubleSetProfileDuration(p, newduration) ==
  LET factor == newduration // p.duration
  IN [profile0 |-> MappedSetProfileDuration(p.profile0, p.profile0.duration ** factor),
      profile1 |-> MappedSetProfileDuration(p.profile1, p.profile1.duration ** factor),
      duration |-> newduration]

DoubleGetPos(p, time) ==
  IF Less(time, p.profile0.duration) THEN MappedGetPos(p.profile0, time)
  ELSE MappedGetPos(p.profile1, time -- p.profile0.duration)

-----------------------------------------------------------------------------
(* What a motion relies on *)

\* The times at which a profile of this duration is looked at.
Samples(duration) == [k \in 0..4 |-> (Frac(k) // Frac(4)) ** duration]

\* Position Pos(time) goes from pos1 to pos2 without turning back.
Leads(Pos(_), pos1, pos2, duration) ==
  LET t == Samples(duration) IN
  /\ Pos(Zero) = pos1 /\ Pos(duration) = pos2
  /\ \A k \in 1..4 : LessEq(Zero, (Pos(t[k]) -- Pos(t[k - 1])) ** Sign(pos2 -- pos1))

\* A profile from pos1 to pos2 leads there, and does the same after
\* setProfileDuration, at the same fractions of the new time.
TrapSound(p, pos1, pos2, stretch) ==
  LET newduration == IF p.duration = Zero THEN stretch ELSE p.duration ** stretch
      q == TrapSetProfileDuration(p, newduration)
      AtP(time) == TrapGetPos(p, time)
      AtQ(time) == TrapGetPos(q, time)
      tp == Samples(p.duration)
      tq == Samples(newduration)
  IN /\ Leads(AtP, pos1, pos2, p.duration) /\ Leads(AtQ, pos1, pos2, newduration)
     /\ \A k \in 0..4 : AtQ(tq[k]) = AtP(tp[k])
     /\ Poly(p.a, p.time1) = Poly(p.b, p.time1) /\ Poly(p.b, p.time2) = Poly(p.c, p.time2)

\* The same for a profile by way of pos2.
DoubleSound(p, pos1, pos2, pos3, stretch) ==
  LET q == DoubleSetProfileDuration(p, p.duration ** stretch)
      First(time) == DoubleGetPos(q, time)
      Second(time) == DoubleGetPos(q, q.profile0.duration ++ time)
  IN /\ q.profile0.duration ++ q.profile1.duration = q.duration
     /\ DoubleGetPos(q, Zero) = pos1 /\ DoubleGetPos(q, q.duration) = pos3
     /\ Leads(First, pos1, pos2, q.profile0.duration)
     /\ Leads(Second, pos2, pos3, q.profile1.duration)
=============================================================================
