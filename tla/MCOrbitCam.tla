----------------------------- MODULE MCOrbitCam -----------------------------
(***************************************************************************)
(* Constants of OrbitCam for TLC, and the profiles its motions use over    *)
(* inputs whose square roots are exact.                                    *)
(***************************************************************************)
EXTENDS OrbitCam, VelocityProfile

View(yaw, pitch, distance, origin) ==
  [yaw |-> yaw, pitch |-> pitch, distance |-> distance, origin |-> origin]

\* The second is far from the first, and the shorter way to it is across 180.
MCViews == {View(170, 0, 100, 0), View(-176, 88, 120, 300)}

MCWheels == {4, -12}

TrapInputs == {<<0, 4>>, <<4, 0>>, <<3, 3>>, <<-1, 8>>, <<0, 1>>, <<5, -4>>}
TrapSpeeds == {<<1, 1>>, <<2, 1>>, <<4, 1>>, <<3, 4>>, <<100, 4>>}
DoubleInputs == {<<1, 6, 2>>, <<2, 8, 2>>, <<1, 4, 1>>}
DoubleSpeeds == {One, Frac(4), <<1, 4>>}

\* How many times longer a profile may get: profiles take a frame, and are
\* stretched to the frames of the motion.
SoundDurations ==
  {frames \in 1..MaxFrames :
     /\ \A i \in TrapInputs, s \in TrapSpeeds :
          TrapSound(Trap(Frac(i[1]), Frac(i[2]), Frac(s[1]), Frac(s[2])),
                    Frac(i[1]), Frac(i[2]), Frac(frames))
     /\ \A i \in DoubleInputs, s \in DoubleSpeeds :
          DoubleSound(Double(Frac(i[1]), Frac(i[2]), Frac(i[3]), s, s),
                      Frac(i[1]), Frac(i[2]), Frac(i[3]), Frac(frames))}

\* For every motion under way, profiles stretched to its duration begin at
\* their start, end at their end and never turn back, also where there is no
\* way to go, and the parts of a profile of two parts meet
\* (velocityprofile_trap.js, velocityprofile_mapped.js,
\* velocityprofile_mapped_double.js, as goto of orbitcam.js uses them).
ProfileSound == \A timer \in timers : timer.duration \in SoundDurations
=============================================================================
