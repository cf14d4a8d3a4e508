--------------------------- MODULE AttitudeFilter ---------------------------
(***************************************************************************)
(* The attitude filter of the AHRS (quaternion_ekf.cpp) and how the AHRS   *)
(* thread starts, updates and restarts it once it is calibrated            *)
(* (ProcessBurst in ahrs.cpp).  The matrices are left out; what is kept is *)
(* the flow: which accelerations reach the low-pass memory, when they make *)
(* an observation, which gates it passes, and what happens when it fails.  *)
(* Outcomes of the arithmetic are choices.                                 *)
(*                                                                         *)
(* Motion is what the quasi-static test of Update sees: "still" is an      *)
(* acceleration of 1 g within the tolerance at a low rate of rotation.     *)
(***************************************************************************)
EXTENDS Naturals

Motions == {"still", "moving"}

\* The innovation: no inverse, refused by the hard gate, damped, used in full,
\* or used with a result that is not finite.
Innovations == {"singular", "outside", "damped", "inside", "broken"}

VARIABLES
  attitudeSet,   \* attitude_initialized_
  ekf,           \* update_count, the motions in the low-pass memory, measurement_valid_num_,
                 \* and whether the last update corrected the state
  origin,        \* history: the motion of the sample the attitude was last set from
  observedIn,    \* history: the motion of the sample behind the last correction
  output         \* valid of the last sample published

filterVars == <<attitudeSet, ekf, origin, observedIn, output>>

\* ResetFilterState.
EkfReset == [count |-> 0, memory |-> {}, observed |-> FALSE, corrected |-> FALSE]

\* A filter set from the acceleration of one sample.
InitFromAccel(motion) == [EkfReset EXCEPT !.count = 1, !.memory = {motion}]

\* Calibration ends with an average over still samples.
FilterInit ==
  /\ attitudeSet \in BOOLEAN
  /\ ekf = IF attitudeSet THEN InitFromAccel("still") ELSE EkfReset
  /\ origin = "still"
  /\ observedIn = "still"
  /\ output = attitudeSet

-----------------------------------------------------------------------------

\* InitializeAttitude: Reset, and InitFromAccel unless there is no gravity to see.
InitializeAttitude(motion, level) ==
  /\ attitudeSet' = level
  /\ ekf' = IF level THEN InitFromAccel(motion) ELSE EkfReset
  /\ origin' = motion

\* The low-pass filter: it starts from its first sample, and then takes trusted
\* ones only.
LowPass(motion) ==
  (IF ekf.count = 0 THEN {motion} ELSE ekf.memory)
    \union (IF motion = "still" THEN {motion} ELSE {})

\* Mutant: an observation is not taken back when its sample is not trusted.
ObservedKept(motion, inBand) == (motion = "still" /\ inBand) \/ ekf.observed

\* "Gravity is allowed to correct the prediction only while the body is
\* quasi-static": the sample and the filtered acceleration have to be near 1 g.
Observed(motion, inBand) == motion = "still" /\ inBand

\* RunFilterUpdate and ApplyMeasurementCorrection: without an observation, or
\* with one that is refused, the prediction stands.
Corrects(observed, innovation) == observed /\ innovation \in {"damped", "inside"}

\* Update with an interval that is finite and positive.
Update(motion, inBand, innovation) ==
  LET observed == Observed(motion, inBand)
  IN  /\ ekf' = [count |-> 1, memory |-> LowPass(motion), observed |-> observed,
                 corrected |-> Corrects(observed, innovation)]
      /\ observedIn' = IF Corrects(observed, innovation) THEN motion ELSE observedIn
      /\ UNCHANGED <<attitudeSet, origin>>

\* A burst out of time, or without an attitude, sets it anew from gravity.
BurstRestarts ==
  \E motion \in Motions, level, timing \in BOOLEAN :
    /\ ~timing \/ ~attitudeSet
    /\ InitializeAttitude(motion, level)
    /\ output' = (timing /\ level)
    /\ UNCHANGED observedIn

BurstUpdates ==
  \E motion \in Motions, inBand \in BOOLEAN, innovation \in Innovations :
    /\ attitudeSet
    /\ Update(motion, inBand, innovation)
    /\ output' = TRUE

\* The update leaves a state that is not Healthy: the attitude is set anew, and
\* the sample of this burst is not valid.
BurstDiverges ==
  \E motion \in Motions, level \in BOOLEAN :
    /\ attitudeSet
    /\ InitializeAttitude(motion, level)
    /\ output' = FALSE
    /\ UNCHANGED observedIn

\* A burst that is not plausible is published as such, and nothing else.
BurstRejected ==
  /\ output' = FALSE
  /\ UNCHANGED <<attitudeSet, ekf, origin, observedIn>>

FilterNext == BurstRestarts \/ BurstUpdates \/ BurstDiverges \/ BurstRejected

FilterSpec == FilterInit /\ [][FilterNext]_filterVars

-----------------------------------------------------------------------------
(* Properties.                                                               *)

FilterTypeOK ==
  /\ attitudeSet \in BOOLEAN /\ output \in BOOLEAN
  /\ ekf \in [count : 0 .. 1, memory : SUBSET Motions, observed : BOOLEAN, corrected : BOOLEAN]
  /\ origin \in Motions /\ observedIn \in Motions

(***************************************************************************)
(* "Linear acceleration cannot be mistaken for tilt": a valid attitude     *)
(* rests, after the sample it was set from, on accelerations of a still    *)
(* body only; neither the low-pass memory, nor an observation left over    *)
(* from an earlier burst, nor a restart lets one of a moving body in.      *)
(***************************************************************************)
GravityWhenStill ==
  output => /\ ekf.memory \subseteq {"still", origin}
            /\ ekf.corrected => observedIn = "still"
=============================================================================
