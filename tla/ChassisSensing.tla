--------------------------- MODULE ChassisSensing ---------------------------
(***************************************************************************)
(* From the CAN bus and the IMU to the verdict on a control cycle: the     *)
(* receive interrupt sorts frames into the feedback mailboxes              *)
(* (can_dispatch.cpp), the IMU thread publishes its samples, and the       *)
(* chassis thread copies one mailbox after the other and judges how fresh  *)
(* the copies are (chassis_input_reader.cpp, chassis_imu_adapter.cpp,      *)
(* freshness.hpp).  Each copy is made under the lock of its LatestValue;   *)
(* between two of them interrupts come and time passes.                    *)
(*                                                                         *)
(* Times are relative: the age of a sample, and of the time base.  What    *)
(* the samples say, and with it dm_ready and the leg kinematics, is left   *)
(* out.                                                                    *)
(***************************************************************************)
EXTENDS Naturals, Sequences, Functions

CONSTANTS
  Motors,         \* the six actuators
  MotorBus,       \* the bus a motor is on,
  MotorId,        \* and the identifier of its feedback
  ReadOrder,      \* the order in which the mailboxes are read
  MotorTimeout,   \* kMotorTimeoutUs
  ImuTimeout,     \* kImuTimeoutMs
  ReadTime        \* bound: how long one Read takes

ASSUME SensingAssumption ==
  /\ MotorTimeout \in Nat \ {0} /\ ImuTimeout \in Nat /\ ReadTime \in Nat
  /\ DOMAIN MotorBus = Motors /\ DOMAIN MotorId = Motors
  /\ ReadOrder \in Seq(Motors) /\ Range(ReadOrder) = Motors
  /\ Motors \intersect {"imu", "time", "judge"} = {}

\* No two motors of a bus report under one identifier (handle_..._rx).
ASSUME RoutingAssumption ==
  \A m, n \in Motors : MotorBus[m] = MotorBus[n] /\ MotorId[m] = MotorId[n] => m = n

\* The oldest age that is told apart: stale even against the oldest time base.
OldestAge == ReadTime + 1 + (IF MotorTimeout < ImuTimeout THEN ImuTimeout ELSE MotorTimeout)

VARIABLES
  feedback,    \* the mailboxes ..._feedback_raw
  imuSample,   \* the channel of the IMU; no source: sequence 0
  copies,      \* wheel_frame and joint_frame of this cycle
  imuCopy,     \* input.imu
  readPc,      \* the step of Read that comes next
  clock,       \* the time since Read began, and since feedback_now_us was taken
  verdict,     \* motors_fresh, imu_fresh of the last cycle
  lastReport   \* history: the age of the newest frame that each motor sent

sensingVars == <<feedback, imuSample, copies, imuCopy, readPc, clock, verdict, lastReport>>

NoFrameYet == [valid |-> FALSE, age |-> OldestAge]
NoSampleYet == [source |-> FALSE, valid |-> FALSE, age |-> OldestAge]

SensingInit ==
  /\ feedback = [m \in Motors |-> NoFrameYet]
  /\ imuSample = NoSampleYet
  /\ copies = [m \in Motors |-> NoFrameYet]
  /\ imuCopy = NoSampleYet
  /\ readPc = 1
  /\ clock = [elapsed |-> 0, base |-> 0]
  /\ verdict = [motors |-> FALSE, imu |-> FALSE]
  /\ lastReport = [m \in Motors |-> OldestAge]

-----------------------------------------------------------------------------
(* What comes in.                                                            *)

Buses == Range(MotorBus)

\* The mailboxes a standard frame goes to: motors of two buses may share an
\* identifier.
Route(bus, id) == {m \in Motors : MotorBus[m] = bus /\ MotorId[m] = id}

\* A motor reports; the frame has its time stamp when the interrupt routes it.
CanRxCallback(m) ==
  /\ feedback' = [n \in Motors |-> IF n \in Route(MotorBus[m], MotorId[m])
                                     THEN [valid |-> TRUE, age |-> 0] ELSE feedback[n]]
  /\ lastReport' = [lastReport EXCEPT ![m] = 0]
  /\ UNCHANGED <<imuSample, copies, imuCopy, readPc, clock, verdict>>

\* The thread of the IMU publishes a sample, which may say that it is not valid.
ImuPublishes ==
  /\ \E valid \in BOOLEAN : imuSample' = [source |-> TRUE, valid |-> valid, age |-> 0]
  /\ UNCHANGED <<feedback, copies, imuCopy, readPc, clock, verdict, lastReport>>

-----------------------------------------------------------------------------
(* ChassisInputReader::Read.                                                 *)

\* Mutant: the time base is taken before the mailboxes are read.
ReadStepsTimeFirst == <<"time">> \o ReadOrder \o <<"imu", "judge">>

\* "Interrupts may still publish new frames while the snapshots are read, so
\* the time base is taken anew when all of them have been."
ReadSteps == ReadOrder \o <<"imu", "time", "judge">>

Step == ReadSteps[readPc]
NextStep == readPc' = readPc + 1

ReadMailbox ==
  /\ Step \in Motors
  /\ copies' = [copies EXCEPT ![Step] = feedback[Step]]
  /\ NextStep
  /\ UNCHANGED <<feedback, imuSample, imuCopy, clock, verdict, lastReport>>

\* ReadChassisImuSample: as long as no source has published, the copy stays what
\* it was at the start.
ReadImu ==
  /\ Step = "imu"
  /\ imuCopy' = imuSample
  /\ NextStep
  /\ UNCHANGED <<feedback, imuSample, copies, clock, verdict, lastReport>>

TakeTimeBase ==
  /\ Step = "time"
  /\ clock' = [clock EXCEPT !.base = 0]
  /\ NextStep
  /\ UNCHANGED <<feedback, imuSample, copies, imuCopy, verdict, lastReport>>

\* A sample from after the time base is one from the future.
Known(s) == s.valid /\ s.age >= clock.base

\* IsFresh with inclusive = false, and the rule for the IMU.
MotorFresh(m) == Known(copies[m]) /\ copies[m].age - clock.base < MotorTimeout
ImuFresh == imuCopy.source /\ Known(imuCopy) /\ imuCopy.age - clock.base <= ImuTimeout

\* The verdict; the copies have served then.
Judge ==
  /\ Step = "judge"
  /\ verdict' = [motors |-> \A m \in Motors : MotorFresh(m), imu |-> ImuFresh]
  /\ copies' = [m \in Motors |-> NoFrameYet]
  /\ imuCopy' = NoSampleYet
  /\ readPc' = 1
  /\ clock' = [elapsed |-> 0, base |-> 0]
  /\ UNCHANGED <<feedback, imuSample, lastReport>>

-----------------------------------------------------------------------------

Older(age) == IF age < OldestAge THEN age + 1 ELSE age
OlderSample(s) == [s EXCEPT !.age = Older(@)]

\* Time passes, at most ReadTime within one Read.
SensingTick ==
  /\ readPc = 1 \/ clock.elapsed < ReadTime
  /\ feedback' = [m \in Motors |-> OlderSample(feedback[m])]
  /\ copies' = [m \in Motors |-> OlderSample(copies[m])]
  /\ imuSample' = OlderSample(imuSample)
  /\ imuCopy' = OlderSample(imuCopy)
  /\ lastReport' = [m \in Motors |-> Older(lastReport[m])]
  /\ clock' = IF readPc = 1 THEN clock
              ELSE [elapsed |-> clock.elapsed + 1,
                    base |-> IF \E i \in 1 .. readPc - 1 : ReadSteps[i] = "time"
                               THEN clock.base + 1 ELSE clock.base]
  /\ UNCHANGED <<readPc, verdict>>

SensingNext ==
  \/ (\E m \in Motors : CanRxCallback(m)) \/ ImuPublishes
  \/ ReadMailbox \/ ReadImu \/ TakeTimeBase \/ Judge
  \/ SensingTick

SensingSpec == SensingInit /\ [][SensingNext]_sensingVars

-----------------------------------------------------------------------------
(* Properties.                                                               *)

Samples == [valid : BOOLEAN, age : 0 .. OldestAge]

SensingTypeOK ==
  /\ feedback \in [Motors -> Samples] /\ copies \in [Motors -> Samples]
  /\ imuSample \in [source : BOOLEAN, valid : BOOLEAN, age : 0 .. OldestAge]
  /\ imuCopy \in [source : BOOLEAN, valid : BOOLEAN, age : 0 .. OldestAge]
  /\ readPc \in 1 .. Len(ReadSteps)
  /\ clock \in [elapsed : 0 .. ReadTime, base : 0 .. ReadTime]
  /\ verdict \in [motors : BOOLEAN, imu : BOOLEAN]
  /\ lastReport \in [Motors -> 0 .. OldestAge]

(***************************************************************************)
(* A cycle counts as fed only if each motor itself reported less than a    *)
(* timeout before the time base; and feedback that was copied in time is   *)
(* never refused, not even if it came while the snapshots were read (Read, *)
(* CanRxCallback).                                                         *)
(***************************************************************************)
FeedbackJudged ==
  [][Judge =>
       /\ verdict'.motors => \A m \in Motors : lastReport[m] < MotorTimeout + clock.base
       /\ (\A m \in Motors : copies[m].valid /\ copies[m].age < MotorTimeout) => verdict'.motors
       /\ (imuCopy.source /\ imuCopy.valid /\ imuCopy.age <= ImuTimeout) => verdict'.imu
    ]_sensingVars
=============================================================================
