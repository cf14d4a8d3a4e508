------------------------------ MODULE MCDevices ------------------------------
(***************************************************************************)
(* The devices around the chassis cycle, checked together: each behaviour  *)
(* is one of one component, while the others rest in an initial state.     *)
(* The components share no state, so this checks what a run for each of    *)
(* them would.                                                             *)
(***************************************************************************)
EXTENDS UsbSession, OnboardAhrs, RemoteLink, Hi91Receiver, Hi91Frames, OscilloscopeTx, SdLog,
        PeriodicSchedule, ActionPhases, ChassisSensing, AttitudeFilter

VARIABLE device   \* the component that runs

Devices == {"usb", "ahrs", "remote", "hi91", "frames", "oscilloscope", "sdlog", "schedule",
            "phases", "sensing", "filter"}

vars == <<device, usbVars, ahrsVars, remoteVars, hi91Vars, framesVars, oscVars, sdVars, schedVars,
          phaseVars, sensingVars, filterVars>>

\* A packet is good, or fails its checksum.
MCUsbPackets == {[length |-> TRUE, head |-> TRUE, crc |-> c] : c \in BOOLEAN}

\* Every limit is a few cycles; the order between them is that of the code.
MCLimit ==
  [Liftoff |-> 2, Touchdown |-> 2, Flight |-> 3, Precompress |-> 1, Thrust |-> 2,
   RetractHold |-> 2, Retract |-> 3, Jump |-> 7, ClimbHold |-> 2, Motion1 |-> 3, Motion2 |-> 3,
   Upright |-> 2, Stuck |-> 1, Reversals |-> 1, Turnover |-> 4, RecoveryHold |-> 2,
   Drawback |-> 3]

MCAsked == {{"Flight", "Jump"}, {"Recovery", "ClimbStairs"}}

\* The two wheels, which share an identifier on two buses.
MCMotors == {"leftWheel", "rightWheel"}
MCMotorBus == [leftWheel |-> 3, rightWheel |-> 2]
MCMotorId == [leftWheel |-> 513, rightWheel |-> 513]
MCReadOrder == <<"leftWheel", "rightWheel">>

\* A component that rests does so in one initial state.
Init ==
  /\ device \in Devices
  /\ UsbInit
  /\ AhrsInit /\ (device # "ahrs" => ~dataReady)
  /\ RemoteInit
  /\ Hi91Init
  /\ FramesInit
  /\ OscInit
  /\ SdInit
  /\ SchedInit /\ (device # "schedule" => now = 0)
  /\ PhasesInit /\ (device # "phases" => "Flight" \in asked)
  /\ SensingInit
  /\ FilterInit /\ (device # "filter" => attitudeSet)

\* All components but d rest.
Rest(d) ==
  /\ UNCHANGED device
  /\ d = "usb" \/ UNCHANGED usbVars
  /\ d = "ahrs" \/ UNCHANGED ahrsVars
  /\ d = "remote" \/ UNCHANGED remoteVars
  /\ d = "hi91" \/ UNCHANGED hi91Vars
  /\ d = "frames" \/ UNCHANGED framesVars
  /\ d = "oscilloscope" \/ UNCHANGED oscVars
  /\ d = "sdlog" \/ UNCHANGED sdVars
  /\ d = "schedule" \/ UNCHANGED schedVars
  /\ d = "phases" \/ UNCHANGED phaseVars
  /\ d = "sensing" \/ UNCHANGED sensingVars
  /\ d = "filter" \/ UNCHANGED filterVars

\* The log has ended or has all the records of the bound; time is at its bound;
\* the onboard IMU did not start.
Finished ==
  /\ \/ device = "sdlog" /\ (sdPc = "off" \/ (sdPc = "record" /\ sequence = MaxRecords))
     \/ device = "schedule" /\ now = MaxTicks
     \/ device = "ahrs" /\ ahrsPc = "off"
  /\ UNCHANGED vars

Next ==
  \/ device = "usb" /\ UsbNext /\ Rest("usb")
  \/ device = "ahrs" /\ AhrsNext /\ Rest("ahrs")
  \/ device = "remote" /\ RemoteNext /\ Rest("remote")
  \/ device = "hi91" /\ Hi91Next /\ Rest("hi91")
  \/ device = "frames" /\ ProcessByte /\ Rest("frames")
  \/ device = "oscilloscope" /\ OscNext /\ Rest("oscilloscope")
  \/ device = "sdlog" /\ SdNext /\ Rest("sdlog")
  \/ device = "schedule" /\ SchedNext /\ Rest("schedule")
  \/ device = "phases" /\ PhasesNext /\ Rest("phases")
  \/ device = "sensing" /\ SensingNext /\ Rest("sensing")
  \/ device = "filter" /\ FilterNext /\ Rest("filter")
  \/ Finished

\* The fairness of UsbFairSpec, AhrsFairSpec and RemoteFairSpec, for the
\* component that runs.
Fairness ==
  /\ WF_usbVars(device = "usb" /\ PcLinkLoop)
  /\ WF_usbVars(device = "usb" /\ PcLinkTxLoop)
  /\ WF_usbVars(device = "usb" /\ UsbInterruptInCallback)
  /\ SF_usbVars(device = "usb" /\ StartRead(TRUE))
  /\ WF_ahrsVars(device = "ahrs" /\ AhrsThread)
  /\ WF_ahrsVars(device = "ahrs" /\ AhrsDriver)
  /\ WF_ahrsVars(device = "ahrs" /\ DataReadyCallback)
  /\ WF_remoteVars(device = "remote" /\ RemoteThread)
  /\ WF_remoteVars(device = "remote" /\ ChassisCycle)

FairSpec == Init /\ [][Next]_vars /\ Fairness

(***************************************************************************)
(* Every component keeps the types of its state.                           *)
(***************************************************************************)
DevicesTypeOK ==
  /\ UsbTypeOK /\ AhrsTypeOK /\ RemoteTypeOK /\ Hi91TypeOK /\ FramesTypeOK /\ OscTypeOK
  /\ SdTypeOK /\ SchedTypeOK /\ PhasesTypeOK /\ SensingTypeOK /\ FilterTypeOK
=============================================================================
