---------------------------- MODULE DevicesProofs ----------------------------
(***************************************************************************)
(* The devices together, in the composition that TLC checks: it refines    *)
(* each device by itself, so what is proved of a device holds of it.       *)
(***************************************************************************)
EXTENDS MCDevices, ThreadProofs, ReceiverProofs, CycleProofs

LEMMA ComponentsInit ==
  Init => /\ UsbInit /\ AhrsInit /\ RemoteInit /\ Hi91Init /\ FramesInit /\ OscInit
          /\ SdInit /\ SchedInit /\ PhasesInit /\ SensingInit /\ FilterInit
BY DEF Init

\* A step of the devices is one of a single component, in which the others rest.
LEMMA ComponentsStep ==
  ASSUME [Next]_vars
  PROVE  /\ [UsbNext]_usbVars /\ [AhrsNext]_ahrsVars /\ [RemoteNext]_remoteVars
         /\ [Hi91Next]_hi91Vars /\ [ProcessByte]_framesVars /\ [OscNext]_oscVars
         /\ [SdNext]_sdVars /\ [SchedNext]_schedVars
         /\ [PhasesNext]_phaseVars /\ [SensingNext]_sensingVars /\ [FilterNext]_filterVars
<1>1. CASE device = "usb" /\ UsbNext /\ Rest("usb")
  BY <1>1 DEF Rest
<1>2. CASE device = "ahrs" /\ AhrsNext /\ Rest("ahrs")
  BY <1>2 DEF Rest
<1>3. CASE device = "remote" /\ RemoteNext /\ Rest("remote")
  BY <1>3 DEF Rest
<1>4. CASE device = "hi91" /\ Hi91Next /\ Rest("hi91")
  BY <1>4 DEF Rest
<1>5. CASE device = "oscilloscope" /\ OscNext /\ Rest("oscilloscope")
  BY <1>5 DEF Rest
<1>6. CASE device = "sdlog" /\ SdNext /\ Rest("sdlog")
  BY <1>6 DEF Rest
<1>7. CASE device = "schedule" /\ SchedNext /\ Rest("schedule")
  BY <1>7 DEF Rest
<1>8. CASE device = "phases" /\ PhasesNext /\ Rest("phases")
  BY <1>8 DEF Rest
<1>9. CASE device = "sensing" /\ SensingNext /\ Rest("sensing")
  BY <1>9 DEF Rest
<1>10. CASE device = "filter" /\ FilterNext /\ Rest("filter")
  BY <1>10 DEF Rest
<1>11. CASE device = "frames" /\ ProcessByte /\ Rest("frames")
  BY <1>11 DEF Rest
<1>12. CASE Finished \/ UNCHANGED vars
  BY <1>12 DEF Finished, vars
<1> QED
  BY <1>1, <1>2, <1>3, <1>4, <1>5, <1>6, <1>7, <1>8, <1>9, <1>10, <1>11,
     <1>12 DEF Next

(***************************************************************************)
(* Running the devices together refines running each by itself, so every   *)
(* theorem about a component holds of the composition that the run checks. *)
(***************************************************************************)
THEOREM DevicesRefine ==
  FairSpec => /\ UsbSpec /\ AhrsSpec /\ RemoteSpec /\ Hi91Spec /\ FramesSpec /\ OscSpec
              /\ SdSpec /\ SchedSpec /\ PhasesSpec /\ SensingSpec /\ FilterSpec
BY ComponentsInit, ComponentsStep, PTL
DEF FairSpec, UsbSpec, AhrsSpec, RemoteSpec, Hi91Spec, FramesSpec, OscSpec, SdSpec, SchedSpec,
    PhasesSpec, SensingSpec, FilterSpec

(***************************************************************************)
(* Every device keeps the types of its state, together as alone.           *)
(***************************************************************************)
THEOREM DevicesTypeCorrect == FairSpec => []DevicesTypeOK
<1>1. /\ UsbTypeOK /\ AhrsTypeOK /\ RemoteTypeOK /\ Hi91TypeOK /\ FramesTypeOK /\ OscTypeOK
      /\ SdTypeOK /\ SchedTypeOK /\ PhasesTypeOK /\ SensingTypeOK /\ FilterTypeOK
      => DevicesTypeOK
  BY DEF DevicesTypeOK
<1> QED
  BY <1>1, DevicesRefine, UsbTypeCorrect, AhrsTypeCorrect, RemoteTypeCorrect, Hi91TypeCorrect,
     FramesTypeCorrect, OscTypeCorrect, LogTypeCorrect, ScheduleTypeCorrect, PhasesTypeCorrect, SensingTypeCorrect,
     FilterTypeCorrect, PTL
=============================================================================
