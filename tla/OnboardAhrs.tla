---------------------------- MODULE OnboardAhrs ----------------------------
(***************************************************************************)
(* The onboard IMU (onboard_imu_module.cpp) and the 1 kHz AHRS thread that *)
(* polls it (ahrs.cpp).  The data-ready interrupt queues an edge, the      *)
(* thread starts a burst read for it, the SPI callback reports its end,    *)
(* and a later release takes the burst, updates the attitude estimate and  *)
(* the heater of the sensor.                                               *)
(*                                                                         *)
(* Outside src/: the sensor holds its data-ready line until its registers  *)
(* are read, and the SPI driver ends every transfer with the callback; one *)
(* that hangs ends after spi_release.                                      *)
(***************************************************************************)
EXTENDS Naturals

CONSTANTS
  TransferTimeout,   \* kTransferTimeoutUs, in releases of the thread
  MissLimit,         \* releases without a sample before the heater is cut (10)
  CalibrationCount   \* kCalibrationSampleCount

ASSUME AhrsAssumption ==
  TransferTimeout \in Nat /\ MissLimit \in Nat \ {0} /\ CalibrationCount \in Nat \ {0}

\* A burst: all axes at a plausible value or not, still enough to calibrate or
\* not, and the temperature against the target window and the cutoff; one that
\* is not plausible is treated as "hot" is.
Temperatures == {"cold", "window", "hot"}
Bursts == [sane : BOOLEAN, still : BOOLEAN, temperature : Temperatures]

VARIABLES
  dataReady,   \* the INT1 line of the sensor
  queued,      \* data_ready_queue_ holds an edge
  transfer,    \* transfer_in_flight_, transfer_complete_, transfer_status_, recovery, its age
  spi,         \* the SPI driver
  ahrsPc,      \* Ahrs::Start, Ahrs::RunLoop; off: Start has failed
  ready,       \* sample_ready of this release
  missing,     \* missing_sample_ms
  attitude,    \* calibrated_, its sample count, attitude_initialized_, valid of the last sample
  heater,      \* the heater is driven, and whether its last PWM write failed
  abandoned    \* history: an acquisition was given up without reading the sensor

ahrsVars == <<dataReady, queued, transfer, spi, ahrsPc, ready, missing, attitude, heater,
              abandoned>>

NoTransfer == [inFlight |-> FALSE, complete |-> FALSE, error |-> FALSE, recovering |-> FALSE,
               age |-> 0]

\* A reset of the processor does not reset the sensor: its line may be routed,
\* and up, from before.
AhrsInit ==
  /\ dataReady \in BOOLEAN
  /\ queued = FALSE
  /\ transfer = NoTransfer
  /\ spi = "idle"
  /\ ahrsPc = "boot"
  /\ ready = FALSE
  /\ missing = 0
  /\ attitude = [calibrated |-> FALSE, count |-> 0, initialized |-> FALSE, valid |-> FALSE]
  /\ heater = [on |-> FALSE, failed |-> FALSE]
  /\ abandoned = FALSE

ahrsThreadVars == <<ahrsPc, ready, missing, attitude, heater>>

-----------------------------------------------------------------------------
(* Interrupts.                                                               *)

\* The GPIO interrupt is armed, and the queue of edges exists.
Armed == ahrsPc \notin {"boot", "configure", "arm"}

\* DataReadyCallback and QueueLatestDataReady: only a rising edge interrupts,
\* and the newest edge replaces the one that waits.
DataReadyCallback ==
  /\ ~dataReady
  /\ dataReady' = TRUE
  /\ queued' = Armed
  /\ UNCHANGED <<transfer, spi, ahrsThreadVars, abandoned>>

\* The driver stops making progress.
TransferHangs ==
  /\ spi = "busy"
  /\ spi' = "hung"
  /\ UNCHANGED <<dataReady, queued, transfer, ahrsThreadVars, abandoned>>

\* TransferCallback, after a burst that went over the bus: the line drops.
TransferCallback ==
  /\ spi = "busy"
  /\ \E error \in BOOLEAN : transfer' = [transfer EXCEPT !.complete = TRUE, !.error = error]
  /\ spi' = "idle"
  /\ dataReady' = FALSE
  /\ UNCHANGED <<queued, ahrsThreadVars, abandoned>>

\* TransferCallback, after a transfer that spi_release ended.
ReleasedCallback ==
  /\ spi = "released"
  /\ transfer' = [transfer EXCEPT !.complete = TRUE, !.error = TRUE]
  /\ spi' = "idle"
  /\ abandoned' = TRUE
  /\ UNCHANGED <<dataReady, queued, ahrsThreadVars>>

-----------------------------------------------------------------------------
(* Start, in the main thread: what fails leaves the module off.              *)

\* SetImuHeaterDutyPercent.
SetHeater(on, ok) == [on |-> IF ok THEN on ELSE heater.on, failed |-> ~ok]

BootStep(from, ok, to) == ahrsPc = from /\ ahrsPc' = IF ok THEN to ELSE "off"

\* The heater is switched off "before sensor initialization, including failure
\* paths", and the devices are looked up.
AhrsStart ==
  /\ \E ok, found \in BOOLEAN : /\ BootStep("boot", ok /\ found, "configure")
                                /\ heater' = SetHeater(FALSE, ok)
  /\ UNCHANGED <<dataReady, queued, transfer, spi, ready, missing, attitude, abandoned>>

\* InitializeHardware: WHO_AM_I, power, and the registers with their read-back;
\* then the interrupt; then the data-ready signal is routed to the line.
InitializeHardware ==
  /\ \E ok \in BOOLEAN : \/ BootStep("configure", ok, "arm")
                         \/ BootStep("arm", ok, "route")
                         \/ BootStep("route", ok, "seed")
  /\ UNCHANGED <<dataReady, queued, transfer, spi, ready, missing, attitude, heater, abandoned>>

\* Mutant: the level of the line is not looked at.
SeedNothing ==
  /\ \E ok \in BOOLEAN : BootStep("seed", ok, "create")
  /\ UNCHANGED <<dataReady, queued, transfer, spi, ready, missing, attitude, heater, abandoned>>

\* The line may be up already: then an edge is queued by hand.
SeedAcquisition ==
  /\ \E ok \in BOOLEAN : /\ BootStep("seed", ok, "create")
                         /\ queued' = (queued \/ (ok /\ dataReady))
  /\ UNCHANGED <<dataReady, transfer, spi, ready, missing, attitude, heater, abandoned>>

CreateThread ==
  /\ \E ok \in BOOLEAN : BootStep("create", ok, "take")
  /\ UNCHANGED <<dataReady, queued, transfer, spi, ready, missing, attitude, heater, abandoned>>

AhrsBoot == AhrsStart \/ InitializeHardware \/ SeedAcquisition \/ CreateThread

-----------------------------------------------------------------------------
(* The thread.                                                               *)

NextTransferAge(age) == IF age > TransferTimeout THEN age ELSE age + 1

\* TryTakeCompleted with a burst to take.
TryTakeCompleted ==
  /\ ahrsPc = "take" /\ transfer.complete
  /\ transfer' = [transfer EXCEPT !.complete = FALSE, !.inFlight = FALSE, !.recovering = FALSE]
  /\ ready' = ~transfer.error
  /\ ahrsPc' = "start"
  /\ UNCHANGED <<dataReady, queued, spi, missing, attitude, heater, abandoned>>

NothingToTake ==
  /\ ahrsPc = "take" /\ ~transfer.complete
  /\ transfer' = [transfer EXCEPT !.age = NextTransferAge(@)]
  /\ ready' = FALSE
  /\ ahrsPc' = "start"
  /\ UNCHANGED <<dataReady, queued, spi, missing, attitude, heater, abandoned>>

\* TryStartAsync behind a transfer: -EBUSY, and one recovery per transfer.
TransferPending ==
  /\ ahrsPc = "start" /\ transfer.inFlight
  /\ IF transfer.age > TransferTimeout /\ ~transfer.recovering
       THEN transfer' = [transfer EXCEPT !.recovering = TRUE] /\ ahrsPc' = "recover"
       ELSE ahrsPc' = "process" /\ UNCHANGED transfer
  /\ UNCHANGED <<dataReady, queued, spi, ready, missing, attitude, heater, abandoned>>

\* The callback may have come in between: then there is nothing to recover.
RecoverTransfer ==
  /\ ahrsPc = "recover"
  /\ IF transfer.complete
       THEN transfer' = [transfer EXCEPT !.recovering = FALSE] /\ ahrsPc' = "process"
       ELSE ahrsPc' = "release" /\ UNCHANGED transfer
  /\ UNCHANGED <<dataReady, queued, spi, ready, missing, attitude, heater, abandoned>>

\* spi_release has nothing to end if the callback came after that check.
SpiAfterRelease == IF spi = "idle" THEN "idle" ELSE "released"

\* Mutant: the recovery frees the flag itself.
ReleaseFreeing ==
  /\ ahrsPc = "release"
  /\ spi' = SpiAfterRelease
  /\ transfer' = [transfer EXCEPT !.inFlight = FALSE]
  /\ ahrsPc' = "process"
  /\ UNCHANGED <<dataReady, queued, ready, missing, attitude, heater, abandoned>>

ReleaseTransfer ==
  /\ ahrsPc = "release"
  /\ spi' = SpiAfterRelease
  /\ ahrsPc' = "process"
  /\ UNCHANGED <<dataReady, queued, transfer, ready, missing, attitude, heater, abandoned>>

NoEdge ==
  /\ ahrsPc = "start" /\ ~transfer.inFlight /\ ~queued
  /\ ahrsPc' = "process"
  /\ UNCHANGED <<dataReady, queued, transfer, spi, ready, missing, attitude, heater,
                 abandoned>>

\* TryStartAsync with an edge, and StartBurstRead.
StartBurstRead ==
  /\ ahrsPc = "start" /\ ~transfer.inFlight /\ queued
  /\ queued' = FALSE
  /\ transfer' = [NoTransfer EXCEPT !.inFlight = TRUE, !.error = TRUE]
  /\ spi' = "busy"
  /\ ahrsPc' = "process"
  /\ UNCHANGED <<dataReady, ready, missing, attitude, heater, abandoned>>

\* spi_transceive_cb refuses: the edge is gone, and the line stays up.
StartRefused ==
  /\ ahrsPc = "start" /\ ~transfer.inFlight /\ queued
  /\ queued' = FALSE
  /\ transfer' = [NoTransfer EXCEPT !.error = TRUE]
  /\ ahrsPc' = "process"
  /\ abandoned' = TRUE
  /\ UNCHANGED <<dataReady, spi, ready, missing, attitude, heater>>

-----------------------------------------------------------------------------
(* ProcessBurst.  The choices are the timing of the edge, the health of the  *)
(* filter and whether gravity gave an attitude.                              *)

\* Calibration: samples outside of the temperature window are skipped, motion
\* starts the average anew, and so does an average without gravity.
Calibrating(burst, timing, level) ==
  IF burst.temperature # "window" THEN [attitude EXCEPT !.valid = FALSE]
  ELSE IF ~burst.still THEN [attitude EXCEPT !.count = 0, !.valid = FALSE]
  ELSE IF attitude.count + 1 < CalibrationCount
         THEN [attitude EXCEPT !.count = @ + 1, !.valid = FALSE]
  ELSE IF ~level THEN [attitude EXCEPT !.count = 0, !.valid = FALSE]
  ELSE [calibrated |-> TRUE, count |-> CalibrationCount, initialized |-> TRUE,
        valid |-> timing]

\* UpdateEstimator while edges come in time, otherwise a new start from gravity;
\* a filter that diverges starts anew as well.
Estimating(timing, level, healthy) ==
  IF timing /\ attitude.initialized /\ healthy THEN [attitude EXCEPT !.valid = TRUE]
  ELSE [attitude EXCEPT !.initialized = level,
                        !.valid = timing /\ level /\ ~attitude.initialized]

Estimate(burst, timing, level, healthy) ==
  IF ~burst.sane THEN [attitude EXCEPT !.valid = FALSE]
  ELSE IF ~attitude.calibrated THEN Calibrating(burst, timing, level)
  ELSE Estimating(timing, level, healthy)

\* UpdateImuTemperatureControl: off above the cutoff, full power far below the
\* target, either near it; a write that fails is followed by one that cuts it.
TemperatureControl(temperature, duty, first, second) ==
  IF temperature = "hot" THEN SetHeater(FALSE, first)
  ELSE IF first THEN SetHeater(duty \/ temperature = "cold", TRUE)
  ELSE SetHeater(FALSE, second)

ProcessSample ==
  /\ ahrsPc = "process" /\ ready
  /\ missing' = 0
  /\ \E burst \in Bursts :
       /\ attitude' \in {Estimate(burst, timing, level, healthy) :
                         timing, level, healthy \in BOOLEAN}
       /\ heater' \in {TemperatureControl(burst.temperature, duty, first, second) :
                       duty, first, second \in BOOLEAN}
  /\ ahrsPc' = "take"
  /\ UNCHANGED <<dataReady, queued, transfer, spi, ready, abandoned>>

\* "No fresh temperature feedback: fail safe to heater off."
CutHeater(ok) == SetHeater(FALSE, ok)

ProcessMissing ==
  /\ ahrsPc = "process" /\ ~ready
  /\ missing' = IF missing < MissLimit THEN missing + 1 ELSE missing
  /\ \E ok \in BOOLEAN : heater' = IF missing' >= MissLimit THEN CutHeater(ok) ELSE heater
  /\ ahrsPc' = "take"
  /\ UNCHANGED <<dataReady, queued, transfer, spi, ready, attitude, abandoned>>

-----------------------------------------------------------------------------

AhrsThread ==
  \/ AhrsBoot
  \/ TryTakeCompleted \/ NothingToTake
  \/ TransferPending \/ RecoverTransfer \/ ReleaseTransfer
  \/ NoEdge \/ StartBurstRead \/ StartRefused
  \/ ProcessSample \/ ProcessMissing

AhrsDriver == TransferCallback \/ ReleasedCallback

AhrsNext == DataReadyCallback \/ TransferHangs \/ AhrsDriver \/ AhrsThread

AhrsSpec == AhrsInit /\ [][AhrsNext]_ahrsVars

\* Start goes on, the thread and the driver run, and the sensor keeps measuring.
AhrsFairSpec ==
  /\ AhrsSpec
  /\ WF_ahrsVars(AhrsThread)
  /\ WF_ahrsVars(AhrsDriver)
  /\ WF_ahrsVars(DataReadyCallback)

-----------------------------------------------------------------------------
(* Properties.                                                               *)

AhrsTypeOK ==
  /\ dataReady \in BOOLEAN /\ queued \in BOOLEAN /\ ready \in BOOLEAN
  /\ transfer \in [inFlight : BOOLEAN, complete : BOOLEAN, error : BOOLEAN,
                    recovering : BOOLEAN, age : 0 .. TransferTimeout + 1]
  /\ spi \in {"idle", "busy", "hung", "released"}
  /\ ahrsPc \in {"boot", "configure", "arm", "route", "seed", "create", "off",
                "take", "start", "recover", "release", "process"}
  /\ missing \in 0 .. MissLimit
  /\ attitude \in [calibrated : BOOLEAN, count : 0 .. CalibrationCount,
                    initialized : BOOLEAN, valid : BOOLEAN]
  /\ heater \in [on : BOOLEAN, failed : BOOLEAN]
  /\ abandoned \in BOOLEAN

(***************************************************************************)
(* The burst buffer has one owner: while the driver may still write it, no *)
(* finished burst waits in it and no new one can be started, across the    *)
(* timeout recovery and the callback that races it.                        *)
(***************************************************************************)
BurstOwned == spi # "idle" => transfer.inFlight /\ ~transfer.complete

(***************************************************************************)
(* "Seed one non-blocking acquisition ... so reading the output registers  *)
(* can release INT1 and allow subsequent rising edges through": unless an  *)
(* acquisition is given up unread, a raised line gets its burst read, and  *)
(* the thread takes what was read; no edge is lost before the interrupt is *)
(* armed, behind a transfer or in the one-entry queue.                     *)
(***************************************************************************)
BurstsFlow ==
  /\ dataReady ~> transfer.complete \/ abandoned \/ ahrsPc = "off"
  /\ transfer.complete ~> ~transfer.inFlight
=============================================================================
