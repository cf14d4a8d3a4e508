---------------------------- MODULE ThreadProofs ----------------------------
(***************************************************************************)
(* Theorems about the threads that release themselves and the drivers they *)
(* wait for: the onboard IMU and its filter, the oscilloscope, the SD log, *)
(* and the schedule that releases them.  Each holds for every timeout,     *)
(* limit and size.                                                         *)
(***************************************************************************)
EXTENDS OnboardAhrs, AttitudeFilter, OscilloscopeTx, SdLog, PeriodicSchedule, TLAPS

-----------------------------------------------------------------------------
(* Products and remainders.                                                  *)

LEMMA Division ==
  ASSUME NEW a \in Nat, NEW b \in Nat \ {0}
  PROVE  /\ a \div b \in Nat /\ a % b \in 0 .. b - 1
         /\ a = (a \div b) * b + (a % b)
BY SMT

LEMMA Distributes ==
  ASSUME NEW a \in Nat, NEW n \in Nat, NEW b \in Nat
  PROVE  (a + n) * b = a * b + n * b
BY SMT

LEMMA ProductNat == ASSUME NEW a \in Nat, NEW b \in Nat PROVE a * b \in Nat
BY SMT

LEMMA ProductMonotone ==
  ASSUME NEW a \in Nat, NEW c \in Nat, a <= c, NEW b \in Nat
  PROVE  a * b <= c * b
<1>1. PICK n \in Nat : c = a + n
  <2>1. c - a \in Nat /\ c = a + (c - a)
    OBVIOUS
  <2> QED
    BY <2>1
<1>2. c * b = a * b + n * b
  BY <1>1, Distributes
<1>3. a * b \in Nat /\ n * b \in Nat
  BY ProductNat
<1> QED
  BY <1>2, <1>3

-----------------------------------------------------------------------------
(* The burst read.                                                           *)

Transfers == [inFlight : BOOLEAN, complete : BOOLEAN, error : BOOLEAN,
              recovering : BOOLEAN, age : 0 .. TransferTimeout + 1]

\* A finished burst, and a recovery, belong to a transfer in flight.
AhrsInv ==
  /\ AhrsTypeOK
  /\ BurstOwned
  /\ transfer.complete => transfer.inFlight
  /\ ahrsPc \in {"recover", "release"} => transfer.inFlight

LEMMA AhrsInitInv == AhrsInit => AhrsInv
<1>1. 0 \in 0 .. TransferTimeout + 1 /\ 0 \in 0 .. MissLimit /\ 0 \in 0 .. CalibrationCount
  BY AhrsAssumption
<1> SUFFICES ASSUME AhrsInit PROVE AhrsInv
  OBVIOUS
<1>2. /\ dataReady \in BOOLEAN /\ queued \in BOOLEAN /\ ready \in BOOLEAN
      /\ spi = "idle" /\ ahrsPc = "boot" /\ missing = 0 /\ abandoned \in BOOLEAN
  BY DEF AhrsInit
<1>3. transfer \in Transfers /\ ~transfer.complete
  BY <1>1 DEF AhrsInit, NoTransfer, Transfers
<1>4. attitude \in [calibrated : BOOLEAN, count : 0 .. CalibrationCount,
                    initialized : BOOLEAN, valid : BOOLEAN]
  BY <1>1 DEF AhrsInit
<1>5. heater \in [on : BOOLEAN, failed : BOOLEAN]
  BY DEF AhrsInit
<1> QED
  BY <1>1, <1>2, <1>3, <1>4, <1>5 DEF Transfers, AhrsInv, AhrsTypeOK, BurstOwned

LEMMA NextTransferAgeType ==
  ASSUME NEW age \in 0 .. TransferTimeout + 1
  PROVE  NextTransferAge(age) \in 0 .. TransferTimeout + 1
BY AhrsAssumption DEF NextTransferAge

Attitudes == [calibrated : BOOLEAN, count : 0 .. CalibrationCount,
              initialized : BOOLEAN, valid : BOOLEAN]

LEMMA EstimateType ==
  ASSUME attitude \in Attitudes, NEW burst \in Bursts,
         NEW timing \in BOOLEAN, NEW level \in BOOLEAN, NEW healthy \in BOOLEAN
  PROVE  Estimate(burst, timing, level, healthy) \in Attitudes
<1> USE AhrsAssumption DEF Attitudes
<1>1. [attitude EXCEPT !.valid = FALSE] \in Attitudes
  OBVIOUS
<1>2. Calibrating(burst, timing, level) \in Attitudes
  <2>1. 0 \in 0 .. CalibrationCount /\ CalibrationCount \in 0 .. CalibrationCount
    OBVIOUS
  <2>2. attitude.count + 1 < CalibrationCount => attitude.count + 1 \in 0 .. CalibrationCount
    <3>1. attitude.count \in 0 .. CalibrationCount
      OBVIOUS
    <3> QED
      BY <3>1
  <2>3. [attitude EXCEPT !.count = 0, !.valid = FALSE] \in Attitudes
    BY <2>1
  <2>4. ASSUME attitude.count + 1 < CalibrationCount
        PROVE  [attitude EXCEPT !.count = @ + 1, !.valid = FALSE] \in Attitudes
    BY <2>2, <2>4
  <2>5. [calibrated |-> TRUE, count |-> CalibrationCount, initialized |-> TRUE,
         valid |-> timing] \in Attitudes
    BY <2>1
  <2> HIDE DEF Attitudes
  <2> QED
    BY <1>1, <2>3, <2>4, <2>5 DEF Calibrating
<1>3. Estimating(timing, level, healthy) \in Attitudes
  <2>1. (timing /\ level /\ ~attitude.initialized) \in BOOLEAN
    OBVIOUS
  <2> QED
    BY <2>1 DEF Estimating
<1> QED
  BY <1>1, <1>2, <1>3 DEF Estimate

Heaters == [on : BOOLEAN, failed : BOOLEAN]

LEMMA SetHeaterType ==
  ASSUME heater \in Heaters, NEW on \in BOOLEAN, NEW ok \in BOOLEAN
  PROVE  SetHeater(on, ok) \in Heaters
<1>1. (~ok) \in BOOLEAN /\ (IF ok THEN on ELSE heater.on) \in BOOLEAN
  BY DEF Heaters
<1> QED
  BY <1>1 DEF SetHeater, Heaters

LEMMA TemperatureControlType ==
  ASSUME heater \in Heaters, NEW temperature \in Temperatures,
         NEW duty \in BOOLEAN, NEW first \in BOOLEAN, NEW second \in BOOLEAN
  PROVE  TemperatureControl(temperature, duty, first, second) \in Heaters
<1>1. (duty \/ temperature = "cold") \in BOOLEAN
  OBVIOUS
<1> QED
  BY <1>1, SetHeaterType DEF TemperatureControl

SpiStates == {"idle", "busy", "hung", "released"}
AhrsPlaces == {"boot", "configure", "arm", "route", "seed", "create", "off",
               "take", "start", "recover", "release", "process"}

LEMMA AhrsTypes ==
  AhrsTypeOK <=> /\ dataReady \in BOOLEAN /\ queued \in BOOLEAN /\ ready \in BOOLEAN
                 /\ abandoned \in BOOLEAN /\ missing \in 0 .. MissLimit
                 /\ transfer \in Transfers /\ attitude \in Attitudes /\ heater \in Heaters
                 /\ spi \in SpiStates /\ ahrsPc \in AhrsPlaces
BY Zenon DEF AhrsTypeOK, Transfers, Attitudes, Heaters, SpiStates, AhrsPlaces

\* A step that leaves the transfer, the estimate and the heater alone.
LEMMA AhrsTypesKept ==
  ASSUME AhrsTypeOK, UNCHANGED <<transfer, attitude, heater, missing>>,
         dataReady' \in BOOLEAN, queued' \in BOOLEAN, ready' \in BOOLEAN, abandoned' \in BOOLEAN,
         spi' \in SpiStates, ahrsPc' \in AhrsPlaces
  PROVE  AhrsTypeOK'
BY Zenon DEF AhrsTypeOK, SpiStates, AhrsPlaces

\* A step that changes the transfer, and not the estimate or the heater.
LEMMA TransferTypesKept ==
  ASSUME AhrsTypeOK, UNCHANGED <<attitude, heater, missing>>, transfer' \in Transfers,
         dataReady' \in BOOLEAN, queued' \in BOOLEAN, ready' \in BOOLEAN, abandoned' \in BOOLEAN,
         spi' \in SpiStates, ahrsPc' \in AhrsPlaces
  PROVE  AhrsTypeOK'
BY Zenon DEF AhrsTypeOK, Transfers, SpiStates, AhrsPlaces

\* What a transfer may become: a burst ends, is given a recovery, or is replaced.
LEMMA TransferUpdates ==
  ASSUME transfer \in Transfers, NEW error \in BOOLEAN, NEW age \in 0 .. TransferTimeout + 1,
         NEW inFlight \in BOOLEAN
  PROVE  /\ [transfer EXCEPT !.complete = TRUE, !.error = error] \in Transfers
         /\ [transfer EXCEPT !.age = age] \in Transfers
         /\ [transfer EXCEPT !.recovering = error] \in Transfers
         /\ [transfer EXCEPT !.complete = FALSE, !.inFlight = FALSE, !.recovering = FALSE]
              \in Transfers
         /\ [inFlight |-> inFlight, complete |-> FALSE, error |-> TRUE, recovering |-> FALSE,
             age |-> 0] \in Transfers
<1>1. 0 \in 0 .. TransferTimeout + 1
  BY AhrsAssumption
<1> QED
  BY <1>1 DEF Transfers

LEMMA AhrsInterruptInv ==
  ASSUME AhrsInv, DataReadyCallback \/ TransferHangs \/ AhrsDriver
  PROVE  AhrsInv'
<1>1. /\ AhrsTypeOK /\ transfer \in Transfers /\ spi \in SpiStates /\ ahrsPc \in AhrsPlaces
      /\ dataReady \in BOOLEAN /\ queued \in BOOLEAN /\ ready \in BOOLEAN /\ abandoned \in BOOLEAN
  BY AhrsTypes DEF AhrsInv
<1>2. 0 \in 0 .. TransferTimeout + 1
  BY AhrsAssumption
<1> USE DEF ahrsThreadVars
<1>3. CASE DataReadyCallback
  <2>1. /\ dataReady' \in BOOLEAN /\ queued' \in BOOLEAN
        /\ UNCHANGED <<transfer, spi, ahrsThreadVars, abandoned>>
    BY <1>3 DEF DataReadyCallback, Armed
  <2>2. AhrsTypeOK'
    BY <1>1, <2>1, AhrsTypesKept
  <2> QED
    BY <2>1, <2>2 DEF AhrsInv, BurstOwned
<1>4. CASE TransferHangs
  <2>1. /\ spi = "busy" /\ spi' = "hung"
        /\ UNCHANGED <<dataReady, queued, transfer, ahrsThreadVars, abandoned>>
    BY <1>4 DEF TransferHangs
  <2>2. AhrsTypeOK'
    BY <1>1, <2>1, AhrsTypesKept DEF SpiStates
  <2> QED
    BY <2>1, <2>2 DEF AhrsInv, BurstOwned
<1>5. CASE AhrsDriver
  <2>1. PICK error \in BOOLEAN : transfer' = [transfer EXCEPT !.complete = TRUE, !.error = error]
    BY <1>5 DEF AhrsDriver, TransferCallback, ReleasedCallback
  <2>2. transfer' \in Transfers
    BY <1>1, <1>2, <2>1, TransferUpdates
  <2>3. transfer'.inFlight = transfer.inFlight
    BY <1>1, <2>1 DEF Transfers
  <2>4. /\ spi # "idle" /\ spi' = "idle" /\ dataReady' \in BOOLEAN /\ abandoned' \in BOOLEAN
        /\ UNCHANGED <<queued, ahrsThreadVars>>
    BY <1>1, <1>5 DEF AhrsDriver, TransferCallback, ReleasedCallback
  <2>5. AhrsTypeOK'
    BY <1>1, <2>2, <2>4, TransferTypesKept DEF SpiStates
  <2>6. transfer.inFlight
    BY <2>4 DEF AhrsInv, BurstOwned
  <2> QED
    BY <2>3, <2>4, <2>5, <2>6 DEF AhrsInv, BurstOwned
<1> QED
  BY <1>3, <1>4, <1>5

\* The steps of the thread that have to do with the transfer.
LEMMA AhrsTransferInv ==
  ASSUME AhrsInv,
         \/ TryTakeCompleted \/ NothingToTake
         \/ TransferPending \/ RecoverTransfer \/ ReleaseTransfer
         \/ NoEdge \/ StartBurstRead \/ StartRefused
  PROVE  AhrsInv'
<1>1. /\ AhrsTypeOK /\ transfer \in Transfers /\ spi \in SpiStates /\ ahrsPc \in AhrsPlaces
      /\ dataReady \in BOOLEAN /\ queued \in BOOLEAN /\ ready \in BOOLEAN /\ abandoned \in BOOLEAN
  BY AhrsTypes DEF AhrsInv
<1>2. 0 \in 0 .. TransferTimeout + 1
  BY AhrsAssumption
<1>3. CASE TryTakeCompleted
  <2>1. /\ transfer' = [transfer EXCEPT !.complete = FALSE, !.inFlight = FALSE,
                                        !.recovering = FALSE]
        /\ transfer.complete /\ ready' \in BOOLEAN /\ ahrsPc' = "start"
        /\ UNCHANGED <<dataReady, queued, spi, missing, attitude, heater, abandoned>>
    BY <1>1, <1>3 DEF TryTakeCompleted, Transfers
  <2>2. transfer' \in Transfers
    BY <1>1, <1>2, <2>1, TransferUpdates
  <2>3. ~transfer'.complete
    BY <1>1, <2>1 DEF Transfers
  <2>4. AhrsTypeOK'
    BY <1>1, <2>1, <2>2, TransferTypesKept DEF AhrsPlaces
  <2>5. spi = "idle"
    BY <2>1 DEF AhrsInv, BurstOwned
  <2> QED
    BY <2>1, <2>3, <2>4, <2>5 DEF AhrsInv, BurstOwned
<1>4. CASE NothingToTake
  <2>1. /\ transfer' = [transfer EXCEPT !.age = NextTransferAge(transfer.age)]
        /\ ready' = FALSE /\ ahrsPc' = "start"
        /\ UNCHANGED <<dataReady, queued, spi, missing, attitude, heater, abandoned>>
    BY <1>4 DEF NothingToTake
  <2>2. transfer.age \in 0 .. TransferTimeout + 1
    BY <1>1 DEF Transfers
  <2>3. transfer' \in Transfers
    BY <1>1, <2>1, <2>2, NextTransferAgeType, TransferUpdates
  <2>4. transfer'.complete = transfer.complete /\ transfer'.inFlight = transfer.inFlight
    BY <1>1, <2>1 DEF Transfers
  <2>5. AhrsTypeOK'
    BY <1>1, <2>1, <2>3, TransferTypesKept DEF AhrsPlaces
  <2> QED
    BY <2>1, <2>4, <2>5 DEF AhrsInv, BurstOwned
<1>5. CASE TransferPending
  <2>1. /\ transfer' \in {transfer, [transfer EXCEPT !.recovering = TRUE]}
        /\ transfer.inFlight /\ ahrsPc' \in {"recover", "process"}
        /\ UNCHANGED <<dataReady, queued, spi, ready, missing, attitude, heater, abandoned>>
    BY <1>5 DEF TransferPending
  <2>2. transfer' \in Transfers
    BY <1>1, <1>2, <2>1, TransferUpdates
  <2>3. transfer'.complete = transfer.complete /\ transfer'.inFlight = transfer.inFlight
    BY <1>1, <2>1 DEF Transfers
  <2>4. AhrsTypeOK'
    BY <1>1, <2>1, <2>2, TransferTypesKept DEF AhrsPlaces
  <2> QED
    BY <2>1, <2>3, <2>4 DEF AhrsInv, BurstOwned
<1>6. CASE RecoverTransfer
  <2>1. /\ transfer' \in {transfer, [transfer EXCEPT !.recovering = FALSE]}
        /\ ahrsPc = "recover" /\ ahrsPc' \in {"release", "process"}
        /\ UNCHANGED <<dataReady, queued, spi, ready, missing, attitude, heater, abandoned>>
    BY <1>6 DEF RecoverTransfer
  <2>2. transfer' \in Transfers
    BY <1>1, <1>2, <2>1, TransferUpdates
  <2>3. transfer'.complete = transfer.complete /\ transfer'.inFlight = transfer.inFlight
    BY <1>1, <2>1 DEF Transfers
  <2>4. AhrsTypeOK'
    BY <1>1, <2>1, <2>2, TransferTypesKept DEF AhrsPlaces
  <2>5. transfer.inFlight
    BY <2>1 DEF AhrsInv
  <2> QED
    BY <2>1, <2>3, <2>4, <2>5 DEF AhrsInv, BurstOwned
<1>7. CASE ReleaseTransfer
  <2>1. /\ ahrsPc = "release" /\ ahrsPc' = "process" /\ spi' = SpiAfterRelease
        /\ UNCHANGED <<dataReady, queued, transfer, ready, missing, attitude, heater, abandoned>>
    BY <1>7 DEF ReleaseTransfer
  <2>2. spi' \in SpiStates /\ (spi' # "idle" => spi # "idle")
    BY <2>1 DEF SpiAfterRelease, SpiStates
  <2>3. AhrsTypeOK'
    BY <1>1, <2>1, <2>2, AhrsTypesKept DEF AhrsPlaces
  <2> QED
    BY <2>1, <2>2, <2>3 DEF AhrsInv, BurstOwned
<1>8. CASE NoEdge
  <2>1. /\ ahrsPc' = "process"
        /\ UNCHANGED <<dataReady, queued, transfer, spi, ready, missing, attitude, heater,
                       abandoned>>
    BY <1>8 DEF NoEdge
  <2>2. AhrsTypeOK'
    BY <1>1, <2>1, AhrsTypesKept DEF AhrsPlaces
  <2> QED
    BY <2>1, <2>2 DEF AhrsInv, BurstOwned
<1>9. CASE StartBurstRead \/ StartRefused
  <2>1. PICK inFlight \in BOOLEAN :
          transfer' = [inFlight |-> inFlight, complete |-> FALSE, error |-> TRUE,
                       recovering |-> FALSE, age |-> 0]
    BY <1>9 DEF StartBurstRead, StartRefused, NoTransfer
  <2>2. transfer' \in Transfers /\ ~transfer'.complete
    BY <1>1, <1>2, <2>1, TransferUpdates
  <2>3. /\ ~transfer.inFlight /\ ahrsPc' = "process" /\ queued' = FALSE
        /\ UNCHANGED <<dataReady, ready, missing, attitude, heater>>
        /\ abandoned' \in BOOLEAN
    BY <1>1, <1>9 DEF StartBurstRead, StartRefused
  <2>4. spi = "idle"
    BY <2>3 DEF AhrsInv, BurstOwned
  <2>5. spi' = spi \/ (spi' = "busy" /\ transfer'.inFlight)
    BY <1>9 DEF StartBurstRead, StartRefused, NoTransfer
  <2>6. spi' \in SpiStates
    BY <1>1, <2>5 DEF SpiStates
  <2>7. AhrsTypeOK'
    BY <1>1, <2>2, <2>3, <2>6, TransferTypesKept DEF AhrsPlaces
  <2> QED
    BY <2>2, <2>3, <2>4, <2>5, <2>7 DEF AhrsInv, BurstOwned
<1> QED
  BY <1>3, <1>4, <1>5, <1>6, <1>7, <1>8, <1>9

\* The steps of the thread that leave the transfer alone.
LEMMA AhrsProcessInv ==
  ASSUME AhrsInv, ProcessSample \/ ProcessMissing \/ AhrsBoot
  PROVE  AhrsInv'
<1>1. /\ AhrsTypeOK /\ transfer \in Transfers /\ attitude \in Attitudes /\ heater \in Heaters
      /\ spi \in SpiStates /\ ahrsPc \in AhrsPlaces /\ missing \in 0 .. MissLimit
      /\ dataReady \in BOOLEAN /\ queued \in BOOLEAN /\ ready \in BOOLEAN /\ abandoned \in BOOLEAN
  BY AhrsTypes DEF AhrsInv
<1>2. ASSUME UNCHANGED <<transfer, spi, abandoned>>, AhrsTypeOK', ahrsPc' \notin {"recover", "release"}
      PROVE  AhrsInv'
  BY <1>2 DEF AhrsInv, BurstOwned
<1>3. CASE ProcessSample
  <2>1. PICK burst \in Bursts : \E timing, level, healthy \in BOOLEAN :
                                  attitude' = Estimate(burst, timing, level, healthy)
    BY <1>3 DEF ProcessSample
  <2>2. attitude' \in Attitudes
    BY <1>1, <2>1, EstimateType
  <2>3. PICK b \in Bursts, duty, first, second \in BOOLEAN :
          heater' = TemperatureControl(b.temperature, duty, first, second)
    BY <1>3 DEF ProcessSample
  <2>4. b.temperature \in Temperatures
    BY DEF Bursts
  <2>5. heater' \in Heaters
    BY <1>1, <2>3, <2>4, TemperatureControlType
  <2>6. /\ missing' = 0 /\ ahrsPc' = "take"
        /\ UNCHANGED <<dataReady, queued, transfer, spi, ready, abandoned>>
    BY <1>3 DEF ProcessSample
  <2>7. 0 \in 0 .. MissLimit /\ "take" \in AhrsPlaces
    BY AhrsAssumption DEF AhrsPlaces
  <2>8. AhrsTypeOK'
    BY <1>1, <2>2, <2>5, <2>6, <2>7 DEF AhrsTypeOK, Transfers, Attitudes, Heaters, SpiStates,
                                        AhrsPlaces
  <2> QED
    BY <1>2, <2>6, <2>8
<1>4. CASE ProcessMissing
  <2>1. PICK ok \in BOOLEAN : heater' = IF missing' >= MissLimit THEN CutHeater(ok) ELSE heater
    BY <1>4 DEF ProcessMissing
  <2>2. heater' \in Heaters
    BY <1>1, <2>1, SetHeaterType DEF CutHeater
  <2>3. /\ missing' = (IF missing < MissLimit THEN missing + 1 ELSE missing) /\ ahrsPc' = "take"
        /\ UNCHANGED <<dataReady, queued, transfer, spi, ready, attitude, abandoned>>
    BY <1>4 DEF ProcessMissing
  <2>4. missing' \in 0 .. MissLimit
    BY <1>1, <2>3, AhrsAssumption
  <2>5. AhrsTypeOK'
    BY <1>1, <2>2, <2>3, <2>4 DEF AhrsTypeOK, Transfers, Attitudes, Heaters, SpiStates,
                                  AhrsPlaces
  <2> QED
    BY <1>2, <2>3, <2>5
<1>5. CASE AhrsStart
  <2>1. PICK ok, found \in BOOLEAN : /\ BootStep("boot", ok /\ found, "configure")
                                    /\ heater' = SetHeater(FALSE, ok)
    BY <1>5 DEF AhrsStart
  <2>2. heater' \in Heaters
    BY <1>1, <2>1, SetHeaterType
  <2>3. ahrsPc' \in {"configure", "off"}
    BY <2>1 DEF BootStep
  <2>4. UNCHANGED <<dataReady, queued, transfer, spi, ready, missing, attitude, abandoned>>
    BY <1>5 DEF AhrsStart
  <2>5. AhrsTypeOK'
    BY <1>1, <2>2, <2>3, <2>4 DEF AhrsTypeOK, Transfers, Attitudes, Heaters, SpiStates,
                                  AhrsPlaces
  <2> QED
    BY <1>2, <2>3, <2>4, <2>5
<1>6. CASE InitializeHardware \/ SeedAcquisition \/ CreateThread
  <2>1. /\ ahrsPc' \in {"arm", "route", "seed", "create", "take", "off"} /\ queued' \in BOOLEAN
        /\ UNCHANGED <<dataReady, transfer, spi, ready, missing, attitude, heater, abandoned>>
    BY <1>1, <1>6 DEF InitializeHardware, SeedAcquisition, CreateThread, BootStep
  <2>2. AhrsTypeOK'
    BY <1>1, <2>1, AhrsTypesKept DEF AhrsPlaces
  <2> QED
    BY <1>2, <2>1, <2>2
<1> QED
  BY <1>3, <1>4, <1>5, <1>6 DEF AhrsBoot

LEMMA AhrsStepInv == AhrsInv /\ [AhrsNext]_ahrsVars => AhrsInv'
<1> SUFFICES ASSUME AhrsInv, [AhrsNext]_ahrsVars PROVE AhrsInv'
  OBVIOUS
<1>1. CASE DataReadyCallback \/ TransferHangs \/ AhrsDriver
  BY <1>1, AhrsInterruptInv
<1>2. CASE AhrsThread
  BY <1>2, AhrsTransferInv, AhrsProcessInv DEF AhrsThread
<1>3. CASE UNCHANGED ahrsVars
  <2>1. /\ AhrsTypeOK /\ spi \in SpiStates /\ ahrsPc \in AhrsPlaces
        /\ dataReady \in BOOLEAN /\ queued \in BOOLEAN /\ ready \in BOOLEAN
        /\ abandoned \in BOOLEAN
    BY AhrsTypes DEF AhrsInv
  <2>2. UNCHANGED <<dataReady, queued, transfer, spi, ahrsPc, ready, missing, attitude, heater,
                    abandoned>>
    BY <1>3 DEF ahrsVars
  <2>3. AhrsTypeOK'
    BY <2>1, <2>2, AhrsTypesKept
  <2> QED
    BY <2>2, <2>3 DEF AhrsInv, BurstOwned
<1> QED
  BY <1>1, <1>2, <1>3 DEF AhrsNext

(***************************************************************************)
(* The thread and the interrupts keep the types of what they share.        *)
(***************************************************************************)
THEOREM AhrsTypeCorrect == AhrsSpec => []AhrsTypeOK
<1>1. AhrsInv => AhrsTypeOK
  BY DEF AhrsInv
<1> QED
  BY <1>1, AhrsInitInv, AhrsStepInv, PTL DEF AhrsSpec

(***************************************************************************)
(* The burst buffer has one owner, across the timeout, the recovery and    *)
(* the completion that races it.                                           *)
(***************************************************************************)
THEOREM BurstCorrect == AhrsSpec => []BurstOwned
<1>1. AhrsInv => BurstOwned
  BY DEF AhrsInv
<1> QED
  BY <1>1, AhrsInitInv, AhrsStepInv, PTL DEF AhrsSpec

-----------------------------------------------------------------------------
(* The attitude filter.                                                      *)

Ekfs == [count : 0 .. 1, memory : SUBSET Motions, observed : BOOLEAN, corrected : BOOLEAN]

\* A filter that is in use has had its first sample, and what it remembers and
\* what it was corrected by are known by the motion they came from.
FilterInv ==
  /\ FilterTypeOK
  /\ output => attitudeSet
  /\ attitudeSet => ekf.count = 1
  /\ ekf.memory \subseteq {"still", origin}
  /\ ekf.corrected => observedIn = "still"

LEMMA ResetRemembersNothing ==
  EkfReset \in Ekfs /\ EkfReset.memory = {} /\ EkfReset.corrected = FALSE
BY DEF EkfReset, Ekfs

LEMMA OneSampleRemembered ==
  ASSUME NEW motion \in Motions
  PROVE  /\ InitFromAccel(motion) \in Ekfs
         /\ InitFromAccel(motion).count = 1
         /\ InitFromAccel(motion).memory = {motion}
         /\ InitFromAccel(motion).corrected = FALSE
<1>1. InitFromAccel(motion) =
        [count |-> 1, memory |-> {motion}, observed |-> FALSE, corrected |-> FALSE]
  <2> DEFINE e == EkfReset
  <2>1. e = [count |-> 0, memory |-> {}, observed |-> FALSE, corrected |-> FALSE]
    BY DEF EkfReset
  <2>2. InitFromAccel(motion) = [e EXCEPT !.count = 1, !.memory = {motion}]
    BY DEF InitFromAccel
  <2> HIDE DEF e
  <2> QED
    BY <2>1, <2>2
<1>2. 1 \in 0 .. 1 /\ {motion} \in SUBSET Motions
  OBVIOUS
<1> QED
  BY <1>1, <1>2 DEF Ekfs

LEMMA FilterInitInv == FilterInit => FilterInv
<1> SUFFICES ASSUME FilterInit PROVE FilterInv
  OBVIOUS
<1>1. "still" \in Motions
  BY DEF Motions
<1>2. ekf = IF attitudeSet THEN InitFromAccel("still") ELSE EkfReset
  BY DEF FilterInit
<1>3. ekf \in Ekfs /\ ekf.memory \subseteq {"still"} /\ ~ekf.corrected
      /\ (attitudeSet => ekf.count = 1)
  BY <1>1, <1>2, OneSampleRemembered, ResetRemembersNothing
<1>4. attitudeSet \in BOOLEAN /\ output = attitudeSet /\ origin = "still" /\ observedIn = "still"
  BY DEF FilterInit
<1> HIDE DEF FilterInit
<1> QED
  BY <1>1, <1>3, <1>4 DEF FilterInv, FilterTypeOK, Ekfs

\* A new start forgets all that came before its sample.
LEMMA RestartForgets ==
  ASSUME NEW motion \in Motions, NEW level \in BOOLEAN, InitializeAttitude(motion, level)
  PROVE  /\ attitudeSet' = level /\ origin' = motion
         /\ ekf' \in Ekfs /\ (level => ekf'.count = 1)
         /\ ekf'.memory \subseteq {motion} /\ ~ekf'.corrected
<1>1. /\ attitudeSet' = level /\ origin' = motion
      /\ ekf' = IF level THEN InitFromAccel(motion) ELSE EkfReset
  BY DEF InitializeAttitude
<1> QED
  BY <1>1, OneSampleRemembered, ResetRemembersNothing

LEMMA FilterStepInv == FilterInv /\ [FilterNext]_filterVars => FilterInv'
<1> SUFFICES ASSUME FilterInv, [FilterNext]_filterVars PROVE FilterInv'
  OBVIOUS
<1>1. ASSUME NEW motion \in Motions, NEW level \in BOOLEAN, InitializeAttitude(motion, level),
             output' \in BOOLEAN, output' => level, UNCHANGED observedIn
      PROVE  FilterInv'
  <2>1. /\ attitudeSet' = level /\ origin' = motion
        /\ ekf' \in Ekfs /\ (level => ekf'.count = 1)
        /\ ekf'.memory \subseteq {motion} /\ ~ekf'.corrected
    BY <1>1, RestartForgets
  <2> QED
    BY <1>1, <2>1 DEF FilterInv, FilterTypeOK, Ekfs
<1>2. CASE BurstRestarts
  <2>1. PICK motion \in Motions, level, timing \in BOOLEAN :
          /\ InitializeAttitude(motion, level)
          /\ output' = (timing /\ level)
          /\ UNCHANGED observedIn
    BY <1>2 DEF BurstRestarts
  <2> QED
    BY <1>1, <2>1
<1>3. CASE BurstUpdates
  <2>1. PICK motion \in Motions, inBand \in BOOLEAN, innovation \in Innovations :
          /\ attitudeSet
          /\ Update(motion, inBand, innovation)
          /\ output' = TRUE
    BY <1>3 DEF BurstUpdates
  <2> DEFINE observed == Observed(motion, inBand)
             corrects == Corrects(observed, innovation)
  <2>2. observed \in BOOLEAN /\ corrects \in BOOLEAN /\ (corrects => motion = "still")
    BY DEF Observed, Corrects
  <2>3. /\ ekf' = [count |-> 1, memory |-> LowPass(motion), observed |-> observed,
                   corrected |-> corrects]
        /\ observedIn' = IF corrects THEN motion ELSE observedIn
        /\ UNCHANGED <<attitudeSet, origin>>
    BY <2>1 DEF Update
  <2>4. LowPass(motion) \subseteq Motions /\ LowPass(motion) \subseteq {"still", origin}
    BY <2>1 DEF LowPass, FilterInv, FilterTypeOK
  <2> HIDE DEF observed, corrects
  <2>5. ekf' \in Ekfs /\ ekf'.count = 1 /\ ekf'.memory = LowPass(motion)
        /\ ekf'.corrected = corrects
    BY <2>2, <2>3, <2>4 DEF Ekfs
  <2> QED
    BY <2>1, <2>2, <2>3, <2>4, <2>5 DEF FilterInv, FilterTypeOK, Ekfs
<1>4. CASE BurstDiverges
  <2>1. PICK motion \in Motions, level \in BOOLEAN :
          InitializeAttitude(motion, level) /\ output' = FALSE /\ UNCHANGED observedIn
    BY <1>4 DEF BurstDiverges
  <2> QED
    BY <1>1, <2>1
<1>5. CASE BurstRejected
  BY <1>5 DEF BurstRejected, FilterInv, FilterTypeOK
<1>6. CASE UNCHANGED filterVars
  BY <1>6 DEF filterVars, FilterInv, FilterTypeOK
<1> QED
  BY <1>2, <1>3, <1>4, <1>5, <1>6 DEF FilterNext

LEMMA FilterInvariance == FilterSpec => []FilterInv
BY FilterInitInv, FilterStepInv, PTL DEF FilterSpec

(***************************************************************************)
(* The filter keeps its types.                                             *)
(***************************************************************************)
THEOREM FilterTypeCorrect == FilterSpec => []FilterTypeOK
<1>1. FilterInv => FilterTypeOK
  BY DEF FilterInv
<1> QED
  BY <1>1, FilterInvariance, PTL

(***************************************************************************)
(* A valid attitude is corrected by the accelerations of a still body      *)
(* only: whatever the gates, the outcome of the arithmetic and the         *)
(* restarts, nothing of a moving one stays in the low-pass memory or in an *)
(* observation.                                                            *)
(***************************************************************************)
THEOREM GravityCorrect == FilterSpec => []GravityWhenStill
<1>1. FilterInv => GravityWhenStill
  BY DEF FilterInv, GravityWhenStill
<1> QED
  BY <1>1, FilterInvariance, PTL

-----------------------------------------------------------------------------
(* The transmission.                                                         *)

\* The thread that fills the frame has claimed it.
OscInv ==
  /\ OscTypeOK
  /\ FrameOwned
  /\ oscPc = "start" => txBusy

LEMMA OscInitInv == OscInit => OscInv
<1>1. 0 \in 0 .. OscTimeout + 1 /\ 0 \in 0 .. ProbePeriod + 1
  BY OscAssumption
<1> QED
  BY <1>1 DEF OscInit, OscInv, OscTypeOK, FrameOwned

LEMMA OneMoreType ==
  ASSUME NEW bound \in Nat, NEW n \in 0 .. bound + 1
  PROVE  OneMore(bound, n) \in 0 .. bound + 1
BY DEF OneMore

LEMMA OscStepInv == OscInv /\ [OscNext]_oscVars => OscInv'
<1> SUFFICES ASSUME OscInv, [OscNext]_oscVars PROVE OscInv'
  OBVIOUS
<1> USE OscAssumption DEF OscInv, OscTypeOK, FrameOwned
<1>1. CASE PublishSample
  BY <1>1 DEF PublishSample
<1>2. CASE UartHangs
  BY <1>2 DEF UartHangs
<1>3. CASE UartTxDone
  BY <1>3 DEF UartTxDone
<1>4. CASE SendLatestSample
  BY <1>4, OneMoreType DEF SendLatestSample
<1>5. CASE ClaimBuffer
  BY <1>5 DEF ClaimBuffer
<1>6. CASE AbortTransmission
  BY <1>6 DEF AbortTransmission
<1>7. CASE TransmitFails
  BY <1>7 DEF TransmitFails
<1>8. CASE TransmitStarts
  BY <1>8 DEF TransmitStarts
<1>9. CASE UNCHANGED oscVars
  BY <1>9 DEF oscVars
<1> QED
  BY <1>1, <1>2, <1>3, <1>4, <1>5, <1>6, <1>7, <1>8, <1>9 DEF OscNext, OscThread

(***************************************************************************)
(* The oscilloscope keeps its types.                                       *)
(***************************************************************************)
THEOREM OscTypeCorrect == OscSpec => []OscTypeOK
<1>1. OscInv => OscTypeOK
  BY DEF OscInv
<1> QED
  BY <1>1, OscInitInv, OscStepInv, PTL DEF OscSpec

(***************************************************************************)
(* The frame buffer is filled only while the UART does not read it, across *)
(* completions, timeouts and refused aborts.                               *)
(***************************************************************************)
THEOREM FrameCorrect == OscSpec => []FrameOwned
<1>1. OscInv => FrameOwned
  BY DEF OscInv
<1> QED
  BY <1>1, OscInitInv, OscStepInv, PTL DEF OscSpec

-----------------------------------------------------------------------------
(* The SD log.                                                               *)

NothingLogged ==
  batch = 0 /\ sequence = 0 /\ syncs = 0 /\ saved = [written |-> 0, synced |-> 0]

\* What the log owes the card, by the place its thread is at: full batches since
\* the last sync, and the one being filled.
SdInv ==
  /\ SdTypeOK
  /\ sdPc \in {"disk", "mount", "off"} => volume = Released
  /\ sdPc \in {"disk", "mount", "stat", "open"} => ~broken /\ NothingLogged
  /\ sdPc = "off" /\ ~broken => NothingLogged
  /\ sdPc = "rest" => broken
  /\ broken => sdPc \in {"rest", "off"}
  /\ saved.synced <= saved.written /\ saved.written <= sequence
  /\ ~broken => /\ saved.written + batch = sequence
                /\ saved.written = saved.synced + syncs * BatchRecords
  /\ sdPc = "record" => batch < BatchRecords /\ syncs < SyncEvery
  /\ sdPc = "write" => batch = BatchRecords /\ syncs < SyncEvery
  /\ sdPc = "sync" => batch = 0 /\ syncs = SyncEvery

Saves == [written : 0 .. MaxRecords, synced : 0 .. MaxRecords]
Volumes == [mounted : BOOLEAN, open : BOOLEAN]

LEMMA SdInitInv == SdInit => SdInv
<1> SUFFICES ASSUME SdInit PROVE SdInv
  OBVIOUS
<1> USE SdAssumption
<1>1. NothingLogged /\ sdPc = "disk" /\ volume = Released /\ name = 0 /\ broken = FALSE
  BY DEF SdInit, NothingLogged
<1>2. saved \in Saves /\ saved.written = 0 /\ saved.synced = 0
  <2>1. 0 \in 0 .. MaxRecords
    OBVIOUS
  <2> QED
    BY <1>1, <2>1 DEF NothingLogged, Saves
<1>3. volume \in Volumes
  BY <1>1 DEF Released, Volumes
<1>4. syncs * BatchRecords = 0
  BY <1>1 DEF NothingLogged
<1>5. batch = 0 /\ sequence = 0 /\ syncs = 0
  BY <1>1 DEF NothingLogged
<1>6. SdTypeOK
  <2>1. 0 \in 0 .. BatchRecords /\ 0 \in 0 .. SyncEvery /\ 0 \in 0 .. MaxRecords
        /\ 0 \in 0 .. LogFiles
    OBVIOUS
  <2> QED
    BY <1>1, <1>2, <1>3, <1>5, <2>1 DEF SdTypeOK, Saves, Volumes
<1>7. /\ saved.synced <= saved.written /\ saved.written <= sequence
      /\ saved.written + batch = sequence
      /\ saved.written = saved.synced + syncs * BatchRecords
  BY <1>2, <1>4, <1>5
<1> QED
  BY <1>1, <1>6, <1>7 DEF SdInv

\* The volume is given back, and the log keeps the rest.
LEMMA SdSetupStep ==
  ASSUME SdInv, sdPc \in {"disk", "mount", "stat", "open"},
         UNCHANGED <<batch, sequence, saved, syncs, broken>>,
         name' \in 0 .. LogFiles, volume' \in Volumes,
         \/ sdPc' \in {"mount", "off"} /\ volume' = Released
         \/ sdPc' \in {"stat", "open", "record"}
  PROVE  SdInv'
<1> USE SdAssumption
<1>1. ~broken /\ NothingLogged /\ saved \in Saves
  BY DEF SdInv, SdTypeOK, Saves
<1>2. NothingLogged' /\ broken' = broken
  BY <1>1 DEF NothingLogged
<1>3. saved.written = 0 /\ saved.synced = 0 /\ syncs * BatchRecords = 0
  BY <1>1 DEF NothingLogged
<1>4. /\ batch = 0 /\ sequence = 0 /\ syncs = 0
  BY <1>1 DEF NothingLogged
<1>5. 0 \in 0 .. MaxRecords /\ 0 \in 0 .. BatchRecords /\ 0 \in 0 .. SyncEvery
      /\ 0 < BatchRecords /\ 0 < SyncEvery
  OBVIOUS
<1>6. SdTypeOK'
  BY <1>1, <1>4, <1>5 DEF SdInv, SdTypeOK, Saves, Volumes
<1> QED
  BY <1>1, <1>2, <1>3, <1>4, <1>5, <1>6 DEF SdInv

LEMMA SdStepInv == SdInv /\ [SdNext]_sdVars => SdInv'
<1> SUFFICES ASSUME SdInv, [SdNext]_sdVars PROVE SdInv'
  OBVIOUS
<1> USE SdAssumption
<1> DEFINE p == syncs * BatchRecords
<1>1. /\ batch \in 0 .. BatchRecords /\ sequence \in 0 .. MaxRecords /\ syncs \in 0 .. SyncEvery
      /\ saved \in Saves /\ volume \in Volumes /\ name \in 0 .. LogFiles /\ broken \in BOOLEAN
  BY DEF SdInv, SdTypeOK, Saves, Volumes
<1>2. Released \in Volumes
  BY DEF Released, Volumes
<1>3. saved.written \in 0 .. MaxRecords /\ saved.synced \in 0 .. MaxRecords
  BY <1>1 DEF Saves
<1>4. p \in Nat
  BY <1>1, ProductNat
<1>5. CASE InitDisk
  BY <1>1, <1>5, SdSetupStep DEF InitDisk, logVars, SdInv
<1>6. CASE MountVolume
  <2>1. [volume EXCEPT !.mounted = TRUE] \in Volumes
    BY <1>1 DEF Volumes
  <2> QED
    BY <1>1, <1>6, <2>1, SdSetupStep DEF MountVolume, logVars, SdInv
<1>7. CASE StatName
  <2>1. name' \in 0 .. LogFiles
    BY <1>1, <1>7 DEF StatName
  <2> QED
    BY <1>1, <1>2, <1>7, <2>1, SdSetupStep DEF StatName, GiveUp, logVars
<1>8. CASE OpenLog
  <2>1. [volume EXCEPT !.open = TRUE] \in Volumes
    BY <1>1 DEF Volumes
  <2> QED
    BY <1>1, <1>2, <1>8, <2>1, SdSetupStep DEF OpenLog, GiveUp, logVars
<1>9. CASE AppendRecord
  <2>1. /\ sdPc = "record" /\ sequence' = sequence + 1 /\ batch' = batch + 1
        /\ sequence < MaxRecords
        /\ sdPc' = IF batch' = BatchRecords THEN "write" ELSE "record"
        /\ UNCHANGED <<volume, name, saved, syncs, broken>>
    BY <1>9 DEF AppendRecord
  <2>2. ~broken /\ batch < BatchRecords /\ syncs < SyncEvery
    BY <2>1 DEF SdInv
  <2>3. batch' \in 0 .. BatchRecords /\ sequence' \in 0 .. MaxRecords
    BY <1>1, <2>1, <2>2
  <2>4. SdTypeOK'
    BY <1>1, <2>1, <2>3 DEF SdTypeOK, Saves, Volumes
  <2>5. saved.synced <= saved.written /\ saved.written + batch = sequence
        /\ saved.written = saved.synced + p
    BY <2>2 DEF SdInv
  <2> QED
    BY <1>1, <1>3, <2>1, <2>2, <2>4, <2>5 DEF SdInv
<1>10. CASE WriteBatch
  <2>1. ~broken /\ batch = BatchRecords /\ syncs < SyncEvery /\ sdPc = "write"
    BY <1>10 DEF WriteBatch, SdInv
  <2>2. saved.synced <= saved.written /\ saved.written + batch = sequence
        /\ saved.written = saved.synced + p
    BY <2>1 DEF SdInv
  <2>3. UNCHANGED <<volume, name, sequence>>
    BY <1>10 DEF WriteBatch
  <2>4. CASE /\ saved' = [saved EXCEPT !.written = @ + batch]
             /\ batch' = 0 /\ syncs' = syncs + 1
             /\ sdPc' = IF syncs' >= SyncEvery THEN "sync" ELSE "record"
             /\ UNCHANGED broken
    <3>1. saved' \in Saves /\ saved'.written = sequence /\ saved'.synced = saved.synced
      BY <1>1, <1>3, <2>2, <2>4 DEF Saves
    <3>2. (syncs + 1) * BatchRecords = p + 1 * BatchRecords /\ 1 * BatchRecords = BatchRecords
      BY <1>1, Distributes
    <3>3. SdTypeOK'
      BY <1>1, <2>1, <2>3, <2>4, <3>1 DEF SdTypeOK, Saves, Volumes
    <3>4. saved'.written = saved'.synced + syncs' * BatchRecords
      <4> HIDE DEF p
      <4> QED
        BY <1>1, <1>3, <1>4, <2>1, <2>2, <2>4, <3>1, <3>2
    <3> QED
      BY <1>1, <1>3, <2>1, <2>2, <2>3, <2>4, <3>1, <3>3, <3>4 DEF SdInv
  <2>5. CASE /\ \E n \in 0 .. batch - 1 : saved' = [saved EXCEPT !.written = @ + n]
             /\ sdPc' = "rest" /\ broken' = TRUE /\ UNCHANGED <<batch, syncs>>
    <3>1. PICK n \in 0 .. batch - 1 : saved' = [saved EXCEPT !.written = @ + n]
      BY <2>5
    <3>2. /\ saved' \in Saves /\ saved'.written <= sequence /\ saved'.synced <= saved'.written
      BY <1>1, <1>3, <2>2, <3>1 DEF Saves
    <3>3. SdTypeOK'
      BY <1>1, <2>3, <2>5, <3>2 DEF SdTypeOK, Saves, Volumes
    <3> QED
      BY <2>3, <2>5, <3>2, <3>3 DEF SdInv
  <2> QED
    BY <1>10, <2>4, <2>5 DEF WriteBatch
<1>11. CASE SyncLog
  <2>1. ~broken /\ batch = 0 /\ sdPc = "sync" /\ UNCHANGED <<volume, name, batch, sequence>>
    BY <1>11 DEF SyncLog, SdInv
  <2>2. saved.synced <= saved.written /\ saved.written + batch = sequence
    BY <2>1 DEF SdInv
  <2>3. CASE /\ saved' = [saved EXCEPT !.synced = saved.written] /\ syncs' = 0
             /\ sdPc' = "record" /\ UNCHANGED broken
    <3>1. saved' \in Saves /\ saved'.written = saved.written /\ saved'.synced = saved.written
      BY <1>1, <1>3, <2>3 DEF Saves
    <3>2. SdTypeOK'
      BY <1>1, <2>1, <2>3, <3>1 DEF SdTypeOK, Saves, Volumes
    <3>3. syncs' * BatchRecords = 0 /\ 0 < BatchRecords /\ 0 < SyncEvery
      BY <2>3
    <3> QED
      BY <1>1, <1>3, <2>1, <2>2, <2>3, <3>1, <3>2, <3>3 DEF SdInv
  <2>4. CASE sdPc' = "rest" /\ broken' = TRUE /\ UNCHANGED <<saved, syncs>>
    BY <1>1, <2>1, <2>2, <2>4 DEF SdInv, SdTypeOK
  <2> QED
    BY <1>11, <2>3, <2>4 DEF SyncLog
<1>12. CASE CloseLog
  <2>1. PICK n \in saved.written .. sequence, synced \in BOOLEAN :
          saved' = [written |-> n, synced |-> IF synced THEN n ELSE saved.synced]
    BY <1>12 DEF CloseLog
  <2>2. /\ sdPc = "rest" /\ sdPc' = "off" /\ volume' = Released
        /\ UNCHANGED <<name, batch, sequence, syncs, broken>>
    BY <1>12 DEF CloseLog, GiveUp
  <2>3. broken /\ saved.synced <= saved.written
    BY <2>2 DEF SdInv
  <2>4. n \in 0 .. MaxRecords /\ saved.written <= n /\ n <= sequence
    BY <1>1, <1>3, <2>1
  <2>5. saved' \in Saves /\ saved'.written = n /\ saved'.synced <= n
    BY <1>3, <2>1, <2>3, <2>4 DEF Saves
  <2>6. SdTypeOK'
    BY <1>1, <1>2, <2>2, <2>5 DEF SdTypeOK, Saves, Volumes
  <2> QED
    BY <2>2, <2>3, <2>4, <2>5, <2>6 DEF SdInv
<1>13. CASE UNCHANGED sdVars
  BY <1>13 DEF sdVars, SdInv, SdTypeOK, NothingLogged
<1> QED
  BY <1>5, <1>6, <1>7, <1>8, <1>9, <1>10, <1>11, <1>12, <1>13 DEF SdNext

LEMMA SdInvariance == SdSpec => []SdInv
BY SdInitInv, SdStepInv, PTL DEF SdSpec

(***************************************************************************)
(* The log keeps its types.                                                *)
(***************************************************************************)
THEOREM LogTypeCorrect == SdSpec => []SdTypeOK
<1>1. SdInv => SdTypeOK
  BY DEF SdInv
<1> QED
  BY <1>1, SdInvariance, PTL

(***************************************************************************)
(* A power cut costs no more than the batches between two syncs, for every *)
(* size of a batch and every number of batches between syncs, and a log    *)
(* that ended has given its volume back.                                   *)
(***************************************************************************)
THEOREM PowerCutCorrect == SdSpec => []PowerCutBound
<1>1. SdInv => PowerCutBound
  <2> SUFFICES ASSUME SdInv PROVE PowerCutBound
    OBVIOUS
  <2> USE SdAssumption
  <2>1. /\ batch \in 0 .. BatchRecords /\ sequence \in Nat /\ syncs \in 0 .. SyncEvery
        /\ saved.written \in Nat /\ saved.synced \in Nat
    BY DEF SdInv, SdTypeOK
  <2>2. ASSUME ~broken
        PROVE  sequence - saved.synced <= SyncEvery * BatchRecords
    <3>1. sequence = saved.synced + syncs * BatchRecords + batch
      BY <2>1, <2>2 DEF SdInv
    <3>2. syncs * BatchRecords \in Nat /\ SyncEvery * BatchRecords \in Nat
      BY <2>1, ProductNat
    <3>3. CASE syncs < SyncEvery
      <4>1. (syncs + 1) * BatchRecords <= SyncEvery * BatchRecords
        BY <2>1, <3>3, ProductMonotone
      <4>2. (syncs + 1) * BatchRecords = syncs * BatchRecords + 1 * BatchRecords
            /\ 1 * BatchRecords = BatchRecords
        BY <2>1, Distributes
      <4> QED
        BY <2>1, <3>1, <3>2, <4>1, <4>2
    <3>4. CASE ~(syncs < SyncEvery)
      <4>1. syncs = SyncEvery
        BY <2>1, <3>4
      <4>2. batch = 0
        BY <2>2, <3>4 DEF SdInv, NothingLogged, SdTypeOK
      <4> QED
        BY <2>1, <3>1, <3>2, <4>1, <4>2
    <3> QED
      BY <3>3, <3>4
  <2> QED
    BY <2>2 DEF SdInv, PowerCutBound
<1> QED
  BY <1>1, SdInvariance, PTL

-----------------------------------------------------------------------------
(* The schedule.                                                             *)

SchedCounts ==
  /\ now \in Nat /\ next \in Nat /\ total \in Nat /\ pending \in Nat
  /\ slot \in Nat /\ runs \in Nat
  /\ schedPc \in {"running", "asleep"}

\* What a first half counted is handed to the second half of the same call.
SchedInv == SchedCounts /\ EverySlotAccounted /\ (schedPc = "running" => pending = 0)

LEMMA SchedInitInv == SchedInit => SchedInv
<1> SUFFICES ASSUME SchedInit PROVE SchedInv
  OBVIOUS
<1> USE PeriodAssumption
<1> DEFINE q == now \div Period
           r == now % Period
<1>1. now \in Nat
  BY ProductNat, SMT DEF SchedInit
<1>2. q \in Nat /\ r \in 0 .. Period - 1 /\ now = q * Period + r
  BY <1>1, Division
<1>3. q * Period \in Nat /\ (q + 1) * Period = q * Period + Period
  BY <1>2, ProductNat, Distributes, SMT
<1>4. slot \in Nat /\ next \in Nat /\ next = slot * Period + Phase
  <2> HIDE DEF q, r
  <2>1. SchedInit => /\ slot = IF r <= Phase THEN q ELSE q + 1
                     /\ next = IF r <= Phase THEN now - r + Phase ELSE now - r + Phase + Period
    BY DEF SchedInit, q, r
  <2>2. CASE r <= Phase
    BY <2>1, <2>2, <1>1, <1>2, <1>3, SMT
  <2>3. CASE ~(r <= Phase)
    BY <2>1, <2>3, <1>1, <1>2, <1>3, SMT
  <2> QED
    BY <2>2, <2>3
<1> QED
  BY <1>1, <1>4, SMT DEF SchedInit, SchedInv, SchedCounts, EverySlotAccounted

\* Skipping n slots stays on the grid.
LEMMA SkipOnGrid ==
  ASSUME SchedCounts, next = slot * Period + Phase, NEW n \in Nat, Skip(n)
  PROVE  /\ next' = slot' * Period + Phase /\ next' \in Nat /\ slot' \in Nat
         /\ slot' = slot + n
<1> USE PeriodAssumption
<1>1. slot \in Nat /\ next \in Nat /\ Period \in Nat
  BY DEF SchedCounts
<1>2. (slot + n) * Period = slot * Period + n * Period
  BY <1>1, Distributes
<1>3. n * Period \in Nat /\ slot * Period \in Nat
  BY <1>1, ProductNat
<1> QED
  BY <1>1, <1>2, <1>3, SMT DEF Skip

LEMMA LateSlotsNat == ASSUME SchedCounts PROVE LateSlots \in Nat
<1> USE PeriodAssumption
<1>1. CASE now > next
  <2>1. now - next + Period - 1 \in Nat
    BY <1>1, SMT DEF SchedCounts
  <2> QED
    BY <2>1, <1>1, Division DEF LateSlots
<1> QED
  BY <1>1, SMT DEF LateSlots

LEMMA OversleptSlotsNat == ASSUME SchedCounts PROVE OversleptSlots \in Nat
<1> USE PeriodAssumption
<1>1. CASE now >= next + Period
  <2>1. now - next \in Nat
    BY <1>1, SMT DEF SchedCounts
  <2> QED
    BY <2>1, <1>1, Division DEF OversleptSlots
<1> QED
  BY <1>1, SMT DEF OversleptSlots

LEMMA SchedStepInv == SchedInv /\ [SchedNext]_schedVars => SchedInv'
<1> SUFFICES ASSUME SchedInv, [SchedNext]_schedVars PROVE SchedInv'
  OBVIOUS
<1> USE PeriodAssumption
<1>1. SchedCounts /\ next = slot * Period + Phase
  BY DEF SchedInv, EverySlotAccounted
<1>2. CASE SchedTick
  BY <1>2, SMT DEF SchedTick, SchedInv, SchedCounts, EverySlotAccounted
<1>3. CASE SleepUntilNext
  <2> DEFINE n == LateSlots
  <2>1. n \in Nat
    BY <1>1, LateSlotsNat
  <2>2. Skip(n)
    BY <1>3 DEF SleepUntilNext
  <2>3. /\ next' = slot' * Period + Phase /\ next' \in Nat /\ slot' \in Nat
        /\ slot' = slot + n
    BY <1>1, <2>1, <2>2, SkipOnGrid
  <2>4. pending' = n /\ schedPc' = "asleep" /\ now' = now /\ total' = total /\ runs' = runs
    BY <1>3 DEF SleepUntilNext
  <2>5. pending = 0
    BY <1>3 DEF SleepUntilNext, SchedInv
  <2> HIDE DEF n
  <2> QED
    BY <2>1, <2>3, <2>4, <2>5, SMT DEF SchedInv, SchedCounts, EverySlotAccounted
<1>4. CASE WakeUp
  <2> DEFINE n == OversleptSlots
  <2>1. n \in Nat /\ n + 1 \in Nat
    BY <1>1, OversleptSlotsNat
  <2>2. Skip(n + 1)
    BY <1>4 DEF WakeUp
  <2>3. /\ next' = slot' * Period + Phase /\ next' \in Nat /\ slot' \in Nat
        /\ slot' = slot + (n + 1)
    BY <1>1, <2>1, <2>2, SkipOnGrid
  <2>4. /\ total' = AddMissedReleases(pending + n) /\ pending' = 0 /\ runs' = runs + 1
        /\ schedPc' = "running" /\ now' = now
    BY <1>4 DEF WakeUp
  <2> HIDE DEF n
  <2> QED
    BY <2>1, <2>3, <2>4, SMT DEF SchedInv, SchedCounts, EverySlotAccounted, AddMissedReleases
<1>5. CASE UNCHANGED schedVars
  BY <1>5 DEF schedVars, SchedInv, SchedCounts, EverySlotAccounted
<1> QED
  BY <1>2, <1>3, <1>4, <1>5 DEF SchedNext

LEMMA SchedInvariance == SchedSpec => []SchedInv
BY SchedInitInv, SchedStepInv, PTL DEF SchedSpec

(***************************************************************************)
(* The schedule keeps its types.                                           *)
(***************************************************************************)
THEOREM ScheduleTypeCorrect == SchedSpec => []SchedTypeOK
<1>1. SchedInv => SchedTypeOK
  BY DEF SchedInv, SchedCounts, SchedTypeOK
<1> QED
  BY <1>1, SchedInvariance, PTL

(***************************************************************************)
(* Every release is on the grid of the phase, and each slot is run for or  *)
(* counted as missed, for every period and every lateness.                 *)
(***************************************************************************)
THEOREM AccountingCorrect == SchedSpec => []EverySlotAccounted
<1>1. SchedInv => EverySlotAccounted
  BY DEF SchedInv
<1> QED
  BY <1>1, SchedInvariance, PTL

(***************************************************************************)
(* A run is never released for a slot that is over, nor two in one slot.   *)
(***************************************************************************)
THEOREM ReplayCorrect == SchedSpec => NoReplay
<1>1. SchedInv /\ [SchedNext]_schedVars
        => [WakeUp => now < next' /\ next' - Period <= now]_schedVars
  <2> SUFFICES ASSUME SchedInv, WakeUp
               PROVE  now < next' /\ next' - Period <= now
    OBVIOUS
  <2> USE PeriodAssumption
  <2> DEFINE n == OversleptSlots
  <2>1. SchedCounts
    BY DEF SchedInv
  <2>2. n \in Nat
    BY <2>1, OversleptSlotsNat
  <2>3. next' = next + (n + 1) * Period /\ now >= next
    BY DEF WakeUp, Skip
  <2>4. (n + 1) * Period = n * Period + Period /\ n * Period \in Nat
    BY <2>2, Distributes, ProductNat, SMT
  <2>5. n * Period <= now - next /\ now - next < n * Period + Period
    <3>1. CASE now >= next + Period
      <4>1. now - next \in Nat
        BY <2>1, <2>3, SMT DEF SchedCounts
      <4>2. n = (now - next) \div Period
        BY <3>1 DEF OversleptSlots
      <4>3. /\ (now - next) % Period \in 0 .. Period - 1
            /\ now - next = n * Period + ((now - next) % Period)
        BY <4>1, <4>2, Division
      <4> HIDE DEF n
      <4> QED
        BY <4>1, <4>3, <2>4, SMT
    <3>2. CASE ~(now >= next + Period)
      <4>1. n = 0
        BY <3>2 DEF OversleptSlots
      <4> HIDE DEF n
      <4> QED
        BY <4>1, <3>2, <2>1, <2>3, SMT DEF SchedCounts
    <3> QED
      BY <3>1, <3>2
  <2> HIDE DEF n
  <2> QED
    BY <2>1, <2>3, <2>4, <2>5, SMT DEF SchedCounts
<1> QED
  BY <1>1, SchedInvariance, PTL DEF SchedSpec, NoReplay
=============================================================================
