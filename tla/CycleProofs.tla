----------------------------- MODULE CycleProofs -----------------------------
(***************************************************************************)
(* Theorems about the two ends of a chassis cycle: ChassisSensing, what it *)
(* reads, and ActionPhases, the actions it runs, for every routing, time   *)
(* and set of limits.                                                      *)
(***************************************************************************)
EXTENDS ActionPhases, ChassisSensing, SequenceTheorems, TLAPS

-----------------------------------------------------------------------------
(* Sensing: the steps of a Read.                                             *)

LastStep == Len(ReadOrder) + 3

\* The mailboxes come first, then the sample of the IMU, the time base and the
\* verdict, which is the last step.
LEMMA ReadStepsOrder ==
  /\ LastStep \in Nat /\ LastStep >= 3 /\ Len(ReadSteps) = LastStep
  /\ \A i \in 1 .. LastStep :
       /\ i <= Len(ReadOrder) => ReadSteps[i] \in Motors
       /\ ReadSteps[i] \in Motors => i <= Len(ReadOrder)
       /\ ReadSteps[i] = "imu" <=> i = LastStep - 2
       /\ ReadSteps[i] = "time" <=> i = LastStep - 1
       /\ ReadSteps[i] = "judge" <=> i = LastStep
<1> DEFINE n == Len(ReadOrder)
           tail == <<"imu", "time", "judge">>
           All == Motors \union {"imu", "time", "judge"}
<1>1. ReadOrder \in Seq(Motors) /\ n \in Nat /\ Motors \intersect {"imu", "time", "judge"} = {}
  BY SensingAssumption, LenProperties
<1>2. Len(tail) = 3 /\ tail[1] = "imu" /\ tail[2] = "time" /\ tail[3] = "judge"
  OBVIOUS
<1>3. ReadOrder \in Seq(All) /\ tail \in Seq(All)
  <2>1. "imu" \in All /\ "time" \in All /\ "judge" \in All
    OBVIOUS
  <2>2. ReadOrder \in Seq(All)
    <3>1. \A i \in 1 .. n : ReadOrder[i] \in All
      BY <1>1, ElementOfSeq
    <3> HIDE DEF All
    <3> QED
      BY <1>1, <3>1, IsASeq, LenProperties
  <2> HIDE DEF All
  <2>3. tail \in Seq(All)
    BY <2>1
  <2> QED
    BY <2>2, <2>3
<1> HIDE DEF tail, All
<1>4. /\ Len(ReadOrder \o tail) = n + 3
      /\ \A i \in 1 .. n + 3 :
           (ReadOrder \o tail)[i] = IF i <= n THEN ReadOrder[i] ELSE tail[i - n]
  <2>1. /\ Len(ReadOrder \o tail) = Len(ReadOrder) + Len(tail)
        /\ \A i \in 1 .. Len(ReadOrder) + Len(tail) :
             (ReadOrder \o tail)[i] = IF i <= Len(ReadOrder) THEN ReadOrder[i]
                                      ELSE tail[i - Len(ReadOrder)]
    BY <1>3, ConcatProperties, Zenon
  <2> QED
    BY <1>2, <2>1, Zenon
<1>5. ReadSteps = ReadOrder \o tail
  BY DEF ReadSteps, tail
<1>6. ASSUME NEW i \in 1 .. n + 3
      PROVE  /\ i <= n => ReadSteps[i] \in Motors
             /\ ReadSteps[i] \in Motors => i <= n
             /\ ReadSteps[i] = "imu" <=> i = n + 1
             /\ ReadSteps[i] = "time" <=> i = n + 2
             /\ ReadSteps[i] = "judge" <=> i = n + 3
  <2>1. CASE i <= n
    <3>1. ReadSteps[i] = ReadOrder[i] /\ ReadOrder[i] \in Motors
      BY <1>1, <1>4, <1>5, <2>1, ElementOfSeq
    <3>2. ReadSteps[i] \notin {"imu", "time", "judge"}
      BY <1>1, <3>1
    <3> QED
      BY <1>1, <2>1, <3>1, <3>2
  <2>2. CASE i > n
    <3>1. ReadSteps[i] = tail[i - n] /\ (i - n = 1 \/ i - n = 2 \/ i - n = 3)
      BY <1>1, <1>4, <1>5, <2>2
    <3>2. CASE i - n = 1
      <4>1. ReadSteps[i] = "imu" /\ i = n + 1
        BY <1>1, <1>2, <3>1, <3>2
      <4> QED
        BY <1>1, <4>1
    <3>3. CASE i - n = 2
      <4>1. ReadSteps[i] = "time" /\ i = n + 2
        BY <1>1, <1>2, <3>1, <3>3
      <4> QED
        BY <1>1, <4>1
    <3>4. CASE i - n = 3
      <4>1. ReadSteps[i] = "judge" /\ i = n + 3
        BY <1>1, <1>2, <3>1, <3>4
      <4> QED
        BY <1>1, <4>1
    <3> QED
      BY <3>1, <3>2, <3>3, <3>4
  <2> QED
    BY <1>1, <2>1, <2>2
<1> QED
  BY <1>1, <1>4, <1>5, <1>6 DEF LastStep

-----------------------------------------------------------------------------
(* Sensing: ages.                                                            *)

Ages == 0 .. OldestAge
ImuSamples == [source : BOOLEAN, valid : BOOLEAN, age : Ages]
Clocks == [elapsed : 0 .. ReadTime, base : 0 .. ReadTime]

LEMMA OldestAgeType ==
  /\ OldestAge \in Nat /\ ReadTime \in Nat /\ OldestAge > ReadTime
  /\ MotorTimeout \in Nat /\ MotorTimeout > 0 /\ ImuTimeout \in Nat
BY SensingAssumption DEF OldestAge

LEMMA OlderType ==
  ASSUME NEW age \in Ages
  PROVE  Older(age) \in Ages
BY OldestAgeType DEF Older, Ages

\* What gets older keeps its order.
LEMMA OlderMonotone ==
  ASSUME NEW a \in Ages, NEW c \in Ages, a <= c
  PROVE  Older(a) <= Older(c)
BY OldestAgeType DEF Older, Ages

LEMMA OlderSampleType ==
  ASSUME NEW s \in Samples
  PROVE  OlderSample(s) \in Samples /\ OlderSample(s).valid = s.valid
         /\ OlderSample(s).age = Older(s.age)
<1>1. s.age \in Ages
  BY DEF Samples, Ages
<1>2. Older(s.age) \in Ages
  BY <1>1, OlderType
<1> QED
  BY <1>2 DEF OlderSample, Samples, Ages

LEMMA OlderImuType ==
  ASSUME NEW s \in ImuSamples
  PROVE  OlderSample(s) \in ImuSamples /\ OlderSample(s).age = Older(s.age)
<1>1. s.age \in Ages
  BY DEF ImuSamples
<1>2. Older(s.age) \in Ages
  BY <1>1, OlderType
<1> QED
  BY <1>2 DEF OlderSample, ImuSamples

\* What is known of a motor is no newer than its last report, and nothing that
\* was copied is newer than the time base.
SensingInv ==
  /\ feedback \in [Motors -> Samples] /\ copies \in [Motors -> Samples]
  /\ imuSample \in ImuSamples /\ imuCopy \in ImuSamples
  /\ readPc \in 1 .. LastStep
  /\ clock \in Clocks /\ clock.base <= clock.elapsed
  /\ verdict \in [motors : BOOLEAN, imu : BOOLEAN]
  /\ lastReport \in [Motors -> Ages]
  /\ \A m \in Motors : /\ feedback[m].valid => lastReport[m] <= feedback[m].age
                       /\ copies[m].valid => lastReport[m] <= copies[m].age
                       /\ copies[m].age >= clock.base
  /\ imuCopy.age >= clock.base
  /\ clock.base > 0 => readPc = LastStep

LEMMA NothingYet ==
  NoFrameYet \in Samples /\ NoSampleYet \in ImuSamples
  /\ [elapsed |-> 0, base |-> 0] \in Clocks
BY OldestAgeType DEF NoFrameYet, NoSampleYet, Samples, ImuSamples, Ages, Clocks

LEMMA SensingInitInv == SensingInit => SensingInv
<1> SUFFICES ASSUME SensingInit PROVE SensingInv
  OBVIOUS
<1>1. /\ feedback = [m \in Motors |-> NoFrameYet] /\ copies = [m \in Motors |-> NoFrameYet]
      /\ lastReport = [m \in Motors |-> OldestAge]
      /\ imuSample = NoSampleYet /\ imuCopy = NoSampleYet
      /\ readPc = 1 /\ clock = [elapsed |-> 0, base |-> 0]
      /\ verdict = [motors |-> FALSE, imu |-> FALSE]
  BY DEF SensingInit
<1>2. feedback \in [Motors -> Samples] /\ copies \in [Motors -> Samples]
  BY <1>1, NothingYet
<1>3. lastReport \in [Motors -> Ages]
  BY <1>1, OldestAgeType DEF Ages
<1>4. readPc \in 1 .. LastStep
  BY <1>1, ReadStepsOrder
<1>5. clock.base = 0 /\ clock.elapsed = 0
  BY <1>1
<1>6. NoFrameYet.age >= 0 /\ NoFrameYet.valid = FALSE /\ NoSampleYet.age >= 0
  BY OldestAgeType DEF NoFrameYet, NoSampleYet
<1>7. \A m \in Motors : feedback[m] = NoFrameYet /\ copies[m] = NoFrameYet
  BY <1>1
<1> QED
  BY <1>1, <1>2, <1>3, <1>4, <1>5, <1>6, <1>7, NothingYet DEF SensingInv

\* A report is routed to the mailbox of the motor that sent it.
LEMMA RouteToOne ==
  ASSUME NEW m \in Motors
  PROVE  Route(MotorBus[m], MotorId[m]) = {m}
BY RoutingAssumption DEF Route

LEMMA CanRxInv == ASSUME SensingInv, NEW m \in Motors, CanRxCallback(m) PROVE SensingInv'
<1> DEFINE fresh == [valid |-> TRUE, age |-> 0]
<1>1. fresh \in Samples /\ 0 \in Ages
  BY OldestAgeType DEF Samples, Ages
<1>2. feedback' = [n \in Motors |-> IF n = m THEN fresh ELSE feedback[n]]
  BY RouteToOne DEF CanRxCallback
<1>3. lastReport' = [lastReport EXCEPT ![m] = 0]
      /\ UNCHANGED <<imuSample, copies, imuCopy, readPc, clock, verdict>>
  BY DEF CanRxCallback
<1>4. /\ feedback \in [Motors -> Samples] /\ lastReport \in [Motors -> Ages]
      /\ copies \in [Motors -> Samples]
      /\ \A n \in Motors : /\ feedback[n].valid => lastReport[n] <= feedback[n].age
                           /\ copies[n].valid => lastReport[n] <= copies[n].age
                           /\ copies[n].age >= clock.base
  BY DEF SensingInv
<1>5. feedback' \in [Motors -> Samples] /\ lastReport' \in [Motors -> Ages]
  BY <1>1, <1>2, <1>3, <1>4
<1>6. ASSUME NEW n \in Motors
      PROVE  /\ feedback'[n].valid => lastReport'[n] <= feedback'[n].age
             /\ copies'[n].valid => lastReport'[n] <= copies'[n].age
             /\ copies'[n].age >= clock'.base
  <2>1. CASE n = m
    <3>1. feedback'[n] = fresh /\ lastReport'[n] = 0 /\ copies'[n] = copies[n] /\ clock' = clock
      BY <1>2, <1>3, <1>4, <2>1
    <3>2. copies[n].age \in Nat
      BY <1>4, OldestAgeType DEF Samples
    <3> QED
      BY <1>4, <3>1, <3>2
  <2>2. CASE n # m
    <3>1. feedback'[n] = feedback[n] /\ lastReport'[n] = lastReport[n]
          /\ copies'[n] = copies[n] /\ clock' = clock
      BY <1>2, <1>3, <1>4, <2>2
    <3> QED
      BY <1>4, <3>1
  <2> QED
    BY <2>1, <2>2
<1> HIDE DEF fresh
<1> QED
  BY <1>3, <1>5, <1>6 DEF SensingInv

\* The steps of a Read before the verdict.
LEMMA ReadInv ==
  ASSUME SensingInv, ReadMailbox \/ ReadImu \/ TakeTimeBase
  PROVE  SensingInv'
<1>1. readPc \in 1 .. LastStep /\ LastStep \in Nat
  BY ReadStepsOrder DEF SensingInv
<1>2. Step = ReadSteps[readPc]
  BY DEF Step
<1>3. readPc < LastStep
  <2>1. CASE ReadMailbox
    BY <1>1, <1>2, <2>1, ReadStepsOrder DEF ReadMailbox, LastStep
  <2>2. CASE ReadImu
    <3>1. ReadSteps[readPc] = "imu"
      BY <1>2, <2>2 DEF ReadImu
    <3>2. readPc = LastStep - 2
      BY <1>1, <3>1, ReadStepsOrder
    <3> QED
      BY <1>1, <3>2
  <2>3. CASE TakeTimeBase
    <3>1. ReadSteps[readPc] = "time"
      BY <1>2, <2>3 DEF TakeTimeBase
    <3>2. readPc = LastStep - 1
      BY <1>1, <3>1, ReadStepsOrder
    <3> QED
      BY <1>1, <3>2
  <2> QED
    BY <2>1, <2>2, <2>3
<1>4. readPc' = readPc + 1 /\ readPc' \in 1 .. LastStep
  BY <1>1, <1>3 DEF ReadMailbox, ReadImu, TakeTimeBase, NextStep
<1>5. clock.base = 0 /\ clock.elapsed \in 0 .. ReadTime
  BY <1>1, <1>3 DEF SensingInv, Clocks
<1>6. CASE ReadMailbox
  <2>1. Step \in Motors /\ copies' = [copies EXCEPT ![Step] = feedback[Step]]
        /\ UNCHANGED <<feedback, imuSample, imuCopy, clock, verdict, lastReport>>
    BY <1>6 DEF ReadMailbox
  <2>2. /\ feedback \in [Motors -> Samples] /\ copies \in [Motors -> Samples]
        /\ \A n \in Motors : /\ feedback[n].valid => lastReport[n] <= feedback[n].age
                             /\ copies[n].valid => lastReport[n] <= copies[n].age
                             /\ copies[n].age >= clock.base
    BY DEF SensingInv
  <2>3. copies' \in [Motors -> Samples]
    BY <2>1, <2>2
  <2>4. \A n \in Motors : copies'[n] = copies[n] \/ copies'[n] = feedback[n]
    BY <2>1, <2>2
  <2>5. \A n \in Motors : feedback[n].age >= 0
    BY <2>2, OldestAgeType DEF Samples
  <2>6. \A n \in Motors : /\ feedback'[n].valid => lastReport'[n] <= feedback'[n].age
                          /\ copies'[n].valid => lastReport'[n] <= copies'[n].age
                          /\ copies'[n].age >= clock'.base
    BY <1>5, <2>1, <2>2, <2>4, <2>5
  <2> QED
    BY <1>4, <1>5, <2>1, <2>3, <2>6 DEF SensingInv
<1>7. CASE ReadImu
  <2>1. imuCopy' = imuSample
        /\ UNCHANGED <<feedback, imuSample, copies, clock, verdict, lastReport>>
    BY <1>7 DEF ReadImu
  <2>2. imuSample \in ImuSamples /\ imuSample.age >= 0
    BY OldestAgeType DEF SensingInv, ImuSamples, Ages
  <2> QED
    BY <1>4, <1>5, <2>1, <2>2 DEF SensingInv
<1>8. CASE TakeTimeBase
  <2>1. clock' = [clock EXCEPT !.base = 0]
        /\ UNCHANGED <<feedback, imuSample, copies, imuCopy, verdict, lastReport>>
    BY <1>8 DEF TakeTimeBase
  <2>2. clock' = clock
    BY <1>5, <2>1 DEF SensingInv, Clocks
  <2> QED
    BY <1>4, <1>5, <2>1, <2>2 DEF SensingInv
<1> QED
  BY <1>6, <1>7, <1>8

LEMMA JudgeInv == ASSUME SensingInv, Judge PROVE SensingInv'
<1>1. /\ copies' = [m \in Motors |-> NoFrameYet] /\ imuCopy' = NoSampleYet
      /\ readPc' = 1 /\ clock' = [elapsed |-> 0, base |-> 0]
      /\ UNCHANGED <<feedback, imuSample, lastReport>>
  BY DEF Judge
<1>2. verdict' \in [motors : BOOLEAN, imu : BOOLEAN]
  <2>1. (\A m \in Motors : MotorFresh(m)) \in BOOLEAN /\ ImuFresh \in BOOLEAN
    BY DEF MotorFresh, ImuFresh
  <2> QED
    BY <2>1 DEF Judge
<1>3. copies' \in [Motors -> Samples] /\ \A m \in Motors : copies'[m] = NoFrameYet
  BY <1>1, NothingYet
<1>4. clock'.base = 0 /\ clock'.elapsed = 0
  BY <1>1
<1>5. NoFrameYet.age >= 0 /\ NoFrameYet.valid = FALSE /\ NoSampleYet.age >= 0
  BY OldestAgeType DEF NoFrameYet, NoSampleYet
<1>6. 1 \in 1 .. LastStep
  BY ReadStepsOrder
<1> QED
  BY <1>1, <1>2, <1>3, <1>4, <1>5, <1>6, NothingYet DEF SensingInv

\* While a Read goes on, everything ages, the time base once it was taken.
LEMMA SensingTickInv == ASSUME SensingInv, SensingTick PROVE SensingInv'
<1>1. /\ feedback' = [m \in Motors |-> OlderSample(feedback[m])]
      /\ copies' = [m \in Motors |-> OlderSample(copies[m])]
      /\ imuSample' = OlderSample(imuSample) /\ imuCopy' = OlderSample(imuCopy)
      /\ lastReport' = [m \in Motors |-> Older(lastReport[m])]
      /\ UNCHANGED <<readPc, verdict>>
  BY DEF SensingTick
<1>2. /\ feedback \in [Motors -> Samples] /\ copies \in [Motors -> Samples]
      /\ imuSample \in ImuSamples /\ imuCopy \in ImuSamples
      /\ readPc \in 1 .. LastStep /\ clock \in Clocks /\ clock.base <= clock.elapsed
      /\ lastReport \in [Motors -> Ages] /\ imuCopy.age >= clock.base
      /\ clock.base > 0 => readPc = LastStep
  BY DEF SensingInv
<1>3. feedback' \in [Motors -> Samples] /\ copies' \in [Motors -> Samples]
      /\ imuSample' \in ImuSamples /\ imuCopy' \in ImuSamples
      /\ lastReport' \in [Motors -> Ages]
  BY <1>1, <1>2, OlderSampleType, OlderImuType, OlderType
<1>4. /\ clock' \in Clocks /\ clock'.base <= clock'.elapsed
      /\ clock'.base > 0 => readPc' = LastStep
      /\ clock'.base <= clock.base + 1 /\ clock'.base \in 0 .. ReadTime
  <2>1. CASE readPc = 1
    <3>1. clock' = clock
      BY <2>1 DEF SensingTick
    <3> QED
      BY <1>1, <1>2, <3>1, OldestAgeType DEF Clocks
  <2>2. CASE readPc # 1
    <3>1. clock.elapsed < ReadTime
          /\ \/ clock' = [elapsed |-> clock.elapsed + 1, base |-> clock.base]
             \/ /\ clock' = [elapsed |-> clock.elapsed + 1, base |-> clock.base + 1]
                /\ \E i \in 1 .. readPc - 1 : ReadSteps[i] = "time"
      BY <2>2 DEF SensingTick
    <3>2. clock.elapsed \in 0 .. ReadTime /\ clock.base \in 0 .. ReadTime
      BY <1>2 DEF Clocks
    <3>3. (\E i \in 1 .. readPc - 1 : ReadSteps[i] = "time") => readPc = LastStep
      BY <1>2, ReadStepsOrder
    <3> QED
      BY <1>1, <1>2, <3>1, <3>2, <3>3, OldestAgeType DEF Clocks
  <2> QED
    BY <2>1, <2>2
<1>5. ASSUME NEW age \in Ages, age >= clock.base
      PROVE  Older(age) >= clock'.base
  BY <1>2, <1>4, <1>5, OldestAgeType DEF Older, Ages, Clocks
<1>6. ASSUME NEW m \in Motors
      PROVE  /\ feedback'[m].valid => lastReport'[m] <= feedback'[m].age
             /\ copies'[m].valid => lastReport'[m] <= copies'[m].age
             /\ copies'[m].age >= clock'.base
  <2>1. /\ feedback[m] \in Samples /\ copies[m] \in Samples /\ lastReport[m] \in Ages
        /\ feedback[m].age \in Ages /\ copies[m].age \in Ages
    BY <1>2 DEF Samples, Ages
  <2>2. /\ feedback[m].valid => lastReport[m] <= feedback[m].age
        /\ copies[m].valid => lastReport[m] <= copies[m].age
        /\ copies[m].age >= clock.base
    BY DEF SensingInv
  <2>3. /\ feedback'[m].valid = feedback[m].valid /\ feedback'[m].age = Older(feedback[m].age)
        /\ copies'[m].valid = copies[m].valid /\ copies'[m].age = Older(copies[m].age)
        /\ lastReport'[m] = Older(lastReport[m])
    BY <1>1, <2>1, OlderSampleType
  <2> QED
    BY <1>5, <2>1, <2>2, <2>3, OlderMonotone
<1>7. imuCopy'.age >= clock'.base
  <2>1. imuCopy.age \in Ages /\ imuCopy'.age = Older(imuCopy.age)
    BY <1>1, <1>2, OlderImuType DEF ImuSamples
  <2> QED
    BY <1>2, <1>5, <2>1
<1> QED
  BY <1>1, <1>2, <1>3, <1>4, <1>6, <1>7 DEF SensingInv

LEMMA SensingStepInv == SensingInv /\ [SensingNext]_sensingVars => SensingInv'
<1> SUFFICES ASSUME SensingInv, [SensingNext]_sensingVars PROVE SensingInv'
  OBVIOUS
<1>1. CASE \E m \in Motors : CanRxCallback(m)
  BY <1>1, CanRxInv
<1>2. CASE ImuPublishes
  <2>1. PICK valid \in BOOLEAN : imuSample' = [source |-> TRUE, valid |-> valid, age |-> 0]
    BY <1>2 DEF ImuPublishes
  <2>2. imuSample' \in ImuSamples
    BY <2>1, OldestAgeType DEF ImuSamples, Ages
  <2> QED
    BY <1>2, <2>2 DEF ImuPublishes, SensingInv
<1>3. CASE ReadMailbox \/ ReadImu \/ TakeTimeBase
  BY <1>3, ReadInv
<1>4. CASE Judge
  BY <1>4, JudgeInv
<1>5. CASE SensingTick
  BY <1>5, SensingTickInv
<1>6. CASE UNCHANGED sensingVars
  BY <1>6 DEF sensingVars, SensingInv
<1> QED
  BY <1>1, <1>2, <1>3, <1>4, <1>5, <1>6 DEF SensingNext

(***************************************************************************)
(* The mailboxes, the copies and the clock of a Read keep their types.     *)
(***************************************************************************)
THEOREM SensingTypeCorrect == SensingSpec => []SensingTypeOK
<1>1. SensingInv => SensingTypeOK
  BY ReadStepsOrder DEF SensingInv, SensingTypeOK, ImuSamples, Ages, Clocks
<1> QED
  BY <1>1, SensingInitInv, SensingStepInv, PTL DEF SensingSpec

(***************************************************************************)
(* A cycle is judged by the motors themselves: no verdict is fresh without *)
(* a report of each within the timeout, and none that was copied in time   *)
(* is refused, for every timeout, order of reading and time a Read takes.  *)
(***************************************************************************)
THEOREM FeedbackCorrect == SensingSpec => FeedbackJudged
<1> DEFINE Judged ==
      Judge =>
        /\ verdict'.motors => \A m \in Motors : lastReport[m] < MotorTimeout + clock.base
        /\ (\A m \in Motors : copies[m].valid /\ copies[m].age < MotorTimeout) => verdict'.motors
        /\ (imuCopy.source /\ imuCopy.valid /\ imuCopy.age <= ImuTimeout) => verdict'.imu
<1>1. SensingInv => Judged
  <2> SUFFICES ASSUME SensingInv, Judge PROVE Judged
    OBVIOUS
  <2>1. verdict'.motors = (\A m \in Motors : MotorFresh(m)) /\ verdict'.imu = ImuFresh
    BY DEF Judge
  <2>2. clock.base \in Nat /\ imuCopy.age \in Nat /\ imuCopy.age >= clock.base
    BY OldestAgeType DEF SensingInv, Clocks, ImuSamples, Ages
  <2>3. \A m \in Motors : /\ copies[m].valid => lastReport[m] <= copies[m].age
                          /\ copies[m].age >= clock.base
                          /\ copies[m].age \in Nat /\ lastReport[m] \in Nat
    BY OldestAgeType DEF SensingInv, Samples, Ages
  <2>4. ASSUME NEW m \in Motors, MotorFresh(m)
        PROVE  lastReport[m] < MotorTimeout + clock.base
    BY <2>2, <2>3, <2>4, OldestAgeType DEF MotorFresh, Known
  <2>5. ASSUME NEW m \in Motors, copies[m].valid, copies[m].age < MotorTimeout
        PROVE  MotorFresh(m)
    BY <2>2, <2>3, <2>5, OldestAgeType DEF MotorFresh, Known
  <2>6. ASSUME imuCopy.source, imuCopy.valid, imuCopy.age <= ImuTimeout
        PROVE  ImuFresh
    BY <2>2, <2>6, OldestAgeType DEF ImuFresh, Known
  <2> HIDE DEF Judge
  <2> QED
    BY <2>1, <2>4, <2>5, <2>6
<1>2. SensingInv /\ [SensingNext]_sensingVars => [Judged]_sensingVars
  BY <1>1
<1> QED
  BY <1>2, SensingInitInv, SensingStepInv, PTL DEF SensingSpec, FeedbackJudged

-----------------------------------------------------------------------------
(* Action phases: the controllers.                                           *)

JumpPhases == {"Init", "PreCompress", "Thrust", "AirRetract", "Air", "Return", "Failed"}
JumpRecords == [phase : JumpPhases, elapsed : 0 .. Limit["Jump"], total : 0 .. Limit["Jump"],
                hold : 0 .. Limit["RetractHold"]]
ClimbRecords == [phase : {"Init", "Motion1", "Motion2", "Return", "Failed"}, elapsed : Nat,
                 hold : Nat]
RecoveryRecords == [phase : {"Init", "TurnOver", "DrawBack", "Return", "Failed"}, elapsed : Nat,
                    hold : Nat, upright : Nat, stuck : Nat, reversals : Nat]
Landings == [run : [Sides -> 0 .. Limit["Touchdown"]], held : SUBSET Sides]
Modes == Actions4 \union {"Stopped", "Waiting", "Balance"}

\* A controller that is running is within the time of its phase.
FlightOK(f) ==
  /\ f \in FlightRecords
  /\ f.phase = "Init" => f = FlightReset
  /\ f.phase = "Air" => f.elapsed < Limit["Flight"]
  /\ f.phase = "Return" => f.down = Sides
  /\ \A s \in Sides \ f.down : f.hold[s] < Limit["Touchdown"]

JumpOK(j) ==
  /\ j \in JumpRecords
  /\ j.phase \notin {"Return", "Failed"} => j.total < Limit["Jump"]
  /\ j.elapsed <= j.total
  /\ j.phase = "AirRetract" => j.hold < Limit["RetractHold"]

ClimbOK(c) ==
  /\ c \in ClimbRecords
  /\ c.phase = "Motion1" => c.elapsed < Limit["Motion1"]
  /\ c.phase = "Motion2" => c.elapsed < Limit["Motion2"]

RecoveryOK(r) ==
  /\ r \in RecoveryRecords
  /\ r.phase = "TurnOver" => r.elapsed < Limit["Turnover"] /\ r.upright < Limit["Upright"]
  /\ r.phase = "DrawBack" => r.elapsed < Limit["Drawback"]
  /\ r.reversals > Limit["Reversals"] => r.phase = "Failed"

\* A flight controller and the history of its flight agree on each side.
Tracks(f, history) ==
  /\ f.down = history.held
  /\ \A s \in Sides \ f.down : history.run[s] = f.hold[s]

-----------------------------------------------------------------------------
(* Action phases: the invariant.                                             *)

\* An action that runs has reported what its controller has come to.
Told(a, phase) ==
  /\ phase = "Return" => a \in mark
  /\ phase = "Failed" => failed

InFlight ==
  /\ spent = 0 => flight = FlightReset
  /\ spent > 0 => flight.phase # "Init" /\ flight.elapsed = spent
  /\ Told("Flight", flight.phase)
  /\ "Flight" \in mark => flight.phase = "Return"
  /\ Tracks(flight, landing)

InJump ==
  /\ spent = 0 => jump = JumpReset
  /\ spent > 0 => jump.phase # "Init"
  /\ jump.total = spent
  /\ Told("Jump", jump.phase)
  /\ "Jump" \in mark => jump.phase = "Return"
  /\ jump.phase = "Air" => air.phase \in {"Init", "Air"} /\ Tracks(air, landing)
  /\ jump.phase = "Return" => landing.held = Sides

InClimb ==
  /\ spent = 0 => climb = ClimbReset
  /\ spent > 0 => climb.phase # "Init"
  /\ Told("ClimbStairs", climb.phase)
  /\ climb.phase = "Motion1" => spent = 1 + climb.elapsed
  /\ climb.phase = "Motion2" => spent <= 1 + Limit["Motion1"] + climb.elapsed
  /\ spent <= LongestAction["ClimbStairs"]

\* A mark of an earlier recovery may still be there.
InRecovery ==
  /\ spent = 0 => recovery = RecoveryReset
  /\ spent > 0 => recovery.phase # "Init"
  /\ Told("Recovery", recovery.phase)
  /\ recovery.phase = "TurnOver" => spent = 1 + recovery.elapsed
  /\ recovery.phase = "DrawBack" => spent <= 1 + Limit["Turnover"] + recovery.elapsed
  /\ spent <= LongestAction["Recovery"]

Controllers ==
  FlightOK(flight) /\ FlightOK(air) /\ JumpOK(jump) /\ ClimbOK(climb) /\ RecoveryOK(recovery)

PhasesInv ==
  /\ asked \in Asked /\ mode \in Modes
  /\ liftoff \in Nat /\ aloft \in 0 .. Limit["Liftoff"] /\ liftoff <= aloft
  /\ mark \subseteq Actions4 /\ failed \in BOOLEAN /\ spent \in Nat
  /\ landing \in Landings
  /\ failed => mode \in Actions4
  /\ Controllers
  /\ mode = "Flight" => InFlight
  /\ mode = "Jump" => InJump
  /\ mode = "ClimbStairs" => InClimb
  /\ mode = "Recovery" => InRecovery

-----------------------------------------------------------------------------
(* Action phases: one update of a controller.                                *)

LEMMA LimitFacts ==
  /\ Limit["Liftoff"] \in Nat /\ Limit["Liftoff"] > 0
  /\ Limit["Touchdown"] \in Nat /\ Limit["Touchdown"] > 0
  /\ Limit["Flight"] \in Nat /\ Limit["Flight"] > 0
  /\ Limit["RetractHold"] \in Nat /\ Limit["RetractHold"] > 0
  /\ Limit["Jump"] \in Nat /\ Limit["Jump"] > 0
  /\ Limit["ClimbHold"] \in Nat /\ Limit["ClimbHold"] > 0
  /\ Limit["Motion1"] \in Nat /\ Limit["Motion1"] > 0
  /\ Limit["Motion2"] \in Nat /\ Limit["Motion2"] > 0
  /\ Limit["Upright"] \in Nat /\ Limit["Upright"] > 0
  /\ Limit["Stuck"] \in Nat /\ Limit["Stuck"] > 0
  /\ Limit["Reversals"] \in Nat
  /\ Limit["Turnover"] \in Nat /\ Limit["Turnover"] > 0
  /\ Limit["RecoveryHold"] \in Nat /\ Limit["RecoveryHold"] > 0
  /\ Limit["Drawback"] \in Nat /\ Limit["Drawback"] > 0
BY LimitAssumption DEF LimitNames

FlightHolds(f, contact) == [s \in Sides |-> Held(s \in contact \ f.down, f.hold[s])]
FlightDown(f, contact) ==
  f.down \union {s \in Sides : FlightHolds(f, contact)[s] >= Limit["Touchdown"]}
FlightNext(f, contact) ==
  [phase |-> IF FlightDown(f, contact) = Sides THEN "Return"
             ELSE IF f.elapsed + 1 >= Limit["Flight"] THEN "Failed" ELSE "Air",
   elapsed |-> f.elapsed + 1, hold |-> FlightHolds(f, contact), down |-> FlightDown(f, contact)]

LEMMA FlightUpdateForm ==
  ASSUME NEW f, FlightOK(f), f.phase \in {"Init", "Air"}, NEW contact
  PROVE  FlightUpdate(f, contact) = FlightNext(f, contact)
<1>1. CASE f.phase = "Air"
  BY <1>1 DEF FlightUpdate, FlightNext, FlightHolds, FlightDown
<1>2. CASE f.phase = "Init"
  <2> DEFINE b == [FlightReset EXCEPT !.phase = "Air"]
  <2>1. f = FlightReset
    BY <1>2 DEF FlightOK
  <2>2. b.phase = "Air" /\ b.elapsed = f.elapsed /\ b.hold = f.hold /\ b.down = f.down
    BY <2>1 DEF FlightReset
  <2>3. FlightUpdate(f, contact) = FlightNext(b, contact)
    BY <1>2 DEF FlightUpdate, FlightNext, FlightHolds, FlightDown
  <2> HIDE DEF b
  <2>4. FlightHolds(b, contact) = FlightHolds(f, contact)
    BY <2>2, Zenon DEF FlightHolds
  <2>5. FlightDown(b, contact) = FlightDown(f, contact)
    BY <2>2, <2>4, Zenon DEF FlightDown
  <2> QED
    BY <2>2, <2>3, <2>4, <2>5, Zenon DEF FlightNext
<1> QED
  BY <1>1, <1>2

LEMMA FlightHoldsType ==
  ASSUME NEW f, FlightOK(f), NEW contact \in SUBSET Sides
  PROVE  /\ FlightHolds(f, contact) \in [Sides -> 0 .. Limit["Touchdown"]]
         /\ \A s \in Sides : /\ FlightHolds(f, contact)[s] =
                                  Held(s \in contact \ f.down, f.hold[s])
                             /\ s \notin FlightDown(f, contact) =>
                                  FlightHolds(f, contact)[s] < Limit["Touchdown"]
         /\ FlightDown(f, contact) \in SUBSET Sides
<1>1. f.hold \in [Sides -> 0 .. Limit["Touchdown"]] /\ f.down \in SUBSET Sides
      /\ \A s \in Sides \ f.down : f.hold[s] < Limit["Touchdown"]
  BY DEF FlightOK, FlightRecords
<1>2. ASSUME NEW s \in Sides
      PROVE  Held(s \in contact \ f.down, f.hold[s]) \in 0 .. Limit["Touchdown"]
  BY <1>1, LimitFacts DEF Held
<1>3. FlightHolds(f, contact) \in [Sides -> 0 .. Limit["Touchdown"]]
  BY <1>2 DEF FlightHolds
<1>4. FlightDown(f, contact) \in SUBSET Sides
  BY <1>1 DEF FlightDown
<1>5. ASSUME NEW s \in Sides
      PROVE  FlightHolds(f, contact)[s] = Held(s \in contact \ f.down, f.hold[s])
  BY DEF FlightHolds
<1>6. ASSUME NEW s \in Sides, s \notin FlightDown(f, contact)
      PROVE  FlightHolds(f, contact)[s] < Limit["Touchdown"]
  <2>1. ~(FlightHolds(f, contact)[s] >= Limit["Touchdown"])
    BY <1>6 DEF FlightDown
  <2>2. FlightHolds(f, contact)[s] \in 0 .. Limit["Touchdown"]
    BY <1>3
  <2> QED
    BY <2>1, <2>2, LimitFacts
<1> QED
  BY <1>3, <1>4, <1>5, <1>6

LEMMA FlightUpdateOK ==
  ASSUME NEW f, FlightOK(f), f.phase \in {"Init", "Air"}, NEW contact \in SUBSET Sides
  PROVE  /\ FlightOK(FlightUpdate(f, contact))
         /\ FlightUpdate(f, contact).phase \in {"Air", "Return", "Failed"}
         /\ FlightUpdate(f, contact).elapsed = f.elapsed + 1
<1> DEFINE g == FlightNext(f, contact)
<1>1. FlightUpdate(f, contact) = g
  BY FlightUpdateForm
<1>2. f.elapsed \in Nat /\ f.elapsed < Limit["Flight"]
  BY LimitFacts DEF FlightOK, FlightRecords, FlightReset
<1>3. /\ g.phase = IF FlightDown(f, contact) = Sides THEN "Return"
                   ELSE IF f.elapsed + 1 >= Limit["Flight"] THEN "Failed" ELSE "Air"
      /\ g.elapsed = f.elapsed + 1
      /\ g.hold = FlightHolds(f, contact) /\ g.down = FlightDown(f, contact)
  BY DEF FlightNext
<1>4. g.phase \in {"Air", "Return", "Failed"} /\ g.elapsed \in 0 .. Limit["Flight"]
  BY <1>2, <1>3, LimitFacts
<1>5. g \in FlightRecords
  <2>1. g = [phase |-> g.phase, elapsed |-> g.elapsed, hold |-> g.hold, down |-> g.down]
    BY DEF FlightNext
  <2> HIDE DEF g
  <2> QED
    BY <1>3, <1>4, <2>1, FlightHoldsType DEF FlightRecords
<1> HIDE DEF g
<1>6. FlightOK(g)
  <2>1. g.phase = "Air" => g.elapsed < Limit["Flight"]
    BY <1>2, <1>3, LimitFacts
  <2>2. g.phase = "Return" => g.down = Sides
    BY <1>3
  <2>3. \A s \in Sides \ g.down : g.hold[s] < Limit["Touchdown"]
    BY <1>3, FlightHoldsType
  <2> QED
    BY <1>4, <1>5, <2>1, <2>2, <2>3 DEF FlightOK
<1> QED
  BY <1>1, <1>3, <1>4, <1>6

LEMMA FlightResetOK ==
  FlightOK(FlightReset) /\ Tracks(FlightReset, NotLanded) /\ NotLanded \in Landings
  /\ FlightReset.phase = "Init" /\ FlightReset.elapsed = 0
<1>1. FlightReset \in FlightRecords
  BY LimitFacts DEF FlightReset, FlightRecords
<1>2. FlightReset.phase = "Init" /\ FlightReset.elapsed = 0 /\ FlightReset.down = {}
      /\ \A s \in Sides : FlightReset.hold[s] = 0
  BY DEF FlightReset
<1>3. NotLanded \in Landings /\ NotLanded.held = {} /\ \A s \in Sides : NotLanded.run[s] = 0
  BY LimitFacts DEF NotLanded, Landings
<1>4. FlightOK(FlightReset)
  BY <1>1, <1>2, LimitFacts DEF FlightOK
<1>5. Tracks(FlightReset, NotLanded)
  BY <1>2, <1>3 DEF Tracks
<1> QED
  BY <1>2, <1>3, <1>4, <1>5

\* The history of a flight goes with its controller.
LEMMA ContactsTrack ==
  ASSUME NEW contact \in SUBSET Sides, Contacts(contact), landing \in Landings
  PROVE  /\ landing' \in Landings
         /\ \A f : FlightOK(f) /\ f.phase \in {"Init", "Air"} /\ Tracks(f, landing) =>
                     Tracks(FlightUpdate(f, contact), landing')
<1> DEFINE run == [s \in Sides |-> IF s \in contact
                                     THEN IF landing.run[s] < Limit["Touchdown"]
                                            THEN landing.run[s] + 1 ELSE landing.run[s]
                                     ELSE 0]
           held == landing.held \union {s \in Sides : run[s] >= Limit["Touchdown"]}
<1>1. landing' = [run |-> run, held |-> held]
  BY DEF Contacts
<1>2. landing.run \in [Sides -> 0 .. Limit["Touchdown"]] /\ landing.held \in SUBSET Sides
  BY DEF Landings
<1>3. run \in [Sides -> 0 .. Limit["Touchdown"]] /\ held \in SUBSET Sides
  BY <1>2, LimitFacts
<1>4. landing' \in Landings /\ landing'.run = run /\ landing'.held = held
  <2> HIDE DEF run, held
  <2> QED
    BY <1>1, <1>3 DEF Landings
<1>5. ASSUME NEW f, FlightOK(f), f.phase \in {"Init", "Air"}, Tracks(f, landing)
      PROVE  Tracks(FlightUpdate(f, contact), landing')
  <2>1. /\ FlightUpdate(f, contact).hold = FlightHolds(f, contact)
        /\ FlightUpdate(f, contact).down = FlightDown(f, contact)
    BY <1>5, FlightUpdateForm DEF FlightNext
  <2>2. f.down = landing.held /\ \A s \in Sides \ f.down : landing.run[s] = f.hold[s]
    BY <1>5 DEF Tracks
  <2>3. \A s \in Sides \ f.down : f.hold[s] < Limit["Touchdown"]
    BY <1>5 DEF FlightOK
  <2>4. ASSUME NEW s \in Sides \ f.down
        PROVE  FlightHolds(f, contact)[s] = run[s]
    <3>1. FlightHolds(f, contact)[s] = Held(s \in contact, f.hold[s])
      BY <2>4 DEF FlightHolds, Held
    <3>2. landing.run[s] = f.hold[s] /\ f.hold[s] < Limit["Touchdown"]
      BY <2>2, <2>3, <2>4
    <3> QED
      BY <2>4, <3>1, <3>2 DEF Held
  <2> HIDE DEF run
  <2>5. FlightDown(f, contact) = held
    BY <2>2, <2>4 DEF FlightDown
  <2>6. f.down \subseteq FlightDown(f, contact)
    BY DEF FlightDown
  <2> HIDE DEF held
  <2> QED
    BY <1>4, <2>1, <2>4, <2>5, <2>6 DEF Tracks
<1> QED
  BY <1>4, <1>5

LEMMA JumpEnterOK ==
  ASSUME NEW j \in JumpRecords, NEW phase \in JumpPhases
  PROVE  /\ JumpEnter(j, phase) \in JumpRecords
         /\ JumpEnter(j, phase).phase = phase
         /\ JumpEnter(j, phase).elapsed = 0
         /\ JumpEnter(j, phase).total = j.total
         /\ phase = "AirRetract" => JumpEnter(j, phase).hold = 0
<1>1. j.total \in 0 .. Limit["Jump"] /\ j.hold \in 0 .. Limit["RetractHold"]
  BY DEF JumpRecords
<1>2. 0 \in 0 .. Limit["Jump"] /\ 0 \in 0 .. Limit["RetractHold"]
  BY LimitFacts
<1> DEFINE h == IF phase = "AirRetract" THEN 0 ELSE j.hold
<1>3. JumpEnter(j, phase) = [phase |-> phase, elapsed |-> 0, total |-> j.total, hold |-> h]
  <2>1. JumpEnter(j, phase) = [j EXCEPT !.phase = phase, !.elapsed = 0, !.hold = h]
    BY Zenon DEF JumpEnter
  <2> HIDE DEF h
  <2> QED
    BY <2>1 DEF JumpRecords
<1> QED
  BY <1>1, <1>2, <1>3 DEF JumpRecords

LEMMA JumpBegunOK ==
  ASSUME JumpOK(jump), jump.phase \notin {"Return", "Failed"},
         jump.phase = "Init" => jump = JumpReset
  PROVE  /\ JumpBegun \in JumpRecords
         /\ JumpBegun.phase = IF jump.phase = "Init" THEN "PreCompress" ELSE jump.phase
         /\ JumpBegun.total = jump.total + 1
         /\ JumpBegun.elapsed <= JumpBegun.total
         /\ JumpBegun.phase = "AirRetract" => JumpBegun.hold < Limit["RetractHold"]
<1> DEFINE p == IF jump.phase = "Init" THEN "PreCompress" ELSE jump.phase
           i == IF jump.phase = "Init" THEN [JumpReset EXCEPT !.phase = "PreCompress"] ELSE jump
<1>1. jump \in JumpRecords /\ jump.total < Limit["Jump"] /\ jump.elapsed <= jump.total
  BY DEF JumpOK
<1>2. i = [phase |-> p, elapsed |-> jump.elapsed, total |-> jump.total, hold |-> jump.hold]
  <2>1. CASE jump.phase = "Init"
    <3>1. jump = JumpReset
      BY <2>1
    <3> QED
      BY <2>1, <3>1 DEF JumpReset
  <2>2. CASE jump.phase # "Init"
    BY <1>1, <2>2 DEF JumpRecords
  <2> QED
    BY <2>1, <2>2
<1>3. JumpBegun = [i EXCEPT !.elapsed = @ + 1, !.total = @ + 1]
  BY Zenon DEF JumpBegun
<1>4. p \in JumpPhases
  BY <1>1 DEF JumpRecords, JumpPhases
<1> HIDE DEF i, p
<1>5. JumpBegun = [phase |-> p, elapsed |-> jump.elapsed + 1, total |-> jump.total + 1,
                   hold |-> jump.hold]
  BY <1>2, <1>3
<1>6. /\ jump.elapsed \in Nat /\ jump.total \in Nat
      /\ jump.elapsed + 1 \in 0 .. Limit["Jump"] /\ jump.total + 1 \in 0 .. Limit["Jump"]
      /\ jump.hold \in 0 .. Limit["RetractHold"]
  BY <1>1, LimitFacts DEF JumpRecords
<1>7. JumpBegun \in JumpRecords
  BY <1>4, <1>5, <1>6 DEF JumpRecords
<1>8. jump.elapsed + 1 <= jump.total + 1
  BY <1>1, <1>6
<1>9. p = "AirRetract" => jump.hold < Limit["RetractHold"]
  BY DEF p, JumpOK
<1> QED
  BY <1>5, <1>7, <1>8, <1>9 DEF p

\* A step of the jump changes its phase along the course of a jump.
LEMMA JumpStepOK ==
  ASSUME NEW j \in JumpRecords, j.phase # "Init", j.elapsed <= j.total,
         j.phase = "AirRetract" => j.hold < Limit["RetractHold"],
         NEW ready \in BOOLEAN, NEW a
  PROVE  LET k == JumpStep(j, ready, a)
         IN  /\ k \in JumpRecords /\ k.phase # "Init"
             /\ k.total = j.total /\ k.elapsed <= k.total
             /\ k.phase = "AirRetract" => k.hold < Limit["RetractHold"]
             /\ k.phase = "Return" => \/ j.phase = "Return"
                                      \/ j.phase = "Air" /\ a.phase = "Return"
             /\ k.phase = "Air" => \/ j.phase = "AirRetract"
                                   \/ j.phase = "Air" /\ a.phase \notin {"Failed", "Return"}
<1> DEFINE k == JumpStep(j, ready, a)
<1>0. /\ j.total \in Nat /\ j.elapsed \in Nat /\ j.hold \in 0 .. Limit["RetractHold"]
      /\ j.phase \in {"PreCompress", "Thrust", "AirRetract", "Air", "Return", "Failed"}
  BY LimitFacts DEF JumpRecords, JumpPhases
<1>e. ASSUME NEW i \in JumpRecords, i.total = j.total, NEW phase \in JumpPhases \ {"Init"},
             k = JumpEnter(i, phase)
      PROVE  /\ k \in JumpRecords /\ k.phase = phase /\ k.phase # "Init" /\ k.total = j.total
             /\ k.elapsed <= k.total
             /\ k.phase = "AirRetract" => k.hold < Limit["RetractHold"]
  BY <1>0, <1>e, JumpEnterOK, LimitFacts
<1>n. {"Thrust", "AirRetract", "Air", "Return", "Failed"} \subseteq JumpPhases \ {"Init"}
  BY DEF JumpPhases
<1>1. CASE j.phase = "PreCompress"
  <2>1. k = JumpEnter(j, "Thrust") \/ k = j
    BY <1>1 DEF JumpStep
  <2> QED
    BY <1>1, <1>e, <1>n, <2>1
<1>2. CASE j.phase = "Thrust"
  <2>1. k = JumpEnter(j, "AirRetract") \/ k = JumpEnter(j, "Failed") \/ k = j
    BY <1>2 DEF JumpStep
  <2> QED
    BY <1>2, <1>e, <1>n, <2>1
<1>3. CASE j.phase = "AirRetract"
  <2> DEFINE h == [j EXCEPT !.hold = Held(ready, @)]
  <2>1. k = IF h.hold >= Limit["RetractHold"] THEN JumpEnter(h, "Air")
            ELSE IF h.elapsed >= Limit["Retract"] THEN JumpEnter(h, "Failed") ELSE h
    BY <1>3 DEF JumpStep
  <2>2. Held(ready, j.hold) \in 0 .. Limit["RetractHold"]
    BY <1>0, <1>3, LimitFacts DEF Held
  <2>3. h \in JumpRecords /\ h.total = j.total /\ h.elapsed = j.elapsed
        /\ h.phase = "AirRetract" /\ h.hold \in 0 .. Limit["RetractHold"]
    BY <1>3, <2>2 DEF JumpRecords
  <2> HIDE DEF h
  <2>4. CASE k = JumpEnter(h, "Air") \/ k = JumpEnter(h, "Failed")
    BY <1>3, <1>e, <1>n, <2>3, <2>4
  <2>5. CASE k = h /\ ~(h.hold >= Limit["RetractHold"])
    <3>1. h.hold < Limit["RetractHold"]
      BY <2>3, <2>5, LimitFacts
    <3> QED
      BY <2>3, <2>5, <3>1
  <2> QED
    BY <2>1, <2>4, <2>5
<1>4. CASE j.phase = "Air"
  <2>1. CASE a.phase \in {"Failed", "Return"}
    <3>1. k = JumpEnter(j, a.phase)
      BY <1>4, <2>1 DEF JumpStep
    <3> QED
      BY <1>4, <1>e, <1>n, <2>1, <3>1
  <2>2. CASE a.phase \notin {"Failed", "Return"}
    <3>1. k = j
      BY <1>4, <2>2 DEF JumpStep
    <3> QED
      BY <1>4, <2>2, <3>1
  <2> QED
    BY <2>1, <2>2
<1>5. CASE j.phase \in {"Return", "Failed"}
  <2>1. k = j
    BY <1>5 DEF JumpStep
  <2> QED
    BY <1>5, <2>1
<1> QED
  BY <1>0, <1>1, <1>2, <1>3, <1>4, <1>5

LEMMA JumpUpdateOK ==
  ASSUME JumpOK(jump), jump.phase \notin {"Return", "Failed"},
         jump.phase = "Init" => jump = JumpReset,
         NEW ready \in BOOLEAN, NEW a
  PROVE  LET k == JumpUpdate(ready, a)
         IN  /\ JumpOK(k) /\ k.phase # "Init" /\ k.total = jump.total + 1
             /\ k.phase = "Return" => jump.phase = "Air" /\ a.phase = "Return"
             /\ k.phase = "Air" /\ jump.phase = "Air" => a.phase \notin {"Failed", "Return"}
<1> DEFINE i == JumpStep(JumpBegun, ready, a)
           k == JumpUpdate(ready, a)
<1>1. /\ JumpBegun \in JumpRecords /\ JumpBegun.phase # "Init"
      /\ JumpBegun.total = jump.total + 1 /\ JumpBegun.elapsed <= JumpBegun.total
      /\ JumpBegun.phase = "AirRetract" => JumpBegun.hold < Limit["RetractHold"]
      /\ JumpBegun.phase \notin {"Return", "Failed"}
      /\ JumpBegun.phase = "Air" <=> jump.phase = "Air"
      /\ jump.phase = "Air" => JumpBegun.phase # "AirRetract"
  BY JumpBegunOK
<1>2. /\ i \in JumpRecords /\ i.phase # "Init"
      /\ i.total = jump.total + 1 /\ i.elapsed <= i.total
      /\ i.phase = "AirRetract" => i.hold < Limit["RetractHold"]
      /\ i.phase = "Return" => jump.phase = "Air" /\ a.phase = "Return"
      /\ i.phase = "Air" /\ jump.phase = "Air" => a.phase \notin {"Failed", "Return"}
  BY <1>1, JumpStepOK
<1>3. k = IF i.phase \notin {"Return", "Failed"} /\ i.total >= Limit["Jump"]
            THEN JumpEnter(i, "Failed") ELSE i
  BY DEF JumpUpdate
<1>4. i.total \in Nat
  BY <1>2 DEF JumpRecords
<1> HIDE DEF i, k
<1>5. CASE k = JumpEnter(i, "Failed")
  <2>1. /\ k \in JumpRecords /\ k.phase = "Failed" /\ k.elapsed = 0 /\ k.total = i.total
    BY <1>2, <1>5, JumpEnterOK DEF JumpPhases
  <2> QED
    BY <1>2, <1>4, <2>1 DEF JumpOK, k
<1>6. CASE k = i /\ ~(i.phase \notin {"Return", "Failed"} /\ i.total >= Limit["Jump"])
  BY <1>2, <1>4, <1>6, LimitFacts DEF JumpOK, k
<1> QED
  BY <1>3, <1>5, <1>6

-----------------------------------------------------------------------------

LEMMA ClimbEnterOK ==
  ASSUME NEW phase \in {"Motion1", "Motion2", "Return", "Failed"}
  PROVE  ClimbOK(ClimbEnter(phase)) /\ ClimbEnter(phase).phase = phase
         /\ ClimbEnter(phase).elapsed = 0
<1>1. ClimbEnter(phase) = [phase |-> phase, elapsed |-> 0, hold |-> 0]
  BY DEF ClimbEnter, ClimbReset
<1> QED
  BY <1>1, LimitFacts DEF ClimbOK, ClimbRecords

\* A climb goes on in its motion for one cycle more, or takes up another phase.
LEMMA ClimbUpdateOK ==
  ASSUME ClimbOK(climb), climb.phase \in {"Init", "Motion1", "Motion2"}, NEW ready \in BOOLEAN
  PROVE  LET k == ClimbUpdate(ready)
             before == IF climb.phase = "Init" THEN "Motion1" ELSE climb.phase
         IN  /\ ClimbOK(k)
             /\ \/ k.phase = before
                   /\ k.elapsed = IF climb.phase = "Init" THEN 0 ELSE climb.elapsed + 1
                \/ k.phase = "Motion2" /\ k.elapsed = 0 /\ before = "Motion1"
                \/ k.phase = "Return" /\ before = "Motion2"
                \/ k.phase = "Failed"
<1> DEFINE k == ClimbUpdate(ready)
           before == IF climb.phase = "Init" THEN "Motion1" ELSE climb.phase
           c == IF climb.phase = "Init" THEN ClimbEnter("Motion1")
                                        ELSE [climb EXCEPT !.elapsed = @ + 1]
           hold == Held(ready, c.hold)
<1>1. climb \in ClimbRecords /\ climb.elapsed \in Nat /\ climb.hold \in Nat
  BY DEF ClimbOK, ClimbRecords
<1>2. /\ c.phase = before /\ c.phase \in {"Motion1", "Motion2"}
      /\ c.elapsed = IF climb.phase = "Init" THEN 0 ELSE climb.elapsed + 1
      /\ c.elapsed \in Nat /\ c.hold \in Nat /\ c \in ClimbRecords
  <2>1. CASE climb.phase = "Init"
    <3>1. c = [phase |-> "Motion1", elapsed |-> 0, hold |-> 0]
      BY <2>1 DEF ClimbEnter, ClimbReset
    <3> QED
      BY <2>1, <3>1 DEF ClimbRecords
  <2>2. CASE climb.phase # "Init"
    <3>1. c = [phase |-> climb.phase, elapsed |-> climb.elapsed + 1, hold |-> climb.hold]
      BY <1>1, <2>2 DEF ClimbRecords
    <3> QED
      BY <1>1, <2>2, <3>1 DEF ClimbRecords
  <2> QED
    BY <2>1, <2>2
<1>3. k = IF c.phase \notin {"Motion1", "Motion2"} THEN c
          ELSE IF hold >= Limit["ClimbHold"]
                 THEN ClimbEnter(IF c.phase = "Motion1" THEN "Motion2" ELSE "Return")
          ELSE IF c.elapsed >= Limit[c.phase] THEN ClimbEnter("Failed")
          ELSE [c EXCEPT !.hold = hold]
  BY Zenon DEF ClimbUpdate
<1>4. hold \in Nat
  BY <1>2 DEF Held
<1> HIDE DEF c, k, hold
<1>5. \/ k = ClimbEnter("Motion2") /\ before = "Motion1"
      \/ k = ClimbEnter("Return") /\ before = "Motion2"
      \/ k = ClimbEnter("Failed")
      \/ k = [c EXCEPT !.hold = hold] /\ ~(c.elapsed >= Limit[c.phase])
  BY <1>2, <1>3
<1>6. CASE k = ClimbEnter("Motion2") /\ before = "Motion1"
  BY <1>6, ClimbEnterOK DEF k
<1>7. CASE k = ClimbEnter("Return") /\ before = "Motion2"
  BY <1>7, ClimbEnterOK DEF k
<1>8. CASE k = ClimbEnter("Failed")
  BY <1>8, ClimbEnterOK DEF k
<1>9. CASE k = [c EXCEPT !.hold = hold] /\ ~(c.elapsed >= Limit[c.phase])
  <2>1. k \in ClimbRecords /\ k.phase = c.phase /\ k.elapsed = c.elapsed
    BY <1>2, <1>4, <1>9 DEF ClimbRecords
  <2>2. c.phase = "Motion1" => c.elapsed < Limit["Motion1"]
    BY <1>2, <1>9, LimitFacts
  <2>3. c.phase = "Motion2" => c.elapsed < Limit["Motion2"]
    BY <1>2, <1>9, LimitFacts
  <2>4. ClimbOK(k)
    BY <2>1, <2>2, <2>3 DEF ClimbOK
  <2> QED
    BY <1>2, <2>1, <2>4 DEF k
<1> QED
  BY <1>5, <1>6, <1>7, <1>8, <1>9

-----------------------------------------------------------------------------

LEMMA RecoveryEnterOK ==
  ASSUME NEW r \in RecoveryRecords, NEW phase \in {"TurnOver", "DrawBack", "Return", "Failed"},
         r.reversals > Limit["Reversals"] => phase = "Failed",
         phase = "TurnOver" => r.upright < Limit["Upright"]
  PROVE  RecoveryOK(RecoveryEnter(r, phase)) /\ RecoveryEnter(r, phase).phase = phase
         /\ RecoveryEnter(r, phase).elapsed = 0
<1> DEFINE k == RecoveryEnter(r, phase)
<1>3. k \in RecoveryRecords
  BY DEF RecoveryEnter, RecoveryRecords
<1>4. k.phase = phase /\ k.elapsed = 0 /\ k.upright = r.upright /\ k.reversals = r.reversals
  BY DEF RecoveryEnter, RecoveryRecords
<1> HIDE DEF k
<1>5. RecoveryOK(k)
  BY <1>3, <1>4, LimitFacts DEF RecoveryOK
<1> QED
  BY <1>4, <1>5 DEF k

\* What one cycle makes of the timers of a turn-over.  A reversal is one of a
\* sweep that is stuck, and so of a chassis that is not upright.
LEMMA TurnOverOK ==
  ASSUME NEW r \in RecoveryRecords, r.phase = "TurnOver", r.upright < Limit["Upright"],
         r.reversals <= Limit["Reversals"], NEW upright \in BOOLEAN, NEW stopped \in BOOLEAN
  PROVE  LET k == TurnOver(r, upright, stopped)
         IN  /\ RecoveryOK(k)
             /\ \/ k.phase = "TurnOver" /\ k.elapsed = r.elapsed
                \/ k.phase = "DrawBack" /\ k.elapsed = 0
                \/ k.phase = "Failed"
<1> DEFINE k == TurnOver(r, upright, stopped)
           stuck == Held(StuckSweep(stopped, upright), r.stuck)
           reverse == stuck >= Limit["Stuck"]
           n == IF reverse THEN r.reversals + 1 ELSE r.reversals
           w == IF upright THEN r.upright + 1 ELSE r.upright \div 2
           z == IF reverse THEN 0 ELSE stuck
           s == [r EXCEPT !.stuck = z, !.reversals = n, !.upright = w]
           t == IF reverse /\ n > Limit["Reversals"] THEN RecoveryEnter(s, "Failed") ELSE s
<1>1. k = IF t.upright >= Limit["Upright"] THEN RecoveryEnter(t, "DrawBack")
          ELSE IF t.elapsed >= Limit["Turnover"] THEN RecoveryEnter(t, "Failed") ELSE t
  BY Zenon DEF TurnOver
<1>2. /\ r.elapsed \in Nat /\ r.hold \in Nat /\ r.upright \in Nat /\ r.stuck \in Nat
      /\ r.reversals \in Nat
  BY DEF RecoveryRecords
<1>3. stuck \in Nat /\ z \in Nat /\ n \in Nat
  BY <1>2 DEF Held
<1>4. w \in Nat /\ (~upright => w < Limit["Upright"])
  BY <1>2, LimitFacts
<1>5. reverse => ~upright
  BY LimitFacts DEF Held, StuckSweep
<1>6. ~reverse => n <= Limit["Reversals"]
  OBVIOUS
<1> HIDE DEF k, stuck, reverse, n, w, z
<1>7. s \in RecoveryRecords
  BY <1>3, <1>4 DEF RecoveryRecords
<1>8. s \in RecoveryRecords /\ s.phase = "TurnOver" /\ s.elapsed = r.elapsed
      /\ s.upright = w /\ s.reversals = n
  BY <1>7 DEF RecoveryRecords
<1> HIDE DEF s
<1>9. CASE reverse /\ n > Limit["Reversals"]
  <2>1. t = RecoveryEnter(s, "Failed") /\ w < Limit["Upright"]
    BY <1>4, <1>5, <1>9
  <2>2. RecoveryOK(t) /\ t.phase = "Failed" /\ t.elapsed = 0
    BY <1>8, <2>1, RecoveryEnterOK
  <2>3. t.upright = w
    BY <1>8, <2>1 DEF RecoveryEnter, RecoveryRecords
  <2> HIDE DEF t
  <2>4. k = t
    BY <1>1, <1>4, <2>1, <2>2, <2>3, LimitFacts
  <2> QED
    BY <2>2, <2>4 DEF k
<1>10. CASE ~(reverse /\ n > Limit["Reversals"])
  <2>1. t = s /\ n <= Limit["Reversals"]
    BY <1>3, <1>6, <1>10, LimitFacts
  <2>2. ~(s.reversals > Limit["Reversals"])
    BY <1>3, <1>8, <2>1, LimitFacts
  <2> HIDE DEF t
  <2>3. CASE k = RecoveryEnter(s, "DrawBack")
    BY <1>8, <2>2, <2>3, RecoveryEnterOK DEF k
  <2>4. CASE k = RecoveryEnter(s, "Failed")
    BY <1>8, <2>2, <2>4, RecoveryEnterOK DEF k
  <2>5. CASE k = s /\ ~(s.upright >= Limit["Upright"]) /\ ~(s.elapsed >= Limit["Turnover"])
    <3>1. s.upright < Limit["Upright"] /\ s.elapsed < Limit["Turnover"]
      BY <1>2, <1>4, <1>8, <2>5, LimitFacts
    <3>2. RecoveryOK(s)
      BY <1>8, <2>2, <3>1 DEF RecoveryOK
    <3> QED
      BY <1>8, <2>5, <3>2 DEF k
  <2> QED
    BY <1>1, <2>1, <2>3, <2>4, <2>5
<1> QED
  BY <1>9, <1>10

LEMMA DrawBackOK ==
  ASSUME NEW r \in RecoveryRecords, r.phase = "DrawBack", r.reversals <= Limit["Reversals"],
         NEW ready \in BOOLEAN
  PROVE  LET k == DrawBack(r, ready)
         IN  /\ RecoveryOK(k)
             /\ \/ k.phase = "DrawBack" /\ k.elapsed = r.elapsed
                \/ k.phase \in {"Return", "Failed"}
<1> DEFINE k == DrawBack(r, ready)
           hold == Held(ready, r.hold)
<1>1. k = IF hold >= Limit["RecoveryHold"] THEN RecoveryEnter(r, "Return")
          ELSE IF r.elapsed >= Limit["Drawback"] THEN RecoveryEnter(r, "Failed")
          ELSE [r EXCEPT !.hold = hold]
  BY Zenon DEF DrawBack
<1>2. /\ r.elapsed \in Nat /\ r.hold \in Nat /\ r.reversals \in Nat
      /\ ~(r.reversals > Limit["Reversals"])
  BY LimitFacts DEF RecoveryRecords
<1>3. hold \in Nat
  BY <1>2 DEF Held
<1> HIDE DEF k, hold
<1>4. CASE k = RecoveryEnter(r, "Return")
  BY <1>2, <1>4, RecoveryEnterOK DEF k
<1>5. CASE k = RecoveryEnter(r, "Failed")
  BY <1>2, <1>5, RecoveryEnterOK DEF k
<1>6. CASE k = [r EXCEPT !.hold = hold] /\ ~(r.elapsed >= Limit["Drawback"])
  <2>1. k \in RecoveryRecords /\ k.phase = "DrawBack" /\ k.elapsed = r.elapsed
        /\ k.reversals = r.reversals
    BY <1>3, <1>6 DEF RecoveryRecords
  <2>2. k.elapsed < Limit["Drawback"]
    BY <1>2, <1>6, <2>1, LimitFacts
  <2>3. RecoveryOK(k)
    BY <1>2, <2>1, <2>2 DEF RecoveryOK
  <2> QED
    BY <2>1, <2>3 DEF k
<1> QED
  BY <1>1, <1>4, <1>5, <1>6

LEMMA RecoveryUpdateOK ==
  ASSUME RecoveryOK(recovery), recovery.phase \notin {"Return", "Failed"},
         recovery.phase = "Init" => recovery = RecoveryReset,
         NEW sensed \in BOOLEAN, NEW upright \in BOOLEAN, NEW stopped \in BOOLEAN,
         NEW ready \in BOOLEAN
  PROVE  LET k == RecoveryUpdate(sensed, upright, stopped, ready)
         IN  /\ RecoveryOK(k) /\ k.phase # "Init"
             /\ k.phase = "TurnOver" => \/ recovery.phase = "Init" /\ k.elapsed = 0
                                        \/ /\ recovery.phase = "TurnOver"
                                           /\ k.elapsed = recovery.elapsed + 1
             /\ k.phase = "DrawBack" => \/ recovery.phase = "Init"
                                        \/ recovery.phase = "TurnOver" /\ k.elapsed = 0
                                        \/ /\ recovery.phase = "DrawBack"
                                           /\ k.elapsed = recovery.elapsed + 1
             /\ k.phase = "Return" => recovery.phase = "DrawBack"
<1> DEFINE k == RecoveryUpdate(sensed, upright, stopped, ready)
           r == [recovery EXCEPT !.elapsed = @ + 1]
<1>1. k = CASE r.phase = "Init" ->
                 RecoveryEnter(r, IF ~sensed THEN "Failed" ELSE IF upright THEN "DrawBack"
                                  ELSE "TurnOver")
            [] r.phase = "TurnOver" -> TurnOver(r, upright, stopped)
            [] r.phase = "DrawBack" -> DrawBack(r, ready)
            [] OTHER -> r
  BY Zenon DEF RecoveryUpdate
<1>2. /\ recovery \in RecoveryRecords /\ recovery.elapsed \in Nat
      /\ recovery.reversals \in Nat /\ recovery.upright \in Nat
      /\ recovery.reversals <= Limit["Reversals"]
      /\ recovery.phase \in {"Init", "TurnOver", "DrawBack"}
  BY LimitFacts DEF RecoveryOK, RecoveryRecords
<1>3. /\ r \in RecoveryRecords /\ r.phase = recovery.phase /\ r.elapsed = recovery.elapsed + 1
      /\ r.reversals = recovery.reversals /\ r.upright = recovery.upright
  BY <1>2 DEF RecoveryRecords
<1> HIDE DEF k, r
<1>4. CASE recovery.phase = "Init"
  <2>1. r.upright < Limit["Upright"] /\ ~(r.reversals > Limit["Reversals"])
    BY <1>2, <1>3, <1>4, LimitFacts DEF RecoveryReset
  <2>2. PICK phase \in {"Failed", "DrawBack", "TurnOver"} : k = RecoveryEnter(r, phase)
    BY <1>1, <1>3, <1>4
  <2>3. RecoveryOK(k) /\ k.phase = phase /\ k.elapsed = 0
    BY <1>3, <2>1, <2>2, RecoveryEnterOK
  <2> QED
    BY <1>4, <2>2, <2>3 DEF k
<1>5. CASE recovery.phase = "TurnOver"
  <2>1. k = TurnOver(r, upright, stopped)
    BY <1>1, <1>3, <1>5
  <2>2. r.upright < Limit["Upright"]
    BY <1>3, <1>5 DEF RecoveryOK
  <2>3. /\ RecoveryOK(k)
        /\ \/ k.phase = "TurnOver" /\ k.elapsed = r.elapsed
           \/ k.phase = "DrawBack" /\ k.elapsed = 0
           \/ k.phase = "Failed"
    BY <1>2, <1>3, <1>5, <2>1, <2>2, TurnOverOK
  <2> QED
    BY <1>3, <1>5, <2>3 DEF k
<1>6. CASE recovery.phase = "DrawBack"
  <2>1. k = DrawBack(r, ready)
    BY <1>1, <1>3, <1>6
  <2>2. /\ RecoveryOK(k)
        /\ \/ k.phase = "DrawBack" /\ k.elapsed = r.elapsed
           \/ k.phase \in {"Return", "Failed"}
    BY <1>2, <1>3, <1>6, <2>1, DrawBackOK
  <2> QED
    BY <1>3, <1>6, <2>2 DEF k
<1> QED
  BY <1>2, <1>4, <1>5, <1>6

-----------------------------------------------------------------------------
(* Action phases: the steps.                                                 *)

LEMMA ResetsOK ==
  /\ JumpOK(JumpReset) /\ JumpReset.phase = "Init" /\ JumpReset.total = 0
  /\ ClimbOK(ClimbReset) /\ ClimbReset.phase = "Init"
  /\ RecoveryOK(RecoveryReset) /\ RecoveryReset.phase = "Init"
<1>1. JumpOK(JumpReset) /\ JumpReset.phase = "Init" /\ JumpReset.total = 0
  <2>1. JumpReset \in JumpRecords
    BY LimitFacts DEF JumpReset, JumpRecords, JumpPhases
  <2> QED
    BY <2>1, LimitFacts DEF JumpOK, JumpReset
<1>2. ClimbOK(ClimbReset) /\ ClimbReset.phase = "Init"
  BY DEF ClimbOK, ClimbRecords, ClimbReset
<1>3. RecoveryOK(RecoveryReset) /\ RecoveryReset.phase = "Init"
  BY LimitFacts DEF RecoveryOK, RecoveryRecords, RecoveryReset
<1> QED
  BY <1>1, <1>2, <1>3

LEMMA PhasesInitInv == PhasesInit => PhasesInv
<1> SUFFICES ASSUME PhasesInit PROVE PhasesInv
  OBVIOUS
<1>1. Controllers
  BY FlightResetOK, ResetsOK DEF PhasesInit, Controllers
<1>2. landing \in Landings
  BY FlightResetOK DEF PhasesInit
<1>3. /\ asked \in Asked /\ mode = "Stopped" /\ liftoff = 0 /\ aloft = 0
      /\ mark = {} /\ failed = FALSE /\ spent = 0
  BY DEF PhasesInit
<1>4. mode \in Modes /\ mode \notin Actions4
  BY <1>3 DEF Modes, Actions4
<1>5. liftoff \in Nat /\ aloft \in 0 .. Limit["Liftoff"] /\ liftoff <= aloft /\ spent \in Nat
  BY <1>3, LimitFacts
<1>6. failed \in BOOLEAN /\ ~failed /\ mark \subseteq Actions4
  BY <1>3, Zenon
<1>7. mode \notin {"Flight", "Jump", "ClimbStairs", "Recovery"}
  BY <1>3
<1> QED
  BY <1>1, <1>2, <1>3, <1>4, <1>5, <1>6, <1>7, Zenon DEF PhasesInv

\* What an action leaves alone, and what it reports.
LEMMA RunActionFrame ==
  ASSUME PhasesInv, RunAction
  PROVE  /\ mode \in Actions4 /\ mode' = mode /\ asked' = asked
         /\ spent' = spent + 1 /\ spent \in Nat /\ spent' > 0
         /\ ~failed /\ (mode \notin mark \/ spent = 0)
         /\ liftoff' = 0 /\ aloft' = 0
BY DEF RunAction, PhasesInv

LEMMA ReportType ==
  ASSUME PhasesInv, NEW a \in Actions4, NEW phase, Report(a, phase)
  PROVE  /\ mark' \subseteq Actions4 /\ failed' \in BOOLEAN
         /\ phase = "Return" => a \in mark'
         /\ phase = "Failed" => failed'
         /\ a \in mark' => a \in mark \/ phase = "Return"
BY DEF Report, PhasesInv

LEMMA RunFlightInv ==
  ASSUME PhasesInv, RunAction, mode = "Flight" PROVE PhasesInv'
<1>1. PICK contact \in SUBSET Sides :
        /\ flight' = FlightUpdate(flight, contact)
        /\ Contacts(contact)
        /\ Report("Flight", flight'.phase)
        /\ UNCHANGED <<jump, air, climb, recovery>>
  BY DEF RunAction, RunFlight
<1>2. InFlight /\ Controllers /\ landing \in Landings
  BY DEF PhasesInv
<1>3. FlightOK(flight) /\ flight.phase \in {"Init", "Air", "Return", "Failed"}
  BY <1>2 DEF Controllers, FlightOK, FlightRecords
<1>4. flight.phase \in {"Init", "Air"} /\ flight.elapsed = spent /\ "Flight" \notin mark
  <2>1. CASE spent = 0
    BY <1>2, <2>1, FlightResetOK DEF InFlight
  <2>2. CASE spent # 0
    BY <1>2, <1>3, <2>2, RunActionFrame DEF InFlight, Told
  <2> QED
    BY <2>1, <2>2
<1>5. /\ FlightOK(flight') /\ flight'.phase \in {"Air", "Return", "Failed"}
      /\ flight'.elapsed = spent + 1
  BY <1>1, <1>3, <1>4, FlightUpdateOK
<1>6. landing' \in Landings /\ Tracks(flight', landing')
  BY <1>1, <1>2, <1>3, <1>4, ContactsTrack DEF InFlight
<1>7. /\ mark' \subseteq Actions4 /\ failed' \in BOOLEAN
      /\ flight'.phase = "Return" => "Flight" \in mark'
      /\ flight'.phase = "Failed" => failed'
      /\ "Flight" \in mark' => flight'.phase = "Return"
  BY <1>1, <1>4, ReportType DEF Actions4
<1>8. InFlight'
  BY <1>5, <1>6, <1>7, RunActionFrame DEF InFlight, Told
<1>9. Controllers'
  BY <1>1, <1>2, <1>5 DEF Controllers
<1> QED
  BY <1>6, <1>7, <1>8, <1>9, RunActionFrame, LimitFacts DEF PhasesInv

LEMMA RunJumpInv ==
  ASSUME PhasesInv, RunAction, mode = "Jump" PROVE PhasesInv'
<1>1. PICK ready \in BOOLEAN, contact \in SUBSET Sides :
        LET a == IF jump.phase = "Air" THEN FlightUpdate(air, contact) ELSE air
        IN  /\ jump' = JumpUpdate(ready, a)
            /\ air' = IF jump'.phase = "Air" /\ jump.phase # "Air" THEN FlightReset ELSE a
            /\ IF jump.phase = "Air" THEN Contacts(contact) ELSE landing' = NotLanded
            /\ Report("Jump", jump'.phase)
            /\ UNCHANGED <<flight, climb, recovery>>
  BY DEF RunAction, RunJump
<1> DEFINE a == IF jump.phase = "Air" THEN FlightUpdate(air, contact) ELSE air
<1>2. /\ jump' = JumpUpdate(ready, a)
      /\ air' = IF jump'.phase = "Air" /\ jump.phase # "Air" THEN FlightReset ELSE a
      /\ IF jump.phase = "Air" THEN Contacts(contact) ELSE landing' = NotLanded
      /\ Report("Jump", jump'.phase)
      /\ UNCHANGED <<flight, climb, recovery>>
  BY <1>1, Zenon
<1>3. InJump /\ Controllers /\ landing \in Landings
  BY DEF PhasesInv
<1>4. /\ JumpOK(jump) /\ jump.phase \notin {"Return", "Failed"} /\ "Jump" \notin mark
      /\ jump.phase = "Init" => jump = JumpReset
      /\ jump.total = spent
  <2>1. CASE spent = 0
    BY <1>3, <2>1, ResetsOK DEF InJump, Controllers
  <2>2. CASE spent # 0
    BY <1>3, <2>2, RunActionFrame DEF InJump, Told, Controllers
  <2> QED
    BY <2>1, <2>2
<1>5. jump.phase = "Air" =>
        /\ FlightOK(a) /\ a.phase \in {"Air", "Return", "Failed"}
        /\ landing' \in Landings /\ Tracks(a, landing')
  <2> SUFFICES ASSUME jump.phase = "Air"
               PROVE  /\ FlightOK(a) /\ a.phase \in {"Air", "Return", "Failed"}
                      /\ landing' \in Landings /\ Tracks(a, landing')
    BY Zenon
  <2>1. a = FlightUpdate(air, contact) /\ Contacts(contact)
    BY <1>2
  <2>2. FlightOK(air) /\ air.phase \in {"Init", "Air"} /\ Tracks(air, landing)
    BY <1>3 DEF InJump, Controllers
  <2>3. FlightOK(a) /\ a.phase \in {"Air", "Return", "Failed"}
    BY <2>1, <2>2, FlightUpdateOK
  <2>4. landing' \in Landings /\ Tracks(a, landing')
    BY <1>3, <2>1, <2>2, ContactsTrack
  <2> QED
    BY <2>3, <2>4
<1>6. jump.phase # "Air" => a = air /\ landing' = NotLanded
  BY <1>2
<1> HIDE DEF a
<1>7. /\ JumpOK(jump') /\ jump'.phase # "Init" /\ jump'.total = spent + 1
      /\ jump'.phase = "Return" => jump.phase = "Air" /\ a.phase = "Return"
      /\ jump'.phase = "Air" /\ jump.phase = "Air" => a.phase \notin {"Failed", "Return"}
  BY <1>2, <1>4, JumpUpdateOK
<1>8. landing' \in Landings
  BY <1>5, <1>6, FlightResetOK
<1>9. FlightOK(air')
  BY <1>2, <1>3, <1>5, <1>6, FlightResetOK DEF Controllers
<1>10. jump'.phase = "Air" => air'.phase \in {"Init", "Air"} /\ Tracks(air', landing')
  <2> SUFFICES ASSUME jump'.phase = "Air"
               PROVE  air'.phase \in {"Init", "Air"} /\ Tracks(air', landing')
    BY Zenon
  <2>1. CASE jump.phase = "Air"
    BY <1>2, <1>5, <1>7, <2>1
  <2>2. CASE jump.phase # "Air"
    BY <1>2, <1>6, <2>2, FlightResetOK
  <2> QED
    BY <2>1, <2>2
<1>11. jump'.phase = "Return" => landing'.held = Sides
  BY <1>5, <1>7 DEF FlightOK, Tracks
<1>12. /\ mark' \subseteq Actions4 /\ failed' \in BOOLEAN
       /\ jump'.phase = "Return" => "Jump" \in mark'
       /\ jump'.phase = "Failed" => failed'
       /\ "Jump" \in mark' => jump'.phase = "Return"
  BY <1>2, <1>4, ReportType DEF Actions4
<1>13. InJump'
  BY <1>7, <1>10, <1>11, <1>12, RunActionFrame DEF InJump, Told
<1>14. Controllers'
  BY <1>2, <1>3, <1>7, <1>9 DEF Controllers
<1> QED
  BY <1>8, <1>12, <1>13, <1>14, RunActionFrame, LimitFacts DEF PhasesInv

LEMMA RunClimbInv ==
  ASSUME PhasesInv, RunAction, mode = "ClimbStairs" PROVE PhasesInv'
<1>1. PICK ready \in BOOLEAN :
        /\ climb' = ClimbUpdate(ready)
        /\ Report("ClimbStairs", climb'.phase)
        /\ UNCHANGED <<flight, jump, air, recovery, landing>>
  BY DEF RunAction, RunClimb
<1>2. InClimb /\ Controllers /\ landing \in Landings
  BY DEF PhasesInv
<1>3. /\ ClimbOK(climb) /\ climb.elapsed \in Nat
      /\ climb.phase \in {"Init", "Motion1", "Motion2", "Return", "Failed"}
  BY <1>2 DEF Controllers, ClimbOK, ClimbRecords
<1>4. climb.phase \in {"Init", "Motion1", "Motion2"}
  <2>1. CASE spent = 0
    BY <1>2, <2>1, ResetsOK DEF InClimb
  <2>2. CASE spent # 0
    BY <1>2, <1>3, <2>2, RunActionFrame DEF InClimb, Told
  <2> QED
    BY <2>1, <2>2
<1> DEFINE before == IF climb.phase = "Init" THEN "Motion1" ELSE climb.phase
<1>5. /\ ClimbOK(climb')
      /\ \/ climb'.phase = before
            /\ climb'.elapsed = IF climb.phase = "Init" THEN 0 ELSE climb.elapsed + 1
         \/ climb'.phase = "Motion2" /\ climb'.elapsed = 0 /\ before = "Motion1"
         \/ climb'.phase = "Return" /\ before = "Motion2"
         \/ climb'.phase = "Failed"
  BY <1>1, <1>3, <1>4, ClimbUpdateOK, Zenon
<1>6. /\ mark' \subseteq Actions4 /\ failed' \in BOOLEAN
      /\ climb'.phase = "Return" => "ClimbStairs" \in mark'
      /\ climb'.phase = "Failed" => failed'
  BY <1>1, ReportType DEF Actions4
<1>7. /\ climb.phase = "Init" => spent = 0
      /\ climb.phase = "Motion1" => spent = 1 + climb.elapsed /\ climb.elapsed < Limit["Motion1"]
      /\ climb.phase = "Motion2" => /\ spent <= 1 + Limit["Motion1"] + climb.elapsed
                                    /\ climb.elapsed < Limit["Motion2"]
  BY <1>2, <1>3, RunActionFrame DEF InClimb, ClimbOK
<1>8. /\ climb'.phase # "Init"
      /\ climb'.phase = "Motion1" => spent + 1 = 1 + climb'.elapsed
      /\ climb'.phase = "Motion2" => spent + 1 <= 1 + Limit["Motion1"] + climb'.elapsed
      /\ spent + 1 <= 1 + Limit["Motion1"] + Limit["Motion2"]
  <2>1. spent \in Nat
    BY RunActionFrame
  <2>2. CASE climb.phase = "Init"
    BY <1>5, <1>7, <2>1, <2>2, LimitFacts
  <2>3. CASE climb.phase = "Motion1"
    BY <1>3, <1>5, <1>7, <2>1, <2>3, LimitFacts
  <2>4. CASE climb.phase = "Motion2"
    BY <1>3, <1>5, <1>7, <2>1, <2>4, LimitFacts
  <2> QED
    BY <1>4, <2>2, <2>3, <2>4
<1>9. InClimb'
  BY <1>6, <1>8, RunActionFrame DEF InClimb, Told, LongestAction
<1>10. Controllers'
  BY <1>1, <1>2, <1>5 DEF Controllers
<1> QED
  BY <1>1, <1>2, <1>6, <1>9, <1>10, RunActionFrame, LimitFacts DEF PhasesInv

LEMMA RunRecoveryInv ==
  ASSUME PhasesInv, RunAction, mode = "Recovery" PROVE PhasesInv'
<1>1. PICK sensed \in BOOLEAN, upright \in BOOLEAN, stopped \in BOOLEAN, ready \in BOOLEAN :
        /\ recovery' = RecoveryUpdate(sensed, upright, stopped, ready)
        /\ Report("Recovery", recovery'.phase)
        /\ UNCHANGED <<flight, jump, air, climb, landing>>
  BY DEF RunAction, RunRecovery
<1>2. InRecovery /\ Controllers /\ landing \in Landings
  BY DEF PhasesInv
<1>3. RecoveryOK(recovery) /\ recovery.elapsed \in Nat
      /\ recovery.phase \in {"Init", "TurnOver", "DrawBack", "Return", "Failed"}
  BY <1>2 DEF Controllers, RecoveryOK, RecoveryRecords
<1>4. /\ recovery.phase \in {"Init", "TurnOver", "DrawBack"}
      /\ recovery.phase = "Init" => recovery = RecoveryReset
  <2>1. CASE spent = 0
    BY <1>2, <2>1, ResetsOK DEF InRecovery
  <2>2. CASE spent # 0
    BY <1>2, <1>3, <2>2, RunActionFrame DEF InRecovery, Told
  <2> QED
    BY <2>1, <2>2
<1>5. /\ RecoveryOK(recovery') /\ recovery'.phase # "Init"
      /\ recovery'.phase = "TurnOver" => \/ recovery.phase = "Init" /\ recovery'.elapsed = 0
                                         \/ /\ recovery.phase = "TurnOver"
                                            /\ recovery'.elapsed = recovery.elapsed + 1
      /\ recovery'.phase = "DrawBack" => \/ recovery.phase = "Init"
                                         \/ recovery.phase = "TurnOver" /\ recovery'.elapsed = 0
                                         \/ /\ recovery.phase = "DrawBack"
                                            /\ recovery'.elapsed = recovery.elapsed + 1
      /\ recovery'.phase = "Return" => recovery.phase = "DrawBack"
  BY <1>1, <1>3, <1>4, RecoveryUpdateOK
<1>6. /\ mark' \subseteq Actions4 /\ failed' \in BOOLEAN
      /\ recovery'.phase = "Return" => "Recovery" \in mark'
      /\ recovery'.phase = "Failed" => failed'
  BY <1>1, ReportType DEF Actions4
<1>7. /\ recovery.phase = "Init" => spent = 0
      /\ recovery.phase = "TurnOver" => /\ spent = 1 + recovery.elapsed
                                        /\ recovery.elapsed < Limit["Turnover"]
      /\ recovery.phase = "DrawBack" => /\ spent <= 1 + Limit["Turnover"] + recovery.elapsed
                                        /\ recovery.elapsed < Limit["Drawback"]
  BY <1>2, <1>3, RunActionFrame DEF InRecovery, RecoveryOK
<1>8. recovery'.elapsed \in Nat
  BY <1>5 DEF RecoveryOK, RecoveryRecords
<1>9. /\ recovery'.phase = "TurnOver" => spent + 1 = 1 + recovery'.elapsed
      /\ recovery'.phase = "DrawBack" => spent + 1 <= 1 + Limit["Turnover"] + recovery'.elapsed
      /\ spent + 1 <= 1 + Limit["Turnover"] + Limit["Drawback"]
  <2>1. spent \in Nat
    BY RunActionFrame
  <2>2. CASE recovery.phase = "Init"
    BY <1>5, <1>7, <1>8, <2>1, <2>2, LimitFacts
  <2>3. CASE recovery.phase = "TurnOver"
    BY <1>3, <1>5, <1>7, <1>8, <2>1, <2>3, LimitFacts
  <2>4. CASE recovery.phase = "DrawBack"
    BY <1>3, <1>5, <1>7, <1>8, <2>1, <2>4, LimitFacts
  <2> QED
    BY <1>4, <2>2, <2>3, <2>4
<1>10. InRecovery'
  BY <1>5, <1>6, <1>9, RunActionFrame DEF InRecovery, Told, LongestAction
<1>11. Controllers'
  BY <1>1, <1>2, <1>5 DEF Controllers
<1> QED
  BY <1>1, <1>2, <1>6, <1>10, <1>11, RunActionFrame, LimitFacts DEF PhasesInv

\* The states that a decision may lead to.
LEMMA NextModesOK ==
  ASSUME PhasesInv, NEW detected \in BOOLEAN, NEW to \in NextModes(detected)
  PROVE  /\ to \in Modes
         /\ mode = "Balance" /\ to = "Flight" => detected
         /\ mode \in Actions4 /\ to = "Balance" => mode \in mark
<1>1. failed => mode \in Actions4
  BY DEF PhasesInv
<1>2. CASE mode = "Stopped"
  BY <1>1, <1>2 DEF NextModes, Modes, Actions4
<1>3. CASE mode = "Waiting"
  BY <1>1, <1>3 DEF NextModes, Modes, Actions4
<1>4. CASE mode = "Balance"
  BY <1>1, <1>4 DEF NextModes, Modes, Actions4
<1>5. CASE mode \in Actions4
  <2>1. NextModes(detected) \subseteq
          {"Stopped", "Waiting"} \union {IF mode \in mark THEN "Balance" ELSE mode}
    BY <1>5 DEF NextModes, Actions4
  <2> QED
    BY <1>5, <2>1 DEF Modes, Actions4
<1> QED
  BY <1>2, <1>3, <1>4, <1>5 DEF PhasesInv, Modes

\* Liftoff is detected only after the whole hold.
LEMMA LiftoffOK ==
  ASSUME PhasesInv, NEW unloaded \in BOOLEAN
  PROVE  LET elapsed == LiftoffDetection(unloaded)
             detected == elapsed >= Limit["Liftoff"]
             next == IF mode # "Balance" \/ ~unloaded THEN 0
                     ELSE IF aloft < Limit["Liftoff"] THEN aloft + 1 ELSE aloft
         IN  /\ elapsed \in Nat
             /\ next \in 0 .. Limit["Liftoff"]
             /\ (IF detected THEN Limit["Liftoff"] ELSE elapsed) \in Nat
             /\ (IF detected THEN Limit["Liftoff"] ELSE elapsed) <= next
             /\ detected => next = Limit["Liftoff"]
<1>1. liftoff \in Nat /\ aloft \in 0 .. Limit["Liftoff"] /\ liftoff <= aloft
  BY DEF PhasesInv
<1> DEFINE elapsed == LiftoffDetection(unloaded)
           next == IF mode # "Balance" \/ ~unloaded THEN 0
                   ELSE IF aloft < Limit["Liftoff"] THEN aloft + 1 ELSE aloft
<1>2. /\ elapsed \in Nat /\ next \in 0 .. Limit["Liftoff"]
      /\ elapsed >= Limit["Liftoff"] => next = Limit["Liftoff"]
      /\ ~(elapsed >= Limit["Liftoff"]) => elapsed <= next
  <2>1. CASE mode = "Balance" /\ unloaded
    <3>1. elapsed = liftoff + 1
      BY <2>1 DEF LiftoffDetection, Held
    <3>2. next = IF aloft < Limit["Liftoff"] THEN aloft + 1 ELSE aloft
      BY <2>1
    <3> HIDE DEF elapsed, next
    <3> QED
      BY <1>1, <3>1, <3>2, LimitFacts
  <2>2. CASE ~(mode = "Balance" /\ unloaded)
    <3>1. elapsed = 0
      BY <2>2 DEF LiftoffDetection, Held
    <3>2. next = 0
      BY <2>2
    <3> HIDE DEF elapsed, next
    <3> QED
      BY <3>1, <3>2, LimitFacts
  <2> QED
    BY <2>1, <2>2
<1> HIDE DEF elapsed, next
<1>3. CASE elapsed >= Limit["Liftoff"]
  BY <1>2, <1>3, LimitFacts DEF elapsed, next
<1>4. CASE ~(elapsed >= Limit["Liftoff"])
  BY <1>2, <1>4, LimitFacts DEF elapsed, next
<1> QED
  BY <1>3, <1>4

LEMMA EnterModeFacts ==
  ASSUME PhasesInv, EnterMode
  PROVE  /\ liftoff' \in Nat /\ aloft' \in 0 .. Limit["Liftoff"] /\ liftoff' <= aloft'
         /\ mode' \in Modes
         /\ mode = "Balance" /\ mode' = "Flight" => aloft' = Limit["Liftoff"]
         /\ mode \in Actions4 /\ mode' = "Balance" => mode \in mark
         /\ mode' \in Actions4 => mode' # mode
         /\ spent' = 0 /\ landing' = NotLanded /\ asked' = asked
         /\ UpdateControlState(mode')
<1>1. PICK unloaded \in BOOLEAN :
        LET elapsed == LiftoffDetection(unloaded)
            detected == elapsed >= Limit["Liftoff"]
        IN  \E to \in NextModes(detected) \ (Actions4 \ asked) :
              /\ to # mode \/ to \notin Actions4
              /\ liftoff' = IF FlightResetBy(to) THEN 0
                            ELSE IF detected THEN Limit["Liftoff"] ELSE elapsed
              /\ aloft' = IF mode # "Balance" \/ ~unloaded THEN 0
                          ELSE IF aloft < Limit["Liftoff"] THEN aloft + 1 ELSE aloft
              /\ UpdateControlState(to)
              /\ spent' = 0
              /\ landing' = NotLanded
              /\ UNCHANGED asked
  BY DEF EnterMode
<1> DEFINE elapsed == LiftoffDetection(unloaded)
           detected == elapsed >= Limit["Liftoff"]
           next == IF mode # "Balance" \/ ~unloaded THEN 0
                   ELSE IF aloft < Limit["Liftoff"] THEN aloft + 1 ELSE aloft
           time == IF detected THEN Limit["Liftoff"] ELSE elapsed
<1>2. PICK to \in NextModes(detected) :
        /\ to # mode \/ to \notin Actions4
        /\ liftoff' = IF FlightResetBy(to) THEN 0 ELSE time
        /\ aloft' = next
        /\ UpdateControlState(to)
        /\ spent' = 0 /\ landing' = NotLanded /\ asked' = asked
  BY <1>1, Zenon
<1>d. detected \in BOOLEAN
  OBVIOUS
<1>3. /\ next \in 0 .. Limit["Liftoff"]
      /\ time \in Nat /\ time <= next
      /\ detected => next = Limit["Liftoff"]
  BY LiftoffOK, Zenon
<1> HIDE DEF elapsed, detected, next, time
<1>4. mode' = to
  BY <1>2 DEF UpdateControlState
<1>5. /\ to \in Modes
      /\ mode = "Balance" /\ to = "Flight" => detected
      /\ mode \in Actions4 /\ to = "Balance" => mode \in mark
  BY <1>2, <1>d, NextModesOK
<1>6. liftoff' \in Nat /\ liftoff' <= aloft'
  BY <1>2, <1>3, LimitFacts
<1> QED
  BY <1>2, <1>3, <1>4, <1>5, <1>6

LEMMA EnterModeInv == ASSUME PhasesInv, EnterMode PROVE PhasesInv'
<1>1. Controllers /\ mark \subseteq Actions4
  BY DEF PhasesInv
<1>2. UpdateControlState(mode') /\ mode' \in Modes /\ (mode' \in Actions4 => mode' # mode)
  BY EnterModeFacts
<1>3. Controllers'
  <2>1. FlightOK(flight') /\ FlightOK(air')
    BY <1>1, <1>2, FlightResetOK DEF UpdateControlState, Controllers
  <2>2. JumpOK(jump') /\ ClimbOK(climb') /\ RecoveryOK(recovery')
    BY <1>1, <1>2, ResetsOK DEF UpdateControlState, Controllers
  <2> QED
    BY <2>1, <2>2 DEF Controllers
<1>4. mark' \subseteq Actions4 /\ failed' = FALSE
  BY <1>1, <1>2 DEF UpdateControlState
<1>5. spent' = 0 /\ landing' = NotLanded
  BY EnterModeFacts
<1>6. ASSUME mode' = "Flight" PROVE InFlight'
  <2>1. flight' = FlightReset /\ mark' = mark \ {"Flight"}
    BY <1>2, <1>6 DEF UpdateControlState, FlightResetBy, ResetBy, Entered, Actions4
  <2> QED
    BY <1>5, <2>1, FlightResetOK DEF InFlight, Told
<1>7. ASSUME mode' = "Jump" PROVE InJump'
  <2>1. jump' = JumpReset /\ mark' = mark \ {"Jump"}
    BY <1>2, <1>7 DEF UpdateControlState, ResetBy, Entered, Actions4
  <2> QED
    BY <1>5, <2>1, ResetsOK DEF InJump, Told
<1>8. ASSUME mode' = "ClimbStairs" PROVE InClimb'
  <2>1. climb' = ClimbReset
    BY <1>2, <1>8 DEF UpdateControlState, ResetBy, Entered, Actions4
  <2>2. 0 <= LongestAction["ClimbStairs"]
    BY LimitFacts DEF LongestAction
  <2> QED
    BY <1>5, <2>1, <2>2, ResetsOK DEF InClimb, Told
<1>9. ASSUME mode' = "Recovery" PROVE InRecovery'
  <2>1. recovery' = RecoveryReset
    BY <1>2, <1>9 DEF UpdateControlState, ResetBy, Entered, Actions4
  <2>2. 0 <= LongestAction["Recovery"]
    BY LimitFacts DEF LongestAction
  <2> QED
    BY <1>5, <2>1, <2>2, ResetsOK DEF InRecovery, Told
<1> QED
  BY <1>3, <1>4, <1>5, <1>6, <1>7, <1>8, <1>9, EnterModeFacts, FlightResetOK DEF PhasesInv

LEMMA PhasesStepInv == PhasesInv /\ [PhasesNext]_phaseVars => PhasesInv'
<1> SUFFICES ASSUME PhasesInv, [PhasesNext]_phaseVars PROVE PhasesInv'
  OBVIOUS
<1>1. CASE EnterMode
  BY <1>1, EnterModeInv
<1>2. CASE RunAction
  BY <1>2, RunActionFrame, RunFlightInv, RunJumpInv, RunClimbInv, RunRecoveryInv DEF Actions4
<1>3. CASE UNCHANGED phaseVars
  BY <1>3 DEF phaseVars, PhasesInv, Controllers, InFlight, InJump, InClimb, InRecovery, Told
<1> QED
  BY <1>1, <1>2, <1>3 DEF PhasesNext

(***************************************************************************)
(* The controllers keep their types: no timer grows past its limit.        *)
(***************************************************************************)
THEOREM PhasesTypeCorrect == PhasesSpec => []PhasesTypeOK
<1>1. PhasesInv => PhasesTypeOK
  <2> SUFFICES ASSUME PhasesInv PROVE PhasesTypeOK
    OBVIOUS
  <2>1. flight \in FlightRecords /\ air \in FlightRecords
    BY DEF PhasesInv, Controllers, FlightOK
  <2>2. jump \in JumpRecords /\ climb \in ClimbRecords /\ recovery \in RecoveryRecords
    BY DEF PhasesInv, Controllers, JumpOK, ClimbOK, RecoveryOK
  <2>3. climb.phase \in {"Init", "Motion1", "Motion2", "Return", "Failed"}
        /\ recovery.phase \in {"Init", "TurnOver", "DrawBack", "Return", "Failed"}
    BY <2>2 DEF ClimbRecords, RecoveryRecords
  <2>4. liftoff \in 0 .. Limit["Liftoff"] /\ aloft \in 0 .. Limit["Liftoff"]
    BY LimitFacts DEF PhasesInv
  <2>5. landing.held \subseteq Sides
    BY DEF PhasesInv, Landings
  <2> QED
    BY <2>1, <2>2, <2>3, <2>4, <2>5 DEF PhasesInv, PhasesTypeOK, Modes, JumpRecords, JumpPhases
<1> QED
  BY <1>1, PhasesInitInv, PhasesStepInv, PTL DEF PhasesSpec

(***************************************************************************)
(* Every action ends within the time its timeouts add up to, whatever the  *)
(* sensors say and for every set of limits; a recovery that was reversed   *)
(* too often has failed.                                                   *)
(***************************************************************************)
THEOREM ActionsEndCorrect == PhasesSpec => []ActionsEnd
<1>1. PhasesInv => ActionsEnd
  <2> SUFFICES ASSUME PhasesInv PROVE ActionsEnd
    OBVIOUS
  <2>0. Controllers /\ spent \in Nat
    BY DEF PhasesInv
  <2>1. recovery.reversals > Limit["Reversals"] => recovery.phase = "Failed"
    BY <2>0 DEF Controllers, RecoveryOK
  <2>2. ASSUME mode = "Flight"
        PROVE  /\ spent <= Limit["Flight"]
               /\ spent = Limit["Flight"] => failed \/ "Flight" \in mark
    <3>1. InFlight /\ FlightOK(flight)
      BY <2>2 DEF PhasesInv, Controllers
    <3>2. /\ flight.phase \in {"Init", "Air", "Return", "Failed"}
          /\ flight.elapsed \in 0 .. Limit["Flight"]
          /\ flight.phase = "Air" => flight.elapsed < Limit["Flight"]
      BY <3>1 DEF FlightOK, FlightRecords
    <3> QED
      BY <2>0, <3>1, <3>2, LimitFacts DEF InFlight, Told
  <2>3. ASSUME mode = "Jump"
        PROVE  /\ spent <= Limit["Jump"]
               /\ spent = Limit["Jump"] => failed \/ "Jump" \in mark
    <3>1. InJump /\ JumpOK(jump)
      BY <2>3 DEF PhasesInv, Controllers
    <3>2. jump.total \in 0 .. Limit["Jump"]
          /\ (jump.phase \notin {"Return", "Failed"} => jump.total < Limit["Jump"])
      BY <3>1 DEF JumpOK, JumpRecords
    <3> QED
      BY <2>0, <3>1, <3>2, LimitFacts DEF InJump, Told
  <2>4. ASSUME mode = "ClimbStairs"
        PROVE  /\ spent <= 1 + Limit["Motion1"] + Limit["Motion2"]
               /\ spent = 1 + Limit["Motion1"] + Limit["Motion2"] =>
                    failed \/ "ClimbStairs" \in mark
    <3>1. InClimb /\ ClimbOK(climb)
      BY <2>4 DEF PhasesInv, Controllers
    <3>2. climb.phase \in {"Init", "Motion1", "Motion2", "Return", "Failed"}
          /\ climb.elapsed \in Nat
      BY <3>1 DEF ClimbOK, ClimbRecords
    <3> QED
      BY <2>0, <3>1, <3>2, LimitFacts DEF InClimb, ClimbOK, Told, LongestAction
  <2>5. ASSUME mode = "Recovery"
        PROVE  /\ spent <= 1 + Limit["Turnover"] + Limit["Drawback"]
               /\ spent = 1 + Limit["Turnover"] + Limit["Drawback"] =>
                    failed \/ "Recovery" \in mark
    <3>1. InRecovery /\ RecoveryOK(recovery)
      BY <2>5 DEF PhasesInv, Controllers
    <3>2. recovery.phase \in {"Init", "TurnOver", "DrawBack", "Return", "Failed"}
          /\ recovery.elapsed \in Nat
      BY <3>1 DEF RecoveryOK, RecoveryRecords
    <3> QED
      BY <2>0, <3>1, <3>2, LimitFacts DEF InRecovery, RecoveryOK, Told, LongestAction
  <2> QED
    BY <2>1, <2>2, <2>3, <2>4, <2>5 DEF ActionsEnd, Actions4, LongestAction
<1> QED
  BY <1>1, PhasesInitInv, PhasesStepInv, PTL DEF PhasesSpec

(***************************************************************************)
(* A flight is entered only after the whole liftoff hold, and a flight or  *)
(* a jump is left for Balance only when both legs have held contact in it. *)
(***************************************************************************)
THEOREM FlightHeldCorrect == PhasesSpec => FlightHeld
<1> DEFINE Allowed ==
      /\ mode = "Balance" /\ mode' = "Flight" => aloft' = Limit["Liftoff"]
      /\ mode \in {"Flight", "Jump"} /\ mode' = "Balance" => landing.held = Sides
<1>1. PhasesInv /\ [PhasesNext]_phaseVars => [Allowed]_phaseVars
  <2> SUFFICES ASSUME PhasesInv, PhasesNext PROVE Allowed
    OBVIOUS
  <2>1. CASE RunAction
    BY <2>1, RunActionFrame DEF Actions4
  <2>2. CASE EnterMode
    <3>1. /\ mode = "Balance" /\ mode' = "Flight" => aloft' = Limit["Liftoff"]
          /\ mode \in Actions4 /\ mode' = "Balance" => mode \in mark
      BY <2>2, EnterModeFacts
    <3>2. ASSUME mode = "Flight", "Flight" \in mark PROVE landing.held = Sides
      <4>1. InFlight /\ FlightOK(flight)
        BY <3>2 DEF PhasesInv, Controllers
      <4> QED
        BY <3>2, <4>1 DEF InFlight, FlightOK, Tracks
    <3>3. ASSUME mode = "Jump", "Jump" \in mark PROVE landing.held = Sides
      <4>1. InJump
        BY <3>3 DEF PhasesInv
      <4> QED
        BY <3>3, <4>1 DEF InJump
    <3> QED
      BY <3>1, <3>2, <3>3 DEF Actions4
  <2> QED
    BY <2>1, <2>2 DEF PhasesNext
<1> QED
  BY <1>1, PhasesInitInv, PhasesStepInv, PTL DEF PhasesSpec, FlightHeld
=============================================================================
