------------------------ MODULE ChassisControlProofs ------------------------
(***************************************************************************)
(* Proofs about the chassis cycle, for any arming and frame periods.       *)
(***************************************************************************)
EXTENDS ChassisControl, TLAPS

-----------------------------------------------------------------------------
(* One cycle at a time.                                                      *)

IsInput(in) ==
  /\ in.fresh \in BOOLEAN /\ in.remote \in Messages
  /\ in.imu \in BOOLEAN /\ in.feedback \in BOOLEAN /\ in.tilted \in BOOLEAN
  /\ in.dmReady \in BOOLEAN /\ in.liftoff \in BOOLEAN

\* A cycle with an input and a report, which is Running where no action runs.
IsCycle(in, result) ==
  LET l == EdgeLatched(in)
      to == DetermineNextState(in, l)
  IN  /\ enabled' = RequestedEnable(in) /\ healthy' = Healthy(in)
      /\ to \in Actions \/ result = "Running"
      /\ CycleTo(in, l, to, result)

\* Every step of the specification is such a cycle.
LEMMA NextIsCycle ==
  ASSUME TypeOK, Next
  PROVE  \E in, result :
           IsInput(in) /\ result \in Results /\ remote' = in.remote /\ IsCycle(in, result)
<1>1. PICK link \in Links, s \in Sensors, liftoff \in Liftoffs :
        remote' = link.remote /\ Cycle(Snapshot(link, s, liftoff), Results)
  BY DEF Next, CycleReporting
<1>2. link.fresh \in BOOLEAN /\ link.remote \in Messages
  <2>1. CASE link \in [fresh : {TRUE}, remote : Messages]
    BY <2>1
  <2>2. CASE link = [fresh |-> FALSE, remote |-> remote]
    BY <2>2 DEF TypeOK
  <2> QED
    BY <2>1, <2>2 DEF Links
<1>3. /\ s.imu \in BOOLEAN /\ s.feedback \in BOOLEAN /\ s.tilted \in BOOLEAN
      /\ s.dmReady \in BOOLEAN /\ liftoff \in BOOLEAN
  BY DEF Sensors, Liftoffs
<1>4. IsInput(Snapshot(link, s, liftoff)) /\ Snapshot(link, s, liftoff).remote = link.remote
  BY <1>2, <1>3 DEF IsInput, Snapshot
<1>5. \E result \in Results : IsCycle(Snapshot(link, s, liftoff), result)
  <2> DEFINE in == Snapshot(link, s, liftoff)
             to == DetermineNextState(in, EdgeLatched(in))
  <2>1. /\ enabled' = RequestedEnable(in) /\ healthy' = Healthy(in)
        /\ \E result \in IF to \in Actions THEN Results ELSE Results \intersect {"Running"} :
             CycleTo(in, EdgeLatched(in), to, result)
    BY <1>1 DEF Cycle
  <2> HIDE DEF in, to
  <2>2. PICK result \in IF to \in Actions THEN Results ELSE Results \intersect {"Running"} :
          CycleTo(in, EdgeLatched(in), to, result)
    BY <2>1
  <2>3. result \in Results /\ (to \in Actions \/ result = "Running")
    OBVIOUS
  <2> QED
    BY <2>1, <2>2, <2>3 DEF IsCycle, in, to
<1> QED
  BY <1>1, <1>4, <1>5

\* The latches DetermineNextState sees.
LEMMA LatchesSeen ==
  ASSUME latch \in Latches, NEW in, IsInput(in)
  PROVE  /\ EdgeLatched(in) \in Latches
         /\ ~FreshDisable(in) =>
              /\ EdgeLatched(in).action = latch.action
              /\ EdgeLatched(in).recovery <=> latch.recovery \/ EnableEdge(in)
              /\ EdgeLatched(in).completed =
                   IF EnableEdge(in) THEN latch.completed \ {"Recovery"} ELSE latch.completed
              /\ EdgeLatched(in).failed =
                   IF EnableEdge(in) THEN latch.failed \ {"Recovery"} ELSE latch.failed
<1>1. Cleared(in) \in Latches
  BY DEF Cleared, NoLatch, Latches
<1>2. TiltLatched(in) \in Latches
  BY <1>1 DEF TiltLatched, Latches
<1>3. /\ TiltLatched(in).action = Cleared(in).action
      /\ TiltLatched(in).recovery = Cleared(in).recovery
      /\ TiltLatched(in).completed = Cleared(in).completed
      /\ TiltLatched(in).failed = Cleared(in).failed
  BY <1>1 DEF TiltLatched, Latches
<1>4. EdgeLatched(in) \in Latches
  BY <1>2 DEF EdgeLatched, Latches
<1>5. ASSUME ~FreshDisable(in)
      PROVE  Cleared(in) = latch
  BY <1>5 DEF Cleared
<1>6. CASE EnableEdge(in)
  BY <1>2, <1>3, <1>4, <1>5, <1>6 DEF EdgeLatched, Latches
<1>7. CASE ~EnableEdge(in)
  <2>1. EdgeLatched(in) = TiltLatched(in)
    BY <1>7 DEF EdgeLatched
  <2> QED
    BY <1>3, <1>4, <1>5, <1>7, <2>1
<1> QED
  BY <1>6, <1>7

LEMMA SettledType ==
  ASSUME NEW in, NEW l \in Latches, NEW to \in States, NEW result \in Results
  PROVE  /\ Settled(in, l, to) \in Latches
         /\ Reported(Settled(in, l, to), to, result) \in Latches
<1>1. Settled(in, l, to) \in Latches
  BY DEF Settled, Latches
<1> QED
  BY <1>1 DEF Reported, Latches

\* What DetermineNextState has checked before it lets the chassis operate.
LEMMA NextState ==
  ASSUME state \in States, NEW in, NEW l
  PROVE  /\ DetermineNextState(in, l) \in States
         /\ DetermineNextState(in, l) # "Disabled" => RequestedEnable(in)
         /\ DetermineNextState(in, l) \in Operating =>
              /\ RequestedEnable(in) /\ ~l.action /\ in.imu /\ in.feedback /\ in.dmReady
              /\ ArmComplete
BY DEF DetermineNextState, NominalNext, OperatingNext, States, Stopped, Operating, Actions

\* Which latches a fault or a running recovery leaves standing.
LEMMA SettledLatches ==
  ASSUME NEW in, NEW l \in Latches, NEW to \in States, NEW result \in Results
  PROVE  LET after == Reported(Settled(in, l, to), to, result)
         IN  /\ l.action => after.action
             /\ to # state /\ state \in l.failed => after.action
             /\ ~after.recovery => ~l.recovery \/ (state = "Recovery" /\ to = "Balance")
             /\ "Recovery" \in after.completed =>
                  "Recovery" \in l.completed \/ (to = "Recovery" /\ result = "Finished")
             /\ to \in Actions /\ result = "Failed" => to \in after.failed
BY DEF Settled, Reported, Latches, Actions

-----------------------------------------------------------------------------
(* Type correctness.                                                         *)

LEMMA ActuatorType ==
  ASSUME TypeOK, NEW to \in States
  PROVE  /\ ArmTicksAfter(to) \in 0 .. ArmTicks
         /\ JointFrame(to) \in Frames /\ WheelFrame(to) \in Frames
<1>1. ArmTicks \in Nat /\ armTicks \in 0 .. ArmTicks
  BY ScheduleAssumption DEF ScheduleAssumption, TypeOK
<1>2. ArmTicksOnEntry(to) \in 0 .. ArmTicks
  BY <1>1 DEF ArmTicksOnEntry
<1>3. ArmTicksAfter(to) \in 0 .. ArmTicks
  BY <1>1, <1>2 DEF ArmTicksAfter, Stopped
<1>4. joints \in Frames /\ wheels \in Frames
  BY DEF TypeOK
<1>5. JointFrame(to) \in Frames
  BY <1>4 DEF JointFrame, Frames, States, Stopped, Operating, Actions
<1>6. WheelFrame(to) \in Frames
  BY <1>4 DEF WheelFrame, Frames, States, Stopped, Operating, Actions
<1> QED
  BY <1>3, <1>5, <1>6

LEMMA InitTypeOK == Init => TypeOK
<1> SUFFICES ASSUME Init
             PROVE  TypeOK
  OBVIOUS
<1>1. latch \in Latches
  BY DEF Init, NoLatch, Latches
<1>2. remote \in Messages /\ state \in States
  BY DEF Init, Messages, States, Stopped
<1>3. cooldown \in 0 .. JumpCooldown /\ armTicks \in 0 .. ArmTicks
  BY ScheduleAssumption DEF ScheduleAssumption, Init
<1>4. ticks \in 0 .. ExitPeriod - 1
  BY ScheduleAssumption DEF ScheduleAssumption, Init
<1>5. joints \in Frames /\ wheels \in Frames
  BY DEF Init, Frames
<1>6. enabled \in BOOLEAN /\ healthy \in BOOLEAN /\ recovered \in BOOLEAN
  BY DEF Init
<1>7. faulted \subseteq {"Tilt", "Action"}
  BY DEF Init
<1>8. held \in 0 .. ExitPeriod
  BY ScheduleAssumption DEF Init
<1> QED
  BY <1>1, <1>2, <1>3, <1>4, <1>5, <1>6, <1>7, <1>8 DEF TypeOK

LEMMA CycleTypeOK ==
  ASSUME TypeOK, [Next]_vars
  PROVE  TypeOK'
<1>1. CASE UNCHANGED vars
  BY <1>1 DEF TypeOK, vars
<1>2. CASE Next
  <2>1. PICK in, result : /\ IsInput(in) /\ result \in Results
                          /\ remote' = in.remote /\ IsCycle(in, result)
    BY <1>2, NextIsCycle
  <2> DEFINE l == EdgeLatched(in)
  <2> DEFINE to == DetermineNextState(in, l)
  <2>2. l \in Latches
    BY <2>1, LatchesSeen DEF TypeOK
  <2>3. to \in States
    BY NextState DEF TypeOK
  <2>4. state' = to /\ state' \in States
    BY <2>1, <2>3 DEF IsCycle, CycleTo
  <2>5. latch' \in Latches
    <3>1. latch' = Reported(Settled(in, l, to), to, result)
      BY <2>1 DEF IsCycle, CycleTo
    <3> QED
      BY <2>1, <2>2, <2>3, <3>1, SettledType
  <2>6. enabled' \in BOOLEAN /\ healthy' \in BOOLEAN
    <3>1. in.fresh \in BOOLEAN /\ in.remote.enable \in BOOLEAN
      BY <2>1 DEF IsInput, Messages
    <3> QED
      BY <2>1, <3>1 DEF IsCycle, CycleTo, IsInput, RequestedEnable, Healthy
  <2>7. remote' \in Messages
    BY <2>1 DEF IsInput
  <2>8. cooldown' \in 0 .. JumpCooldown
    BY <2>1, ScheduleAssumption DEF ScheduleAssumption, IsCycle, CycleTo, TypeOK
  <2>9. armTicks' \in 0 .. ArmTicks /\ joints' \in Frames /\ wheels' \in Frames
    BY <2>1, <2>3, ActuatorType DEF IsCycle, CycleTo
  <2>10. ticks' \in 0 .. ExitPeriod - 1
    <3>1. ticks \in Nat /\ ExitPeriod \in Nat /\ ExitPeriod > 0
      BY ScheduleAssumption DEF ScheduleAssumption, TypeOK
    <3>2. ticks' = (ticks + 1) % ExitPeriod
      BY <2>1 DEF IsCycle, CycleTo
    <3> QED
      BY <3>1, <3>2
  <2>11. faulted' \subseteq {"Tilt", "Action"}
    BY <2>1 DEF IsCycle, CycleTo, TypeOK
  <2>12. recovered' \in BOOLEAN
    BY <2>1 DEF IsCycle, CycleTo, TypeOK
  <2>13. held' \in 0 .. ExitPeriod
    <3>1. held' = HeldAfter(to)
      BY <2>1 DEF IsCycle, CycleTo
    <3> QED
      BY <3>1, ScheduleAssumption DEF HeldAfter, TypeOK
  <2> QED
    BY <2>4, <2>5, <2>6, <2>7, <2>8, <2>9, <2>10, <2>11, <2>12, <2>13 DEF TypeOK
<1> QED
  BY <1>1, <1>2

(* Every variable of the chassis cycle keeps its type, the counters of     *)
(* arming and of the jump cooldown their bounds, for any schedule.         *)
THEOREM TypeCorrect == Spec => []TypeOK
<1>1. Init => TypeOK
  BY InitTypeOK
<1>2. TypeOK /\ [Next]_vars => TypeOK'
  BY CycleTypeOK
<1> QED
  BY <1>1, <1>2, PTL DEF Spec

-----------------------------------------------------------------------------
(* Operation.                                                                *)

(* The chassis operates only in a cycle whose own inputs are fresh and good *)
(* and after an arming of full length, for any schedule.                    *)
THEOREM SafeOperation == Spec => []OperatingSafely
<1>1. Init => OperatingSafely
  BY DEF Init, OperatingSafely, Operating, Actions
<1>2. TypeOK /\ OperatingSafely /\ [Next]_vars => OperatingSafely'
  <2> SUFFICES ASSUME TypeOK, OperatingSafely, [Next]_vars
               PROVE  OperatingSafely'
    OBVIOUS
  <2>1. CASE UNCHANGED vars
    BY <2>1 DEF OperatingSafely, vars
  <2>2. CASE Next
    <3>1. PICK in, result : IsInput(in) /\ IsCycle(in, result)
      BY <2>2, NextIsCycle
    <3> DEFINE to == DetermineNextState(in, EdgeLatched(in))
    <3>2. state' = to /\ healthy' = Healthy(in) /\ armTicks' = ArmTicksAfter(to)
      BY <3>1 DEF IsCycle, CycleTo
    <3> SUFFICES ASSUME to \in Operating
                 PROVE  healthy' /\ armTicks' = ArmTicks
      BY <3>2 DEF OperatingSafely
    <3>3. RequestedEnable(in) /\ in.imu /\ in.feedback /\ in.dmReady /\ ArmComplete
      BY NextState DEF TypeOK
    <3>4. healthy'
      BY <3>2, <3>3 DEF Healthy
    <3>5. to \notin Stopped \union {"DmArming"}
      BY DEF Operating, Actions, Stopped
    <3>6. armTicks' = armTicks
      BY <3>2, <3>5 DEF ArmTicksAfter, ArmTicksOnEntry
    <3> QED
      BY <3>3, <3>4, <3>6 DEF ArmComplete
  <2> QED
    BY <2>1, <2>2
<1> QED
  BY <1>1, <1>2, TypeCorrect, PTL DEF Spec

-----------------------------------------------------------------------------
(* The latches.  What a cycle may assume of the ones before it: the state     *)
(* tells whether the chassis is enabled, and whoever does not owe a recovery  *)
(* has had one.                                                               *)

EnabledInv == state = "Disabled" <=> ~enabled

RecoveryInv ==
  /\ enabled /\ ~latch.recovery => recovered
  /\ "Recovery" \in latch.completed => recovered
  /\ RecoveryFirst

FailureInv ==
  "Action" \in faulted => latch.action \/ (state \in Actions /\ state \in latch.failed)

LatchInv == EnabledInv /\ RecoveryInv /\ FailureInv

\* An operating state is entered with an old enable: the edge itself arms.
LEMMA OperatingWasEnabled ==
  ASSUME TypeOK, EnabledInv, NEW in, NEW l, DetermineNextState(in, l) \in Operating
  PROVE  enabled /\ RequestedEnable(in) /\ ~EnableEdge(in) /\ ~FreshDisable(in)
<1>1. RequestedEnable(in)
  BY NextState DEF TypeOK
<1>2. state # "Disabled"
  BY DEF DetermineNextState, NominalNext, OperatingNext, Operating, Actions
<1>3. enabled
  BY <1>2 DEF EnabledInv, TypeOK
<1> QED
  BY <1>1, <1>3 DEF EnableEdge, FreshDisable, RequestedEnable

\* How a state other than Recovery comes to operate.
LEMMA OperatingReason ==
  ASSUME state \in States, NEW in, NEW l,
         DetermineNextState(in, l) \in Operating \ {"Recovery"}
  PROVE  \/ state \in Operating \ {"Recovery"}
         \/ state = "Recovery" /\ "Recovery" \in l.completed
         \/ ~l.recovery
BY DEF DetermineNextState, NominalNext, OperatingNext, Operating, Actions

LEMMA InitLatchInv == Init => LatchInv
BY DEF Init, NoLatch, LatchInv, EnabledInv, RecoveryInv, RecoveryFirst, FailureInv,
       Operating, Actions

LEMMA CycleEnabled ==
  ASSUME TypeOK, EnabledInv, NEW in, NEW result, IsInput(in), IsCycle(in, result)
  PROVE  EnabledInv'
<1>1. state' = DetermineNextState(in, EdgeLatched(in)) /\ enabled' = RequestedEnable(in)
  BY DEF IsCycle, CycleTo
<1>2. RequestedEnable(in) => DetermineNextState(in, EdgeLatched(in)) # "Disabled"
  BY DEF TypeOK, DetermineNextState, NominalNext, OperatingNext, Operating, Actions
<1>3. ~RequestedEnable(in) => DetermineNextState(in, EdgeLatched(in)) = "Disabled"
  BY DEF DetermineNextState
<1> QED
  BY <1>1, <1>2, <1>3 DEF EnabledInv

LEMMA CycleRecovery ==
  ASSUME TypeOK, EnabledInv, RecoveryInv, NEW in, NEW result \in Results,
         IsInput(in), IsCycle(in, result)
  PROVE  RecoveryInv'
<1> DEFINE l == EdgeLatched(in)
<1> DEFINE to == DetermineNextState(in, l)
<1>1. l \in Latches /\ to \in States /\ state \in States
  BY LatchesSeen, NextState DEF TypeOK
<1>2. /\ state' = to /\ enabled' = RequestedEnable(in)
      /\ latch' = Reported(Settled(in, l, to), to, result)
      /\ recovered' = \/ recovered /\ ~EnableEdge(in)
                      \/ to = "Recovery" /\ result = "Finished"
  BY DEF IsCycle, CycleTo
<1>3. "Recovery" \in l.completed => recovered /\ ~EnableEdge(in)
  <2>1. CASE FreshDisable(in)
    <3>1. Cleared(in) = NoLatch
      BY <2>1 DEF Cleared
    <3>2. TiltLatched(in).completed = {}
      BY <3>1 DEF TiltLatched, NoLatch
    <3>3. ~EnableEdge(in)
      BY <2>1 DEF FreshDisable, EnableEdge, RequestedEnable
    <3> QED
      BY <3>2, <3>3 DEF EdgeLatched
  <2>2. CASE ~FreshDisable(in)
    BY <2>2, LatchesSeen DEF RecoveryInv, TypeOK
  <2> QED
    BY <2>1, <2>2
<1>4. state = "Recovery" /\ to = "Balance" => "Recovery" \in l.completed
  BY DEF DetermineNextState, NominalNext, OperatingNext, Operating, Actions
<1>5. ASSUME enabled', ~latch'.recovery
      PROVE  recovered'
  <2>1. ~l.recovery \/ (state = "Recovery" /\ to = "Balance")
    BY <1>1, <1>2, <1>5, SettledLatches
  <2>2. CASE state = "Recovery" /\ to = "Balance"
    BY <1>2, <1>3, <1>4, <2>2
  <2>3. CASE ~l.recovery
    <3>1. ~FreshDisable(in)
      BY <1>2, <1>5 DEF FreshDisable, RequestedEnable
    <3>2. ~latch.recovery /\ ~EnableEdge(in)
      BY <2>3, <3>1, LatchesSeen DEF TypeOK
    <3>3. enabled
      BY <1>2, <1>5, <3>2 DEF EnableEdge
    <3> QED
      BY <1>2, <3>2, <3>3 DEF RecoveryInv
  <2> QED
    BY <2>1, <2>2, <2>3
<1>6. ASSUME "Recovery" \in latch'.completed
      PROVE  recovered'
  <2>1. "Recovery" \in l.completed \/ (to = "Recovery" /\ result = "Finished")
    BY <1>1, <1>2, <1>6, SettledLatches
  <2> QED
    BY <1>2, <1>3, <2>1
<1>7. ASSUME to \in Operating \ {"Recovery"}
      PROVE  recovered'
  <2>1. enabled /\ ~EnableEdge(in) /\ ~FreshDisable(in)
    BY <1>7, OperatingWasEnabled
  <2>2. CASE state \in Operating \ {"Recovery"}
    BY <1>2, <2>1, <2>2 DEF RecoveryInv, RecoveryFirst
  <2>3. CASE state = "Recovery" /\ "Recovery" \in l.completed
    BY <1>2, <1>3, <2>3
  <2>4. CASE ~l.recovery
    <3>1. ~latch.recovery
      BY <2>1, <2>4, LatchesSeen DEF TypeOK
    <3> QED
      BY <1>2, <2>1, <3>1 DEF RecoveryInv
  <2> QED
    BY <1>1, <1>7, <2>2, <2>3, <2>4, OperatingReason
<1> QED
  BY <1>2, <1>5, <1>6, <1>7 DEF RecoveryInv, RecoveryFirst

\* A failed action that is not yet latched is still the current state.
LEMMA CycleFailure ==
  ASSUME TypeOK, EnabledInv, FailureInv, NEW in, NEW result \in Results,
         IsInput(in), IsCycle(in, result)
  PROVE  /\ FailureInv'
         /\ "Action" \in faulted /\ "Action" \in faulted' => state' \notin Operating
<1> DEFINE l == EdgeLatched(in)
<1> DEFINE to == DetermineNextState(in, l)
<1>1. l \in Latches /\ to \in States /\ state \in States
  BY LatchesSeen, NextState DEF TypeOK
<1>2. /\ state' = to
      /\ latch' = Reported(Settled(in, l, to), to, result)
      /\ to \in Actions \/ result = "Running"
      /\ faulted' = (IF FreshDisable(in) THEN {} ELSE faulted)
                      \union (IF to = "TiltFault" THEN {"Tilt"} ELSE {})
                      \union (IF result = "Failed" THEN {"Action"} ELSE {})
  BY DEF IsCycle, CycleTo
<1>3. ASSUME result = "Failed"
      PROVE  FailureInv'
  <2>1. to \in Actions
    BY <1>2, <1>3 DEF Results
  <2>2. to \in latch'.failed
    BY <1>1, <1>2, <1>3, <2>1, SettledLatches
  <2> QED
    BY <1>2, <2>1, <2>2 DEF FailureInv
<1>4. ASSUME "Action" \in faulted, ~FreshDisable(in)
      PROVE  l.action \/ (state \in Actions /\ state \in l.failed)
  <2>1. CASE latch.action
    BY <1>4, <2>1, LatchesSeen DEF TypeOK
  <2>2. CASE state \in Actions /\ state \in latch.failed
    <3>1. ~EnableEdge(in)
      BY <2>2 DEF EnabledInv, EnableEdge, Actions
    <3> QED
      BY <1>4, <2>2, <3>1, LatchesSeen DEF TypeOK
  <2> QED
    BY <1>4, <2>1, <2>2 DEF FailureInv
<1>5. ASSUME "Action" \in faulted, ~FreshDisable(in)
      PROVE  to \notin Operating
  BY <1>4, <1>5 DEF DetermineNextState, NominalNext, OperatingNext, Operating, Actions
<1>6. ASSUME "Action" \in faulted, ~FreshDisable(in)
      PROVE  FailureInv'
  <2>1. CASE l.action
    BY <1>1, <1>2, <2>1, SettledLatches DEF FailureInv
  <2>2. CASE state \in Actions /\ state \in l.failed
    <3>1. to # state
      BY <1>5, <1>6, <2>2 DEF Operating
    <3> QED
      BY <1>1, <1>2, <2>2, <3>1, SettledLatches DEF FailureInv
  <2> QED
    BY <1>4, <1>6, <2>1, <2>2
<1>7. "Action" \in faulted' => result = "Failed" \/ ("Action" \in faulted /\ ~FreshDisable(in))
  BY <1>2
<1>8. FreshDisable(in) => to \notin Operating
  BY DEF DetermineNextState, FreshDisable, RequestedEnable, Operating, Actions
<1> QED
  BY <1>2, <1>3, <1>5, <1>6, <1>7, <1>8 DEF FailureInv

LEMMA LatchStep ==
  ASSUME TypeOK, LatchInv, [Next]_vars
  PROVE  /\ LatchInv'
         /\ [ "Action" \in faulted /\ "Action" \in faulted' => state' \notin Operating ]_vars
<1>1. CASE UNCHANGED vars
  BY <1>1 DEF vars, LatchInv, EnabledInv, RecoveryInv, RecoveryFirst, FailureInv
<1>2. CASE Next
  <2>1. PICK in, result : IsInput(in) /\ result \in Results /\ IsCycle(in, result)
    BY <1>2, NextIsCycle
  <2>2. EnabledInv'
    BY <2>1, CycleEnabled DEF LatchInv
  <2>3. RecoveryInv'
    BY <2>1, CycleRecovery DEF LatchInv
  <2>4. /\ FailureInv'
        /\ "Action" \in faulted /\ "Action" \in faulted' => state' \notin Operating
    BY <2>1, CycleFailure DEF LatchInv
  <2> QED
    BY <2>2, <2>3, <2>4 DEF LatchInv
<1> QED
  BY <1>1, <1>2

(* No balance, flight, jump or climb before a recovery has finished since  *)
(* the last rising edge of the remote enable.                              *)
THEOREM RecoveryCorrect == Spec => []RecoveryFirst
<1>1. TypeOK /\ LatchInv /\ [Next]_vars => LatchInv'
  BY LatchStep
<1>2. LatchInv => RecoveryFirst
  BY DEF LatchInv, RecoveryInv
<1> QED
  BY <1>1, <1>2, InitLatchInv, TypeCorrect, PTL DEF Spec

(* A failed action keeps the chassis from operating until a fresh disable, *)
(* whatever other faults and lost links come in between.                   *)
THEOREM FailureCorrect == Spec => FailureLatched
<1>1. TypeOK /\ LatchInv /\ [Next]_vars => LatchInv'
  BY LatchStep
<1>2. TypeOK /\ LatchInv /\ [Next]_vars =>
        [ "Action" \in faulted /\ "Action" \in faulted' => state' \notin Operating ]_vars
  BY LatchStep
<1> QED
  BY <1>1, <1>2, InitLatchInv, TypeCorrect, PTL DEF Spec, FailureLatched

-----------------------------------------------------------------------------
(* Arming.                                                                   *)

\* A quotient and a remainder are the only ones.
LEMMA RemainderUnique ==
  ASSUME NEW a \in Nat, NEW b \in Nat, b > 0, NEW q \in Nat, NEW r \in Nat, r < b, a = q * b + r
  PROVE  a % b = r
<1> DEFINE s == a \div b
           t == a % b
<1>1. s \in Nat /\ t \in Nat /\ t < b /\ a = s * b + t
  BY SMT
<1> HIDE DEF s, t
<1>2. ASSUME NEW x \in Nat, NEW y \in Nat, x < y
      PROVE  x * b + b <= y * b
  BY <1>2, SMT
<1>3. s * b \in Nat /\ q * b \in Nat
  BY <1>1, SMT
<1>4. ~(s < q)
  <2>1. SUFFICES ASSUME s < q PROVE FALSE
    OBVIOUS
  <2>2. s * b + b <= q * b
    BY <1>1, <1>2, <2>1
  <2> QED
    BY <1>1, <1>3, <2>2, SMT
<1>5. ~(q < s)
  <2>1. SUFFICES ASSUME q < s PROVE FALSE
    OBVIOUS
  <2>2. q * b + b <= s * b
    BY <1>1, <1>2, <2>1
  <2> QED
    BY <1>1, <1>3, <2>2, SMT
<1>6. s = q
  BY <1>1, <1>4, <1>5, SMT
<1>7. t = r
  BY <1>1, <1>3, <1>6, SMT
<1> QED
  BY <1>7 DEF t

\* The phase of the mode frames goes on over the wrap of the loop's ticks.
LEMMA NextPhase ==
  ASSUME NEW t \in 0 .. ExitPeriod - 1
  PROVE  /\ t % ModePeriod \in 0 .. ModePeriod - 1
         /\ ((t + 1) % ExitPeriod) % ModePeriod =
              IF (t % ModePeriod) + 1 = ModePeriod THEN 0 ELSE (t % ModePeriod) + 1
<1> USE ScheduleAssumption
<1> DEFINE q == t \div ModePeriod
           r == t % ModePeriod
<1>1. q \in Nat /\ r \in Nat /\ r < ModePeriod /\ t = q * ModePeriod + r
  BY SMT
<1> HIDE DEF q, r
<1>2. q * ModePeriod \in Nat /\ (q + 1) * ModePeriod = q * ModePeriod + ModePeriod
  BY <1>1, SMT
<1>3. (t + 1) % ModePeriod = IF r + 1 = ModePeriod THEN 0 ELSE r + 1
  <2>1. CASE r + 1 = ModePeriod
    <3>1. t + 1 = (q + 1) * ModePeriod + 0
      BY <1>1, <1>2, <2>1, SMT
    <3> QED
      BY <1>1, <2>1, <3>1, RemainderUnique, SMT
  <2>2. CASE r + 1 # ModePeriod
    <3>1. t + 1 = q * ModePeriod + (r + 1) /\ r + 1 < ModePeriod
      BY <1>1, <1>2, <2>2, SMT
    <3> QED
      BY <1>1, <2>2, <3>1, RemainderUnique, SMT
  <2> QED
    BY <2>1, <2>2
<1>4. CASE t + 1 < ExitPeriod
  <2>1. (t + 1) % ExitPeriod = t + 1
    BY <1>4, SMT
  <2> QED
    BY <1>1, <1>3, <2>1, SMT DEF r
<1>5. CASE t + 1 = ExitPeriod
  <2>1. (t + 1) % ExitPeriod = 0 /\ 0 % ModePeriod = 0
    BY <1>5, SMT
  <2>2. (t + 1) % ModePeriod = 0
    BY <1>5
  <2>3. r + 1 = ModePeriod
    BY <1>1, <1>3, <2>2, SMT
  <2> QED
    BY <1>1, <2>1, <2>3, SMT DEF r
<1> QED
  BY <1>4, <1>5, SMT

\* While arming has had no Enter frame, the cycles that could have sent one all
\* fell between two mode frames.
ArmInv ==
  state = "DmArming" /\ joints # "Enter" /\ armTicks > ClearTicks =>
    armTicks - ClearTicks <=
      IF ticks % ModePeriod = 0 THEN ModePeriod - 1 ELSE (ticks % ModePeriod) - 1

\* What a cycle of arming counts and sends.
LEMMA ArmingFrames ==
  /\ ArmTicksAfter("DmArming") =
       IF ArmTicksOnEntry("DmArming") < ArmTicks
         THEN ArmTicksOnEntry("DmArming") + 1 ELSE ArmTicksOnEntry("DmArming")
  /\ JointFrame("DmArming") =
       IF ticks % ModePeriod # 0 THEN joints
       ELSE IF ArmTicksOnEntry("DmArming") < ClearTicks THEN "ClearError" ELSE "Enter"
<1>1. ~("DmArming" \in Stopped)
  BY DEF Stopped
<1> HIDE DEF Stopped
<1>2. ArmTicksAfter("DmArming") =
       IF ArmTicksOnEntry("DmArming") < ArmTicks
         THEN ArmTicksOnEntry("DmArming") + 1 ELSE ArmTicksOnEntry("DmArming")
  BY <1>1 DEF ArmTicksAfter
<1>3. ~("DmArming" \in Operating)
  BY DEF Operating, Actions
<1>4. JointFrame("DmArming") =
       IF ticks % ModePeriod # 0 THEN joints
       ELSE IF ArmTicksOnEntry("DmArming") < ClearTicks THEN "ClearError" ELSE "Enter"
  BY <1>1, <1>3 DEF JointFrame
<1> QED
  BY <1>2, <1>4

LEMMA ArmStep == TypeOK /\ ArmInv /\ [Next]_vars => ArmInv'
<1> SUFFICES ASSUME TypeOK, ArmInv, [Next]_vars PROVE ArmInv'
  OBVIOUS
<1> USE ScheduleAssumption
<1>1. CASE Next
  <2>1. PICK in, result : IsInput(in) /\ IsCycle(in, result)
    BY <1>1, NextIsCycle
  <2> DEFINE a == ArmTicksOnEntry(state')
             r == ticks % ModePeriod
  <2>2. /\ armTicks' = ArmTicksAfter(state') /\ joints' = JointFrame(state')
        /\ ticks' = (ticks + 1) % ExitPeriod
    BY <2>1 DEF IsCycle, CycleTo
  <2>3. ticks \in 0 .. ExitPeriod - 1 /\ armTicks \in 0 .. ArmTicks
    BY DEF TypeOK
  <2>4. /\ r \in 0 .. ModePeriod - 1
        /\ ticks' % ModePeriod = IF r + 1 = ModePeriod THEN 0 ELSE r + 1
    BY <2>2, <2>3, NextPhase
  <2>5. SUFFICES ASSUME state' = "DmArming", joints' # "Enter", armTicks' > ClearTicks
                 PROVE  armTicks' - ClearTicks <= r
    BY <2>4, SMT DEF ArmInv
  <2>6. /\ armTicks' = IF a < ArmTicks THEN a + 1 ELSE a
        /\ joints' = IF r # 0 THEN joints ELSE IF a < ClearTicks THEN "ClearError" ELSE "Enter"
    BY <2>2, <2>5, ArmingFrames
  <2>7. a = IF state = "DmArming" THEN armTicks ELSE 0
    BY <2>5 DEF ArmTicksOnEntry
  <2>8. state = "DmArming" /\ joints # "Enter" /\ armTicks > ClearTicks /\ r # 0
          => armTicks - ClearTicks <= r - 1
    BY DEF ArmInv
  <2> HIDE DEF a, r
  <2>9. r # 0 /\ joints # "Enter"
    BY <2>3, <2>5, <2>6, <2>7, SMT
  <2>10. CASE state = "DmArming" /\ armTicks > ClearTicks
    BY <2>3, <2>4, <2>6, <2>7, <2>8, <2>9, <2>10, SMT
  <2>11. CASE ~(state = "DmArming" /\ armTicks > ClearTicks)
    <3>1. a <= ClearTicks /\ a \in Nat
      BY <2>3, <2>7, <2>11, SMT
    <3> QED
      BY <2>4, <2>6, <2>9, <3>1, SMT
  <2> QED
    BY <2>10, <2>11
<1>2. CASE UNCHANGED vars
  BY <1>2 DEF vars, ArmInv
<1> QED
  BY <1>1, <1>2

(***************************************************************************)
(* When arming counts as complete, the last frame the joints got is Enter, *)
(* for every arming time and every period of the mode frames that the      *)
(* schedule allows, wherever in a period arming begins.                    *)
(***************************************************************************)
THEOREM ArmingCorrect == Spec => []ArmedByEnter
<1>1. Init => ArmInv
  BY DEF Init, ArmInv
<1>2. TypeOK /\ ArmInv => ArmedByEnter
  <2> SUFFICES ASSUME TypeOK, ArmInv, state = "DmArming", ArmComplete, joints # "Enter"
               PROVE  FALSE
    BY DEF ArmedByEnter
  <2> USE ScheduleAssumption
  <2>1. ticks % ModePeriod \in 0 .. ModePeriod - 1
    BY NextPhase DEF TypeOK
  <2>2. armTicks = ArmTicks
    BY DEF ArmComplete
  <2> QED
    BY <2>1, <2>2, SMT DEF ArmInv
<1> QED
  BY <1>1, <1>2, ArmStep, TypeCorrect, PTL DEF Spec

-----------------------------------------------------------------------------
(* Torque.                                                                   *)

\* At the tick of the Exit frames no torque command outlives a cycle that does not
\* operate, and every later cycle makes one a cycle older at most.
HeldInv == held <= IF ticks = 0 THEN ExitPeriod - 1 ELSE ticks - 1

\* At that tick every frame is due.
LEMMA AllDue ==
  ASSUME NEW to \in States \ Operating, ticks = 0
  PROVE  JointFrame(to) # "Torque" /\ WheelFrame(to) # "Torque"
<1>1. ticks % ModePeriod = 0 /\ ticks % ZeroPeriod = 0 /\ ticks % ExitPeriod = 0
  BY ScheduleAssumption
<1>2. CASE to \in Stopped
  BY <1>1, <1>2 DEF JointFrame, WheelFrame, Stopped, Operating, Actions
<1>3. CASE to = "DmArming"
  BY <1>1, <1>3, ArmingFrames DEF WheelFrame, Stopped
<1>4. CASE to = "WaitingFeedback"
  BY <1>4 DEF JointFrame, WheelFrame, Stopped
<1> QED
  BY <1>2, <1>3, <1>4 DEF States

LEMMA HeldStep == TypeOK /\ HeldInv /\ [Next]_vars => HeldInv'
<1> SUFFICES ASSUME TypeOK, HeldInv, [Next]_vars PROVE HeldInv'
  OBVIOUS
<1>0. /\ ExitPeriod \in Nat /\ ExitPeriod > 0
      /\ ticks \in 0 .. ExitPeriod - 1 /\ held \in 0 .. ExitPeriod
  BY ScheduleAssumption DEF TypeOK
<1>1. CASE Next
  <2>1. PICK in, result : IsInput(in) /\ IsCycle(in, result)
    BY <1>1, NextIsCycle
  <2> DEFINE to == DetermineNextState(in, EdgeLatched(in))
  <2>2. held' = HeldAfter(to) /\ ticks' = (ticks + 1) % ExitPeriod
    BY <2>1 DEF IsCycle, CycleTo
  <2>3. to \in States
    BY NextState DEF TypeOK
  <2> HIDE DEF to
  <2>4. held' = 0 \/ held' <= held + 1
    BY <1>0, <2>2 DEF HeldAfter
  <2>5. ticks = 0 => held' = 0
    BY <2>2, <2>3, AllDue DEF HeldAfter
  <2>6. ticks' = IF ticks + 1 = ExitPeriod THEN 0 ELSE ticks + 1
    BY <1>0, <2>2
  <2>7. held' \in Nat
    BY <1>0, <2>2 DEF HeldAfter
  <2>8. CASE held' = 0
    BY <1>0, <2>6, <2>8 DEF HeldInv
  <2>9. CASE ticks # 0 /\ held' <= held + 1
    BY <1>0, <2>6, <2>7, <2>9 DEF HeldInv
  <2> QED
    BY <2>4, <2>5, <2>8, <2>9
<1>2. CASE UNCHANGED vars
  BY <1>2 DEF vars, HeldInv
<1> QED
  BY <1>1, <1>2

(***************************************************************************)
(* The motors keep a torque command outside the operating states for less  *)
(* than one period of the Exit frames, for every schedule and every way of *)
(* going between stopping and arming.                                      *)
(***************************************************************************)
THEOREM TorqueCorrect == Spec => []TorqueEnds
<1>1. Init => HeldInv
  BY ScheduleAssumption DEF Init, HeldInv
<1>2. TypeOK /\ HeldInv => TorqueEnds
  BY ScheduleAssumption DEF TypeOK, HeldInv, TorqueEnds
<1> QED
  BY <1>1, <1>2, HeldStep, TypeCorrect, PTL DEF Spec
=============================================================================
