--------------------------- MODULE ChassisControl ---------------------------
(***************************************************************************)
(* The 1 kHz cycle of the chassis thread (chassis_module.cpp): the input   *)
(* snapshot, the state machine with its latches, the entry actions, the    *)
(* action controllers and the actuator's output policy.  One thread runs   *)
(* it to the end, so a cycle is one step; what varies is its inputs.       *)
(*                                                                         *)
(* An action controller (recovery, flight, jump, stair climb) is what it   *)
(* reports: still running, finished or failed.                             *)
(***************************************************************************)
EXTENDS Naturals

CONSTANTS
  ArmTicks,      \* kDmArmTicks: cycles of DM arming
  ClearTicks,    \* kDmClearTicks: the first of them send ClearError
  ModePeriod,    \* kDmModePeriodTicks: cycles between two DM control frames
  ZeroPeriod,    \* cycles between two zero wheel frames while stopped (10)
  ExitPeriod,    \* cycles between two Exit frames while stopped (100)
  JumpCooldown   \* kJumpCooldownMs, in cycles

\* The schedule of chassis_params.yaml: arming lasts long enough for each frame.
ASSUME ScheduleAssumption ==
  /\ ArmTicks \in Nat /\ ClearTicks \in Nat
  /\ ModePeriod \in Nat /\ ModePeriod > 0
  /\ ZeroPeriod \in Nat /\ ZeroPeriod > 0
  /\ ExitPeriod \in Nat /\ ExitPeriod > 0
  /\ ExitPeriod % ModePeriod = 0 /\ ExitPeriod % ZeroPeriod = 0
  /\ ClearTicks + ModePeriod <= ArmTicks
  /\ JumpCooldown \in Nat

Stopped == {"Disabled", "SafetyStop", "ActionFault", "TiltFault"}
Actions == {"Recovery", "Flight", "Jump", "ClimbStairs"}
Operating == Actions \union {"Balance"}
States == Stopped \union Operating \union {"DmArming", "WaitingFeedback"}

Results == {"Running", "Finished", "Failed"}

VARIABLES
  state,      \* state_
  latch,      \* the latches of ChassisStateMachine
  enabled,    \* last_requested_enable_
  remote,     \* the newest remote message: robot_enable, jump, climb_stairs
  cooldown,   \* jump_cooldown_remaining_s_, in cycles
  armTicks,   \* dm_arm_ticks_
  ticks,      \* loop_ticks_, as far as the periods tell it apart
  joints,     \* last frame submitted for the four joint motors
  wheels,     \* last frame submitted for the two wheel motors
  healthy,    \* history: the inputs of this cycle allow operation
  faulted,    \* history: faults since the last fresh remote disable
  recovered,  \* history: a recovery finished since the last enable edge
  held        \* history: cycles the motors have kept a torque command without operating

vars == <<state, latch, enabled, remote, cooldown, armTicks, ticks, joints, wheels,
          healthy, faulted, recovered, held>>

Latches == [tilt : BOOLEAN, action : BOOLEAN, recovery : BOOLEAN,
            completed : SUBSET Actions, failed : SUBSET Actions]

Messages == [enable : BOOLEAN, jump : BOOLEAN, climb : BOOLEAN]

NoLatch == [tilt |-> FALSE, action |-> FALSE, recovery |-> FALSE,
            completed |-> {}, failed |-> {}]

Init ==
  /\ state = "Disabled"
  /\ latch = NoLatch
  /\ enabled = FALSE
  /\ remote = [enable |-> FALSE, jump |-> FALSE, climb |-> FALSE]
  /\ cooldown = 0
  /\ armTicks = 0
  /\ ticks = 0
  /\ joints = "None"
  /\ wheels = "None"
  /\ healthy = FALSE
  /\ faulted = {}
  /\ recovered = FALSE
  /\ held = 0

-----------------------------------------------------------------------------
(* The input snapshot.  A stale link repeats its last message; motor feedback *)
(* counts only with a fresh IMU; liftoff is detected in Balance only.         *)

Links == [fresh : {TRUE}, remote : Messages] \union {[fresh |-> FALSE, remote |-> remote]}

Sensors ==
  {s \in [imu : BOOLEAN, feedback : BOOLEAN, tilted : BOOLEAN, dmReady : BOOLEAN] :
     s.feedback \/ s.tilted => s.imu}

Liftoffs == IF state = "Balance" THEN BOOLEAN ELSE {FALSE}

Snapshot(link, s, liftoff) ==
  [fresh |-> link.fresh, remote |-> link.remote, imu |-> s.imu, feedback |-> s.feedback,
   tilted |-> s.tilted, dmReady |-> s.dmReady, liftoff |-> liftoff]

RequestedEnable(in) == in.fresh /\ in.remote.enable
FreshDisable(in) == in.fresh /\ ~in.remote.enable
EnableEdge(in) == RequestedEnable(in) /\ ~enabled
JumpEdge(in) == in.remote.jump /\ ~remote.jump
ClimbEdge(in) == in.remote.climb /\ ~remote.climb
ArmComplete == armTicks = ArmTicks

-----------------------------------------------------------------------------
(* ChassisStateMachine::Update.                                              *)

\* Mutant: a lost link counts as a disable.
ClearedByTimeout(in) == IF RequestedEnable(in) THEN latch ELSE NoLatch

\* UpdateSafetyLatches, first half: a fresh disable clears everything.
Cleared(in) == IF FreshDisable(in) THEN NoLatch ELSE latch

\* UpdateSafetyLatches, second half: the chassis fell over outside recovery.
TiltLatched(in) ==
  LET l == Cleared(in)
      fell == RequestedEnable(in) /\ state # "Recovery" /\ ~l.recovery /\ in.tilted
  IN  [l EXCEPT !.tilt = @ \/ fell]

\* Mutant: an enable edge does not forget the last recovery.
EdgeLatchedKeeping(in) ==
  IF EnableEdge(in) THEN [TiltLatched(in) EXCEPT !.recovery = TRUE] ELSE TiltLatched(in)

\* An enable edge asks for a recovery and forgets the last one.
EdgeLatched(in) ==
  IF EnableEdge(in)
    THEN [TiltLatched(in) EXCEPT !.recovery = TRUE,
                                 !.completed = @ \ {"Recovery"},
                                 !.failed = @ \ {"Recovery"}]
    ELSE TiltLatched(in)

\* The transitions between the operating states, with valid inputs.
OperatingNext(in, l) ==
  IF state \in Actions /\ state \in l.failed THEN "ActionFault"
  ELSE IF state \in Actions /\ state \in l.completed THEN "Balance"
  ELSE IF state = "Balance" /\ in.liftoff THEN "Flight"
  ELSE IF state = "Balance" /\ JumpEdge(in) /\ cooldown <= 1 THEN "Jump"
  ELSE IF state = "Balance" /\ ClimbEdge(in) THEN "ClimbStairs"
  ELSE state

\* Mutant: feedback is not asked for once the joints are armed.
NominalNextUnchecked(in, l) ==
  IF state \in {"Disabled", "SafetyStop"} THEN "DmArming"
  ELSE IF state \in {"ActionFault", "TiltFault"} THEN state
  ELSE IF ~ArmComplete \/ ~in.dmReady THEN "DmArming"
  ELSE IF state \in Operating THEN OperatingNext(in, l)
  ELSE IF l.recovery THEN "Recovery" ELSE "Balance"

NominalNext(in, l) ==
  IF state \in {"Disabled", "SafetyStop"} THEN "DmArming"
  ELSE IF state \in {"ActionFault", "TiltFault"} THEN state
  ELSE IF ~ArmComplete \/ ~in.dmReady THEN "DmArming"
  ELSE IF ~in.feedback THEN "WaitingFeedback"
  ELSE IF state \in Operating THEN OperatingNext(in, l)
  ELSE IF l.recovery THEN "Recovery" ELSE "Balance"

\* DetermineNextState: the global conditions come before the nominal path.
DetermineNextState(in, l) ==
  IF ~RequestedEnable(in) THEN "Disabled"
  ELSE IF l.action THEN "ActionFault"
  ELSE IF ~in.imu THEN "SafetyStop"
  ELSE IF l.tilt /\ state # "Recovery" /\ ~l.recovery THEN "TiltFault"
  ELSE NominalNext(in, l)

\* What entering and leaving a state does to the latches.  Recovery keeps the
\* flags of an earlier visit.
Settled(in, l, to) ==
  LET entered == IF to # state THEN {to} \ {"Recovery"} ELSE {}
      recoveryOver == state = "Recovery" /\ to = "Balance"
      kept == l.failed \ entered
  IN  [tilt |-> l.tilt /\ ~recoveryOver,
       action |-> l.action \/ kept # {},
       recovery |-> l.recovery /\ ~recoveryOver,
       completed |-> (l.completed \ entered) \ (IF recoveryOver THEN {"Recovery"} ELSE {}),
       failed |-> kept]

-----------------------------------------------------------------------------
(* ComputeControlOutput: the controller of the state reports, and the state  *)
(* machine hears of it in the next cycle.                                    *)

Reported(l, to, result) ==
  [l EXCEPT !.completed = IF to \in Actions /\ result = "Finished" THEN @ \union {to} ELSE @,
            !.failed = IF to \in Actions /\ result = "Failed" THEN @ \union {to} ELSE @]

-----------------------------------------------------------------------------
(* ChassisActuator::Apply, after the entry action of the state.              *)

\* Mutants: arming goes on where it was interrupted, or starts over in each cycle.
ArmTicksOnEntryKept(to) == IF to \in Stopped THEN 0 ELSE armTicks
ArmTicksOnEntryAlways(to) == IF to \in Stopped \union {"DmArming"} THEN 0 ELSE armTicks

\* ResetArming, on entry to a stopped state and to DmArming.
ArmTicksOnEntry(to) ==
  IF to # state /\ to \in Stopped \union {"DmArming"} THEN 0 ELSE armTicks

\* Mutant: the mode frames go out on the cycles that arming counts.
JointFrameByArmTicks(to) ==
  CASE to \in Stopped -> IF ticks % ExitPeriod = 0 THEN "Exit" ELSE joints
    [] to = "DmArming" ->
         IF (ArmTicksOnEntry(to) + 1) % ModePeriod # 0 THEN joints
         ELSE IF ArmTicksOnEntry(to) < ClearTicks THEN "ClearError" ELSE "Enter"
    [] to = "WaitingFeedback" -> "Zero"
    [] to \in Operating -> "Torque"

JointFrame(to) ==
  CASE to \in Stopped -> IF ticks % ExitPeriod = 0 THEN "Exit" ELSE joints
    [] to = "DmArming" ->
         IF ticks % ModePeriod # 0 THEN joints
         ELSE IF ArmTicksOnEntry(to) < ClearTicks THEN "ClearError" ELSE "Enter"
    [] to = "WaitingFeedback" -> "Zero"
    [] to \in Operating -> "Torque"

WheelFrame(to) ==
  CASE to \in Stopped -> IF ticks % ZeroPeriod = 0 THEN "Zero" ELSE wheels
    [] to \in {"DmArming", "WaitingFeedback", "Recovery", "ClimbStairs"} -> "Zero"
    [] to \in {"Balance", "Flight", "Jump"} -> "Torque"

\* Mutant: the arming cycles are counted without end.
ArmTicksUnbounded(to) ==
  CASE to \in Stopped -> 0
    [] to = "DmArming" -> ArmTicksOnEntry(to) + 1
    [] OTHER -> ArmTicksOnEntry(to)

ArmTicksAfter(to) ==
  CASE to \in Stopped -> 0
    [] to = "DmArming" /\ ArmTicksOnEntry(to) < ArmTicks -> ArmTicksOnEntry(to) + 1
    [] OTHER -> ArmTicksOnEntry(to)

-----------------------------------------------------------------------------
Healthy(in) == RequestedEnable(in) /\ in.imu /\ in.feedback /\ in.dmReady

\* Cycles in a row, up to ExitPeriod, after which a torque command is still there.
HeldAfter(to) ==
  IF to \in Operating \/ "Torque" \notin {JointFrame(to), WheelFrame(to)} THEN 0
  ELSE IF held < ExitPeriod THEN held + 1 ELSE held

\* What a cycle that gets to a state leaves, with the inputs it reads and what the
\* action's controller reports, if one runs.
CycleTo(in, l, to, result) ==
  /\ state' = to
  /\ latch' = Reported(Settled(in, l, to), to, result)
  /\ cooldown' = IF state = "Jump" /\ to # "Jump" THEN JumpCooldown
                 ELSE IF cooldown > 0 THEN cooldown - 1 ELSE 0
  /\ armTicks' = ArmTicksAfter(to)
  /\ joints' = JointFrame(to)
  /\ wheels' = WheelFrame(to)
  /\ ticks' = (ticks + 1) % ExitPeriod
  /\ faulted' = (IF FreshDisable(in) THEN {} ELSE faulted)
                  \union (IF to = "TiltFault" THEN {"Tilt"} ELSE {})
                  \union (IF result = "Failed" THEN {"Action"} ELSE {})
  /\ recovered' = \/ recovered /\ ~EnableEdge(in)
                  \/ to = "Recovery" /\ result = "Finished"
  /\ held' = HeldAfter(to)

Cycle(in, results) ==
  /\ enabled' = RequestedEnable(in)
  /\ healthy' = Healthy(in)
  /\ LET l == EdgeLatched(in)
         to == DetermineNextState(in, l)
     IN  \E result \in IF to \in Actions THEN results ELSE results \intersect {"Running"} :
           CycleTo(in, l, to, result)

CycleReporting(results) ==
  \E link \in Links :
    /\ remote' = link.remote
    /\ \E s \in Sensors, liftoff \in Liftoffs : Cycle(Snapshot(link, s, liftoff), results)

Next == CycleReporting(Results)

Spec == Init /\ [][Next]_vars

(***************************************************************************)
(* The thread keeps its period, and an action that is left alone ends: its *)
(* phases have timeouts.  An action is left for no other action, so this   *)
(* is so for each of them.                                                 *)
(***************************************************************************)
Ends ==
  /\ state \in Actions
  /\ state' = state
  /\ CycleReporting(Results \ {"Running"})

FairSpec ==
  /\ Spec
  /\ WF_vars(Next)
  /\ WF_vars(Ends)

-----------------------------------------------------------------------------
Frames == {"None", "Zero", "Torque", "Exit", "ClearError", "Enter"}

TypeOK ==
  /\ state \in States
  /\ latch \in Latches
  /\ enabled \in BOOLEAN
  /\ remote \in Messages
  /\ cooldown \in 0 .. JumpCooldown
  /\ armTicks \in 0 .. ArmTicks
  /\ ticks \in 0 .. ExitPeriod - 1
  /\ joints \in Frames
  /\ wheels \in Frames
  /\ healthy \in BOOLEAN
  /\ faulted \subseteq {"Tilt", "Action"}
  /\ recovered \in BOOLEAN
  /\ held \in 0 .. ExitPeriod

(***************************************************************************)
(* Torque is computed only in a cycle whose own inputs allow it: a fresh   *)
(* enable, a fresh IMU, fresh motors, joints that report ready, and an     *)
(* arming that ran its full time since the last stop.                      *)
(***************************************************************************)
OperatingSafely == state \in Operating => healthy /\ armTicks = ArmTicks

(***************************************************************************)
(* The chassis balances, flies, jumps or climbs only after a recovery has  *)
(* finished since the last rising edge of the remote enable, whatever came *)
(* in between: lost feedback, a lost link, a fault.                        *)
(***************************************************************************)
RecoveryFirst == state \in Operating \ {"Recovery"} => recovered

(***************************************************************************)
(* When the state machine takes arming for complete, the last frame the    *)
(* joints got is Enter: the mode frames go out on the loop's ticks and the *)
(* arming counts its own, so their phases differ.                          *)
(***************************************************************************)
ArmedByEnter == state = "DmArming" /\ ArmComplete => joints = "Enter"

(***************************************************************************)
(* "A phase timeout enters the latched action-fault state, which requires  *)
(* an explicit remote disable before the chassis can be enabled again":    *)
(* once an action failed no operating state is entered before a fresh      *)
(* disable, even when another fault or a lost link came first.             *)
(***************************************************************************)
FailureLatched ==
  [][ "Action" \in faulted /\ "Action" \in faulted' => state' \notin Operating ]_vars

(***************************************************************************)
(* Outside the operating states the motors keep a torque command for less  *)
(* than the period of the Exit frames, also when the chassis goes back and *)
(* forth between stopping and arming: each of them replaces the command at *)
(* its own ticks, and those of the one are among those of the other.       *)
(***************************************************************************)
TorqueEnds == held < ExitPeriod

(***************************************************************************)
(* With inputs that stay good the chassis gets to balance, or stops in one *)
(* of its latched faults: no latch and no action holds it for ever.        *)
(***************************************************************************)
GetsToBalance ==
  <>[]healthy => []<>(state \in {"Balance", "ActionFault", "TiltFault"})

(***************************************************************************)
(* "Only an explicit, fresh remote disable clears the latch.  A link       *)
(* timeout must not silently arm the chassis for an automatic restart when *)
(* the link returns": after a tilt fault the chassis does not operate      *)
(* before a fresh disable.                                                 *)
(***************************************************************************)
TiltLatchHolds == "Tilt" \in faulted => state \notin Operating
=============================================================================
