---------------------------- MODULE ActionPhases ----------------------------
(***************************************************************************)
(* The action controllers of the chassis (flight_, jump_, climb_stairs_    *)
(* and recovery_controller.cpp) and how the chassis cycle starts, runs and *)
(* resets them (chassis_module.cpp).  ChassisControl knows of a controller *)
(* only what it reports; here it is its phases and their timers, in        *)
(* cycles.  What the sensors tell a controller is a choice per cycle, and  *)
(* the torques it computes are left out.                                   *)
(*                                                                         *)
(* The state machine is what ChassisControl lets it do to the controllers: *)
(* Stopped stands for the states whose entry resets all of them, Waiting   *)
(* for WaitingFeedback, whose entry resets none.                           *)
(***************************************************************************)
EXTENDS Naturals, FiniteSets

CONSTANTS
  Limit,   \* the k...HoldMs, k...TimeoutMs and the reversal limit, in cycles
  Asked    \* bound: the sets of actions that are asked for in one behaviour

LimitNames == {"Liftoff", "Touchdown", "Flight", "Precompress", "Thrust", "RetractHold", "Retract",
               "Jump", "ClimbHold", "Motion1", "Motion2", "Upright", "Stuck", "Reversals",
               "Turnover", "RecoveryHold", "Drawback"}

ASSUME LimitAssumption == DOMAIN Limit = LimitNames /\ \A n \in LimitNames : Limit[n] \in Nat \ {0}

Sides == {"Left", "Right"}
Actions4 == {"Recovery", "Flight", "Jump", "ClimbStairs"}

ASSUME AskedAssumption == Asked \subseteq SUBSET Actions4

VARIABLES
  asked,      \* the actions asked for in this behaviour
  mode,       \* the chassis state
  liftoff,    \* liftoff_elapsed_s_
  flight,     \* flight_controller_: phase, elapsed, touchdown holds, sides touched down
  jump,       \* jump_controller_: phase, its elapsed and total time, the retract hold
  air,        \* airborne_controller_ of the jump
  climb,      \* climb_stairs_controller_: phase, elapsed, ready hold
  recovery,   \* recovery_controller_: phase, elapsed, ready, upright and stuck times, reversals
  mark,       \* what the running action reported: climb_, flight_, jump_, recovery_completed_
  failed,     \* .. and failed
  spent,      \* history: cycles the action has been running
  aloft,      \* history: consecutive cycles in Balance with both legs unloaded
  landing     \* history: of this flight, consecutive contact cycles and the sides held long enough

phaseVars == <<asked, mode, liftoff, flight, jump, air, climb, recovery, mark, failed, spent,
               aloft, landing>>

FlightReset == [phase |-> "Init", elapsed |-> 0, hold |-> [s \in Sides |-> 0], down |-> {}]
JumpReset == [phase |-> "Init", elapsed |-> 0, total |-> 0, hold |-> 0]
ClimbReset == [phase |-> "Init", elapsed |-> 0, hold |-> 0]
RecoveryReset == [phase |-> "Init", elapsed |-> 0, hold |-> 0, upright |-> 0, stuck |-> 0,
                  reversals |-> 0]
NotLanded == [run |-> [s \in Sides |-> 0], held |-> {}]

PhasesInit ==
  /\ asked \in Asked
  /\ mode = "Stopped"
  /\ liftoff = 0
  /\ flight = FlightReset /\ jump = JumpReset /\ air = FlightReset
  /\ climb = ClimbReset /\ recovery = RecoveryReset
  /\ mark = {} /\ failed = FALSE
  /\ spent = 0 /\ aloft = 0 /\ landing = NotLanded

-----------------------------------------------------------------------------
(* One update of a controller.                                               *)

\* A time that grows while a condition holds and starts anew otherwise.
Held(condition, time) == IF condition THEN time + 1 ELSE 0

\* FlightController::Update, with contact seen on the given sides: a side has
\* touched down once contact was held, the flight ends with both.
FlightUpdate(f, contact) ==
  LET b == IF f.phase = "Init" THEN [FlightReset EXCEPT !.phase = "Air"] ELSE f
      hold == [s \in Sides |-> Held(s \in contact \ b.down, b.hold[s])]
      down == b.down \union {s \in Sides : hold[s] >= Limit["Touchdown"]}
      elapsed == b.elapsed + 1
  IN  IF b.phase # "Air" THEN b
      ELSE [phase |-> IF down = Sides THEN "Return"
                      ELSE IF elapsed >= Limit["Flight"] THEN "Failed" ELSE "Air",
            elapsed |-> elapsed, hold |-> hold, down |-> down]

\* EnterPhase of the jump controller.
JumpEnter(j, phase) == [j EXCEPT !.phase = phase, !.elapsed = 0,
                                 !.hold = IF phase = "AirRetract" THEN 0 ELSE @]

\* JumpController::Update up to the total timeout.  Ready means, by phase: legs
\* compressed, extended, retracted; a is the airborne controller after it.
JumpStep(j, ready, a) ==
  CASE j.phase = "PreCompress" ->
         IF ready \/ j.elapsed >= Limit["Precompress"] THEN JumpEnter(j, "Thrust") ELSE j
    [] j.phase = "Thrust" ->
         IF ready THEN JumpEnter(j, "AirRetract")
         ELSE IF j.elapsed >= Limit["Thrust"] THEN JumpEnter(j, "Failed") ELSE j
    [] j.phase = "AirRetract" ->
         LET h == [j EXCEPT !.hold = Held(ready, @)]
         IN  IF h.hold >= Limit["RetractHold"] THEN JumpEnter(h, "Air")
             ELSE IF h.elapsed >= Limit["Retract"] THEN JumpEnter(h, "Failed") ELSE h
    [] j.phase = "Air" /\ a.phase \in {"Failed", "Return"} -> JumpEnter(j, a.phase)
    [] OTHER -> j

\* The beginning of an update: the first one leaves Init.
JumpBegun ==
  LET j == IF jump.phase = "Init" THEN [JumpReset EXCEPT !.phase = "PreCompress"] ELSE jump
  IN  [j EXCEPT !.elapsed = @ + 1, !.total = @ + 1]

\* Mutant: a phase that waits is not ended by the total time.
JumpUpdateUnbounded(ready, a) == JumpStep(JumpBegun, ready, a)

JumpUpdate(ready, a) ==
  LET j == JumpStep(JumpBegun, ready, a)
  IN  IF j.phase \notin {"Return", "Failed"} /\ j.total >= Limit["Jump"]
        THEN JumpEnter(j, "Failed") ELSE j

\* ClimbStairsController::Update: two motions, each until its pose was held.
ClimbEnter(phase) == [ClimbReset EXCEPT !.phase = phase]

ClimbUpdate(ready) ==
  LET c == IF climb.phase = "Init" THEN ClimbEnter("Motion1")
                                   ELSE [climb EXCEPT !.elapsed = @ + 1]
      hold == Held(ready, c.hold)
  IN  IF c.phase \notin {"Motion1", "Motion2"} THEN c
      ELSE IF hold >= Limit["ClimbHold"]
             THEN ClimbEnter(IF c.phase = "Motion1" THEN "Motion2" ELSE "Return")
      ELSE IF c.elapsed >= Limit[c.phase] THEN ClimbEnter("Failed")
      ELSE [c EXCEPT !.hold = hold]

\* RecoveryController::EnterPhase.
RecoveryEnter(r, phase) == [r EXCEPT !.phase = phase, !.elapsed = 0, !.hold = 0]

StuckSweep(stopped, upright) == stopped /\ ~upright

\* The turn-over: a sweep that is stuck is reversed, too often ends it; an
\* upright chassis is confirmed by a time that halves while it is not.
TurnOver(r, upright, stopped) ==
  LET stuck == Held(StuckSweep(stopped, upright), r.stuck)
      reverse == stuck >= Limit["Stuck"]
      n == IF reverse THEN r.reversals + 1 ELSE r.reversals
      s == [r EXCEPT !.stuck = IF reverse THEN 0 ELSE stuck, !.reversals = n,
                     !.upright = IF upright THEN @ + 1 ELSE @ \div 2]
      t == IF reverse /\ n > Limit["Reversals"] THEN RecoveryEnter(s, "Failed") ELSE s
  IN  IF t.upright >= Limit["Upright"] THEN RecoveryEnter(t, "DrawBack")
      ELSE IF t.elapsed >= Limit["Turnover"] THEN RecoveryEnter(t, "Failed") ELSE t

\* The legs are drawn back until the pose was held.
DrawBack(r, ready) ==
  LET hold == Held(ready, r.hold)
  IN  IF hold >= Limit["RecoveryHold"] THEN RecoveryEnter(r, "Return")
      ELSE IF r.elapsed >= Limit["Drawback"] THEN RecoveryEnter(r, "Failed")
      ELSE [r EXCEPT !.hold = hold]

\* RecoveryController::Update.  There is no gimbal, so its phases YawFront and
\* Swing are never entered.  Sensed: a plausible vertical acceleration.
RecoveryUpdate(sensed, upright, stopped, ready) ==
  LET r == [recovery EXCEPT !.elapsed = @ + 1]
  IN  CASE r.phase = "Init" ->
             RecoveryEnter(r, IF ~sensed THEN "Failed" ELSE IF upright THEN "DrawBack"
                              ELSE "TurnOver")
        [] r.phase = "TurnOver" -> TurnOver(r, upright, stopped)
        [] r.phase = "DrawBack" -> DrawBack(r, ready)
        [] OTHER -> r

-----------------------------------------------------------------------------
(* The cycle.                                                                *)

\* UpdateLiftoffDetection, in Balance with a valid support force only.
LiftoffDetection(unloaded) == Held(mode = "Balance" /\ unloaded, liftoff)

\* The state the state machine decides for, when liftoff was detected or not.
NextModes(detected) ==
  {"Stopped"} \union
  CASE failed -> {}
    [] mode = "Stopped" -> {"Waiting", "Balance", "Recovery"}
    [] mode = "Waiting" -> {"Waiting", "Balance", "Recovery"}
    [] mode = "Balance" ->
         {"Waiting"} \union IF detected THEN {"Flight"} ELSE {"Balance", "Jump", "ClimbStairs"}
    [] OTHER -> {"Waiting", IF mode \in mark THEN "Balance" ELSE mode}

Entered(to, states) == to # mode /\ to \in states

\* A controller is reset on the way into a stop, back to Balance from an
\* action, and into its own state.
ResetBy(to, own) ==
  \/ Entered(to, {"Stopped", own})
  \/ to = "Balance" /\ mode \in Actions4

\* Mutant: the flight controller is not reset on the way into Flight.
FlightResetByReturn(to) == ResetBy(to, "Stopped")

FlightResetBy(to) == ResetBy(to, "Flight")

\* What the entry actions of UpdateControlState leave of the controllers.
UpdateControlState(to) ==
  /\ mode' = to
  /\ flight' = IF FlightResetBy(to) THEN FlightReset ELSE flight
  /\ jump' = IF ResetBy(to, "Jump") THEN JumpReset ELSE jump
  /\ air' = IF ResetBy(to, "Jump") THEN FlightReset ELSE air
  /\ climb' = IF ResetBy(to, "ClimbStairs") THEN ClimbReset ELSE climb
  /\ recovery' = IF ResetBy(to, "Recovery") THEN RecoveryReset ELSE recovery
  /\ mark' = IF Entered(to, {"Flight", "Jump", "ClimbStairs"}) THEN mark \ {to}
             ELSE IF to = "Balance" THEN mark \ {"Recovery"}
             ELSE IF to = "Stopped" THEN {} ELSE mark
  /\ failed' = FALSE

\* A cycle of the code is EnterMode, where the state changes or has no
\* controller, RunAction, where it is an action, or both in this order.
EnterMode ==
  \E unloaded \in BOOLEAN :
    LET elapsed == LiftoffDetection(unloaded)
        detected == elapsed >= Limit["Liftoff"]
    IN  \E to \in NextModes(detected) \ (Actions4 \ asked) :
          /\ to # mode \/ to \notin Actions4
          /\ liftoff' = IF FlightResetBy(to) THEN 0
                        ELSE IF detected THEN Limit["Liftoff"] ELSE elapsed
          /\ aloft' = IF mode # "Balance" \/ ~unloaded THEN 0
                      ELSE IF aloft < Limit["Liftoff"] THEN aloft + 1 ELSE aloft
          /\ UpdateControlState(to)
          /\ spent' = 0
          /\ landing' = NotLanded
          /\ UNCHANGED asked

\* MarkCompleted and MarkFailed, after the update of an action.
Report(a, phase) ==
  /\ mark' = IF phase = "Return" THEN mark \union {a} ELSE mark
  /\ failed' = (phase = "Failed")

\* The history of contact in this flight.
Contacts(contact) ==
  LET run == [s \in Sides |-> IF s \in contact
                                THEN IF landing.run[s] < Limit["Touchdown"]
                                       THEN landing.run[s] + 1 ELSE landing.run[s]
                                ELSE 0]
  IN  landing' = [run |-> run,
                  held |-> landing.held \union {s \in Sides : run[s] >= Limit["Touchdown"]}]

\* The update of the action the chassis is in.
RunFlight ==
  \E contact \in SUBSET Sides :
    /\ flight' = FlightUpdate(flight, contact)
    /\ Contacts(contact)
    /\ Report("Flight", flight'.phase)
    /\ UNCHANGED <<jump, air, climb, recovery>>

RunJump ==
  \E ready \in BOOLEAN, contact \in SUBSET Sides :
    LET a == IF jump.phase = "Air" THEN FlightUpdate(air, contact) ELSE air
    IN  /\ jump' = JumpUpdate(ready, a)
        /\ air' = IF jump'.phase = "Air" /\ jump.phase # "Air" THEN FlightReset ELSE a
        /\ IF jump.phase = "Air" THEN Contacts(contact) ELSE landing' = NotLanded
        /\ Report("Jump", jump'.phase)
        /\ UNCHANGED <<flight, climb, recovery>>

RunClimb ==
  \E ready \in BOOLEAN :
    /\ climb' = ClimbUpdate(ready)
    /\ Report("ClimbStairs", climb'.phase)
    /\ UNCHANGED <<flight, jump, air, recovery, landing>>

RunRecovery ==
  \E sensed, upright, stopped, ready \in BOOLEAN :
    /\ recovery' = RecoveryUpdate(sensed, upright, stopped, ready)
    /\ Report("Recovery", recovery'.phase)
    /\ UNCHANGED <<flight, jump, air, climb, landing>>

RunAction ==
  /\ mode \in Actions4
  /\ ~failed
  /\ mode \notin mark \/ spent = 0
  /\ CASE mode = "Flight" -> RunFlight
       [] mode = "Jump" -> RunJump
       [] mode = "ClimbStairs" -> RunClimb
       [] mode = "Recovery" -> RunRecovery
  /\ spent' = spent + 1
  /\ liftoff' = 0
  /\ aloft' = 0
  /\ UNCHANGED <<asked, mode>>

PhasesNext == EnterMode \/ RunAction

PhasesSpec == PhasesInit /\ [][PhasesNext]_phaseVars

-----------------------------------------------------------------------------
(* Properties.                                                               *)

FlightRecords == [phase : {"Init", "Air", "Return", "Failed"}, elapsed : 0 .. Limit["Flight"],
                  hold : [Sides -> 0 .. Limit["Touchdown"]], down : SUBSET Sides]

PhasesTypeOK ==
  /\ asked \in Asked
  /\ mode \in Actions4 \union {"Stopped", "Waiting", "Balance"}
  /\ liftoff \in 0 .. Limit["Liftoff"] /\ aloft \in 0 .. Limit["Liftoff"]
  /\ flight \in FlightRecords /\ air \in FlightRecords
  /\ jump \in [phase : {"Init", "PreCompress", "Thrust", "AirRetract", "Air", "Return", "Failed"},
               elapsed : 0 .. Limit["Jump"], total : 0 .. Limit["Jump"],
               hold : 0 .. Limit["RetractHold"]]
  /\ climb.phase \in {"Init", "Motion1", "Motion2", "Return", "Failed"}
  /\ recovery.phase \in {"Init", "TurnOver", "DrawBack", "Return", "Failed"}
  /\ mark \subseteq Actions4 /\ failed \in BOOLEAN
  /\ landing.held \subseteq Sides

LongestAction ==
  [Flight |-> Limit["Flight"], Jump |-> Limit["Jump"],
   ClimbStairs |-> 1 + Limit["Motion1"] + Limit["Motion2"],
   Recovery |-> 1 + Limit["Turnover"] + Limit["Drawback"]]

(***************************************************************************)
(* Every action ends: whatever the sensors say, a controller has finished  *)
(* or failed by the time its timeouts add up to, and a turn-over that was  *)
(* reversed too often has failed and is not carried on by a late upright   *)
(* confirmation.  ChassisControl assumes this of its controllers when it   *)
(* says that a running action ends.                                        *)
(***************************************************************************)
ActionsEnd ==
  /\ mode \in Actions4 => spent <= LongestAction[mode]
  /\ mode \in Actions4 /\ spent = LongestAction[mode] => failed \/ mode \in mark
  /\ recovery.reversals > Limit["Reversals"] => recovery.phase = "Failed"

(***************************************************************************)
(* A flight is entered only after both legs were unloaded for the whole    *)
(* liftoff hold in Balance, and left for Balance only after each leg held  *)
(* contact in this very flight; the same for the airborne part of a jump.  *)
(* Nothing is left over from a flight that was broken off.                 *)
(***************************************************************************)
FlightHeld ==
  [][/\ mode = "Balance" /\ mode' = "Flight" => aloft' = Limit["Liftoff"]
     /\ mode \in {"Flight", "Jump"} /\ mode' = "Balance" => landing.held = Sides]_phaseVars
=============================================================================
