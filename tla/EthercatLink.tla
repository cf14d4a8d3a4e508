---------------------------- MODULE EthercatLink ----------------------------
(***************************************************************************)
(* Host forces on their way to the chassis: the slave core that the SSC    *)
(* task runs once per EtherCAT cycle (ethercat_slave_core.cpp), the port   *)
(* between that task and the chassis thread (ethercat_chassis_port.cpp),   *)
(* and the part of the chassis cycle that asks the port for a force.  Each *)
(* side has a watchdog of its own on the last Active command.              *)
(*                                                                         *)
(* The unit of interleaving is one critical section of the port.  The ESC  *)
(* reset interrupt may come between any two of them, and within the        *)
(* recording of a command, which holds no lock.  Time is kept as ages, in  *)
(* ticks of the microsecond clock.  The left and the right force are       *)
(* treated alike and apart, so one of them is modelled.                    *)
(***************************************************************************)
EXTENDS Integers

CONSTANTS
  SeqMod,     \* sequence numbers wrap here (2^32)
  MinForce,   \* minimum_force_n
  MaxForce,   \* maximum_force_n
  MaxStep,    \* maximum_force_step_n
  MaxValid,   \* maximum_valid_for_us
  MaxLag,     \* bound: ticks the chassis thread is preempted after its clock read
  Frames,     \* the command frames a host may send
  None        \* no command

Modes == {"Disabled", "Shadow", "Active", "Unknown"}

\* "sound" sums up the converged and finite flags, finite forces, a source state
\* within maximum_state_lag, and a validity that is not zero.
ASSUME LinkAssumption ==
  /\ SeqMod \in Nat /\ SeqMod >= 4
  /\ MinForce \in Nat /\ MaxForce \in Nat /\ 0 < MinForce /\ MinForce <= MaxForce
  /\ MaxStep \in Nat /\ MinForce <= MaxStep /\ MaxLag \in Nat
  /\ MaxValid \in Nat /\ MaxValid > 0

ASSUME FramesAssumption ==
  Frames \subseteq [abi : BOOLEAN, seq : 0 .. SeqMod - 1, mode : Modes, sound : BOOLEAN,
                    valid : Nat \ {0}, force : Int]

\* An older command has certainly expired, by whichever clock reading.
MaxAge == MaxValid + 1 + MaxLag
Ages == 0 .. MaxAge
Forces == MinForce .. MaxForce
Validities == 1 .. MaxValid

\* What the core watches, what the port applies, what the core hands to the port.
Deadlines == [valid : Validities, age : Ages]
Commands == [force : Forces, valid : Validities, age : Ages]
Orders == [mode : {"Shadow", "Active"}, force : Forces, valid : Validities]

ASSUME NoneAssumption == None \notin Deadlines \union Commands \union Orders \union Frames

VARIABLES
  core,      \* EthercatSlaveCore; watch is the deadline, None while not active_
  ssc,       \* where the SSC task is in Process
  handling,  \* the command it hands over
  sscLag,    \* age of its clock reading
  port,      \* EthercatChassisPort; applied is last_active while active_applied
  chassis,   \* where the chassis thread is in its cycle
  lag,       \* age of its clock reading
  external,  \* the balance controller uses the host's force
  host,      \* the frame a host that has gone leaves behind, None while it sends
  revoked,   \* history: an applied command was withdrawn since the operator's last grant
  illegal    \* history: an illegal command came since the operator's last grant

coreVars == <<core, ssc, handling, sscLag>>
chassisVars == <<chassis, lag, external>>
vars == <<core, ssc, handling, sscLag, port, chassis, lag, external, host, revoked, illegal>>

NewCore == [seq |-> 0, have |-> FALSE, force |-> 0, watch |-> None,
            timedOut |-> FALSE, accepted |-> FALSE]

Init ==
  /\ core = NewCore
  /\ ssc = "idle" /\ handling = None /\ sscLag = 0
  /\ port = [operator |-> FALSE, eligible |-> FALSE, applied |-> None]
  /\ chassis = "idle" /\ lag = 0 /\ external = FALSE
  /\ host = None
  /\ revoked = FALSE /\ illegal = FALSE

-----------------------------------------------------------------------------
(* The port: what each call does to it.                                      *)

Applied == port.applied # None

\* Mutant: the operator's gate stays open.
FallenBackOpen(p) == [p EXCEPT !.applied = None]

\* EnterLocalFallback, and what the other withdrawals share with it.
FallenBack(p) == [p EXCEPT !.applied = None, !.operator = FALSE]

\* SetChassisEligible.
WithEligible(p, b) ==
  IF b THEN [p EXCEPT !.eligible = TRUE] ELSE [FallenBack(p) EXCEPT !.eligible = FALSE]

\* HandleMpcCommand.
Handed(p, c, age) ==
  IF c.mode = "Active" /\ p.operator /\ p.eligible
    THEN [p EXCEPT !.applied = [force |-> c.force, valid |-> c.valid, age |-> age]]
    ELSE [p EXCEPT !.applied = None]

\* ConsumeActiveCommand: the clock was read before the lock, so a command that
\* came in between looks like one from the future.
Expired(c) == c.age - lag < 0 \/ c.age - lag > c.valid

\* Every step that may withdraw an applied command.
Withdraw(p) ==
  /\ port' = p
  /\ revoked' = (revoked \/ (Applied /\ p.applied = None))

-----------------------------------------------------------------------------
(* EthercatSlaveCore::Process, in the SSC task.                              *)

\* Mutant: a repeated number passes.
NewerOrSame(seq) == (seq - core.seq) % SeqMod \in 0 .. (SeqMod \div 2) - 1

\* IsNewer: the signed difference is positive.
Newer(seq) == (seq - core.seq) % SeqMod \in 1 .. (SeqMod \div 2) - 1

Between(x, low, high) == IF x < low THEN low ELSE IF x > high THEN high ELSE x

\* Mutants: the step limit, or the range, is left out.
LimitedToRange(force) == Between(force, MinForce, MaxForce)
LimitedToStep(force) ==
  IF core.have THEN Between(force, core.force - MaxStep, core.force + MaxStep) ELSE force

Limited(force) ==
  LET f == Between(force, MinForce, MaxForce)
  IN  IF core.have THEN Between(f, core.force - MaxStep, core.force + MaxStep) ELSE f

TimedOut == core.watch # None /\ core.have /\ core.watch.age > core.watch.valid

\* CheckWatchdog, with the clock the task has just read.
CheckWatchdog ==
  /\ ssc = "idle" /\ TimedOut
  /\ core' = [core EXCEPT !.watch = None, !.timedOut = TRUE, !.accepted = FALSE]
  /\ ssc' = "expired" /\ sscLag' = 0
  /\ UNCHANGED <<handling, port, chassisVars, host, revoked, illegal>>

Legal(f) == f.abi /\ f.mode \in {"Shadow", "Active"} /\ f.sound

\* A repeated or older frame changes nothing.
Ignore(f) ==
  /\ f.abi /\ ~Newer(f.seq)
  /\ ssc' = "idle" /\ sscLag' = 0
  /\ UNCHANGED <<core, handling, illegal>>

\* Any other frame that gives no force ends an active command.
Refuse(f) ==
  /\ ~f.abi \/ (Newer(f.seq) /\ ~Legal(f))
  /\ core' = [core EXCEPT !.seq = IF f.abi THEN f.seq ELSE @,
                          !.watch = None,
                          !.accepted = IF f.abi \/ core.watch # None THEN FALSE ELSE @]
  /\ ssc' = IF core.watch # None THEN "fallback" ELSE "idle"
  /\ sscLag' = 0
  /\ illegal' = (illegal \/ ~f.abi \/ f.mode # "Disabled")
  /\ UNCHANGED handling

Accept(f) ==
  /\ Newer(f.seq) /\ Legal(f)
  /\ core' = [core EXCEPT !.seq = f.seq]
  /\ handling' = [mode |-> f.mode, force |-> Limited(f.force),
                  valid |-> Between(f.valid, 1, MaxValid)]
  /\ ssc' = "handle"
  /\ sscLag' = IF ssc = "idle" THEN 0 ELSE sscLag
  /\ UNCHANGED illegal

\* The rest of Process up to its next call of the port.  A host that has gone
\* leaves its last frame in the sync manager.
ProcessMpcCommand ==
  /\ (ssc = "idle" /\ ~TimedOut) \/ ssc = "command"
  /\ \E f \in IF host = None THEN Frames ELSE {host} : Ignore(f) \/ Refuse(f) \/ Accept(f)
  /\ UNCHANGED <<port, chassisVars, host, revoked>>

CallFallback ==
  /\ ssc \in {"expired", "fallback"}
  /\ Withdraw(FallenBack(port))
  /\ ssc' = IF ssc = "expired" THEN "command" ELSE "idle"
  /\ UNCHANGED <<core, handling, sscLag, chassisVars, host, illegal>>

CallHandle ==
  /\ ssc = "handle"
  /\ port' = Handed(port, handling, sscLag)
  /\ ssc' = "record"
  /\ UNCHANGED <<core, handling, sscLag, chassisVars, host, revoked, illegal>>

\* Mutant: the core's deadline starts when it notes the command.
RecordedLater(c) ==
  [core EXCEPT !.have = TRUE, !.force = c.force,
               !.watch = IF c.mode = "Active" THEN [valid |-> c.valid, age |-> 0] ELSE None,
               !.timedOut = FALSE, !.accepted = TRUE]

Recorded(c) ==
  [core EXCEPT !.have = TRUE, !.force = c.force,
               !.watch = IF c.mode = "Active" THEN [valid |-> c.valid, age |-> sscLag] ELSE None,
               !.timedOut = FALSE, !.accepted = TRUE]

\* After the port has the command the core notes what it handed over.
Record ==
  /\ ssc = "record"
  /\ core' = Recorded(handling)
  /\ ssc' = "idle" /\ handling' = None /\ sscLag' = 0
  /\ UNCHANGED <<port, chassisVars, host, revoked, illegal>>

SscStep == CheckWatchdog \/ ProcessMpcCommand \/ CallFallback \/ CallHandle \/ Record

\* EthercatSlaveCore::Reset, in the interrupt the master raises in the ESC.
Reset ==
  /\ host = None
  /\ core' = NewCore
  /\ Withdraw(FallenBack(port))
  /\ UNCHANGED <<ssc, handling, sscLag, chassisVars, host, illegal>>

\* The deadline recorded, or one whose clock reading was reset and that has passed.
TornWatches(c) ==
  IF c.mode = "Active"
    THEN {[valid |-> c.valid, age |-> age] : age \in {sscLag, MaxAge}} ELSE {}

\* The same interrupt in the middle of Record: each field is reset or recorded.
ResetInRecord ==
  /\ host = None /\ ssc = "record"
  /\ \E have, accepted \in BOOLEAN, force \in {0, handling.force},
        watch \in {None} \union TornWatches(handling) :
       core' = [NewCore EXCEPT !.have = have, !.force = force, !.watch = watch,
                               !.accepted = accepted]
  /\ Withdraw(FallenBack(port))
  /\ ssc' = "idle" /\ handling' = None /\ sscLag' = 0
  /\ UNCHANGED <<chassisVars, host, illegal>>

-----------------------------------------------------------------------------
(* The chassis thread.  It is eligible exactly in Balance.                   *)

SetChassisEligible ==
  /\ chassis = "idle"
  /\ \E state \in {"Balance", "Recovery", "Other"} :
       /\ Withdraw(WithEligible(port, state = "Balance"))
       /\ chassis' = CASE state = "Balance" -> "clock"
                       [] state = "Recovery" -> "idle"
                       [] state = "Other" -> "fallback"
       /\ external' = (external /\ state = "Balance")
  /\ UNCHANGED <<coreVars, lag, host, illegal>>

EnterLocalFallback ==
  /\ chassis = "fallback"
  /\ Withdraw(FallenBack(port))
  /\ chassis' = "idle"
  /\ UNCHANGED <<coreVars, lag, external, host, illegal>>

ReadClock ==
  /\ chassis = "clock"
  /\ chassis' = "consume" /\ lag' = 0
  /\ UNCHANGED <<coreVars, port, external, host, revoked, illegal>>

ConsumeActiveCommand ==
  LET active == Applied /\ port.operator /\ port.eligible
  IN  /\ chassis = "consume"
      /\ Withdraw(IF active /\ Expired(port.applied) THEN FallenBack(port) ELSE port)
      /\ external' = (active /\ ~Expired(port.applied))
      /\ chassis' = "idle" /\ lag' = 0
      /\ UNCHANGED <<coreVars, host, illegal>>

ChassisStep == SetChassisEligible \/ EnterLocalFallback \/ ReadClock \/ ConsumeActiveCommand

-----------------------------------------------------------------------------
(* The operator, the host and the clock.                                     *)

SetOperatorEnabled(b) ==
  /\ IF b THEN port' = [port EXCEPT !.operator = TRUE] /\ revoked' = FALSE
          ELSE Withdraw(FallenBack(port))
  /\ illegal' = (illegal /\ ~b)
  /\ UNCHANGED <<coreVars, chassisVars, host>>

HostGone ==
  /\ host = None
  /\ host' \in Frames
  /\ UNCHANGED <<coreVars, port, chassisVars, revoked, illegal>>

Older(age) == IF age < MaxAge THEN age + 1 ELSE age

Tick ==
  /\ chassis = "consume" => lag < MaxLag
  /\ core' = IF core.watch = None THEN core ELSE [core EXCEPT !.watch.age = Older(@)]
  /\ port' = IF Applied THEN [port EXCEPT !.applied.age = Older(@)] ELSE port
  /\ sscLag' = IF ssc = "idle" THEN 0 ELSE Older(sscLag)
  /\ lag' = IF chassis = "consume" THEN lag + 1 ELSE 0
  /\ UNCHANGED <<ssc, handling, chassis, external, host, revoked, illegal>>

Next ==
  \/ SscStep
  \/ Reset
  \/ ResetInRecord
  \/ ChassisStep
  \/ \E b \in BOOLEAN : SetOperatorEnabled(b)
  \/ HostGone
  \/ Tick

Spec == Init /\ [][Next]_vars

\* Time passes and the chassis thread runs; the SSC task may stop at any point.
FairSpec == Spec /\ WF_vars(Tick) /\ WF_vars(ChassisStep)

-----------------------------------------------------------------------------
Cores ==
  [seq : 0 .. SeqMod - 1, have : BOOLEAN, force : 0 .. MaxForce,
   watch : Deadlines \union {None}, timedOut : BOOLEAN, accepted : BOOLEAN]

Ports == [operator : BOOLEAN, eligible : BOOLEAN, applied : Commands \union {None}]

TypeOK ==
  /\ core \in Cores /\ (core.have => core.force \in Forces \union {0})
  /\ ssc \in {"idle", "expired", "command", "fallback", "handle", "record"}
  /\ handling \in Orders \union {None} /\ (ssc \in {"handle", "record"} => handling \in Orders)
  /\ sscLag \in Ages
  /\ port \in Ports
  /\ chassis \in {"idle", "clock", "consume", "fallback"}
  /\ lag \in 0 .. MaxLag
  /\ external \in BOOLEAN
  /\ host \in Frames \union {None}
  /\ revoked \in BOOLEAN /\ illegal \in BOOLEAN

(***************************************************************************)
(* Between two runs of the SSC task, a command the port applies is the one *)
(* the core watches: same force, same validity, same deadline, accepted    *)
(* and not timed out, with both local gates open.  Two watchdogs in two    *)
(* threads and a reset interrupt withdraw commands at any point.           *)
(***************************************************************************)
WatchdogsAgree ==
  ssc = "idle" /\ Applied =>
    /\ core.watch # None
    /\ port.applied = [force |-> core.force, valid |-> core.watch.valid, age |-> core.watch.age]
    /\ core.accepted /\ ~core.timedOut
    /\ port.operator /\ port.eligible

(***************************************************************************)
(* "Reconnecting does not automatically re-enter Active; the operator gate *)
(* must be asserted again": once an applied command was withdrawn, by a    *)
(* watchdog of either side, a refused frame, a reset, the operator or the  *)
(* chassis state, no other is applied before the operator's next grant.    *)
(***************************************************************************)
GrantToResume == revoked => ~Applied

(***************************************************************************)
(* While the chassis stays on the host's force, that force does not jump:  *)
(* each command it gets is within a step of the one before.                *)
(***************************************************************************)
ForceContinuous ==
  [][ Applied /\ port'.applied # None =>
        /\ port'.applied.force - port.applied.force <= MaxStep
        /\ port.applied.force - port'.applied.force <= MaxStep ]_vars

(***************************************************************************)
(* "Unplugging the cable while Active restores local control", and         *)
(* "suspending the SSC task while the chassis loop still runs" does too:   *)
(* a host that has gone leaves a frame behind, which the task may process  *)
(* again and again or never, and the chassis stops using its force.        *)
(***************************************************************************)
LocalControlReturns == host # None ~> ~external

(***************************************************************************)
(* "The communication watchdog, an illegal command or leaving the safe     *)
(* Balance state revokes the gate, so after the link is back the operator  *)
(* must grant it again": after an illegal command no force is applied      *)
(* before the next grant.                                                  *)
(***************************************************************************)
IllegalRevokes == illegal /\ ssc = "idle" => ~Applied
=============================================================================
