------------------------- MODULE EthercatLinkProofs -------------------------
(***************************************************************************)
(* Proofs about the host's force on its way to the chassis, for any        *)
(* limits, frames, validities and delays.                                  *)
(***************************************************************************)
EXTENDS EthercatLink, TLAPS

-----------------------------------------------------------------------------
(* The parts of a step.                                                      *)

LEMMA NoCommand ==
  /\ None \notin Deadlines /\ None \notin Commands /\ None \notin Orders /\ None \notin Frames
BY NoneAssumption DEF NoneAssumption

LEMMA LimitsType ==
  /\ SeqMod \in Int /\ SeqMod > 0 /\ MinForce \in Int /\ MaxForce \in Int /\ MaxStep \in Int
  /\ MaxStep >= MinForce /\ MinForce > 0 /\ MinForce <= MaxForce /\ MaxValid \in Int /\ MaxValid > 0
  /\ MaxLag \in Int /\ MaxLag >= 0 /\ MaxAge \in Int /\ MaxAge > 0
BY LinkAssumption DEF LinkAssumption, MaxAge

LEMMA FrameType ==
  ASSUME NEW f \in Frames
  PROVE  /\ f.abi \in BOOLEAN /\ f.seq \in 0 .. SeqMod - 1 /\ f.mode \in Modes
         /\ f.sound \in BOOLEAN /\ f.valid \in Int /\ f.valid > 0 /\ f.force \in Int
BY FramesAssumption DEF FramesAssumption

\* Whatever the host asks for, the force is in range, and within a step of the last.
LEMMA LimitedForce ==
  ASSUME core \in Cores, core.have => core.force \in Forces \union {0}, NEW force \in Int
  PROVE  /\ Limited(force) \in Forces
         /\ core.have => Limited(force) - core.force <= MaxStep
                         /\ core.force - Limited(force) <= MaxStep
<1>1. Between(force, MinForce, MaxForce) \in Forces
  BY LimitsType DEF Between, Forces
<1>2. CASE ~core.have
  BY <1>1, <1>2 DEF Limited
<1>3. CASE core.have
  <2>1. core.force \in Forces \union {0}
    BY <1>3
  <2> DEFINE g == Between(force, MinForce, MaxForce)
  <2>2. Limited(force) = Between(g, core.force - MaxStep, core.force + MaxStep)
    BY <1>3 DEF Limited
  <2> HIDE DEF g
  <2> QED
    BY <1>1, <2>1, <2>2, LimitsType DEF Between, Forces, g
<1>4. core.have \in BOOLEAN
  BY DEF Cores
<1> QED
  BY <1>2, <1>3, <1>4

LEMMA FallenBackType ==
  ASSUME port \in Ports
  PROVE  /\ FallenBack(port) \in Ports
         /\ FallenBack(port).applied = None /\ ~FallenBack(port).operator
BY DEF FallenBack, Ports

LEMMA EligibleType ==
  ASSUME port \in Ports, NEW b \in BOOLEAN
  PROVE  /\ WithEligible(port, b) \in Ports
         /\ \/ WithEligible(port, b).applied = None /\ ~WithEligible(port, b).operator
            \/ /\ WithEligible(port, b).eligible
               /\ WithEligible(port, b).applied = port.applied
               /\ WithEligible(port, b).operator = port.operator
BY FallenBackType DEF WithEligible, FallenBack, Ports

LEMMA HandedType ==
  ASSUME port \in Ports, NEW c \in Orders, NEW age \in Ages
  PROVE  LET p == Handed(port, c, age)
         IN  /\ p \in Ports
             /\ p.operator = port.operator /\ p.eligible = port.eligible
             /\ \/ p.applied = None
                \/ /\ p.applied = [force |-> c.force, valid |-> c.valid, age |-> age]
                   /\ c.mode = "Active" /\ port.operator /\ port.eligible
BY DEF Handed, Ports, Orders, Commands

LEMMA RecordedType ==
  ASSUME core \in Cores, NEW c \in Orders, sscLag \in Ages
  PROVE  /\ Recorded(c) \in Cores
         /\ Recorded(c).have /\ Recorded(c).force = c.force /\ c.force \in Forces
         /\ Recorded(c).accepted /\ ~Recorded(c).timedOut
         /\ c.mode = "Active" => Recorded(c).watch = [valid |-> c.valid, age |-> sscLag]
<1>1. c.force \in Forces /\ c.force \in 0 .. MaxForce /\ c.valid \in Validities
  BY LimitsType DEF Orders, Forces
<1> QED
  BY <1>1 DEF Recorded, Cores, Deadlines

LEMMA OlderType ==
  ASSUME NEW age \in Ages
  PROVE  Older(age) \in Ages
BY LimitsType DEF Older, Ages

\* Time makes every command older, whoever holds it.
LEMMA TickedCore ==
  ASSUME TypeOK, Tick
  PROVE  /\ core' \in Cores /\ core'.have = core.have /\ core'.force = core.force
         /\ core'.accepted = core.accepted /\ core'.timedOut = core.timedOut
         /\ core.watch = None => core'.watch = None
         /\ core.watch # None =>
              /\ core'.watch # None /\ core'.watch.valid = core.watch.valid
              /\ core'.watch.age = Older(core.watch.age)
<1>1. core \in Cores
  BY DEF TypeOK
<1>2. CASE core.watch = None
  BY <1>1, <1>2 DEF Tick
<1>3. CASE core.watch # None
  <2> DEFINE w == [core.watch EXCEPT !.age = Older(core.watch.age)]
  <2>1. core.watch \in Deadlines /\ core.watch.age \in Ages
    BY <1>1, <1>3 DEF Cores, Deadlines
  <2>2. Older(core.watch.age) \in Ages
    BY <2>1, OlderType
  <2>3. w \in Deadlines /\ w.valid = core.watch.valid /\ w.age = Older(core.watch.age)
    BY <2>1, <2>2 DEF Deadlines
  <2>4. w # None
    BY <2>3, NoCommand
  <2>5. core' = [core EXCEPT !.watch = w]
    BY <1>3 DEF Tick
  <2> HIDE DEF w
  <2>6. core' \in Cores
    BY <1>1, <2>3, <2>5 DEF Cores
  <2>7. /\ core'.have = core.have /\ core'.force = core.force /\ core'.watch = w
        /\ core'.accepted = core.accepted /\ core'.timedOut = core.timedOut
    BY <1>1, <2>5 DEF Cores
  <2> QED
    BY <1>3, <2>3, <2>4, <2>6, <2>7
<1> QED
  BY <1>2, <1>3

LEMMA TickedPort ==
  ASSUME TypeOK, Tick
  PROVE  /\ port' \in Ports
         /\ port'.operator = port.operator /\ port'.eligible = port.eligible
         /\ port.applied = None => port'.applied = None
         /\ port.applied # None =>
              /\ port'.applied \in Commands
              /\ port'.applied.force = port.applied.force
              /\ port'.applied.valid = port.applied.valid
              /\ port'.applied.age = Older(port.applied.age)
<1>1. port \in Ports
  BY DEF TypeOK
<1>2. CASE port.applied = None
  BY <1>1, <1>2 DEF Tick, Applied
<1>3. CASE port.applied # None
  <2> DEFINE c == [port.applied EXCEPT !.age = Older(port.applied.age)]
  <2>1. port.applied \in Commands /\ port.applied.age \in Ages
    BY <1>1, <1>3 DEF Ports, Commands
  <2>2. Older(port.applied.age) \in Ages
    BY <2>1, OlderType
  <2>3. /\ c \in Commands /\ c.force = port.applied.force
        /\ c.valid = port.applied.valid /\ c.age = Older(port.applied.age)
    BY <2>1, <2>2 DEF Commands
  <2>4. port' = [port EXCEPT !.applied = c]
    BY <1>3 DEF Tick, Applied
  <2> HIDE DEF c
  <2>5. port' \in Ports
    BY <1>1, <2>3, <2>4 DEF Ports
  <2>6. port'.operator = port.operator /\ port'.eligible = port.eligible /\ port'.applied = c
    BY <1>1, <2>4 DEF Ports
  <2> QED
    BY <1>3, <2>3, <2>5, <2>6
<1> QED
  BY <1>2, <1>3

-----------------------------------------------------------------------------
(* Type correctness.                                                         *)

USE DEF Applied, coreVars, chassisVars

LEMMA ProcessType ==
  ASSUME TypeOK, ProcessMpcCommand
  PROVE  /\ core' \in Cores /\ core'.have = core.have /\ core'.force = core.force
         /\ ssc' \in {"idle", "fallback", "handle"} /\ sscLag' \in Ages
         /\ handling' \in Orders \union {None}
         /\ ssc' = "handle" =>
              /\ handling' \in Orders
              /\ core'.watch = core.watch /\ core'.accepted = core.accepted
              /\ core'.timedOut = core.timedOut
              /\ core.have => handling'.force - core.force <= MaxStep
                              /\ core.force - handling'.force <= MaxStep
         /\ ssc' = "idle" => core' = core \/ core.watch = None
         /\ illegal' \in BOOLEAN
<1>1. PICK f \in IF host = None THEN Frames ELSE {host} : Ignore(f) \/ Refuse(f) \/ Accept(f)
  BY DEF ProcessMpcCommand
<1>2. f \in Frames
  BY <1>1 DEF TypeOK
<1>3. /\ f.abi \in BOOLEAN /\ f.seq \in 0 .. SeqMod - 1
      /\ f.valid \in Int /\ f.valid > 0 /\ f.force \in Int
  BY <1>2, FrameType
<1>4. /\ core \in Cores /\ (core.have => core.force \in Forces \union {0})
      /\ handling \in Orders \union {None} /\ sscLag \in Ages /\ illegal \in BOOLEAN
  BY DEF TypeOK
<1>5. 0 \in Ages
  BY LimitsType DEF Ages
<1>6. CASE Ignore(f)
  BY <1>4, <1>5, <1>6 DEF Ignore
<1>7. CASE Refuse(f)
  <2> DEFINE c == [core EXCEPT !.seq = IF f.abi THEN f.seq ELSE core.seq, !.watch = None,
                       !.accepted = IF f.abi \/ core.watch # None THEN FALSE ELSE core.accepted]
  <2>1. core' = c
    BY <1>7 DEF Refuse
  <2>2. c \in Cores /\ c.have = core.have /\ c.force = core.force
    BY <1>3, <1>4 DEF Cores
  <2>3. /\ ssc' = (IF core.watch # None THEN "fallback" ELSE "idle")
        /\ sscLag' = 0 /\ handling' = handling /\ illegal' \in BOOLEAN
    BY <1>3, <1>4, <1>7 DEF Refuse
  <2> HIDE DEF c
  <2> QED
    BY <1>4, <1>5, <2>1, <2>2, <2>3
<1>8. CASE Accept(f)
  <2>1. core' = [core EXCEPT !.seq = f.seq]
    BY <1>8 DEF Accept
  <2>2. /\ core' \in Cores /\ core'.have = core.have /\ core'.force = core.force
        /\ core'.watch = core.watch /\ core'.accepted = core.accepted
        /\ core'.timedOut = core.timedOut
    BY <1>3, <1>4, <2>1 DEF Cores
  <2>3. Between(f.valid, 1, MaxValid) \in Validities
    BY <1>3, LimitsType DEF Between, Validities
  <2>4. /\ Limited(f.force) \in Forces
        /\ core.have => Limited(f.force) - core.force <= MaxStep
                        /\ core.force - Limited(f.force) <= MaxStep
    BY <1>3, <1>4, LimitedForce
  <2>5. f.mode \in {"Shadow", "Active"}
    BY <1>8 DEF Accept, Legal
  <2>6. handling' = [mode |-> f.mode, force |-> Limited(f.force),
                     valid |-> Between(f.valid, 1, MaxValid)]
    BY <1>8 DEF Accept
  <2>7. handling' \in Orders /\ handling'.force = Limited(f.force)
    BY <2>3, <2>4, <2>5, <2>6 DEF Orders
  <2>8. ssc' = "handle" /\ sscLag' \in Ages /\ illegal' = illegal
    BY <1>4, <1>5, <1>8 DEF Accept
  <2> QED
    BY <1>4, <2>2, <2>4, <2>7, <2>8
<1> QED
  BY <1>1, <1>6, <1>7, <1>8

LEMMA NewCoreType ==
  /\ NewCore \in Cores /\ ~NewCore.have /\ NewCore.watch = None
  /\ NewCore.force = 0
<1>1. 0 \in 0 .. SeqMod - 1 /\ 0 \in 0 .. MaxForce
  BY LimitsType
<1> QED
  BY <1>1 DEF NewCore, Cores

LEMMA TornCoreType ==
  ASSUME TypeOK, ResetInRecord
  PROVE  core' \in Cores /\ (core'.have => core'.force \in Forces \union {0})
<1>1. PICK have \in BOOLEAN, accepted \in BOOLEAN, force \in {0, handling.force},
           watch \in {None} \union TornWatches(handling) :
        core' = [NewCore EXCEPT !.have = have, !.force = force, !.watch = watch,
                                !.accepted = accepted]
  BY DEF ResetInRecord
<1>2. handling \in Orders /\ sscLag \in Ages
  BY DEF ResetInRecord, TypeOK
<1>3. force \in Forces \union {0} /\ force \in 0 .. MaxForce
  BY <1>2, LimitsType DEF Orders, Forces
<1>4. MaxAge \in Ages /\ handling.valid \in Validities
  BY <1>2, LimitsType DEF Ages, Orders
<1>5. watch \in Deadlines \union {None}
  BY <1>2, <1>4 DEF TornWatches, Deadlines
<1> QED
  BY <1>1, <1>3, <1>5, NewCoreType DEF Cores

LEMMA SscType ==
  ASSUME TypeOK, SscStep
  PROVE  TypeOK'
<1>0. UNCHANGED <<chassis, lag, external, host>>
  BY DEF SscStep, CheckWatchdog, ProcessMpcCommand, CallFallback, CallHandle, Record
<1>1. CASE CheckWatchdog
  <2>1. core' = [core EXCEPT !.watch = None, !.timedOut = TRUE, !.accepted = FALSE]
    BY <1>1 DEF CheckWatchdog
  <2>2. core' \in Cores /\ core'.have = core.have /\ core'.force = core.force
    BY <2>1 DEF Cores, TypeOK
  <2>3. 0 \in Ages
    BY LimitsType DEF Ages
  <2> QED
    BY <1>0, <1>1, <2>2, <2>3 DEF CheckWatchdog, TypeOK
<1>2. CASE ProcessMpcCommand
  <2>1. UNCHANGED <<port, revoked>>
    BY <1>2 DEF ProcessMpcCommand
  <2> QED
    BY <1>0, <1>2, <2>1, ProcessType DEF TypeOK
<1>3. CASE CallFallback
  <2>1. port' \in Ports /\ revoked' \in BOOLEAN
    BY <1>3, FallenBackType DEF CallFallback, Withdraw, TypeOK
  <2> QED
    BY <1>0, <1>3, <2>1 DEF CallFallback, TypeOK
<1>4. CASE CallHandle
  <2>1. port' \in Ports
    BY <1>4, HandedType DEF CallHandle, TypeOK
  <2> QED
    BY <1>0, <1>4, <2>1 DEF CallHandle, TypeOK
<1>5. CASE Record
  <2>1. core' \in Cores /\ core'.force \in Forces
    BY <1>5, RecordedType DEF Record, TypeOK
  <2>2. 0 \in Ages
    BY LimitsType DEF Ages
  <2> QED
    BY <1>0, <1>5, <2>1, <2>2 DEF Record, TypeOK
<1> QED
  BY <1>1, <1>2, <1>3, <1>4, <1>5 DEF SscStep

LEMMA ChassisType ==
  ASSUME TypeOK, ChassisStep
  PROVE  TypeOK'
<1>1. UNCHANGED <<core, ssc, handling, sscLag, host, illegal>>
  BY DEF ChassisStep, SetChassisEligible, EnterLocalFallback, ReadClock, ConsumeActiveCommand
<1>2. 0 \in 0 .. MaxLag
  BY LimitsType
<1>3. port' \in Ports /\ revoked' \in BOOLEAN
  <2>1. CASE SetChassisEligible
    <3>1. PICK state \in {"Balance", "Recovery", "Other"} :
            Withdraw(WithEligible(port, state = "Balance"))
      BY <2>1 DEF SetChassisEligible
    <3>2. (state = "Balance") \in BOOLEAN
      OBVIOUS
    <3> QED
      BY <3>1, <3>2, EligibleType DEF Withdraw, TypeOK
  <2>2. CASE EnterLocalFallback
    BY <2>2, FallenBackType DEF EnterLocalFallback, Withdraw, TypeOK
  <2>3. CASE ReadClock
    BY <2>3 DEF ReadClock, TypeOK
  <2>4. CASE ConsumeActiveCommand
    BY <2>4, FallenBackType DEF ConsumeActiveCommand, Withdraw, TypeOK
  <2> QED
    BY <2>1, <2>2, <2>3, <2>4 DEF ChassisStep
<1>4. /\ chassis' \in {"idle", "clock", "consume", "fallback"} /\ lag' \in 0 .. MaxLag
      /\ external' \in BOOLEAN
  <2>1. CASE SetChassisEligible
    BY <2>1 DEF SetChassisEligible, TypeOK
  <2>2. CASE EnterLocalFallback
    BY <2>2 DEF EnterLocalFallback, TypeOK
  <2>3. CASE ReadClock
    BY <1>2, <2>3 DEF ReadClock, TypeOK
  <2>4. CASE ConsumeActiveCommand
    BY <1>2, <2>4 DEF ConsumeActiveCommand, TypeOK
  <2> QED
    BY <2>1, <2>2, <2>3, <2>4 DEF ChassisStep
<1> QED
  BY <1>1, <1>3, <1>4 DEF TypeOK

LEMMA StepType ==
  ASSUME TypeOK, [Next]_vars
  PROVE  TypeOK'
<1>1. CASE SscStep
  BY <1>1, SscType
<1>2. CASE Reset
  BY <1>2, NewCoreType, FallenBackType DEF Reset, Withdraw, TypeOK
<1>3. CASE ResetInRecord
  <2>1. port' \in Ports /\ revoked' \in BOOLEAN
    BY <1>3, FallenBackType DEF ResetInRecord, Withdraw, TypeOK
  <2>2. 0 \in Ages
    BY LimitsType DEF Ages
  <2> QED
    BY <1>3, <2>1, <2>2, TornCoreType DEF ResetInRecord, TypeOK
<1>4. CASE ChassisStep
  BY <1>4, ChassisType
<1>5. ASSUME NEW b \in BOOLEAN, SetOperatorEnabled(b)
      PROVE  TypeOK'
  <2>1. port' \in Ports /\ revoked' \in BOOLEAN
    <3>1. CASE b
      BY <1>5, <3>1 DEF SetOperatorEnabled, Ports, TypeOK
    <3>2. CASE ~b
      BY <1>5, <3>2, FallenBackType DEF SetOperatorEnabled, Withdraw, TypeOK
    <3> QED
      BY <3>1, <3>2
  <2> QED
    BY <1>5, <2>1 DEF SetOperatorEnabled, TypeOK
<1>6. CASE HostGone
  BY <1>6 DEF HostGone, TypeOK
<1>7. CASE Tick
  <2>1. core' \in Cores /\ core'.have = core.have /\ core'.force = core.force /\ port' \in Ports
    BY <1>7, TickedCore, TickedPort
  <2>2. sscLag' \in Ages
    BY <1>7, OlderType, LimitsType DEF Tick, Ages, TypeOK
  <2>3. lag' \in 0 .. MaxLag
    BY <1>7, LimitsType DEF Tick, TypeOK
  <2> QED
    BY <1>7, <2>1, <2>2, <2>3 DEF Tick, TypeOK
<1>8. CASE UNCHANGED vars
  BY <1>8 DEF vars, TypeOK
<1> QED
  BY <1>1, <1>2, <1>3, <1>4, <1>5, <1>6, <1>7, <1>8 DEF Next

(* Every variable of the link keeps its type: forces stay in range, ages   *)
(* and delays within their bounds, for any limits and frames.              *)
THEOREM TypeCorrect == Spec => []TypeOK
<1>1. ASSUME Init
      PROVE  TypeOK
  <2>1. core \in Cores /\ ~core.have
    BY <1>1, NewCoreType DEF Init
  <2>2. port \in Ports
    BY <1>1 DEF Init, Ports
  <2>3. sscLag \in Ages /\ lag \in 0 .. MaxLag
    BY <1>1, LimitsType DEF Init, Ages
  <2> QED
    BY <1>1, <2>1, <2>2, <2>3 DEF Init, TypeOK
<1>2. TypeOK /\ [Next]_vars => TypeOK'
  BY StepType
<1> QED
  BY <1>1, <1>2, PTL DEF Spec

-----------------------------------------------------------------------------
(* The two sides.  WatchdogsAgree speaks of the moments between two runs of   *)
(* the SSC task; within a run the command is on its way from one to the other. *)

Watched ==
  /\ core.watch # None /\ core.have
  /\ port.applied.force = core.force
  /\ port.applied.valid = core.watch.valid
  /\ port.applied.age = core.watch.age
  /\ core.accepted /\ ~core.timedOut

NextStep ==
  /\ handling.force - port.applied.force <= MaxStep
  /\ port.applied.force - handling.force <= MaxStep

JustHanded ==
  /\ handling.mode = "Active"
  /\ port.applied.force = handling.force
  /\ port.applied.valid = handling.valid
  /\ port.applied.age = sscLag

LinkInv ==
  /\ Applied => port.operator /\ port.eligible
  /\ ssc = "idle" /\ Applied => Watched
  /\ ssc = "command" => ~Applied
  /\ ssc = "handle" /\ Applied => Watched /\ NextStep
  /\ ssc = "record" /\ Applied => JustHanded
  /\ revoked => ~port.operator

\* While a command stays applied, its force moves by a step at most.
ForceStep ==
  Applied /\ port'.applied # None =>
    /\ port'.applied.force - port.applied.force <= MaxStep
    /\ port.applied.force - port'.applied.force <= MaxStep

\* A step that withdraws the command, or leaves the port alone, keeps the rest.
LEMMA WithdrawLink ==
  ASSUME TypeOK, LinkInv, UNCHANGED <<core, ssc, handling, sscLag>>, NEW p, Withdraw(p),
         \/ p.applied = None /\ ~p.operator
         \/ p.applied = port.applied /\ p.operator = port.operator
            /\ (p.eligible \/ p.eligible = port.eligible)
  PROVE  LinkInv' /\ ForceStep
<1>1. port' = p /\ revoked' = (revoked \/ (Applied /\ p.applied = None))
  BY DEF Withdraw
<1>2. CASE p.applied = None /\ ~p.operator
  BY <1>1, <1>2 DEF LinkInv, ForceStep
<1>3. CASE /\ p.applied = port.applied /\ p.operator = port.operator
           /\ p.eligible \/ p.eligible = port.eligible
  <2>1. revoked' = revoked
    BY <1>1, <1>3 DEF TypeOK
  <2>2. ForceStep
    <3>1. CASE port.applied # None
      <4>1. port.applied.force \in Int
        BY <3>1, LimitsType DEF TypeOK, Ports, Commands, Forces
      <4> QED
        BY <1>1, <1>3, <4>1, LimitsType DEF ForceStep
    <3>2. CASE port.applied = None
      BY <3>2 DEF ForceStep
    <3> QED
      BY <3>1, <3>2
  <2> QED
    BY <1>1, <1>3, <2>1, <2>2 DEF LinkInv, Watched, NextStep, JustHanded
<1> QED
  BY <1>2, <1>3

\* A step that leaves the port alone does not move the force.
LEMMA SamePortForce ==
  ASSUME TypeOK, port' = port
  PROVE  ForceStep
<1>1. CASE port.applied # None
  <2>1. port.applied.force \in Int
    BY <1>1, LimitsType DEF TypeOK, Ports, Commands, Forces
  <2> QED
    BY <2>1, LimitsType DEF ForceStep
<1>2. CASE port.applied = None
  BY <1>2 DEF ForceStep
<1> QED
  BY <1>1, <1>2

LEMMA SscLink ==
  ASSUME TypeOK, LinkInv, SscStep
  PROVE  LinkInv' /\ ForceStep
<1>1. CASE CheckWatchdog
  BY <1>1, SamePortForce DEF CheckWatchdog, LinkInv
<1>2. CASE ProcessMpcCommand
  <2>1. UNCHANGED <<port, revoked>> /\ ssc \in {"idle", "command"}
    BY <1>2 DEF ProcessMpcCommand
  <2>2. ForceStep
    BY <2>1, SamePortForce
  <2>3. ssc' \in {"idle", "fallback", "handle"}
    BY <1>2, ProcessType
  <2>4. ASSUME ssc' = "idle", Applied
        PROVE  Watched'
    <3>1. Watched /\ core.watch # None
      BY <2>1, <2>4 DEF LinkInv, Watched
    <3>2. core' = core
      BY <1>2, <2>4, <3>1, ProcessType
    <3> QED
      BY <2>1, <3>1, <3>2 DEF Watched
  <2>5. ASSUME ssc' = "handle", Applied
        PROVE  Watched' /\ NextStep'
    <3>1. Watched
      BY <2>1, <2>5 DEF LinkInv
    <3>2. /\ core'.have = core.have /\ core'.force = core.force /\ core'.watch = core.watch
          /\ core'.accepted = core.accepted /\ core'.timedOut = core.timedOut
          /\ core.have => handling'.force - core.force <= MaxStep
                          /\ core.force - handling'.force <= MaxStep
      BY <1>2, <2>5, ProcessType
    <3> QED
      BY <2>1, <3>1, <3>2 DEF Watched, NextStep
  <2> QED
    BY <2>1, <2>2, <2>3, <2>4, <2>5 DEF LinkInv
<1>3. CASE CallFallback
  <2>1. port' = FallenBack(port) /\ ssc' \in {"command", "idle"}
    BY <1>3 DEF CallFallback, Withdraw
  <2>2. port'.applied = None /\ ~port'.operator
    BY <2>1, FallenBackType DEF TypeOK
  <2> QED
    BY <2>1, <2>2 DEF LinkInv, ForceStep
<1>4. CASE CallHandle
  <2>1. /\ ssc = "handle" /\ ssc' = "record" /\ port' = Handed(port, handling, sscLag)
        /\ UNCHANGED <<handling, sscLag, revoked>> /\ handling \in Orders
    BY <1>4 DEF CallHandle, TypeOK
  <2>2. port'.operator = port.operator /\ port'.eligible = port.eligible
    BY <2>1, HandedType DEF TypeOK
  <2>3. ASSUME port'.applied # None
        PROVE  /\ port'.applied = [force |-> handling.force, valid |-> handling.valid, age |-> sscLag]
               /\ handling.mode = "Active" /\ port.operator /\ port.eligible
    BY <2>1, <2>3, HandedType DEF TypeOK
  <2>4. port'.applied # None => JustHanded'
    BY <2>1, <2>3 DEF JustHanded
  <2>5. ForceStep
    BY <2>1, <2>3 DEF LinkInv, NextStep, ForceStep
  <2> QED
    BY <2>1, <2>2, <2>3, <2>4, <2>5 DEF LinkInv
<1>5. CASE Record
  <2>1. /\ ssc = "record" /\ ssc' = "idle" /\ core' = Recorded(handling)
        /\ UNCHANGED <<port, revoked>> /\ handling \in Orders
    BY <1>5 DEF Record, TypeOK
  <2>2. ASSUME Applied
        PROVE  Watched'
    <3>1. JustHanded
      BY <2>1, <2>2 DEF LinkInv
    <3>2. /\ core'.have /\ core'.force = handling.force /\ core'.accepted /\ ~core'.timedOut
          /\ core'.watch = [valid |-> handling.valid, age |-> sscLag]
      BY <2>1, <3>1, RecordedType DEF JustHanded, TypeOK
    <3>3. core'.watch \in Deadlines
      BY <2>1, <3>2 DEF Deadlines, Orders, TypeOK
    <3>4. core'.watch # None
      BY <3>3, NoCommand
    <3> QED
      BY <2>1, <3>1, <3>2, <3>4 DEF Watched, JustHanded
  <2> QED
    BY <2>1, <2>2, SamePortForce DEF LinkInv
<1> QED
  BY <1>1, <1>2, <1>3, <1>4, <1>5 DEF SscStep

LEMMA ChassisLink ==
  ASSUME TypeOK, LinkInv, ChassisStep
  PROVE  LinkInv' /\ ForceStep
<1>1. UNCHANGED <<core, ssc, handling, sscLag>>
  BY DEF ChassisStep, SetChassisEligible, EnterLocalFallback, ReadClock, ConsumeActiveCommand
<1>2. FallenBack(port).applied = None /\ ~FallenBack(port).operator
  BY FallenBackType DEF TypeOK
<1>3. CASE SetChassisEligible
  <2>1. PICK state \in {"Balance", "Recovery", "Other"} :
          Withdraw(WithEligible(port, state = "Balance"))
    BY <1>3 DEF SetChassisEligible
  <2>2. (state = "Balance") \in BOOLEAN
    OBVIOUS
  <2> DEFINE p == WithEligible(port, state = "Balance")
  <2>3. \/ p.applied = None /\ ~p.operator
        \/ p.eligible /\ p.applied = port.applied /\ p.operator = port.operator
    BY <2>2, EligibleType DEF TypeOK
  <2> HIDE DEF p
  <2>4. Withdraw(p)
    BY <2>1 DEF p
  <2> QED
    BY <1>1, <2>3, <2>4, WithdrawLink
<1>4. CASE EnterLocalFallback
  BY <1>1, <1>2, <1>4, WithdrawLink DEF EnterLocalFallback
<1>5. CASE ReadClock
  BY <1>1, <1>5, SamePortForce
  DEF ReadClock, LinkInv, Watched, NextStep, JustHanded
<1>6. CASE ConsumeActiveCommand
  <2>1. Withdraw(FallenBack(port)) \/ Withdraw(port)
    BY <1>6 DEF ConsumeActiveCommand
  <2> QED
    BY <1>1, <1>2, <2>1, WithdrawLink
<1> QED
  BY <1>3, <1>4, <1>5, <1>6 DEF ChassisStep

LEMMA ResetLink ==
  ASSUME TypeOK, LinkInv, Reset \/ ResetInRecord
  PROVE  LinkInv' /\ ForceStep
<1>1. port' = FallenBack(port)
  BY DEF Reset, ResetInRecord, Withdraw
<1>2. port'.applied = None /\ ~port'.operator
  BY <1>1, FallenBackType DEF TypeOK
<1> QED
  BY <1>2 DEF LinkInv, ForceStep

LEMMA OperatorLink ==
  ASSUME TypeOK, LinkInv, NEW b \in BOOLEAN, SetOperatorEnabled(b)
  PROVE  LinkInv' /\ ForceStep
<1>1. UNCHANGED <<core, ssc, handling, sscLag>>
  BY DEF SetOperatorEnabled
<1>2. CASE ~b
  BY <1>1, <1>2, FallenBackType, WithdrawLink DEF SetOperatorEnabled, TypeOK
<1>3. CASE b
  <2>1. port' = [port EXCEPT !.operator = TRUE] /\ ~revoked'
    BY <1>3 DEF SetOperatorEnabled
  <2>2. port'.applied = port.applied /\ port'.operator /\ port'.eligible = port.eligible
    BY <2>1 DEF TypeOK, Ports
  <2>3. ForceStep
    <3>1. CASE port.applied # None
      <4>1. port.applied.force \in Int
        BY <3>1, LimitsType DEF TypeOK, Ports, Commands, Forces
      <4> QED
        BY <2>2, <4>1, LimitsType DEF ForceStep
    <3>2. CASE port.applied = None
      BY <3>2 DEF ForceStep
    <3> QED
      BY <3>1, <3>2
  <2> QED
    BY <1>1, <2>1, <2>2, <2>3 DEF LinkInv, Watched, NextStep, JustHanded
<1> QED
  BY <1>2, <1>3

\* Both deadlines move together.
LEMMA TickLink ==
  ASSUME TypeOK, LinkInv, Tick
  PROVE  LinkInv' /\ ForceStep
<1>1. UNCHANGED <<ssc, handling, revoked>>
  BY DEF Tick
<1>2. sscLag' = IF ssc = "idle" THEN 0 ELSE Older(sscLag)
  BY DEF Tick
<1>3. port'.operator = port.operator /\ port'.eligible = port.eligible
  BY TickedPort
<1>4. ASSUME Applied'
      PROVE  /\ Applied
             /\ port'.applied.force = port.applied.force
             /\ port'.applied.valid = port.applied.valid
             /\ port'.applied.age = Older(port.applied.age)
  BY <1>4, TickedPort
<1>5. Applied' /\ Watched => Watched'
  <2> SUFFICES ASSUME Applied', Watched
               PROVE  Watched'
    OBVIOUS
  <2>1. /\ core'.watch # None
        /\ core'.watch.valid = core.watch.valid /\ core'.watch.age = Older(core.watch.age)
    BY TickedCore DEF Watched
  <2>2. /\ core'.have = core.have /\ core'.force = core.force
        /\ core'.accepted = core.accepted /\ core'.timedOut = core.timedOut
    BY TickedCore
  <2> QED
    BY <1>4, <2>1, <2>2 DEF Watched
<1>6. Applied' /\ NextStep => NextStep'
  BY <1>1, <1>4 DEF NextStep
<1>7. Applied' /\ ssc = "record" /\ JustHanded => JustHanded'
  BY <1>1, <1>2, <1>4 DEF JustHanded
<1>8. ForceStep
  <2>1. CASE port.applied # None
    <3>1. port.applied.force \in Int
      BY <2>1, LimitsType DEF TypeOK, Ports, Commands, Forces
    <3> QED
      BY <1>4, <3>1, LimitsType DEF ForceStep
  <2>2. CASE port.applied = None
    BY <2>2 DEF ForceStep
  <2> QED
    BY <2>1, <2>2
<1> QED
  BY <1>1, <1>3, <1>4, <1>5, <1>6, <1>7, <1>8 DEF LinkInv

LEMMA StepLink ==
  ASSUME TypeOK, LinkInv, [Next]_vars
  PROVE  LinkInv' /\ [ForceStep]_vars
<1>1. CASE HostGone
  BY <1>1, SamePortForce DEF HostGone, LinkInv, Watched, NextStep, JustHanded
<1>2. CASE UNCHANGED vars
  BY <1>2 DEF vars, LinkInv, Watched, NextStep, JustHanded
<1>3. CASE Next /\ ~HostGone
  BY <1>3, SscLink, ResetLink, ChassisLink, OperatorLink, TickLink DEF Next
<1> QED
  BY <1>1, <1>2, <1>3

LEMMA InitLink == Init => LinkInv
BY DEF Init, LinkInv

(* Between two runs of the SSC task both sides hold the same command with  *)
(* the same deadline, whatever the delays, resets and withdrawals.         *)
THEOREM WatchdogsCorrect == Spec => []WatchdogsAgree
<1>1. TypeOK /\ LinkInv /\ [Next]_vars => LinkInv'
  BY StepLink
<1>2. TypeOK /\ LinkInv => WatchdogsAgree
  <2> SUFFICES ASSUME TypeOK, LinkInv, ssc = "idle", Applied
               PROVE  WatchdogsAgree
    BY DEF WatchdogsAgree
  <2>1. Watched /\ port.operator /\ port.eligible
    BY DEF LinkInv
  <2>2. port.applied \in Commands
    BY DEF TypeOK, Ports
  <2>3. port.applied = [force |-> core.force, valid |-> core.watch.valid, age |-> core.watch.age]
    BY <2>1, <2>2 DEF Watched, Commands
  <2> QED
    BY <2>1, <2>3 DEF WatchdogsAgree, Watched
<1> QED
  BY <1>1, <1>2, InitLink, TypeCorrect, PTL DEF Spec

(* A withdrawn command is not followed by another before the operator's    *)
(* next grant.                                                             *)
THEOREM GrantCorrect == Spec => []GrantToResume
<1>1. TypeOK /\ LinkInv /\ [Next]_vars => LinkInv'
  BY StepLink
<1>2. LinkInv => GrantToResume
  BY DEF LinkInv, GrantToResume
<1> QED
  BY <1>1, <1>2, InitLink, TypeCorrect, PTL DEF Spec

(* The host's force moves by a step at most while it stays applied.        *)
THEOREM ForceCorrect == Spec => ForceContinuous
<1>1. TypeOK /\ LinkInv /\ [Next]_vars => LinkInv'
  BY StepLink
<1>2. TypeOK /\ LinkInv /\ [Next]_vars => [ForceStep]_vars
  BY StepLink
<1>3. [][ForceStep]_vars => ForceContinuous
  BY PTL DEF ForceContinuous, ForceStep
<1> QED
  BY <1>1, <1>2, <1>3, InitLink, TypeCorrect, PTL DEF Spec
=============================================================================
