# wbr_control: TLA+ models, checks and proofs

`wbr_control` is the firmware of a wheel-legged balancing robot: a Zephyr
program on one core that closes a 1 kHz control loop over CAN motors, takes
orders from a radio remote and, in an experimental mode, forces from an
EtherCAT host. This directory holds TLA+ modules for the parts of it whose
correctness rests on order: threads and interrupts that share flags, latches
that must survive any history of inputs, two watchdogs that watch one command, a
store that must survive a power loss, and drivers that share memory with the
threads that use them.

Paths in this file are relative to the repository.

## 1. The system

### Components and their state

| component | source | state it keeps | operations |
|---|---|---|---|
| CAN dispatch | `src/chassis_controller/communication/can_dispatch.cpp` | a mailbox, a generation and a pending flag per actuator; a queue, a callback context and a completion semaphore per bus | submit a frame, send a batch, completion interrupt, receive interrupt |
| Chassis state machine | `modules/chassis/chassis_state_machine.cpp` | control state, tilt / action / recovery latches, finished and failed flags, last requested enable | `Update` once per cycle |
| Chassis module | `modules/chassis/chassis_module.cpp` | the control cycle, jump cooldown, loop ticks | read inputs, update state, entry actions, control output, apply, publish |
| Chassis actuator | `modules/chassis/chassis_actuator.cpp` | DM arming ticks | `Apply`, `ResetArming` |
| Chassis input reader | `modules/chassis/chassis_input_reader.cpp` | last sequences and their times | one snapshot per cycle |
| Action controllers | `recovery`, `flight`, `jump`, `climb_stairs` `_controller.cpp` | phase, elapsed times, holds | `Update` while their state lasts |
| EtherCAT slave core | `communication/ethercat_slave_core.cpp`, `ethercat_ssc_bridge.cpp` | last sequence, last force, the active flag and its deadline | `Process` per EtherCAT cycle, `Reset` in an interrupt |
| EtherCAT chassis port | `modules/chassis/ethercat_chassis_port.cpp` | operator gate, chassis gate, the last active command | hand over, consume, fall back, grant |
| EtherCAT SII store | `src/protocols/ethercat/ethercat_sii_store.cpp` | an image in RAM, two slots of flash, generation, dirty flag | load, write a word, commit |
| USB session and PC link | `communication/usb_session.cpp` | configured / busy / armed flags, receive queue, last command time | USB events and completions, receive thread, transmit thread |
| Remote input | `modules/remote_input/` | receive buffers, byte stream, frame buffer, frame-lost timer | UART events, decode loop |
| HI91 IMU | `modules/imu/` | circular DMA buffer positions, frame state machine | poll, decode, publish |
| Onboard IMU, AHRS | `modules/ahrs/` | transfer flags, data-ready queue, filter state | data-ready and completion interrupts, start, take, time out |
| Oscilloscope | `modules/oscilloscope/` | busy flag, start time, last sequence | transmit, completion, abort |
| SD log | `modules/sdlog/` | batch buffer, counters | append, write, sync |
| Periodic schedule | `src/periodic_schedule.h` | next release | wait |
| Snapshots, queues | `msg/transport/` | one value or a bounded queue | write / read under a spinlock |
| Balance control, estimators, MPC, Kalman filter, frame tree | `modules/chassis/`, `modules/ahrs/`, `src/tf_tree.h` | floating-point state | numeric |
| Referee, system state, serial servo, shell, codecs, boot, gimbal | several | small or none | see `PROJECT.json` |

### How they interact

Everything that passes between threads goes through `LatestValue` snapshots
(a copy under a spinlock, so each write and read is one step), kernel message
queues, or plain flags. The interesting paths are:

* remote thread and IMU threads -> snapshots -> chassis thread (1 kHz): input
  reader, state machine, action controller, actuator;
* chassis thread -> CAN mailboxes and queues -> one worker per bus -> CAN
  driver -> completion interrupt -> worker;
* EtherCAT host -> SSC task -> slave core -> chassis port <- chassis thread;
  the ESC reset interrupt and the operator's switch reach the port too;
* EtherCAT master mailbox -> SII store -> flash;
* remote UART -> two DMA buffers -> byte stream -> remote thread -> snapshot ->
  input reader; HI91 UART -> circular DMA -> polling thread -> snapshot; sensor
  data-ready line -> interrupt -> AHRS thread -> SPI -> callback -> AHRS thread;
* USB interrupts <-> receive thread and transmit thread, over volatile flags,
  a queue and a kick.

Thread priorities (`scheduling/thread_priorities.h`): IMU and AHRS 4, chassis
5, CAN transmit 6, USB 7, remote 8, referee 9, oscilloscope 10, system state
11, SD log 13. The models do not rely on them: every interleaving of the steps
is allowed, which covers what preemption by priority can produce and any other
assignment of priorities.

### What is hard, and what makes each component correct

`PROJECT.json` lists the hazards line by line. In short:

* CAN dispatch: ownership of a slot is a flag handed between two threads
  without a lock. Correct: one owner per pending slot, queues never full, the
  newest frame always gets out and never an older one after it, no completion
  mistaken for another.
* Chassis cycle: latches against every sequence of link losses, sensor losses,
  tilts and failing actions. Correct: torque only with good inputs and a full
  arming, recovery first, faults held until a fresh disable, no stuck torque,
  no stuck chassis.
* EtherCAT link: two watchdogs in two threads and a reset interrupt. Correct:
  they agree, a withdrawn force needs a new grant, an applied force does not
  jump, a host that is gone loses the chassis.
* SII store: a power loss in any flash operation. Correct: the next boot finds
  a whole image, the old or the new one.
* USB session: three flags that two threads and interrupts set and clear.
  Correct: telemetry never stalls, a command does not outlive its host.
* Remote link: a loss of frames, noise, restarts of the receiver and a reader
  with a clock of its own. Correct: no enable without a recent frame that
  enables, a loss is told, the receive buffers take turns.
* IMU receivers and oscilloscope: memory shared with a driver, timeouts that
  race late answers. Correct: one owner of the memory, bytes in order, no edge
  or intact frame lost.
* Attitude filter: memory of accelerations that outlives the sample it came
  from. Correct: only the gravity of a still body corrects.
* Action controllers: holds, timeouts and limits that run at once and resets
  that depend on the way a state was left. Correct: each action ends, no hold is
  inherited.
* Freshness: snapshots copied one by one while interrupts write them. Correct: no
  stale frame passes, no good one is refused.
* Periodic schedule and SD log: late wake-ups, power cuts. Correct: each slot is
  run for or counted once, a cut costs a bounded tail.

## 2. Modules

Each definition that stands for code is listed with its lines under `map` in
`PROJECT.json`; definitions keep the names of the source where they can.

| module | models | composed with |
|---|---|---|
| `CanDispatch` | submit path, worker and completion interrupt | implements `LatestChannel` |
| `LatestChannel` | abstract: a channel of latest values | |
| `ChassisControl` | state machine, cycle, actuator policy | |
| `EthercatLink` | slave core, chassis port, chassis thread's use of it, operator, host, clock | |
| `EthercatSiiStore` | RAM image, two slots, commit, boot | implements `DurableImage` |
| `DurableImage` | abstract: an image that changes as a whole | |
| `UsbSession` | USB events, completions, receive queue, `PcLinkLoop`, `PcLinkTxLoop` | |
| `RemoteLink` | remote UART, stream, remote thread, published state, reader, a fault latch | the enable of `ChassisControl`, one of its latches |
| `Hi91Receiver` | circular DMA, polling | hands its bytes to `Hi91Frames` |
| `Hi91Frames` | the wire, frame assembly, decoding, publication | |
| `OnboardAhrs` | start of the sensor, SPI bursts, AHRS thread, heater | |
| `AttitudeFilter` | gates, memory and restarts of the EKF | the filter `OnboardAhrs` updates |
| `ChassisSensing` | CAN receive interrupt, mailboxes, `ChassisInputReader::Read`, freshness | the inputs of `ChassisControl` |
| `ActionPhases` | flight, jump, stair and recovery controllers and their resets | the results of `ChassisControl` |
| `OscilloscopeTx` | oscilloscope thread and its asynchronous UART | |
| `SdLog` | the log thread, the card and the power | |
| `PeriodicSchedule` | `AbsolutePeriodicSchedule` | |
| `MCDevices` | the eleven modules above in one run | |
| `MC...` | small values for the constants that a `.cfg` cannot write | |
| `CanDispatchProofs`, `ChassisControlProofs`, `EthercatLinkProofs`, `EthercatSiiProofs` | theorems about the module of that name | |
| `ThreadProofs` | theorems about `OnboardAhrs`, `AttitudeFilter`, `OscilloscopeTx`, `SdLog`, `PeriodicSchedule` | |
| `ReceiverProofs` | theorems about `RemoteLink`, `UsbSession`, `Hi91Receiver`, `Hi91Frames` | |
| `CycleProofs` | theorems about `ActionPhases`, `ChassisSensing` | |
| `DevicesProofs` | theorems about `MCDevices` | uses the three before it |

### CanDispatch

A frame is the number of writes of its mailbox, since only newer and older
matter. `subPc` walks the submitting thread through
`SubmitCanStandardFrame` (write the mailbox, count the generation, claim the
slot, enqueue); `pc[b]` walks the worker of bus `b` through `CanTxLoop` (get,
collect a batch, read generation and mailbox of each slot, send, await the
completion, then for each slot clear its flag, compare, claim, append again).
Each access of shared memory is a step. `WorkerSendFails` leaves any prefix of
the batch sent, as `SendStdBatch` does when `can_send` refuses a frame. The
driver calls back once for each batch it accepted, with or without an error.

One thread submits: every caller of `SubmitCanStandardFrame` is in the chassis
cycle. Reception is in `ChassisSensing`. Left out: statistics, setup.

### ChassisControl

One thread runs a cycle to its end, so a cycle is one step. Its inputs are
chosen anew each time: a stale link repeats its last message, motor feedback
counts only together with a fresh IMU, the joints may report ready whatever
their age. `EdgeLatched`, `DetermineNextState`, `Settled` follow
`ChassisStateMachine::Update` in its order; `Reported` is what the state's
action controller tells the machine; `JointFrame`, `WheelFrame` and the arming
counter are the actuator's. `healthy`, `faulted`, `recovered` and
`held` are history variables that properties speak about; `held` counts the cycles
without operation in which a torque command has stayed with the motors. The cooldown counts cycles, that is, `dt`
is taken as constant.

### EthercatLink

A step is one critical section of the port, so `EthercatSlaveCore::Process`
takes several (`ssc`), and the reset interrupt may come between any two. It may also
come within the recording of a command, which takes no lock (`ResetInRecord`): each
field is then the reset or the recorded one, so the core may remember a command whose
force is 0; that the next one is in range all the same rests on the configuration, whose
step (30 N) is not below its least force (20 N). Clocks
are ages: `sscLag` is the age of the SSC task's clock reading and `lag` that of
the chassis thread, so a command may look like one of the future (`Expired`).
A host that has gone (`HostGone`) leaves a frame in the sync manager, which
`Process` reads in each cycle. A frame's `sound` sums up its convergence and
finiteness flags, its lag behind the state and its validity. Left out: the state
the slave sends back, benchmark counters, `EthercatChassisPort::Reset`, which
nothing calls. The firmware has no caller of `SetOperatorEnabled` either (the
bring-up document leaves it to a local switch): it is an action of the
environment.

### EthercatSiiStore

`Commit` is a sequence of flash operations; each may complete, report an error
or be cut short by a loss of power, and then leaves what `Torn` allows: an erase
may have cleared any part of the slot, a write that did not complete is not
valid. Header magic, sizes and header CRC are one fact (the header was written);
the image CRC is the image it was computed from. `Overlapping` says whether ESC
word writes may come during a commit: the store has no lock, so the model has
both worlds. The store runs when the SSC integration calls it; nothing else in
the firmware does.

### UsbSession

`usb` holds the volatile flags, the clear request and the kick; `wire` is what the
controller does. Interrupts come between any two steps of the threads, so the
tests, the settings and the endpoint calls of `SendUsb` and `ArmVendorOut` are
steps of their own (`SendPcLinkFrame`, `MarkBusy`, `StartWrite`; `StartRead`,
`MarkArmed`). A packet is what its checks make of it. The age of a command counts
releases of `PcLinkLoop`.

### RemoteLink

The stream is a sequence of frames; `WflyFrames`, `Vt03Frames`, `Dr16Frames` and
`TextLines` say what each protocol can decode to, which is where it shows that only
WFLY can disable. `RxReady` is the interrupt that appends a buffer, `rxDma` the turns
of the two buffers, `loss` the timer of `CheckWflyFrameLostTimeout`. `ChassisCycle`
reads the published state as `ChassisInputReader` does and clears `fault` as
`UpdateSafetyLatches` does. `quiet` and `operatorOff` are history variables.

### Hi91Receiver and Hi91Frames

`Hi91Receiver`: positions are those of the ring; `lead` and `unseen` are history
variables that count the bytes between the DMA and `ProcessByte`. The thread polls
(`Produced` and `Normalized` are the arithmetic of the position), then hands out the
committed bytes, one by one (`TakeByte`). That at most `Burst` bytes come between two
polls is the source's own assumption about its timing.

`Hi91Frames`: what the ring hands out is the stream of the wire (`BytesInOrder`), so the
assembly is modelled over that stream. `serial` is what the wire carries, told
independently of the assembler: intact frames of any accepted length, and between and
before them any bytes, truncated frames and stray headers among them; the body of an
intact frame may hold a header as well. `frame` is the state machine of `ProcessByte`,
with `frame_pos_` at its width (`% PosModulus`). If the assembler is in step with the
intact frame on the wire (`Own`) it reads that frame's length and a valid checksum;
otherwise the length, the checksum, tag and pitch it sees are anything. An intact frame is
lost when its last byte publishes nothing, however that came about: swallowed in a
truncated one, cut short by a stray header's length, or refused by the decoder.
`lostLengths` keeps the lengths of those that were lost although no stray header came
less than the longest frame before them (`marred`). With one, a loss cannot be
avoided: the assembler takes what follows for that header's frame.

### OnboardAhrs and AttitudeFilter

`ahrsPc` goes through `Ahrs::Start` (heater off, registers, interrupt, routing,
seed, thread), which any failure turns off, and then through the releases of the
AHRS thread; the test of `transfer_complete_` in a recovery (`RecoverTransfer`) and its
`spi_release` (`ReleaseTransfer`) are two steps, and the callback may come in between. A reset of the processor does not reset the sensor, so the data-ready
line may be up at any step of the start. A burst can hang, end late, end after its
release, or be refused; the thread gives it one recovery. Calibration, the
estimate and the heater follow with the outcome of the arithmetic as a choice.
`AttitudeFilter` opens that choice: the low-pass memory, the observation flag and
the gates of `QuaternionEkf::Update`, with a sample being one of a still or of a
moving body. Left out: the matrices.

### ChassisSensing

`readPc` walks the chassis thread through the copies of `ReadOrder` and the time
base; the receive interrupt and time may come between any two. Ages are relative to
now and saturate at `OldestAge`. Frames are told apart by bus and identifier, and
may be too old, too new or refused, as `freshness.hpp` computes. `RoutingAssumption`
says that a bus and an identifier name one motor.

### ActionPhases

The phases, timers and reports of the four controllers, one cycle a step, with
each condition a controller tests as a choice. `NextModes` is what the state
machine lets happen; `ResetBy` says which controllers `UpdateControlState` resets on
which transition. `Asked` splits the behaviours by the actions asked for, since the
controllers share nothing but the state. This is the module behind
`ChassisControl`'s `Reported` and its fairness. Left out: targets and torques; the
gimbal phases of the recovery, since the chassis never reports a gimbal.

### OscilloscopeTx, SdLog, PeriodicSchedule

`OscilloscopeTx`: the thread claims the frame, aborts what is stuck, encodes and
starts; the UART interrupt ends a transmission at any time, also within the abort.
`SdLog`: any call to the file system may fail or write part of a batch;
`saved` is what a card that is pulled would hold. `PeriodicSchedule`:
`WaitForNextRelease` before and after its sleep, with time passing in between and
during the caller's cycle; `slot` and `runs` are history variables that count the
grid.

### MCDevices

The eleven modules share no variable. A behaviour of `MCDevices` is one of one of them
(`device`) while the others rest in an initial state, so the run checks what ten
runs would and each module stays on its own; `DevicesRefine` proves that the
composition refines each of them. `Finished` is the stutter of a device
that has stopped: a log that ended or reached its bound, time at its bound, an
onboard IMU that did not start. For every other state of every device the run
checks that there is no deadlock.

## 3. Runs

Bounds are chosen so that the case each property is about happens; each property
has a mutant in `PROJECT.json`, a plausible bug under which its run fails.

| run | instance | shows |
|---|---|---|
| `can_dispatch` | one bus, two actuators, queue of 2, batch of 2, three writes of each | `OneOwner`, `EnqueueNeverFails`, `NoLostUpdate`, `OneBatchInFlight`; and that the dispatcher implements `LatestChannel`, fairness included |
| `can_failed_batch` | as above, two writes | finding: a batch that fails after it was accepted is not retried |
| `chassis` | arming of 4 cycles, 2 of them clearing, periods 2, 2 and 4, cooldown 2 | `OperatingSafely`, `RecoveryFirst`, `ArmedByEnter`, `TorqueEnds`, `FailureLatched`, `GetsToBalance` |
| `chassis_tilt_restart` | arming of 2, periods 1, 1, 2 | finding: a link timeout lets a tilted chassis start again |
| `ethercat_link` | sequence numbers modulo 4, forces 1..3 in steps of 1, validity 1 tick, clock lag 1 | `WatchdogsAgree`, `GrantToResume`, `ForceContinuous` |
| `ethercat_link_liveness` | one force | `LocalControlReturns` |
| `ethercat_illegal` | one force | finding: an illegal command does not close the gate unless one is active |
| `sii_store` | two words of two values, generations modulo 4 | `CleanIsStored`, `SlotSurvives`, and that the store implements `DurableImage` |
| `sii_overlap` | same, with overlapping writes | finding: a commit that overlaps a word write leaves an invalid slot |
| `devices` | see below | `BurstOwned`, `BurstsFlow`, `GravityWhenStill`, `BuffersAlternate`, `EnableNeedsDrive`, `LossIsTold`, `BytesInOrder`, `IntactFramesDecode`, `FrameOwned`, `PowerCutBound`, `EverySlotAccounted`, `NoReplay`, `ActionsEnd`, `FlightHeld`, `FeedbackJudged`, `CommandsExpire`, `TelemetryFlows` |
| `hi91_long_frame` | payloads of 2 to 4, a counter modulo 9 | finding: an accepted payload length wraps `frame_pos_`, and the frame is rejected |
| `remote_fault_latch` | two frames in the stream, a timeout of 2 cycles | finding: a loss of frames clears a fault that the operator should clear |

Why the bounds are enough. CAN: buses share nothing but the submitting thread,
so one bus shows every race; two actuators make batches of one and of two, and
three writes let a slot be written before, during and after a batch in flight.
Chassis: the code's periods (10 and 100 cycles), 300 arming cycles and 50
clearing ones matter only by their order, which `ScheduleAssumption` names and the
scaled values keep, with phases of the loop tick that do not fall on the start
of the arming, and with cycles of stopping and of arming in which neither sends a frame:
the periods are at least 2, so a chassis that alternates between the two keeps a torque
command for several cycles. EtherCAT: modulo 4 is the smallest space with newer, older and
equal numbers, and wraps quickly; ages beyond the validity and one lag are all
expired. SII: modulo 4 wraps; two words are the least that can be torn.
USB: two packets fill the queue and leave one behind a disconnect; a command timeout of
one period is exceeded and met. Onboard IMU: a timeout of one release, so that a
burst is in time, late or hung; two samples calibrate, two misses cut the heater.
Remote: two frames in the stream put any frame behind any other, and two cycles
of timeout leave room for a frame just in time. HI91: a ring of 8 with a guard of 2
and bursts of 2 wraps several times and satisfies `RingAssumption` barely; payloads up
to 4 with a modulus of 9 put frames below, at and above the width of `frame_pos_`, and
the longest frame, of 10 bytes, can take in a whole intact one of 8.
Oscilloscope: a timeout and an idle period of one and two. Log: batches of two,
a sync every two, nine records: two syncs and a partial batch. Schedule: period 3
with phase 1 over 20 ticks lets a caller miss several slots, up to the saturation
of the counter at 4. Actions: limits of one to seven cycles in the order of the code's
milliseconds, so that any hold can end before, with or after any timeout. Sensing:
two motors that share an identifier on two buses, which is the wheels' case, and
timeouts of one tick within a read that takes one.

`CHECK_DEADLOCK FALSE` is set for CAN only: `MaxWrites` bounds the submissions,
and when all have been sent nothing is left to do. The `devices` run needs no such
setting.

### Fairness

* `CanDispatch!FairSpec`: the workers and a submission that has begun run on
  (threads at fixed priorities below loops that sleep), the controller completes
  each batch, and a send that is tried for ever is accepted in the end (strong
  fairness of `WorkerSendOk`): with a bus that refuses every frame nothing can
  be promised. Nothing makes the chassis thread submit.
* `ChassisControl!FairSpec`: the thread keeps its period, and an action that goes
  on is reported finished or failed in the end (`Ends`; one condition for all actions says
  the same as one for each, since a step of `Ends` stays in the action it ends and any step
  into another action has left the first). `ActionPhases!ActionsEnd` says this of
  the four controllers, whose timeouts add up to a bound: it is checked for the limits of
  the run and proved for all.
* `EthercatLink!FairSpec`: time passes and the chassis thread runs. The SSC task is
  not fair: `LocalControlReturns` holds with it suspended at any point.
* `UsbSession!UsbFairSpec`: both threads run, a transfer in flight completes as long as
  the session lasts, and a receive that the controller refuses now and then is accepted
  in the end (strong fairness of `StartRead(TRUE)`). Resets, configurations and
  packets from the host are not fair.
* `OnboardAhrs!AhrsFairSpec`: start and thread go on, the driver ends the transfers that
  do not hang and those that were released, and the sensor keeps measuring.
* `RemoteLink!RemoteFairSpec`: remote thread and chassis thread run. Nothing makes
  frames arrive.
* `MCDevices!FairSpec` is these three, each for the behaviours of its device.

## 4. Proofs

All theorems hold for every value of the constants that the named assumptions
allow. TLC checked each inductive invariant on the small instances first.

* `CanDispatchProofs`: `TypeOK`, `OneOwner`, `EnqueueNeverFails`. `OneOwner` is
  inductive with types alone; a pigeonhole argument over the distinct entries of
  a queue gives that it never overflows (`QueueAssumption`). Then `OneBatchInFlight`,
  `NoLostUpdate`, and `Spec => Channel!Spec`: the invariant relates, for each slot and
  each place the worker can be at, the generation it read, the version it read and those
  of now: a generation that has not changed means that the version read was the newest,
  up to a submission under way, which will claim the slot. It needs the version read
  never to be older than the one handed over before.
* `ChassisControlProofs`: `TypeOK`, `OperatingSafely`, `RecoveryFirst`,
  `FailureLatched`, `ArmedByEnter`, `TorqueEnds`. The inductive part is `LatchInv`: the
  enable the machine remembers, what the recovery latch says of `recovered`, and what the action latch
  says of `faulted`. It holds for every schedule of `ScheduleAssumption`. And
  `ArmedByEnter`: `ArmInv` bounds the cycles that arming has spent beyond
  `ClearTicks` without an Enter frame by the phase of the loop tick, which goes on
  over the wrap of the ticks since the exit period is a multiple of the mode period
  (`NextPhase`). And `TorqueEnds`: `HeldInv` bounds `held` by the phase of the loop tick,
  since at the end of an exit period every stopped and every arming cycle replaces the
  frames of joints and wheels, whichever of the two comes then (`AllDue`).
* `EthercatLinkProofs`: `TypeOK`, `WatchdogsAgree`, `GrantToResume`,
  `ForceContinuous`. `LinkInv` says, for each place the SSC task can be at, how
  the applied command relates to the watched one and to the one being handed over,
  also after a reset in between.
* `EthercatSiiProofs`: `TypeOK`; and, without overlapping word writes, `CleanIsStored`,
  `SlotSurvives`, and that the store implements `DurableImage`. `StoreInv` says
  which slot is the loaded one, that the slot being written is the other, and how
  far it has come at each flash operation. The generation of the slot being written
  is newer than that of the loaded one by the signed difference, whatever the modulus.
* `ThreadProofs`, for every timeout, size and period: `BurstOwned` (`AhrsInv`: a
  completed burst and a recovery belong to a transfer in flight); `GravityWhenStill`
  (`FilterInv`: a valid attitude has one sample it was set from, the memory of the
  low-pass holds still accelerations and that one, and a correction stands for an
  observation of a still body); `FrameOwned` (`OscInv`: the thread that starts a
  transmission has claimed the frame); `PowerCutBound` (`SdInv`: at each place of the
  thread, how many records are in the batch, in the file, and behind the last sync);
  `EverySlotAccounted` and `NoReplay` (`SchedInv` adds to the accounting that what the
  first half of a wait counted reaches its second half; the lemmas are about quotients
  and remainders, which the solver has to be led through: `OversleptSlots` counts
  exactly the slots that are over).
* `ReceiverProofs`: the types of the three modules; `BuffersAlternate` (`TurnInv`: the
  index of the next buffer is that of the one not in use); `EnableNeedsDrive` (`AgeInv`:
  an enabling state that is unread was published in this cycle, and one that was read is
  as old as the reader takes it to be); `BytesInOrder` for every ring larger than the
  guard and two bursts (`RingInv`: going round from what was read, the available bytes
  lead to the position last seen and the unseen ones to the DMA); `IntactFramesDecode`
  for every stream of bytes (`FramesInv`: what is being collected is the frame on the wire,
  or began with a stray header that came no longer ago than what has been collected since,
  which is less than the longest frame; so when an intact frame begins that no stray header
  is near, the assembly is free or holds a lone first byte, and from then on it holds what
  has come of that frame, `AlignInv`).
* `CycleProofs`: `FeedbackJudged` for every order of reading, routing and timeout
  (`SensingInv`: a valid mailbox or copy is as old as the last report of that very motor
  or older, and no copy is newer than the time base). It rests on `RoutingAssumption`,
  that no two motors of one bus share an identifier, which the identifiers in
  `can_dispatch.cpp` satisfy; with two that share one, a motor would pass for the other.
  `ActionsEnd` and `FlightHeld` for every set of limits (`PhasesInv`: in each state of
  the machine, its controller's phase and timer bound the cycles the action has taken,
  and each hold counts cycles of this action only).
* `DevicesProofs`: `FairSpec` of `MCDevices` implies the specification of each of the eleven
  components, so what is proved of a component holds of the composition that the run
  checks, and `DevicesTypeOK` follows from the types of the components.

The assumptions are the named ones of each module (`QueueAssumption`,
`ScheduleAssumption`, `RingAssumption` and so on), which TLC evaluates in each run.

Every invariant and every action property of the passing runs is the statement of a
theorem. Only model-checked are the properties that need fairness: the fair half of
`ImplementsChannel`, `GetsToBalance`, `LocalControlReturns`,
`CommandsExpire`, `TelemetryFlows`, `BurstsFlow` and `LossIsTold`, since liveness is out
of the prover's reach; and the disagreements of section 5, which are counterexamples.

## 5. Where code and documents disagree

1. `can_dispatch.cpp:443-447` promises that a failed batch is retried. The code
   retries a batch that `can_send` refused; an error in the completion callback is
   only counted.
2. `chassis_state_machine.cpp:79-80` says that only a fresh remote disable clears the
   tilt latch. A link timeout and the return of the link make an enable edge, which
   requires a recovery, which bypasses the latch and then clears it.
3. `docs/ETHERCAT_CONTROL_PROTOCOL_V1.md:93-95` lists an illegal command among what
   revokes the operator gate. It does so only while a command is active.
4. `ethercat_sii_store.h:21-22` calls the store power-fail-safe and says that word
   writes only touch RAM. A word write during a commit reaches the image that the
   commit has already taken the CRC of.
5. `chassis_state_machine.cpp:79-80` again: a loss of radio frames makes
   `remote_input_module.cpp:515-531` publish a disabled state of its own, which the
   state machine takes for the operator's fresh disable and clears its fault latches.
6. `hi91_protocol.h:25` calls 256 the largest payload length that the parser accepts.
   Payloads of 250 to 256 bytes pass the length check of `hi91_imu_module.cpp:223` and wrap
   `frame_pos_`, a `uint8_t`, at line 235: the decoder is given a short frame and rejects it.

Noticed, without a run, since nothing in the repository promises otherwise or the
promise is not about a single behaviour:

* `usb_session.cpp:227`: `ArmVendorOut` sets its flag after the read has started. A
  completion in between clears the flag first, and the OUT endpoint is never armed
  again in that session. `StartRead` and `MarkArmed` reach it.
* `onboard_imu_module.cpp:270`: a burst that the driver refuses, or that was released,
  has used up its edge while the line stays up: no further edge comes.
  `BurstsFlow` excludes it through `abandoned`.
* `ahrs.cpp:145-148`: bursts whose values are rejected still drive the heater; only
  missing bursts cut it (line 151 says "No fresh temperature feedback").
* `hi91_imu_module.cpp:234`: while the rest of a truncated frame is awaited, intact frames
  that come are taken for it and lost, up to the longest frame; the assembly does not search
  the bytes of a frame that failed its checksum again. `IntactFramesDecode` says so.
* `remote_input_module.cpp`: bytes that decode to nothing can keep the thread in its
  decode loop, where the frame-lost timeout is not looked at; `LossIsTold` excludes it.
  The `chassis_enable` that DR16 and VT03 frames decode is not used.
* `sdlog_module.cpp`: a batch that was written in part is written again at the close.
* A CAN feedback frame with fewer than 8 bytes counts as fresh, its missing bytes as 0.
* `ahrs.cpp:315-342`: after a glitch in the timing the attitude is set anew from one
  sample, of whatever motion; `GravityWhenStill` speaks of corrections after it.
* `chassis_module.cpp:501`: the loop tick wraps at 2^32, no multiple of 100, so one
  interval of the Exit frames is shorter there; the model wraps at the period.

## 6. What is not modelled

* Balance control, body-motion and support-force estimation, MPC, the matrices of the
  Kalman filter, coordinate frames: floating-point laws without control flow that a
  property here could tell apart.
* Codecs of motors, PC link, MPC link and EtherCAT: pure packing and scaling. The models
  keep what a decoder accepts.
* Referee link and serial servo: nothing in the chassis firmware uses their data.
* System state indicator, shell, console switching: output patterns.
* Boot of the modules in `main.cpp`: a fixed sequence run once; the start of the onboard
  sensor, which has an order that matters, is in `OnboardAhrs`.
* `gimbal_controller`: an empty frame.
* In modelled components: `EthercatChassisPort::Reset` and the state sample that the
  slave returns, with its two locks; the times at which the chassis thread reads its
  clock before the port's lock beyond the lag of `EthercatLink`; a transient read error
  of the flash at boot, which makes the store take the older slot; a CAN controller that
  never reports a batch, which would block its worker for ever.
