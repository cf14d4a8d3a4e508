----------------------------- MODULE RemoteLink -----------------------------
(***************************************************************************)
(* The remote control from the wire to the chassis: the UART callback with *)
(* its two DMA buffers, the byte stream, the remote input thread that      *)
(* decodes it (remote_input_module.cpp), the published state, and what the *)
(* chassis thread makes of it (chassis_input_reader.cpp, and the fault     *)
(* latch of chassis_state_machine.cpp).                                    *)
(*                                                                         *)
(* The stream is a sequence of frames.  Drive: a frame of any protocol, or *)
(* a text line, that enables the robot; Off: a WFLY frame with failsafe or *)
(* both switches low; Lost: a WFLY frame with frame_lost; Noise: bytes     *)
(* that decode to nothing and are shifted out.                             *)
(*                                                                         *)
(* The UART driver, outside src/, asks for the next buffer once it has     *)
(* started one, and stops receiving when none is there or on an error.     *)
(***************************************************************************)
EXTENDS Naturals, Sequences

CONSTANTS
  StreamDepth,     \* bound: frames in remote_input_stream
  RemoteTimeout    \* kRemoteTimeoutMs, kWflyFrameLostTimeoutMs, in chassis cycles

ASSUME RemoteAssumption == StreamDepth \in Nat \ {0} /\ RemoteTimeout \in Nat \ {0}

\* What the decoders make of the bytes.  Only WFLY can disable: SetCommonActiveDefaults
\* enables for the others, whatever the switch they decode to chassis_enable says.
WflyFrames == {"Drive", "Off", "Lost"}
Vt03Frames == {"Drive"}
Dr16Frames == {"Drive"}
TextLines == {"Drive"}
Frames == WflyFrames \union Vt03Frames \union Dr16Frames \union TextLines \union {"Noise"}

VARIABLES
  rxDma,        \* receiving, the buffer in use, the next one (2: none), next_rx_buffer_index_
  stream,       \* remote_input_stream
  remotePc,     \* the remote input thread: in the decode loop, or out of it
  loss,         \* wfly_frame_lost_active_, ..disabled_published_ and the age of the loss
  published,    \* latest_remote_state: robot_enable, and unread by the chassis
  reader,       \* ChassisInputReader: last robot_enable, remote_age_ms
  fault,        \* a fault latch of ChassisStateMachine
  quiet,        \* history: chassis cycles since a Drive frame was published
  operatorOff   \* history: an Off frame was published since the fault

remoteVars == <<rxDma, stream, remotePc, loss, published, reader, fault, quiet, operatorOff>>

NoBuffer == 2
NoLoss == [active |-> FALSE, published |-> FALSE, age |-> 0]

RemoteInit ==
  /\ rxDma = [on |-> TRUE, active |-> 0, next |-> NoBuffer, index |-> 1]
  /\ stream = <<>>
  /\ remotePc = "decode"
  /\ loss = NoLoss
  /\ published = [enable |-> FALSE, new |-> FALSE]
  /\ reader = [enable |-> FALSE, age |-> RemoteTimeout + 1]
  /\ fault = FALSE
  /\ quiet = RemoteTimeout + 2
  /\ operatorOff = FALSE

chassisVars == <<reader, fault>>
historyVars == <<quiet, operatorOff>>

-----------------------------------------------------------------------------
(* HandleUartEvent.                                                          *)

\* ByteStream::Write: what does not fit is dropped.
StreamWrite(frame) == IF Len(stream) < StreamDepth THEN Append(stream, frame) ELSE stream

\* UART_RX_RDY.
RxReady(frame) ==
  /\ rxDma.on
  /\ stream' = StreamWrite(frame)
  /\ UNCHANGED <<rxDma, remotePc, loss, published, chassisVars, historyVars>>

\* UART_RX_BUF_REQUEST: the two buffers in turn.
RxBufRequest ==
  /\ rxDma.on /\ rxDma.next = NoBuffer
  /\ rxDma' = [rxDma EXCEPT !.next = rxDma.index, !.index = (@ + 1) % 2]
  /\ UNCHANGED <<stream, remotePc, loss, published, chassisVars, historyVars>>

\* The driver goes on with the next buffer.
RxBufFull ==
  /\ rxDma.on /\ rxDma.next # NoBuffer
  /\ rxDma' = [rxDma EXCEPT !.active = rxDma.next, !.next = NoBuffer]
  /\ UNCHANGED <<stream, remotePc, loss, published, chassisVars, historyVars>>

\* Mutant: reception starts again without starting the turns again.
RxDisabledKeepingTurn ==
  /\ rxDma.on
  /\ \E ok \in BOOLEAN :
       rxDma' = [on |-> ok, active |-> 0, next |-> NoBuffer, index |-> rxDma.index]
  /\ UNCHANGED <<stream, remotePc, loss, published, chassisVars, historyVars>>

\* UART_RX_DISABLED, after UART_RX_STOPPED or for want of a buffer: start over
\* with buffer 0.  A failed restart is ignored, and reception is over.
RxDisabled ==
  /\ rxDma.on
  /\ \E ok \in BOOLEAN :
       rxDma' = [on |-> ok, active |-> 0, next |-> NoBuffer, index |-> 1]
  /\ UNCHANGED <<stream, remotePc, loss, published, chassisVars, historyVars>>

-----------------------------------------------------------------------------
(* The remote input thread.                                                  *)

\* PublishRemoteState.
PublishRemoteState(enable) == published' = [enable |-> enable, new |-> TRUE]

\* Mutant: the state that was published last is published again.
LostRepublished(l) ==
  IF l.active /\ ~l.published /\ l.age >= RemoteTimeout
    THEN PublishRemoteState(published.enable) /\ loss' = [l EXCEPT !.published = TRUE]
    ELSE loss' = l /\ UNCHANGED published

\* CheckWflyFrameLostTimeout, in an episode l: the disabled state, once.
CheckWflyFrameLostTimeout(l) ==
  IF l.active /\ ~l.published /\ l.age >= RemoteTimeout
    THEN PublishRemoteState(FALSE) /\ loss' = [l EXCEPT !.published = TRUE]
    ELSE loss' = l /\ UNCHANGED published

\* Mutant: every lost frame starts the episode anew.
DecodeLostRestarting ==
  /\ CheckWflyFrameLostTimeout([NoLoss EXCEPT !.active = TRUE])
  /\ UNCHANGED historyVars

\* A WFLY frame with frame_lost starts an episode, or is one more of it.
DecodeLost ==
  /\ CheckWflyFrameLostTimeout(IF loss.active THEN loss ELSE [NoLoss EXCEPT !.active = TRUE])
  /\ UNCHANGED historyVars

\* Any other valid frame is published and ends the episode.
DecodeValid(enable) ==
  /\ PublishRemoteState(enable)
  /\ loss' = NoLoss
  /\ quiet' = IF enable THEN 0 ELSE quiet
  /\ operatorOff' = (operatorOff \/ ~enable)

\* TryDecodeBinaryFrames and ParseLine, for the next frame of the stream.
DecodeFrame(frame) ==
  CASE frame = "Lost" -> DecodeLost
    [] frame = "Noise" -> UNCHANGED <<loss, published, historyVars>>
    [] OTHER -> DecodeValid(frame = "Drive")

\* DecodeUartBytesFromRing: the loop goes on as long as bytes keep coming.
DecodeUartBytes ==
  /\ remotePc = "decode" /\ stream # <<>>
  /\ DecodeFrame(Head(stream))
  /\ stream' = Tail(stream)
  /\ UNCHANGED <<rxDma, remotePc, chassisVars>>

WaitExpired ==
  /\ remotePc = "decode" /\ stream = <<>>
  /\ remotePc' = "check"
  /\ UNCHANGED <<rxDma, stream, loss, published, chassisVars, historyVars>>

\* RunLoop, between two decode loops.
CheckLoss ==
  /\ remotePc = "check"
  /\ CheckWflyFrameLostTimeout(loss)
  /\ remotePc' = "decode"
  /\ UNCHANGED <<rxDma, stream, chassisVars, historyVars>>

RemoteThread == DecodeUartBytes \/ WaitExpired \/ CheckLoss

-----------------------------------------------------------------------------
(* The chassis thread, one cycle.                                            *)

UpTo(bound, n) == IF n < bound THEN n + 1 ELSE n

\* ChassisInputReader::Read: a new sequence is fresh, an old one ages.
ReadRemote ==
  IF published.new THEN [enable |-> published.enable, age |-> 0]
  ELSE [reader EXCEPT !.age = UpTo(RemoteTimeout + 1, @)]

Fresh(r) == r.age <= RemoteTimeout
RequestedEnable(r) == Fresh(r) /\ r.enable

\* UpdateSafetyLatches: a fresh disabled state clears the fault; an enabled
\* chassis may fault.
ChassisCycle ==
  /\ reader' = ReadRemote
  /\ \/ /\ Fresh(reader') /\ ~reader'.enable
        /\ fault' = FALSE
        /\ UNCHANGED operatorOff
     \/ /\ RequestedEnable(reader') /\ ~fault
        /\ fault' = TRUE
        /\ operatorOff' = FALSE
     \/ /\ ~(Fresh(reader') /\ ~reader'.enable)
        /\ UNCHANGED <<fault, operatorOff>>
  /\ published' = [published EXCEPT !.new = FALSE]
  /\ loss' = [loss EXCEPT !.age = IF loss.active THEN UpTo(RemoteTimeout, @) ELSE @]
  /\ quiet' = UpTo(RemoteTimeout + 2, quiet)
  /\ UNCHANGED <<rxDma, stream, remotePc>>

RemoteNext ==
  \/ (\E frame \in Frames : RxReady(frame)) \/ RxBufRequest \/ RxBufFull \/ RxDisabled
  \/ RemoteThread
  \/ ChassisCycle

RemoteSpec == RemoteInit /\ [][RemoteNext]_remoteVars

\* Both threads run.
RemoteFairSpec ==
  RemoteSpec /\ WF_remoteVars(RemoteThread) /\ WF_remoteVars(ChassisCycle)

-----------------------------------------------------------------------------
(* Properties.                                                               *)

RemoteTypeOK ==
  /\ rxDma \in [on : BOOLEAN, active : 0 .. 1, next : 0 .. 2, index : 0 .. 1]
  /\ stream \in Seq(Frames) /\ Len(stream) <= StreamDepth
  /\ remotePc \in {"decode", "check"}
  /\ loss \in [active : BOOLEAN, published : BOOLEAN, age : 0 .. RemoteTimeout]
  /\ published \in [enable : BOOLEAN, new : BOOLEAN]
  /\ reader \in [enable : BOOLEAN, age : 0 .. RemoteTimeout + 1]
  /\ fault \in BOOLEAN
  /\ quiet \in 0 .. RemoteTimeout + 2
  /\ operatorOff \in BOOLEAN

(***************************************************************************)
(* The buffer the callback hands to the driver is never the one that is    *)
(* being written, whatever errors and restarts come in between             *)
(* (HandleUartEvent).                                                      *)
(***************************************************************************)
BuffersAlternate == rxDma.next # rxDma.active

(***************************************************************************)
(* The chassis is asked to run only while an enabling frame is at most one *)
(* timeout old: neither the frames that are lost, nor the state a loss     *)
(* publishes, nor noise keeps it running.                                  *)
(***************************************************************************)
EnableNeedsDrive == RequestedEnable(reader) => quiet <= RemoteTimeout + 1

(***************************************************************************)
(* A loss is told: it ends, or the disabled state is published, unless     *)
(* bytes that decode to nothing keep coming, which may hold the thread in  *)
(* its decode loop, where only a lost frame looks at the clock.            *)
(***************************************************************************)
LossIsTold ==
  []<><<RxReady("Noise")>>_remoteVars \/ (loss.active ~> loss.published \/ ~loss.active)

(***************************************************************************)
(* "Only an explicit, fresh remote disable clears the latch.  A link       *)
(* timeout must not silently arm the chassis for an automatic restart      *)
(* when the link returns": a fault is cleared only if the operator sent a  *)
(* disabling frame after it.                                               *)
(***************************************************************************)
FaultNeedsOperator == [][fault /\ ~fault' => operatorOff]_remoteVars
=============================================================================
