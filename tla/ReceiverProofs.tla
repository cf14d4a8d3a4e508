--------------------------- MODULE ReceiverProofs ---------------------------
(***************************************************************************)
(* Theorems about the receivers that an interrupt or a DMA feeds: the      *)
(* remote control link, the USB session and the HI91 IMU, for every        *)
(* timeout, depth, ring and burst.                                         *)
(***************************************************************************)
EXTENDS RemoteLink, UsbSession, Hi91Receiver, Hi91Frames, SequenceTheorems, TLAPS

-----------------------------------------------------------------------------
(* The remote link: types.                                                   *)

LEMMA UpToType ==
  ASSUME NEW bound \in Nat, NEW n \in 0 .. bound
  PROVE  UpTo(bound, n) \in 0 .. bound
BY DEF UpTo

RemoteLosses == [active : BOOLEAN, published : BOOLEAN, age : 0 .. RemoteTimeout]
RemoteStates == [enable : BOOLEAN, new : BOOLEAN]
RemoteReaders == [enable : BOOLEAN, age : 0 .. RemoteTimeout + 1]

LEMMA RemoteInitType == RemoteInit => RemoteTypeOK
<1>1. <<>> \in Seq(Frames) /\ Len(<<>>) = 0
  BY EmptySeq
<1>2. 0 <= StreamDepth /\ 0 \in 0 .. RemoteTimeout
      /\ RemoteTimeout + 1 \in 0 .. RemoteTimeout + 1
      /\ RemoteTimeout + 2 \in 0 .. RemoteTimeout + 2
  BY RemoteAssumption
<1>3. 0 \in 0 .. 1 /\ 1 \in 0 .. 1 /\ 2 \in 0 .. 2
  OBVIOUS
<1> SUFFICES ASSUME RemoteInit PROVE RemoteTypeOK
  OBVIOUS
<1>4. rxDma \in [on : BOOLEAN, active : 0 .. 1, next : 0 .. 2, index : 0 .. 1]
  BY <1>3 DEF RemoteInit, NoBuffer
<1>5. loss \in RemoteLosses /\ published \in RemoteStates /\ reader \in RemoteReaders
  BY <1>2 DEF RemoteInit, NoLoss, RemoteLosses, RemoteStates, RemoteReaders
<1>6. /\ stream = <<>> /\ remotePc = "decode" /\ fault = FALSE /\ operatorOff = FALSE
      /\ quiet = RemoteTimeout + 2
  BY DEF RemoteInit
<1>7. stream \in Seq(Frames) /\ Len(stream) <= StreamDepth
  BY <1>1, <1>2, <1>6
<1> QED
  BY <1>2, <1>4, <1>5, <1>6, <1>7 DEF RemoteTypeOK, RemoteLosses, RemoteStates, RemoteReaders

\* What a check of the timeout leaves of the loss and of the published state.
LEMMA LossCheckType ==
  ASSUME published \in RemoteStates, NEW l \in RemoteLosses, CheckWflyFrameLostTimeout(l)
  PROVE  /\ loss' \in RemoteLosses /\ published' \in RemoteStates
         /\ published' = published \/ published' = [enable |-> FALSE, new |-> TRUE]
<1>1. \/ published' = [enable |-> FALSE, new |-> TRUE] /\ loss' = [l EXCEPT !.published = TRUE]
      \/ published' = published /\ loss' = l
  BY DEF CheckWflyFrameLostTimeout, PublishRemoteState
<1>2. [l EXCEPT !.published = TRUE] \in RemoteLosses
  BY DEF RemoteLosses
<1>3. [enable |-> FALSE, new |-> TRUE] \in RemoteStates
  BY DEF RemoteStates
<1> QED
  BY <1>1, <1>2, <1>3

LEMMA DecodeFrameType ==
  ASSUME RemoteTypeOK, NEW sent \in Frames, DecodeFrame(sent)
  PROVE  /\ loss' \in RemoteLosses /\ published' \in RemoteStates
         /\ quiet' \in {quiet, 0} /\ operatorOff' \in BOOLEAN
         /\ \/ published' = published /\ quiet' = quiet
            \/ published'.enable = FALSE /\ quiet' = quiet
            \/ quiet' = 0
<1> USE RemoteAssumption DEF RemoteTypeOK
<1>0. loss \in RemoteLosses /\ published \in RemoteStates /\ NoLoss \in RemoteLosses
  BY DEF RemoteLosses, RemoteStates, NoLoss
<1>1. CASE sent = "Lost"
  <2> DEFINE l == IF loss.active THEN loss ELSE [NoLoss EXCEPT !.active = TRUE]
  <2>1. l \in RemoteLosses
    BY <1>0 DEF RemoteLosses, NoLoss
  <2>2. CheckWflyFrameLostTimeout(l) /\ UNCHANGED historyVars
    BY <1>1 DEF DecodeFrame, DecodeLost
  <2> QED
    BY <1>0, <2>1, <2>2, LossCheckType DEF historyVars
<1>2. CASE sent = "Noise"
  BY <1>0, <1>2 DEF DecodeFrame, historyVars
<1>3. CASE sent \notin {"Lost", "Noise"}
  <2>1. DecodeValid(sent = "Drive")
    BY <1>3 DEF DecodeFrame
  <2>2. PICK e \in BOOLEAN : e = (sent = "Drive") /\ DecodeValid(e)
    BY <2>1
  <2>3. published' = [enable |-> e, new |-> TRUE] /\ loss' = NoLoss
    BY <2>2 DEF DecodeValid, PublishRemoteState
  <2>4. quiet' = (IF e THEN 0 ELSE quiet) /\ operatorOff' \in BOOLEAN
    BY <2>2 DEF DecodeValid
  <2> QED
    BY <1>0, <2>2, <2>3, <2>4 DEF RemoteStates
<1> QED
  BY <1>1, <1>2, <1>3

LEMMA ReadRemoteType ==
  ASSUME RemoteTypeOK
  PROVE  ReadRemote \in RemoteReaders
<1> USE RemoteAssumption DEF RemoteTypeOK
<1>1. UpTo(RemoteTimeout + 1, reader.age) \in 0 .. RemoteTimeout + 1
  BY UpToType
<1> QED
  BY <1>1 DEF ReadRemote, RemoteReaders

LEMMA RemoteStepType == RemoteTypeOK /\ [RemoteNext]_remoteVars => RemoteTypeOK'
<1> SUFFICES ASSUME RemoteTypeOK, [RemoteNext]_remoteVars PROVE RemoteTypeOK'
  OBVIOUS
<1> USE RemoteAssumption DEF RemoteTypeOK, chassisVars, historyVars
<1>1. CASE \E sent \in Frames : RxReady(sent)
  <2>1. PICK sent \in Frames : RxReady(sent)
    BY <1>1
  <2>2. stream' \in Seq(Frames) /\ Len(stream') <= StreamDepth
    <3>1. CASE Len(stream) < StreamDepth
      <4>1. stream' = Append(stream, sent)
        BY <2>1, <3>1 DEF RxReady, StreamWrite
      <4>2. Append(stream, sent) \in Seq(Frames) /\ Len(Append(stream, sent)) = Len(stream) + 1
        BY AppendProperties
      <4>3. Len(stream) \in Nat
        BY LenProperties
      <4> QED
        BY <3>1, <4>1, <4>2, <4>3
    <3>2. CASE ~(Len(stream) < StreamDepth)
      BY <2>1, <3>2 DEF RxReady, StreamWrite
    <3> QED
      BY <3>1, <3>2
  <2> QED
    BY <2>1, <2>2 DEF RxReady
<1>2. CASE RxBufRequest
  <2>1. (rxDma.index + 1) % 2 \in 0 .. 1 /\ rxDma.index \in 0 .. 2
    <3>1. rxDma.index \in 0 .. 1
      OBVIOUS
    <3> QED
      BY <3>1
  <2>2. rxDma' \in [on : BOOLEAN, active : 0 .. 1, next : 0 .. 2, index : 0 .. 1]
    BY <1>2, <2>1 DEF RxBufRequest
  <2> QED
    BY <1>2, <2>2 DEF RxBufRequest
<1>3. CASE RxBufFull
  <2>1. rxDma.next \in 0 .. 1
    <3>1. rxDma.next \in 0 .. 2 /\ rxDma.next # 2
      BY <1>3 DEF RxBufFull, NoBuffer
    <3> QED
      BY <3>1
  <2>2. 2 \in 0 .. 2
    OBVIOUS
  <2>3. rxDma' \in [on : BOOLEAN, active : 0 .. 1, next : 0 .. 2, index : 0 .. 1]
    BY <1>3, <2>1, <2>2 DEF RxBufFull, NoBuffer
  <2> QED
    BY <1>3, <2>3 DEF RxBufFull
<1>4. CASE RxDisabled
  BY <1>4 DEF RxDisabled, NoBuffer
<1>5. CASE DecodeUartBytes
  <2>1. Head(stream) \in Frames /\ Tail(stream) \in Seq(Frames)
        /\ Len(Tail(stream)) = Len(stream) - 1 /\ Len(stream) \in Nat
    BY <1>5, HeadTailProperties, LenProperties DEF DecodeUartBytes
  <2>2. DecodeFrame(Head(stream))
    BY <1>5 DEF DecodeUartBytes
  <2>3. /\ loss' \in RemoteLosses /\ published' \in RemoteStates
        /\ quiet' \in {quiet, 0} /\ operatorOff' \in BOOLEAN
    BY <2>1, <2>2, DecodeFrameType
  <2>4. quiet' \in 0 .. RemoteTimeout + 2
    BY <2>3
  <2>5. Len(Tail(stream)) <= StreamDepth
    BY <2>1
  <2> QED
    BY <1>5, <2>1, <2>3, <2>4, <2>5 DEF DecodeUartBytes, RemoteLosses, RemoteStates
<1>6. CASE WaitExpired
  BY <1>6 DEF WaitExpired
<1>7. CASE CheckLoss
  <2>1. loss' \in RemoteLosses /\ published' \in RemoteStates
    BY <1>7, LossCheckType DEF CheckLoss, RemoteLosses, RemoteStates
  <2> QED
    BY <1>7, <2>1 DEF CheckLoss, RemoteLosses, RemoteStates
<1>8. CASE ChassisCycle
  <2>1. reader' \in RemoteReaders
    BY <1>8, ReadRemoteType DEF ChassisCycle
  <2>2. UpTo(RemoteTimeout, loss.age) \in 0 .. RemoteTimeout
    BY UpToType
  <2>3. loss' \in RemoteLosses /\ published' \in RemoteStates
    BY <1>8, <2>2 DEF ChassisCycle, RemoteLosses, RemoteStates
  <2>4. quiet' \in 0 .. RemoteTimeout + 2
    <3>1. quiet' = UpTo(RemoteTimeout + 2, quiet)
      BY <1>8 DEF ChassisCycle
    <3>2. RemoteTimeout + 2 \in Nat
      OBVIOUS
    <3> QED
      BY <3>1, <3>2, UpToType
  <2>5. fault' \in BOOLEAN /\ operatorOff' \in BOOLEAN
    BY <1>8 DEF ChassisCycle
  <2> QED
    BY <1>8, <2>1, <2>3, <2>4, <2>5 DEF ChassisCycle, RemoteReaders, RemoteLosses, RemoteStates
<1>9. CASE UNCHANGED remoteVars
  BY <1>9 DEF remoteVars
<1> QED
  BY <1>1, <1>2, <1>3, <1>4, <1>5, <1>6, <1>7, <1>8, <1>9 DEF RemoteNext, RemoteThread

(***************************************************************************)
(* The link keeps its types.                                               *)
(***************************************************************************)
THEOREM RemoteTypeCorrect == RemoteSpec => []RemoteTypeOK
BY RemoteInitType, RemoteStepType, PTL DEF RemoteSpec

-----------------------------------------------------------------------------
(* The remote link: the buffers.                                             *)

\* The buffer the driver was given, or will be given next, is the other one.
TurnInv ==
  /\ rxDma.next \in {NoBuffer, 1 - rxDma.active}
  /\ rxDma.index = IF rxDma.next = NoBuffer THEN 1 - rxDma.active ELSE rxDma.active

\* Reception that is over leaves the turns where they are.
LEMMA RemoteStepTurn == RemoteTypeOK /\ TurnInv /\ [RemoteNext]_remoteVars => TurnInv'
<1> SUFFICES ASSUME RemoteTypeOK, TurnInv, [RemoteNext]_remoteVars PROVE TurnInv'
  OBVIOUS
<1> USE DEF TurnInv, NoBuffer
<1>1. CASE RxBufRequest
  BY <1>1 DEF RxBufRequest, RemoteTypeOK
<1>2. CASE RxBufFull
  BY <1>2 DEF RxBufFull, RemoteTypeOK
<1>3. CASE RxDisabled
  BY <1>3 DEF RxDisabled, RemoteTypeOK
<1>4. CASE rxDma' = rxDma
  BY <1>4
<1>5. CASE (\E sent \in Frames : RxReady(sent)) \/ RemoteThread \/ ChassisCycle
           \/ UNCHANGED remoteVars
  BY <1>5, <1>4 DEF RxReady, RemoteThread, DecodeUartBytes, WaitExpired, CheckLoss, ChassisCycle,
                    remoteVars
<1> QED
  BY <1>1, <1>2, <1>3, <1>5 DEF RemoteNext

(***************************************************************************)
(* The driver is never handed the buffer that it is writing, across errors *)
(* and restarts.                                                           *)
(***************************************************************************)
THEOREM BuffersCorrect == RemoteSpec => []BuffersAlternate
<1>1. RemoteInit => TurnInv
  BY DEF RemoteInit, TurnInv, NoBuffer
<1>2. RemoteTypeOK /\ TurnInv => BuffersAlternate
  BY DEF RemoteTypeOK, TurnInv, BuffersAlternate, NoBuffer
<1> QED
  BY <1>1, <1>2, RemoteStepTurn, RemoteTypeCorrect, PTL DEF RemoteSpec

-----------------------------------------------------------------------------
(* The remote link: the enable.                                              *)

\* An enabling state the chassis has not read was published in this cycle, and
\* the one it has read is as old as it takes it to be.
AgeInv ==
  /\ published.new /\ published.enable => quiet = 0
  /\ reader.enable => quiet <= reader.age + 1

LEMMA RemoteStepAge == RemoteTypeOK /\ AgeInv /\ [RemoteNext]_remoteVars => AgeInv'
<1> SUFFICES ASSUME RemoteTypeOK, AgeInv, [RemoteNext]_remoteVars PROVE AgeInv'
  OBVIOUS
<1> USE RemoteAssumption
<1>1. CASE DecodeUartBytes
  <2>1. Head(stream) \in Frames
    BY <1>1, HeadTailProperties DEF DecodeUartBytes, RemoteTypeOK
  <2>2. \/ published' = published /\ quiet' = quiet
        \/ published'.enable = FALSE /\ quiet' = quiet
        \/ quiet' = 0
    BY <1>1, <2>1, DecodeFrameType DEF DecodeUartBytes
  <2>3. reader' = reader
    BY <1>1 DEF DecodeUartBytes, chassisVars
  <2> QED
    BY <2>2, <2>3 DEF AgeInv, RemoteTypeOK
<1>2. CASE CheckLoss
  <2>1. published' = published \/ published' = [enable |-> FALSE, new |-> TRUE]
    BY <1>2, LossCheckType DEF CheckLoss, RemoteTypeOK, RemoteLosses, RemoteStates
  <2>2. reader' = reader /\ quiet' = quiet
    BY <1>2 DEF CheckLoss, chassisVars, historyVars
  <2> QED
    BY <2>1, <2>2 DEF AgeInv
<1>3. CASE ChassisCycle
  <2>1. reader' = ReadRemote /\ quiet' = UpTo(RemoteTimeout + 2, quiet)
        /\ published' = [published EXCEPT !.new = FALSE]
    BY <1>3 DEF ChassisCycle
  <2> QED
    BY <2>1 DEF AgeInv, RemoteTypeOK, ReadRemote, UpTo
<1>4. CASE UNCHANGED <<published, reader, quiet>>
  BY <1>4 DEF AgeInv
<1>5. CASE (\E sent \in Frames : RxReady(sent)) \/ RxBufRequest \/ RxBufFull \/ RxDisabled
           \/ WaitExpired \/ UNCHANGED remoteVars
  BY <1>5, <1>4 DEF RxReady, RxBufRequest, RxBufFull, RxDisabled, WaitExpired, remoteVars,
                    chassisVars, historyVars
<1> QED
  BY <1>1, <1>2, <1>3, <1>5 DEF RemoteNext, RemoteThread

(***************************************************************************)
(* The chassis is asked to run only while an enabling frame is at most one *)
(* timeout old, whatever is lost, told late or published in between.       *)
(***************************************************************************)
THEOREM EnableCorrect == RemoteSpec => []EnableNeedsDrive
<1>1. RemoteInit => AgeInv
  BY DEF RemoteInit, AgeInv
<1>2. RemoteTypeOK /\ AgeInv => EnableNeedsDrive
  BY RemoteAssumption
  DEF RemoteTypeOK, AgeInv, EnableNeedsDrive, RequestedEnable, Fresh
<1> QED
  BY <1>1, <1>2, RemoteStepAge, RemoteTypeCorrect, PTL DEF RemoteSpec

-----------------------------------------------------------------------------
(* The USB session: types.                                                   *)

UsbWires == [out : BOOLEAN, in : BOOLEAN]
UsbCommands == [aim : BOOLEAN, valid : BOOLEAN, age : 0 .. PcTimeout + 1]

LEMMA UsbInitType == UsbInit => UsbTypeOK
<1> SUFFICES ASSUME UsbInit PROVE UsbTypeOK
  OBVIOUS
<1>1. rawFrames \in Seq(UsbPackets) /\ Len(rawFrames) <= UsbDepth
  BY EmptySeq, UsbAssumption DEF UsbInit
<1>2. 0 \in 0 .. PcTimeout + 1
  BY UsbAssumption
<1> QED
  BY <1>1, <1>2 DEF UsbInit, UsbTypeOK, UsbFlags

\* A step of the interrupt that queues a packet keeps the queue within its depth.
LEMMA EnqueueType ==
  ASSUME UsbTypeOK, NEW packet \in UsbPackets, EnqueueUsbRx(packet)
  PROVE  rawFrames' \in Seq(UsbPackets) /\ Len(rawFrames') <= UsbDepth
<1>0. rawFrames \in Seq(UsbPackets) /\ Len(rawFrames) <= UsbDepth /\ Len(rawFrames) \in Nat
  BY LenProperties DEF UsbTypeOK
<1>1. CASE Len(rawFrames) < UsbDepth
  <2>1. rawFrames' = Append(rawFrames, packet)
    BY <1>1 DEF EnqueueUsbRx
  <2>2. Append(rawFrames, packet) \in Seq(UsbPackets)
        /\ Len(Append(rawFrames, packet)) = Len(rawFrames) + 1
    BY <1>0, AppendProperties
  <2> QED
    BY <1>0, <1>1, <2>1, <2>2, UsbAssumption
<1>2. CASE ~(Len(rawFrames) < UsbDepth)
  BY <1>0, <1>2 DEF EnqueueUsbRx
<1> QED
  BY <1>1, <1>2

LEMMA DrainType ==
  ASSUME UsbTypeOK, rawFrames # <<>>, rawFrames' = Tail(rawFrames)
  PROVE  rawFrames' \in Seq(UsbPackets) /\ Len(rawFrames') <= UsbDepth
<1>0. rawFrames \in Seq(UsbPackets) /\ Len(rawFrames) <= UsbDepth /\ Len(rawFrames) \in Nat
  BY LenProperties DEF UsbTypeOK
<1>1. Tail(rawFrames) \in Seq(UsbPackets) /\ Len(Tail(rawFrames)) = Len(rawFrames) - 1
  BY <1>0, HeadTailProperties
<1> QED
  BY <1>0, <1>1, UsbAssumption

LEMMA UsbInterruptType == UsbTypeOK /\ UsbInterrupt => UsbTypeOK'
<1> SUFFICES ASSUME UsbTypeOK, UsbInterrupt PROVE UsbTypeOK'
  OBVIOUS
<1>1. CASE UsbConfigured
  BY <1>1 DEF UsbConfigured, UsbTypeOK, UsbFlags
<1>2. CASE UsbDropped
  <2>1. usb' \in UsbFlags /\ wire' \in UsbWires
    BY <1>2, Zenon DEF UsbDropped, UsbTypeOK, UsbFlags, UsbWires
  <2> QED
    BY <1>2, <2>1 DEF UsbDropped, UsbTypeOK, UsbWires
<1>3. CASE UsbInterruptOutCallback
  <2>1. rawFrames' \in Seq(UsbPackets) /\ Len(rawFrames') <= UsbDepth
    BY <1>3, EnqueueType DEF UsbInterruptOutCallback
  <2> QED
    BY <1>3, <2>1 DEF UsbInterruptOutCallback, UsbTypeOK, UsbFlags
<1>4. CASE UsbInterruptInCallback
  BY <1>4 DEF UsbInterruptInCallback, UsbTypeOK, UsbFlags
<1> QED
  BY <1>1, <1>2, <1>3, <1>4 DEF UsbInterrupt

LEMMA PcLinkLoopType == UsbTypeOK /\ PcLinkLoop => UsbTypeOK'
<1> SUFFICES ASSUME UsbTypeOK, PcLinkLoop PROVE UsbTypeOK'
  OBVIOUS
<1>0. Idle \in UsbCommands /\ PublishAutoAimCommand \in UsbCommands
  BY UsbAssumption DEF Idle, PublishAutoAimCommand, UsbCommands
<1>1. CASE PcLinkRelease
  <2>1. NextAge(pcCommand.age) \in 0 .. PcTimeout + 1
    BY UsbAssumption DEF NextAge, UsbTypeOK
  <2>2. pcCommand' \in UsbCommands
    BY <1>1, <2>1 DEF PcLinkRelease, UsbTypeOK, UsbCommands
  <2> QED
    BY <1>1, <2>2 DEF PcLinkRelease, UsbTypeOK, UsbCommands
<1>2. CASE \E ok \in BOOLEAN : StartRead(ok)
  BY <1>2 DEF StartRead, UsbTypeOK, UsbFlags
<1>3. CASE MarkArmed
  BY <1>3 DEF MarkArmed, UsbTypeOK, UsbFlags
<1>4. CASE EnforcePcCommandSafety
  <2>1. pcCommand' \in UsbCommands
    BY <1>0, <1>4 DEF EnforcePcCommandSafety, UsbTypeOK, UsbCommands
  <2> QED
    BY <1>4, <2>1 DEF EnforcePcCommandSafety, UsbTypeOK, UsbFlags, UsbCommands
<1>5. CASE PublishPacket
  <2>1. rawFrames' \in Seq(UsbPackets) /\ Len(rawFrames') <= UsbDepth
    BY <1>5, DrainType DEF PublishPacket
  <2> QED
    BY <1>0, <1>5, <2>1 DEF PublishPacket, UsbTypeOK, UsbCommands
<1>6. CASE SkipPacket
  <2>1. rawFrames' \in Seq(UsbPackets) /\ Len(rawFrames') <= UsbDepth
    BY <1>6, DrainType DEF SkipPacket
  <2> QED
    BY <1>6, <2>1 DEF SkipPacket, UsbTypeOK
<1>7. CASE DrainDone
  BY <1>7 DEF DrainDone, UsbTypeOK
<1> QED
  BY <1>1, <1>2, <1>3, <1>4, <1>5, <1>6, <1>7 DEF PcLinkLoop

LEMMA PcLinkTxLoopType == UsbTypeOK /\ PcLinkTxLoop => UsbTypeOK'
<1> SUFFICES ASSUME UsbTypeOK, PcLinkTxLoop PROVE UsbTypeOK'
  OBVIOUS
<1>0. UNCHANGED <<rawFrames, pcCommand, rxPc>>
  BY DEF PcLinkTxLoop, TakeKick, SendPcLinkFrame, MarkBusy, StartWrite, SendFailed, BackedOff
<1>1. usb' \in UsbFlags
  BY DEF PcLinkTxLoop, TakeKick, SendPcLinkFrame, MarkBusy, StartWrite, SendFailed, BackedOff,
         UsbTypeOK, UsbFlags
<1>2. wire' \in UsbWires
  BY DEF PcLinkTxLoop, TakeKick, SendPcLinkFrame, MarkBusy, StartWrite, SendFailed, BackedOff,
         UsbTypeOK, UsbFlags, UsbWires
<1>3. txPc' \in {"take", "send", "mark", "start", "failed", "backoff"}
  BY DEF PcLinkTxLoop, TakeKick, SendPcLinkFrame, MarkBusy, StartWrite, SendFailed, BackedOff
<1> QED
  BY <1>0, <1>1, <1>2, <1>3 DEF UsbTypeOK, UsbWires

(***************************************************************************)
(* The session keeps its types: flags that two threads and the interrupt   *)
(* share, and a queue that never outgrows its depth.                       *)
(***************************************************************************)
THEOREM UsbTypeCorrect == UsbSpec => []UsbTypeOK
<1>1. UsbTypeOK /\ UNCHANGED usbVars => UsbTypeOK'
  BY DEF UsbTypeOK, usbVars
<1>2. UsbTypeOK /\ [UsbNext]_usbVars => UsbTypeOK'
  BY <1>1, UsbInterruptType, PcLinkLoopType, PcLinkTxLoopType DEF UsbNext
<1> QED
  BY <1>2, UsbInitType, PTL DEF UsbSpec

-----------------------------------------------------------------------------
(* HI91: the receive ring.                                                   *)

Ring == 0 .. RingSize - 1

RingType ==
  /\ front \in Ring /\ lead \in Nat /\ unseen \in 0 .. Burst
  /\ rx \in [read : Ring, observed : Ring, available : Nat, consume : Nat, chunk : Nat]
  /\ hi91Pc \in {"poll", "consume"}

\* Going round the ring from what is read: available bytes to the position last
\* seen, and unseen ones to that of the DMA.  At a poll all but the guard is
\* consumed, and while a chunk is processed the guard is whole.
RingInv ==
  /\ RingType
  /\ rx.observed = Advance(rx.read, rx.available)
  /\ front = Advance(rx.observed, unseen)
  /\ lead = rx.chunk + rx.available + unseen
  /\ rx.chunk + rx.available <= GuardSize + Burst
  /\ hi91Pc = "poll" => rx.chunk = 0 /\ rx.consume = 0
  /\ IF rx.consume > 0 THEN rx.available = rx.consume + GuardSize
                        ELSE rx.available <= GuardSize
  /\ rx.chunk > 0 => rx.available >= GuardSize

LEMMA RingInitInv == Hi91Init => RingInv
BY RingAssumption, SMT DEF Hi91Init, RingInv, RingType, Ring, Advance

LEMMA RingOrder == RingInv => BytesInOrder
BY RingAssumption, SMT DEF RingInv, RingType, Ring, Advance, BytesInOrder

\* What a poll counts is what was received since the last one.
LEMMA ProducedUnseen ==
  ASSUME RingInv, NEW position \in Reported
  PROVE  Normalized(position) = front /\ Produced(position) = unseen
BY RingAssumption, SMT DEF RingInv, RingType, Ring, Advance, Reported, Normalized, Produced

LEMMA RingStepInv == RingInv /\ [Hi91Next]_hi91Vars => RingInv'
<1> SUFFICES ASSUME RingInv, [Hi91Next]_hi91Vars PROVE RingInv'
  OBVIOUS
<1> USE RingAssumption
<1>1. CASE DmaWrite
  <2>1. /\ front' = Advance(front, 1) /\ lead' = lead + 1 /\ unseen' = unseen + 1
        /\ rx' = rx /\ hi91Pc' = hi91Pc /\ unseen < Burst
    BY <1>1 DEF DmaWrite
  <2>2. front \in Ring /\ lead \in Nat /\ unseen \in 0 .. Burst /\ rx.observed \in Ring
    BY DEF RingInv, RingType
  <2>3. Advance(front, 1) \in Ring /\ lead + 1 \in Nat /\ unseen + 1 \in 0 .. Burst
    BY <2>1, <2>2 DEF Ring, Advance
  <2>4. RingType'
    BY <2>1, <2>3 DEF RingInv, RingType
  <2>5. front = Advance(rx.observed, unseen)
    BY DEF RingInv
  <2>6. Advance(front, 1) = Advance(rx.observed, unseen + 1)
    BY <2>1, <2>2, <2>5 DEF Ring, Advance
  <2>7. lead + 1 = rx.chunk + rx.available + (unseen + 1)
    <3>1. rx.chunk \in Nat /\ rx.available \in Nat /\ lead = rx.chunk + rx.available + unseen
      BY DEF RingInv, RingType
    <3> QED
      BY <2>2, <3>1
  <2> QED
    BY <2>1, <2>4, <2>6, <2>7 DEF RingInv
<1>2. CASE PollPosition
  <2>1. PICK position \in Reported :
          LET available == rx.available + Produced(position)
          IN  rx' = [rx EXCEPT !.observed = Normalized(position),
                               !.available = available,
                               !.consume = IF available > GuardSize
                                             THEN available - GuardSize ELSE 0]
    BY <1>2 DEF PollPosition
  <2>2. Normalized(position) = front /\ Produced(position) = unseen
    BY ProducedUnseen
  <2> DEFINE a == rx.available + unseen
             c == IF a > GuardSize THEN a - GuardSize ELSE 0
  <2>3. rx' = [rx EXCEPT !.observed = front, !.available = a, !.consume = c]
    BY <2>1, <2>2, Zenon
  <2>4. a \in Nat /\ c \in Nat /\ front \in Ring
    BY SMT DEF RingInv, RingType
  <2>5. rx' = [read |-> rx.read, observed |-> front, available |-> a, consume |-> c,
               chunk |-> rx.chunk]
    <3> HIDE DEF a, c
    <3> QED
      BY <2>3, <2>4 DEF RingInv, RingType
  <2>6. /\ hi91Pc = "poll" /\ hi91Pc' = "consume" /\ unseen' = 0
        /\ front' = front /\ lead' = lead
    BY <1>2 DEF PollPosition
  <2> QED
    BY <2>4, <2>5, <2>6, SMT DEF RingInv, RingType, Ring, Advance
<1>3. CASE ConsumeChunk
  <2> DEFINE n == Smaller(rx.consume, RingSize - rx.read)
  <2>1. /\ n \in Nat /\ n > 0 /\ n <= rx.consume /\ n <= RingSize - rx.read
    BY <1>3, SMT DEF ConsumeChunk, Smaller, RingInv, RingType, Ring
  <2>2. /\ rx' = [rx EXCEPT !.read = Advance(rx.read, n), !.consume = rx.consume - n,
                            !.available = rx.available - n, !.chunk = n]
        /\ rx.consume > 0 /\ rx.chunk = 0
        /\ hi91Pc = "consume" /\ UNCHANGED <<front, lead, unseen, hi91Pc>>
    BY <1>3 DEF ConsumeChunk
  <2> HIDE DEF n
  <2>3. Advance(rx.read, n) \in Ring /\ rx.available - n \in Nat /\ rx.consume - n \in Nat
    BY <2>1, <2>2, SMT DEF RingInv, RingType, Ring, Advance
  <2>4. rx' = [read |-> Advance(rx.read, n), observed |-> rx.observed,
               available |-> rx.available - n, consume |-> rx.consume - n, chunk |-> n]
    BY <2>2, <2>3 DEF RingInv, RingType
  <2>5. rx.observed = Advance(Advance(rx.read, n), rx.available - n)
    BY <2>1, <2>2, SMT DEF RingInv, RingType, Ring, Advance
  <2>6. RingType'
    BY <2>1, <2>2, <2>3, <2>4 DEF RingInv, RingType
  <2> QED
    BY <2>1, <2>2, <2>3, <2>4, <2>5, <2>6, SMT DEF RingInv, RingType
<1>4. CASE PollDone
  BY <1>4, SMT DEF PollDone, RingInv, RingType, Ring, Advance
<1>5. CASE TakeByte
  BY <1>5, SMT DEF TakeByte, RingInv, RingType, Ring, Advance
<1>6. CASE UNCHANGED hi91Vars
  BY <1>6 DEF hi91Vars, RingInv, RingType
<1> QED
  BY <1>1, <1>2, <1>3, <1>4, <1>5, <1>6 DEF Hi91Next, Hi91Thread

(***************************************************************************)
(* Every byte reaches the frame assembly once, in the order of the wire,   *)
(* from memory the DMA has finished with and not yet reused, for every     *)
(* ring that is larger than the guard and two bursts.                      *)
(***************************************************************************)
THEOREM RingCorrect == Hi91Spec => []BytesInOrder
BY RingInitInv, RingStepInv, RingOrder, PTL DEF Hi91Spec

-----------------------------------------------------------------------------
(* HI91: the frame assembly.                                                 *)

FrameTypes == [state : 0 .. 3, pos : 0 .. PosModulus - 1, remaining : 0 .. MaxPayload + 2,
               length : 0 .. MaxPayload]

WireInv ==
  /\ serial \in Streams /\ serial.since >= 2
  /\ serial.at = 0 => ~serial.marred
  /\ serial.at > 0 => /\ serial.length \in DataLength .. MaxPayload
                      /\ serial.at < HeaderSize + serial.length
  /\ serial.at = 1 => serial.sof

\* The assembly counts what it has collected, as long as frame_pos_ can.
AssemblyInv ==
  /\ frame \in FrameTypes
  /\ frame.state = 0 => frame.pos = 0
  /\ frame.state = 1 => frame.pos = 1
  /\ frame.state = 2 => frame.pos \in {2, 3}
  /\ frame.state = 3 => /\ frame.length >= 1
                        /\ frame.remaining >= 1 /\ frame.remaining <= 2 + frame.length
                        /\ HeaderSize + frame.length < PosModulus =>
                             frame.pos + frame.remaining = HeaderSize + frame.length

\* What is collected is the frame on the wire or began with a stray header, and a
\* frame that no stray header marred is the one that is collected.
AlignInv ==
  /\ frame.state = 1 => serial.sof
  /\ frame.state >= 2 => Own \/ serial.since <= Collected
  /\ frame.state = 3 /\ Own => frame.length = serial.length
  /\ serial.at > 0 => serial.marred \/ Own

FramesInv ==
  /\ WireInv /\ AssemblyInv /\ AlignInv
  /\ hi91 \in 0 .. 1 /\ lostLengths \subseteq 0 .. MaxPayload
  /\ IntactFramesDecode

\* frame_pos_ counts, and wraps at its width.
LEMMA StoredCounts ==
  ASSUME NEW pos \in 0 .. PosModulus - 1
  PROVE  /\ Stored(pos) \in 0 .. PosModulus - 1
         /\ pos + 1 < PosModulus => Stored(pos) = pos + 1
<1>1. PosModulus \in Nat /\ PosModulus > 0 /\ pos \in Nat
  BY FramesAssumption DEF HeaderSize
<1>2. CASE pos + 1 < PosModulus
  <2>1. Stored(pos) = pos + 1
    BY <1>1, <1>2 DEF Stored
  <2> QED
    BY <1>1, <1>2, <2>1
<1>3. CASE ~(pos + 1 < PosModulus)
  <2>1. pos + 1 = PosModulus
    BY <1>1, <1>3
  <2>2. Stored(pos) = 0
    BY <1>1, <2>1 DEF Stored
  <2> QED
    BY <1>1, <1>3, <2>2
<1> QED
  BY <1>2, <1>3

\* Between frames, the first byte of one, its last one, or one in between.
Between == serial.at = 0 /\ serial'.at = 0 /\ ~serial'.marred
Begun(byte) ==
  /\ serial.at = 0 /\ byte = "sof0" /\ serial'.at = 1
  /\ serial'.marred = (serial.since < FrameSize)
  /\ serial'.length \in DataLength .. MaxPayload
Ended == LastByte /\ serial'.at = 0 /\ ~serial'.marred
GoneOn(byte) ==
  /\ serial.at > 0 /\ ~LastByte /\ (serial.at = 1 => byte = "sof1")
  /\ serial'.at = serial.at + 1 /\ serial'.length = serial.length
  /\ serial'.marred = serial.marred

LEMMA ReceiveStep ==
  ASSUME WireInv, NEW byte, Receive(byte)
  PROVE  /\ WireInv'
         /\ serial'.sof = (byte = "sof0") /\ serial'.since = Since(byte)
         /\ Between \/ Begun(byte) \/ Ended \/ GoneOn(byte)
<1>a. /\ MaxPayload \in Nat /\ DataLength \in Nat /\ DataLength >= 1
      /\ DataLength <= MaxPayload /\ FrameSize = 6 + MaxPayload /\ HeaderSize = 6
  BY FramesAssumption DEF FrameSize, HeaderSize
<1>b. /\ serial \in Streams
      /\ serial.at \in 0 .. FrameSize /\ serial.length \in 0 .. MaxPayload
      /\ serial.marred \in BOOLEAN /\ serial.sof \in BOOLEAN /\ serial.since \in 0 .. FrameSize
      /\ serial.since >= 2
  BY DEF WireInv, Streams
<1>c. Since(byte) \in 0 .. FrameSize /\ Since(byte) >= 2
  BY <1>a, <1>b DEF Since
<1>d. (byte = "sof0") \in BOOLEAN
  OBVIOUS
<1>1. CASE Noise(byte)
  <2>1. serial.at = 0 /\ serial' = [serial EXCEPT !.sof = (byte = "sof0"), !.since = Since(byte)]
    BY <1>1 DEF Noise
  <2>2. /\ serial' \in Streams /\ serial'.at = 0 /\ serial'.marred = serial.marred
        /\ serial'.sof = (byte = "sof0") /\ serial'.since = Since(byte)
    BY <1>b, <1>c, <1>d, <2>1 DEF Streams
  <2> QED
    BY <1>c, <2>1, <2>2 DEF WireInv, Between
<1>2. CASE FrameBegins(byte)
  <2>1. PICK length \in DataLength .. MaxPayload :
          serial' = [at |-> 1, length |-> length, marred |-> serial.since < FrameSize,
                     sof |-> TRUE, since |-> Since(byte)]
    BY <1>2 DEF FrameBegins
  <2>2. serial.at = 0 /\ byte = "sof0"
    BY <1>2 DEF FrameBegins
  <2>3. (serial.since < FrameSize) \in BOOLEAN /\ 1 \in 0 .. FrameSize /\ length \in 0 .. MaxPayload
    BY <1>a
  <2>4. serial' \in Streams
    BY <1>c, <2>1, <2>3 DEF Streams
  <2>5. /\ serial'.at = 1 /\ serial'.length = length /\ serial'.sof = TRUE
        /\ serial'.marred = (serial.since < FrameSize) /\ serial'.since = Since(byte)
    BY <2>1
  <2>6. WireInv'
    BY <1>a, <1>c, <2>4, <2>5 DEF WireInv
  <2>7. Begun(byte)
    BY <2>2, <2>5 DEF Begun
  <2>8. serial'.sof = (byte = "sof0")
    BY <2>2, <2>5
  <2> QED
    BY <2>5, <2>6, <2>7, <2>8
<1>3. CASE FrameGoesOn(byte)
  <2>1. /\ serial.at > 0 /\ (serial.at = 1 => byte = "sof1")
        /\ serial' = [at |-> IF LastByte THEN 0 ELSE serial.at + 1,
                      length |-> IF LastByte THEN 0 ELSE serial.length,
                      marred |-> serial.marred /\ ~LastByte,
                      sof |-> byte = "sof0", since |-> Since(byte)]
    BY <1>3 DEF FrameGoesOn
  <2>2. serial.length \in DataLength .. MaxPayload /\ serial.at < HeaderSize + serial.length
    BY <2>1 DEF WireInv
  <2>3. CASE LastByte
    <3>1. serial' = [at |-> 0, length |-> 0, marred |-> FALSE,
                     sof |-> byte = "sof0", since |-> Since(byte)]
      BY <2>1, <2>3
    <3>2. serial' \in Streams
      BY <1>a, <1>c, <1>d, <3>1 DEF Streams
    <3> QED
      BY <1>c, <2>3, <3>1, <3>2 DEF WireInv, Ended
  <2>4. CASE ~LastByte
    <3>1. serial' = [at |-> serial.at + 1, length |-> serial.length, marred |-> serial.marred,
                     sof |-> byte = "sof0", since |-> Since(byte)]
      BY <1>b, <2>1, <2>4
    <3>2. serial.at + 1 < HeaderSize + serial.length /\ serial.at + 1 \in 0 .. FrameSize
          /\ serial.at + 1 > 1
      BY <1>a, <1>b, <2>1, <2>2, <2>4 DEF LastByte
    <3>3. serial' \in Streams
      BY <1>b, <1>c, <1>d, <3>1, <3>2 DEF Streams
    <3> QED
      BY <1>a, <1>c, <2>1, <2>2, <2>4, <3>1, <3>2, <3>3 DEF WireInv, GoneOn
  <2> QED
    BY <2>3, <2>4
<1> QED
  BY <1>1, <1>2, <1>3 DEF Receive

\* What a byte does to the assembly: nothing is being collected any more, a header
\* is looked for, one is found, or one more byte is collected.
Dropped == frame'.state = 0
Started(byte) == frame.state \in {0, 1} /\ byte = "sof0" /\ frame'.state = 1 /\ Collected' = 1
Found(byte) == frame.state = 1 /\ byte = "sof1" /\ frame'.state = 2 /\ Collected' = 2
Grown ==
  /\ frame.state >= 2 /\ frame'.state >= 2 /\ Collected' = Collected + 1
  /\ frame.state = 2 /\ frame'.state = 3 /\ Own => frame'.length = serial.length
  /\ frame.state = 3 => frame'.state = 3 /\ frame'.length = frame.length

\* It drops nothing but what is over, or what is not a header or a length.
DropsRightly(byte) ==
  Dropped => \/ frame.state = 0 /\ byte # "sof0"
             \/ frame.state = 1 /\ byte \notin {"sof0", "sof1"}
             \/ frame.state = 2 /\ frame.pos = 3 /\ (Own => serial.length \notin 1 .. MaxPayload)
             \/ frame.state = 3 /\ frame.remaining = 1

Assembles(byte) == WaitSof0(byte) \/ WaitSof1(byte) \/ CollectLength \/ CollectPayload

LEMMA NoFrameInv ==
  ASSUME frame' = NoFrame
  PROVE  AssemblyInv' /\ Dropped
BY FramesAssumption DEF AssemblyInv, FrameTypes, NoFrame, HeaderSize, Dropped

LEMMA AssembleStep ==
  ASSUME WireInv, AssemblyInv, NEW byte, Assembles(byte)
  PROVE  /\ AssemblyInv' /\ DropsRightly(byte)
         /\ Dropped \/ Started(byte) \/ Found(byte) \/ Grown
<1>a. /\ MaxPayload \in Nat /\ PosModulus \in Nat /\ PosModulus > 7 /\ HeaderSize = 6
      /\ DataLength >= 1 /\ DataLength <= MaxPayload /\ DataLength \in Nat
  BY FramesAssumption DEF HeaderSize
<1>b. /\ frame.state \in 0 .. 3 /\ frame.pos \in 0 .. PosModulus - 1
      /\ frame.remaining \in 0 .. MaxPayload + 2 /\ frame.length \in 0 .. MaxPayload
      /\ frame = [state |-> frame.state, pos |-> frame.pos, remaining |-> frame.remaining,
                  length |-> frame.length]
  BY DEF AssemblyInv, FrameTypes
<1>1. CASE WaitSof0(byte)
  <2>1. CASE byte = "sof0"
    <3>1. frame' = [state |-> 1, pos |-> 1, remaining |-> frame.remaining,
                    length |-> frame.length] /\ frame.state = 0
      BY <1>b, <1>1, <2>1 DEF WaitSof0
    <3>2. frame' \in FrameTypes
      BY <1>a, <1>b, <3>1 DEF FrameTypes
    <3> QED
      BY <2>1, <3>1, <3>2 DEF AssemblyInv, DropsRightly, Dropped, Started, Collected
  <2>2. CASE byte # "sof0"
    <3>1. frame' = frame /\ frame.state = 0
      BY <1>1, <2>2 DEF WaitSof0
    <3> QED
      BY <2>2, <3>1 DEF AssemblyInv, DropsRightly, Dropped
  <2> QED
    BY <2>1, <2>2
<1>2. CASE WaitSof1(byte)
  <2>0. frame.state = 1
    BY <1>2 DEF WaitSof1
  <2>1. CASE byte = "sof1"
    <3>1. frame' = [state |-> 2, pos |-> 2, remaining |-> frame.remaining,
                    length |-> frame.length]
      BY <1>b, <1>2, <2>1 DEF WaitSof1
    <3>2. frame' \in FrameTypes
      BY <1>a, <1>b, <3>1 DEF FrameTypes
    <3> QED
      BY <2>0, <2>1, <3>1, <3>2 DEF AssemblyInv, DropsRightly, Dropped, Found, Collected
  <2>2. CASE byte = "sof0"
    <3>1. frame' = [state |-> 1, pos |-> 1, remaining |-> frame.remaining,
                    length |-> frame.length]
      BY <1>b, <1>2, <2>0, <2>2 DEF WaitSof1
    <3>2. frame' \in FrameTypes
      BY <1>a, <1>b, <3>1 DEF FrameTypes
    <3> QED
      BY <2>0, <2>2, <3>1, <3>2 DEF AssemblyInv, DropsRightly, Dropped, Started, Collected
  <2>3. CASE byte \notin {"sof0", "sof1"}
    <3>1. frame' = NoFrame
      BY <1>2, <2>3 DEF WaitSof1
    <3> QED
      BY <2>0, <2>3, <3>1, NoFrameInv DEF DropsRightly
  <2> QED
    BY <2>1, <2>2, <2>3
<1>3. CASE CollectLength
  <2>0. frame.state = 2 /\ frame.pos \in {2, 3} /\ Stored(frame.pos) = frame.pos + 1
    BY <1>a, <1>b, <1>3, StoredCounts DEF CollectLength, AssemblyInv
  <2>1. CASE frame.pos = 2
    <3>1. frame' = [frame EXCEPT !.pos = 3]
      BY <1>3, <2>0, <2>1 DEF CollectLength
    <3>2. frame' = [state |-> 2, pos |-> 3, remaining |-> frame.remaining,
                    length |-> frame.length]
      BY <1>b, <2>0, <3>1
    <3>3. frame' \in FrameTypes
      BY <1>a, <1>b, <3>2 DEF FrameTypes
    <3> QED
      BY <2>0, <2>1, <3>2, <3>3 DEF AssemblyInv, DropsRightly, Dropped, Grown, Collected
  <2>2. CASE frame.pos = 3
    <3>1. PICK length \in IF Own THEN {serial.length} ELSE 0 .. MaxPayload + 1 :
            frame' = IF length \in 1 .. MaxPayload
                       THEN [state |-> 3, pos |-> 4, remaining |-> 2 + length,
                             length |-> length]
                       ELSE NoFrame
      BY <1>3, <2>0, <2>2 DEF CollectLength
    <3>2. CASE length \in 1 .. MaxPayload
      <4>1. frame' = [state |-> 3, pos |-> 4, remaining |-> 2 + length, length |-> length]
        BY <3>1, <3>2
      <4>2. frame' \in FrameTypes
        BY <1>a, <3>2, <4>1 DEF FrameTypes
      <4>3. AssemblyInv'
        BY <1>a, <3>2, <4>1, <4>2 DEF AssemblyInv
      <4>4. Collected' = 4 /\ Collected = 3
        BY <1>a, <2>0, <2>2, <3>2, <4>1 DEF Collected
      <4>5. Own => length = serial.length
        BY <3>1
      <4> QED
        BY <2>0, <4>1, <4>3, <4>4, <4>5 DEF DropsRightly, Dropped, Grown
    <3>3. CASE length \notin 1 .. MaxPayload
      <4>1. frame' = NoFrame
        BY <3>1, <3>3
      <4>2. Own => serial.length \notin 1 .. MaxPayload
        BY <3>1, <3>3
      <4> QED
        BY <2>0, <2>2, <4>1, <4>2, NoFrameInv DEF DropsRightly
    <3> QED
      BY <3>2, <3>3
  <2> QED
    BY <2>0, <2>1, <2>2
<1>4. CASE CollectPayload
  <2>0. /\ frame.state = 3 /\ frame.remaining >= 1 /\ frame.length >= 1
        /\ frame.remaining <= 2 + frame.length
        /\ HeaderSize + frame.length < PosModulus =>
             frame.pos + frame.remaining = HeaderSize + frame.length
    BY <1>4 DEF CollectPayload, AssemblyInv
  <2>1. CASE frame.remaining > 1
    <3>1. /\ Stored(frame.pos) \in 0 .. PosModulus - 1
          /\ HeaderSize + frame.length < PosModulus => Stored(frame.pos) = frame.pos + 1
      BY <1>a, <1>b, <2>0, StoredCounts
    <3>2. frame' = [state |-> 3, pos |-> Stored(frame.pos), remaining |-> frame.remaining - 1,
                    length |-> frame.length]
      <4>1. frame' = [frame EXCEPT !.pos = Stored(frame.pos), !.remaining = frame.remaining - 1]
        BY <1>4, <2>1 DEF CollectPayload
      <4> QED
        BY <1>b, <2>0, <4>1
    <3>3. frame' \in FrameTypes
      BY <1>a, <1>b, <2>1, <3>1, <3>2 DEF FrameTypes
    <3>4. AssemblyInv'
      BY <1>a, <1>b, <2>0, <2>1, <3>1, <3>2, <3>3 DEF AssemblyInv
    <3>5. Collected' = Collected + 1
      BY <1>a, <1>b, <2>0, <3>2 DEF Collected
    <3> QED
      BY <2>0, <3>2, <3>4, <3>5 DEF DropsRightly, Dropped, Grown
  <2>2. CASE ~(frame.remaining > 1)
    <3>1. frame' = NoFrame
      BY <1>4, <2>2 DEF CollectPayload
    <3>2. frame.remaining = 1
      BY <1>a, <1>b, <2>0, <2>2
    <3> QED
      BY <2>0, <3>1, <3>2, NoFrameInv DEF DropsRightly
  <2> QED
    BY <2>1, <2>2
<1> QED
  BY <1>1, <1>2, <1>3, <1>4 DEF Assembles

\* The assembly holds less than the longest frame, and as much as its state says.
LEMMA CollectedBounds ==
  ASSUME AssemblyInv
  PROVE  /\ Collected \in Nat /\ Collected < FrameSize
         /\ frame.state = 0 => Collected = 0
         /\ frame.state = 1 => Collected = 1
         /\ frame.state = 2 => Collected = frame.pos /\ Collected \in {2, 3}
         /\ frame.state = 3 => Collected >= 4
BY FramesAssumption DEF AssemblyInv, FrameTypes, Collected, FrameSize, HeaderSize

\* The last byte of the frame on the wire is the last one of the assembly.
LEMMA LastIsLast ==
  ASSUME WireInv, AssemblyInv, AlignInv, Own, LastByte
  PROVE  frame.state = 3 /\ frame.remaining = 1 /\ frame.length = serial.length
<1>1. serial.at = HeaderSize + serial.length - 1 /\ serial.length >= 1 /\ HeaderSize = 6
  BY FramesAssumption DEF LastByte, WireInv, Streams, HeaderSize
<1>2. Collected >= 6 /\ serial.length \in Nat
  BY <1>1, FramesAssumption DEF Own, WireInv, Streams
<1>3. frame.state = 3
  BY <1>2, CollectedBounds DEF AssemblyInv, FrameTypes
<1>4. frame.length = serial.length
  BY <1>3 DEF AlignInv
<1>5. Collected = HeaderSize + frame.length - frame.remaining /\ frame.remaining \in Nat
      /\ frame.length \in Nat
  BY <1>3 DEF Collected, AssemblyInv, FrameTypes
<1> QED
  BY <1>1, <1>2, <1>3, <1>4, <1>5 DEF Own

\* A frame that is the one on the wire stays so, and is not taken for another.
LEMMA AlignStep ==
  ASSUME FramesInv, NEW byte, Receive(byte), Assembles(byte)
  PROVE  AlignInv'
<1>a. /\ MaxPayload \in Nat /\ DataLength \in Nat /\ DataLength >= 1
      /\ DataLength <= MaxPayload /\ FrameSize = 6 + MaxPayload /\ HeaderSize = 6
  BY FramesAssumption DEF FrameSize, HeaderSize
<1>b. /\ WireInv /\ AssemblyInv /\ AlignInv
  BY DEF FramesInv
<1>c. /\ serial.at \in Nat /\ serial.since \in Nat /\ serial.since >= 2
      /\ serial.since <= FrameSize /\ frame.state \in 0 .. 3
      /\ serial.marred \in BOOLEAN /\ serial.sof \in BOOLEAN
      /\ serial.at > 0 => serial.length \in 1 .. MaxPayload
                          /\ serial.at < 6 + serial.length
  BY <1>a, <1>b DEF WireInv, AssemblyInv, Streams, FrameTypes
<1>d. /\ serial'.sof = (byte = "sof0") /\ serial'.since = Since(byte)
      /\ Between \/ Begun(byte) \/ Ended \/ GoneOn(byte)
  BY <1>b, ReceiveStep
<1>e. /\ AssemblyInv' /\ DropsRightly(byte)
      /\ Dropped \/ Started(byte) \/ Found(byte) \/ Grown
  BY <1>b, AssembleStep
<1>f. /\ Collected \in Nat /\ Collected < FrameSize
      /\ frame.state = 0 => Collected = 0
      /\ frame.state = 1 => Collected = 1
      /\ frame.state = 2 => Collected = frame.pos /\ Collected \in {2, 3}
      /\ frame.state = 3 => Collected >= 4
  BY <1>b, CollectedBounds
<1>g. frame'.state \in 0 .. 3 /\ Collected' \in Nat
  <2>1. frame'.state \in 0 .. 3
    BY <1>e DEF AssemblyInv, FrameTypes
  <2>2. Dropped => Collected' = 0
    BY <1>e DEF Dropped, AssemblyInv, Collected
  <2> QED
    BY <1>e, <1>f, <2>1, <2>2 DEF Started, Found, Grown
\* A byte of a frame that is the one on the wire leaves it so.
<1>h. ASSUME GoneOn(byte), Own PROVE Own'
  <2>1. Collected = serial.at /\ serial'.at = serial.at + 1 /\ serial.at > 0 /\ ~LastByte
        /\ (serial.at = 1 => byte = "sof1")
    BY <1>h DEF GoneOn, Own
  <2>2. ~Dropped
    <3>1. frame.state # 0 /\ (frame.state = 1 => byte = "sof1")
      BY <1>f, <2>1
    <3>2. ~(frame.state = 3 /\ frame.remaining = 1)
      <4> SUFFICES ASSUME frame.state = 3, frame.remaining = 1 PROVE FALSE
        OBVIOUS
      <4>1. frame.length = serial.length
        BY <1>b, <1>h DEF AlignInv
      <4>2. Collected = HeaderSize + serial.length - 1
        BY <4>1 DEF Collected
      <4> QED
        BY <1>a, <1>c, <2>1, <4>2 DEF LastByte
    <3>3. serial.length \in 1 .. MaxPayload
      BY <1>c, <2>1
    <3> QED
      BY <1>e, <1>h, <3>1, <3>2, <3>3 DEF DropsRightly
  <2>3. ~Started(byte)
    BY <1>f, <2>1 DEF Started
  <2>4. Collected' = Collected + 1
    BY <1>e, <1>f, <2>2, <2>3 DEF Found, Grown
  <2> QED
    BY <1>c, <2>1, <2>4 DEF Own
<1>1. frame'.state = 1 => serial'.sof
  <2> SUFFICES ASSUME frame'.state = 1 PROVE serial'.sof
    OBVIOUS
  <2>1. byte = "sof0"
    BY <1>e DEF Dropped, Started, Found, Grown
  <2> QED
    BY <1>d, <2>1
<1>2. frame'.state >= 2 => Own' \/ serial'.since <= Collected'
  <2> SUFFICES ASSUME frame'.state >= 2, ~Own' PROVE serial'.since <= Collected'
    OBVIOUS
  <2>1. CASE Found(byte)
    <3>1. serial.sof /\ byte = "sof1" /\ Collected' = 2 /\ Collected = 1
      BY <1>b, <1>f, <2>1 DEF Found, AlignInv
    <3>2. CASE serial.at = 0 \/ (serial.at > 1 /\ serial.marred)
      BY <1>d, <3>1, <3>2 DEF Since, StrayHeader
    <3>3. CASE serial.at = 1
      <4>1. Own
        BY <3>1, <3>3 DEF Own
      <4>2. GoneOn(byte)
        BY <1>a, <1>c, <1>d, <3>1, <3>3 DEF Between, Begun, Ended, LastByte
      <4> QED
        BY <1>h, <4>1, <4>2
    <3>4. CASE serial.at > 1 /\ ~serial.marred
      <4>1. Own
        BY <1>b, <1>c, <3>4 DEF AlignInv
      <4> QED
        BY <3>1, <3>4, <4>1 DEF Own
    <3> QED
      BY <1>c, <3>2, <3>3, <3>4
  <2>2. CASE Grown
    <3>1. frame.state >= 2 /\ Collected' = Collected + 1 /\ Collected >= 2
      BY <1>c, <1>f, <2>2 DEF Grown
    <3>2. CASE Own
      <4>1. CASE LastByte
        <5>1. frame.state = 3 /\ frame.remaining = 1
          BY <1>b, <3>2, <4>1, LastIsLast
        <5>2. frame'.remaining \in Nat /\ frame'.remaining >= 1
              /\ Collected' = HeaderSize + frame'.length - frame'.remaining
              /\ frame'.length = frame.length /\ frame.length \in Nat
              /\ Collected = HeaderSize + frame.length - 1
          <6>1. frame'.state = 3 /\ frame'.length = frame.length
            BY <2>2, <5>1 DEF Grown
          <6>2. frame'.remaining \in Nat /\ frame'.remaining >= 1
            BY <1>e, <6>1 DEF AssemblyInv, FrameTypes
          <6> QED
            BY <1>b, <5>1, <6>1, <6>2 DEF Collected, AssemblyInv, FrameTypes
        <5> QED
          BY <1>a, <3>1, <5>2
      <4>2. CASE ~LastByte
        <5>1. GoneOn(byte)
          BY <1>d, <3>2, <4>2 DEF Between, Begun, Ended, Own
        <5> QED
          BY <1>h, <3>2, <5>1
      <4> QED
        BY <4>1, <4>2
    <3>3. CASE ~Own
      <4>1. serial.since <= Collected
        BY <1>b, <3>1, <3>3 DEF AlignInv
      <4>2. Since(byte) <= serial.since + 1 \/ Since(byte) = 2
        BY <1>c DEF Since
      <4>3. serial'.since = Since(byte)
        BY <1>d
      <4>4. Since(byte) \in Nat
        BY <1>c DEF Since
      <4>5. Since(byte) <= Collected + 1
        BY <1>c, <1>f, <3>1, <4>1, <4>2, <4>4
      <4> QED
        BY <3>1, <4>3, <4>5
    <3> QED
      BY <3>2, <3>3
  <2> QED
    BY <1>e, <2>1, <2>2 DEF Dropped, Started
<1>3. frame'.state = 3 /\ Own' => frame'.length = serial'.length
  <2> SUFFICES ASSUME frame'.state = 3, Own' PROVE frame'.length = serial'.length
    OBVIOUS
  <2>1. Grown
    BY <1>e DEF Dropped, Started, Found
  <2>2. Collected' = Collected + 1 /\ Collected >= 2 /\ serial'.at = Collected'
        /\ frame.state \in {2, 3}
    BY <1>c, <1>f, <2>1 DEF Grown, Own
  <2>3. GoneOn(byte)
    BY <1>d, <1>f, <2>2 DEF Between, Begun, Ended
  <2>4. serial.at = Collected /\ serial'.length = serial.length /\ serial.at > 0
    BY <1>c, <1>f, <2>2, <2>3 DEF GoneOn
  <2>5. Own
    BY <2>4 DEF Own
  <2> QED
    BY <1>b, <2>1, <2>2, <2>4, <2>5 DEF Grown, AlignInv
<1>4. serial'.at > 0 => serial'.marred \/ Own'
  <2> SUFFICES ASSUME serial'.at > 0, ~serial'.marred PROVE Own'
    OBVIOUS
  <2>1. CASE Begun(byte)
    <3>1. serial.at = 0 /\ byte = "sof0" /\ serial'.at = 1 /\ ~(serial.since < FrameSize)
      BY <2>1 DEF Begun
    <3>2. frame.state \in {0, 1}
      <4>1. ~Own
        BY <3>1 DEF Own
      <4>2. frame.state >= 2 => serial.since <= Collected
        BY <1>b, <4>1 DEF AlignInv
      <4> QED
        BY <1>a, <1>c, <1>f, <3>1, <4>2
    <3>3. Started(byte)
      BY <1>e, <3>1, <3>2 DEF DropsRightly, Found, Grown
    <3> QED
      BY <3>1, <3>3 DEF Started, Own
  <2>2. CASE GoneOn(byte)
    <3>1. serial.at > 0 /\ ~serial.marred
      BY <2>2 DEF GoneOn
    <3> QED
      BY <1>b, <1>h, <2>2, <3>1 DEF AlignInv
  <2> QED
    BY <1>d, <2>1, <2>2 DEF Between, Ended
<1> QED
  BY <1>1, <1>2, <1>3, <1>4 DEF AlignInv

LEMMA FramesInitInv == FramesInit => FramesInv
<1> SUFFICES ASSUME FramesInit PROVE FramesInv
  OBVIOUS
<1>0. MaxPayload \in Nat /\ PosModulus \in Nat /\ PosModulus > 7
  BY FramesAssumption DEF HeaderSize
<1>1. WireInv
  <2>1. serial = [at |-> 0, length |-> 0, marred |-> FALSE, sof |-> FALSE, since |-> FrameSize]
    BY DEF FramesInit
  <2>2. FrameSize \in Nat /\ FrameSize >= 2
    BY <1>0 DEF FrameSize, HeaderSize
  <2>3. serial \in Streams
    BY <1>0, <2>1, <2>2 DEF Streams
  <2> QED
    BY <2>1, <2>2, <2>3 DEF WireInv
<1>2. frame = [state |-> 0, pos |-> 0, remaining |-> 0, length |-> 0]
  BY DEF FramesInit, NoFrame
<1>3. AssemblyInv
  <2>1. frame \in FrameTypes
    BY <1>0, <1>2 DEF FrameTypes
  <2> QED
    BY <1>2, <2>1 DEF AssemblyInv
<1>4. AlignInv
  BY <1>2 DEF FramesInit, AlignInv
<1>5. hi91 \in 0 .. 1 /\ lostLengths \subseteq 0 .. MaxPayload /\ IntactFramesDecode
  BY DEF FramesInit, IntactFramesDecode
<1> QED
  BY <1>1, <1>3, <1>4, <1>5 DEF FramesInv

\* The last byte of a frame that is not marred brings a sample, if frame_pos_ could
\* count it.
LEMMA LastBringsSample ==
  ASSUME FramesInv, NEW byte, Assembles(byte), LastByte, ~serial.marred,
         HeaderSize + serial.length < PosModulus
  PROVE  hi91' # hi91
<1>1. Own /\ WireInv /\ AssemblyInv /\ AlignInv /\ serial.at > 0
  BY DEF FramesInv, AlignInv, LastByte
<1>2. frame.state = 3 /\ frame.remaining = 1 /\ frame.length = serial.length
  BY <1>1, LastIsLast
<1>3. /\ frame.pos \in 0 .. PosModulus - 1 /\ frame.pos + 1 = HeaderSize + serial.length
      /\ serial.length \in Nat /\ serial.length >= DataLength
      /\ HeaderSize = 6 /\ PosModulus \in Nat /\ DataLength \in Nat
  BY <1>1, <1>2, FramesAssumption DEF AssemblyInv, FrameTypes, WireInv, HeaderSize
<1>4. Stored(frame.pos) = HeaderSize + serial.length
  BY <1>3, StoredCounts
<1>5. Decodes(Stored(frame.pos))
  BY <1>2, <1>3, <1>4 DEF Decodes
<1>6. CollectPayload
  BY <1>2 DEF Assembles, WaitSof0, WaitSof1, CollectLength
<1>7. hi91' = PublishHi91Sample(TRUE)
  <2>1. ~(frame.remaining > 1)
    BY <1>2
  <2>2. PICK valid, plausible \in IF Own THEN {TRUE} ELSE BOOLEAN :
          hi91' = IF valid /\ Decodes(Stored(frame.pos))
                    THEN PublishHi91Sample(plausible) ELSE hi91
    BY <1>6, <2>1, Zenon DEF CollectPayload
  <2>3. valid = TRUE /\ plausible = TRUE
    BY <1>1
  <2> QED
    BY <1>5, <2>2, <2>3
<1> QED
  BY <1>7 DEF PublishHi91Sample, FramesInv

LEMMA FramesStepInv == FramesInv /\ [ProcessByte]_framesVars => FramesInv'
<1> SUFFICES ASSUME FramesInv, [ProcessByte]_framesVars PROVE FramesInv'
  OBVIOUS
<1>1. CASE ProcessByte
  <2>1. PICK byte \in {"sof0", "sof1", "other"} : Receive(byte) /\ Assembles(byte)
    BY <1>1 DEF ProcessByte, Assembles
  <2>2. lostLengths' = IF LastByte /\ ~serial.marred /\ hi91' = hi91
                         THEN lostLengths \union {serial.length} ELSE lostLengths
    BY <1>1 DEF ProcessByte
  <2>3. WireInv' /\ AssemblyInv' /\ AlignInv'
    BY <2>1, ReceiveStep, AssembleStep, AlignStep DEF FramesInv
  <2>4. hi91 \in 0 .. 1 /\ lostLengths \subseteq 0 .. MaxPayload /\ IntactFramesDecode
    BY DEF FramesInv
  <2>5. hi91' \in 0 .. 1
    <3>1. hi91' = hi91 \/ \E plausible : hi91' = PublishHi91Sample(plausible)
      BY <2>1 DEF Assembles, WaitSof0, WaitSof1, CollectLength, CollectPayload
    <3> QED
      BY <2>4, <3>1 DEF PublishHi91Sample
  <2>6. serial.length \in 0 .. MaxPayload
    BY DEF FramesInv, WireInv, Streams
  <2>7. lostLengths' \subseteq 0 .. MaxPayload
    BY <2>2, <2>4, <2>6
  <2>8. IntactFramesDecode'
    <3>1. CASE lostLengths' = lostLengths
      BY <2>4, <3>1 DEF IntactFramesDecode
    <3>2. CASE /\ LastByte /\ ~serial.marred /\ hi91' = hi91
               /\ lostLengths' = lostLengths \union {serial.length}
      <4>1. ~(HeaderSize + serial.length < PosModulus)
        BY <2>1, <3>2, LastBringsSample
      <4>2. HeaderSize + serial.length >= PosModulus
        BY <2>6, <4>1, FramesAssumption DEF HeaderSize
      <4> QED
        BY <2>4, <3>2, <4>2 DEF IntactFramesDecode
    <3> QED
      BY <2>2, <3>1, <3>2
  <2> QED
    BY <2>3, <2>5, <2>7, <2>8 DEF FramesInv
<1>2. CASE UNCHANGED framesVars
  BY <1>2
  DEF framesVars, FramesInv, WireInv, AssemblyInv, AlignInv, Own, Collected, IntactFramesDecode
<1> QED
  BY <1>1, <1>2

(***************************************************************************)
(* Every intact frame is published that an eight-bit frame_pos_ can count, *)
(* unless a stray header came less than the longest frame before it, for   *)
(* every limit on the payload.                                             *)
(***************************************************************************)
THEOREM FramesCorrect == FramesSpec => []IntactFramesDecode
<1>1. FramesInv => IntactFramesDecode
  BY DEF FramesInv
<1> QED
  BY <1>1, FramesInitInv, FramesStepInv, PTL DEF FramesSpec

(***************************************************************************)
(* The assembly keeps its types.                                           *)
(***************************************************************************)
THEOREM FramesTypeCorrect == FramesSpec => []FramesTypeOK
<1>1. FramesInv => FramesTypeOK
  BY DEF FramesInv, WireInv, AssemblyInv, FrameTypes, FramesTypeOK
<1> QED
  BY <1>1, FramesInitInv, FramesStepInv, PTL DEF FramesSpec

(***************************************************************************)
(* The ring keeps its types: every position stays in it.                   *)
(***************************************************************************)
THEOREM Hi91TypeCorrect == Hi91Spec => []Hi91TypeOK
<1>1. RingInv => Hi91TypeOK
  <2> SUFFICES ASSUME RingInv PROVE Hi91TypeOK
    OBVIOUS
  <2>1. /\ front \in 0 .. RingSize /\ lead \in 0 .. RingSize /\ unseen \in 0 .. Burst
        /\ hi91Pc \in {"poll", "consume"}
    BY RingAssumption, SMT DEF RingInv, RingType, Ring
  <2>2. /\ rx.read \in 0 .. RingSize /\ rx.observed \in 0 .. RingSize
        /\ rx.available \in 0 .. RingSize /\ rx.consume \in 0 .. RingSize
        /\ rx.chunk \in 0 .. RingSize
    BY RingAssumption, SMT DEF RingInv, RingType, Ring
  <2>3. rx = [read |-> rx.read, observed |-> rx.observed, available |-> rx.available,
              consume |-> rx.consume, chunk |-> rx.chunk]
    BY DEF RingInv, RingType
  <2>4. rx \in [read : 0 .. RingSize, observed : 0 .. RingSize, available : 0 .. RingSize,
                consume : 0 .. RingSize, chunk : 0 .. RingSize]
    BY <2>2, <2>3
  <2> QED
    BY <2>1, <2>4 DEF Hi91TypeOK
<1> QED
  BY <1>1, RingInitInv, RingStepInv, PTL DEF Hi91Spec
=============================================================================
