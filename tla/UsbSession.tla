----------------------------- MODULE UsbSession -----------------------------
(***************************************************************************)
(* The USB session of usb_session.cpp and the PC link on top of it: the    *)
(* event handler and the endpoint callbacks, which run in the USB          *)
(* interrupt; PcLinkLoop, which arms the OUT endpoint, watches the command *)
(* timeout and drains the received packets; PcLinkTxLoop, which sends one  *)
(* telemetry packet per kick.  The volatile flags are shared without a     *)
(* lock, so a step is what no interrupt can come in between.               *)
(*                                                                         *)
(* The device controller, outside src/, is what it owes the session: a     *)
(* receive or a transfer that was started completes or is dropped by a     *)
(* reset or a new configuration.                                           *)
(***************************************************************************)
EXTENDS Naturals, Sequences

CONSTANTS
  UsbDepth,      \* bound: packets queued in usb_raw_frames
  PcTimeout,     \* kPcCommandTimeoutMs, in periods of PcLinkLoop
  UsbPackets     \* what the host sends, a set of [length, head, crc : BOOLEAN]

ASSUME UsbAssumption ==
  /\ UsbDepth \in Nat /\ UsbDepth > 0
  /\ PcTimeout \in Nat
  /\ UsbPackets \subseteq [length : BOOLEAN, head : BOOLEAN, crc : BOOLEAN]

VARIABLES
  usb,          \* g_configured, g_vendor_tx_busy, g_vendor_out_armed, the clear request, the kick
  wire,         \* the controller: a receive is posted (out), a transfer is in flight (in)
  rawFrames,    \* usb_raw_frames
  pcCommand,    \* latest_pc_auto_aim_command with g_has_valid_pc_command and its age
  rxPc,         \* PcLinkLoop
  txPc          \* PcLinkTxLoop

usbVars == <<usb, wire, rawFrames, pcCommand, rxPc, txPc>>

UsbFlags == [configured : BOOLEAN, busy : BOOLEAN, armed : BOOLEAN, clear : BOOLEAN, kick : BOOLEAN]

UsbInit ==
  /\ usb = [configured |-> FALSE, busy |-> FALSE, armed |-> FALSE, clear |-> TRUE, kick |-> FALSE]
  /\ wire = [out |-> FALSE, in |-> FALSE]
  /\ rawFrames = <<>>
  /\ pcCommand = [aim |-> FALSE, valid |-> FALSE, age |-> 0]
  /\ rxPc = "wait"
  /\ txPc = "take"

-----------------------------------------------------------------------------
(* The USB interrupt.                                                        *)

\* USBD_EVENT_CONFIGURED: a new session, whose first receive the handler arms
\* itself if the controller lets it.
UsbConfigured ==
  /\ \E ok \in BOOLEAN :
       /\ usb' = [configured |-> TRUE, busy |-> FALSE, armed |-> ok, clear |-> TRUE, kick |-> TRUE]
       /\ wire' = [out |-> ok, in |-> FALSE]
  /\ UNCHANGED <<rawFrames, pcCommand, rxPc, txPc>>

\* USBD_EVENT_RESET, USBD_EVENT_DISCONNECTED.
UsbDropped ==
  /\ usb.configured
  /\ usb' = [usb EXCEPT !.configured = FALSE, !.busy = FALSE, !.armed = FALSE, !.clear = TRUE]
  /\ wire' = [out |-> FALSE, in |-> FALSE]
  /\ UNCHANGED <<rawFrames, pcCommand, rxPc, txPc>>

\* TryPush: a full queue drops the packet.
EnqueueUsbRx(packet) ==
  rawFrames' = IF Len(rawFrames) < UsbDepth THEN Append(rawFrames, packet) ELSE rawFrames

UsbInterruptOutCallback ==
  /\ wire.out
  /\ wire' = [wire EXCEPT !.out = FALSE]
  /\ usb' = [usb EXCEPT !.armed = FALSE]
  /\ \E packet \in UsbPackets : EnqueueUsbRx(packet)
  /\ UNCHANGED <<pcCommand, rxPc, txPc>>

\* Mutant: a finished transfer frees the endpoint and kicks nobody.
UsbInterruptInWithoutKick ==
  /\ wire.in
  /\ wire' = [wire EXCEPT !.in = FALSE]
  /\ usb' = [usb EXCEPT !.busy = FALSE]
  /\ UNCHANGED <<rawFrames, pcCommand, rxPc, txPc>>

UsbInterruptInCallback ==
  /\ wire.in
  /\ wire' = [wire EXCEPT !.in = FALSE]
  /\ usb' = [usb EXCEPT !.busy = FALSE, !.kick = TRUE]
  /\ UNCHANGED <<rawFrames, pcCommand, rxPc, txPc>>

UsbInterrupt ==
  UsbConfigured \/ UsbDropped \/ UsbInterruptOutCallback \/ UsbInterruptInCallback

-----------------------------------------------------------------------------
(* PcLinkLoop.                                                               *)

NextAge(age) == IF age > PcTimeout THEN age ELSE age + 1

\* A release, one period later, and the two guards of the arming.
PcLinkRelease ==
  /\ rxPc = "wait"
  /\ pcCommand' = [pcCommand EXCEPT !.age = NextAge(@)]
  /\ rxPc' = IF usb.configured /\ ~usb.armed THEN "arm" ELSE "safety"
  /\ UNCHANGED <<usb, wire, rawFrames, txPc>>

\* ArmVendorOut up to usbd_ep_start_read.  Not ok: it failed, or the flags have
\* changed since the loop read them.
StartRead(ok) ==
  /\ rxPc = "arm"
  /\ wire' = [wire EXCEPT !.out = @ \/ (usb.configured /\ ok)]
  /\ rxPc' = IF ok THEN "armed" ELSE "safety"
  /\ UNCHANGED <<usb, rawFrames, pcCommand, txPc>>

\* ArmVendorOut after it: the flag.
MarkArmed ==
  /\ rxPc = "armed"
  /\ usb' = [usb EXCEPT !.armed = TRUE]
  /\ rxPc' = "safety"
  /\ UNCHANGED <<wire, rawFrames, pcCommand, txPc>>

Idle == [aim |-> FALSE, valid |-> FALSE, age |-> 0]

EnforcePcCommandSafety ==
  /\ rxPc = "safety"
  /\ usb' = [usb EXCEPT !.clear = FALSE]
  /\ pcCommand' =
       IF usb.clear \/ (pcCommand.valid /\ pcCommand.age > PcTimeout) THEN Idle ELSE pcCommand
  /\ rxPc' = "drain"
  /\ UNCHANGED <<wire, rawFrames, txPc>>

\* DecodePcCommRecv: the checks a packet has to pass.
DecodePcCommRecv(packet) == packet.length /\ packet.head /\ packet.crc

\* Mutant: a command is published without being watched.
PublishUnwatched == [aim |-> TRUE, valid |-> pcCommand.valid, age |-> 0]

PublishAutoAimCommand == [aim |-> TRUE, valid |-> TRUE, age |-> 0]

\* DrainPcRx, one packet.
PublishPacket ==
  /\ rxPc = "drain" /\ rawFrames # <<>>
  /\ DecodePcCommRecv(Head(rawFrames))
  /\ pcCommand' = PublishAutoAimCommand
  /\ rawFrames' = Tail(rawFrames)
  /\ UNCHANGED <<usb, wire, rxPc, txPc>>

SkipPacket ==
  /\ rxPc = "drain" /\ rawFrames # <<>>
  /\ ~DecodePcCommRecv(Head(rawFrames))
  /\ rawFrames' = Tail(rawFrames)
  /\ UNCHANGED <<usb, wire, pcCommand, rxPc, txPc>>

DrainDone ==
  /\ rxPc = "drain" /\ rawFrames = <<>>
  /\ rxPc' = "wait"
  /\ UNCHANGED <<usb, wire, rawFrames, pcCommand, txPc>>

PcLinkLoop ==
  \/ PcLinkRelease \/ (\E ok \in BOOLEAN : StartRead(ok)) \/ MarkArmed
  \/ EnforcePcCommandSafety \/ PublishPacket \/ SkipPacket \/ DrainDone

-----------------------------------------------------------------------------
(* PcLinkTxLoop.                                                             *)

TakeKick ==
  /\ txPc = "take" /\ usb.kick
  /\ usb' = [usb EXCEPT !.kick = FALSE]
  /\ txPc' = IF usb.configured THEN "send" ELSE "take"
  /\ UNCHANGED <<wire, rawFrames, pcCommand, rxPc>>

\* SendPcLinkFrame packs the snapshots; SendUsb refuses without a session or
\* behind a transfer in flight.
SendPcLinkFrame ==
  /\ txPc = "send"
  /\ txPc' = IF ~usb.configured THEN "failed" ELSE IF usb.busy THEN "take" ELSE "mark"
  /\ UNCHANGED <<usb, wire, rawFrames, pcCommand, rxPc>>

MarkBusy ==
  /\ txPc = "mark"
  /\ usb' = [usb EXCEPT !.busy = TRUE]
  /\ txPc' = "start"
  /\ UNCHANGED <<wire, rawFrames, pcCommand, rxPc>>

\* usbd_ep_start_write; on an endpoint that is not configured nothing follows.
StartWrite ==
  /\ txPc = "start"
  /\ \/ /\ wire' = [wire EXCEPT !.in = @ \/ usb.configured]
        /\ txPc' = "take"
        /\ UNCHANGED usb
     \/ /\ usb' = [usb EXCEPT !.busy = FALSE]
        /\ txPc' = "failed"
        /\ UNCHANGED wire
  /\ UNCHANGED <<rawFrames, pcCommand, rxPc>>

\* A start that failed has no completion to wait for: sleep, and kick again.
SendFailed ==
  /\ txPc = "failed"
  /\ txPc' = IF usb.configured THEN "backoff" ELSE "take"
  /\ UNCHANGED <<usb, wire, rawFrames, pcCommand, rxPc>>

BackedOff ==
  /\ txPc = "backoff"
  /\ usb' = [usb EXCEPT !.kick = TRUE]
  /\ txPc' = "take"
  /\ UNCHANGED <<wire, rawFrames, pcCommand, rxPc>>

PcLinkTxLoop ==
  TakeKick \/ SendPcLinkFrame \/ MarkBusy \/ StartWrite \/ SendFailed \/ BackedOff

-----------------------------------------------------------------------------

UsbNext == UsbInterrupt \/ PcLinkLoop \/ PcLinkTxLoop

UsbSpec == UsbInit /\ [][UsbNext]_usbVars

\* Both threads run, the host takes what it was sent, and a receive the
\* controller refuses now is accepted later.
UsbFairSpec ==
  /\ UsbSpec
  /\ WF_usbVars(PcLinkLoop)
  /\ WF_usbVars(PcLinkTxLoop)
  /\ WF_usbVars(UsbInterruptInCallback)
  /\ SF_usbVars(StartRead(TRUE))

-----------------------------------------------------------------------------
(* Properties.                                                               *)

UsbTypeOK ==
  /\ usb \in UsbFlags
  /\ wire \in [out : BOOLEAN, in : BOOLEAN]
  /\ rawFrames \in Seq(UsbPackets) /\ Len(rawFrames) <= UsbDepth
  /\ pcCommand \in [aim : BOOLEAN, valid : BOOLEAN, age : 0 .. PcTimeout + 1]
  /\ rxPc \in {"wait", "arm", "armed", "safety", "drain"}
  /\ txPc \in {"take", "send", "mark", "start", "failed", "backoff"}

(***************************************************************************)
(* A command does not outlive its source: unless valid packets keep        *)
(* coming, or the host enumerates the device for ever, the published       *)
(* command is the idle one again and again, whatever the resets, the       *)
(* refused packets and the ones left in the queue do                       *)
(* (EnforcePcCommandSafety).                                               *)
(***************************************************************************)
CommandsExpire ==
  []<><<PublishPacket>>_usbVars \/ []<><<UsbConfigured>>_usbVars \/ []<>(~pcCommand.aim)

(***************************************************************************)
(* Telemetry never stalls: in a session that lasts, PcLinkTxLoop hands     *)
(* packets to the controller for ever.  Kicks come from completions, from  *)
(* failed starts and from the configuration alone; a reset may fall        *)
(* between any two steps of a send, and leave a busy flag or eat a kick.   *)
(***************************************************************************)
TelemetryFlows == []<>(~usb.configured) \/ []<><<StartWrite>>_usbVars
=============================================================================
