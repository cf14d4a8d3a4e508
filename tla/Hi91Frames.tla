----------------------------- MODULE Hi91Frames -----------------------------
(***************************************************************************)
(* The frame assembly of the HI91 IMU (ProcessByte in hi91_imu_module.cpp, *)
(* DecodeHi91Frame in hi91_protocol.cpp) over the bytes that Hi91Receiver  *)
(* hands to it, each once and in the order of the wire.                    *)
(*                                                                         *)
(* Outside src/: the wire, what the sensor sent and what became of it.     *)
(* Intact frames with a valid CRC, the tag of a sample and a plausible     *)
(* pitch come, and between them whatever damage left, truncated frames     *)
(* included.  A byte is one of the two that start a frame, or any other;   *)
(* the body of an intact frame may hold these two as well.                 *)
(***************************************************************************)
EXTENDS Naturals

CONSTANTS
  MaxPayload,   \* kHi91MaxPayloadLength
  DataLength,   \* kHi91DataLength
  PosModulus    \* 2^8: frame_pos_ is a uint8_t

HeaderSize == 6                        \* kHi91FrameHeaderSize
FrameSize == HeaderSize + MaxPayload   \* kFrameBufferSize

ASSUME FramesAssumption ==
  /\ MaxPayload \in Nat /\ DataLength \in 1 .. MaxPayload
  /\ PosModulus \in Nat /\ PosModulus > HeaderSize + DataLength

VARIABLES
  serial,      \* the stream of bytes, see Streams
  frame,       \* frame_state_, frame_pos_, frame_remaining_, the payload length read
  hi91,        \* the published sample: its sequence modulo 2
  lostLengths  \* history: payload lengths of intact frames that were lost undamaged

framesVars == <<serial, frame, hi91, lostLengths>>

\* The intact frame that is being received: how many of its bytes have come (0
\* between frames), its payload length, and whether it is marred, a stray header
\* before it being near enough to lead the assembly astray.  Then whether the last
\* byte was SOF0, and how many bytes have come since the last stray header began.
Streams ==
  [at : 0 .. FrameSize, length : 0 .. MaxPayload, marred : BOOLEAN,
   sof : BOOLEAN, since : 0 .. FrameSize]

NoFrame == [state |-> 0, pos |-> 0, remaining |-> 0, length |-> 0]

FramesInit ==
  /\ serial = [at |-> 0, length |-> 0, marred |-> FALSE, sof |-> FALSE, since |-> FrameSize]
  /\ frame = NoFrame
  /\ hi91 = 0
  /\ lostLengths = {}

-----------------------------------------------------------------------------
(* The wire.                                                                 *)

\* SOF0 SOF1 that neither begins an intact frame nor lies in one not led astray.
StrayHeader(byte) ==
  serial.sof /\ byte = "sof1" /\ (serial.at = 0 \/ (serial.at > 1 /\ serial.marred))

\* Beyond the longest frame it makes no difference.
Since(byte) ==
  IF StrayHeader(byte) THEN 2
  ELSE IF serial.since < FrameSize THEN serial.since + 1 ELSE serial.since

Noise(byte) ==
  /\ serial.at = 0
  /\ serial' = [serial EXCEPT !.sof = (byte = "sof0"), !.since = Since(byte)]

FrameBegins(byte) ==
  /\ serial.at = 0 /\ byte = "sof0"
  /\ \E length \in DataLength .. MaxPayload :
       serial' = [at |-> 1, length |-> length, marred |-> serial.since < FrameSize,
                  sof |-> TRUE, since |-> Since(byte)]

LastByte == serial.at > 0 /\ serial.at + 1 = HeaderSize + serial.length

\* The second byte is SOF1, and the high byte of a length is 0 or 1.
FrameGoesOn(byte) ==
  /\ serial.at > 0
  /\ serial.at = 1 => byte = "sof1"
  /\ serial.at = 3 => byte = "other"
  /\ serial' = [at |-> IF LastByte THEN 0 ELSE serial.at + 1,
                length |-> IF LastByte THEN 0 ELSE serial.length,
                marred |-> serial.marred /\ ~LastByte,
                sof |-> byte = "sof0", since |-> Since(byte)]

Receive(byte) == Noise(byte) \/ FrameBegins(byte) \/ FrameGoesOn(byte)

-----------------------------------------------------------------------------
(* ProcessByte.                                                              *)

\* Bytes of the frame being assembled, and whether it is the one on the wire: then
\* its fields are those that were sent.
Collected == IF frame.state = 3 THEN HeaderSize + frame.length - frame.remaining ELSE frame.pos
Own == serial.at > 0 /\ Collected = serial.at

Stored(pos) == (pos + 1) % PosModulus

WaitSof0(byte) ==
  /\ frame.state = 0
  /\ frame' = IF byte = "sof0" THEN [frame EXCEPT !.state = 1, !.pos = 1] ELSE frame
  /\ UNCHANGED hi91

\* Mutant: a second SOF0 is taken for any other byte, and starts the search again.
WaitSof1Once(byte) ==
  /\ frame.state = 1
  /\ frame' = IF byte = "sof1" THEN [frame EXCEPT !.state = 2, !.pos = 2] ELSE NoFrame
  /\ UNCHANGED hi91

\* The second byte of a header, the first one again, or neither.
WaitSof1(byte) ==
  /\ frame.state = 1
  /\ frame' = CASE byte = "sof1" -> [frame EXCEPT !.state = 2, !.pos = 2]
                [] byte = "sof0" -> [frame EXCEPT !.pos = 1]
                [] OTHER -> NoFrame
  /\ UNCHANGED hi91

\* Two bytes of length; a length out of range starts the search again.
CollectLength ==
  /\ frame.state = 2
  /\ IF Stored(frame.pos) # 4
       THEN frame' = [frame EXCEPT !.pos = Stored(@)]
       ELSE \E length \in IF Own THEN {serial.length} ELSE 0 .. MaxPayload + 1 :
              frame' = IF length \in 1 .. MaxPayload
                         THEN [state |-> 3, pos |-> 4, remaining |-> 2 + length,
                               length |-> length]
                         ELSE NoFrame
  /\ UNCHANGED hi91

\* DecodeHi91Frame accepts len bytes of a frame with a valid checksum and tag.
Decodes(len) == len >= HeaderSize + frame.length /\ frame.length >= DataLength

\* PublishSample: a pitch that is not plausible is rejected.
PublishHi91Sample(plausible) == IF plausible THEN 1 - hi91 ELSE hi91

\* The CRC and the payload.  A frame that is whole, has a valid CRC (when it is
\* strict) and tag, and a plausible pitch, is published.
CollectPayload ==
  /\ frame.state = 3
  /\ IF frame.remaining > 1
       THEN /\ frame' = [frame EXCEPT !.pos = Stored(@), !.remaining = @ - 1]
            /\ UNCHANGED hi91
       ELSE /\ frame' = NoFrame
            /\ \E valid, plausible \in IF Own THEN {TRUE} ELSE BOOLEAN :
                 hi91' = IF valid /\ Decodes(Stored(frame.pos))
                           THEN PublishHi91Sample(plausible) ELSE hi91

\* An intact frame is lost undamaged if it is not marred and its last byte brings no
\* sample.
ProcessByte ==
  /\ \E byte \in {"sof0", "sof1", "other"} :
       /\ Receive(byte)
       /\ WaitSof0(byte) \/ WaitSof1(byte) \/ CollectLength \/ CollectPayload
  /\ lostLengths' = IF LastByte /\ ~serial.marred /\ hi91' = hi91
                 THEN lostLengths \union {serial.length} ELSE lostLengths

FramesSpec == FramesInit /\ [][ProcessByte]_framesVars

-----------------------------------------------------------------------------
(* Properties.                                                               *)

FramesTypeOK ==
  /\ serial \in Streams
  /\ frame \in [state : 0 .. 3, pos : 0 .. PosModulus - 1, remaining : 0 .. MaxPayload + 2,
                length : 0 .. MaxPayload]
  /\ hi91 \in 0 .. 1
  /\ lostLengths \subseteq 0 .. MaxPayload

(***************************************************************************)
(* An intact frame is published, wherever the bytes before it left the     *)
(* assembly, unless a stray header came less than the longest frame before *)
(* it: a truncated frame's length may take in what follows, intact frames  *)
(* included, but never costs more than that; noise without a header costs  *)
(* nothing, and a run of intact frames loses none.  This is so for the     *)
(* frames whose bytes a uint8_t can count, see AcceptedLengthsDecode       *)
(* (ProcessByte, DecodeHi91Frame).                                         *)
(***************************************************************************)
IntactFramesDecode == \A length \in lostLengths : HeaderSize + length >= PosModulus

(***************************************************************************)
(* "The largest payload length that the parser accepts": the same for all  *)
(* lengths up to kHi91MaxPayloadLength (hi91_protocol.h).                  *)
(***************************************************************************)
AcceptedLengthsDecode == lostLengths = {}
=============================================================================
