---------------------------- MODULE Hi91Receiver ----------------------------
(***************************************************************************)
(* The receive ring of the HI91 IMU (hi91_imu_module.cpp): a circular DMA  *)
(* that is never stopped, and the thread that polls its position and hands *)
(* what is far enough behind it to the frame assembly, see Hi91Frames.     *)
(*                                                                         *)
(* Outside src/: the UART driver, which reports the position of the DMA    *)
(* or an error, and either end of the ring when the DMA is at its start;   *)
(* and the timing, at most Burst bytes from one poll to the next.          *)
(***************************************************************************)
EXTENDS Naturals

CONSTANTS
  RingSize,     \* kRxDmaRingSize
  GuardSize,    \* kRxCommitGuardSize
  Burst         \* bytes received from one poll to the next, at most

\* "The producer does not lap the ring between two observations."
ASSUME RingAssumption ==
  /\ RingSize \in Nat /\ GuardSize \in Nat /\ Burst \in Nat
  /\ GuardSize + Burst + Burst < RingSize

VARIABLES
  front,     \* the DMA: where the next byte goes
  lead,      \* history: bytes received and not yet handed to ProcessByte
  unseen,    \* history: bytes received since the last poll
  rx,        \* rx_read_pos_, rx_observed_write_pos_, rx_available_bytes_, the chunk in ProcessBytes
  hi91Pc     \* the thread: sleeping, or processing a poll

hi91Vars == <<front, lead, unseen, rx, hi91Pc>>

Hi91Init ==
  /\ front = 0 /\ lead = 0 /\ unseen = 0
  /\ rx = [read |-> 0, observed |-> 0, available |-> 0, consume |-> 0, chunk |-> 0]
  /\ hi91Pc = "poll"

-----------------------------------------------------------------------------
(* The ring.                                                                 *)

Advance(pos, n) == IF pos + n >= RingSize THEN pos + n - RingSize ELSE pos + n

DmaWrite ==
  /\ unseen < Burst
  /\ front' = Advance(front, 1)
  /\ lead' = lead + 1
  /\ unseen' = unseen + 1
  /\ UNCHANGED <<rx, hi91Pc>>

\* The position the driver may report.
Reported == IF front = 0 THEN {0, RingSize} ELSE {front}

\* Mutant: the end of the ring is taken for a position of its own.
ProducedRaw(position) ==
  IF position >= rx.observed THEN position - rx.observed
  ELSE RingSize - rx.observed + position

Normalized(position) == IF position = RingSize THEN 0 ELSE position

\* "The size and 0 both mean the start of the ring."
Produced(position) ==
  IF Normalized(position) >= rx.observed THEN Normalized(position) - rx.observed
  ELSE RingSize - rx.observed + Normalized(position)

\* A poll: what was received counts, its last GuardSize bytes are left for the next one.
PollPosition ==
  /\ hi91Pc = "poll"
  /\ \E position \in Reported :
       LET available == rx.available + Produced(position)
       IN  rx' = [rx EXCEPT !.observed = Normalized(position),
                            !.available = available,
                            !.consume = IF available > GuardSize
                                          THEN available - GuardSize ELSE 0]
  /\ unseen' = 0
  /\ hi91Pc' = "consume"
  /\ UNCHANGED <<front, lead>>

Smaller(a, b) == IF a < b THEN a ELSE b

\* The contiguous part of what is to be consumed goes to ProcessBytes.
ConsumeChunk ==
  /\ hi91Pc = "consume" /\ rx.chunk = 0 /\ rx.consume > 0
  /\ LET n == Smaller(rx.consume, RingSize - rx.read)
     IN  rx' = [rx EXCEPT !.read = Advance(@, n), !.consume = @ - n, !.available = @ - n,
                          !.chunk = n]
  /\ UNCHANGED <<front, lead, unseen, hi91Pc>>

PollDone ==
  /\ hi91Pc = "consume" /\ rx.chunk = 0 /\ rx.consume = 0
  /\ hi91Pc' = "poll"
  /\ UNCHANGED <<front, lead, unseen, rx>>

-----------------------------------------------------------------------------
(* The chunk.                                                                *)

\* ProcessBytes hands the next byte to ProcessByte, which Hi91Frames takes up.
TakeByte ==
  /\ hi91Pc = "consume" /\ rx.chunk > 0
  /\ rx' = [rx EXCEPT !.chunk = @ - 1]
  /\ lead' = lead - 1
  /\ UNCHANGED <<front, unseen, hi91Pc>>

Hi91Thread == PollPosition \/ ConsumeChunk \/ PollDone \/ TakeByte

\* A position the driver could not give, rx_drop_count_, is a poll not made.
Hi91Next == DmaWrite \/ Hi91Thread

Hi91Spec == Hi91Init /\ [][Hi91Next]_hi91Vars

-----------------------------------------------------------------------------
(* Properties.                                                               *)

Hi91TypeOK ==
  /\ front \in 0 .. RingSize /\ lead \in 0 .. RingSize /\ unseen \in 0 .. Burst
  /\ rx \in [read : 0 .. RingSize, observed : 0 .. RingSize, available : 0 .. RingSize,
             consume : 0 .. RingSize, chunk : 0 .. RingSize]
  /\ hi91Pc \in {"poll", "consume"}

(***************************************************************************)
(* Bytes reach ProcessByte once, in the order of the wire, from memory the *)
(* DMA has finished with and not yet reused: the bytes handed out end at   *)
(* rx_read_pos_, lead bytes behind the DMA's position, and the next one    *)
(* is more than the guard behind it, however positions wrap or are         *)
(* reported (RunLoop).                                                     *)
(***************************************************************************)
BytesInOrder ==
  /\ lead = rx.chunk + rx.available + unseen
  /\ front = Advance(rx.read, rx.available + unseen)
  /\ lead <= RingSize
  /\ rx.chunk > 0 => lead > GuardSize
=============================================================================
