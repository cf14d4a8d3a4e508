--------------------------- MODULE OscilloscopeTx ---------------------------
(***************************************************************************)
(* The oscilloscope output (oscilloscope_module.cpp): a thread that sends  *)
(* the newest chassis sample, or a probe while there is none, over an      *)
(* asynchronous UART, one frame buffer, and a busy flag that the UART      *)
(* interrupt clears.                                                       *)
(*                                                                         *)
(* Outside src/: the UART driver, which raises UART_TX_DONE or, within     *)
(* uart_tx_abort, UART_TX_ABORTED for every transmission it accepted, and  *)
(* may stop making progress.                                               *)
(***************************************************************************)
EXTENDS Naturals

CONSTANTS
  OscTimeout,     \* kTxTimeoutMs, in output periods
  ProbePeriod     \* kIdleProbePeriodMs, in output periods

ASSUME OscAssumption == OscTimeout \in Nat /\ ProbePeriod \in Nat \ {0}

VARIABLES
  uart,      \* idle, or sending, or hung, over the frame buffer
  txBusy,    \* tx_busy_
  txAge,     \* periods since tx_start_ms_
  probeAge,  \* periods since last_probe_ms_
  sample,    \* latest_oscilloscope_sample: none, sent (last_sequence_) or newer
  oscPc,     \* the thread
  sending    \* what this release sends: the probe, the sample

oscVars == <<uart, txBusy, txAge, probeAge, sample, oscPc, sending>>

OscInit ==
  /\ uart = "idle"
  /\ txBusy = FALSE
  /\ txAge = 0
  /\ probeAge = 0
  /\ sample = "none"
  /\ oscPc = "wait"
  /\ sending = "probe"

\* The chassis thread publishes.
PublishSample ==
  /\ sample' = "new"
  /\ UNCHANGED <<uart, txBusy, txAge, probeAge, oscPc, sending>>

UartHangs ==
  /\ uart = "sending"
  /\ uart' = "hung"
  /\ UNCHANGED <<txBusy, txAge, probeAge, sample, oscPc, sending>>

\* UartCallback: UART_TX_DONE.
UartTxDone ==
  /\ uart = "sending"
  /\ uart' = "idle"
  /\ txBusy' = FALSE
  /\ UNCHANGED <<txAge, probeAge, sample, oscPc, sending>>

-----------------------------------------------------------------------------
(* The thread.                                                               *)

OneMore(bound, n) == IF n > bound THEN n ELSE n + 1

\* SendLatestSample: a new sample, or the probe as long as there is none.
SendLatestSample ==
  /\ oscPc = "wait"
  /\ txAge' = OneMore(OscTimeout, txAge)
  /\ probeAge' = OneMore(ProbePeriod, probeAge)
  /\ oscPc' = IF sample = "new" \/ (sample = "none" /\ probeAge' >= ProbePeriod)
                THEN "claim" ELSE "wait"
  /\ sending' = IF sample = "new" THEN "sample" ELSE "probe"
  /\ UNCHANGED <<uart, txBusy, sample>>

\* TransmitFrame: the compare-and-set of the flag.
ClaimBuffer ==
  /\ oscPc = "claim"
  /\ IF txBusy THEN /\ oscPc' = IF txAge > OscTimeout THEN "abort" ELSE "wait"
                    /\ UNCHANGED txBusy
               ELSE oscPc' = "start" /\ txBusy' = TRUE
  /\ UNCHANGED <<uart, txAge, probeAge, sample, sending>>

\* Mutant: the flag is cleared whatever the abort returned.
AbortForgetting ==
  /\ oscPc = "abort"
  /\ uart' \in {uart, "idle"}
  /\ txBusy' = FALSE
  /\ oscPc' = "wait"
  /\ UNCHANGED <<txAge, probeAge, sample, sending>>

\* The transmission is given up, and reported as a timeout; there may be none
\* any more, or the driver may refuse.
AbortTransmission ==
  /\ oscPc = "abort"
  /\ \/ uart # "idle" /\ uart' = "idle" /\ txBusy' = FALSE
     \/ UNCHANGED <<uart, txBusy>>
  /\ oscPc' = "wait"
  /\ UNCHANGED <<txAge, probeAge, sample, sending>>

\* The encoding or uart_tx fails.
TransmitFails ==
  /\ oscPc = "start"
  /\ txBusy' = FALSE
  /\ oscPc' = "wait"
  /\ UNCHANGED <<uart, txAge, probeAge, sample, sending>>

\* The sample is sent: its sequence is last_sequence_ unless a newer one came.
TransmitStarts ==
  /\ oscPc = "start"
  /\ uart' = "sending"
  /\ txAge' = 0
  /\ IF sending = "probe" THEN probeAge' = 0 /\ UNCHANGED sample
                          ELSE sample' \in {"new", "sent"} /\ UNCHANGED probeAge
  /\ oscPc' = "wait"
  /\ UNCHANGED <<txBusy, sending>>

OscThread ==
  \/ SendLatestSample \/ ClaimBuffer \/ AbortTransmission \/ TransmitFails \/ TransmitStarts

OscNext == PublishSample \/ UartHangs \/ UartTxDone \/ OscThread

OscSpec == OscInit /\ [][OscNext]_oscVars

-----------------------------------------------------------------------------
(* Properties.                                                               *)

OscTypeOK ==
  /\ uart \in {"idle", "sending", "hung"}
  /\ txBusy \in BOOLEAN
  /\ txAge \in 0 .. OscTimeout + 1 /\ probeAge \in 0 .. ProbePeriod + 1
  /\ sample \in {"none", "new", "sent"}
  /\ oscPc \in {"wait", "claim", "abort", "start"}
  /\ sending \in {"probe", "sample"}

(***************************************************************************)
(* The frame buffer is rewritten only while the UART does not read it:     *)
(* across completions, timeouts and aborts that were refused, the thread   *)
(* that holds the buffer never finds a transmission going on               *)
(* (TransmitFrame).                                                        *)
(***************************************************************************)
FrameOwned == (uart # "idle" => txBusy) /\ (oscPc = "start" => uart = "idle")
=============================================================================
