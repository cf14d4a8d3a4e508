---------------------------- MODULE CanDispatch ----------------------------
(***************************************************************************)
(* The transmit half of communication/can_dispatch.cpp: one thread submits *)
(* actuator frames (the 1 kHz chassis loop), one worker thread per CAN bus *)
(* sends them, and a driver callback reports each batch from an interrupt. *)
(*                                                                         *)
(* A slot is one actuator.  Its newest frame lives in a mailbox, so a      *)
(* frame is modelled by its version: the number of writes of that mailbox. *)
(* A slot whose frame has to be sent owns one entry of its bus's queue;    *)
(* g_tx_slot_pending says so.  Each memory access the code makes without a *)
(* lock is a step of its own.                                              *)
(***************************************************************************)
EXTENDS Naturals, Sequences, FiniteSets

CONSTANTS
  Buses,       \* CAN buses with a worker (kBusCount)
  Slots,       \* actuator mailboxes (CanTxSlot)
  BusOf,       \* the bus each actuator is wired to, fixed by chassis_config.h
  QueueDepth,  \* kTxQueueDepth
  MaxBatch,    \* kMaxTxBatchFrames
  MaxWrites    \* bound of the model: submissions of one slot

SlotsOf(b) == {s \in Slots : BusOf[s] = b}

ASSUME ConstantsAssumption ==
  /\ BusOf \in [Slots -> Buses]
  /\ QueueDepth \in Nat
  /\ MaxBatch \in Nat \ {0}
  /\ MaxWrites \in Nat

\* Every queue has room for all the actuators of its bus: 16 entries, 3 actuators.
ASSUME QueueAssumption ==
  /\ IsFiniteSet(Slots)
  /\ \A b \in Buses : Cardinality(SlotsOf(b)) <= QueueDepth

VARIABLES
  mailbox,     \* version of the frame in each LatestValue mailbox
  generation,  \* g_tx_slot_generation
  pending,     \* g_tx_slot_pending
  queue,       \* g_can_tx<b>_queue
  subPc,       \* where the submitting thread is in SubmitCanStandardFrame
  subSlot,     \* the slot it submits
  pc,          \* where each worker is in CanTxLoop
  batch,       \* queued[]: the slots of the worker's batch
  idx,         \* the position in the batch the worker is at
  snapGen,     \* sent_generations[], by slot
  snapVal,     \* tx_frames[], by slot
  sendFailed,  \* send_rc # 0
  context,     \* g_tx_callback_context: the slots of the batch in flight
  inFlight,    \* the driver owes a completion callback
  done,        \* g_tx_done_sem
  handed,      \* newest version of each slot handed to the CAN controller
  failed       \* the driver's last completion of the bus was an error

subVars    == <<subPc, subSlot>>
workerVars == <<pc, batch, idx, snapGen, snapVal, sendFailed>>
driverVars == <<context, inFlight, done, handed, failed>>
vars == <<mailbox, generation, pending, queue, subVars, workerVars, driverVars>>

SubmitSteps == {"Idle", "Written", "Counted", "Owner"}
WorkerSteps == {"Get", "Collect", "ReadGeneration", "ReadMailbox", "Send", "AwaitDone",
                "Clear", "Compare", "Claim", "Requeue"}

Init ==
  /\ mailbox = [s \in Slots |-> 0]
  /\ generation = [s \in Slots |-> 0]
  /\ pending = [s \in Slots |-> FALSE]
  /\ queue = [b \in Buses |-> <<>>]
  /\ subPc = "Idle"
  /\ subSlot \in Slots
  /\ pc = [b \in Buses |-> "Get"]
  /\ batch = [b \in Buses |-> <<>>]
  /\ idx = [b \in Buses |-> 1]
  /\ snapGen = [s \in Slots |-> 0]
  /\ snapVal = [s \in Slots |-> 0]
  /\ sendFailed = [b \in Buses |-> FALSE]
  /\ context = [b \in Buses |-> <<>>]
  /\ inFlight = [b \in Buses |-> FALSE]
  /\ done = [b \in Buses |-> 0]
  /\ handed = [s \in Slots |-> 0]
  /\ failed = [b \in Buses |-> FALSE]

-----------------------------------------------------------------------------
(* SubmitCanStandardFrame, called by the chassis thread.                     *)

SubmitWrite(s) ==
  /\ subPc = "Idle"
  /\ mailbox[s] < MaxWrites
  /\ mailbox' = [mailbox EXCEPT ![s] = @ + 1]
  /\ subPc' = "Written"
  /\ subSlot' = s
  /\ UNCHANGED <<generation, pending, queue, workerVars, driverVars>>

SubmitCount ==
  /\ subPc = "Written"
  /\ generation' = [generation EXCEPT ![subSlot] = @ + 1]
  /\ subPc' = "Counted"
  /\ UNCHANGED <<mailbox, pending, queue, subSlot, workerVars, driverVars>>

\* Mutant: the flag is stored without testing it.
SubmitClaimUntested ==
  /\ subPc = "Counted"
  /\ pending' = [pending EXCEPT ![subSlot] = TRUE]
  /\ subPc' = "Owner"
  /\ UNCHANGED <<mailbox, generation, queue, subSlot, workerVars, driverVars>>

\* The compare-and-swap: a slot already pending keeps its queue entry.
SubmitClaim ==
  /\ subPc = "Counted"
  /\ pending' = [pending EXCEPT ![subSlot] = TRUE]
  /\ subPc' = IF pending[subSlot] THEN "Idle" ELSE "Owner"
  /\ UNCHANGED <<mailbox, generation, queue, subSlot, workerVars, driverVars>>

(* EnqueueLatestSlot: k_msgq_put without waiting; when the queue is full the *)
(* caller gives its claim back.                                              *)
EnqueueLatestSlot(s) ==
  LET b == BusOf[s] IN
  IF Len(queue[b]) < QueueDepth
    THEN /\ queue' = [queue EXCEPT ![b] = Append(@, s)]
         /\ UNCHANGED pending
    ELSE /\ pending' = [pending EXCEPT ![s] = FALSE]
         /\ UNCHANGED queue

SubmitEnqueue ==
  /\ subPc = "Owner"
  /\ EnqueueLatestSlot(subSlot)
  /\ subPc' = "Idle"
  /\ UNCHANGED <<mailbox, generation, subSlot, workerVars, driverVars>>

-----------------------------------------------------------------------------
(* CanTxLoop, one worker per bus.                                            *)

Current(b) == batch[b][idx[b]]

\* Move to the next frame of the batch, or leave the loop over it.
NextFrame(b, again, after) ==
  IF idx[b] < Len(batch[b])
    THEN /\ idx' = [idx EXCEPT ![b] = @ + 1]
         /\ pc' = [pc EXCEPT ![b] = again]
    ELSE /\ idx' = [idx EXCEPT ![b] = 1]
         /\ pc' = [pc EXCEPT ![b] = after]

WorkerGet(b) ==
  /\ pc[b] = "Get"
  /\ queue[b] # <<>>
  /\ batch' = [batch EXCEPT ![b] = <<Head(queue[b])>>]
  /\ queue' = [queue EXCEPT ![b] = Tail(@)]
  /\ idx' = [idx EXCEPT ![b] = 1]
  /\ pc' = [pc EXCEPT ![b] = "Collect"]
  /\ UNCHANGED <<mailbox, generation, pending, subVars, snapGen, snapVal, sendFailed, driverVars>>

WorkerGetMore(b) ==
  /\ pc[b] = "Collect"
  /\ Len(batch[b]) < MaxBatch
  /\ queue[b] # <<>>
  /\ batch' = [batch EXCEPT ![b] = Append(@, Head(queue[b]))]
  /\ queue' = [queue EXCEPT ![b] = Tail(@)]
  /\ UNCHANGED <<mailbox, generation, pending, subVars, pc, idx, snapGen, snapVal, sendFailed,
                 driverVars>>

WorkerCollected(b) ==
  /\ pc[b] = "Collect"
  /\ Len(batch[b]) = MaxBatch \/ queue[b] = <<>>
  /\ pc' = [pc EXCEPT ![b] = "ReadGeneration"]
  /\ UNCHANGED <<mailbox, generation, pending, queue, subVars, batch, idx, snapGen, snapVal,
                 sendFailed, driverVars>>

WorkerReadGeneration(b) ==
  /\ pc[b] = "ReadGeneration"
  /\ snapGen' = [snapGen EXCEPT ![Current(b)] = generation[Current(b)]]
  /\ pc' = [pc EXCEPT ![b] = "ReadMailbox"]
  /\ UNCHANGED <<mailbox, generation, pending, queue, subVars, batch, idx, snapVal, sendFailed,
                 driverVars>>

WorkerReadMailbox(b) ==
  /\ pc[b] = "ReadMailbox"
  /\ snapVal' = [snapVal EXCEPT ![Current(b)] = mailbox[Current(b)]]
  /\ NextFrame(b, "ReadGeneration", "Send")
  /\ UNCHANGED <<mailbox, generation, pending, queue, subVars, batch, snapGen, sendFailed,
                 driverVars>>

\* The first n frames of the batch reach the controller.
HandOver(b, n) ==
  handed' = [s \in Slots |-> IF \E i \in 1..n : batch[b][i] = s THEN snapVal[s] ELSE handed[s]]

WorkerSendOk(b) ==
  /\ pc[b] = "Send"
  /\ context' = [context EXCEPT ![b] = batch[b]]
  /\ HandOver(b, Len(batch[b]))
  /\ inFlight' = [inFlight EXCEPT ![b] = TRUE]
  /\ sendFailed' = [sendFailed EXCEPT ![b] = FALSE]
  /\ pc' = [pc EXCEPT ![b] = "AwaitDone"]
  /\ UNCHANGED <<mailbox, generation, pending, queue, subVars, batch, idx, snapGen, snapVal, done,
                 failed>>

\* can_send fails for one frame of the batch: the frames before it are out,
\* and no callback is registered.
WorkerSendFails(b) ==
  /\ pc[b] = "Send"
  /\ context' = [context EXCEPT ![b] = batch[b]]
  /\ \E n \in 0 .. Len(batch[b]) - 1 : HandOver(b, n)
  /\ sendFailed' = [sendFailed EXCEPT ![b] = TRUE]
  /\ pc' = [pc EXCEPT ![b] = "Clear"]
  /\ UNCHANGED <<mailbox, generation, pending, queue, subVars, batch, idx, snapGen, snapVal,
                 inFlight, done, failed>>

\* Mutant: the wait gives up before the completion.
WorkerTakeDoneOrTimeout(b) ==
  /\ pc[b] = "AwaitDone"
  /\ done' = [done EXCEPT ![b] = 0]
  /\ pc' = [pc EXCEPT ![b] = "Clear"]
  /\ UNCHANGED <<mailbox, generation, pending, queue, subVars, batch, idx, snapGen, snapVal,
                 sendFailed, context, inFlight, handed, failed>>

\* k_sem_take(K_FOREVER)
WorkerTakeDone(b) ==
  /\ pc[b] = "AwaitDone"
  /\ done[b] > 0
  /\ done' = [done EXCEPT ![b] = @ - 1]
  /\ pc' = [pc EXCEPT ![b] = "Clear"]
  /\ UNCHANGED <<mailbox, generation, pending, queue, subVars, batch, idx, snapGen, snapVal,
                 sendFailed, context, inFlight, handed, failed>>

WorkerClear(b) ==
  /\ pc[b] = "Clear"
  /\ pending' = [pending EXCEPT ![Current(b)] = FALSE]
  /\ pc' = [pc EXCEPT ![b] = "Compare"]
  /\ UNCHANGED <<mailbox, generation, queue, subVars, batch, idx, snapGen, snapVal, sendFailed,
                 driverVars>>

\* Mutants: a frame written while its batch was in flight, or one whose send
\* failed, is not sent again.
SendAgainOnFailure(b) == sendFailed[b]
SendAgainOnChange(b) == generation[Current(b)] # snapGen[Current(b)]

\* The frame of the batch has to be sent again from the newest mailbox value.
SendAgain(b) == sendFailed[b] \/ generation[Current(b)] # snapGen[Current(b)]

WorkerCompare(b) ==
  /\ pc[b] = "Compare"
  /\ IF SendAgain(b)
       THEN /\ pc' = [pc EXCEPT ![b] = "Claim"]
            /\ UNCHANGED idx
       ELSE NextFrame(b, "Clear", "Get")
  /\ UNCHANGED <<mailbox, generation, pending, queue, subVars, batch, snapGen, snapVal, sendFailed,
                 driverVars>>

\* Mutant: the worker takes the slot back although a submitter has claimed it.
WorkerClaimUntested(b) ==
  /\ pc[b] = "Claim"
  /\ pending' = [pending EXCEPT ![Current(b)] = TRUE]
  /\ pc' = [pc EXCEPT ![b] = "Requeue"]
  /\ UNCHANGED <<mailbox, generation, queue, subVars, batch, idx, snapGen, snapVal, sendFailed,
                 driverVars>>

WorkerClaim(b) ==
  /\ pc[b] = "Claim"
  /\ pending' = [pending EXCEPT ![Current(b)] = TRUE]
  /\ IF pending[Current(b)]
       THEN NextFrame(b, "Clear", "Get")
       ELSE /\ pc' = [pc EXCEPT ![b] = "Requeue"]
            /\ UNCHANGED idx
  /\ UNCHANGED <<mailbox, generation, queue, subVars, batch, snapGen, snapVal, sendFailed,
                 driverVars>>

WorkerRequeue(b) ==
  /\ pc[b] = "Requeue"
  /\ EnqueueLatestSlot(Current(b))
  /\ NextFrame(b, "Clear", "Get")
  /\ UNCHANGED <<mailbox, generation, subVars, batch, snapGen, snapVal, sendFailed, driverVars>>

-----------------------------------------------------------------------------
(* OnTxDone, the driver's completion interrupt.                              *)

\* Mutant: the callback is attached to every frame of the batch.
OnTxDonePerFrame(b) ==
  /\ inFlight[b]
  /\ inFlight' = [inFlight EXCEPT ![b] = FALSE]
  /\ done' = [done EXCEPT ![b] = @ + Len(context[b])]
  /\ UNCHANGED <<mailbox, generation, pending, queue, subVars, workerVars, context, handed, failed>>

OnTxDone(b) ==
  /\ inFlight[b]
  /\ inFlight' = [inFlight EXCEPT ![b] = FALSE]
  /\ done' = [done EXCEPT ![b] = 1]
  /\ \E error \in BOOLEAN : failed' = [failed EXCEPT ![b] = error]
  /\ UNCHANGED <<mailbox, generation, pending, queue, subVars, workerVars, context, handed>>

-----------------------------------------------------------------------------
Submit ==
  \/ \E s \in Slots : SubmitWrite(s)
  \/ SubmitCount
  \/ SubmitClaim
  \/ SubmitEnqueue

Worker(b) ==
  \/ WorkerGet(b)
  \/ WorkerGetMore(b)
  \/ WorkerCollected(b)
  \/ WorkerReadGeneration(b)
  \/ WorkerReadMailbox(b)
  \/ WorkerSendOk(b)
  \/ WorkerSendFails(b)
  \/ WorkerTakeDone(b)
  \/ WorkerClear(b)
  \/ WorkerCompare(b)
  \/ WorkerClaim(b)
  \/ WorkerRequeue(b)

Next ==
  \/ Submit
  \/ \E b \in Buses : Worker(b) \/ OnTxDone(b)

Spec == Init /\ [][Next]_vars

(***************************************************************************)
(* The worker threads and a started submission run on, the controller ends *)
(* every batch it accepted, and a send that keeps being tried is accepted  *)
(* in the end.  Nothing makes the chassis thread submit again.             *)
(***************************************************************************)
FairSpec ==
  /\ Spec
  /\ WF_vars(SubmitCount \/ SubmitClaim \/ SubmitEnqueue)
  /\ \A b \in Buses :
       /\ WF_vars(Worker(b))
       /\ SF_vars(WorkerSendOk(b))
       /\ WF_vars(OnTxDone(b))

-----------------------------------------------------------------------------
TypeOK ==
  /\ mailbox \in [Slots -> Nat]
  /\ generation \in [Slots -> Nat]
  /\ pending \in [Slots -> BOOLEAN]
  /\ queue \in [Buses -> Seq(Slots)]
  /\ subPc \in SubmitSteps
  /\ subSlot \in Slots
  /\ pc \in [Buses -> WorkerSteps]
  /\ batch \in [Buses -> Seq(Slots)]
  /\ idx \in [Buses -> Nat]
  /\ snapGen \in [Slots -> Nat]
  /\ snapVal \in [Slots -> Nat]
  /\ sendFailed \in [Buses -> BOOLEAN]
  /\ context \in [Buses -> Seq(Slots)]
  /\ inFlight \in [Buses -> BOOLEAN]
  /\ done \in [Buses -> {0, 1}]
  /\ handed \in [Slots -> Nat]
  /\ failed \in [Buses -> BOOLEAN]

(***************************************************************************)
(* Who is responsible for sending a slot: an entry of its bus's queue, the *)
(* part of the worker's batch not released yet, or the submitter between   *)
(* its compare-and-swap and its k_msgq_put.                                *)
(***************************************************************************)
Occurs(x, seq) == \E i \in 1 .. Len(seq) : seq[i] = x

Queued(s) == Occurs(s, queue[BusOf[s]])

Unreleased(b) ==
  {i \in 1 .. Len(batch[b]) :
     /\ pc[b] # "Get"
     /\ pc[b] \in {"Clear", "Requeue"} => i >= idx[b]
     /\ pc[b] \in {"Compare", "Claim"} => i > idx[b]}

Batched(s) == \E i \in Unreleased(BusOf[s]) : batch[BusOf[s]][i] = s

Claimed(s) == subPc = "Owner" /\ subSlot = s

NoRepetition(seq) == \A i, j \in 1 .. Len(seq) : seq[i] = seq[j] => i = j

(***************************************************************************)
(* The pending flag of a slot is set exactly while one place, and only     *)
(* one, is responsible for sending it.  Two would send a slot twice and    *)
(* overrun the queue; a flag without an owner would silence the actuator   *)
(* for ever, since every later submission is coalesced into nothing.       *)
(***************************************************************************)
OneOwner ==
  /\ \A s \in Slots :
       /\ pending[s] <=> Queued(s) \/ Batched(s) \/ Claimed(s)
       /\ ~(Queued(s) /\ Batched(s))
       /\ ~(Claimed(s) /\ (Queued(s) \/ Batched(s)))
  /\ \A b \in Buses : NoRepetition(queue[b]) /\ NoRepetition(batch[b])

(***************************************************************************)
(* k_msgq_put never finds the queue full, neither for the submitter nor    *)
(* for the worker that appends a slot again, so no claim is given back:    *)
(* "the latest-value mailbox bounds each active bus".                      *)
(***************************************************************************)
EnqueueNeverFails ==
  /\ subPc = "Owner" => Len(queue[BusOf[subSlot]]) < QueueDepth
  /\ \A b \in Buses : pc[b] = "Requeue" => Len(queue[b]) < QueueDepth

\* Nobody is about to mark slot s pending.
Quiet(s) ==
  /\ ~pending[s]
  /\ ~(subPc # "Idle" /\ subSlot = s)
  /\ ~(pc[BusOf[s]] \in {"Compare", "Claim"} /\ Current(BusOf[s]) = s)

(***************************************************************************)
(* A slot nobody is responsible for has had its newest frame handed to the *)
(* controller: no submission is lost between the worker's two reads and    *)
(* its release of the slot, whatever the interleaving.                     *)
(***************************************************************************)
NoLostUpdate == \A s \in Slots : Quiet(s) => handed[s] = mailbox[s]

(***************************************************************************)
(* The driver holds a pointer to the bus's callback context while a batch  *)
(* is in flight: the worker does not touch it until then, and the          *)
(* completion it waits for is the one of this batch, never a left-over     *)
(* token of g_tx_done_sem.                                                 *)
(***************************************************************************)
OneBatchInFlight ==
  \A b \in Buses :
    /\ inFlight[b] => pc[b] = "AwaitDone" /\ done[b] = 0 /\ context[b] = batch[b]
    /\ pc[b] = "Send" => done[b] = 0
    /\ pc[b] = "AwaitDone" => inFlight[b] \/ done[b] = 1

(***************************************************************************)
(* The actuators see a conflating channel: they may miss frames, but never *)
(* go back to an older one, and the newest one reaches them in the end.    *)
(***************************************************************************)
Channel == INSTANCE LatestChannel WITH Keys <- Slots, written <- mailbox, sent <- handed

ImplementsChannel == Channel!FairSpec

(***************************************************************************)
(* "A failed batch is also retried from the newest mailbox value": when    *)
(* the driver's last word on a bus is an error, each frame of that batch   *)
(* is to be sent again.                                                    *)
(***************************************************************************)
FailedBatchRetried ==
  \A b \in Buses : \A i \in 1 .. Len(context[b]) :
    failed[b] /\ pc[b] # "AwaitDone" => ~Quiet(context[b][i])
=============================================================================
