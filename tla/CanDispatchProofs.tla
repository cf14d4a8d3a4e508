------------------------- MODULE CanDispatchProofs -------------------------
(***************************************************************************)
(* Proofs about CanDispatch, for any number of buses, actuators, batch     *)
(* size and submissions: its types, who owns a slot, and that it delivers: *)
(* no submission is lost between the reads of the worker and its release   *)
(* of the slot, and the actuators see a conflating channel.                *)
(***************************************************************************)
EXTENDS CanDispatch, FiniteSetTheorems, TLAPS

-----------------------------------------------------------------------------
(* Type correctness.  The worker's position stays inside its batch, which    *)
(* the type of the slot it appends to the queue rests on.                    *)

IndexOK ==
  \A b \in Buses :
    /\ pc[b] # "Get" => idx[b] \in 1 .. Len(batch[b])
    /\ pc[b] \in {"Collect", "Send", "AwaitDone"} => idx[b] = 1

LEMMA CurrentType ==
  ASSUME TypeOK, IndexOK, NEW b \in Buses, pc[b] # "Get"
  PROVE  Current(b) \in Slots
BY DEF TypeOK, IndexOK, Current

LEMMA NextFrameType ==
  ASSUME NEW b \in Buses, NEW again \in WorkerSteps, NEW after \in WorkerSteps,
         pc \in [Buses -> WorkerSteps], idx \in [Buses -> Nat],
         NextFrame(b, again, after)
  PROVE  pc' \in [Buses -> WorkerSteps] /\ idx' \in [Buses -> Nat]
<1>1. pc' \in [Buses -> WorkerSteps]
  BY DEF NextFrame
<1>2. idx' \in [Buses -> Nat]
  BY DEF NextFrame
<1> QED
  BY <1>1, <1>2

LEMMA EnqueueType ==
  ASSUME NEW s \in Slots, queue \in [Buses -> Seq(Slots)], pending \in [Slots -> BOOLEAN],
         EnqueueLatestSlot(s)
  PROVE  queue' \in [Buses -> Seq(Slots)] /\ pending' \in [Slots -> BOOLEAN]
<1>1. BusOf[s] \in Buses
  BY ConstantsAssumption DEF ConstantsAssumption
<1>2. Append(queue[BusOf[s]], s) \in Seq(Slots)
  BY <1>1
<1> QED
  BY <1>1, <1>2 DEF EnqueueLatestSlot

\* What the worker takes off its queue.
LEMMA DequeueType ==
  ASSUME NEW b \in Buses, queue \in [Buses -> Seq(Slots)], batch \in [Buses -> Seq(Slots)],
         queue[b] # <<>>
  PROVE  /\ Head(queue[b]) \in Slots
         /\ Tail(queue[b]) \in Seq(Slots)
         /\ <<Head(queue[b])>> \in Seq(Slots)
         /\ Append(batch[b], Head(queue[b])) \in Seq(Slots)
<1>1. queue[b] \in Seq(Slots) /\ batch[b] \in Seq(Slots)
  OBVIOUS
<1>2. Head(queue[b]) \in Slots /\ Tail(queue[b]) \in Seq(Slots)
  BY <1>1
<1> QED
  BY <1>1, <1>2

LEMMA SubmitType == ASSUME TypeOK, Submit PROVE TypeOK'
<1> USE DEF TypeOK, SubmitSteps, workerVars, driverVars
<1>1. ASSUME NEW s \in Slots, SubmitWrite(s)
      PROVE  TypeOK'
  <2>1. mailbox' \in [Slots -> Nat]
    BY <1>1 DEF SubmitWrite
  <2> QED
    BY <1>1, <2>1 DEF SubmitWrite
<1>2. CASE SubmitCount
  BY <1>2 DEF SubmitCount
<1>3. CASE SubmitClaim
  BY <1>3 DEF SubmitClaim
<1>4. CASE SubmitEnqueue
  <2>1. queue' \in [Buses -> Seq(Slots)] /\ pending' \in [Slots -> BOOLEAN]
    BY <1>4, EnqueueType DEF SubmitEnqueue
  <2> QED
    BY <1>4, <2>1 DEF SubmitEnqueue
<1> QED
  BY <1>1, <1>2, <1>3, <1>4 DEF Submit

LEMMA HandOverType ==
  ASSUME TypeOK, NEW b \in Buses, NEW n, HandOver(b, n)
  PROVE  handed' \in [Slots -> Nat]
<1>1. handed \in [Slots -> Nat] /\ snapVal \in [Slots -> Nat]
  BY DEF TypeOK
<1> QED
  BY <1>1 DEF HandOver

LEMMA WorkerType == ASSUME TypeOK, IndexOK, NEW b \in Buses, Worker(b) PROVE TypeOK'
<1> USE DEF TypeOK, subVars, driverVars
<1>0. {"Get", "Collect", "ReadGeneration", "ReadMailbox", "Send", "AwaitDone",
       "Clear", "Compare", "Claim", "Requeue"} \subseteq WorkerSteps
  BY DEF WorkerSteps
<1>1. CASE WorkerGet(b)
  <2>1. /\ Tail(queue[b]) \in Seq(Slots)
        /\ <<Head(queue[b])>> \in Seq(Slots)
    BY <1>1, DequeueType DEF WorkerGet
  <2>2. batch' \in [Buses -> Seq(Slots)] /\ queue' \in [Buses -> Seq(Slots)]
    BY <1>1, <2>1 DEF WorkerGet
  <2>3. idx' \in [Buses -> Nat] /\ pc' \in [Buses -> WorkerSteps]
    BY <1>0, <1>1 DEF WorkerGet
  <2> QED
    BY <1>1, <2>2, <2>3 DEF WorkerGet
<1>2. CASE WorkerGetMore(b)
  BY <1>2, DequeueType DEF WorkerGetMore
<1>3. CASE WorkerCollected(b)
  BY <1>0, <1>3 DEF WorkerCollected
<1>4. CASE WorkerReadGeneration(b)
  <2>1. snapGen' \in [Slots -> Nat] /\ pc' \in [Buses -> WorkerSteps]
    BY <1>0, <1>4 DEF WorkerReadGeneration
  <2> QED
    BY <1>4, <2>1 DEF WorkerReadGeneration
<1>5. CASE WorkerReadMailbox(b)
  <2>1. pc' \in [Buses -> WorkerSteps] /\ idx' \in [Buses -> Nat]
    BY <1>0, <1>5, NextFrameType DEF WorkerReadMailbox
  <2> QED
    BY <1>5, <2>1 DEF WorkerReadMailbox
<1>6. CASE WorkerSendOk(b)
  <2>1. handed' \in [Slots -> Nat]
    BY <1>6, HandOverType DEF WorkerSendOk
  <2>2. context' \in [Buses -> Seq(Slots)] /\ sendFailed' \in [Buses -> BOOLEAN]
    BY <1>6 DEF WorkerSendOk
  <2>3. inFlight' \in [Buses -> BOOLEAN] /\ pc' \in [Buses -> WorkerSteps]
    BY <1>0, <1>6 DEF WorkerSendOk
  <2> QED
    BY <1>6, <2>1, <2>2, <2>3 DEF WorkerSendOk
<1>7. CASE WorkerSendFails(b)
  <2>1. handed' \in [Slots -> Nat]
    BY <1>7, HandOverType DEF WorkerSendFails
  <2>2. context' \in [Buses -> Seq(Slots)] /\ sendFailed' \in [Buses -> BOOLEAN]
    BY <1>7 DEF WorkerSendFails
  <2>3. inFlight' \in [Buses -> BOOLEAN] /\ pc' \in [Buses -> WorkerSteps]
    BY <1>0, <1>7 DEF WorkerSendFails
  <2> QED
    BY <1>7, <2>1, <2>2, <2>3 DEF WorkerSendFails
<1>8. CASE WorkerTakeDone(b)
  <2>1. done' \in [Buses -> {0, 1}] /\ pc' \in [Buses -> WorkerSteps]
    BY <1>0, <1>8 DEF WorkerTakeDone
  <2> QED
    BY <1>8, <2>1 DEF WorkerTakeDone
<1>9. CASE WorkerClear(b)
  <2>1. pending' \in [Slots -> BOOLEAN] /\ pc' \in [Buses -> WorkerSteps]
    BY <1>0, <1>9 DEF WorkerClear
  <2> QED
    BY <1>9, <2>1 DEF WorkerClear
<1>10. CASE WorkerCompare(b)
  <2>1. pc' \in [Buses -> WorkerSteps] /\ idx' \in [Buses -> Nat]
    <3>1. CASE SendAgain(b)
      BY <1>0, <1>10, <3>1 DEF WorkerCompare
    <3>2. CASE ~SendAgain(b)
      BY <1>0, <1>10, <3>2, NextFrameType DEF WorkerCompare
    <3> QED
      BY <3>1, <3>2
  <2> QED
    BY <1>10, <2>1 DEF WorkerCompare
<1>11. CASE WorkerClaim(b)
  <2>1. pc' \in [Buses -> WorkerSteps] /\ idx' \in [Buses -> Nat]
    <3>1. CASE pending[Current(b)]
      BY <1>0, <1>11, <3>1, NextFrameType DEF WorkerClaim
    <3>2. CASE ~pending[Current(b)]
      BY <1>0, <1>11, <3>2 DEF WorkerClaim
    <3> QED
      BY <3>1, <3>2
  <2> QED
    BY <1>11, <2>1 DEF WorkerClaim
<1>12. CASE WorkerRequeue(b)
  <2>1. pc' \in [Buses -> WorkerSteps] /\ idx' \in [Buses -> Nat]
    BY <1>0, <1>12, NextFrameType DEF WorkerRequeue
  <2>2. queue' \in [Buses -> Seq(Slots)] /\ pending' \in [Slots -> BOOLEAN]
    BY <1>12, CurrentType, EnqueueType DEF WorkerRequeue
  <2> QED
    BY <1>12, <2>1, <2>2 DEF WorkerRequeue
<1> QED
  BY <1>1, <1>2, <1>3, <1>4, <1>5, <1>6, <1>7, <1>8, <1>9, <1>10, <1>11, <1>12 DEF Worker

LEMMA IndexInit == Init => IndexOK
BY DEF Init, IndexOK

LEMMA NextFrameIndex ==
  ASSUME TypeOK, IndexOK, NEW b \in Buses, NEW after, pc[b] # "Get",
         NEW again, again \notin {"Collect", "Send", "AwaitDone"},
         NextFrame(b, again, after), batch' = batch
  PROVE  /\ IndexOK'
         /\ \A c \in Buses \ {b} : pc'[c] = pc[c] /\ idx'[c] = idx[c]
<1>1. \A c \in Buses \ {b} : pc'[c] = pc[c] /\ idx'[c] = idx[c]
  BY DEF NextFrame, TypeOK
<1>2. idx[b] \in 1 .. Len(batch[b]) /\ Len(batch[b]) \in Nat
  BY DEF IndexOK, TypeOK
<1>3. idx'[b] \in 1 .. Len(batch[b])
  <2>1. CASE idx[b] < Len(batch[b])
    <3>1. idx'[b] = idx[b] + 1
      BY <2>1 DEF NextFrame, TypeOK
    <3> QED
      BY <1>2, <2>1, <3>1
  <2>2. CASE ~(idx[b] < Len(batch[b]))
    <3>1. idx'[b] = 1
      BY <2>2 DEF NextFrame, TypeOK
    <3> QED
      BY <1>2, <3>1
  <2> QED
    BY <2>1, <2>2
<1>4. pc'[b] \in {"Collect", "Send", "AwaitDone"} => idx'[b] = 1
  BY DEF NextFrame, TypeOK
<1>5. ASSUME NEW c \in Buses
      PROVE  /\ pc'[c] # "Get" => idx'[c] \in 1 .. Len(batch'[c])
             /\ pc'[c] \in {"Collect", "Send", "AwaitDone"} => idx'[c] = 1
  <2>1. CASE c = b
    BY <1>3, <1>4, <2>1
  <2>2. CASE c # b
    BY <1>1, <2>2 DEF IndexOK
  <2> QED
    BY <2>1, <2>2
<1> QED
  BY <1>1, <1>5 DEF IndexOK

LEMMA IndexStep == ASSUME TypeOK, IndexOK, [Next]_vars PROVE IndexOK'
<1> USE DEF IndexOK
<1>1. CASE Submit
  BY <1>1 DEF Submit, SubmitWrite, SubmitCount, SubmitClaim, SubmitEnqueue, workerVars
<1>2. ASSUME NEW b \in Buses, Worker(b)
      PROVE  IndexOK'
  <2>1. CASE WorkerGet(b)
    BY <2>1 DEF WorkerGet, TypeOK
  <2>2. CASE WorkerGetMore(b)
    <3>1. batch[b] \in Seq(Slots) /\ idx[b] \in 1 .. Len(batch[b])
      BY <2>2 DEF WorkerGetMore, TypeOK
    <3>2. Len(Append(batch[b], Head(queue[b]))) = Len(batch[b]) + 1
      BY <3>1
    <3>3. idx[b] \in 1 .. Len(batch'[b])
      BY <2>2, <3>1, <3>2 DEF WorkerGetMore, TypeOK
    <3> QED
      BY <2>2, <3>3 DEF WorkerGetMore, TypeOK
  <2>3. CASE \/ WorkerCollected(b) \/ WorkerReadGeneration(b) \/ WorkerSendOk(b)
             \/ WorkerSendFails(b) \/ WorkerTakeDone(b) \/ WorkerClear(b)
    BY <2>3 DEF WorkerCollected, WorkerReadGeneration, WorkerSendOk, WorkerSendFails,
                WorkerTakeDone, WorkerClear, TypeOK
  <2>4. CASE WorkerReadMailbox(b)
    BY <2>4, NextFrameIndex DEF WorkerReadMailbox
  <2>5. CASE WorkerCompare(b)
    <3>1. CASE SendAgain(b)
      BY <2>5, <3>1 DEF WorkerCompare, TypeOK
    <3>2. CASE ~SendAgain(b)
      BY <2>5, <3>2, NextFrameIndex DEF WorkerCompare
    <3> QED
      BY <3>1, <3>2
  <2>6. CASE WorkerClaim(b)
    <3>1. CASE pending[Current(b)]
      BY <2>6, <3>1, NextFrameIndex DEF WorkerClaim
    <3>2. CASE ~pending[Current(b)]
      BY <2>6, <3>2 DEF WorkerClaim, TypeOK
    <3> QED
      BY <3>1, <3>2
  <2>7. CASE WorkerRequeue(b)
    BY <2>7, NextFrameIndex DEF WorkerRequeue
  <2> QED
    BY <1>2, <2>1, <2>2, <2>3, <2>4, <2>5, <2>6, <2>7 DEF Worker
<1>3. ASSUME NEW b \in Buses, OnTxDone(b)
      PROVE  IndexOK'
  BY <1>3 DEF OnTxDone, workerVars
<1>4. CASE UNCHANGED vars
  BY <1>4 DEF vars, workerVars
<1> QED
  BY <1>1, <1>2, <1>3, <1>4 DEF Next

LEMMA TypeInit == Init => TypeOK /\ IndexOK
BY IndexInit DEF Init, TypeOK, SubmitSteps, WorkerSteps

LEMMA TypeStep == ASSUME TypeOK, IndexOK, [Next]_vars PROVE TypeOK' /\ IndexOK'
<1>0. IndexOK'
  BY IndexStep
<1>1. CASE Submit
  BY <1>0, <1>1, SubmitType
<1>2. ASSUME NEW b \in Buses, Worker(b)
      PROVE  TypeOK'
  BY <1>2, WorkerType
<1>3. ASSUME NEW b \in Buses, OnTxDone(b)
      PROVE  TypeOK'
  BY <1>3 DEF OnTxDone, TypeOK, subVars, workerVars
<1>4. CASE UNCHANGED vars
  BY <1>0, <1>4 DEF vars, TypeOK, subVars, workerVars, driverVars
<1> QED
  BY <1>0, <1>1, <1>2, <1>3, <1>4 DEF Next

(***************************************************************************)
(* The variables keep their types, and no worker looks past its batch.     *)
(***************************************************************************)
THEOREM TypeCorrect == Spec => [](TypeOK /\ IndexOK)
<1>1. TypeOK /\ IndexOK /\ [Next]_vars => (TypeOK /\ IndexOK)'
  BY TypeStep
<1> QED
  BY TypeInit, <1>1, PTL DEF Spec

-----------------------------------------------------------------------------
(* Sequences without repetition.                                             *)

LEMMA AppendMember ==
  ASSUME NEW S, NEW seq \in Seq(S), NEW e \in S
  PROVE  /\ \A x : Occurs(x, Append(seq, e)) <=> Occurs(x, seq) \/ x = e
         /\ NoRepetition(seq) /\ ~Occurs(e, seq) => NoRepetition(Append(seq, e))
<1>1. /\ Len(Append(seq, e)) = Len(seq) + 1
      /\ Len(seq) \in Nat
      /\ Append(seq, e)[Len(seq) + 1] = e
      /\ \A i \in 1 .. Len(seq) : Append(seq, e)[i] = seq[i]
  OBVIOUS
<1>2. \A i : i \in 1 .. Len(seq) + 1 <=> i \in 1 .. Len(seq) \/ i = Len(seq) + 1
  BY <1>1
<1>3. \A x : Occurs(x, Append(seq, e)) <=> Occurs(x, seq) \/ x = e
  BY <1>1, <1>2 DEF Occurs
<1>4. NoRepetition(seq) /\ ~Occurs(e, seq) => NoRepetition(Append(seq, e))
  BY <1>1, <1>2 DEF Occurs, NoRepetition
<1> QED
  BY <1>3, <1>4

LEMMA TailMember ==
  ASSUME NEW S, NEW seq \in Seq(S), seq # <<>>, NoRepetition(seq)
  PROVE  /\ \A x : Occurs(x, Tail(seq)) <=> Occurs(x, seq) /\ x # Head(seq)
         /\ NoRepetition(Tail(seq))
         /\ Occurs(Head(seq), seq)
<1>1. /\ Len(seq) \in Nat \ {0}
      /\ Len(Tail(seq)) = Len(seq) - 1
      /\ Head(seq) = seq[1]
      /\ \A i \in 1 .. Len(Tail(seq)) : Tail(seq)[i] = seq[i + 1]
  OBVIOUS
<1>2. NoRepetition(Tail(seq))
  BY <1>1 DEF NoRepetition
<1>3. ASSUME NEW x
      PROVE  Occurs(x, Tail(seq)) <=> Occurs(x, seq) /\ x # Head(seq)
  <2>1. ASSUME NEW i \in 1 .. Len(Tail(seq)), Tail(seq)[i] = x
        PROVE  Occurs(x, seq) /\ x # Head(seq)
    <3>1. i + 1 \in 1 .. Len(seq) /\ 1 \in 1 .. Len(seq) /\ i + 1 # 1
      BY <1>1
    <3>2. seq[i + 1] = x
      BY <1>1, <2>1
    <3> QED
      BY <1>1, <3>1, <3>2 DEF Occurs, NoRepetition
  <2>2. ASSUME NEW i \in 1 .. Len(seq), seq[i] = x, x # Head(seq)
        PROVE  Occurs(x, Tail(seq))
    <3>1. i - 1 \in 1 .. Len(Tail(seq)) /\ (i - 1) + 1 = i
      BY <1>1, <2>2
    <3>2. Tail(seq)[i - 1] = x
      BY <1>1, <2>2, <3>1
    <3> QED
      BY <3>1, <3>2 DEF Occurs
  <2> QED
    BY <2>1, <2>2 DEF Occurs
<1>4. Occurs(Head(seq), seq)
  BY <1>1 DEF Occurs
<1> QED
  BY <1>2, <1>3, <1>4
-----------------------------------------------------------------------------
(* Ownership of a slot.                                                      *)

\* An actuator is only ever queued for, and sent by, the worker of its bus.
Routed ==
  \A b \in Buses :
    /\ \A s \in Slots : Occurs(s, queue[b]) => BusOf[s] = b
    /\ \A s \in Slots : Occurs(s, batch[b]) => BusOf[s] = b

OwnerInv == TypeOK /\ IndexOK /\ Routed /\ OneOwner

LEMMA BusOfType == \A s \in Slots : BusOf[s] \in Buses
BY ConstantsAssumption DEF ConstantsAssumption

LEMMA OwnerInit == Init => OwnerInv
<1> SUFFICES ASSUME Init
             PROVE  OwnerInv
  OBVIOUS
<1>1. TypeOK /\ IndexOK
  BY IndexInit DEF Init, TypeOK, SubmitSteps, WorkerSteps
<1>2. \A b \in Buses : queue[b] = <<>> /\ batch[b] = <<>> /\ pc[b] = "Get"
  BY DEF Init
<1>3. \A s : ~Occurs(s, <<>>)
  BY DEF Occurs
<1>4. \A s \in Slots : ~Queued(s) /\ ~Batched(s) /\ ~Claimed(s) /\ ~pending[s]
  BY <1>2, <1>3, BusOfType DEF Init, Queued, Batched, Unreleased, Claimed
<1>5. \A b \in Buses : NoRepetition(queue[b]) /\ NoRepetition(batch[b])
  BY <1>2 DEF NoRepetition
<1> QED
  BY <1>1, <1>2, <1>3, <1>4, <1>5 DEF OwnerInv, Routed, OneOwner

\* A step that leaves queues, batches and flags alone, and every slot with
\* the owner it had.
LEMMA SameOwners ==
  ASSUME OwnerInv, UNCHANGED <<pending, queue, batch>>, (TypeOK /\ IndexOK)',
         \A s \in Slots : Claimed(s)' <=> Claimed(s),
         \A b \in Buses : Unreleased(b)' = Unreleased(b)
  PROVE  OwnerInv'
<1>1. \A s \in Slots : Queued(s)' <=> Queued(s)
  BY DEF Queued
<1>2. \A s \in Slots : Batched(s)' <=> Batched(s)
  BY BusOfType DEF Batched
<1>3. OneOwner'
  BY <1>1, <1>2 DEF OwnerInv, OneOwner
<1>4. Routed'
  BY DEF OwnerInv, Routed
<1> QED
  BY <1>3, <1>4 DEF OwnerInv

LEMMA SubmitOwner == ASSUME OwnerInv, Submit, (TypeOK /\ IndexOK)' PROVE OwnerInv'
<1>1. batch' = batch /\ \A b \in Buses : Unreleased(b)' = Unreleased(b)
  BY DEF Submit, SubmitWrite, SubmitCount, SubmitClaim, SubmitEnqueue, workerVars, Unreleased
<1>2. \A s \in Slots : Batched(s)' <=> Batched(s)
  BY <1>1, BusOfType DEF Batched
<1>3. subSlot \in Slots /\ pending \in [Slots -> BOOLEAN] /\ queue \in [Buses -> Seq(Slots)]
  BY DEF OwnerInv, TypeOK
<1>4. CASE (\E s \in Slots : SubmitWrite(s)) \/ SubmitCount
  <2>1. \A s \in Slots : Claimed(s)' <=> Claimed(s)
    BY <1>4 DEF SubmitWrite, SubmitCount, Claimed
  <2>2. UNCHANGED <<pending, queue>>
    BY <1>4 DEF SubmitWrite, SubmitCount
  <2> QED
    BY <1>1, <2>1, <2>2, SameOwners
<1>5. CASE SubmitClaim
  <2>1. \A s \in Slots : Queued(s)' <=> Queued(s)
    BY <1>5 DEF SubmitClaim, Queued
  <2>2. CASE pending[subSlot]
    <3>1. \A s \in Slots : Claimed(s)' <=> Claimed(s)
      BY <1>5, <2>2 DEF SubmitClaim, Claimed
    <3>2. pending' = pending /\ queue' = queue
      BY <1>3, <1>5, <2>2 DEF SubmitClaim
    <3> QED
      BY <1>1, <3>1, <3>2, SameOwners
  <2>3. CASE ~pending[subSlot]
    <3>1. /\ pending'[subSlot]
          /\ \A s \in Slots : s # subSlot => pending'[s] = pending[s]
          /\ queue' = queue
      BY <1>3, <1>5 DEF SubmitClaim
    <3>2. \A s \in Slots : ~Claimed(s) /\ (Claimed(s)' <=> s = subSlot)
      BY <1>5, <2>3 DEF SubmitClaim, Claimed
    <3>3. OneOwner'
      BY <1>1, <1>2, <1>3, <2>1, <2>3, <3>1, <3>2 DEF OwnerInv, OneOwner
    <3>4. Routed'
      BY <1>1, <3>1 DEF OwnerInv, Routed
    <3> QED
      BY <3>3, <3>4 DEF OwnerInv
  <2> QED
    BY <2>2, <2>3
<1>6. CASE SubmitEnqueue
  <2> DEFINE b == BusOf[subSlot]
  <2>1. b \in Buses /\ queue[b] \in Seq(Slots)
    BY <1>3, BusOfType
  <2>2. \A s \in Slots : ~Claimed(s)' /\ (Claimed(s) <=> s = subSlot)
    BY <1>6 DEF SubmitEnqueue, Claimed
  <2>3. /\ pending[subSlot] /\ ~Queued(subSlot) /\ ~Batched(subSlot)
        /\ ~Occurs(subSlot, queue[b])
    BY <1>3, <2>2 DEF OwnerInv, OneOwner, Queued
  <2>4. CASE Len(queue[b]) < QueueDepth
    <3>1. /\ queue'[b] = Append(queue[b], subSlot)
          /\ \A c \in Buses : c # b => queue'[c] = queue[c]
          /\ pending' = pending
      BY <1>3, <1>6, <2>1, <2>4 DEF SubmitEnqueue, EnqueueLatestSlot
    <3>2. /\ \A x : Occurs(x, queue'[b]) <=> Occurs(x, queue[b]) \/ x = subSlot
          /\ NoRepetition(queue'[b])
      BY <1>3, <2>1, <2>3, <3>1, AppendMember DEF OwnerInv, OneOwner
    <3>3. \A s \in Slots : Queued(s)' <=> Queued(s) \/ s = subSlot
      BY <3>1, <3>2, BusOfType DEF Queued
    <3>4. OneOwner'
      BY <1>1, <1>2, <2>2, <2>3, <3>1, <3>2, <3>3 DEF OwnerInv, OneOwner
    <3>5. Routed'
      BY <1>1, <3>1, <3>2 DEF OwnerInv, Routed
    <3> QED
      BY <3>4, <3>5 DEF OwnerInv
  <2>5. CASE ~(Len(queue[b]) < QueueDepth)
    <3>1. /\ ~pending'[subSlot]
          /\ \A s \in Slots : s # subSlot => pending'[s] = pending[s]
          /\ queue' = queue
      BY <1>3, <1>6, <2>5 DEF SubmitEnqueue, EnqueueLatestSlot
    <3>2. \A s \in Slots : Queued(s)' <=> Queued(s)
      BY <3>1 DEF Queued
    <3>3. OneOwner'
      BY <1>1, <1>2, <2>2, <2>3, <3>1, <3>2 DEF OwnerInv, OneOwner
    <3>4. Routed'
      BY <1>1, <3>1 DEF OwnerInv, Routed
    <3> QED
      BY <3>3, <3>4 DEF OwnerInv
  <2> QED
    BY <2>4, <2>5
<1> QED
  BY <1>4, <1>5, <1>6 DEF Submit
LEMMA CurrentSlot ==
  ASSUME OwnerInv, NEW b \in Buses, pc[b] # "Get"
  PROVE  /\ Current(b) \in Slots
         /\ BusOf[Current(b)] = b
         /\ idx[b] \in 1 .. Len(batch[b])
         /\ batch[b][idx[b]] = Current(b)
         /\ Len(batch[b]) \in Nat
<1>1. idx[b] \in 1 .. Len(batch[b]) /\ batch[b] \in Seq(Slots)
  BY DEF OwnerInv, IndexOK, TypeOK
<1>2. Current(b) \in Slots /\ Occurs(Current(b), batch[b])
  BY <1>1 DEF Current, Occurs
<1> QED
  BY <1>1, <1>2 DEF OwnerInv, Routed, Current

\* The other buses' workers see nothing of a step of worker b.
LEMMA OtherBuses ==
  ASSUME OwnerInv, NEW b \in Buses, Worker(b)
  PROVE  \A c \in Buses : c # b => /\ queue'[c] = queue[c]
                                  /\ batch'[c] = batch[c]
                                  /\ pc'[c] = pc[c]
                                  /\ idx'[c] = idx[c]
                                  /\ Unreleased(c)' = Unreleased(c)
<1>1. ASSUME NEW c \in Buses, c # b
      PROVE  queue'[c] = queue[c] /\ batch'[c] = batch[c] /\ pc'[c] = pc[c] /\ idx'[c] = idx[c]
  <2> USE <1>1 DEF OwnerInv, TypeOK
  <2>1. CASE \/ WorkerGet(b) \/ WorkerGetMore(b) \/ WorkerCollected(b) \/ WorkerReadGeneration(b)
             \/ WorkerSendOk(b) \/ WorkerSendFails(b) \/ WorkerTakeDone(b) \/ WorkerClear(b)
    BY <2>1 DEF WorkerGet, WorkerGetMore, WorkerCollected, WorkerReadGeneration, WorkerSendOk,
                WorkerSendFails, WorkerTakeDone, WorkerClear
  <2>2. CASE WorkerReadMailbox(b)
    BY <2>2 DEF WorkerReadMailbox, NextFrame
  <2>3. CASE WorkerCompare(b)
    BY <2>3 DEF WorkerCompare, NextFrame
  <2>4. CASE WorkerClaim(b)
    BY <2>4 DEF WorkerClaim, NextFrame
  <2>5. CASE WorkerRequeue(b)
    <3>1. BusOf[Current(b)] = b
      BY <2>5, CurrentSlot DEF WorkerRequeue
    <3>2. pc'[c] = pc[c] /\ idx'[c] = idx[c] /\ batch'[c] = batch[c]
      BY <2>5 DEF WorkerRequeue, NextFrame
    <3>3. queue'[c] = queue[c]
      BY <2>5, <3>1 DEF WorkerRequeue, EnqueueLatestSlot
    <3> QED
      BY <3>2, <3>3
  <2> QED
    BY <2>1, <2>2, <2>3, <2>4, <2>5 DEF Worker
<1> QED
  BY <1>1 DEF Unreleased

\* Between the wait for work and the release loop nothing changes hands.
LEMMA WorkerKeepsOwners ==
  ASSUME OwnerInv, (TypeOK /\ IndexOK)', NEW b \in Buses, Worker(b),
         \/ WorkerCollected(b) \/ WorkerReadGeneration(b) \/ WorkerReadMailbox(b)
         \/ WorkerSendOk(b) \/ WorkerSendFails(b) \/ WorkerTakeDone(b) \/ WorkerCompare(b)
  PROVE  OwnerInv'
<1>1. pc \in [Buses -> WorkerSteps] /\ idx \in [Buses -> Nat]
  BY DEF OwnerInv, TypeOK
<1>2. UNCHANGED <<pending, queue, batch, subVars>>
  BY DEF WorkerCollected, WorkerReadGeneration, WorkerReadMailbox, WorkerSendOk, WorkerSendFails,
         WorkerTakeDone, WorkerCompare
<1>3. pc[b] # "Get" /\ idx[b] \in 1 .. Len(batch[b]) /\ Len(batch[b]) \in Nat
  BY CurrentSlot DEF WorkerCollected, WorkerReadGeneration, WorkerReadMailbox, WorkerSendOk,
         WorkerSendFails, WorkerTakeDone, WorkerCompare
<1>4. Unreleased(b)' = Unreleased(b)
  <2>1. CASE WorkerCollected(b) \/ WorkerReadGeneration(b) \/ WorkerSendOk(b)
    BY <1>1, <1>2, <2>1 DEF WorkerCollected, WorkerReadGeneration, WorkerSendOk, Unreleased
  <2>2. CASE WorkerReadMailbox(b)
    BY <1>1, <1>2, <2>2 DEF WorkerReadMailbox, NextFrame, Unreleased
  <2>3. CASE WorkerSendFails(b) \/ WorkerTakeDone(b)
    <3>1. idx[b] = 1 /\ idx' = idx
      BY <2>3 DEF WorkerSendFails, WorkerTakeDone, OwnerInv, IndexOK
    <3>2. pc[b] \in {"Send", "AwaitDone"} /\ pc'[b] = "Clear"
      BY <1>1, <2>3 DEF WorkerSendFails, WorkerTakeDone
    <3> QED
      BY <1>2, <3>1, <3>2 DEF Unreleased
  <2>4. CASE WorkerCompare(b)
    <3>1. CASE SendAgain(b)
      BY <1>1, <1>2, <2>4, <3>1 DEF WorkerCompare, Unreleased
    <3>2. CASE ~SendAgain(b) /\ idx[b] < Len(batch[b])
      <4>1. pc[b] = "Compare" /\ pc'[b] = "Clear" /\ idx'[b] = idx[b] + 1
        BY <1>1, <2>4, <3>2 DEF WorkerCompare, NextFrame
      <4> QED
        BY <1>2, <1>3, <4>1 DEF Unreleased
    <3>3. CASE ~SendAgain(b) /\ ~(idx[b] < Len(batch[b]))
      <4>1. pc[b] = "Compare" /\ pc'[b] = "Get"
        BY <1>1, <2>4, <3>3 DEF WorkerCompare, NextFrame
      <4> QED
        BY <1>2, <1>3, <3>3, <4>1 DEF Unreleased
    <3> QED
      BY <3>1, <3>2, <3>3
  <2> QED
    BY <2>1, <2>2, <2>3, <2>4
<1>5. \A c \in Buses : Unreleased(c)' = Unreleased(c)
  BY <1>4, OtherBuses
<1>6. \A s \in Slots : Claimed(s)' <=> Claimed(s)
  BY <1>2 DEF subVars, Claimed
<1> QED
  BY <1>2, <1>5, <1>6, SameOwners

\* The head of the queue moves into the batch, with all that is there already.
LEMMA DequeueOwner ==
  ASSUME OwnerInv, (TypeOK /\ IndexOK)', NEW b \in Buses, WorkerGet(b) \/ WorkerGetMore(b)
  PROVE  OwnerInv'
<1> DEFINE h == Head(queue[b])
<1>1. /\ pc \in [Buses -> WorkerSteps] /\ queue \in [Buses -> Seq(Slots)]
      /\ batch \in [Buses -> Seq(Slots)] /\ queue[b] \in Seq(Slots) /\ queue[b] # <<>>
      /\ NoRepetition(queue[b]) /\ NoRepetition(batch[b])
  BY DEF OwnerInv, TypeOK, OneOwner, WorkerGet, WorkerGetMore
<1>2. /\ h \in Slots
      /\ Occurs(h, queue[b])
      /\ \A x : Occurs(x, Tail(queue[b])) <=> Occurs(x, queue[b]) /\ x # h
      /\ NoRepetition(Tail(queue[b]))
  BY <1>1, TailMember, DequeueType
<1>3. BusOf[h] = b /\ Queued(h) /\ ~Batched(h)
  BY <1>2 DEF OwnerInv, Routed, OneOwner, Queued
<1>4. /\ queue'[b] = Tail(queue[b])
      /\ pc'[b] = "Collect"
      /\ UNCHANGED <<pending, subVars>>
      /\ \A c \in Buses : c # b => queue'[c] = queue[c] /\ batch'[c] = batch[c]
                                 /\ Unreleased(c)' = Unreleased(c)
  BY <1>1, OtherBuses DEF WorkerGet, WorkerGetMore, Worker
<1>5. \A s \in Slots : Queued(s)' <=> Queued(s) /\ s # h
  BY <1>2, <1>3, <1>4, BusOfType DEF Queued
<1>6. /\ \A x \in Slots : Occurs(x, batch'[b]) <=> (pc[b] # "Get" /\ Occurs(x, batch[b])) \/ x = h
      /\ NoRepetition(batch'[b])
  <2>1. CASE WorkerGet(b)
    <3>1. batch'[b] = <<h>> /\ pc[b] = "Get"
      BY <1>1, <2>1 DEF WorkerGet
    <3> QED
      BY <3>1 DEF Occurs, NoRepetition
  <2>2. CASE WorkerGetMore(b)
    <3>1. batch'[b] = Append(batch[b], h) /\ pc[b] = "Collect" /\ batch[b] \in Seq(Slots)
      BY <1>1, <2>2 DEF WorkerGetMore
    <3>2. ~Occurs(h, batch[b])
      BY <1>3, <3>1 DEF Batched, Unreleased, Occurs
    <3> QED
      BY <1>1, <1>2, <3>1, <3>2, AppendMember
  <2> QED
    BY <2>1, <2>2
<1>7. \A s \in Slots : Batched(s)' <=> Batched(s) \/ s = h
  <2>1. ASSUME NEW s \in Slots, BusOf[s] = b
        PROVE  /\ Batched(s)' <=> Occurs(s, batch'[b])
               /\ Batched(s) <=> pc[b] # "Get" /\ Occurs(s, batch[b])
    <3>1. Unreleased(b)' = 1 .. Len(batch'[b])
      BY <1>4 DEF Unreleased
    <3>2. Unreleased(b) = IF pc[b] = "Get" THEN {} ELSE 1 .. Len(batch[b])
      BY DEF WorkerGet, WorkerGetMore, Unreleased
    <3> QED
      BY <2>1, <3>1, <3>2 DEF Batched, Occurs
  <2>2. ASSUME NEW s \in Slots, BusOf[s] # b
        PROVE  (Batched(s)' <=> Batched(s)) /\ s # h
    BY <1>3, <1>4, <2>2, BusOfType DEF Batched
  <2> QED
    BY <1>6, <2>1, <2>2
<1>8. \A s \in Slots : Claimed(s)' <=> Claimed(s)
  BY <1>4 DEF subVars, Claimed
<1>9. \A c \in Buses : NoRepetition(queue'[c]) /\ NoRepetition(batch'[c])
  BY <1>2, <1>4, <1>6 DEF OwnerInv, OneOwner
<1>10. OneOwner'
  BY <1>3, <1>4, <1>5, <1>7, <1>8, <1>9 DEF OwnerInv, OneOwner
<1>11. Routed'
  BY <1>2, <1>3, <1>4, <1>6 DEF OwnerInv, Routed
<1> QED
  BY <1>10, <1>11 DEF OwnerInv

\* The release loop: the worker gives one slot up, takes it back when it has
\* to be sent again, and appends it to its queue.
LEMMA ReleaseOwner ==
  ASSUME OwnerInv, (TypeOK /\ IndexOK)', NEW b \in Buses,
         WorkerClear(b) \/ WorkerClaim(b) \/ WorkerRequeue(b)
  PROVE  OwnerInv'
<1> DEFINE cur == Current(b)
<1>1. /\ pc \in [Buses -> WorkerSteps] /\ idx \in [Buses -> Nat]
      /\ queue \in [Buses -> Seq(Slots)] /\ queue[b] \in Seq(Slots)
      /\ pending \in [Slots -> BOOLEAN]
      /\ NoRepetition(batch[b]) /\ NoRepetition(queue[b])
  BY DEF OwnerInv, TypeOK, OneOwner
<1>2. /\ cur \in Slots /\ BusOf[cur] = b /\ batch[b][idx[b]] = cur
      /\ idx[b] \in 1 .. Len(batch[b]) /\ Len(batch[b]) \in Nat
  BY CurrentSlot DEF WorkerClear, WorkerClaim, WorkerRequeue
<1>3. /\ batch' = batch
      /\ UNCHANGED subVars
      /\ \A c \in Buses : c # b => queue'[c] = queue[c] /\ Unreleased(c)' = Unreleased(c)
  BY OtherBuses DEF WorkerClear, WorkerClaim, WorkerRequeue, Worker
<1>4. \A s \in Slots : Claimed(s)' <=> Claimed(s)
  BY <1>3 DEF subVars, Claimed
<1>5. ASSUME NEW s \in Slots, BusOf[s] # b
      PROVE  (Queued(s)' <=> Queued(s)) /\ (Batched(s)' <=> Batched(s)) /\ s # cur
  BY <1>2, <1>3, <1>5, BusOfType DEF Queued, Batched
\* Where the loop goes next, what follows in the batch is still unreleased.
<1>6. ASSUME NextFrame(b, "Clear", "Get")
      PROVE  Unreleased(b)' = {i \in 1 .. Len(batch[b]) : i > idx[b]}
  <2>1. CASE idx[b] < Len(batch[b])
    <3>1. pc'[b] = "Clear" /\ idx'[b] = idx[b] + 1
      BY <1>1, <1>6, <2>1 DEF NextFrame
    <3> QED
      BY <1>2, <1>3, <3>1 DEF Unreleased
  <2>2. CASE ~(idx[b] < Len(batch[b]))
    <3>1. pc'[b] = "Get"
      BY <1>1, <1>6, <2>2 DEF NextFrame
    <3> QED
      BY <1>2, <1>3, <2>2, <3>1 DEF Unreleased
  <2> QED
    BY <2>1, <2>2
<1>7. CASE WorkerClear(b)
  <2>1. /\ pc[b] = "Clear" /\ pc'[b] = "Compare" /\ idx' = idx /\ queue' = queue
        /\ ~pending'[cur]
        /\ \A s \in Slots : s # cur => pending'[s] = pending[s]
    BY <1>1, <1>2, <1>7 DEF WorkerClear
  <2>2. /\ Unreleased(b) = {i \in 1 .. Len(batch[b]) : i >= idx[b]}
        /\ Unreleased(b)' = {i \in 1 .. Len(batch[b]) : i > idx[b]}
    BY <1>3, <2>1 DEF Unreleased
  <2>3. Batched(cur)
    BY <1>2, <2>2 DEF Batched
  <2>4. \A s \in Slots : Batched(s)' <=> Batched(s) /\ s # cur
    <3>1. ASSUME NEW s \in Slots, BusOf[s] = b
          PROVE  Batched(s)' <=> Batched(s) /\ s # cur
      BY <1>1, <1>2, <1>3, <2>2, <3>1 DEF Batched, NoRepetition
    <3> QED
      BY <1>5, <3>1
  <2>5. \A s \in Slots : Queued(s)' <=> Queued(s)
    BY <2>1 DEF Queued
  <2>6. OneOwner'
    BY <1>2, <1>3, <1>4, <2>1, <2>3, <2>4, <2>5 DEF OwnerInv, OneOwner
  <2>7. Routed'
    BY <1>3, <2>1 DEF OwnerInv, Routed
  <2> QED
    BY <2>6, <2>7 DEF OwnerInv
<1>8. CASE WorkerClaim(b)
  <2>1. pc[b] = "Claim" /\ queue' = queue
    BY <1>8 DEF WorkerClaim
  <2>2. Unreleased(b) = {i \in 1 .. Len(batch[b]) : i > idx[b]}
    BY <2>1 DEF Unreleased
  <2>3. CASE pending[cur]
    <3>1. pending' = pending
      BY <1>1, <1>8, <2>3 DEF WorkerClaim
    <3>2. Unreleased(b)' = Unreleased(b)
      BY <1>6, <1>8, <2>2, <2>3 DEF WorkerClaim
    <3>3. \A c \in Buses : Unreleased(c)' = Unreleased(c)
      BY <1>3, <3>2
    <3> QED
      BY <1>3, <1>4, <2>1, <3>1, <3>3, SameOwners
  <2>4. CASE ~pending[cur]
    <3>1. /\ pc'[b] = "Requeue" /\ idx' = idx
          /\ pending'[cur]
          /\ \A s \in Slots : s # cur => pending'[s] = pending[s]
      BY <1>1, <1>2, <1>8, <2>4 DEF WorkerClaim
    <3>2. Unreleased(b)' = {i \in 1 .. Len(batch[b]) : i >= idx[b]}
      BY <1>3, <3>1 DEF Unreleased
    <3>3. \A s \in Slots : Batched(s)' <=> Batched(s) \/ s = cur
      <4>1. ASSUME NEW s \in Slots, BusOf[s] = b
            PROVE  Batched(s)' <=> Batched(s) \/ s = cur
        BY <1>1, <1>2, <1>3, <2>2, <3>2, <4>1 DEF Batched
      <4> QED
        BY <1>5, <4>1
    <3>4. \A s \in Slots : Queued(s)' <=> Queued(s)
      BY <2>1 DEF Queued
    <3>5. OneOwner'
      BY <1>2, <1>3, <1>4, <2>1, <2>4, <3>1, <3>3, <3>4 DEF OwnerInv, OneOwner
    <3>6. Routed'
      BY <1>3, <2>1 DEF OwnerInv, Routed
    <3> QED
      BY <3>5, <3>6 DEF OwnerInv
  <2> QED
    BY <2>3, <2>4
<1>9. CASE WorkerRequeue(b)
  <2>1. pc[b] = "Requeue" /\ NextFrame(b, "Clear", "Get") /\ EnqueueLatestSlot(cur)
    BY <1>9 DEF WorkerRequeue
  <2>2. /\ Unreleased(b) = {i \in 1 .. Len(batch[b]) : i >= idx[b]}
        /\ Unreleased(b)' = {i \in 1 .. Len(batch[b]) : i > idx[b]}
    BY <1>6, <2>1 DEF Unreleased
  <2>3. Batched(cur)
    BY <1>2, <2>2 DEF Batched
  <2>4. \A s \in Slots : Batched(s)' <=> Batched(s) /\ s # cur
    <3>1. ASSUME NEW s \in Slots, BusOf[s] = b
          PROVE  Batched(s)' <=> Batched(s) /\ s # cur
      BY <1>1, <1>2, <1>3, <2>2, <3>1 DEF Batched, NoRepetition
    <3> QED
      BY <1>5, <3>1
  <2>5. ~Occurs(cur, queue[b]) /\ pending[cur] /\ ~Claimed(cur)
    BY <1>2, <2>3 DEF OwnerInv, OneOwner, Queued
  <2>6. CASE Len(queue[b]) < QueueDepth
    <3>1. queue'[b] = Append(queue[b], cur) /\ pending' = pending
      BY <1>1, <1>2, <2>1, <2>6 DEF EnqueueLatestSlot
    <3>2. /\ \A x : Occurs(x, queue'[b]) <=> Occurs(x, queue[b]) \/ x = cur
          /\ NoRepetition(queue'[b])
      BY <1>1, <1>2, <2>5, <3>1, AppendMember
    <3>3. \A s \in Slots : Queued(s)' <=> Queued(s) \/ s = cur
      BY <1>2, <1>5, <3>2 DEF Queued
    <3>4. OneOwner'
      BY <1>2, <1>3, <1>4, <2>3, <2>4, <2>5, <3>1, <3>2, <3>3 DEF OwnerInv, OneOwner
    <3>5. Routed'
      BY <1>2, <1>3, <3>2 DEF OwnerInv, Routed
    <3> QED
      BY <3>4, <3>5 DEF OwnerInv
  <2>7. CASE ~(Len(queue[b]) < QueueDepth)
    <3>1. /\ queue' = queue
          /\ ~pending'[cur]
          /\ \A s \in Slots : s # cur => pending'[s] = pending[s]
      BY <1>1, <1>2, <2>1, <2>7 DEF EnqueueLatestSlot
    <3>2. \A s \in Slots : Queued(s)' <=> Queued(s)
      BY <3>1 DEF Queued
    <3>3. OneOwner'
      BY <1>2, <1>3, <1>4, <2>3, <2>4, <3>1, <3>2 DEF OwnerInv, OneOwner
    <3>4. Routed'
      BY <1>3, <3>1 DEF OwnerInv, Routed
    <3> QED
      BY <3>3, <3>4 DEF OwnerInv
  <2> QED
    BY <2>6, <2>7
<1> QED
  BY <1>7, <1>8, <1>9

LEMMA OwnerStep == ASSUME OwnerInv, [Next]_vars PROVE OwnerInv'
<1>1. (TypeOK /\ IndexOK)'
  BY TypeStep DEF OwnerInv
<1>2. CASE Submit
  BY <1>1, <1>2, SubmitOwner
<1>3. ASSUME NEW b \in Buses, Worker(b)
      PROVE  OwnerInv'
  BY <1>1, <1>3, WorkerKeepsOwners, DequeueOwner, ReleaseOwner DEF Worker
<1>4. ASSUME (\E b \in Buses : OnTxDone(b)) \/ UNCHANGED vars
      PROVE  OwnerInv'
  <2>1. UNCHANGED <<pending, queue, batch, subPc, subSlot, pc, idx>>
    BY <1>4 DEF OnTxDone, vars, subVars, workerVars
  <2>2. \A s \in Slots : Claimed(s)' <=> Claimed(s)
    BY <2>1 DEF Claimed
  <2>3. \A b \in Buses : Unreleased(b)' = Unreleased(b)
    BY <2>1 DEF Unreleased
  <2> QED
    BY <1>1, <2>1, <2>2, <2>3, SameOwners
<1> QED
  BY <1>2, <1>3, <1>4 DEF Next

(***************************************************************************)
(* For any number of buses and actuators, a slot is pending exactly while  *)
(* one place is responsible for sending it: the compare-and-swap of        *)
(* SubmitCanStandardFrame and the one of CanTxLoop never both win.         *)
(***************************************************************************)
THEOREM OwnerCorrect == Spec => []OneOwner
<1>1. OwnerInv /\ [Next]_vars => OwnerInv'
  BY OwnerStep
<1>2. OwnerInv => OneOwner
  BY DEF OwnerInv
<1> QED
  BY OwnerInit, <1>1, <1>2, PTL DEF Spec

-----------------------------------------------------------------------------
(* The queue bound.                                                          *)

\* A sequence without repetition is no longer than the set it draws from.
LEMMA NoRepetitionLength ==
  ASSUME NEW S, IsFiniteSet(S), NEW T, NEW seq \in Seq(T), NoRepetition(seq),
         \A i \in 1 .. Len(seq) : seq[i] \in S
  PROVE  Len(seq) <= Cardinality(S)
<1>1. Len(seq) \in Nat
  OBVIOUS
<1>2. IsFiniteSet(1 .. Len(seq)) /\ Cardinality(1 .. Len(seq)) = Len(seq)
  <2>1. 1 \in Int /\ Len(seq) \in Int
    BY <1>1
  <2>2. IsFiniteSet(1 .. Len(seq))
        /\ Cardinality(1 .. Len(seq)) = IF 1 > Len(seq) THEN 0 ELSE Len(seq) - 1 + 1
    BY <2>1, FS_Interval, Zenon
  <2> QED
    BY <1>1, <2>2
<1> DEFINE f == [i \in 1 .. Len(seq) |-> seq[i]]
<1>3. f \in Injection(1 .. Len(seq), S)
  BY DEF NoRepetition, Injection, IsInjective
<1>4. Cardinality(1 .. Len(seq)) <= Cardinality(S)
  BY <1>2, <1>3, FS_Injection
<1> QED
  BY <1>2, <1>4

\* A slot that is nobody's entry of the queue still fits into it.
LEMMA RoomFor ==
  ASSUME OwnerInv, NEW s \in Slots, ~Queued(s)
  PROVE  Len(queue[BusOf[s]]) < QueueDepth
<1> DEFINE b == BusOf[s]
           longer == Append(queue[b], s)
<1>1. b \in Buses /\ queue[b] \in Seq(Slots) /\ ~Occurs(s, queue[b])
  BY BusOfType DEF OwnerInv, TypeOK, Queued
<1>2. NoRepetition(longer)
  BY <1>1, AppendMember DEF OwnerInv, OneOwner
<1>3. longer \in Seq(Slots) /\ Len(longer) = Len(queue[b]) + 1 /\ Len(queue[b]) \in Nat
  BY <1>1
<1>4. \A i \in 1 .. Len(longer) : longer[i] \in SlotsOf(b)
  <2>1. \A x \in Slots : Occurs(x, longer) => BusOf[x] = b
    BY <1>1, AppendMember DEF OwnerInv, Routed
  <2>2. \A i \in 1 .. Len(longer) : longer[i] \in Slots /\ Occurs(longer[i], longer)
    BY <1>3 DEF Occurs
  <2> QED
    BY <2>1, <2>2 DEF SlotsOf
<1>5. IsFiniteSet(SlotsOf(b)) /\ Cardinality(SlotsOf(b)) <= QueueDepth
  BY <1>1, QueueAssumption, FS_Subset DEF QueueAssumption, SlotsOf
<1>6. Len(longer) <= Cardinality(SlotsOf(b))
  BY <1>2, <1>3, <1>4, <1>5, NoRepetitionLength
<1>7. Cardinality(SlotsOf(b)) \in Nat /\ QueueDepth \in Nat
  BY <1>5, FS_CardinalityType, ConstantsAssumption DEF ConstantsAssumption
<1> QED
  BY <1>3, <1>5, <1>6, <1>7

(***************************************************************************)
(* If every queue has an entry for each actuator of its bus, k_msgq_put    *)
(* never fails: the sender holds the claim, so the slot it appends is not  *)
(* in the queue, and the slots in the queue are all different.             *)
(***************************************************************************)
THEOREM EnqueueCorrect == Spec => []EnqueueNeverFails
<1>1. OwnerInv => EnqueueNeverFails
  <2> SUFFICES ASSUME OwnerInv
               PROVE  EnqueueNeverFails
    OBVIOUS
  <2>1. ASSUME subPc = "Owner"
        PROVE  Len(queue[BusOf[subSlot]]) < QueueDepth
    <3>1. subSlot \in Slots /\ Claimed(subSlot)
      BY <2>1 DEF OwnerInv, TypeOK, Claimed
    <3>2. ~Queued(subSlot)
      BY <3>1 DEF OwnerInv, OneOwner
    <3> QED
      BY <3>1, <3>2, RoomFor
  <2>2. ASSUME NEW b \in Buses, pc[b] = "Requeue"
        PROVE  Len(queue[b]) < QueueDepth
    <3>1. /\ Current(b) \in Slots /\ BusOf[Current(b)] = b
          /\ idx[b] \in 1 .. Len(batch[b]) /\ batch[b][idx[b]] = Current(b)
      BY <2>2, CurrentSlot
    <3>2. idx[b] \in Unreleased(b)
      BY <2>2, <3>1 DEF Unreleased
    <3>3. ~Queued(Current(b))
      BY <3>1, <3>2 DEF OwnerInv, OneOwner, Batched
    <3> QED
      BY <3>1, <3>3, RoomFor
  <2> QED
    BY <2>1, <2>2 DEF EnqueueNeverFails
<1>2. OwnerInv /\ [Next]_vars => OwnerInv'
  BY OwnerStep
<1> QED
  BY OwnerInit, <1>1, <1>2, PTL DEF Spec

-----------------------------------------------------------------------------
(* Delivery: the versions the worker and the controller hold.                *)

Reading(s) == pc[BusOf[s]] = "ReadMailbox" /\ Current(BusOf[s]) = s

\* A generation is never newer than the frame it counts, so the frame the
\* worker reads second is at least as new as the generation it read first.
Versions ==
  \A s \in Slots :
    /\ mailbox[s] = IF subPc = "Written" /\ subSlot = s THEN generation[s] + 1 ELSE generation[s]
    /\ mailbox[s] <= MaxWrites
    /\ handed[s] <= snapVal[s]
    /\ snapVal[s] <= mailbox[s]
    /\ snapGen[s] <= generation[s]
    /\ Reading(s) \/ snapGen[s] <= snapVal[s]

\* What the worker read is what the controller has, until the release is over.
Sent ==
  \A b \in Buses :
    /\ pc[b] = "AwaitDone" => ~sendFailed[b]
    /\ pc[b] \in {"AwaitDone", "Clear", "Compare", "Claim", "Requeue"} /\ ~sendFailed[b]
         => \A i \in 1 .. Len(batch[b]) : handed[batch[b][i]] = snapVal[batch[b][i]]

DeliveryInv == OwnerInv /\ Versions /\ Sent /\ NoLostUpdate

LEMMA DeliveryInit == Init => DeliveryInv
<1> SUFFICES ASSUME Init
             PROVE  DeliveryInv
  OBVIOUS
<1>1. OwnerInv
  BY OwnerInit
<1>2. Versions
  BY ConstantsAssumption DEF Init, Versions, ConstantsAssumption
<1>3. Sent
  BY DEF Init, Sent
<1>4. NoLostUpdate
  BY DEF Init, NoLostUpdate
<1> QED
  BY <1>1, <1>2, <1>3, <1>4 DEF DeliveryInv

\* The types of the versions, slot by slot.
LEMMA VersionTypes ==
  ASSUME OwnerInv, NEW s \in Slots
  PROVE  /\ mailbox[s] \in Nat /\ generation[s] \in Nat
         /\ snapGen[s] \in Nat /\ snapVal[s] \in Nat /\ handed[s] \in Nat
         /\ MaxWrites \in Nat
BY ConstantsAssumption DEF OwnerInv, TypeOK, ConstantsAssumption

LEMMA VersionsSubmit == ASSUME DeliveryInv, Submit PROVE Versions'
<1> USE DEF DeliveryInv
<1>0. \A s \in Slots : Reading(s)' <=> Reading(s)
  BY DEF Submit, SubmitWrite, SubmitCount, SubmitClaim, SubmitEnqueue, workerVars, Reading, Current
<1>1. UNCHANGED <<snapGen, snapVal, handed>>
  BY DEF Submit, SubmitWrite, SubmitCount, SubmitClaim, SubmitEnqueue, workerVars, driverVars
<1>2. mailbox \in [Slots -> Nat] /\ generation \in [Slots -> Nat] /\ subSlot \in Slots
  BY DEF OwnerInv, TypeOK
<1>3. ASSUME NEW t \in Slots, SubmitWrite(t), NEW s \in Slots
      PROVE  /\ mailbox'[s] = IF subPc' = "Written" /\ subSlot' = s THEN generation'[s] + 1
                                                                    ELSE generation'[s]
             /\ mailbox'[s] <= MaxWrites /\ mailbox[s] <= mailbox'[s]
             /\ generation'[s] = generation[s]
  BY <1>2, <1>3, VersionTypes DEF SubmitWrite, Versions
<1>4. ASSUME SubmitCount, NEW s \in Slots
      PROVE  /\ mailbox'[s] = IF subPc' = "Written" /\ subSlot' = s THEN generation'[s] + 1
                                                                    ELSE generation'[s]
             /\ mailbox'[s] = mailbox[s]
             /\ generation[s] <= generation'[s]
  BY <1>2, <1>4, VersionTypes DEF SubmitCount, Versions
<1>5. ASSUME SubmitClaim \/ SubmitEnqueue, NEW s \in Slots
      PROVE  /\ mailbox'[s] = IF subPc' = "Written" /\ subSlot' = s THEN generation'[s] + 1
                                                                    ELSE generation'[s]
             /\ mailbox'[s] = mailbox[s]
             /\ generation'[s] = generation[s]
  BY <1>2, <1>5 DEF SubmitClaim, SubmitEnqueue, Versions
<1>6. ASSUME NEW s \in Slots
      PROVE  /\ mailbox'[s] \in Nat /\ generation'[s] \in Nat
             /\ mailbox'[s] = IF subPc' = "Written" /\ subSlot' = s THEN generation'[s] + 1
                                                                    ELSE generation'[s]
             /\ mailbox'[s] <= MaxWrites /\ mailbox[s] <= mailbox'[s]
             /\ generation[s] <= generation'[s]
  <2>1. TypeOK'
    BY SubmitType DEF OwnerInv
  <2>2. mailbox'[s] \in Nat /\ generation'[s] \in Nat
    BY <2>1 DEF TypeOK
  <2>3. mailbox[s] <= MaxWrites /\ mailbox[s] \in Nat /\ generation[s] \in Nat
    BY VersionTypes DEF Versions
  <2> QED
    BY <1>3, <1>4, <1>5, <2>2, <2>3 DEF Submit
<1>7. ASSUME NEW s \in Slots
      PROVE  /\ handed'[s] <= snapVal'[s]
             /\ snapVal'[s] <= mailbox'[s]
             /\ snapGen'[s] <= generation'[s]
             /\ Reading(s)' \/ snapGen'[s] <= snapVal'[s]
  BY <1>0, <1>1, <1>6, VersionTypes DEF Versions
<1> QED
  BY <1>6, <1>7 DEF Versions

LEMMA VersionsWorker == ASSUME DeliveryInv, NEW b \in Buses, Worker(b) PROVE Versions'
<1> USE DEF DeliveryInv
<1>0. UNCHANGED <<mailbox, generation, subVars>>
  BY DEF Worker, WorkerGet, WorkerGetMore, WorkerCollected, WorkerReadGeneration,
         WorkerReadMailbox, WorkerSendOk, WorkerSendFails, WorkerTakeDone, WorkerClear,
         WorkerCompare, WorkerClaim, WorkerRequeue
<1>1. \A s \in Slots : BusOf[s] # b => (Reading(s)' <=> Reading(s))
  BY OtherBuses, BusOfType DEF Reading, Current
<1>2. /\ pc \in [Buses -> WorkerSteps] /\ idx \in [Buses -> Nat]
      /\ snapGen \in [Slots -> Nat] /\ snapVal \in [Slots -> Nat]
  BY DEF OwnerInv, TypeOK
<1>3. SUFFICES ASSUME NEW s \in Slots
               PROVE  /\ handed'[s] <= snapVal'[s]
                      /\ snapVal'[s] <= mailbox[s]
                      /\ snapGen'[s] <= generation[s]
                      /\ Reading(s)' \/ snapGen'[s] <= snapVal'[s]
  BY <1>0 DEF Versions, subVars
<1>4. /\ handed[s] <= snapVal[s] /\ snapVal[s] <= mailbox[s] /\ snapGen[s] <= generation[s]
      /\ generation[s] <= mailbox[s]
      /\ Reading(s) \/ snapGen[s] <= snapVal[s]
  BY VersionTypes DEF Versions
<1>5. CASE WorkerReadGeneration(b)
  <2>1. CASE s = Current(b)
    <3>1. snapGen'[s] = generation[s] /\ UNCHANGED <<snapVal, handed>> /\ pc'[b] = "ReadMailbox"
      BY <1>2, <1>5, <2>1 DEF WorkerReadGeneration, driverVars
    <3>2. BusOf[s] = b
      BY <1>5, <2>1, CurrentSlot DEF WorkerReadGeneration
    <3>3. Reading(s)'
      BY <1>5, <2>1, <3>1, <3>2 DEF WorkerReadGeneration, Reading, Current
    <3> QED
      BY <1>4, <3>1, <3>3, VersionTypes
  <2>2. CASE s # Current(b)
    <3>1. snapGen'[s] = snapGen[s] /\ UNCHANGED <<snapVal, handed>> /\ pc[b] # "ReadMailbox"
      BY <1>2, <1>5, <2>2 DEF WorkerReadGeneration, driverVars
    <3>2. Reading(s) => Reading(s)'
      BY <1>1, <3>1 DEF Reading
    <3> QED
      BY <1>4, <3>1, <3>2
  <2> QED
    BY <2>1, <2>2
<1>6. CASE WorkerReadMailbox(b)
  <2>1. UNCHANGED <<snapGen, handed>> /\ pc[b] = "ReadMailbox"
    BY <1>6 DEF WorkerReadMailbox, driverVars
  <2>2. CASE s = Current(b)
    <3>1. snapVal'[s] = mailbox[s]
      BY <1>2, <1>6, <2>2 DEF WorkerReadMailbox
    <3> QED
      BY <1>4, <2>1, <3>1, VersionTypes
  <2>3. CASE s # Current(b)
    <3>1. snapVal'[s] = snapVal[s]
      BY <1>2, <1>6, <2>3 DEF WorkerReadMailbox
    <3>2. Reading(s) => Reading(s)'
      BY <1>1, <2>3 DEF Reading
    <3> QED
      BY <1>4, <2>1, <3>1, <3>2
  <2> QED
    BY <2>2, <2>3
<1>7. CASE WorkerSendOk(b) \/ WorkerSendFails(b)
  <2>1. UNCHANGED <<snapGen, snapVal>> /\ pc[b] = "Send"
    BY <1>7 DEF WorkerSendOk, WorkerSendFails
  <2>2. handed'[s] = handed[s] \/ handed'[s] = snapVal[s]
    BY <1>7 DEF WorkerSendOk, WorkerSendFails, HandOver
  <2>3. Reading(s) => Reading(s)'
    BY <1>1, <2>1 DEF Reading
  <2> QED
    BY <1>4, <2>1, <2>2, <2>3, VersionTypes
<1>8. CASE \/ WorkerGet(b) \/ WorkerGetMore(b) \/ WorkerCollected(b) \/ WorkerTakeDone(b)
           \/ WorkerClear(b) \/ WorkerCompare(b) \/ WorkerClaim(b) \/ WorkerRequeue(b)
  <2>1. UNCHANGED <<snapGen, snapVal, handed>> /\ pc[b] # "ReadMailbox"
    BY <1>8 DEF WorkerGet, WorkerGetMore, WorkerCollected, WorkerTakeDone, WorkerClear,
                WorkerCompare, WorkerClaim, WorkerRequeue, driverVars
  <2>2. Reading(s) => Reading(s)'
    BY <1>1, <2>1 DEF Reading
  <2> QED
    BY <1>4, <2>1, <2>2
<1> QED
  BY <1>5, <1>6, <1>7, <1>8 DEF Worker

\* A worker hands over frames of its own bus only.
LEMMA HandsOwnBus ==
  ASSUME OwnerInv, NEW b \in Buses, Worker(b), NEW s \in Slots, BusOf[s] # b
  PROVE  handed'[s] = handed[s] /\ snapVal'[s] = snapVal[s]
<1>0. /\ snapVal \in [Slots -> Nat] /\ batch[b] \in Seq(Slots)
      /\ \A i \in 1 .. Len(batch[b]) : batch[b][i] # s
  BY DEF OwnerInv, TypeOK, Routed, Occurs
<1>1. CASE WorkerReadMailbox(b)
  <2>1. Current(b) # s
    BY <1>1, CurrentSlot DEF WorkerReadMailbox
  <2> QED
    BY <1>0, <1>1, <2>1 DEF WorkerReadMailbox, driverVars
<1>2. CASE WorkerSendOk(b)
  BY <1>0, <1>2 DEF WorkerSendOk, HandOver
<1>3. CASE WorkerSendFails(b)
  <2>1. PICK n \in 0 .. Len(batch[b]) - 1 : HandOver(b, n)
    BY <1>3 DEF WorkerSendFails
  <2>2. \A i \in 1 .. n : batch[b][i] # s
    BY <1>0, <2>1
  <2> QED
    BY <1>3, <2>1, <2>2 DEF WorkerSendFails, HandOver
<1>4. CASE \/ WorkerGet(b) \/ WorkerGetMore(b) \/ WorkerCollected(b) \/ WorkerReadGeneration(b)
           \/ WorkerTakeDone(b) \/ WorkerClear(b) \/ WorkerCompare(b) \/ WorkerClaim(b)
           \/ WorkerRequeue(b)
  BY <1>4 DEF WorkerGet, WorkerGetMore, WorkerCollected, WorkerReadGeneration, WorkerTakeDone,
              WorkerClear, WorkerCompare, WorkerClaim, WorkerRequeue, driverVars
<1> QED
  BY <1>1, <1>2, <1>3, <1>4 DEF Worker

LEMMA SentWorker == ASSUME DeliveryInv, NEW b \in Buses, Worker(b) PROVE Sent'
<1> USE DEF DeliveryInv
<1>1. /\ pc \in [Buses -> WorkerSteps] /\ sendFailed \in [Buses -> BOOLEAN]
      /\ batch \in [Buses -> Seq(Slots)]
  BY DEF OwnerInv, TypeOK
<1>2. ASSUME NEW c \in Buses, c # b
      PROVE  /\ pc'[c] = "AwaitDone" => ~sendFailed'[c]
             /\ pc'[c] \in {"AwaitDone", "Clear", "Compare", "Claim", "Requeue"} /\ ~sendFailed'[c]
                  => \A i \in 1 .. Len(batch'[c]) : handed'[batch'[c][i]] = snapVal'[batch'[c][i]]
  <2>1. pc'[c] = pc[c] /\ batch'[c] = batch[c]
    BY <1>2, OtherBuses
  <2>2. sendFailed'[c] = sendFailed[c]
    BY <1>1, <1>2 DEF Worker, WorkerGet, WorkerGetMore, WorkerCollected, WorkerReadGeneration,
       WorkerReadMailbox, WorkerSendOk, WorkerSendFails, WorkerTakeDone, WorkerClear,
       WorkerCompare, WorkerClaim, WorkerRequeue
  <2>3. ASSUME NEW i \in 1 .. Len(batch[c])
        PROVE  /\ handed'[batch[c][i]] = handed[batch[c][i]]
               /\ snapVal'[batch[c][i]] = snapVal[batch[c][i]]
    <3>1. batch[c][i] \in Slots /\ BusOf[batch[c][i]] = c
      BY <1>1 DEF OwnerInv, Routed, Occurs
    <3> QED
      BY <1>2, <3>1, HandsOwnBus
  <2> QED
    BY <2>1, <2>2, <2>3 DEF Sent
<1>3. /\ pc'[b] = "AwaitDone" => ~sendFailed'[b]
      /\ pc'[b] \in {"AwaitDone", "Clear", "Compare", "Claim", "Requeue"} /\ ~sendFailed'[b]
           => \A i \in 1 .. Len(batch'[b]) : handed'[batch'[b][i]] = snapVal'[batch'[b][i]]
  <2>1. CASE \/ WorkerGet(b) \/ WorkerGetMore(b) \/ WorkerCollected(b) \/ WorkerReadGeneration(b)
    BY <1>1, <2>1 DEF WorkerGet, WorkerGetMore, WorkerCollected, WorkerReadGeneration
  <2>2. CASE WorkerReadMailbox(b)
    BY <1>1, <2>2 DEF WorkerReadMailbox, NextFrame
  <2>3. CASE WorkerSendOk(b)
    BY <1>1, <2>3 DEF WorkerSendOk, HandOver
  <2>4. CASE WorkerSendFails(b)
    BY <1>1, <2>4 DEF WorkerSendFails
  <2>5. CASE \/ WorkerTakeDone(b) \/ WorkerClear(b) \/ WorkerCompare(b) \/ WorkerClaim(b)
             \/ WorkerRequeue(b)
    <3>1. UNCHANGED <<batch, snapVal, handed, sendFailed>>
      BY <2>5 DEF WorkerTakeDone, WorkerClear, WorkerCompare, WorkerClaim, WorkerRequeue,
                  driverVars
    <3>2. pc[b] \in {"AwaitDone", "Clear", "Compare", "Claim", "Requeue"}
      BY <2>5 DEF WorkerTakeDone, WorkerClear, WorkerCompare, WorkerClaim, WorkerRequeue
    <3>3. pc'[b] # "AwaitDone"
      BY <1>1, <2>5 DEF WorkerTakeDone, WorkerClear, WorkerCompare, WorkerClaim, WorkerRequeue,
                        NextFrame
    <3> QED
      BY <3>1, <3>2, <3>3 DEF Sent
  <2> QED
    BY <2>1, <2>2, <2>3, <2>4, <2>5 DEF Worker
<1> QED
  BY <1>2, <1>3 DEF Sent

\* Submissions leave what was sent alone.
LEMMA SentSubmit == ASSUME Sent, Submit PROVE Sent'
BY DEF Sent, Submit, SubmitWrite, SubmitCount, SubmitClaim, SubmitEnqueue, workerVars, driverVars

LEMMA QuietSubmit == ASSUME DeliveryInv, Submit PROVE NoLostUpdate'
<1> USE DEF DeliveryInv
<1>0. /\ pending \in [Slots -> BOOLEAN] /\ subSlot \in Slots /\ mailbox \in [Slots -> Nat]
  BY DEF OwnerInv, TypeOK
<1>1. \A b \in Buses : pc'[b] = pc[b] /\ Current(b)' = Current(b)
  BY DEF Submit, SubmitWrite, SubmitCount, SubmitClaim, SubmitEnqueue, workerVars, Current
<1>2. handed' = handed
  BY DEF Submit, SubmitWrite, SubmitCount, SubmitClaim, SubmitEnqueue, driverVars
<1>3. SUFFICES ASSUME NEW s \in Slots, Quiet(s)'
               PROVE  Quiet(s) /\ mailbox'[s] = mailbox[s]
  BY <1>2 DEF NoLostUpdate
<1>4. ~(pc[BusOf[s]] \in {"Compare", "Claim"} /\ Current(BusOf[s]) = s)
  BY <1>1, <1>3, BusOfType DEF Quiet
<1>5. ASSUME NEW t \in Slots, SubmitWrite(t)
      PROVE  Quiet(s) /\ mailbox'[s] = mailbox[s]
  BY <1>0, <1>3, <1>4, <1>5 DEF SubmitWrite, Quiet
<1>6. CASE SubmitCount
  BY <1>3, <1>4, <1>6 DEF SubmitCount, Quiet
<1>7. CASE SubmitClaim
  BY <1>0, <1>3, <1>4, <1>7 DEF SubmitClaim, Quiet
<1>8. CASE SubmitEnqueue
  <2>1. subPc = "Owner" /\ mailbox' = mailbox /\ Claimed(subSlot) /\ pending[subSlot]
    BY <1>0, <1>8 DEF SubmitEnqueue, Claimed, OwnerInv, OneOwner
  <2>2. ~Queued(subSlot)
    BY <1>0, <2>1 DEF OwnerInv, OneOwner
  <2>3. Len(queue[BusOf[subSlot]]) < QueueDepth
    BY <1>0, <2>2, RoomFor
  <2>4. pending' = pending
    BY <1>8, <2>3 DEF SubmitEnqueue, EnqueueLatestSlot
  <2> QED
    BY <1>3, <1>4, <2>1, <2>4 DEF Quiet
<1> QED
  BY <1>5, <1>6, <1>7, <1>8 DEF Submit

\* The worker lets a slot go only when its newest frame is out.
LEMMA QuietWorker == ASSUME DeliveryInv, NEW b \in Buses, Worker(b) PROVE NoLostUpdate'
<1> USE DEF DeliveryInv
<1>0. /\ pending \in [Slots -> BOOLEAN] /\ pc \in [Buses -> WorkerSteps]
      /\ UNCHANGED <<mailbox, generation, subPc, subSlot>>
  BY DEF OwnerInv, TypeOK, subVars, Worker, WorkerGet, WorkerGetMore, WorkerCollected,
         WorkerReadGeneration, WorkerReadMailbox, WorkerSendOk, WorkerSendFails, WorkerTakeDone,
         WorkerClear, WorkerCompare, WorkerClaim, WorkerRequeue
<1>1. SUFFICES ASSUME NEW s \in Slots, Quiet(s)'
               PROVE  handed'[s] = mailbox[s]
  BY <1>0 DEF NoLostUpdate
<1>2. Quiet(s) => handed[s] = mailbox[s]
  BY DEF NoLostUpdate
<1>3. CASE \/ WorkerGet(b) \/ WorkerGetMore(b) \/ WorkerCollected(b) \/ WorkerReadGeneration(b)
           \/ WorkerReadMailbox(b) \/ WorkerTakeDone(b)
  <2>1. pc[b] \notin {"Compare", "Claim"} /\ UNCHANGED <<pending, handed>>
    BY <1>3 DEF WorkerGet, WorkerGetMore, WorkerCollected, WorkerReadGeneration,
                WorkerReadMailbox, WorkerTakeDone, driverVars
  <2>2. BusOf[s] # b => pc'[BusOf[s]] = pc[BusOf[s]] /\ Current(BusOf[s])' = Current(BusOf[s])
    BY BusOfType, OtherBuses DEF Current
  <2>3. Quiet(s)
    BY <1>0, <1>1, <2>1, <2>2 DEF Quiet
  <2> QED
    BY <1>2, <2>1, <2>3
<1>4. CASE WorkerSendOk(b) \/ WorkerSendFails(b)
  <2>1. pc[b] = "Send" /\ UNCHANGED <<pending, queue, batch>>
    BY <1>4 DEF WorkerSendOk, WorkerSendFails
  <2>2. Unreleased(b) = 1 .. Len(batch[b])
    BY <2>1 DEF Unreleased
  <2>3. ~Batched(s)
    BY <1>1, <2>1 DEF Quiet, OwnerInv, OneOwner
  <2>4. BusOf[s] = b => \A i \in 1 .. Len(batch[b]) : batch[b][i] # s
    BY <2>2, <2>3 DEF Batched
  <2>5. Len(batch[b]) \in Nat
    BY <2>1, CurrentSlot
  <2>6. handed'[s] = handed[s]
    <3>1. CASE BusOf[s] # b
      BY <3>1, HandsOwnBus
    <3>2. CASE BusOf[s] = b /\ WorkerSendOk(b)
      BY <2>4, <3>2 DEF WorkerSendOk, HandOver
    <3>3. CASE BusOf[s] = b /\ WorkerSendFails(b)
      <4>1. PICK n \in 0 .. Len(batch[b]) - 1 : HandOver(b, n)
        BY <3>3 DEF WorkerSendFails
      <4>2. \A i \in 1 .. n : batch[b][i] # s
        BY <2>4, <2>5, <3>3, <4>1
      <4> QED
        BY <4>1, <4>2 DEF HandOver
    <3> QED
      BY <1>4, <3>1, <3>2, <3>3
  <2>7. BusOf[s] # b => pc'[BusOf[s]] = pc[BusOf[s]] /\ Current(BusOf[s])' = Current(BusOf[s])
    BY BusOfType, OtherBuses DEF Current
  <2>8. Quiet(s)
    BY <1>0, <1>1, <2>1, <2>7 DEF Quiet
  <2> QED
    BY <1>2, <2>6, <2>8
<1>5. CASE WorkerClear(b) \/ WorkerClaim(b) \/ WorkerRequeue(b) \/ WorkerCompare(b)
  <2>1. handed' = handed /\ batch' = batch
    BY <1>5 DEF WorkerClear, WorkerClaim, WorkerRequeue, WorkerCompare, driverVars
  <2>2. /\ Current(b) \in Slots /\ BusOf[Current(b)] = b /\ idx[b] \in 1 .. Len(batch[b])
        /\ batch[b][idx[b]] = Current(b)
    BY <1>5, CurrentSlot DEF WorkerClear, WorkerClaim, WorkerRequeue, WorkerCompare
  <2>3. CASE s # Current(b)
    <3>1. pending'[s] = pending[s]
      BY <1>0, <1>5, <2>2, <2>3 DEF WorkerClear, WorkerClaim, WorkerRequeue, WorkerCompare,
                                    EnqueueLatestSlot
    <3>2. BusOf[s] # b => pc'[BusOf[s]] = pc[BusOf[s]] /\ Current(BusOf[s])' = Current(BusOf[s])
      BY BusOfType, OtherBuses DEF Current
    <3>3. Quiet(s)
      BY <1>0, <1>1, <2>3, <3>1, <3>2 DEF Quiet
    <3> QED
      BY <1>2, <2>1, <3>3
  <2>4. CASE s = Current(b) /\ WorkerClear(b)
    <3>1. pc'[b] = "Compare" /\ Current(b)' = Current(b)
      BY <1>0, <2>1, <2>4 DEF WorkerClear, Current
    <3> QED
      BY <1>1, <2>2, <2>4, <3>1 DEF Quiet
  <2>5. CASE s = Current(b) /\ WorkerClaim(b)
    BY <1>0, <1>1, <2>5 DEF WorkerClaim, Quiet
  <2>6. CASE s = Current(b) /\ WorkerRequeue(b)
    <3>1. Batched(s)
      BY <2>2, <2>6 DEF WorkerRequeue, Batched, Unreleased
    <3>2. pending[s] /\ ~Queued(s)
      BY <3>1 DEF OwnerInv, OneOwner
    <3>3. Len(queue[b]) < QueueDepth
      BY <2>2, <2>6, <3>2, RoomFor
    <3>4. pending' = pending
      BY <2>2, <2>6, <3>3 DEF WorkerRequeue, EnqueueLatestSlot
    <3> QED
      BY <1>1, <3>2, <3>4 DEF Quiet
  <2>7. CASE s = Current(b) /\ WorkerCompare(b)
    <3>1. ~SendAgain(b)
      <4>1. SUFFICES ASSUME SendAgain(b) PROVE FALSE
        OBVIOUS
      <4>2. pc'[b] = "Claim" /\ Current(b)' = Current(b)
        BY <1>0, <2>1, <2>7, <4>1 DEF WorkerCompare, Current
      <4> QED
        BY <1>1, <2>2, <2>7, <4>2 DEF Quiet
    <3>2. ~sendFailed[b] /\ generation[s] = snapGen[s] /\ pc[b] = "Compare"
      BY <2>7, <3>1 DEF SendAgain, WorkerCompare
    <3>3. handed[s] = snapVal[s]
      BY <2>2, <2>7, <3>2 DEF Sent
    <3>4. ~(subPc = "Written" /\ subSlot = s)
      BY <1>0, <1>1 DEF Quiet
    <3>5. mailbox[s] = generation[s] /\ snapVal[s] <= mailbox[s] /\ snapGen[s] <= snapVal[s]
      BY <3>2, <3>4, <2>2, <2>7 DEF Versions, Reading
    <3> QED
      BY <2>1, <3>2, <3>3, <3>5, VersionTypes
  <2> QED
    BY <1>5, <2>3, <2>4, <2>5, <2>6, <2>7
<1> QED
  BY <1>3, <1>4, <1>5 DEF Worker

LEMMA DeliveryStep == ASSUME DeliveryInv, [Next]_vars PROVE DeliveryInv'
<1>1. OwnerInv'
  BY OwnerStep DEF DeliveryInv
<1>2. CASE Submit
  BY <1>1, <1>2, VersionsSubmit, SentSubmit, QuietSubmit DEF DeliveryInv
<1>3. ASSUME NEW b \in Buses, Worker(b)
      PROVE  DeliveryInv'
  BY <1>1, <1>3, VersionsWorker, SentWorker, QuietWorker DEF DeliveryInv
<1>4. ASSUME (\E b \in Buses : OnTxDone(b)) \/ UNCHANGED vars
      PROVE  DeliveryInv'
  <2>1. /\ UNCHANGED <<mailbox, generation, pending, subPc, subSlot, pc, batch, idx>>
        /\ UNCHANGED <<snapGen, snapVal, sendFailed, handed>>
    BY <1>4 DEF OnTxDone, vars, subVars, workerVars, driverVars
  <2>2. Versions'
    BY <2>1 DEF DeliveryInv, Versions, Reading, Current
  <2>3. Sent'
    BY <2>1 DEF DeliveryInv, Sent
  <2>4. NoLostUpdate'
    BY <2>1 DEF DeliveryInv, NoLostUpdate, Quiet, Current
  <2> QED
    BY <1>1, <2>2, <2>3, <2>4 DEF DeliveryInv
<1> QED
  BY <1>2, <1>3, <1>4 DEF Next

(***************************************************************************)
(* No submission is lost: once nobody holds a slot, its newest frame has   *)
(* been handed to the controller.  The worker reads the generation before  *)
(* the frame and compares it after it has cleared the flag.                *)
(***************************************************************************)
THEOREM DeliveryCorrect == Spec => []NoLostUpdate
<1>1. DeliveryInv /\ [Next]_vars => DeliveryInv'
  BY DeliveryStep
<1>2. DeliveryInv => NoLostUpdate
  BY DEF DeliveryInv
<1> QED
  BY DeliveryInit, <1>1, <1>2, PTL DEF Spec

-----------------------------------------------------------------------------
(* One batch in flight.                                                      *)

\* No token of g_tx_done_sem is left over when the worker is not waiting.
Handshake ==
  \A b \in Buses : pc[b] # "AwaitDone" => done[b] = 0

HandshakeInv == TypeOK /\ IndexOK /\ OneBatchInFlight /\ Handshake

LEMMA HandshakeStep == ASSUME HandshakeInv, [Next]_vars PROVE HandshakeInv'
<1> USE DEF HandshakeInv
<1>0. TypeOK' /\ IndexOK'
  BY TypeStep
<1>1. /\ pc \in [Buses -> WorkerSteps] /\ done \in [Buses -> {0, 1}]
      /\ inFlight \in [Buses -> BOOLEAN] /\ context \in [Buses -> Seq(Slots)]
  BY DEF TypeOK
<1>2. CASE Submit
  BY <1>0, <1>2 DEF Submit, SubmitWrite, SubmitCount, SubmitClaim, SubmitEnqueue, workerVars,
                    driverVars, OneBatchInFlight, Handshake
<1>3. ASSUME NEW b \in Buses, Worker(b)
      PROVE  OneBatchInFlight' /\ Handshake'
  <2>1. CASE WorkerSendOk(b)
    BY <1>1, <2>1 DEF WorkerSendOk, OneBatchInFlight, Handshake
  <2>2. CASE WorkerSendFails(b)
    BY <1>1, <2>2 DEF WorkerSendFails, OneBatchInFlight, Handshake
  <2>3. CASE WorkerTakeDone(b)
    BY <1>1, <2>3 DEF WorkerTakeDone, OneBatchInFlight, Handshake
  <2>4. CASE WorkerGet(b) \/ WorkerGetMore(b)
    <3>1. /\ UNCHANGED <<context, inFlight, done>>
          /\ pc[b] \in {"Get", "Collect"} /\ pc'[b] = "Collect"
      BY <1>1, <2>4 DEF WorkerGet, WorkerGetMore, driverVars
    <3>2. \A c \in Buses : c # b => pc'[c] = pc[c] /\ batch'[c] = batch[c]
      BY <1>1, <2>4 DEF WorkerGet, WorkerGetMore, TypeOK
    <3> QED
      BY <3>1, <3>2 DEF OneBatchInFlight, Handshake
  <2>5. CASE \/ WorkerCollected(b) \/ WorkerReadGeneration(b) \/ WorkerReadMailbox(b)
             \/ WorkerClear(b) \/ WorkerCompare(b) \/ WorkerClaim(b) \/ WorkerRequeue(b)
    <3>1. UNCHANGED <<batch, context, inFlight, done>> /\ pc[b] \notin {"AwaitDone", "Send"}
      BY <2>5 DEF WorkerCollected, WorkerReadGeneration, WorkerReadMailbox, WorkerClear,
                  WorkerCompare, WorkerClaim, WorkerRequeue, driverVars
    <3>2. /\ pc'[b] # "AwaitDone"
          /\ \A c \in Buses : c # b => pc'[c] = pc[c]
      BY <1>1, <2>5 DEF WorkerCollected, WorkerReadGeneration, WorkerReadMailbox, WorkerClear,
                        WorkerCompare, WorkerClaim, WorkerRequeue, NextFrame
    <3> QED
      BY <3>1, <3>2 DEF OneBatchInFlight, Handshake
  <2> QED
    BY <1>3, <2>1, <2>2, <2>3, <2>4, <2>5 DEF Worker
<1>4. ASSUME NEW b \in Buses, OnTxDone(b)
      PROVE  OneBatchInFlight' /\ Handshake'
  BY <1>1, <1>4 DEF OnTxDone, workerVars, OneBatchInFlight, Handshake
<1>5. CASE UNCHANGED vars
  BY <1>0, <1>5 DEF vars, workerVars, driverVars, OneBatchInFlight, Handshake
<1> QED
  BY <1>0, <1>2, <1>3, <1>4, <1>5 DEF Next

(***************************************************************************)
(* The completion a worker takes is the one of the batch it sent: the      *)
(* semaphore is empty whenever a batch is handed over, and the callback    *)
(* context is not rewritten while the driver holds it.                     *)
(***************************************************************************)
THEOREM InFlightCorrect == Spec => []OneBatchInFlight
<1>1. Init => HandshakeInv
  BY TypeInit DEF Init, HandshakeInv, OneBatchInFlight, Handshake
<1>2. HandshakeInv /\ [Next]_vars => HandshakeInv'
  BY HandshakeStep
<1>3. HandshakeInv => OneBatchInFlight
  BY DEF HandshakeInv
<1> QED
  BY <1>1, <1>2, <1>3, PTL DEF Spec

-----------------------------------------------------------------------------
(* The refinement.                                                           *)

LEMMA ChannelStep ==
  ASSUME DeliveryInv, DeliveryInv', [Next]_vars
  PROVE  [Channel!Next]_(Channel!vars)
<1> USE DEF DeliveryInv, Channel!Next, Channel!vars
<1>0. \A s \in Slots : /\ handed'[s] \in Nat /\ handed'[s] <= mailbox'[s]
                       /\ mailbox'[s] \in Nat /\ mailbox'[s] <= MaxWrites /\ MaxWrites \in Nat
  <2>1. ASSUME NEW s \in Slots
        PROVE  /\ handed'[s] \in Nat /\ snapVal'[s] \in Nat /\ mailbox'[s] \in Nat
               /\ handed'[s] <= snapVal'[s] /\ snapVal'[s] <= mailbox'[s]
               /\ mailbox'[s] <= MaxWrites
    BY DEF OwnerInv, TypeOK, Versions
  <2> QED
    BY <2>1, ConstantsAssumption DEF ConstantsAssumption
<1>1. ASSUME NEW s \in Slots, SubmitWrite(s)
      PROVE  Channel!Write(s)
  BY <1>1 DEF SubmitWrite, driverVars, Channel!Write
<1>2. ASSUME NEW b \in Buses, WorkerSendOk(b) \/ WorkerSendFails(b)
      PROVE  Channel!Send
  <2>1. mailbox' = mailbox
    BY <1>2 DEF WorkerSendOk, WorkerSendFails
  <2>2. ASSUME NEW s \in Slots
        PROVE  handed[s] <= handed'[s]
    <3>1. handed'[s] = handed[s] \/ handed'[s] = snapVal[s]
      BY <1>2, <2>2 DEF WorkerSendOk, WorkerSendFails, HandOver
    <3>2. handed[s] <= snapVal[s]
      BY DEF Versions
    <3> QED
      BY <3>1, <3>2, VersionTypes
  <2>3. handed' \in [Slots -> 0 .. MaxWrites]
    <3>1. handed' \in [Slots -> Nat]
      BY DEF OwnerInv, TypeOK
    <3>2. \A s \in Slots : handed'[s] \in 0 .. MaxWrites
      BY <1>0
    <3> QED
      BY <3>1, <3>2
  <2> QED
    BY <1>0, <2>1, <2>2, <2>3 DEF Channel!Send
<1>3. CASE SubmitCount \/ SubmitClaim \/ SubmitEnqueue
  BY <1>3 DEF SubmitCount, SubmitClaim, SubmitEnqueue, driverVars
<1>4. ASSUME NEW b \in Buses,
             \/ WorkerGet(b) \/ WorkerGetMore(b) \/ WorkerCollected(b) \/ WorkerReadGeneration(b)
             \/ WorkerReadMailbox(b) \/ WorkerTakeDone(b) \/ WorkerClear(b) \/ WorkerCompare(b)
             \/ WorkerClaim(b) \/ WorkerRequeue(b) \/ OnTxDone(b)
      PROVE  UNCHANGED <<mailbox, handed>>
  BY <1>4 DEF WorkerGet, WorkerGetMore, WorkerCollected, WorkerReadGeneration, WorkerReadMailbox,
              WorkerTakeDone, WorkerClear, WorkerCompare, WorkerClaim, WorkerRequeue, OnTxDone,
              driverVars
<1>5. CASE UNCHANGED vars
  BY <1>5 DEF vars, driverVars
<1> QED
  BY <1>1, <1>2, <1>3, <1>4, <1>5 DEF Next, Submit, Worker

(***************************************************************************)
(* The safety half of ImplementsChannel: an actuator is never sent a frame *)
(* older than one it already has, nor one that was not submitted.  That    *)
(* the newest frame arrives in the end is checked by the model checker.    *)
(***************************************************************************)
THEOREM ChannelCorrect == Spec => Channel!Spec
<1>1. Init => Channel!Init
  BY DEF Init, Channel!Init
<1>2. DeliveryInv /\ [Next]_vars => DeliveryInv'
  BY DeliveryStep
<1>3. DeliveryInv /\ DeliveryInv' /\ [Next]_vars => [Channel!Next]_(Channel!vars)
  BY ChannelStep
<1> QED
  BY DeliveryInit, <1>1, <1>2, <1>3, PTL DEF Spec, Channel!Spec
=============================================================================
