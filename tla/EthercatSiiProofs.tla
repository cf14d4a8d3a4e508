-------------------------- MODULE EthercatSiiProofs --------------------------
(***************************************************************************)
(* Proofs about the identity store, for any image, any words and any       *)
(* number of generations, when word writes stay out of Commit.             *)
(***************************************************************************)
EXTENDS EthercatSiiStore, TLAPS

-----------------------------------------------------------------------------
(* Slots.                                                                    *)

LEMMA NothingWritten ==
  /\ None \notin Images /\ None \notin 0 .. GenMod - 1
  /\ GenMod \in Int /\ GenMod >= 4 /\ Default \in Images
BY StoreAssumption DEF StoreAssumption

\* A slot's header is there as a whole or not at all.
Headed(s) == s.gen = None <=> s.crc = None

ValidSlot(s) == s.marker /\ s.gen # None /\ s.body = s.crc

\* What is left of a slot that was being erased is either the slot or invalid.
LEMMA TornSlot ==
  ASSUME NEW s \in SlotStates, Headed(s), NEW t \in Torn(s)
  PROVE  /\ t \in SlotStates /\ Headed(t)
         /\ commit # "erase" => t = s
         /\ ValidSlot(t) => t = s
<1>1. CASE commit # "erase"
  BY <1>1 DEF Torn
<1>2. CASE commit = "erase"
  <2>1. t \in [gen : {s.gen, None}, crc : {s.crc, None}, body : {s.body, None},
               marker : {s.marker, FALSE}] /\ (t.crc = None <=> t.gen = None)
    BY <1>2 DEF Torn
  <2>2. t \in SlotStates /\ Headed(t)
    BY <2>1 DEF SlotStates, Headed
  <2>3. ASSUME ValidSlot(t)
        PROVE  t = s
    <3>1. t.gen = s.gen /\ t.crc = s.crc /\ t.marker = s.marker /\ t.body = s.body
      BY <2>1, <2>3 DEF ValidSlot
    <3> QED
      BY <2>2, <3>1 DEF SlotStates
  <2> QED
    BY <1>2, <2>2, <2>3
<1> QED
  BY <1>1, <1>2

LEMMA NextGenerationType ==
  ASSUME gen \in 0 .. GenMod - 1
  PROVE  NextGeneration \in 0 .. GenMod - 1
BY NothingWritten DEF NextGeneration

LEMMA BlankType == Blank \in SlotStates /\ Headed(Blank) /\ ~ValidSlot(Blank)
BY DEF Blank, SlotStates, Headed, ValidSlot

LEMMA WrittenType ==
  ASSUME TypeOK, NEW s \in SlotStates, commit \in DOMAIN Following
  PROVE  Written(s) \in SlotStates
<1>1. NextGeneration \in 0 .. GenMod - 1
  BY NextGenerationType DEF TypeOK
<1>2. crc \in Images \union {None} /\ image \in Images
  BY DEF TypeOK
<1>3. CASE commit = "erase"
  BY <1>3, BlankType DEF Written
<1>4. CASE commit = "header"
  BY <1>1, <1>2, <1>4 DEF Written, SlotStates
<1>5. CASE commit = "body"
  BY <1>2, <1>5 DEF Written, SlotStates
<1>6. CASE commit = "marker"
  BY <1>6 DEF Written, SlotStates
<1> QED
  BY <1>3, <1>4, <1>5, <1>6 DEF Following

-----------------------------------------------------------------------------
(* Type correctness.                                                         *)

LEMMA SelectedType == Selected \in {-1, 0, 1} /\ (Selected # -1 => Valid(Selected))
BY DEF Selected

LEMMA SlotBody ==
  ASSUME flash \in [Slots -> SlotStates], NEW s \in Slots, Headed(flash[s]), Valid(s)
  PROVE  flash[s].body \in Images /\ flash[s].gen \in 0 .. GenMod - 1
BY DEF Valid, Headed, SlotStates

SlotsInv == \A s \in Slots : Headed(flash[s])

CrcInv == commit \in DOMAIN Following => crc \in Images

\* Every step leaves whole headers.
LEMMA TornFlash ==
  ASSUME TypeOK, SlotsInv, NEW t \in Torn(flash[Target]),
         flash' = [flash EXCEPT ![Target] = t]
  PROVE  flash' \in [Slots -> SlotStates] /\ SlotsInv'
<1>1. Target \in Slots /\ flash[Target] \in SlotStates /\ Headed(flash[Target])
  BY DEF Target, Slots, TypeOK, SlotsInv
<1>2. t \in SlotStates /\ Headed(t)
  BY <1>1, TornSlot
<1> QED
  BY <1>1, <1>2 DEF TypeOK, SlotsInv

-----------------------------------------------------------------------------
(* What the store may rely on.  Only the slot that is not loaded is written   *)
(* to, and of two valid slots one is the other's successor.                   *)

Successor(g) == IF g + 1 = GenMod THEN 0 ELSE g + 1

Loaded ==
  IF active = -1
    THEN gen = 0 /\ ~Valid(0) /\ ~Valid(1)
    ELSE /\ Valid(active) /\ flash[active].gen = gen
         /\ Valid(Target) => gen = Successor(flash[Target].gen)

Finished ==
  /\ Valid(Target) /\ flash[Target].gen = NextGeneration /\ flash[Target].body = image
  /\ IF active = -1 THEN gen = 0 /\ ~Valid(1) ELSE Valid(active) /\ flash[active].gen = gen

Adjacent ==
  Valid(0) /\ Valid(1) =>
    \/ flash[0].gen = Successor(flash[1].gen)
    \/ flash[1].gen = Successor(flash[0].gen)

Headers(body) == [gen |-> NextGeneration, crc |-> crc, body |-> body, marker |-> FALSE]

CommitInv ==
  /\ commit \in DOMAIN Following \union {"done"} => crc = image /\ dirty
  /\ commit = "header" => flash[Target] = Blank
  /\ commit = "body" => flash[Target] = Headers(None)
  /\ commit = "marker" => flash[Target] = Headers(crc)

LoadInv ==
  /\ commit \notin {"off", "done"} => Loaded
  /\ commit = "done" => Finished
  /\ commit = "off" => Adjacent

CleanInv == commit = "idle" /\ ~dirty => active # -1 /\ image = flash[active].body

GoodInv == good => IF commit = "off" THEN Valid(0) \/ Valid(1) ELSE active # -1 \/ commit = "done"

StoreInv == SlotsInv /\ CommitInv /\ LoadInv /\ CleanInv /\ GoodInv

LEMMA OfTwoSlots == Target \in Slots /\ (active \in Slots => Target = 1 - active) /\ Slots = {0, 1}
BY DEF Target, Slots

LEMMA SuccessorNewer ==
  ASSUME NEW g \in 0 .. GenMod - 1
  PROVE  Newer(Successor(g), g) /\ ~Newer(g, Successor(g))
BY NothingWritten DEF Successor, Newer

\* A boot now would load the slot that is loaded, or the one just finished.
LEMMA LoadedSelected ==
  ASSUME TypeOK, SlotsInv, Loaded
  PROVE  Selected = active
<1>1. CASE active = -1
  BY <1>1 DEF Loaded, Selected
<1>2. CASE active = 0
  <2>1. Target = 1 /\ 0 \in Slots /\ 1 \in Slots
    BY <1>2 DEF Target, Slots
  <2>2. Valid(0) /\ flash[0].gen = gen
    BY <1>2 DEF Loaded
  <2>3. Valid(1) => ~Newer(flash[1].gen, flash[0].gen)
    <3>1. SUFFICES ASSUME Valid(1)
                   PROVE  ~Newer(flash[1].gen, flash[0].gen)
      OBVIOUS
    <3>2. flash[1].gen \in 0 .. GenMod - 1
      BY <2>1, <3>1, SlotBody DEF TypeOK, SlotsInv
    <3> QED
      BY <1>2, <2>1, <2>2, <3>1, <3>2, SuccessorNewer DEF Loaded
  <2> QED
    BY <1>2, <2>2, <2>3 DEF Selected
<1>3. CASE active = 1
  <2>1. Target = 0 /\ 0 \in Slots /\ 1 \in Slots
    BY <1>3 DEF Target, Slots
  <2>2. Valid(1) /\ flash[1].gen = gen
    BY <1>3 DEF Loaded
  <2>3. Valid(0) => Newer(flash[1].gen, flash[0].gen)
    <3>1. SUFFICES ASSUME Valid(0)
                   PROVE  Newer(flash[1].gen, flash[0].gen)
      OBVIOUS
    <3>2. flash[0].gen \in 0 .. GenMod - 1
      BY <2>1, <3>1, SlotBody DEF TypeOK, SlotsInv
    <3> QED
      BY <1>3, <2>1, <2>2, <3>1, <3>2, SuccessorNewer DEF Loaded
  <2> QED
    BY <1>3, <2>2, <2>3 DEF Selected
<1> QED
  BY <1>1, <1>2, <1>3 DEF TypeOK

LEMMA FinishedSelected ==
  ASSUME TypeOK, SlotsInv, Finished
  PROVE  Selected = Target
<1>0. gen \in 0 .. GenMod - 1 /\ NextGeneration = Successor(gen)
  BY DEF TypeOK, NextGeneration, Successor
<1>1. CASE active = -1
  <2>1. Target = 0
    BY <1>1 DEF Target
  <2> QED
    BY <1>1, <2>1 DEF Finished, Selected
<1>2. CASE active = 0
  <2>1. Target = 1
    BY <1>2 DEF Target
  <2>2. Newer(flash[1].gen, flash[0].gen)
    BY <1>0, <1>2, <2>1, SuccessorNewer DEF Finished
  <2> QED
    BY <1>2, <2>1, <2>2 DEF Finished, Selected
<1>3. CASE active = 1
  <2>1. Target = 0
    BY <1>3 DEF Target
  <2>2. ~Newer(flash[1].gen, flash[0].gen)
    BY <1>0, <1>3, <2>1, SuccessorNewer DEF Finished
  <2> QED
    BY <1>3, <2>1, <2>2 DEF Finished, Selected
<1> QED
  BY <1>1, <1>2, <1>3 DEF TypeOK

-----------------------------------------------------------------------------
(* One step at a time.                                                       *)

\* A write to the target leaves the other slot as it is.
LEMMA TargetWritten ==
  ASSUME TypeOK, UNCHANGED <<gen, active>>, NEW t, flash' = [flash EXCEPT ![Target] = t]
  PROVE  /\ Target' = Target /\ NextGeneration' = NextGeneration
         /\ flash'[Target] = t /\ (Valid(Target)' <=> ValidSlot(t))
         /\ \A s \in Slots \ {Target} : flash'[s] = flash[s] /\ (Valid(s)' <=> Valid(s))
<1>1. Target' = Target /\ Target \in Slots /\ NextGeneration' = NextGeneration
  BY DEF Target, Slots, NextGeneration
<1>2. flash'[Target] = t /\ \A s \in Slots \ {Target} : flash'[s] = flash[s]
  BY <1>1 DEF TypeOK
<1> QED
  BY <1>1, <1>2 DEF Valid, ValidSlot

LEMMA KeepLoaded ==
  ASSUME TypeOK, Loaded, UNCHANGED <<gen, active>>,
         NEW t, flash' = [flash EXCEPT ![Target] = t],
         ValidSlot(t) => t = flash[Target]
  PROVE  /\ Loaded'
         /\ active # -1 => flash'[active] = flash[active]
<1>1. ValidSlot(t) => Valid(Target)
  BY DEF ValidSlot, Valid
<1>2. CASE active = -1
  <2>1. Target = 0 /\ 1 \in Slots \ {Target}
    BY <1>2 DEF Target, Slots
  <2> QED
    BY <1>1, <1>2, <2>1, TargetWritten DEF Loaded
<1>3. CASE active # -1
  <2>1. active \in Slots \ {Target}
    BY <1>3 DEF Target, Slots, TypeOK
  <2>2. flash'[active] = flash[active] /\ Valid(active)' /\ active' # -1
    BY <1>3, <2>1, TargetWritten DEF Loaded
  <2>3. Valid(Target)' => gen' = Successor(flash'[Target'].gen)
    BY <1>1, <1>3, TargetWritten DEF Loaded, Successor
  <2> QED
    BY <1>3, <2>2, <2>3, TargetWritten DEF Loaded
<1> QED
  BY <1>2, <1>3

LEMMA StepType ==
  ASSUME TypeOK, SlotsInv, CrcInv, [Next]_vars
  PROVE  TypeOK' /\ SlotsInv'
<1>1. CASE UNCHANGED vars
  BY <1>1 DEF vars, TypeOK, SlotsInv, Headed
<1>2. CASE Load
  <2>1. image' \in Images /\ gen' \in 0 .. GenMod - 1
    <3>1. CASE Selected = -1
      BY <1>2, <3>1, NothingWritten DEF Load
    <3>2. CASE Selected # -1
      <4>1. Selected \in Slots /\ Valid(Selected)
        BY <3>2, SelectedType DEF Slots
      <4> QED
        BY <1>2, <3>2, <4>1, SlotBody DEF Load, TypeOK, SlotsInv
    <3> QED
      BY <3>1, <3>2
  <2>2. active' \in {-1, 0, 1} /\ dirty' \in BOOLEAN /\ commit' = "idle"
        /\ UNCHANGED <<flash, crc, good>>
    BY <1>2, SelectedType DEF Load
  <2> QED
    BY <2>1, <2>2 DEF TypeOK, SlotsInv, Headed
<1>3. ASSUME NEW w \in Words, NEW v \in Values, WriteWord(w, v)
      PROVE  TypeOK' /\ SlotsInv'
  <2>1. image' \in Images
    BY <1>3 DEF WriteWord, TypeOK, Images
  <2> QED
    BY <1>3, <2>1 DEF WriteWord, TypeOK, SlotsInv, Headed
<1>4. CASE CommitBegin
  BY <1>4 DEF CommitBegin, ram, TypeOK, SlotsInv, Headed, Following
<1>5. CASE FlashOperation
  <2>1. commit \in DOMAIN Following /\ UNCHANGED <<image, gen, active, dirty, crc, good>>
        /\ flash' = [flash EXCEPT ![Target] = Written(flash[Target])]
        /\ commit' = Following[commit]
    BY <1>5 DEF FlashOperation, ram
  <2>2. Target \in Slots /\ flash[Target] \in SlotStates /\ Headed(flash[Target])
    BY OfTwoSlots DEF TypeOK, SlotsInv
  <2>3. Written(flash[Target]) \in SlotStates
    BY <2>1, <2>2, WrittenType
  <2>4. Headed(Written(flash[Target]))
    <3>1. CASE commit = "erase"
      BY <3>1, BlankType DEF Written
    <3>2. CASE commit = "header"
      <4>1. crc \in Images /\ NextGeneration \in 0 .. GenMod - 1
        BY <2>1, NextGenerationType DEF CrcInv, TypeOK
      <4> QED
        BY <2>2, <3>2, <4>1, NothingWritten DEF Written, Headed, SlotStates
    <3>3. CASE commit = "body"
      BY <2>2, <3>3 DEF Written, Headed, SlotStates
    <3>4. CASE commit = "marker"
      BY <2>2, <3>4 DEF Written, Headed, SlotStates
    <3> QED
      BY <2>1, <3>1, <3>2, <3>3, <3>4 DEF Following
  <2>5. flash' \in [Slots -> SlotStates] /\ SlotsInv'
    BY <2>1, <2>2, <2>3, <2>4 DEF TypeOK, SlotsInv
  <2>6. commit' \in DOMAIN Following \union {"off", "idle", "done"}
    BY <2>1 DEF Following
  <2> QED
    BY <2>1, <2>5, <2>6 DEF TypeOK
<1>6. CASE FlashError
  <2>1. flash' \in [Slots -> SlotStates] /\ SlotsInv'
    BY <1>6, TornFlash DEF FlashError
  <2> QED
    BY <1>6, <2>1 DEF FlashError, ram, TypeOK
<1>7. CASE CommitEnd
  <2>1. gen' \in 0 .. GenMod - 1 /\ active' \in {-1, 0, 1}
    BY <1>7, NextGenerationType, OfTwoSlots DEF CommitEnd, TypeOK
  <2> QED
    BY <1>7, <2>1 DEF CommitEnd, TypeOK, SlotsInv, Headed
<1>8. CASE PowerLoss
  <2>1. flash' \in [Slots -> SlotStates] /\ SlotsInv'
    BY <1>8, TornFlash DEF PowerLoss, TypeOK, SlotsInv, Headed
  <2>2. image' \in Images /\ gen' \in 0 .. GenMod - 1
    BY <1>8, NothingWritten DEF PowerLoss
  <2> QED
    BY <1>8, <2>1, <2>2 DEF PowerLoss, TypeOK
<1> QED
  BY <1>1, <1>2, <1>3, <1>4, <1>5, <1>6, <1>7, <1>8 DEF Next

LEMMA StepCommit ==
  ASSUME ~Overlapping, TypeOK, CommitInv, [Next]_vars
  PROVE  CommitInv'
<1>1. CASE UNCHANGED vars
  BY <1>1 DEF vars, CommitInv, Target, Headers, NextGeneration
<1>2. CASE Load \/ FlashError \/ CommitEnd \/ PowerLoss
  BY <1>2 DEF Load, FlashError, CommitEnd, PowerLoss, CommitInv, Following
<1>3. ASSUME NEW w \in Words, NEW v \in Values, WriteWord(w, v)
      PROVE  CommitInv'
  BY <1>3 DEF WriteWord, CommitInv, Following
<1>4. CASE CommitBegin
  BY <1>4 DEF CommitBegin, ram, CommitInv
<1>5. CASE FlashOperation
  <2>1. /\ commit \in DOMAIN Following /\ UNCHANGED <<image, gen, active, crc>>
        /\ flash' = [flash EXCEPT ![Target] = Written(flash[Target])]
        /\ commit' = Following[commit] /\ crc = image /\ dirty'
    BY <1>5 DEF FlashOperation, ram, CommitInv
  <2>2. /\ Target' = Target /\ NextGeneration' = NextGeneration
        /\ flash'[Target] = Written(flash[Target])
    BY <2>1, TargetWritten
  <2>3. CASE commit = "erase"
    BY <2>1, <2>2, <2>3 DEF CommitInv, Following, Written
  <2>4. CASE commit = "header"
    <3>1. Written(Blank) = Headers(None)
      BY <2>4 DEF Written, Blank, Headers
    <3>2. flash'[Target'] = Headers(None) /\ Headers(None)' = Headers(None)
      BY <2>1, <2>2, <2>4, <3>1 DEF CommitInv, Headers
    <3>3. commit' = "body" /\ crc' = image' /\ dirty'
      BY <2>1, <2>4 DEF Following
    <3> QED
      BY <3>2, <3>3 DEF CommitInv
  <2>5. CASE commit = "body"
    <3>1. Written(Headers(None)) = Headers(crc)
      BY <2>1, <2>5 DEF Written, Headers
    <3>2. flash'[Target'] = Headers(crc) /\ Headers(crc)' = Headers(crc)
      BY <2>1, <2>2, <2>5, <3>1 DEF CommitInv, Headers
    <3>3. commit' = "marker" /\ crc' = image' /\ dirty'
      BY <2>1, <2>5 DEF Following
    <3> QED
      BY <3>2, <3>3 DEF CommitInv
  <2>6. CASE commit = "marker"
    BY <2>1, <2>6 DEF CommitInv, Following
  <2> QED
    BY <2>1, <2>3, <2>4, <2>5, <2>6 DEF Following
<1> QED
  BY <1>1, <1>2, <1>3, <1>4, <1>5 DEF Next

\* Load picks the successor of the other slot.
LEMMA LoadStep ==
  ASSUME TypeOK, StoreInv, Load
  PROVE  LoadInv' /\ CleanInv' /\ GoodInv'
<1>1. /\ commit = "off" /\ commit' = "idle" /\ active' = Selected
      /\ image' = IF Selected = -1 THEN Default ELSE flash[Selected].body
      /\ gen' = IF Selected = -1 THEN 0 ELSE flash[Selected].gen
      /\ dirty' = (Selected = -1) /\ UNCHANGED <<flash, good>>
  BY DEF Load
<1>2. (Valid(0)' <=> Valid(0)) /\ (Valid(1)' <=> Valid(1)) /\ Adjacent
  BY <1>1 DEF Valid, StoreInv, LoadInv
<1>3. ASSUME NEW s \in Slots, Valid(s)
      PROVE  flash[s].gen \in 0 .. GenMod - 1
  BY <1>3, SlotBody DEF StoreInv, SlotsInv, TypeOK
<1>4. 0 \in Slots /\ 1 \in Slots
  BY DEF Slots
<1>5. CASE Selected = -1
  <2>1. ~Valid(0) /\ ~Valid(1)
    BY <1>5 DEF Selected
  <2>2. Loaded' /\ dirty' /\ commit' = "idle"
    BY <1>1, <1>2, <1>5, <2>1 DEF Loaded
  <2>3. ~good'
    BY <1>1, <2>1 DEF GoodInv, StoreInv
  <2> QED
    BY <2>2, <2>3 DEF LoadInv, CleanInv, GoodInv
<1>6. CASE Selected = 0
  <2>1. Target' = 1 /\ Valid(0) /\ (Valid(1) => ~Newer(flash[1].gen, flash[0].gen))
    BY <1>1, <1>6 DEF Target, Selected
  <2>2. Valid(1) => flash[0].gen = Successor(flash[1].gen)
    BY <1>2, <1>3, <1>4, <2>1, SuccessorNewer DEF Adjacent
  <2>3. Loaded'
    BY <1>1, <1>2, <1>6, <2>1, <2>2 DEF Loaded, Successor
  <2> QED
    BY <1>1, <1>6, <2>3 DEF LoadInv, CleanInv, GoodInv, Following
<1>7. CASE Selected = 1
  <2>1. Target' = 0 /\ Valid(1) /\ (Valid(0) => Newer(flash[1].gen, flash[0].gen))
    BY <1>1, <1>7 DEF Target, Selected
  <2>2. Valid(0) => flash[1].gen = Successor(flash[0].gen)
    BY <1>2, <1>3, <1>4, <2>1, SuccessorNewer DEF Adjacent
  <2>3. Loaded'
    BY <1>1, <1>2, <1>7, <2>1, <2>2 DEF Loaded, Successor
  <2> QED
    BY <1>1, <1>7, <2>3 DEF LoadInv, CleanInv, GoodInv, Following
<1> QED
  BY <1>5, <1>6, <1>7, SelectedType

LEMMA WriteStep ==
  ASSUME ~Overlapping, TypeOK, StoreInv, NEW w \in Words, NEW v \in Values, WriteWord(w, v)
  PROVE  LoadInv' /\ CleanInv' /\ GoodInv'
<1>1. commit = "idle" /\ commit' = "idle" /\ dirty' /\ UNCHANGED <<flash, gen, active, good>>
  BY DEF WriteWord
<1>2. Loaded'
  BY <1>1 DEF StoreInv, LoadInv, Loaded, Valid, Target, Successor, Following
<1> QED
  BY <1>1, <1>2 DEF StoreInv, LoadInv, CleanInv, GoodInv

LEMMA OperationStep ==
  ASSUME TypeOK, StoreInv, FlashOperation
  PROVE  LoadInv' /\ CleanInv' /\ GoodInv'
<1> DEFINE t == Written(flash[Target])
<1>1. /\ commit \in DOMAIN Following /\ UNCHANGED <<image, gen, active, dirty, crc, good>>
      /\ flash' = [flash EXCEPT ![Target] = t]
      /\ commit' = Following[commit] /\ crc = image
  BY DEF FlashOperation, ram, StoreInv, CommitInv
<1>2. Loaded /\ (good => active # -1)
  BY <1>1 DEF StoreInv, LoadInv, GoodInv, Following
<1>3. CASE commit # "marker"
  <2>1. ~ValidSlot(t)
    <3>1. CASE commit = "erase"
      BY <3>1, BlankType DEF Written
    <3>2. CASE commit = "header"
      <4>1. t = [Blank EXCEPT !.gen = NextGeneration, !.crc = crc]
        BY <3>2 DEF Written, StoreInv, CommitInv
      <4> QED
        BY <4>1 DEF Blank, ValidSlot
    <3>3. CASE commit = "body"
      <4>1. t = [Headers(None) EXCEPT !.body = image]
        BY <3>3 DEF Written, StoreInv, CommitInv
      <4> QED
        BY <4>1 DEF Headers, ValidSlot
    <3> QED
      BY <1>1, <1>3, <3>1, <3>2, <3>3 DEF Following
  <2> HIDE DEF t
  <2>2. Loaded'
    BY <1>1, <1>2, <2>1, KeepLoaded
  <2>3. commit' \notin {"off", "idle", "done"}
    BY <1>1, <1>3 DEF Following
  <2> QED
    BY <1>1, <1>2, <2>2, <2>3 DEF LoadInv, CleanInv, GoodInv
<1>4. CASE commit = "marker"
  <2>1. /\ flash[Target].gen = NextGeneration /\ flash[Target].crc = crc
        /\ flash[Target].body = crc /\ flash[Target] \in SlotStates
    BY <1>4, OfTwoSlots DEF StoreInv, CommitInv, Headers, TypeOK
  <2>2. NextGeneration # None
    BY NextGenerationType, NothingWritten DEF TypeOK
  <2>3. ValidSlot(t) /\ t.gen = NextGeneration /\ t.body = image
    <3>1. t = [flash[Target] EXCEPT !.marker = TRUE]
      BY <1>4 DEF Written
    <3> HIDE DEF t
    <3>2. t.gen = NextGeneration /\ t.crc = crc /\ t.body = crc /\ t.marker
      BY <2>1, <3>1 DEF SlotStates
    <3> QED
      BY <1>1, <2>2, <3>2 DEF ValidSlot
  <2> HIDE DEF t
  <2>4. /\ Target' = Target /\ NextGeneration' = NextGeneration
        /\ flash'[Target] = t /\ Valid(Target)'
        /\ \A s \in Slots \ {Target} : flash'[s] = flash[s] /\ (Valid(s)' <=> Valid(s))
    BY <1>1, <2>3, TargetWritten
  <2>5. IF active' = -1 THEN gen' = 0 /\ ~Valid(1)' ELSE Valid(active)' /\ flash'[active].gen = gen'
    <3>1. CASE active = -1
      <4>1. 1 \in Slots \ {Target}
        BY <3>1 DEF Target, Slots
      <4> QED
        BY <1>1, <1>2, <2>4, <3>1, <4>1 DEF Loaded
    <3>2. CASE active # -1
      <4>1. active \in Slots \ {Target}
        BY <3>2 DEF Target, Slots, TypeOK
      <4> QED
        BY <1>1, <1>2, <2>4, <3>2, <4>1 DEF Loaded
    <3> QED
      BY <3>1, <3>2
  <2>6. Finished'
    BY <1>1, <2>3, <2>4, <2>5 DEF Finished
  <2>7. commit' = "done"
    BY <1>1, <1>4 DEF Following
  <2> QED
    BY <2>6, <2>7 DEF LoadInv, CleanInv, GoodInv
<1> QED
  BY <1>3, <1>4

LEMMA StepCrc ==
  ASSUME TypeOK, CrcInv, [Next]_vars
  PROVE  CrcInv'
<1>1. CASE UNCHANGED vars
  BY <1>1 DEF vars, CrcInv
<1>2. CASE Load \/ FlashError \/ CommitEnd \/ PowerLoss
  BY <1>2 DEF Load, FlashError, CommitEnd, PowerLoss, CrcInv, Following
<1>3. ASSUME NEW w \in Words, NEW v \in Values, WriteWord(w, v)
      PROVE  CrcInv'
  BY <1>3 DEF WriteWord, CrcInv
<1>4. CASE CommitBegin
  BY <1>4 DEF CommitBegin, TypeOK, CrcInv
<1>5. CASE FlashOperation
  BY <1>5 DEF FlashOperation, CrcInv
<1> QED
  BY <1>1, <1>2, <1>3, <1>4, <1>5 DEF Next

LEMMA ErrorStep ==
  ASSUME TypeOK, StoreInv, FlashError
  PROVE  LoadInv' /\ CleanInv' /\ GoodInv'
<1>1. commit \in DOMAIN Following /\ UNCHANGED <<image, gen, active, dirty, good>>
      /\ commit' = "idle" /\ dirty
  BY DEF FlashError, ram, StoreInv, CommitInv
<1>2. PICK t \in Torn(flash[Target]) : flash' = [flash EXCEPT ![Target] = t]
  BY DEF FlashError
<1>3. ValidSlot(t) => t = flash[Target]
  BY TornSlot, OfTwoSlots DEF StoreInv, SlotsInv, TypeOK
<1>4. Loaded /\ (good => active # -1)
  BY <1>1 DEF StoreInv, LoadInv, GoodInv, Following
<1>5. Loaded'
  BY <1>1, <1>2, <1>3, <1>4, KeepLoaded
<1> QED
  BY <1>1, <1>4, <1>5 DEF LoadInv, CleanInv, GoodInv

\* Commit ends on the slot that has just become valid.
LEMMA EndStep ==
  ASSUME TypeOK, StoreInv, CommitEnd
  PROVE  LoadInv' /\ CleanInv' /\ GoodInv'
<1>1. /\ active' = Target /\ gen' = NextGeneration /\ commit' = "idle" /\ good'
      /\ UNCHANGED <<flash, image>> /\ Finished
  BY DEF CommitEnd, StoreInv, LoadInv
<1>2. NextGeneration = Successor(gen)
  BY DEF NextGeneration, Successor
<1>3. (Valid(0)' <=> Valid(0)) /\ (Valid(1)' <=> Valid(1))
  BY <1>1 DEF Valid
<1>4. CASE active = -1
  <2>1. Target = 0 /\ Target' = 1 /\ active' = 0
    BY <1>1, <1>4 DEF Target
  <2> QED
    BY <1>1, <1>3, <1>4, <2>1 DEF Finished, Loaded, LoadInv, CleanInv, GoodInv
<1>5. CASE active = 0
  <2>1. Target = 1 /\ Target' = 0 /\ active' = 1
    BY <1>1, <1>5 DEF Target
  <2>2. Loaded'
    BY <1>1, <1>2, <1>3, <1>5, <2>1 DEF Finished, Loaded, Successor
  <2> QED
    BY <1>1, <1>5, <2>1, <2>2 DEF Finished, LoadInv, CleanInv, GoodInv
<1>6. CASE active = 1
  <2>1. Target = 0 /\ Target' = 1 /\ active' = 0
    BY <1>1, <1>6 DEF Target
  <2>2. Loaded'
    BY <1>1, <1>2, <1>3, <1>6, <2>1 DEF Finished, Loaded, Successor
  <2> QED
    BY <1>1, <1>6, <2>1, <2>2 DEF Finished, LoadInv, CleanInv, GoodInv
<1> QED
  BY <1>4, <1>5, <1>6 DEF TypeOK

\* A torn operation leaves the slots as they were, or the target invalid as before.
LEMMA TornStored ==
  ASSUME TypeOK, SlotsInv, Loaded,
         NEW t, flash' = [flash EXCEPT ![Target] = t], ValidSlot(t) => t = flash[Target]
  PROVE  /\ Stored' = Stored /\ Adjacent'
         /\ active # -1 => Valid(0)' \/ Valid(1)'
<1>1. Selected = active
  BY LoadedSelected
<1>2. CASE flash' = flash
  <2>1. (Valid(0)' <=> Valid(0)) /\ (Valid(1)' <=> Valid(1))
    BY <1>2 DEF Valid
  <2>2. Selected' = Selected
    BY <1>2, <2>1 DEF Selected
  <2>3. Stored' = Stored
    BY <1>2, <2>2 DEF Stored
  <2>4. Adjacent'
    <3>1. CASE active = -1
      BY <2>1, <3>1 DEF Loaded, Adjacent
    <3>2. CASE active = 0
      BY <1>2, <2>1, <3>2 DEF Loaded, Adjacent, Target, Successor
    <3>3. CASE active = 1
      BY <1>2, <2>1, <3>3 DEF Loaded, Adjacent, Target, Successor
    <3> QED
      BY <3>1, <3>2, <3>3 DEF TypeOK
  <2> QED
    BY <2>1, <2>3, <2>4 DEF Loaded, TypeOK
<1>3. CASE flash' # flash
  <2>1. Target \in Slots /\ flash \in [Slots -> SlotStates]
    BY OfTwoSlots DEF TypeOK
  <2>2. ~ValidSlot(t)
    BY <1>3, <2>1
  <2>3. flash'[Target] = t /\ \A s \in Slots \ {Target} : flash'[s] = flash[s]
    BY <2>1
  <2>4. CASE active = -1
    <3>1. Target = 0 /\ 1 \in Slots \ {Target}
      BY <2>4 DEF Target, Slots
    <3>2. ~Valid(0)' /\ ~Valid(1)'
      BY <2>2, <2>3, <2>4, <3>1 DEF Valid, ValidSlot, Loaded
    <3>3. Selected' = -1
      BY <3>2 DEF Selected
    <3> QED
      BY <1>1, <2>4, <3>2, <3>3 DEF Stored, Adjacent
  <2>5. CASE active = 0
    <3>1. Target = 1 /\ 0 \in Slots \ {Target}
      BY <2>5 DEF Target, Slots
    <3>2. Valid(0)' /\ ~Valid(1)' /\ flash'[0] = flash[0]
      BY <2>2, <2>3, <2>5, <3>1 DEF Valid, ValidSlot, Loaded
    <3>3. Selected' = 0
      BY <3>2 DEF Selected
    <3> QED
      BY <1>1, <2>5, <3>2, <3>3 DEF Stored, Adjacent
  <2>6. CASE active = 1
    <3>1. Target = 0 /\ 1 \in Slots \ {Target}
      BY <2>6 DEF Target, Slots
    <3>2. Valid(1)' /\ ~Valid(0)' /\ flash'[1] = flash[1]
      BY <2>2, <2>3, <2>6, <3>1 DEF Valid, ValidSlot, Loaded
    <3>3. Selected' = 1
      BY <3>2 DEF Selected
    <3> QED
      BY <1>1, <2>6, <3>2, <3>3 DEF Stored, Adjacent
  <2> QED
    BY <2>4, <2>5, <2>6 DEF TypeOK
<1> QED
  BY <1>2, <1>3

LEMMA PowerStep ==
  ASSUME TypeOK, StoreInv, PowerLoss
  PROVE  /\ LoadInv' /\ CleanInv' /\ GoodInv'
         /\ Stored' = Stored
<1>1. commit # "off" /\ commit' = "off" /\ good' = good
  BY DEF PowerLoss
<1>2. CASE commit \in DOMAIN Following
  <2>1. PICK t \in Torn(flash[Target]) : flash' = [flash EXCEPT ![Target] = t]
    BY <1>2 DEF PowerLoss
  <2>2. ValidSlot(t) => t = flash[Target]
    BY TornSlot, OfTwoSlots DEF StoreInv, SlotsInv, TypeOK
  <2>3. Loaded /\ (good => active # -1)
    BY <1>2 DEF StoreInv, LoadInv, GoodInv, Following
  <2>4. Stored' = Stored /\ Adjacent' /\ (active # -1 => Valid(0)' \/ Valid(1)')
    BY <2>1, <2>2, <2>3, TornStored DEF StoreInv
  <2> QED
    BY <1>1, <2>3, <2>4 DEF LoadInv, CleanInv, GoodInv
<1>3. CASE commit \notin DOMAIN Following
  <2>1. flash' = flash
    BY <1>3 DEF PowerLoss
  <2>2. (Valid(0)' <=> Valid(0)) /\ (Valid(1)' <=> Valid(1))
    BY <2>1 DEF Valid
  <2>3. Stored' = Stored
    BY <2>1, <2>2 DEF Stored, Selected
  <2>4. CASE commit = "done"
    <3>1. Finished
      BY <2>4 DEF StoreInv, LoadInv
    <3>2. NextGeneration = Successor(gen)
      BY DEF NextGeneration, Successor
    <3>3. Valid(Target) /\ Adjacent
      BY <3>1, <3>2 DEF Finished, Adjacent, Target, TypeOK
    <3>4. Adjacent' /\ (Valid(0)' \/ Valid(1)')
      BY <2>1, <2>2, <3>3 DEF Adjacent, Target, Successor
    <3> QED
      BY <1>1, <3>4, <2>3 DEF LoadInv, CleanInv, GoodInv
  <2>5. CASE commit # "done"
    <3>1. Loaded /\ (good => active # -1)
      BY <1>1, <2>5 DEF StoreInv, LoadInv, GoodInv
    <3>2. Adjacent
      BY <3>1 DEF Loaded, Adjacent, Target, Successor, TypeOK
    <3>3. Adjacent' /\ (active # -1 => Valid(0)' \/ Valid(1)')
      BY <2>1, <2>2, <3>1, <3>2 DEF Adjacent, Loaded, Successor, TypeOK
    <3> QED
      BY <1>1, <2>3, <3>1, <3>3 DEF LoadInv, CleanInv, GoodInv
  <2> QED
    BY <2>4, <2>5
<1> QED
  BY <1>2, <1>3

LEMMA StepStore ==
  ASSUME ~Overlapping, TypeOK, StoreInv, [Next]_vars
  PROVE  StoreInv'
<1>1. SlotsInv'
  <2>1. CrcInv
    BY DEF StoreInv, CommitInv, CrcInv, TypeOK
  <2> QED
    BY <2>1, StepType DEF StoreInv
<1>2. CommitInv'
  BY StepCommit DEF StoreInv
<1>3. LoadInv' /\ CleanInv' /\ GoodInv'
  <2>1. CASE UNCHANGED vars
    BY <2>1 DEF vars, StoreInv, LoadInv, CleanInv, GoodInv, Loaded, Finished, Adjacent,
       Valid, Target, NextGeneration, Successor
  <2>2. CASE CommitBegin
    <3>1. /\ commit = "idle" /\ commit' = "erase" /\ UNCHANGED <<flash, image, gen, active, dirty, good>>
          /\ Loaded
      BY <2>2 DEF CommitBegin, ram, StoreInv, LoadInv
    <3>2. Loaded'
      BY <3>1 DEF Loaded, Valid, Target, Successor
    <3> QED
      BY <3>1, <3>2 DEF StoreInv, LoadInv, CleanInv, GoodInv
  <2> QED
    BY <2>1, <2>2, LoadStep, WriteStep, OperationStep, ErrorStep, EndStep, PowerStep DEF Next
<1> QED
  BY <1>1, <1>2, <1>3 DEF StoreInv

LEMMA InitStore == Init => TypeOK /\ StoreInv /\ CrcInv
<1> SUFFICES ASSUME Init
             PROVE  TypeOK /\ StoreInv /\ CrcInv
  OBVIOUS
<1>1. flash = [s \in Slots |-> Blank]
  BY DEF Init
<1>2. \A s \in Slots : ~Valid(s) /\ Headed(flash[s])
  BY <1>1, BlankType DEF Valid, ValidSlot
<1>3. TypeOK
  <2>1. flash \in [Slots -> SlotStates]
    BY <1>1, BlankType
  <2>2. /\ image \in Images /\ gen \in 0 .. GenMod - 1 /\ active \in {-1, 0, 1}
        /\ commit = "off" /\ crc = None
    BY NothingWritten DEF Init
  <2>3. dirty = FALSE /\ good = FALSE
    BY DEF Init
  <2> QED
    BY <2>1, <2>2, <2>3 DEF TypeOK
<1>4. SlotsInv /\ CrcInv /\ CommitInv
  BY <1>2 DEF Init, SlotsInv, CrcInv, CommitInv, Following
<1>5. LoadInv /\ CleanInv /\ GoodInv
  BY <1>2 DEF Init, LoadInv, Adjacent, Slots, CleanInv, GoodInv
<1> QED
  BY <1>3, <1>4, <1>5 DEF StoreInv

-----------------------------------------------------------------------------
(* Theorems.                                                                 *)

(***************************************************************************)
(* Every field of the store keeps its range; the generation wraps at       *)
(* GenMod.  Also when word writes come while Commit runs.                  *)
(***************************************************************************)
THEOREM TypeCorrect == Spec => []TypeOK
<1>1. Init => TypeOK /\ SlotsInv /\ CrcInv
  BY InitStore DEF StoreInv
<1>2. TypeOK /\ SlotsInv /\ CrcInv /\ [Next]_vars => (TypeOK /\ SlotsInv /\ CrcInv)'
  BY StepType, StepCrc
<1> QED
  BY <1>1, <1>2, PTL DEF Spec

LEMMA StoreCorrect == ~Overlapping => (Spec => [](TypeOK /\ StoreInv))
<1> SUFFICES ASSUME ~Overlapping
             PROVE  Spec => [](TypeOK /\ StoreInv)
  OBVIOUS
<1>1. Init => TypeOK /\ StoreInv
  BY InitStore
<1>2. TypeOK /\ StoreInv /\ [Next]_vars => (TypeOK /\ StoreInv)'
  <2>1. TypeOK /\ StoreInv => CrcInv
    BY DEF StoreInv, CommitInv, CrcInv, TypeOK
  <2> QED
    BY <2>1, StepType, StepStore DEF StoreInv
<1> QED
  BY <1>1, <1>2, PTL DEF Spec

(***************************************************************************)
(* Word writes kept out of Commit, a store that says it is clean holds     *)
(* what the next boot loads.                                               *)
(***************************************************************************)
THEOREM CleanCorrect == ~Overlapping => (Spec => []CleanIsStored)
<1> SUFFICES ASSUME ~Overlapping
             PROVE  Spec => []CleanIsStored
  OBVIOUS
<1>1. TypeOK /\ StoreInv => CleanIsStored
  <2>1. SUFFICES ASSUME TypeOK, StoreInv, commit = "idle", ~dirty
                 PROVE  image = Stored
    BY DEF CleanIsStored
  <2>2. Loaded /\ active # -1 /\ image = flash[active].body
    BY <2>1 DEF StoreInv, LoadInv, CleanInv
  <2>3. Selected = active
    BY <2>1, <2>2, LoadedSelected DEF StoreInv
  <2> QED
    BY <2>2, <2>3 DEF Stored
<1> QED
  BY <1>1, StoreCorrect, PTL

(***************************************************************************)
(* Word writes kept out of Commit, a valid slot remains at every moment    *)
(* after the first successful commit, within every flash operation.        *)
(***************************************************************************)
THEOREM SurvivesCorrect == ~Overlapping => (Spec => []SlotSurvives)
<1> SUFFICES ASSUME ~Overlapping
             PROVE  Spec => []SlotSurvives
  OBVIOUS
<1>1. TypeOK /\ StoreInv => SlotSurvives
  <2>1. SUFFICES ASSUME TypeOK, StoreInv, good
                 PROVE  \E s \in Slots : Valid(s)
    BY DEF SlotSurvives
  <2>2. CASE commit = "off"
    BY <2>1, <2>2 DEF StoreInv, GoodInv, Slots
  <2>3. CASE commit = "done"
    BY <2>1, <2>3, OfTwoSlots DEF StoreInv, LoadInv, Finished
  <2>4. CASE commit \notin {"off", "done"}
    BY <2>1, <2>4 DEF StoreInv, GoodInv, LoadInv, Loaded, TypeOK, Slots
  <2> QED
    BY <2>2, <2>3, <2>4
<1> QED
  BY <1>1, StoreCorrect, PTL

-----------------------------------------------------------------------------
(* The store implements the durable image.                                   *)

\* Once the marker is written, a boot would load what is in RAM.
LEMMA FinishedStored == TypeOK /\ StoreInv /\ commit = "done" => Stored = image
<1> SUFFICES ASSUME TypeOK, StoreInv, commit = "done"
             PROVE  Stored = image
  OBVIOUS
<1>1. Finished
  BY DEF StoreInv, LoadInv
<1>2. Selected = Target
  BY <1>1, FinishedSelected DEF StoreInv
<1> QED
  BY <1>1, <1>2, OfTwoSlots DEF Stored, Finished, Slots

LEMMA SameFlash ==
  ASSUME UNCHANGED flash
  PROVE  Stored' = Stored
<1>1. (Valid(0)' <=> Valid(0)) /\ (Valid(1)' <=> Valid(1))
  BY DEF Valid
<1> QED
  BY <1>1 DEF Stored, Selected

\* While Commit has not set the marker, the stored image is that of the loaded slot.
LEMMA UnfinishedStored ==
  ASSUME TypeOK, StoreInv, FlashOperation, commit # "marker"
  PROVE  Stored' = Stored
<1> DEFINE t == Written(flash[Target])
<1>1. /\ commit \in DOMAIN Following /\ flash' = [flash EXCEPT ![Target] = t] /\ crc = image
  BY DEF FlashOperation, StoreInv, CommitInv
<1>2. Loaded
  BY <1>1 DEF StoreInv, LoadInv, Following
<1>3. ~ValidSlot(t)
  <2>1. CASE commit = "erase"
    BY <2>1, BlankType DEF Written
  <2>2. CASE commit = "header"
    <3>1. t = [Blank EXCEPT !.gen = NextGeneration, !.crc = crc]
      BY <2>2 DEF Written, StoreInv, CommitInv
    <3> QED
      BY <3>1 DEF Blank, ValidSlot
  <2>3. CASE commit = "body"
    <3>1. t = [Headers(None) EXCEPT !.body = image]
      BY <2>3 DEF Written, StoreInv, CommitInv
    <3> QED
      BY <3>1 DEF Headers, ValidSlot
  <2> QED
    BY <1>1, <2>1, <2>2, <2>3 DEF Following
<1> HIDE DEF t
<1> QED
  BY <1>1, <1>2, <1>3, TornStored DEF StoreInv

LEMMA ErrorStored ==
  ASSUME TypeOK, StoreInv, FlashError
  PROVE  Stored' = Stored
<1>1. PICK t \in Torn(flash[Target]) : flash' = [flash EXCEPT ![Target] = t]
  BY DEF FlashError
<1>2. ValidSlot(t) => t = flash[Target]
  BY TornSlot, OfTwoSlots DEF StoreInv, SlotsInv, TypeOK
<1>3. Loaded
  BY DEF FlashError, StoreInv, LoadInv, Following
<1> QED
  BY <1>1, <1>2, <1>3, TornStored DEF StoreInv

Copy == IF commit = "off" THEN Stored ELSE image

LEMMA StepDurable ==
  ASSUME ~Overlapping, TypeOK, StoreInv, [Next]_vars, (commit = "done" => Stored = image)'
  PROVE  \/ UNCHANGED <<Stored, Copy>>
         \/ Stored' = Copy /\ Copy' = Copy
         \/ Copy' = Stored /\ Stored' = Stored
         \/ \E w \in Words, v \in Values :
              Copy' = [Copy EXCEPT ![w] = v] /\ Stored' = Stored
<1>1. CASE UNCHANGED vars
  BY <1>1, SameFlash DEF vars, Copy
<1>2. CASE Load
  <2>1. Stored' = Stored /\ Copy = Stored /\ Copy' = image'
    BY <1>2, SameFlash DEF Load, Copy
  <2>2. image' = Stored
    BY <1>2 DEF Load, Stored
  <2> QED
    BY <2>1, <2>2
<1>3. ASSUME NEW w \in Words, NEW v \in Values, WriteWord(w, v)
      PROVE  Copy' = [Copy EXCEPT ![w] = v] /\ Stored' = Stored
  BY <1>3, SameFlash DEF WriteWord, Copy
<1>4. CASE CommitBegin
  BY <1>4, SameFlash DEF CommitBegin, ram, Copy
<1>5. CASE FlashOperation
  <2>1. commit # "off" /\ commit' # "off" /\ image' = image
    BY <1>5 DEF FlashOperation, ram, Following
  <2>2. Copy = image /\ Copy' = image
    BY <2>1 DEF Copy
  <2>3. CASE commit = "marker"
    <3>1. commit' = "done"
      BY <1>5, <2>3 DEF FlashOperation, Following
    <3> QED
      BY <2>1, <2>2, <3>1
  <2>4. CASE commit # "marker"
    BY <1>5, <2>2, <2>4, UnfinishedStored
  <2> QED
    BY <2>3, <2>4
<1>6. CASE FlashError
  <2>1. Copy' = Copy
    BY <1>6 DEF FlashError, ram, Copy, Following
  <2> QED
    BY <1>6, <2>1, ErrorStored
<1>7. CASE CommitEnd
  BY <1>7, SameFlash DEF CommitEnd, Copy
<1>8. CASE PowerLoss
  <2>1. Stored' = Stored
    BY <1>8, PowerStep
  <2>2. Copy' = Stored'
    BY <1>8 DEF PowerLoss, Copy
  <2> QED
    BY <2>1, <2>2
<1> QED
  BY <1>1, <1>2, <1>3, <1>4, <1>5, <1>6, <1>7, <1>8 DEF Next

(***************************************************************************)
(* The store implements the power-fail-safe image, word writes kept out of *)
(* Commit: what the next boot loads changes as a whole, only when a marker *)
(* is written, and a restart brings it back.                               *)
(***************************************************************************)
THEOREM DurableCorrect == ~Overlapping => (Spec => ImplementsDurable)
<1> SUFFICES ASSUME ~Overlapping
             PROVE  Spec => Durable!Spec
  BY DEF ImplementsDurable
<1>1. Init => Durable!Init
  <2>1. Init => Selected = -1 /\ commit = "off"
    BY BlankType DEF Init, Selected, Valid, ValidSlot, Slots
  <2> QED
    BY <2>1 DEF Stored, Durable!Init
<1>2. TypeOK /\ StoreInv /\ [Next]_vars /\ (TypeOK /\ StoreInv)' => [Durable!Next]_Durable!vars
  <2> SUFFICES ASSUME TypeOK, StoreInv, [Next]_vars, (TypeOK /\ StoreInv)'
               PROVE  [Durable!Next]_Durable!vars
    OBVIOUS
  <2>1. (TypeOK /\ StoreInv /\ commit = "done" => Stored = image)'
    BY FinishedStored, PTL
  <2>2. (commit = "done" => Stored = image)'
    BY <2>1
  <2> QED
    BY <2>2, StepDurable
    DEF Copy, Durable!Next, Durable!vars, Durable!Write, Durable!Commit, Durable!Restart
<1> QED
  BY <1>1, <1>2, StoreCorrect, PTL DEF Spec, Durable!Spec

=============================================================================
