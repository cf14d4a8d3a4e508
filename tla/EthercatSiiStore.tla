-------------------------- MODULE EthercatSiiStore --------------------------
(***************************************************************************)
(* The EtherCAT identity image (ethercat_sii_store.cpp): a copy in RAM     *)
(* that ESC word writes change, and two slots of flash that Commit writes  *)
(* in turn.  Flash operations take time: power may be lost in each of      *)
(* them, and each may report an error.                                     *)
(*                                                                         *)
(* The magic number, the sizes and the CRC of a header are one fact: the   *)
(* header was written completely.  The CRC of the image tells every other  *)
(* image apart.  Reads succeed: the flash is memory-mapped.                *)
(***************************************************************************)
EXTENDS Integers

CONSTANTS
  Words,        \* word addresses of the image
  Values,       \* what a word may hold
  Default,      \* the image the firmware brings along
  GenMod,       \* generations wrap here (2^32)
  Overlapping,  \* word writes may come while Commit runs: the store has no lock
  None          \* not written, or not completely

Images == [Words -> Values]

ASSUME StoreAssumption ==
  /\ Default \in Images
  /\ GenMod \in Nat /\ GenMod >= 4
  /\ Overlapping \in BOOLEAN
  /\ None \notin Images /\ None \notin 0 .. GenMod - 1

Slots == {0, 1}

VARIABLES
  flash,    \* the two slots
  image,    \* image_
  gen,      \* generation_
  active,   \* active_slot_, -1 when no slot is loaded
  dirty,    \* dirty_
  commit,   \* the flash operation Commit is at, "idle" outside, "off" without power
  crc,      \* the image whose CRC Commit has put into its header
  good      \* history: a Commit has succeeded

ram == <<image, gen, active, dirty>>
vars == <<flash, image, gen, active, dirty, commit, crc, good>>

Blank == [gen |-> None, crc |-> None, body |-> None, marker |-> FALSE]

Init ==
  /\ flash = [s \in Slots |-> Blank]
  /\ image = Default /\ gen = 0 /\ active = -1 /\ dirty = FALSE
  /\ commit = "off" /\ crc = None
  /\ good = FALSE

-----------------------------------------------------------------------------
(* Load.                                                                     *)

\* ValidateSlot.
Valid(s) == flash[s].marker /\ flash[s].gen # None /\ flash[s].body = flash[s].crc

\* Mutant: generations are compared as plain numbers.
NewerUnsigned(g, h) == g > h

\* GenerationNewer: the signed difference, which wraps, is positive.
Newer(g, h) ==
  LET d == IF g >= h THEN g - h ELSE g - h + GenMod
  IN  0 < d /\ 2 * d < GenMod

\* The slot Load selects, -1 when neither is valid.
Selected ==
  IF Valid(1) /\ (~Valid(0) \/ Newer(flash[1].gen, flash[0].gen)) THEN 1
  ELSE IF Valid(0) THEN 0 ELSE -1

Load ==
  /\ commit = "off"
  /\ active' = Selected
  /\ image' = IF Selected = -1 THEN Default ELSE flash[Selected].body
  /\ gen' = IF Selected = -1 THEN 0 ELSE flash[Selected].gen
  /\ dirty' = (Selected = -1)
  /\ commit' = "idle"
  /\ UNCHANGED <<flash, crc, good>>

-----------------------------------------------------------------------------
(* WriteWord and Commit.                                                     *)

WriteWord(w, v) ==
  /\ commit = "idle" \/ (Overlapping /\ commit # "off")
  /\ image' = [image EXCEPT ![w] = v]
  /\ dirty' = TRUE
  /\ UNCHANGED <<flash, gen, active, commit, crc, good>>

\* Mutant: the slot that is loaded is written over.
TargetActive == IF active = 1 THEN 1 ELSE 0

Target == IF active = 0 THEN 1 ELSE 0

\* Mutant: the generation does not wrap.
NextGenerationWide == gen + 1

NextGeneration == IF gen + 1 = GenMod THEN 0 ELSE gen + 1

\* Commit, allowed by its caller: nothing to do, or the header is made.
CommitBegin ==
  /\ commit = "idle" /\ dirty
  /\ crc' = image
  /\ commit' = "erase"
  /\ UNCHANGED <<flash, ram, good>>

\* What the flash operation in progress makes of the slot when it completes ...
Written(s) ==
  CASE commit = "erase" -> Blank
    [] commit = "header" -> [s EXCEPT !.gen = NextGeneration, !.crc = crc]
    [] commit = "body" -> [s EXCEPT !.body = image]
    [] commit = "marker" -> [s EXCEPT !.marker = TRUE]

\* ... and what it may leave behind when it does not.
Torn(s) ==
  IF commit = "erase"
    THEN {t \in [gen : {s.gen, None}, crc : {s.crc, None}, body : {s.body, None},
                 marker : {s.marker, FALSE}] : t.crc = None <=> t.gen = None}
    ELSE {s}

Following == [erase |-> "header", header |-> "body", body |-> "marker", marker |-> "done"]

FlashOperation ==
  /\ commit \in DOMAIN Following
  /\ flash' = [flash EXCEPT ![Target] = Written(@)]
  /\ commit' = Following[commit]
  /\ UNCHANGED <<ram, crc, good>>

\* Mutant: an error leaves the copy clean.
FlashErrorClean ==
  /\ commit \in DOMAIN Following
  /\ \E t \in Torn(flash[Target]) : flash' = [flash EXCEPT ![Target] = t]
  /\ commit' = "idle" /\ crc' = None /\ dirty' = FALSE
  /\ UNCHANGED <<image, gen, active, good>>

\* The first error ends Commit; nothing in RAM has changed.
FlashError ==
  /\ commit \in DOMAIN Following
  /\ \E t \in Torn(flash[Target]) : flash' = [flash EXCEPT ![Target] = t]
  /\ commit' = "idle" /\ crc' = None
  /\ UNCHANGED <<ram, good>>

CommitEnd ==
  /\ commit = "done"
  /\ active' = Target /\ gen' = NextGeneration /\ dirty' = FALSE
  /\ commit' = "idle" /\ crc' = None
  /\ good' = TRUE
  /\ UNCHANGED <<flash, image>>

\* Power is lost, perhaps within a flash operation.
PowerLoss ==
  /\ commit # "off"
  /\ IF commit \in DOMAIN Following
       THEN \E t \in Torn(flash[Target]) : flash' = [flash EXCEPT ![Target] = t]
       ELSE UNCHANGED flash
  /\ image' = Default /\ gen' = 0 /\ active' = -1 /\ dirty' = FALSE
  /\ commit' = "off" /\ crc' = None
  /\ UNCHANGED good

Next ==
  \/ Load
  \/ \E w \in Words, v \in Values : WriteWord(w, v)
  \/ CommitBegin \/ FlashOperation \/ FlashError \/ CommitEnd
  \/ PowerLoss

Spec == Init /\ [][Next]_vars

-----------------------------------------------------------------------------
SlotStates ==
  [gen : (0 .. GenMod - 1) \union {None}, crc : Images \union {None},
   body : Images \union {None}, marker : BOOLEAN]

TypeOK ==
  /\ flash \in [Slots -> SlotStates]
  /\ image \in Images
  /\ gen \in 0 .. GenMod - 1
  /\ active \in {-1, 0, 1}
  /\ dirty \in BOOLEAN
  /\ commit \in DOMAIN Following \union {"off", "idle", "done"}
  /\ crc \in Images \union {None}
  /\ good \in BOOLEAN

\* The image the next boot would load.
Stored == IF Selected = -1 THEN Default ELSE flash[Selected].body

(***************************************************************************)
(* A store that says it is clean holds what the next boot will load, after *)
(* any number of commits, wraps of the generation, errors and power losses.*)
(***************************************************************************)
CleanIsStored == commit = "idle" /\ ~dirty => image = Stored

(***************************************************************************)
(* "Power-fail-safe two-slot SII store": from the first successful commit  *)
(* on there is a valid slot at every moment, within each flash operation.  *)
(***************************************************************************)
SlotSurvives == good => \E s \in Slots : Valid(s)

(***************************************************************************)
(* The stored image changes as a whole, when the marker is written, to the *)
(* image in RAM; a power loss brings back the image before or after it.    *)
(***************************************************************************)
Durable == INSTANCE DurableImage
             WITH stored <- Stored, copy <- IF commit = "off" THEN Stored ELSE image

ImplementsDurable == Durable!Spec
=============================================================================
