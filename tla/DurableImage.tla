---------------------------- MODULE DurableImage ----------------------------
(***************************************************************************)
(* What a power-fail-safe store of one image promises: a copy that changes *)
(* word by word, a stored image that changes as a whole and only to what   *)
(* the copy holds, and a restart that brings the stored image back.        *)
(***************************************************************************)
CONSTANTS Words, Values, Default

VARIABLES
  stored,   \* the image that survives a power loss
  copy      \* the image the device works on

vars == <<stored, copy>>

Init == stored = Default /\ copy = Default

Write(w, v) == copy' = [copy EXCEPT ![w] = v] /\ UNCHANGED stored

Commit == stored' = copy /\ UNCHANGED copy

Restart == copy' = stored /\ UNCHANGED stored

Next == Commit \/ Restart \/ \E w \in Words, v \in Values : Write(w, v)

Spec == Init /\ [][Next]_vars
=============================================================================
