--------------------------- MODULE LatestChannel ---------------------------
(***************************************************************************)
(* What a latest-value channel promises: for each key one writer and one   *)
(* reader that may skip values, never goes back, and catches up.  A value  *)
(* is its version.  CanDispatch implements it for the actuator frames.     *)
(***************************************************************************)
EXTENDS Naturals

CONSTANTS Keys, MaxWrites

VARIABLES
  written,  \* version of the newest value of each key
  sent      \* version the reader last got

vars == <<written, sent>>

TypeOK ==
  /\ written \in [Keys -> Nat]
  /\ sent \in [Keys -> Nat]

Init ==
  /\ written = [k \in Keys |-> 0]
  /\ sent = [k \in Keys |-> 0]

Write(k) ==
  /\ written[k] < MaxWrites
  /\ written' = [written EXCEPT ![k] = @ + 1]
  /\ UNCHANGED sent

\* The reader gets a batch: some keys move forward, none beyond what was written.
Send ==
  /\ sent' \in [Keys -> 0 .. MaxWrites]
  /\ \A k \in Keys : sent[k] <= sent'[k] /\ sent'[k] <= written[k]
  /\ UNCHANGED written

Next == Send \/ \E k \in Keys : Write(k)

Spec == Init /\ [][Next]_vars

\* A reader behind the newest value moves on.
FairSpec == Spec /\ \A k \in Keys : WF_vars(Send /\ sent'[k] > sent[k])
=============================================================================
