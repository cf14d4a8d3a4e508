----------------------------- MODULE MCEthercat -----------------------------
(***************************************************************************)
(* Small instances of EthercatLink.  Fields of a frame that its class does *)
(* not look at have one value.                                             *)
(***************************************************************************)
EXTENDS EthercatLink

Frame(abi, seq, mode, sound, valid, force) ==
  [abi |-> abi, seq |-> seq, mode |-> mode, sound |-> sound, valid |-> valid, force |-> force]

Refused ==
  {Frame(FALSE, 0, "Disabled", FALSE, 1, 0)}
    \union {Frame(TRUE, n, m, FALSE, 1, 0) : n \in 0 .. SeqMod - 1, m \in {"Disabled", "Active"}}

\* Below and above the force range, with a validity that is cut to MaxValid.
MCFrames ==
  Refused \union {Frame(TRUE, n, m, TRUE, MaxValid + 1, f) : n \in 0 .. SeqMod - 1,
                     m \in {"Shadow", "Active"}, f \in {0, MaxForce + 1}}

\* One force, for the runs that do not ask about it.
MCPlainFrames ==
  Refused \union {Frame(TRUE, n, m, TRUE, v, MinForce) : n \in 0 .. SeqMod - 1,
                     m \in {"Shadow", "Active"}, v \in {1, MaxValid}}
=============================================================================
