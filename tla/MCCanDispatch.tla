--------------------------- MODULE MCCanDispatch ---------------------------
(* Model-checking instance of CanDispatch: two of the three actuators of the *)
(* left leg's bus.                                                           *)
EXTENDS CanDispatch

MCBusOf == [s \in Slots |-> "can3"]
=============================================================================
