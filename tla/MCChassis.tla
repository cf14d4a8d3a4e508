----------------------------- MODULE MCChassis -----------------------------
(* Model-checking instance of ChassisControl: the periods scaled down, their *)
(* order kept.                                                               *)
EXTENDS ChassisControl
=============================================================================
