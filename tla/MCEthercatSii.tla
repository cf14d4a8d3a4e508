---------------------------- MODULE MCEthercatSii ----------------------------
(***************************************************************************)
(* A small instance of EthercatSiiStore: two words of two values, and       *)
(* generations that wrap after four.                                        *)
(***************************************************************************)
EXTENDS EthercatSiiStore

MCDefault == [w \in Words |-> CHOOSE v \in Values : TRUE]
=============================================================================
