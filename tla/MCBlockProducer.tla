--------------------------- MODULE MCBlockProducer --------------------------
(***************************************************************************)
(* BlockProducer for TLC: the constants are numbers and sets of hazards,   *)
(* which the .cfg files give.                                              *)
(***************************************************************************)
EXTENDS BlockProducer
=============================================================================
