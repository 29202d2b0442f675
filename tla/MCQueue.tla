------------------------------- MODULE MCQueue ------------------------------
(***************************************************************************)
(* Queue for TLC: two items, so that order can be told apart, and five     *)
(* enqueues between two clears.                                            *)
(***************************************************************************)
EXTENDS Queue

CONSTANTS x1, x2

MCItems == {x1, x2}
=============================================================================
