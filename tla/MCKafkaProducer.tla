--------------------------- MODULE MCKafkaProducer --------------------------
(***************************************************************************)
(* KafkaProducer for TLC: both classes, with every hazard.                 *)
(***************************************************************************)
EXTENDS KafkaProducer

All == [kind : {"sync", "async"}, hazards : {HazardKinds, HazardKinds \ {"survive"}}]

\* The synchronous class in an application that lets unhandled rejections end it.
OnlySync == {[kind |-> "sync", hazards |-> HazardKinds \ {"survive"}]}
=============================================================================
