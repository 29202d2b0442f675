------------------------ MODULE MCBlockSubscription ------------------------
(***************************************************************************)
(* BlockSubscription for TLC.                                              *)
(***************************************************************************)
EXTENDS BlockSubscription

\* The first block wanted is final, and is backfilled.
History == [first |-> 5, last |-> 6, hazards |-> HazardKinds \ {"late"}]

\* It is not, and is read from the logs.
Live == [first |-> 2, last |-> 4, hazards |-> HazardKinds \ {"late"}]
Late == [Live EXCEPT !.last = 3, !.hazards = {"late", "owner"}]

Usual == {History, Live, Late}

\* No run uses it: the node goes silent long enough for blocks to become
\* final, and NoFalseReorg is violated; with Margin = 0 so is IsStream (see
\* README, the known divergences).
Outage == {[first |-> 2, last |-> 6, hazards |-> {"stall"}]}
=============================================================================
