--------------------------- MODULE MCBlockPolling ---------------------------
(***************************************************************************)
(* BlockPolling for TLC.  BlockPoller compares no parents: its chain does  *)
(* not reorganise.                                                         *)
(***************************************************************************)
EXTENDS BlockPolling

Poller(kind, hazards, n) == [kind |-> kind, hazards |-> hazards, forks |-> n]

Both == {Poller("BlockPoller", {"getter", "owner"}, 0),
         Poller("ErigonBlockPoller", {"getter", "exit", "owner"}, 1)}

\* No run uses these: with the first AllGiven is violated, with the second
\* IsStream (see README, the known divergences).
WorkerFails == {Poller("ErigonBlockPoller", {"getter"}, 0)}
FirstFails == {Poller("ErigonBlockPoller", {"first"}, 0)}
=============================================================================
