----------------------------- MODULE BlockStream ----------------------------
(***************************************************************************)
(* What a block subscription promises to its observer (BlockProducer): it  *)
(* is given the blocks of the chain from StartBlock on, and a block only   *)
(* after its parent, so that whatever branch the chain takes, a block      *)
(* given has all its ancestors given too.                                  *)
(*                                                                         *)
(* A block is the branch that leads to it: its number is the length, its   *)
(* parent the sequence without the last label.                             *)
(***************************************************************************)
EXTENDS Naturals, Sequences

CONSTANTS
    StartBlock      \* the first block wanted

VARIABLES
    given           \* the blocks observer.next was called with

Parent(b) == SubSeq(b, 1, Len(b) - 1)

Give(b) ==
    /\ Len(b) >= StartBlock
    /\ Len(b) = StartBlock \/ Parent(b) \in given
    /\ given' = given \cup {b}

Init == given = {}

Next == \E b \in given' : Give(b)

Spec == Init /\ [][Next]_given
=============================================================================
