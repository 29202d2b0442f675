-------------------------------- MODULE Fifo --------------------------------
(***************************************************************************)
(* What internal/queue/queue.ts promises: a first-in first-out buffer.     *)
(* Its only state is the sequence of the buffered items and the value the  *)
(* last call handed back.                                                  *)
(***************************************************************************)
EXTENDS Naturals, Sequences

CONSTANTS
    Items,      \* what may be buffered
    Null        \* the "nothing" a call returns

VARIABLES
    seq,        \* the buffered items, oldest first
    ret         \* what the last call returned

fifoVars == <<seq, ret>>

Init ==
    /\ seq = << >>
    /\ ret = Null

\* An item goes in at the back.
Put(x) ==
    /\ seq' = Append(seq, x)
    /\ ret' = Null

\* The n-th item is handed back; it and all the items before it leave.
Take(n) ==
    /\ n \in 1..Len(seq)
    /\ ret' = seq[n]
    /\ seq' = SubSeq(seq, n + 1, Len(seq))

\* The oldest item is handed back and stays.
Peek ==
    /\ seq # << >>
    /\ ret' = seq[1]
    /\ UNCHANGED seq

\* A call that asks for more than there is changes nothing.
Nothing ==
    /\ ret' = Null
    /\ UNCHANGED seq

Clear ==
    /\ seq' = << >>
    /\ ret' = Null

Next ==
    \/ \E x \in Items : Put(x)
    \/ \E n \in 1..Len(seq) : Take(n)
    \/ Peek
    \/ Nothing
    \/ Clear

Spec == Init /\ [][Next]_fifoVars
=============================================================================
