------------------------------ MODULE Delivery ------------------------------
(***************************************************************************)
(* What a consumer group that commits after processing promises: an offset *)
(* is committed only when every message before it has been handled, so     *)
(* that whoever resumes from the committed offset misses none.             *)
(***************************************************************************)
EXTENDS Naturals

CONSTANTS
    Partitions,     \* the topic-partitions read
    LogEnd,         \* how many messages each partition holds
    StartOffset     \* the offset each partition is wanted from

VARIABLES
    handled,        \* the messages whose handler has succeeded
    committed       \* per partition, the offset to resume from

deliveryVars == <<handled, committed>>

Messages == [part : Partitions, off : 0..(LogEnd - 1)]

\* Nobody needs the message any more: it is not wanted, or it was handled.
Settled(m, done) == m.off < StartOffset[m.part] \/ m \in done

Init ==
    /\ handled = {}
    /\ committed = [p \in Partitions |-> 0]

Handle(m) == handled' = handled \cup {m}

\* The message is handled and the group resumes behind it from now on.
HandleAndCommit(m) ==
    /\ Handle(m)
    /\ \A b \in Messages :
           b.part = m.part /\ b.off <= m.off => Settled(b, handled')
    /\ committed' = [committed EXCEPT ![m.part] = m.off + 1]

Next ==
    \E m \in Messages :
        \/ Handle(m) /\ UNCHANGED committed
        \/ HandleAndCommit(m)

Spec == Init /\ [][Next]_deliveryVars
=============================================================================
