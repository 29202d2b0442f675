-------------------------------- MODULE Queue -------------------------------
(***************************************************************************)
(* internal/queue/queue.ts: the in-memory buffer of the consumers, of the  *)
(* block subscriptions and of the block producer.  Items live in a record  *)
(* keyed by position; "head" is the key of the oldest item and "tail" the  *)
(* key the next item gets.                                                 *)
(***************************************************************************)
EXTENDS Integers, Sequences

CONSTANTS
    Items,      \* what may be buffered
    Null,       \* null (and the undefined that shiftByN(0) returns)
    MaxTail     \* bound of the model: keys are given out below MaxTail

ASSUME QueueAssumption ==
    /\ MaxTail \in Nat
    /\ Null \notin Items

VARIABLES
    items,      \* this.items: a partial function from keys to items
    head,       \* this.head
    tail,       \* this.tail
    ret         \* what the last call returned

vars == <<items, head, tail, ret>>

getLength == tail - head

isEmpty == getLength = 0

\* delete this.items[k] for every key that satisfies the test
Without(f, keys) == [k \in DOMAIN f \ keys |-> f[k]]

Init ==
    /\ items = << >>
    /\ head = 0
    /\ tail = 0
    /\ ret = Null

enqueue(x) ==
    /\ tail < MaxTail
    /\ items' = [k \in DOMAIN items \cup {tail} |->
                     IF k = tail THEN x ELSE items[k]]
    /\ tail' = tail + 1
    /\ ret' = Null
    /\ UNCHANGED head

\* Mutant of shift: it does not ask isEmpty first.
shiftUnguarded ==
    /\ ret' = IF head \in DOMAIN items THEN items[head] ELSE Null
    /\ items' = Without(items, {head})
    /\ head' = head + 1
    /\ UNCHANGED tail

shift ==
    \/ /\ isEmpty
       /\ ret' = Null
       /\ UNCHANGED <<items, head, tail>>
    \/ /\ ~isEmpty
       /\ ret' = items[head]
       /\ items' = Without(items, {head})
       /\ head' = head + 1
       /\ UNCHANGED tail

\* Mutant of shiftByN: only the key at the new head is deleted.
shiftByNLeaky(position) ==
    \/ /\ getLength < position
       /\ position # 0
       /\ ret' = Null
       /\ UNCHANGED <<items, head, tail>>
    \/ /\ position <= getLength
       /\ LET h == head + position - 1 IN
          /\ ret' = IF h \in DOMAIN items THEN items[h] ELSE Null
          /\ items' = Without(items, {h})
          /\ head' = h + 1
       /\ UNCHANGED tail

\* Mutant of shiftByN: the item handed back stays in the queue.
shiftByNKeeps(position) ==
    \/ /\ getLength < position
       /\ position # 0
       /\ ret' = Null
       /\ UNCHANGED <<items, head, tail>>
    \/ /\ position <= getLength
       /\ LET h == head + position - 1 IN
          /\ ret' = IF h \in DOMAIN items THEN items[h] ELSE Null
          /\ items' = Without(items, {k \in DOMAIN items : k < h})
          /\ head' = IF position = 0 THEN head ELSE h
       /\ UNCHANGED tail

(***************************************************************************)
(* The head moves to the wanted item, every key up to it is deleted, and   *)
(* the head steps past it.  For position 0 the item looked up is the one   *)
(* below the head, which is gone, and head ends where it was.              *)
(***************************************************************************)
shiftByN(position) ==
    \/ /\ getLength < position
       /\ position # 0
       /\ ret' = Null
       /\ UNCHANGED <<items, head, tail>>
    \/ /\ position <= getLength
       /\ LET h == head + position - 1 IN
          /\ ret' = IF h \in DOMAIN items THEN items[h] ELSE Null
          /\ items' = Without(items, {k \in DOMAIN items : k <= h})
          /\ head' = h + 1
       /\ UNCHANGED tail

front ==
    /\ ret' = IF isEmpty THEN Null ELSE items[head]
    /\ UNCHANGED <<items, head, tail>>

clear ==
    /\ head' = 0
    /\ tail' = 0
    /\ items' = << >>
    /\ ret' = Null

Next ==
    \/ \E x \in Items : enqueue(x)
    \/ shift
    \/ \E position \in 0..MaxTail : shiftByN(position)
    \/ front
    \/ clear

Spec == Init /\ [][Next]_vars

-----------------------------------------------------------------------------
TypeOK ==
    /\ tail \in 0..MaxTail
    /\ head \in 0..tail
    /\ ret \in Items \cup {Null}
    /\ items \in [DOMAIN items -> Items]

(***************************************************************************)
(* The record holds exactly the keys of the window [head, tail): no item   *)
(* is leaked behind the head (the defect the comment in shiftByN tells     *)
(* of) and none inside the window is missing.                              *)
(***************************************************************************)
ItemsMatchWindow == DOMAIN items = head..(tail - 1)

\* The buffered items in the order in which they will be handed back.
Contents == [i \in 1..(tail - head) |-> items[head + i - 1]]

Abstract == INSTANCE Fifo WITH seq <- Contents

(***************************************************************************)
(* The queue is a first-in first-out buffer: what front, shift and         *)
(* shiftByN return, and what they leave, is what the sequence of the       *)
(* enqueued items says.                                                    *)
(***************************************************************************)
IsFifo == Abstract!Spec

=============================================================================
