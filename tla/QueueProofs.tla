----------------------------- MODULE QueueProofs ----------------------------
(***************************************************************************)
(* The representation invariant of the queue and its refinement of the     *)
(* first-in first-out buffer, for every set of items and every bound.      *)
(***************************************************************************)
EXTENDS Queue, SequenceTheorems, TLAPS

\* The strengthening that every operation preserves.
IInv == TypeOK /\ ItemsMatchWindow

LEMMA InitIInv == Init => IInv
BY QueueAssumption DEF Init, IInv, TypeOK, ItemsMatchWindow

LEMMA NextIInv == IInv /\ [Next]_vars => IInv'
<1> SUFFICES ASSUME IInv, [Next]_vars PROVE IInv'
    OBVIOUS
<1> USE QueueAssumption DEF IInv, TypeOK, ItemsMatchWindow
<1>1. CASE \E x \in Items : enqueue(x)
    <2>1. PICK x \in Items : enqueue(x)
        BY <1>1
    <2>2. /\ tail' = tail + 1 /\ head' = head /\ ret' = Null
          /\ tail < MaxTail
          /\ items' = [k \in DOMAIN items \cup {tail} |->
                           IF k = tail THEN x ELSE items[k]]
        BY <2>1 DEF enqueue
    <2>3. DOMAIN items \cup {tail} = head..tail
        OBVIOUS
    <2>. QED
        BY <2>2, <2>3
<1>2. CASE shift
    <2>1. CASE UNCHANGED <<items, head, tail>> /\ ret' = Null
        BY <2>1
    <2>2. CASE /\ ~isEmpty /\ ret' = items[head]
               /\ items' = Without(items, {head})
               /\ head' = head + 1 /\ UNCHANGED tail
        <3>1. head < tail
            BY <2>2 DEF isEmpty, getLength
        <3>2. DOMAIN items' = (head + 1)..(tail - 1)
            BY <2>2, <3>1 DEF Without
        <3>. QED
            BY <2>2, <3>1, <3>2 DEF Without
    <2>. QED
        BY <1>2, <2>1, <2>2 DEF shift
<1>3. CASE \E position \in 0..MaxTail : shiftByN(position)
    <2>1. PICK position \in 0..MaxTail : shiftByN(position)
        BY <1>3
    <2>2. CASE UNCHANGED <<items, head, tail>> /\ ret' = Null
        BY <2>2
    <2>3. CASE /\ position <= getLength
               /\ LET h == head + position - 1 IN
                  /\ ret' = IF h \in DOMAIN items THEN items[h] ELSE Null
                  /\ items' = Without(items, {k \in DOMAIN items : k <= h})
                  /\ head' = h + 1
               /\ UNCHANGED tail
        <3>1. head' = head + position /\ head' \in 0..tail /\ tail' = tail
            BY <2>3 DEF getLength
        <3>2. DOMAIN items' = (head + position)..(tail - 1)
            BY <2>3, <3>1 DEF Without
        <3>. QED
            BY <2>3, <3>1, <3>2 DEF Without
    <2>. QED
        BY <2>1, <2>2, <2>3 DEF shiftByN
<1>4. CASE front
    BY <1>4 DEF front, isEmpty, getLength
<1>5. CASE clear
    BY <1>5 DEF clear
<1>6. CASE UNCHANGED vars
    BY <1>6 DEF vars
<1>. QED
    BY <1>1, <1>2, <1>3, <1>4, <1>5, <1>6 DEF Next

(***************************************************************************)
(* The keys and the window of the queue are well formed in every reachable *)
(* state, whatever calls are made.                                         *)
(***************************************************************************)
THEOREM QueueTypeOK == Spec => []TypeOK
<1>1. IInv => TypeOK
    BY DEF IInv
<1>. QED
    BY InitIInv, NextIInv, <1>1, PTL DEF Spec

(***************************************************************************)
(* The record never leaks an entry behind the head nor loses one inside    *)
(* the window.                                                             *)
(***************************************************************************)
THEOREM QueueKeepsWindow == Spec => []ItemsMatchWindow
<1>1. IInv => ItemsMatchWindow
    BY DEF IInv
<1>. QED
    BY InitIInv, NextIInv, <1>1, PTL DEF Spec

\* The abstract sequence, read through the record.
LEMMA ContentsFacts ==
    ASSUME IInv
    PROVE  /\ Contents \in Seq(Items)
           /\ Len(Contents) = tail - head
           /\ \A i \in 1..(tail - head) : Contents[i] = items[head + i - 1]
<1>1. tail - head \in Nat
    BY QueueAssumption DEF IInv, TypeOK
<1>2. \A i \in 1..(tail - head) : items[head + i - 1] \in Items
    BY QueueAssumption DEF IInv, TypeOK, ItemsMatchWindow
<1>. QED
    BY <1>1, <1>2 DEF Contents

LEMMA ContentsFactsPrime ==
    ASSUME IInv'
    PROVE  /\ Contents' \in Seq(Items)
           /\ Len(Contents') = tail' - head'
           /\ \A i \in 1..(tail' - head') : Contents'[i] = items'[head' + i - 1]
<1>1. tail' - head' \in Nat
    BY QueueAssumption DEF IInv, TypeOK
<1>2. \A i \in 1..(tail' - head') : items'[head' + i - 1] \in Items
    BY QueueAssumption DEF IInv, TypeOK, ItemsMatchWindow
<1>. QED
    BY <1>1, <1>2 DEF Contents

\* Dropping the first n items of the window drops them from the sequence.
LEMMA DropFromWindow ==
    ASSUME IInv, IInv', NEW n \in Nat, n <= tail - head,
           tail' = tail, head' = head + n,
           \A k \in head'..(tail - 1) : items'[k] = items[k]
    PROVE  Contents' = SubSeq(Contents, n + 1, Len(Contents))
<1>0. /\ head \in Nat /\ tail \in Nat /\ head <= tail
      /\ head' \in Nat /\ tail' \in Nat /\ head' <= tail'
    BY QueueAssumption DEF IInv, TypeOK
<1>1. /\ Len(Contents) = tail - head
      /\ \A i \in 1..(tail - head) : Contents[i] = items[head + i - 1]
      /\ Contents \in Seq(Items)
    BY ContentsFacts
<1>2. /\ Contents' \in Seq(Items)
      /\ Len(Contents') = tail' - head'
      /\ \A i \in 1..(tail' - head') : Contents'[i] = items'[head' + i - 1]
    BY ContentsFactsPrime
<1>3. SubSeq(Contents, n + 1, Len(Contents)) \in Seq(Items)
    BY <1>0, <1>1
<1>4. Len(SubSeq(Contents, n + 1, Len(Contents))) = tail - head - n
    BY <1>0, <1>1
<1>5. ASSUME NEW i \in 1..(tail - head - n)
      PROVE  Contents'[i] = SubSeq(Contents, n + 1, Len(Contents))[i]
    <2>1. Contents'[i] = items'[head' + i - 1] /\ head' + i - 1 \in head'..(tail - 1)
        BY <1>0, <1>2
    <2>2. Contents'[i] = items[head + n + i - 1]
        BY <2>1, <1>0
    <2>3. SubSeq(Contents, n + 1, Len(Contents))[i] = Contents[n + i]
        BY <1>0, <1>1
    <2>4. Contents[n + i] = items[head + n + i - 1]
        <3>1. n + i \in 1..(tail - head)
            BY <1>0
        <3>2. Contents[n + i] = items[head + (n + i) - 1]
            BY <3>1, <1>1
        <3>. QED
            BY <3>2, <1>0
    <2>. QED
        BY <2>2, <2>3, <2>4
<1>6. Len(Contents') = tail - head - n
    BY <1>0, <1>2
<1>. QED
    BY <1>2, <1>3, <1>4, <1>5, <1>6, SeqEqual

LEMMA InitAbstract == Init => Abstract!Init
BY DEF Init, Abstract!Init, Contents

\* Every operation of the record is an operation of the buffer.
LEMMA NextAbstract ==
    IInv /\ IInv' /\ [Next]_vars => [Abstract!Next]_(Abstract!fifoVars)
<1> SUFFICES ASSUME IInv, IInv', [Next]_vars
             PROVE  [Abstract!Next]_(Abstract!fifoVars)
    OBVIOUS
<1> USE QueueAssumption
<1>t. /\ head \in Nat /\ tail \in Nat /\ head <= tail
      /\ Contents \in Seq(Items)
      /\ Len(Contents) = tail - head
      /\ \A i \in 1..(tail - head) : Contents[i] = items[head + i - 1]
    BY ContentsFacts DEF IInv, TypeOK
<1>n. ASSUME UNCHANGED <<items, head, tail>>, ret' = Null
      PROVE  Abstract!Next
    BY <1>n DEF Abstract!Next, Abstract!Nothing, Contents
<1>1. CASE \E x \in Items : enqueue(x)
    <2>1. PICK x \in Items : enqueue(x)
        BY <1>1
    <2>2. /\ tail' = tail + 1 /\ head' = head /\ ret' = Null
          /\ \A k \in head..(tail - 1) : items'[k] = items[k]
          /\ items'[tail] = x
        BY <2>1, <1>t DEF enqueue, IInv, ItemsMatchWindow, TypeOK
    <2>3. /\ Contents' \in Seq(Items)
          /\ Len(Contents') = tail + 1 - head
          /\ \A i \in 1..(tail + 1 - head) : Contents'[i] = items'[head + i - 1]
        <3>1. /\ Contents' \in Seq(Items)
              /\ Len(Contents') = tail' - head'
              /\ \A i \in 1..(tail' - head') : Contents'[i] = items'[head' + i - 1]
            BY ContentsFactsPrime
        <3>2. tail' - head' = tail + 1 - head /\ head' = head
            BY <1>t, <2>2
        <3>3. ASSUME NEW i \in 1..(tail + 1 - head)
              PROVE  Contents'[i] = items'[head + i - 1]
            <4>1. Contents'[i] = items'[head' + i - 1]
                BY <3>1, <3>2
            <4>. QED
                BY <4>1, <3>2
        <3>. QED
            BY <3>1, <3>2, <3>3
    <2>4. /\ Append(Contents, x) \in Seq(Items)
          /\ Len(Append(Contents, x)) = tail - head + 1
          /\ \A i \in 1..(tail - head) : Append(Contents, x)[i] = Contents[i]
          /\ Append(Contents, x)[tail - head + 1] = x
        BY <1>t, AppendProperties
    <2>5. ASSUME NEW i \in 1..Len(Contents')
          PROVE  Contents'[i] = Append(Contents, x)[i]
        <3>1. CASE i <= tail - head
            BY <3>1, <1>t, <2>2, <2>3, <2>4
        <3>2. CASE i = tail - head + 1
            BY <3>2, <1>t, <2>2, <2>3, <2>4
        <3>. QED
            BY <3>1, <3>2, <2>3, <1>t
    <2>6. Len(Contents') = Len(Append(Contents, x))
        BY <2>3, <2>4, <1>t
    <2>7. Contents' = Append(Contents, x)
        BY <2>3, <2>4, <2>5, <2>6, SeqEqual
    <2>. QED
        BY <2>2, <2>7 DEF Abstract!Next, Abstract!Put
<1>2. CASE shift
    <2>1. CASE UNCHANGED <<items, head, tail>> /\ ret' = Null
        BY <1>n, <2>1
    <2>2. CASE /\ ~isEmpty /\ ret' = items[head]
               /\ items' = Without(items, {head})
               /\ head' = head + 1 /\ UNCHANGED tail
        <3>1. head < tail
            BY <2>2, <1>t DEF isEmpty, getLength
        <3>2. \A k \in (head + 1)..(tail - 1) : items'[k] = items[k]
            BY <2>2, <1>t DEF Without, IInv, ItemsMatchWindow
        <3>3. Contents' = SubSeq(Contents, 2, Len(Contents))
            <4>1. 1 \in Nat /\ 1 <= tail - head /\ tail' = tail /\ head' = head + 1
                BY <2>2, <3>1, <1>t
            <4>2. \A k \in head'..(tail - 1) : items'[k] = items[k]
                BY <3>2, <4>1
            <4>3. Contents' = SubSeq(Contents, 1 + 1, Len(Contents))
                BY <4>1, <4>2, DropFromWindow
            <4>. QED
                BY <4>3
        <3>4. ret' = Contents[1] /\ 1 \in 1..Len(Contents)
            BY <2>2, <3>1, <1>t
        <3>. QED
            BY <3>3, <3>4 DEF Abstract!Next, Abstract!Take
    <2>. QED
        BY <1>2, <2>1, <2>2 DEF shift
<1>3. CASE \E position \in 0..MaxTail : shiftByN(position)
    <2>1. PICK position \in 0..MaxTail : shiftByN(position)
        BY <1>3
    <2>2. CASE UNCHANGED <<items, head, tail>> /\ ret' = Null
        BY <1>n, <2>2
    <2>3. CASE /\ position <= getLength
               /\ LET h == head + position - 1 IN
                  /\ ret' = IF h \in DOMAIN items THEN items[h] ELSE Null
                  /\ items' = Without(items, {k \in DOMAIN items : k <= h})
                  /\ head' = h + 1
               /\ UNCHANGED tail
        <3>1. head' = head + position /\ position <= tail - head /\ tail' = tail
            BY <2>3, <1>t DEF getLength
        <3>2. \A k \in head'..(tail - 1) : items'[k] = items[k]
            BY <2>3, <3>1, <1>t DEF Without, IInv, ItemsMatchWindow
        <3>3. Contents' = SubSeq(Contents, position + 1, Len(Contents))
            BY <3>1, <3>2, <1>t, DropFromWindow
        <3>4. CASE position = 0
            <4>1. ret' = Null
                BY <2>3, <3>4, <1>t DEF IInv, ItemsMatchWindow
            <4>2. UNCHANGED <<head, tail>> /\ Contents' = Contents
                BY <3>1, <3>2, <3>4, <1>t DEF Contents
            <4>. QED
                BY <4>1, <4>2 DEF Abstract!Next, Abstract!Nothing
        <3>5. CASE position # 0
            <4>1. position \in 1..Len(Contents)
                BY <3>1, <3>5, <1>t
            <4>2. ret' = items[head + position - 1]
                BY <2>3, <3>1, <3>5, <1>t DEF IInv, ItemsMatchWindow
            <4>3. ret' = Contents[position]
                BY <4>1, <4>2, <1>t
            <4>. QED
                BY <3>3, <4>1, <4>3 DEF Abstract!Next, Abstract!Take
        <3>. QED
            BY <3>4, <3>5
    <2>. QED
        BY <2>1, <2>2, <2>3 DEF shiftByN
<1>4. CASE front
    <2>1. CASE isEmpty
        BY <1>4, <2>1, <1>n DEF front
    <2>2. CASE ~isEmpty
        <3>1. head < tail /\ ret' = items[head] /\ UNCHANGED <<items, head, tail>>
            BY <1>4, <2>2, <1>t DEF front, isEmpty, getLength
        <3>2. Contents' = Contents
            BY <3>1 DEF Contents
        <3>3. ret' = Contents[1] /\ Contents # << >>
            BY <3>1, <1>t
        <3>. QED
            BY <3>2, <3>3 DEF Abstract!Next, Abstract!Peek
    <2>. QED
        BY <2>1, <2>2
<1>5. CASE clear
    BY <1>5 DEF clear, Contents, Abstract!Next, Abstract!Clear
<1>6. CASE UNCHANGED vars
    BY <1>6 DEF vars, Contents, Abstract!fifoVars
<1>. QED
    BY <1>1, <1>2, <1>3, <1>4, <1>5, <1>6 DEF Next

(***************************************************************************)
(* The record, its head and its tail implement the first-in first-out      *)
(* buffer: the consumers and producers may be reasoned about with a plain  *)
(* sequence in place of internal/queue/queue.ts.                           *)
(***************************************************************************)
THEOREM QueueIsFifo == Spec => IsFifo
<1>. QED
    BY InitIInv, NextIInv, InitAbstract, NextAbstract, PTL
       DEF Spec, IsFifo, Abstract!Spec
=============================================================================
