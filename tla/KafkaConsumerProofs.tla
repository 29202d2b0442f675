------------------------- MODULE KafkaConsumerProofs ------------------------
(***************************************************************************)
(* Proofs about KafkaConsumer, for every set of partitions, every log      *)
(* length, buffer length and number of retries: its types, and that it     *)
(* delivers at least once in the environments described by                 *)
(* SafeEnvironment.                                                        *)
(***************************************************************************)
EXTENDS KafkaConsumer, SequenceTheorems, TLAPS

-----------------------------------------------------------------------------
(***************************************************************************)
(* Types of the helpers.                                                   *)
(***************************************************************************)
LEMMA EnqueuedFacts ==
    ASSUME NEW m \in Messages
    PROVE  Enqueued(m) \in Elements /\ Enqueued(m).msg = m
<1>1. PICK s \in {"running", "none"} :
          Enqueued(m) = [msg |-> m, promise |-> s, tries |-> 0]
    BY Zenon DEF Enqueued
<1>. QED
    BY <1>1, ConsumerAssumption DEF Elements, PromiseStates

LEMMA RunningFacts ==
    ASSUME NEW q \in Seq(Elements)
    PROVE  Running(q) \subseteq Messages
<1>1. \A i \in DOMAIN q : q[i] \in Elements
    BY LenProperties
<1>2. \A e \in Elements : e.msg \in Messages
    BY DEF Elements
<1>. QED
    BY <1>1, <1>2 DEF Running

LEMMA AwaitFacts ==
    ASSUME NEW e \in Elements
    PROVE  Await(e) \in Elements /\ Await(e).msg = e.msg
BY DEF Await, Elements, PromiseStates

LEMMA OutcomeFacts ==
    ASSUME NEW e \in Elements, NEW f \in Outcomes(e)
    PROVE  f \in Elements /\ f.msg = e.msg
<1>1. CASE \E s \in {"ok", "nonfatal", "fatal"} : f = [e EXCEPT !.promise = s]
    BY <1>1 DEF Elements, PromiseStates
<1>2. CASE e.tries < MaxRetries /\ f = [e EXCEPT !.tries = @ + 1]
    BY <1>2, ConsumerAssumption DEF Elements
<1>. QED
    BY <1>1, <1>2 DEF Outcomes

\* One turn of the loop keeps the buffered messages, and awaits the first.
LEMMA TurnFacts ==
    ASSUME NEW q \in Seq(Elements), NEW errors \in 0..MaxRetries, Turn(q, errors)
    PROVE  /\ queue' \in Seq(Elements)
           /\ Len(queue') = Len(q)
           /\ \A i \in 1..Len(q) : queue'[i].msg = q[i].msg
           /\ errorCount' \in 0..(MaxRetries + 1)
           /\ \/ q = << >> /\ element' = None /\ queueIsProcessing' = FALSE
              \/ /\ q # << >> /\ element' = q[1] /\ element' \in Elements
                 /\ queueIsProcessing' = TRUE
<1>1. CASE q = << >>
    BY <1>1, ConsumerAssumption DEF Turn
<1>2. CASE q # << >>
    <2>1. /\ queue' = [q EXCEPT ![1] = Await(q[1])]
          /\ queueIsProcessing' = TRUE
          /\ element' = q[1]
          /\ errorCount' = errors
        BY <1>2 DEF Turn
    <2>2. 1 \in 1..Len(q) /\ q[1] \in Elements
        BY <1>2, EmptySeq, LenProperties
    <2>3. Await(q[1]) \in Elements /\ Await(q[1]).msg = q[1].msg
        BY <2>2, AwaitFacts
    <2>4. /\ queue' \in Seq(Elements)
          /\ Len(queue') = Len(q)
          /\ \A i \in 1..Len(q) : queue'[i] = IF i = 1 THEN Await(q[1]) ELSE q[i]
        BY <2>1, <2>2, <2>3, ExceptSeq
    <2>5. errors \in 0..(MaxRetries + 1)
        BY ConsumerAssumption
    <2>. QED
        BY <1>2, <2>1, <2>2, <2>3, <2>4, <2>5
<1>. QED
    BY <1>1, <1>2

LEMMA ClearFacts ==
    ASSUME NEW q \in Seq(Elements), orphans \subseteq Messages, Clear(q)
    PROVE  queue' = << >> /\ queue' \in Seq(Elements) /\ orphans' \subseteq Messages
BY RunningFacts DEF Clear

LEMMA StoppedFacts ==
    ASSUME conn \in {"down", "up", "draining", "closing"}
    PROVE  Stopped \in {"down", "up", "draining", "closing"}
BY DEF Stopped

LEMMA BackpressureFacts ==
    ASSUME NEW p \in Partitions, NEW n,
           pausedAt \subseteq Partitions, consumerPaused \in BOOLEAN,
           handleBackpressure(p, n)
    PROVE  pausedAt' \subseteq Partitions /\ consumerPaused' \in BOOLEAN
BY DEF handleBackpressure, pauseVars

LEMMA GiveUpFacts ==
    ASSUME TypeOK, element # None, NEW fatal \in BOOLEAN, GiveUp(fatal)
    PROVE  /\ element' = None /\ queueIsProcessing' = TRUE
           /\ errorCount' \in 0..(MaxRetries + 1)
           /\ queue' \in Seq(Elements) /\ orphans' \subseteq Messages
           /\ conn' \in {"down", "up", "draining", "closing"}
           /\ conn' = conn \/ conn' = Stopped
<1>1. /\ element' = None /\ queueIsProcessing' = TRUE
      /\ errorCount' \in 0..(MaxRetries + 1)
    BY ConsumerAssumption DEF GiveUp, TypeOK
<1>2. CASE fatal /\ Clear(queue) /\ conn' = Stopped
    BY <1>1, <1>2, ClearFacts, StoppedFacts DEF TypeOK
<1>3. CASE ~fatal /\ UNCHANGED <<queue, orphans, conn>>
    BY <1>1, <1>3 DEF TypeOK
<1>. QED
    BY <1>2, <1>3 DEF GiveUp

(***************************************************************************)
(* What the rest of onData does to the buffer and to the loop.             *)
(***************************************************************************)
LEMMA ArriveFacts ==
    ASSUME TypeOK, NEW m \in Messages, Arrive(m)
    PROVE  /\ queue' \in Seq(Elements)
           /\ orphans' \subseteq Messages
           /\ pausedAt' \subseteq Partitions
           /\ consumerPaused' \in BOOLEAN
           /\ queueIsProcessing' \in BOOLEAN
           /\ element' \in Elements \cup {None}
           /\ element' # None => queueIsProcessing'
           /\ errorCount' \in 0..(MaxRetries + 1)
           /\ conn' \in {"down", "up", "draining", "closing"}
           /\ Accepts =>
                /\ conn' = conn
                /\ Len(queue') = Len(queue) + 1
                /\ \A i \in 1..Len(queue) : queue'[i].msg = queue[i].msg
                /\ queue'[Len(queue) + 1].msg = m
                /\ \/ /\ queueIsProcessing
                      /\ UNCHANGED <<queueIsProcessing, element>>
                   \/ /\ ~queueIsProcessing
                      /\ element' # None
                      /\ element'.msg = queue'[1].msg
           /\ ~Accepts => conn' = conn
<1> DEFINE q == Append(queue, Enqueued(m))
<1>1. /\ q \in Seq(Elements) /\ q # << >>
      /\ Len(q) = Len(queue) + 1
      /\ \A i \in 1..Len(queue) : q[i] = queue[i]
      /\ q[Len(queue) + 1] = Enqueued(m)
      /\ Len(queue) \in Nat
    BY EnqueuedFacts, AppendProperties, LenProperties DEF TypeOK
<1>2. q[Len(queue) + 1].msg = m
    BY <1>1, EnqueuedFacts
<1>0. 0 \in 0..MaxRetries
    BY ConsumerAssumption
<1>3. m.part \in Partitions
    BY DEF Messages
<1>4. CASE /\ ~BackpressureThrows(Len(q))
           /\ handleBackpressure(m.part, Len(q))
           /\ queueIsProcessing /\ queue' = q /\ UNCHANGED loopVars
           /\ UNCHANGED <<conn, orphans>>
    <2>1. pausedAt' \subseteq Partitions /\ consumerPaused' \in BOOLEAN
        BY <1>3, <1>4, BackpressureFacts DEF TypeOK
    <2>. QED
        BY <1>1, <1>2, <1>4, <2>1 DEF TypeOK, loopVars
<1>5. CASE /\ ~BackpressureThrows(Len(q))
           /\ handleBackpressure(m.part, Len(q))
           /\ ~queueIsProcessing /\ Turn(q, 0)
           /\ UNCHANGED <<conn, orphans>>
    <2>1. pausedAt' \subseteq Partitions /\ consumerPaused' \in BOOLEAN
        BY <1>3, <1>5, BackpressureFacts DEF TypeOK
    <2>2. /\ queue' \in Seq(Elements)
          /\ Len(queue') = Len(q)
          /\ \A i \in 1..Len(q) : queue'[i].msg = q[i].msg
          /\ errorCount' \in 0..(MaxRetries + 1)
          /\ element' = q[1] /\ element' \in Elements
          /\ queueIsProcessing' = TRUE
        <3>. HIDE DEF q
        <3>. QED
            BY <1>0, <1>1, <1>5, TurnFacts
    <2>3. element'.msg = queue'[1].msg
        BY <1>1, <2>2
    <2>4. /\ \A i \in 1..Len(queue) : queue'[i].msg = queue[i].msg
          /\ queue'[Len(queue) + 1].msg = m
        BY <1>1, <1>2, <2>2
    <2>5. element' # None
        BY <2>2, NoneAssumption
    <2>. QED
        BY <1>1, <1>5, <2>1, <2>2, <2>3, <2>4, <2>5 DEF TypeOK
<1>6. CASE /\ BackpressureThrows(Len(q))
           /\ Clear(q) /\ conn' = Stopped
           /\ UNCHANGED <<pauseVars, loopVars>>
    <2>1. ~Accepts /\ conn' = conn
        BY <1>6 DEF BackpressureThrows, Accepts, Stopped
    <2>2. queue' \in Seq(Elements) /\ orphans' \subseteq Messages
        BY <1>1, <1>6, ClearFacts DEF TypeOK
    <2>. QED
        BY <1>6, <2>1, <2>2 DEF TypeOK, pauseVars, loopVars
<1>. QED
    BY <1>4, <1>5, <1>6 DEF Arrive

-----------------------------------------------------------------------------
LEMMA InitTypeOK == Init => TypeOK
<1> SUFFICES ASSUME Init PROVE TypeOK
    OBVIOUS
<1>1. << >> \in Seq(Elements) /\ << >> \in Seq(Messages)
    OBVIOUS
<1>2. /\ committed \in [Partitions -> 0..LogEnd]
      /\ position \in [Partitions -> Nat]
      /\ seeks \in [Partitions -> Nat]
    BY ConsumerAssumption DEF Init
<1>3. decoding \in [Partitions -> Seq(Messages)]
    BY <1>1 DEF Init
<1>b. /\ started \in BOOLEAN /\ consumerPaused \in BOOLEAN
      /\ seekCalled \in BOOLEAN /\ queueIsProcessing \in BOOLEAN
    BY Zenon DEF Init
<1>4. /\ handled = {} /\ faults \in 0..MaxFaults /\ conn = "down"
      /\ pausedAt = {} /\ queue = << >> /\ element = None
      /\ errorCount \in 0..(MaxRetries + 1) /\ orphans = {}
    BY ConsumerAssumption DEF Init
<1>. QED
    BY <1>1, <1>2, <1>3, <1>4, <1>b DEF TypeOK, Counter

LEMMA PartitionStepTypeOK ==
    ASSUME TypeOK, NEW p \in Partitions, PartitionStep(p)
    PROVE  TypeOK'
<1> USE ConsumerAssumption
<1>1. CASE onData(p)
    <2> DEFINE m == [part |-> p, off |-> position[p]]
    <2>1. m \in Messages
        BY <1>1 DEF onData, Messages, TypeOK, Counter
    <2>2. position' \in [Partitions -> Nat]
        BY <1>1 DEF onData, TypeOK, Counter
    <2>3. CASE /\ seeks' = [seeks EXCEPT ![p] = IF seekCalled THEN @ ELSE @ + 1]
               /\ UNCHANGED <<conn, pauseVars, queue, decoding, loopVars, orphans>>
        <3>1. seeks' \in [Partitions -> Nat]
            <4>1. CASE seekCalled
                BY <2>3, <4>1 DEF TypeOK, Counter
            <4>2. CASE ~seekCalled
                BY <2>3, <4>2 DEF TypeOK, Counter
            <4>. QED
                BY <4>1, <4>2
        <3>. QED
            BY <1>1, <2>2, <2>3, <3>1 DEF onData, TypeOK, Counter, pauseVars, loopVars
    <2>4. CASE /\ decoding' = [decoding EXCEPT ![p] = Append(@, m)]
               /\ UNCHANGED <<conn, pauseVars, seeks, queue, loopVars, orphans>>
        <3>1. decoding' \in [Partitions -> Seq(Messages)]
            BY <2>1, <2>4, AppendProperties DEF TypeOK
        <3>. QED
            BY <1>1, <2>2, <2>4, <3>1 DEF onData, TypeOK, Counter, pauseVars, loopVars
    <2>5. CASE Arrive(m) /\ UNCHANGED <<seeks, decoding>>
        <3>. HIDE DEF m
        <3>. QED
            BY <1>1, <2>1, <2>2, <2>5, ArriveFacts DEF onData, TypeOK, Counter
    <2>. QED
        BY <1>1, <2>3, <2>4, <2>5 DEF onData
<1>2. CASE seekDone(p)
    BY <1>2 DEF seekDone, TypeOK, Counter, pauseVars, loopVars
<1>3. CASE seekFails(p)
    <2>1. seeks' \in [Partitions -> Nat]
        BY <1>3 DEF seekFails, TypeOK, Counter
    <2>2. faults' \in 0..MaxFaults
        BY <1>3 DEF seekFails, mayFail, TypeOK
    <2>3. /\ queue' \in Seq(Elements) /\ orphans' \subseteq Messages
          /\ conn' \in {"down", "up", "draining", "closing"}
        <3>1. CASE UNCHANGED <<conn, queue, orphans>>
            BY <3>1 DEF TypeOK
        <3>2. CASE Clear(queue) /\ conn' = Stopped
            BY <3>2, ClearFacts, StoppedFacts DEF TypeOK
        <3>. QED
            BY <1>3, <3>1, <3>2 DEF seekFails
    <2>. QED
        BY <1>3, <2>1, <2>2, <2>3 DEF seekFails, TypeOK, Counter, pauseVars, loopVars
<1>4. CASE deserialize(p)
    <2>1. /\ Head(decoding[p]) \in Messages
          /\ Tail(decoding[p]) \in Seq(Messages)
        BY <1>4, HeadTailProperties DEF deserialize, TypeOK
    <2>2. decoding' \in [Partitions -> Seq(Messages)]
        BY <1>4, <2>1 DEF deserialize, TypeOK
    <2>. QED
        BY <1>4, <2>1, <2>2, ArriveFacts DEF deserialize, TypeOK, Counter
<1>5. CASE deserializeFails(p)
    <2>1. /\ Tail(decoding[p]) \in Seq(Messages)
        BY <1>5, HeadTailProperties DEF deserializeFails, TypeOK
    <2>2. decoding' \in [Partitions -> Seq(Messages)]
        BY <1>5, <2>1 DEF deserializeFails, TypeOK
    <2>3. faults' \in 0..MaxFaults
        BY <1>5 DEF deserializeFails, mayFail, TypeOK
    <2>4. /\ queue' \in Seq(Elements) /\ orphans' \subseteq Messages
          /\ conn' \in {"down", "up", "draining", "closing"}
        BY <1>5, ClearFacts, StoppedFacts DEF deserializeFails, TypeOK
    <2>. QED
        BY <1>5, <2>2, <2>3, <2>4
           DEF deserializeFails, TypeOK, Counter, pauseVars, loopVars
<1>. QED
    BY <1>1, <1>2, <1>3, <1>4, <1>5 DEF PartitionStep

\* What the loop leaves behind when it shifts the front of the buffer.
LEMMA ShiftFacts ==
    ASSUME queue \in Seq(Elements)
    PROVE  /\ (IF queue = << >> THEN << >> ELSE Tail(queue)) \in Seq(Elements)
           /\ (IF queue = << >> THEN << >> ELSE << queue[1] >>) \in Seq(Elements)
<1>1. CASE queue = << >>
    BY <1>1
<1>2. CASE queue # << >>
    <2>1. queue[1] \in Elements
        BY <1>2, EmptySeq, LenProperties
    <2>2. Tail(queue) \in Seq(Elements)
        BY <1>2, HeadTailProperties
    <2>. QED
        BY <1>2, <2>1, <2>2
<1>. QED
    BY <1>1, <1>2

LEMMA LoopStepTypeOK ==
    ASSUME TypeOK, LoopStep
    PROVE  TypeOK'
<1> USE ConsumerAssumption
<1>0. ASSUME awaited
      PROVE  /\ element \in Elements /\ element.msg \in Messages
             /\ element.msg.part \in Partitions
             /\ element.msg.off + 1 \in 0..LogEnd
             /\ handled \cup Resolved(element) \subseteq Messages
    BY <1>0 DEF awaited, TypeOK, Elements, Messages, Resolved
<1>z. 0 \in 0..MaxRetries
    OBVIOUS
<1>1. CASE processQueueSucceeds
    <2> DEFINE rest == IF queue = << >> THEN << >> ELSE Tail(queue)
               out  == IF queue = << >> THEN << >> ELSE << queue[1] >>
    <2>1. /\ rest \in Seq(Elements)
          /\ out \in Seq(Elements)
        BY ShiftFacts DEF TypeOK
    <2>2. committed' \in [Partitions -> 0..LogEnd] /\ faults' \in 0..MaxFaults
        <3>1. safeCommitMessage(element.msg) /\ awaited
            BY <1>1 DEF processQueueSucceeds
        <3>2. CASE /\ committed' = [committed EXCEPT ![element.msg.part] =
                                                        element.msg.off + 1]
                   /\ UNCHANGED faults
            BY <1>0, <3>1, <3>2 DEF TypeOK
        <3>3. CASE /\ mayFail("commitLost") \/ mayFail("commitError")
                   /\ faults' = faults + 1
                   /\ UNCHANGED committed
            BY <3>3 DEF mayFail, TypeOK
        <3>. QED
            BY <3>1, <3>2, <3>3 DEF safeCommitMessage
    <2>3. Turn(rest, 0) /\ orphans' = orphans \cup Running(out)
          /\ handleBackpressure(element.msg.part, Len(rest))
        BY <1>1 DEF processQueueSucceeds
    <2> HIDE DEF rest, out
    <2>4. orphans' \subseteq Messages
        BY <2>1, <2>3, RunningFacts DEF TypeOK
    <2>5. pausedAt' \subseteq Partitions /\ consumerPaused' \in BOOLEAN
        BY <1>0, <1>1, <2>3, BackpressureFacts DEF TypeOK, processQueueSucceeds
    <2>6. /\ queue' \in Seq(Elements)
          /\ errorCount' \in 0..(MaxRetries + 1)
          /\ element' \in Elements \cup {None}
          /\ queueIsProcessing' \in BOOLEAN
          /\ element' # None => queueIsProcessing'
        BY <1>z, <2>1, <2>3, TurnFacts
    <2>. QED
        BY <1>0, <1>1, <2>2, <2>4, <2>5, <2>6
           DEF processQueueSucceeds, TypeOK, Counter
<1>2. CASE processQueueCommitFatal
    <2>1. /\ queue' \in Seq(Elements) /\ orphans' \subseteq Messages
          /\ conn' \in {"down", "up", "draining", "closing"}
        BY <1>2, ClearFacts, StoppedFacts DEF processQueueCommitFatal, TypeOK
    <2>2. pausedAt' \subseteq Partitions /\ consumerPaused' \in BOOLEAN
        BY <1>0, <1>2, BackpressureFacts DEF TypeOK, processQueueCommitFatal
    <2>3. faults' \in 0..MaxFaults
        BY <1>2 DEF processQueueCommitFatal, mayFail, TypeOK
    <2>b. queueIsProcessing' \in BOOLEAN
        BY <1>2, Zenon DEF processQueueCommitFatal
    <2>4. /\ element' = None /\ errorCount' \in 0..(MaxRetries + 1)
          /\ UNCHANGED <<committed, position, seeks, started, seekCalled, decoding>>
        BY <1>2 DEF processQueueCommitFatal
    <2>5. handled' \subseteq Messages
        BY <1>0, <1>2 DEF processQueueCommitFatal
    <2>. QED
        BY <2>1, <2>2, <2>3, <2>4, <2>5, <2>b DEF TypeOK, Counter
<1>3. CASE processQueueDisconnected
    <2>1. /\ queue' \in Seq(Elements) /\ orphans' \subseteq Messages
          /\ conn' \in {"down", "up", "draining", "closing"}
        BY <1>3, ClearFacts, StoppedFacts DEF processQueueDisconnected, TypeOK
    <2>2. /\ queueIsProcessing' \in BOOLEAN
          /\ element' = None /\ errorCount' \in 0..(MaxRetries + 1)
        BY <1>3 DEF processQueueDisconnected
    <2>3. /\ handled' \subseteq Messages
          /\ UNCHANGED <<committed, faults, position, pauseVars, seeks, started,
                         seekCalled, decoding>>
        BY <1>0, <1>3 DEF processQueueDisconnected
    <2>. QED
        BY <2>1, <2>2, <2>3 DEF TypeOK, Counter, pauseVars
<1>4. CASE \E kind \in HandlerErrors : processQueueFails(kind)
    <2>1. PICK kind \in HandlerErrors : processQueueFails(kind)
        BY <1>4
    <2>2. CASE GiveUp(kind # "nonfatal")
        <3>1. /\ element # None /\ faults' \in 0..MaxFaults
              /\ UNCHANGED <<committed, handled, position, pauseVars, seeks,
                             started, seekCalled, decoding>>
            BY <2>1 DEF processQueueFails, TypeOK
        <3>2. (kind # "nonfatal") \in BOOLEAN
            OBVIOUS
        <3>3. /\ element' = None /\ queueIsProcessing' = TRUE
              /\ errorCount' \in 0..(MaxRetries + 1)
              /\ queue' \in Seq(Elements) /\ orphans' \subseteq Messages
              /\ conn' \in {"down", "up", "draining", "closing"}
            BY <2>2, <3>1, <3>2, GiveUpFacts
        <3>. QED
            BY <3>1, <3>3 DEF TypeOK, Counter, pauseVars
    <2>3. CASE /\ errorCount + 1 <= MaxRetries
               /\ Turn(queue, errorCount + 1)
               /\ UNCHANGED <<conn, orphans>>
        <3>1. errorCount + 1 \in 0..MaxRetries
            BY <2>3 DEF TypeOK
        <3>2. /\ queue' \in Seq(Elements)
              /\ errorCount' \in 0..(MaxRetries + 1)
              /\ element' \in Elements \cup {None}
              /\ queueIsProcessing' \in BOOLEAN
              /\ element' # None => queueIsProcessing'
            BY <2>3, <3>1, TurnFacts DEF TypeOK
        <3>. QED
            BY <2>1, <2>3, <3>2 DEF processQueueFails, TypeOK, Counter, pauseVars
    <2>. QED
        BY <2>1, <2>2, <2>3 DEF processQueueFails
<1>5. CASE processQueueRejected
    <2>1. element # None
        BY <1>5 DEF processQueueRejected
    <2>2. CASE GiveUp(TRUE) \/ GiveUp(FALSE)
        BY <1>5, <2>1, <2>2, GiveUpFacts
           DEF processQueueRejected, TypeOK, Counter, pauseVars
    <2>3. CASE /\ errorCount + 1 <= MaxRetries
               /\ Turn(queue, errorCount + 1)
               /\ UNCHANGED <<conn, orphans>>
        <3>1. errorCount + 1 \in 0..MaxRetries
            BY <2>3 DEF TypeOK
        <3>2. /\ queue' \in Seq(Elements)
              /\ errorCount' \in 0..(MaxRetries + 1)
              /\ element' \in Elements \cup {None}
              /\ queueIsProcessing' \in BOOLEAN
              /\ element' # None => queueIsProcessing'
            BY <2>3, <3>1, TurnFacts DEF TypeOK
        <3>. QED
            BY <1>5, <2>3, <3>2 DEF processQueueRejected, TypeOK, Counter, pauseVars
    <2>. QED
        BY <1>5, <2>2, <2>3 DEF processQueueRejected
<1>. QED
    BY <1>1, <1>2, <1>3, <1>4, <1>5 DEF LoopStep

LEMMA PromiseStepTypeOK ==
    ASSUME TypeOK, PromiseStep
    PROVE  TypeOK'
<1> USE ConsumerAssumption
<1>1. ASSUME NEW e \in Elements, NEW f, retryPromise(e, f)
      PROVE  handled' \subseteq Messages /\ faults' \in 0..MaxFaults
    <2>1. e.msg \in Messages
        BY DEF Elements
    <2>. QED
        BY <1>1, <2>1 DEF retryPromise, TypeOK
<1>2. CASE retryAwaited
    <2>1. PICK f \in Outcomes(element) : retryPromise(element, f) /\ element' = f
        BY <1>2 DEF retryAwaited
    <2>2. element \in Elements /\ queueIsProcessing
        BY <1>2 DEF retryAwaited, TypeOK
    <2>3. element' \in Elements
        BY <2>1, <2>2, OutcomeFacts
    <2>4. handled' \subseteq Messages /\ faults' \in 0..MaxFaults
        BY <1>1, <2>1, <2>2
    <2>5. UNCHANGED <<committed, clientVars, started, consumerPaused, seekCalled,
                      queue, decoding, queueIsProcessing, errorCount, orphans>>
        BY <1>2 DEF retryAwaited
    <2>. QED
        BY <2>2, <2>3, <2>4, <2>5 DEF TypeOK, Counter, clientVars
<1>3. CASE \E i \in DOMAIN queue : retryQueued(i)
    <2>1. PICK i \in DOMAIN queue : retryQueued(i)
        BY <1>3
    <2>2. PICK f \in Outcomes(queue[i]) :
              retryPromise(queue[i], f) /\ queue' = [queue EXCEPT ![i] = f]
        BY <2>1 DEF retryQueued
    <2>3. i \in 1..Len(queue) /\ queue[i] \in Elements
        BY <2>1, LenProperties DEF TypeOK
    <2>4. queue' \in Seq(Elements)
        BY <2>2, <2>3, OutcomeFacts, ExceptSeq DEF TypeOK
    <2>5. handled' \subseteq Messages /\ faults' \in 0..MaxFaults
        BY <1>1, <2>2, <2>3
    <2>6. UNCHANGED <<committed, clientVars, started, consumerPaused, seekCalled,
                      decoding, loopVars, orphans>>
        BY <2>1 DEF retryQueued
    <2>. QED
        BY <2>4, <2>5, <2>6 DEF TypeOK, Counter, clientVars, loopVars
<1>4. CASE \E m \in orphans : retryOrphan(m)
    BY <1>4 DEF retryOrphan, TypeOK, Counter, clientVars, loopVars
<1>. QED
    BY <1>2, <1>3, <1>4 DEF PromiseStep

LEMMA ClientStepTypeOK ==
    ASSUME TypeOK, ClientStep
    PROVE  TypeOK'
<1> USE ConsumerAssumption
<1>1. CASE onError
    <2>1. /\ queue' \in Seq(Elements) /\ orphans' \subseteq Messages
          /\ conn' \in {"down", "up", "draining", "closing"}
        BY <1>1, ClearFacts, StoppedFacts DEF onError, TypeOK
    <2>2. faults' \in 0..MaxFaults
        BY <1>1 DEF onError, mayFail, TypeOK
    <2>. QED
        BY <1>1, <2>1, <2>2 DEF onError, TypeOK, Counter, pauseVars, loopVars
<1>2. CASE stop
    <2>1. conn' \in {"down", "up", "draining", "closing"}
        BY <1>2, StoppedFacts DEF stop, TypeOK
    <2>2. faults' \in 0..MaxFaults
        BY <1>2 DEF stop, mayFail, TypeOK
    <2>. QED
        BY <1>2, <2>1, <2>2 DEF stop, TypeOK, Counter, pauseVars, loopVars
<1>3. CASE disconnecting
    BY <1>3 DEF disconnecting, TypeOK, Counter, pauseVars, loopVars
<1>4. CASE onDisconnect
    <2>1. queue' \in Seq(Elements) /\ orphans' \subseteq Messages
        BY <1>4, ClearFacts DEF onDisconnect, TypeOK
    <2>2. seeks' \in [Partitions -> Nat]
        BY <1>4 DEF onDisconnect
    <2>. QED
        BY <1>4, <2>1, <2>2 DEF onDisconnect, TypeOK, Counter, pauseVars, loopVars
<1>. QED
    BY <1>1, <1>2, <1>3, <1>4 DEF ClientStep

LEMMA ProcessEndsTypeOK ==
    ASSUME TypeOK, ProcessEnds, faults' \in 0..MaxFaults
    PROVE  TypeOK'
<1>1. << >> \in Seq(Elements) /\ << >> \in Seq(Messages)
    OBVIOUS
<1>2. seeks' \in [Partitions -> Nat]
    BY DEF ProcessEnds
<1>3. decoding' \in [Partitions -> Seq(Messages)]
    BY <1>1 DEF ProcessEnds
<1>b. /\ started' \in BOOLEAN /\ consumerPaused' \in BOOLEAN
      /\ seekCalled' \in BOOLEAN /\ queueIsProcessing' \in BOOLEAN
    BY Zenon DEF ProcessEnds
<1>4. /\ conn' = "down"
      /\ pausedAt' = {} /\ queue' = << >> /\ element' = None
      /\ errorCount' \in 0..(MaxRetries + 1) /\ orphans' = {}
      /\ UNCHANGED <<committed, handled, position>>
    BY ConsumerAssumption DEF ProcessEnds
<1>. QED
    BY <1>1, <1>2, <1>3, <1>4, <1>b DEF TypeOK, Counter

LEMMA NextTypeOK == TypeOK /\ [Next]_vars => TypeOK'
<1> SUFFICES ASSUME TypeOK, [Next]_vars PROVE TypeOK'
    OBVIOUS
<1>1. CASE start
    <2>1. position' \in [Partitions -> Nat]
        BY <1>1, ConsumerAssumption DEF start, TypeOK
    <2>2. started' \in BOOLEAN /\ conn' = "up"
        BY <1>1 DEF start
    <2>3. UNCHANGED <<committed, handled, faults, pausedAt, seeks, consumerPaused,
                      seekCalled, queue, decoding, loopVars, orphans>>
        BY <1>1 DEF start
    <2>. QED
        BY <2>1, <2>2, <2>3 DEF TypeOK, Counter, loopVars
<1>2. CASE \E p \in Partitions : PartitionStep(p)
    BY <1>2, PartitionStepTypeOK
<1>3. CASE LoopStep
    BY <1>3, LoopStepTypeOK
<1>4. CASE PromiseStep
    BY <1>4, PromiseStepTypeOK
<1>5. CASE ClientStep
    BY <1>5, ClientStepTypeOK
<1>6. CASE crash
    BY <1>6, ProcessEndsTypeOK, ConsumerAssumption DEF crash, mayFail, TypeOK
<1>7. CASE processRestarts
    BY <1>7, ProcessEndsTypeOK DEF processRestarts, TypeOK
<1>8. CASE UNCHANGED vars
    BY <1>8 DEF vars, TypeOK, Counter
<1>. QED
    BY <1>1, <1>2, <1>3, <1>4, <1>5, <1>6, <1>7, <1>8 DEF Next

(***************************************************************************)
(* The state of the consumer, of its client and of the group's offsets     *)
(* keeps its shape; in particular processQueue never awaits an element     *)
(* without its guard queueIsProcessing being set.                          *)
(***************************************************************************)
THEOREM ConsumerTypeOK == Spec => []TypeOK
BY InitTypeOK, NextTypeOK, PTL DEF Spec

-----------------------------------------------------------------------------
(***************************************************************************)
(* What was delivered is handled, buffered or being deserialised, in the   *)
(* order of the offsets: the parts of NothingIsLost that speak of it.      *)
(***************************************************************************)
InOrder == NoneDropped /\ BufferInOrder /\ PendingInOrder

\* Its other parts, but for AtLeastOnce.
Tidy == PendingFiled /\ AwaitsFront /\ OkIsHandled /\ NothingBeforeStart

\* The buffer and the messages being deserialised have lengths.
LEMMA LengthFacts ==
    ASSUME TypeOK
    PROVE  /\ Len(queue) \in Nat
           /\ \A i \in 1..Len(queue) : queue[i] \in Elements /\ queue[i].msg \in Messages
           /\ \A p \in Partitions :
                 /\ Len(decoding[p]) \in Nat
                 /\ \A i \in 1..Len(decoding[p]) : decoding[p][i] \in Messages
           /\ \A m \in Messages : m.part \in Partitions /\ m.off \in Nat
<1>1. /\ Len(queue) \in Nat
      /\ \A i \in 1..Len(queue) : queue[i] \in Elements
    BY LenProperties DEF TypeOK
<1>2. \A e \in Elements : e.msg \in Messages
    BY DEF Elements
<1>3. ASSUME NEW p \in Partitions
      PROVE  /\ Len(decoding[p]) \in Nat
             /\ \A i \in 1..Len(decoding[p]) : decoding[p][i] \in Messages
    <2>1. decoding[p] \in Seq(Messages)
        BY DEF TypeOK
    <2>. QED
        BY <2>1, LenProperties
<1>4. \A m \in Messages : m.part \in Partitions /\ m.off \in Nat
    BY ConsumerAssumption DEF Messages
<1>. QED
    BY <1>1, <1>2, <1>3, <1>4

\* A consumer that does not serve leaves nothing to show.
LEMMA IdleInOrder ==
    ASSUME ~Serving'
    PROVE  InOrder'
BY DEF InOrder, NoneDropped, BufferInOrder, PendingInOrder

\* Steps that at most handle messages, or change the state of a promise.
LEMMA FrameInOrder ==
    ASSUME TypeOK, InOrder, Serving, handled \subseteq handled',
           UNCHANGED <<position, decoding>>,
           Len(queue') = Len(queue),
           \A i \in 1..Len(queue) : queue'[i].msg = queue[i].msg
    PROVE  InOrder'
<1>1. ASSUME NEW m PROVE Covered(m) => Covered(m)'
    BY DEF Covered
<1>2. ASSUME NEW m, NEW n \in 0..Len(queue)
      PROVE  Buffered(m, n) => Buffered(m, n)'
    BY LengthFacts DEF Buffered
<1>3. ASSUME NEW m, NEW n
      PROVE  Pending(m, n) => Pending(m, n)'
    BY DEF Pending
<1>4. Len(queue) \in 0..Len(queue)
    BY LengthFacts
<1>5. NoneDropped'
    <2> SUFFICES ASSUME NEW m \in Messages, m.off < position'[m.part]
                 PROVE  \/ Covered(m)'
                        \/ Buffered(m, Len(queue))'
                        \/ Pending(m, Len(decoding[m.part]))'
        BY DEF NoneDropped
    <2>1. \/ Covered(m)
          \/ Buffered(m, Len(queue))
          \/ Pending(m, Len(decoding[m.part]))
        BY DEF InOrder, NoneDropped
    <2>. QED
        BY <1>1, <1>2, <1>3, <1>4, <2>1
<1>6. BufferInOrder'
    <2> SUFFICES ASSUME NEW i \in 1..Len(queue), NEW b \in Messages,
                        Before(b, queue'[i].msg)
                 PROVE  Covered(b)' \/ Buffered(b, i - 1)'
        BY DEF BufferInOrder, Before
    <2>1. Covered(b) \/ Buffered(b, i - 1)
        BY DEF InOrder, BufferInOrder
    <2>2. i - 1 \in 0..Len(queue)
        BY LengthFacts
    <2>. QED
        BY <1>1, <1>2, <2>1, <2>2
<1>7. PendingInOrder'
    <2> SUFFICES ASSUME NEW p \in Partitions, NEW i \in 1..Len(decoding[p]),
                        NEW b \in Messages, Before(b, decoding[p][i])
                 PROVE  Covered(b)' \/ Buffered(b, Len(queue))' \/ Pending(b, i - 1)'
        BY DEF PendingInOrder, Before
    <2>1. Covered(b) \/ Buffered(b, Len(queue)) \/ Pending(b, i - 1)
        BY DEF InOrder, PendingInOrder
    <2>. QED
        BY <1>1, <1>2, <1>3, <1>4, <2>1
<1>. QED
    BY <1>5, <1>6, <1>7 DEF InOrder

\* A client that serves no longer after a fatal error.
LEMMA StoppedFatally ==
    ASSUME ~Drains, NothingBeforeStart, TypeOK, conn' = Stopped
    PROVE  conn' \in {"down", "closing"} /\ ~Serving'
<1>1. conn' \in {"down", "closing"}
    BY DEF NothingBeforeStart, Stopped, TypeOK
<1>. QED
    BY <1>1 DEF Serving, Accepts

LEMMA TurnKeepsOk ==
    ASSUME NEW q \in Seq(Elements), NEW errors, Turn(q, errors),
           handled \subseteq handled',
           \A i \in 1..Len(q) : q[i].promise = "ok" => q[i].msg \in handled
    PROVE  OkIsHandled'
<1>1. CASE q = << >>
    <2>1. queue' = << >> /\ element' = None
        BY <1>1 DEF Turn
    <2>. QED
        BY <2>1 DEF OkIsHandled
<1>2. CASE q # << >>
    <2>1. queue' = [q EXCEPT ![1] = Await(q[1])] /\ element' = q[1]
        BY <1>2 DEF Turn
    <2>2. 1 \in 1..Len(q) /\ q[1] \in Elements
        BY <1>2, EmptySeq, LenProperties
    <2>3. Await(q[1]) \in Elements /\ Await(q[1]).promise # "ok"
        BY <2>2, AwaitFacts DEF Await, Elements, PromiseStates
    <2>4. /\ Len(queue') = Len(q)
          /\ \A i \in 1..Len(q) : queue'[i] = IF i = 1 THEN Await(q[1]) ELSE q[i]
        BY <2>1, <2>2, <2>3, ExceptSeq
    <2>. QED
        BY <2>1, <2>2, <2>3, <2>4 DEF OkIsHandled
<1>. QED
    BY <1>1, <1>2

LEMMA ArriveKeepsOk ==
    ASSUME TypeOK, OkIsHandled, NEW m \in Messages, Arrive(m), UNCHANGED handled
    PROVE  OkIsHandled'
<1> DEFINE q == Append(queue, Enqueued(m))
<1>1. /\ q \in Seq(Elements)
      /\ Len(q) = Len(queue) + 1
      /\ \A i \in 1..Len(queue) : q[i] = queue[i]
      /\ q[Len(queue) + 1] = Enqueued(m)
      /\ Len(queue) \in Nat
    BY EnqueuedFacts, AppendProperties, LenProperties DEF TypeOK
<1>2. Enqueued(m).promise # "ok"
    BY DEF Enqueued
<1>3. \A i \in 1..Len(q) : q[i].promise = "ok" => q[i].msg \in handled
    BY <1>1, <1>2 DEF OkIsHandled
<1>4. CASE queue' = q /\ element' = element
    BY <1>3, <1>4 DEF OkIsHandled
<1>5. CASE Turn(q, 0)
    <2>. HIDE DEF q
    <2>. QED
        BY <1>1, <1>3, <1>5, TurnKeepsOk
<1>6. CASE Clear(q) /\ element' = element
    BY <1>6 DEF OkIsHandled, Clear
<1>. QED
    BY <1>4, <1>5, <1>6 DEF Arrive, loopVars

\* The loop awaits the front of the buffer after an arrival, too.
LEMMA ArriveKeepsFront ==
    ASSUME TypeOK, AwaitsFront, NEW m \in Messages, Arrive(m)
    PROVE  AwaitsFront'
<1>1. CASE ~Accepts
    BY <1>1, ArriveFacts DEF AwaitsFront, Accepts
<1>2. CASE Accepts
    <2>0. Len(queue) \in Nat /\ queue' \in Seq(Elements) /\ Len(queue') = Len(queue) + 1
        BY <1>2, ArriveFacts, LengthFacts
    <2>1. queue' # << >>
        BY <2>0, EmptySeq
    <2>2. CASE queueIsProcessing /\ element' = element
        <3>1. ASSUME element' # None PROVE queue'[1].msg = element'.msg
            <4>1. queue # << >> /\ queue[1].msg = element.msg
                BY <1>2, <2>2, <3>1 DEF AwaitsFront
            <4>2. 1 \in 1..Len(queue)
                BY <4>1, <2>0, EmptySeq DEF TypeOK
            <4>3. queue'[1].msg = queue[1].msg
                BY <1>2, <4>2, ArriveFacts
            <4>. QED
                BY <2>2, <4>1, <4>3
        <3>. QED
            BY <2>1, <3>1 DEF AwaitsFront
    <2>3. CASE ~queueIsProcessing /\ element'.msg = queue'[1].msg
        BY <2>1, <2>3 DEF AwaitsFront
    <2>. QED
        BY <1>2, <2>2, <2>3, ArriveFacts
<1>. QED
    BY <1>1, <1>2

\* onData: the message is dropped, or goes to the coder, or arrives.
LEMMA OnDataKeeps ==
    ASSUME SafeEnvironment, TypeOK, TypeOK', NothingIsLost,
           NEW p \in Partitions, onData(p)
    PROVE  InOrder' /\ Tidy'
<1>0. [part |-> p, off |-> position[p]] \in Messages
    BY ConsumerAssumption DEF onData, Messages, TypeOK, Counter
<1>m. PICK m \in Messages : m = [part |-> p, off |-> position[p]]
    BY <1>0
<1>1. m.part = p /\ m.off = position[p]
    BY <1>m
<1>2. /\ Accepts /\ started /\ UNCHANGED <<committed, handled, started>>
      /\ position' = [position EXCEPT ![p] = position[p] + 1]
      /\ position' \in [Partitions -> Nat]
    BY DEF onData, Accepts, NothingIsLost, NothingBeforeStart, TypeOK, Counter
<1>3. \A x \in Messages :
          x.off < position'[x.part] => x = m \/ x.off < position[x.part]
    <2> SUFFICES ASSUME NEW x \in Messages, x.off < position'[x.part], x.part = p
                 PROVE  x = m \/ x.off < position[x.part]
        BY <1>2, LengthFacts DEF TypeOK, Counter
    <2>1. position'[p] = position[p] + 1 /\ position[p] \in Nat
        BY <1>2 DEF TypeOK, Counter
    <2>2. x.off \in Nat /\ x = [part |-> x.part, off |-> x.off]
        BY LengthFacts DEF Messages
    <2>. QED
        BY <1>m, <2>1, <2>2
<1>4. \A x : Covered(x)' <=> Covered(x)
    BY <1>2 DEF Covered
<1>5. CASE m.off < StartOffset[p]
           /\ UNCHANGED <<conn, pauseVars, queue, decoding, loopVars, orphans>>
    <2>1. Covered(m)
        BY <1>1, <1>5 DEF Covered
    <2>2. Serving' <=> Serving
        BY <1>5 DEF Serving, Accepts, loopVars
    <2>3. /\ \A x, n : Buffered(x, n)' <=> Buffered(x, n)
          /\ \A x, n : Pending(x, n)' <=> Pending(x, n)
        BY <1>5 DEF Buffered, Pending
    <2>4. NoneDropped'
        BY <1>3, <1>4, <1>5, <2>1, <2>2, <2>3 DEF NothingIsLost, NoneDropped
    <2>5. BufferInOrder' /\ PendingInOrder'
        BY <1>4, <1>5, <2>2, <2>3
           DEF NothingIsLost, BufferInOrder, PendingInOrder, Before
    <2>6. Tidy'
        BY <1>2, <1>5 DEF NothingIsLost, Tidy, PendingFiled, AwaitsFront, Accepts,
                          OkIsHandled, NothingBeforeStart, loopVars
    <2>. QED
        BY <2>4, <2>5, <2>6 DEF InOrder
<1>6. CASE m \notin Undelayed
           /\ decoding' = [decoding EXCEPT ![p] = Append(@, m)]
           /\ UNCHANGED <<conn, pauseVars, seeks, queue, loopVars, orphans>>
    <2>1. /\ decoding[p] \in Seq(Messages) /\ Len(decoding[p]) \in Nat
          /\ decoding'[p] = Append(decoding[p], m)
          /\ \A r \in Partitions : r # p => decoding'[r] = decoding[r]
        BY <1>6, LengthFacts DEF TypeOK
    <2>2. /\ Len(decoding'[p]) = Len(decoding[p]) + 1
          /\ \A i \in 1..Len(decoding[p]) : decoding'[p][i] = decoding[p][i]
          /\ decoding'[p][Len(decoding[p]) + 1] = m
        BY <1>1, <2>1, AppendProperties
    <2>3. Serving' <=> Serving
        BY <1>6 DEF Serving, Accepts, loopVars
    <2>4. /\ \A x, n : Buffered(x, n)' <=> Buffered(x, n)
          /\ \A x \in Messages : \A n \in 0..Len(decoding[x.part]) :
                Pending(x, n) => Pending(x, n)'
        <3>1. \A x, n : Buffered(x, n)' <=> Buffered(x, n)
            BY <1>6 DEF Buffered
        <3>2. ASSUME NEW x \in Messages, NEW n \in 0..Len(decoding[x.part]),
                     Pending(x, n)
              PROVE  Pending(x, n)'
            <4>1. x.part \in Partitions /\ Len(decoding[x.part]) \in Nat
                BY LengthFacts
            <4>2. PICK i \in 1..n : decoding[x.part][i] = x
                BY <3>2 DEF Pending
            <4>3. i \in 1..Len(decoding[x.part])
                BY <4>1, <4>2
            <4>4. decoding'[x.part][i] = decoding[x.part][i]
                BY <2>1, <2>2, <4>1, <4>3
            <4>. QED
                BY <4>2, <4>4 DEF Pending
        <3>. QED
            BY <3>1, <3>2
    <2>5. Pending(m, Len(decoding[p]))'
        <3>1. Len(decoding[p]) + 1 \in 1..Len(decoding'[p])
            BY <2>1, <2>2
        <3>. QED
            BY <1>1, <2>2, <3>1 DEF Pending
    <2>6. NoneDropped'
        <3> SUFFICES ASSUME Serving', NEW x \in Messages, x.off < position'[x.part]
                     PROVE  \/ Covered(x)'
                            \/ Buffered(x, Len(queue))'
                            \/ Pending(x, Len(decoding[x.part]))'
            BY DEF NoneDropped
        <3>1. CASE x = m
            BY <1>1, <2>2, <2>5, <3>1
        <3>2. CASE x.off < position[x.part]
            <4>1. x.part \in Partitions /\ Len(decoding[x.part]) \in Nat
                BY LengthFacts
            <4>2. CASE Pending(x, Len(decoding[x.part]))
                <5>1. Pending(x, Len(decoding[x.part]))'
                        \/ Len(decoding'[x.part]) # Len(decoding[x.part])
                    BY <2>4, <4>1, <4>2
                <5>2. PICK i \in 1..Len(decoding[x.part]) : decoding[x.part][i] = x
                    BY <4>2 DEF Pending
                <5>3. /\ decoding'[x.part][i] = x
                      /\ i \in 1..Len(decoding'[x.part])
                    BY <2>1, <2>2, <4>1, <5>2
                <5>. QED
                    BY <5>3 DEF Pending
            <4>3. CASE Covered(x) \/ Buffered(x, Len(queue))
                BY <1>4, <1>6, <2>4, <4>3
            <4>. QED
                BY <2>3, <3>2, <4>2, <4>3 DEF NothingIsLost, NoneDropped
        <3>. QED
            BY <1>3, <3>1, <3>2
    <2>7. BufferInOrder'
        BY <1>4, <1>6, <2>3, <2>4 DEF NothingIsLost, BufferInOrder, Before
    <2>8. PendingInOrder'
        <3> SUFFICES ASSUME Serving', NEW r \in Partitions,
                            NEW i \in 1..Len(decoding'[r]), NEW b \in Messages,
                            Before(b, decoding'[r][i])
                     PROVE  \/ Covered(b)'
                            \/ Buffered(b, Len(queue))'
                            \/ Pending(b, i - 1)'
            BY DEF PendingInOrder, Before
        <3>0. Len(decoding[r]) \in Nat /\ b.part \in Partitions
            BY LengthFacts
        <3>1. CASE i \in 1..Len(decoding[r])
            <4>1. decoding'[r][i] = decoding[r][i]
                BY <2>1, <2>2, <3>1
            <4>2. Covered(b) \/ Buffered(b, Len(queue)) \/ Pending(b, i - 1)
                BY <2>3, <3>1, <4>1 DEF NothingIsLost, PendingInOrder
            <4>3. decoding[r][i].part = r /\ b.part = r
                BY <3>1, <4>1 DEF NothingIsLost, PendingFiled, Before
            <4>4. i - 1 \in 0..Len(decoding[b.part])
                BY <3>0, <3>1, <4>3
            <4>. QED
                BY <1>4, <1>6, <2>4, <4>2, <4>4
        <3>2. CASE r = p /\ i = Len(decoding[p]) + 1
            <4>1. b.part = p /\ b.off < position[b.part]
                BY <1>1, <2>2, <3>2 DEF Before
            <4>2. \/ Covered(b)
                  \/ Buffered(b, Len(queue))
                  \/ Pending(b, Len(decoding[b.part]))
                BY <2>3, <4>1 DEF NothingIsLost, NoneDropped
            <4>3. i - 1 = Len(decoding[b.part]) /\ i - 1 \in 0..Len(decoding[b.part])
                BY <2>1, <3>2, <4>1
            <4>. QED
                BY <1>4, <1>6, <2>4, <4>2, <4>3
        <3>. QED
            BY <2>1, <2>2, <3>0, <3>1, <3>2
    <2>9. PendingFiled'
        <3> SUFFICES ASSUME NEW r \in Partitions, NEW i \in 1..Len(decoding'[r])
                     PROVE  decoding'[r][i].part = r /\ decoding'[r][i] \notin Undelayed
            BY DEF PendingFiled
        <3>1. CASE i \in 1..Len(decoding[r])
            BY <2>1, <2>2, <3>1 DEF NothingIsLost, PendingFiled
        <3>2. CASE r = p /\ i = Len(decoding[p]) + 1
            BY <1>1, <1>6, <2>2, <3>2
        <3>. QED
            BY <2>1, <2>2, <3>1, <3>2, LengthFacts
    <2>10. Tidy'
        BY <1>2, <1>6, <2>9 DEF NothingIsLost, Tidy, AwaitsFront, Accepts,
                                OkIsHandled, NothingBeforeStart, loopVars
    <2>. QED
        BY <2>6, <2>7, <2>8, <2>10 DEF InOrder
<1>7. CASE m \in Undelayed /\ Arrive(m) /\ UNCHANGED <<seeks, decoding>>
    <2>0. /\ Len(queue) \in Nat
          /\ Len(queue') = Len(queue) + 1
          /\ \A i \in 1..Len(queue) : queue'[i].msg = queue[i].msg
          /\ queue'[Len(queue) + 1].msg = m
          /\ conn' = conn
        BY <1>2, <1>7, ArriveFacts, LengthFacts
    <2>1. Serving' => Serving
        BY <1>2, <1>7, ArriveFacts DEF Serving, Accepts
    <2>2. \A x : \A n \in 0..Len(queue) : Buffered(x, n) => Buffered(x, n)'
        BY <2>0 DEF Buffered
    <2>3. \A x : Buffered(x, Len(queue)) => Buffered(x, Len(queue))'
        <3>1. 1..Len(queue) \subseteq 1..Len(queue')
            BY <2>0
        <3>. QED
            BY <2>0, <3>1 DEF Buffered
    <2>4. Buffered(m, Len(queue))'
        <3>1. Len(queue) + 1 \in 1..Len(queue')
            BY <2>0
        <3>. QED
            BY <2>0, <3>1 DEF Buffered
    <2>5. \A x, n : Pending(x, n)' <=> Pending(x, n)
        BY <1>7 DEF Pending
    <2>6. NoneDropped'
        <3> SUFFICES ASSUME Serving', NEW x \in Messages, x.off < position'[x.part]
                     PROVE  \/ Covered(x)'
                            \/ Buffered(x, Len(queue))'
                            \/ Pending(x, Len(decoding[x.part]))'
            BY <1>7 DEF NoneDropped
        <3>1. CASE x = m
            BY <2>4, <3>1
        <3>2. CASE x.off < position[x.part]
            BY <1>4, <1>7, <2>1, <2>3, <2>5, <3>2 DEF NothingIsLost, NoneDropped
        <3>. QED
            BY <1>3, <3>1, <3>2
    <2>7. BufferInOrder'
        <3> SUFFICES ASSUME Serving', NEW i \in 1..Len(queue'), NEW b \in Messages,
                            Before(b, queue'[i].msg)
                     PROVE  Covered(b)' \/ Buffered(b, i - 1)'
            BY DEF BufferInOrder, Before
        <3>0. i - 1 \in 0..Len(queue)
            BY <2>0
        <3>1. CASE i \in 1..Len(queue)
            BY <1>4, <2>0, <2>1, <2>2, <3>0, <3>1 DEF NothingIsLost, BufferInOrder
        <3>2. CASE i = Len(queue) + 1
            <4>1. b.part = p /\ b.off < position[b.part]
                BY <1>1, <2>0, <3>2 DEF Before
            <4>2. b \in Undelayed
                BY <1>1, <1>7, <4>1 DEF SafeEnvironment
            <4>3. ~Pending(b, Len(decoding[b.part]))
                BY <4>1, <4>2 DEF Pending, NothingIsLost, PendingFiled
            <4>4. Covered(b) \/ Buffered(b, Len(queue))
                BY <2>1, <4>1, <4>3 DEF NothingIsLost, NoneDropped
            <4>5. i - 1 = Len(queue)
                BY <2>0, <3>2
            <4>. QED
                BY <1>4, <2>2, <3>0, <4>4, <4>5
        <3>. QED
            BY <2>0, <3>1, <3>2
    <2>8. PendingInOrder'
        <3> SUFFICES ASSUME Serving', NEW r \in Partitions,
                            NEW i \in 1..Len(decoding[r]), NEW b \in Messages,
                            Before(b, decoding[r][i])
                     PROVE  \/ Covered(b)'
                            \/ Buffered(b, Len(queue))'
                            \/ Pending(b, i - 1)'
            BY <1>7 DEF PendingInOrder, Before
        <3>. QED
            BY <1>4, <2>1, <2>3, <2>5 DEF NothingIsLost, PendingInOrder
    <2>9. Tidy'
        BY <1>2, <1>7, <2>0, ArriveKeepsFront, ArriveKeepsOk
           DEF NothingIsLost, Tidy, PendingFiled, NothingBeforeStart
    <2>. QED
        BY <2>6, <2>7, <2>8, <2>9 DEF InOrder
<1>. QED
    BY <1>m, <1>1, <1>5, <1>6, <1>7 DEF onData

\* A seek moves the client to the start offset, or fails.
LEMMA SeekKeeps ==
    ASSUME SafeEnvironment, TypeOK, TypeOK', NothingIsLost,
           NEW p \in Partitions, seekDone(p) \/ seekFails(p)
    PROVE  InOrder' /\ Tidy'
<1>0. /\ started /\ UNCHANGED <<handled, decoding, element, queueIsProcessing, started>>
    BY DEF seekDone, seekFails, Accepts, loopVars, NothingIsLost, NothingBeforeStart
<1>1. CASE seekDone(p)
    <2>1. /\ Serving' <=> Serving
          /\ \A x : Covered(x)' <=> Covered(x)
          /\ \A x, n : Buffered(x, n)' <=> Buffered(x, n)
          /\ \A x, n : Pending(x, n)' <=> Pending(x, n)
        BY <1>1 DEF seekDone, Serving, Accepts, loopVars, Covered, Buffered, Pending
    <2>2. \A x \in Messages :
              x.off < position'[x.part] => Covered(x) \/ x.off < position[x.part]
        BY <1>1, LengthFacts DEF seekDone, Covered, TypeOK, Counter
    <2>3. NoneDropped'
        BY <1>0, <1>1, <2>1, <2>2 DEF seekDone, NothingIsLost, NoneDropped
    <2>4. BufferInOrder' /\ PendingInOrder'
        BY <1>1, <2>1
           DEF seekDone, NothingIsLost, BufferInOrder, PendingInOrder, Before
    <2>5. Tidy'
        BY <1>0, <1>1 DEF seekDone, NothingIsLost, Tidy, PendingFiled, AwaitsFront,
                     Accepts, OkIsHandled, NothingBeforeStart, loopVars
    <2>. QED
        BY <2>3, <2>4, <2>5 DEF InOrder
<1>2. CASE seekFails(p) /\ UNCHANGED <<conn, queue, orphans>>
    <2>1. /\ Serving' <=> Serving
          /\ UNCHANGED <<position, decoding>>
        BY <1>2 DEF seekFails, Serving, Accepts, loopVars
    <2>2. InOrder'
        <3>1. CASE Serving
            BY <1>0, <1>2, <2>1, <3>1, FrameInOrder DEF NothingIsLost, InOrder
        <3>2. CASE ~Serving
            BY <2>1, <3>2, IdleInOrder
        <3>. QED
            BY <3>1, <3>2
    <2>3. Tidy'
        BY <1>0, <1>2 DEF NothingIsLost, Tidy, PendingFiled, AwaitsFront,
                     Accepts, OkIsHandled, NothingBeforeStart
    <2>. QED
        BY <2>2, <2>3
<1>3. CASE seekFails(p) /\ mayFail("clientFatal") /\ Clear(queue) /\ conn' = Stopped
    <2>1. ~Drains
        BY <1>3, Zenon DEF SafeEnvironment, mayFail
    <2>2. conn' \in {"down", "closing"} /\ ~Serving'
        BY <1>3, <2>1, StoppedFatally DEF NothingIsLost
    <2>3. Tidy'
        BY <1>0, <1>3, <2>2 DEF NothingIsLost, Tidy, PendingFiled, AwaitsFront,
                     Accepts, OkIsHandled, NothingBeforeStart, Clear
    <2>. QED
        BY <2>2, <2>3, IdleInOrder
<1>. QED
    BY <1>1, <1>2, <1>3 DEF seekFails

\* A message moves from the coder to the buffer.
LEMMA DeserializeKeeps ==
    ASSUME SafeEnvironment, TypeOK, TypeOK', NothingIsLost,
           NEW p \in Partitions, deserialize(p)
    PROVE  InOrder' /\ Tidy'
<1>0. /\ decoding[p] \in Seq(Messages) /\ decoding[p] # << >>
      /\ decoding' = [decoding EXCEPT ![p] = Tail(decoding[p])]
      /\ decoding'[p] = Tail(decoding[p])
      /\ \A r \in Partitions : r # p => decoding'[r] = decoding[r]
      /\ UNCHANGED <<handled, position, started>>
    BY DEF deserialize, TypeOK
<1>1. /\ Len(decoding[p]) \in Nat /\ Len(decoding[p]) > 0
      /\ Head(decoding[p]) \in Messages
      /\ Head(decoding[p]) = decoding[p][1]
      /\ Len(decoding'[p]) = Len(decoding[p]) - 1
      /\ \A i \in 1..Len(decoding'[p]) : decoding'[p][i] = decoding[p][i + 1]
    <2>1. /\ Tail(decoding[p]) \in Seq(Messages)
          /\ Len(Tail(decoding[p])) = Len(decoding[p]) - 1
          /\ \A i \in 1..Len(Tail(decoding[p])) :
                Tail(decoding[p])[i] = decoding[p][i + 1]
          /\ Head(decoding[p]) \in Messages
        BY <1>0, HeadTailProperties
    <2>2. Len(decoding[p]) \in Nat /\ Len(decoding[p]) > 0
        BY <1>0, EmptySeq, LenProperties
    <2>3. Head(decoding[p]) = decoding[p][1]
        BY <1>0
    <2>. QED
        BY <1>0, <2>1, <2>2, <2>3
<1>2. PICK m \in Messages : m = decoding[p][1]
    BY <1>1
<1>n. PICK n0 \in Nat : n0 = Len(decoding[p])
    BY <1>1
<1>3. Arrive(m) /\ m.part = p
    BY <1>1, <1>2 DEF deserialize, NothingIsLost, PendingFiled
<1>4. started
    BY <1>0 DEF NothingIsLost, NothingBeforeStart
<1>5. PendingFiled'
    <2> SUFFICES ASSUME NEW r \in Partitions, NEW i \in 1..Len(decoding'[r])
                 PROVE  decoding'[r][i].part = r /\ decoding'[r][i] \notin Undelayed
        BY DEF PendingFiled
    <2>1. CASE r = p
        <3>1. i + 1 \in 1..Len(decoding[p])
            BY <1>1, <2>1
        <3>. QED
            BY <1>1, <2>1, <3>1 DEF NothingIsLost, PendingFiled
    <2>2. CASE r # p
        BY <1>0, <2>2 DEF NothingIsLost, PendingFiled
    <2>. QED
        BY <2>1, <2>2
<1>6. Tidy'
    <2>1. NothingBeforeStart'
        <3>1. conn' = conn
            BY <1>3, ArriveFacts
        <3>. QED
            BY <1>0, <1>4, <3>1 DEF NothingIsLost, NothingBeforeStart
    <2>. QED
        BY <1>0, <1>3, <1>5, <2>1, ArriveKeepsFront, ArriveKeepsOk
           DEF NothingIsLost, Tidy
<1>7. CASE ~Accepts
    <2>1. ~Serving'
        BY <1>3, <1>7, ArriveFacts DEF Serving, Accepts
    <2>. QED
        BY <1>6, <2>1, IdleInOrder
<1>8. CASE Accepts
    <2>0. /\ Len(queue) \in Nat
          /\ Len(queue') = Len(queue) + 1
          /\ \A i \in 1..Len(queue) : queue'[i].msg = queue[i].msg
          /\ queue'[Len(queue) + 1].msg = m
        BY <1>3, <1>8, ArriveFacts, LengthFacts
    <2>1. Serving' => Serving
        BY <1>3, <1>8, ArriveFacts DEF Serving, Accepts
    <2>2. \A x : \A n \in 0..Len(queue) : Buffered(x, n) => Buffered(x, n)'
        BY <2>0 DEF Buffered
    <2>3. \A x : Buffered(x, Len(queue)) => Buffered(x, Len(queue))'
        <3>1. 1..Len(queue) \subseteq 1..Len(queue')
            BY <2>0
        <3>. QED
            BY <2>0, <3>1 DEF Buffered
    <2>4. Buffered(m, Len(queue))'
        <3>1. Len(queue) + 1 \in 1..Len(queue')
            BY <2>0
        <3>. QED
            BY <2>0, <3>1 DEF Buffered
    <2>5. \A x : Covered(x)' <=> Covered(x)
        BY <1>0 DEF Covered
    \* Behind m the coder's queue keeps its order.
    <2>6. ASSUME NEW x \in Messages, NEW n \in 0..Len(decoding[x.part]),
                 Pending(x, n), x.part = p
          PROVE  x = m \/ Pending(x, n - 1)'
        <3>1. PICK i \in 1..n : decoding[p][i] = x
            BY <2>6 DEF Pending
        <3>2. CASE i = 1
            BY <1>2, <3>1, <3>2
        <3>3. CASE i # 1
            <4>1. i - 1 \in 1..(n - 1) /\ i - 1 \in 1..Len(decoding'[p])
                BY <1>1, <2>6, <3>1, <3>3
            <4>2. decoding'[p][i - 1] = decoding[p][(i - 1) + 1] /\ (i - 1) + 1 = i
                BY <1>1, <3>1, <4>1
            <4>. QED
                BY <2>6, <3>1, <4>1, <4>2 DEF Pending
        <3>. QED
            BY <3>2, <3>3
    <2>7. ASSUME NEW x \in Messages, NEW n, Pending(x, n), x.part # p
          PROVE  Pending(x, n)'
        BY <1>0, <2>7, LengthFacts DEF Pending
    <2>8. NoneDropped'
        <3> SUFFICES ASSUME Serving', NEW x \in Messages, x.off < position'[x.part]
                     PROVE  \/ Covered(x)'
                            \/ Buffered(x, Len(queue))'
                            \/ Pending(x, Len(decoding[x.part]))'
            BY DEF NoneDropped
        <3>0. x.part \in Partitions /\ Len(decoding[x.part]) \in Nat
            BY LengthFacts
        <3>1. \/ Covered(x) \/ Buffered(x, Len(queue))
              \/ Pending(x, Len(decoding[x.part]))
            BY <1>0, <2>1 DEF NothingIsLost, NoneDropped
        <3>2. CASE Pending(x, Len(decoding[x.part])) /\ x.part = p
            <4>1. Pending(x, n0) /\ n0 \in 0..Len(decoding[x.part])
                BY <1>n, <3>2
            <4>2. x = m \/ Pending(x, n0 - 1)'
                BY <2>6, <3>2, <4>1
            <4>3. n0 - 1 = Len(decoding'[x.part])
                BY <1>1, <1>n, <3>2
            <4>. QED
                BY <2>4, <4>2, <4>3
        <3>3. CASE Pending(x, Len(decoding[x.part])) /\ x.part # p
            <4>1. Len(decoding'[x.part]) = Len(decoding[x.part])
                BY <1>0, <3>0, <3>3
            <4>2. Pending(x, Len(decoding'[x.part]))
                BY <3>3, <4>1
            <4>3. PICK n1 : n1 = Len(decoding'[x.part])
                OBVIOUS
            <4>4. Pending(x, n1)'
                BY <2>7, <3>3, <4>2, <4>3
            <4>. QED
                BY <4>3, <4>4
        <3>. QED
            BY <2>3, <2>5, <3>1, <3>2, <3>3
    <2>9. BufferInOrder'
        <3> SUFFICES ASSUME Serving', NEW i \in 1..Len(queue'), NEW b \in Messages,
                            Before(b, queue'[i].msg)
                     PROVE  Covered(b)' \/ Buffered(b, i - 1)'
            BY DEF BufferInOrder, Before
        <3>0. i - 1 \in 0..Len(queue)
            BY <2>0
        <3>1. CASE i \in 1..Len(queue)
            BY <2>0, <2>1, <2>2, <2>5, <3>0, <3>1 DEF NothingIsLost, BufferInOrder
        <3>2. CASE i = Len(queue) + 1
            <4>1. Before(b, decoding[p][1]) /\ 1 \in 1..Len(decoding[p])
                BY <1>1, <1>2, <2>0, <3>2
            <4>2. Covered(b) \/ Buffered(b, Len(queue)) \/ Pending(b, 1 - 1)
                BY <2>1, <4>1 DEF NothingIsLost, PendingInOrder
            <4>3. ~Pending(b, 1 - 1)
                BY DEF Pending
            <4>4. i - 1 = Len(queue)
                BY <2>0, <3>2
            <4>. QED
                BY <2>2, <2>5, <3>0, <4>2, <4>3, <4>4
        <3>. QED
            BY <2>0, <3>1, <3>2
    <2>10. PendingInOrder'
        <3> SUFFICES ASSUME Serving', NEW r \in Partitions,
                            NEW i \in 1..Len(decoding'[r]), NEW b \in Messages,
                            Before(b, decoding'[r][i])
                     PROVE  \/ Covered(b)'
                            \/ Buffered(b, Len(queue))'
                            \/ Pending(b, i - 1)'
            BY DEF PendingInOrder, Before
        <3>0. decoding'[r][i].part = r /\ b.part = r
            BY <1>5 DEF PendingFiled, Before
        <3>1. CASE r = p
            <4>1. i + 1 \in 1..Len(decoding[p]) /\ decoding[p][i + 1] = decoding'[p][i]
                BY <1>1, <3>1
            <4>2. Covered(b) \/ Buffered(b, Len(queue)) \/ Pending(b, (i + 1) - 1)
                BY <2>1, <3>1, <4>1 DEF NothingIsLost, PendingInOrder
            <4>3. (i + 1) - 1 = i /\ i \in 0..Len(decoding[b.part])
                BY <1>1, <3>0, <3>1, <4>1
            <4>4. Pending(b, i) => b = m \/ Pending(b, i - 1)'
                BY <2>6, <3>0, <3>1, <4>3
            <4>. QED
                BY <2>3, <2>4, <2>5, <4>2, <4>3, <4>4
        <3>2. CASE r # p
            <4>1. decoding'[r] = decoding[r]
                BY <1>0, <3>2
            <4>2. Covered(b) \/ Buffered(b, Len(queue)) \/ Pending(b, i - 1)
                BY <2>1, <4>1 DEF NothingIsLost, PendingInOrder
            <4>3. Pending(b, i - 1) => Pending(b, i - 1)'
                BY <2>7, <3>0, <3>2
            <4>. QED
                BY <2>3, <2>5, <4>2, <4>3
        <3>. QED
            BY <3>1, <3>2
    <2>. QED
        BY <1>6, <2>8, <2>9, <2>10 DEF InOrder
<1>. QED
    BY <1>7, <1>8

\* A message the coder cannot read ends the service.
LEMMA DeserializeFailsKeeps ==
    ASSUME SafeEnvironment, TypeOK, TypeOK', NothingIsLost,
           NEW p \in Partitions, deserializeFails(p)
    PROVE  InOrder' /\ Tidy'
<1>0. /\ decoding[p] \in Seq(Messages) /\ decoding[p] # << >>
      /\ decoding'[p] = Tail(decoding[p])
      /\ \A r \in Partitions : r # p => decoding'[r] = decoding[r]
      /\ queue' = << >> /\ UNCHANGED <<started, element, handled>>
    BY DEF deserializeFails, Clear, TypeOK, loopVars
<1>1. /\ Len(decoding'[p]) = Len(decoding[p]) - 1
      /\ \A i \in 1..Len(decoding'[p]) : decoding'[p][i] = decoding[p][i + 1]
      /\ Len(decoding[p]) \in Nat
    BY <1>0, HeadTailProperties, LenProperties
<1>2. ~Drains
    BY Zenon DEF deserializeFails, SafeEnvironment, mayFail
<1>3. conn' \in {"down", "closing"} /\ ~Serving'
    BY <1>2, StoppedFatally DEF deserializeFails, NothingIsLost
<1>4. PendingFiled'
    <2> SUFFICES ASSUME NEW r \in Partitions, NEW i \in 1..Len(decoding'[r])
                 PROVE  decoding'[r][i].part = r /\ decoding'[r][i] \notin Undelayed
        BY DEF PendingFiled
    <2>1. CASE r = p
        <3>1. i + 1 \in 1..Len(decoding[p])
            BY <1>1, <2>1
        <3>. QED
            BY <1>1, <2>1, <3>1 DEF NothingIsLost, PendingFiled
    <2>2. CASE r # p
        BY <1>0, <2>2 DEF NothingIsLost, PendingFiled
    <2>. QED
        BY <2>1, <2>2
<1>5. started
    BY <1>0 DEF NothingIsLost, NothingBeforeStart
<1>6. AwaitsFront' /\ OkIsHandled' /\ NothingBeforeStart'
    BY <1>0, <1>3, <1>5 DEF NothingIsLost, AwaitsFront, OkIsHandled, Accepts,
                            NothingBeforeStart
<1>. QED
    BY <1>3, <1>4, <1>6, IdleInOrder DEF Tidy

\* The front is committed and shifted: what was ahead of the others is handled.
LEMMA SucceedsKeeps ==
    ASSUME TypeOK, TypeOK', NothingIsLost, processQueueSucceeds
    PROVE  InOrder' /\ Tidy'
<1> DEFINE rest == IF queue = << >> THEN << >> ELSE Tail(queue)
<1>1. /\ awaited /\ Accepts /\ element # None
      /\ element \in Elements /\ element.msg \in Messages
      /\ handled' = handled \cup Resolved(element)
      /\ Turn(rest, 0)
      /\ UNCHANGED <<conn, position, started, decoding>>
    <2>1. element # None /\ element \in Elements
        BY DEF processQueueSucceeds, awaited, TypeOK
    <2>2. element.msg \in Messages
        BY <2>1 DEF Elements
    <2>. QED
        BY <2>1, <2>2 DEF processQueueSucceeds
<1>2. /\ queue # << >> /\ queue[1].msg = element.msg
      /\ Serving
    BY <1>1 DEF NothingIsLost, AwaitsFront, Serving
<1>3. /\ rest \in Seq(Elements)
      /\ Len(queue) \in Nat /\ Len(queue) > 0
      /\ Len(rest) = Len(queue) - 1
      /\ \A i \in 1..Len(rest) : rest[i] = queue[i + 1]
    <2>1. rest = Tail(queue) /\ queue \in Seq(Elements)
        BY <1>2 DEF TypeOK
    <2>2. /\ Tail(queue) \in Seq(Elements)
          /\ Len(Tail(queue)) = Len(queue) - 1
          /\ \A i \in 1..Len(Tail(queue)) : Tail(queue)[i] = queue[i + 1]
        BY <1>2, <2>1, HeadTailProperties
    <2>3. Len(queue) \in Nat /\ Len(queue) > 0
        BY <1>2, <2>1, EmptySeq, LenProperties
    <2>. QED
        BY <2>1, <2>2, <2>3
<1>4. PICK m \in Messages : m = element.msg
    BY <1>1
<1>5. Covered(m)' /\ \A x : Covered(x) => Covered(x)'
    <2>1. m \in handled'
        BY <1>1, <1>4 DEF awaited, Resolved, NothingIsLost, OkIsHandled
    <2>. QED
        BY <1>1, <2>1 DEF Covered
<1> HIDE DEF rest
<1>6. /\ queue' \in Seq(Elements)
      /\ Len(queue') = Len(rest)
      /\ \A i \in 1..Len(rest) : queue'[i].msg = rest[i].msg
      /\ \/ rest = << >> /\ element' = None
         \/ rest # << >> /\ element' = rest[1]
    <2>1. 0 \in 0..MaxRetries
        BY ConsumerAssumption
    <2>. QED
        BY <1>1, <1>3, <2>1, TurnFacts
<1>7. /\ Len(queue') = Len(queue) - 1
      /\ \A i \in 1..Len(queue') : i + 1 \in 1..Len(queue)
                                   /\ queue'[i].msg = queue[i + 1].msg
    BY <1>3, <1>6
\* Whatever was among the first n is handled, or among the first n - 1.
<1>8. ASSUME NEW x, NEW n \in 0..Len(queue), Buffered(x, n)
      PROVE  Covered(x)' \/ Buffered(x, n - 1)'
    <2>1. PICK i \in 1..n : queue[i].msg = x
        BY <1>8 DEF Buffered
    <2>2. CASE i = 1
        BY <1>2, <1>4, <1>5, <2>1, <2>2
    <2>3. CASE i # 1
        <3>1. i - 1 \in 1..(n - 1) /\ i - 1 \in 1..Len(queue') /\ (i - 1) + 1 = i
            BY <1>3, <1>7, <1>8, <2>1, <2>3
        <3>2. queue'[i - 1].msg = x
            BY <1>7, <2>1, <3>1
        <3>. QED
            BY <3>1, <3>2 DEF Buffered
    <2>. QED
        BY <2>2, <2>3
<1>9. PICK n0 \in 0..Len(queue) : n0 = Len(queue) /\ n0 - 1 = Len(queue')
    BY <1>3, <1>7
<1>10. \A x, n : Pending(x, n)' <=> Pending(x, n)
    BY <1>1 DEF Pending
<1>11. NoneDropped'
    <2> SUFFICES ASSUME NEW x \in Messages, x.off < position'[x.part]
                 PROVE  \/ Covered(x)'
                        \/ Buffered(x, Len(queue))'
                        \/ Pending(x, Len(decoding[x.part]))'
        BY DEF NoneDropped
    <2>1. Covered(x) \/ Buffered(x, n0) \/ Pending(x, Len(decoding[x.part]))
        BY <1>1, <1>2, <1>9 DEF NothingIsLost, NoneDropped
    <2>2. Buffered(x, n0) => Covered(x)' \/ Buffered(x, n0 - 1)'
        BY <1>8
    <2>. QED
        BY <1>1, <1>5, <1>9, <1>10, <2>1, <2>2
<1>12. BufferInOrder'
    <2> SUFFICES ASSUME NEW i \in 1..Len(queue'), NEW b \in Messages,
                        Before(b, queue'[i].msg)
                 PROVE  Covered(b)' \/ Buffered(b, i - 1)'
        BY DEF BufferInOrder, Before
    <2>1. i + 1 \in 1..Len(queue) /\ Before(b, queue[i + 1].msg)
        BY <1>7
    <2>2. Covered(b) \/ Buffered(b, (i + 1) - 1)
        BY <1>2, <2>1 DEF NothingIsLost, BufferInOrder
    <2>3. (i + 1) - 1 = i /\ i \in 0..Len(queue)
        BY <1>3, <1>7
    <2>4. Buffered(b, i) => Covered(b)' \/ Buffered(b, i - 1)'
        BY <1>8, <2>3
    <2>. QED
        BY <1>5, <2>2, <2>3, <2>4
<1>13. PendingInOrder'
    <2> SUFFICES ASSUME NEW r \in Partitions, NEW i \in 1..Len(decoding[r]),
                        NEW b \in Messages, Before(b, decoding[r][i])
                 PROVE  Covered(b)' \/ Buffered(b, Len(queue))' \/ Pending(b, i - 1)'
        BY <1>1 DEF PendingInOrder, Before
    <2>1. Covered(b) \/ Buffered(b, n0) \/ Pending(b, i - 1)
        BY <1>2, <1>9 DEF NothingIsLost, PendingInOrder
    <2>2. Buffered(b, n0) => Covered(b)' \/ Buffered(b, n0 - 1)'
        BY <1>8
    <2>. QED
        BY <1>5, <1>9, <1>10, <2>1, <2>2
<1>14. AwaitsFront'
    <2>1. CASE element' = None
        BY <2>1 DEF AwaitsFront
    <2>2. CASE rest # << >> /\ element' = rest[1]
        <3>1. 1 \in 1..Len(rest)
            BY <1>3, <2>2, EmptySeq
        <3>2. queue'[1].msg = rest[1].msg /\ queue' # << >>
            BY <1>6, <3>1, EmptySeq
        <3>. QED
            BY <2>2, <3>2 DEF AwaitsFront
    <2>. QED
        BY <1>6, <2>1, <2>2
<1>15. OkIsHandled'
    <2>1. \A i \in 1..Len(rest) : rest[i].promise = "ok" => rest[i].msg \in handled
        <3>1. \A i \in 1..Len(rest) : i + 1 \in 1..Len(queue)
            BY <1>3
        <3>. QED
            BY <1>3, <3>1 DEF NothingIsLost, OkIsHandled
    <2>2. handled \subseteq handled'
        BY <1>1
    <2>. QED
        BY <1>1, <1>3, <2>1, <2>2, TurnKeepsOk
<1>16. PendingFiled' /\ NothingBeforeStart'
    BY <1>1 DEF NothingIsLost, PendingFiled, NothingBeforeStart
<1>. QED
    BY <1>11, <1>12, <1>13, <1>14, <1>15, <1>16 DEF InOrder, Tidy

\* The loop ends because the client does not serve, or serves no longer.
LEMMA LoopEndsKeeps ==
    ASSUME SafeEnvironment, TypeOK, TypeOK', NothingIsLost,
           processQueueCommitFatal \/ processQueueDisconnected
    PROVE  InOrder' /\ Tidy'
<1>1. /\ started /\ queue' = << >> /\ element' = None /\ conn' = Stopped
      /\ UNCHANGED <<started, decoding>>
    BY DEF processQueueCommitFatal, processQueueDisconnected, awaited, Clear,
           NothingIsLost, NothingBeforeStart
<1>2. conn' # "draining" \/ Drains
    BY <1>1 DEF Stopped, NothingIsLost, NothingBeforeStart
<1>3. ~Serving'
    <2>1. CASE processQueueCommitFatal
        <3>1. ~Drains
            BY <2>1, Zenon DEF processQueueCommitFatal, SafeEnvironment, mayFail
        <3>. QED
            BY <1>1, <3>1, StoppedFatally DEF NothingIsLost
    <2>2. CASE processQueueDisconnected
        BY <1>1, <2>2 DEF processQueueDisconnected, Accepts, Stopped, Serving
    <2>. QED
        BY <2>1, <2>2
<1>4. Tidy'
    BY <1>1, <1>2 DEF NothingIsLost, Tidy, PendingFiled, AwaitsFront, OkIsHandled,
                      NothingBeforeStart
<1>. QED
    BY <1>3, <1>4, IdleInOrder

LEMMA GiveUpKeeps ==
    ASSUME TypeOK, TypeOK', NothingIsLost, element # None,
           NEW fatal \in BOOLEAN, GiveUp(fatal),
           UNCHANGED <<handled, started, decoding>>
    PROVE  InOrder' /\ Tidy'
<1>1. element' = None /\ queueIsProcessing' = TRUE /\ (conn' = conn \/ conn' = Stopped)
    BY GiveUpFacts
<1>2. ~Serving'
    BY <1>1 DEF Serving
<1>3. queue' = queue \/ queue' = << >>
    BY DEF GiveUp, Clear
<1>4. started
    BY DEF NothingIsLost, NothingBeforeStart
<1>5. OkIsHandled' /\ AwaitsFront'
    BY <1>1, <1>3 DEF NothingIsLost, OkIsHandled, AwaitsFront
<1>6. NothingBeforeStart' /\ PendingFiled'
    BY <1>1, <1>4 DEF NothingIsLost, NothingBeforeStart, PendingFiled, Stopped
<1>. QED
    BY <1>2, <1>5, <1>6, IdleInOrder DEF Tidy

\* A retry awaits the front of the unchanged buffer.
LEMMA RetryTurnKeeps ==
    ASSUME TypeOK, TypeOK', NothingIsLost, element # None,
           NEW errors \in 0..MaxRetries, Turn(queue, errors),
           UNCHANGED <<handled, started, decoding, position, conn>>
    PROVE  InOrder' /\ Tidy'
<1>1. /\ queue \in Seq(Elements)
      /\ Len(queue') = Len(queue)
      /\ \A i \in 1..Len(queue) : queue'[i].msg = queue[i].msg
      /\ \/ queue = << >> /\ element' = None
         \/ queue # << >> /\ element' = queue[1]
    BY TurnFacts DEF TypeOK
<1>2. InOrder'
    <2>1. CASE Accepts
        <3>1. Serving
            BY <2>1 DEF Serving
        <3>. QED
            BY <1>1, <3>1, FrameInOrder DEF NothingIsLost, InOrder
    <2>2. CASE ~Accepts
        <3>1. ~Serving'
            BY <2>2 DEF Serving, Accepts
        <3>. QED
            BY <3>1, IdleInOrder
    <2>. QED
        BY <2>1, <2>2
<1>3. AwaitsFront'
    <2>1. CASE element' = None
        BY <2>1 DEF AwaitsFront
    <2>2. CASE queue # << >> /\ element' = queue[1]
        <3>1. 1 \in 1..Len(queue)
            BY <1>1, <2>2, EmptySeq, LenProperties
        <3>2. queue' # << >>
            BY <1>1, <3>1, EmptySeq
        <3>. QED
            BY <1>1, <2>2, <3>1, <3>2 DEF AwaitsFront
    <2>. QED
        BY <1>1, <2>1, <2>2
<1>4. OkIsHandled'
    <2>1. \A i \in 1..Len(queue) : queue[i].promise = "ok" => queue[i].msg \in handled
        BY DEF NothingIsLost, OkIsHandled
    <2>. QED
        BY <1>1, <2>1, TurnKeepsOk
<1>5. NothingBeforeStart' /\ PendingFiled'
    BY DEF NothingIsLost, NothingBeforeStart, PendingFiled
<1>. QED
    BY <1>2, <1>3, <1>4, <1>5 DEF Tidy

LEMMA LoopStepKeeps ==
    ASSUME SafeEnvironment, TypeOK, TypeOK', NothingIsLost, LoopStep
    PROVE  InOrder' /\ Tidy'
<1>0. ASSUME errorCount + 1 <= MaxRetries PROVE errorCount + 1 \in 0..MaxRetries
    BY <1>0, ConsumerAssumption DEF TypeOK
<1>1. CASE processQueueSucceeds
    BY <1>1, SucceedsKeeps
<1>2. CASE processQueueCommitFatal \/ processQueueDisconnected
    BY <1>2, LoopEndsKeeps
<1>3. CASE \E kind \in HandlerErrors : processQueueFails(kind)
    <2>1. PICK kind \in HandlerErrors : processQueueFails(kind)
        BY <1>3
    <2>2. /\ element # None /\ (kind # "nonfatal") \in BOOLEAN
          /\ UNCHANGED <<handled, started, decoding, position>>
        BY <2>1 DEF processQueueFails
    <2>3. CASE GiveUp(kind # "nonfatal")
        BY <2>2, <2>3, GiveUpKeeps
    <2>4. CASE /\ errorCount + 1 <= MaxRetries
               /\ Turn(queue, errorCount + 1)
               /\ UNCHANGED <<conn, orphans>>
        BY <1>0, <2>2, <2>4, RetryTurnKeeps
    <2>. QED
        BY <2>1, <2>3, <2>4 DEF processQueueFails
<1>4. CASE processQueueRejected
    <2>1. /\ element # None /\ TRUE \in BOOLEAN /\ FALSE \in BOOLEAN
          /\ UNCHANGED <<handled, started, decoding, position>>
        BY <1>4 DEF processQueueRejected
    <2>2. CASE GiveUp(TRUE)
        BY <2>1, <2>2, GiveUpKeeps
    <2>3. CASE GiveUp(FALSE)
        BY <2>1, <2>3, GiveUpKeeps
    <2>4. CASE /\ errorCount + 1 <= MaxRetries
               /\ Turn(queue, errorCount + 1)
               /\ UNCHANGED <<conn, orphans>>
        BY <1>0, <2>1, <2>4, RetryTurnKeeps
    <2>. QED
        BY <1>4, <2>2, <2>3, <2>4 DEF processQueueRejected
<1>. QED
    BY <1>1, <1>2, <1>3, <1>4 DEF LoopStep

\* Promises settle: messages get handled, nothing else moves.
LEMMA PromiseStepKeeps ==
    ASSUME TypeOK, TypeOK', NothingIsLost, PromiseStep
    PROVE  InOrder' /\ Tidy'
<1>1. ASSUME NEW e \in Elements, NEW f \in Outcomes(e), retryPromise(e, f)
      PROVE  /\ handled \subseteq handled'
             /\ f.msg = e.msg /\ f \in Elements
             /\ f.promise = "ok" => e.msg \in handled'
    <2>1. f.msg = e.msg /\ f \in Elements
        BY OutcomeFacts
    <2>2. CASE f = [e EXCEPT !.promise = "ok"] /\ handled' = handled \cup {e.msg}
        BY <2>1, <2>2
    <2>3. CASE /\ UNCHANGED handled
               /\ \E kind \in HandlerErrors :
                    IF e.tries >= MaxRetries \/ kind = "fatal"
                    THEN f = [e EXCEPT !.promise =
                                  IF kind = "nonfatal" THEN "nonfatal" ELSE "fatal"]
                    ELSE f = [e EXCEPT !.tries = @ + 1]
        <3>1. f.promise \in {"nonfatal", "fatal", "running"}
            BY <1>1, <2>3 DEF retryPromise, Elements
        <3>. QED
            BY <2>1, <2>3, <3>1
    <2>. QED
        BY <1>1, <2>2, <2>3 DEF retryPromise
\* All three kinds of steps leave the rest alone.
<1>2. ASSUME handled \subseteq handled',
             UNCHANGED <<conn, position, started, decoding, queueIsProcessing>>,
             Len(queue') = Len(queue),
             \A i \in 1..Len(queue) : queue'[i].msg = queue[i].msg,
             element' = None <=> element = None,
             element # None => element'.msg = element.msg
      PROVE  InOrder' /\ AwaitsFront' /\ PendingFiled'
    <2>1. Serving' <=> Serving
        BY <1>2 DEF Serving, Accepts
    <2>2. InOrder'
        <3>1. CASE Serving
            BY <1>2, <3>1, FrameInOrder DEF NothingIsLost, InOrder
        <3>2. CASE ~Serving
            BY <2>1, <3>2, IdleInOrder
        <3>. QED
            BY <3>1, <3>2
    <2>3. AwaitsFront'
        <3> SUFFICES ASSUME Accepts, element # None
                     PROVE  queue' # << >> /\ queue'[1].msg = element'.msg
            BY <1>2 DEF AwaitsFront, Accepts
        <3>1. queue # << >> /\ queue[1].msg = element.msg
            BY DEF NothingIsLost, AwaitsFront
        <3>2. 1 \in 1..Len(queue)
            BY <3>1, EmptySeq, LenProperties DEF TypeOK
        <3>3. queue' # << >>
            BY <1>2, <3>2, EmptySeq DEF TypeOK
        <3>. QED
            BY <1>2, <3>1, <3>2, <3>3
    <2>4. PendingFiled'
        BY <1>2 DEF NothingIsLost, PendingFiled
    <2>. QED
        BY <2>2, <2>3, <2>4
<1>3. CASE retryAwaited
    <2>1. PICK f \in Outcomes(element) : retryPromise(element, f) /\ element' = f
        BY <1>3 DEF retryAwaited
    <2>2. element # None /\ element \in Elements
        BY <1>3 DEF retryAwaited, TypeOK
    <2>3. /\ handled \subseteq handled'
          /\ f.msg = element.msg /\ f \in Elements
          /\ f.promise = "ok" => element.msg \in handled'
        BY <1>1, <2>1, <2>2
    <2>4. UNCHANGED <<conn, position, started, decoding, queueIsProcessing, queue>>
        BY <1>3 DEF retryAwaited, clientVars
    <2>5. InOrder' /\ AwaitsFront' /\ PendingFiled'
        BY <1>2, <2>1, <2>2, <2>3, <2>4, NoneAssumption
    <2>6. OkIsHandled'
        BY <2>1, <2>3, <2>4 DEF NothingIsLost, OkIsHandled
    <2>7. NothingBeforeStart'
        BY <2>2, <2>4 DEF NothingIsLost, NothingBeforeStart
    <2>. QED
        BY <2>5, <2>6, <2>7 DEF Tidy
<1>4. CASE \E i \in DOMAIN queue : retryQueued(i)
    <2>1. PICK i \in DOMAIN queue : retryQueued(i)
        BY <1>4
    <2>2. PICK f \in Outcomes(queue[i]) :
              retryPromise(queue[i], f) /\ queue' = [queue EXCEPT ![i] = f]
        BY <2>1 DEF retryQueued
    <2>3. i \in 1..Len(queue) /\ queue[i] \in Elements
        BY <2>1, LenProperties DEF TypeOK
    <2>4. /\ handled \subseteq handled'
          /\ f.msg = queue[i].msg /\ f \in Elements
          /\ f.promise = "ok" => queue[i].msg \in handled'
        BY <1>1, <2>2, <2>3
    <2>5. /\ Len(queue') = Len(queue)
          /\ \A j \in 1..Len(queue) : queue'[j] = IF j = i THEN f ELSE queue[j]
        BY <2>2, <2>3, <2>4, ExceptSeq DEF TypeOK
    <2>6. UNCHANGED <<conn, position, started, decoding, queueIsProcessing, element>>
        BY <2>1 DEF retryQueued, clientVars, loopVars
    <2>7. InOrder' /\ AwaitsFront' /\ PendingFiled'
        BY <1>2, <2>4, <2>5, <2>6
    <2>8. OkIsHandled'
        BY <2>4, <2>5, <2>6 DEF NothingIsLost, OkIsHandled
    <2>9. queue # << >>
        BY <2>3, EmptySeq
    <2>10. NothingBeforeStart'
        BY <2>6, <2>9 DEF NothingIsLost, NothingBeforeStart
    <2>. QED
        BY <2>7, <2>8, <2>10 DEF Tidy
<1>5. CASE \E m \in orphans : retryOrphan(m)
    <2>1. /\ handled \subseteq handled'
          /\ UNCHANGED <<conn, position, started, decoding, queueIsProcessing,
                         queue, element>>
        BY <1>5 DEF retryOrphan, clientVars, loopVars
    <2>2. InOrder' /\ AwaitsFront' /\ PendingFiled'
        BY <1>2, <2>1
    <2>3. OkIsHandled' /\ NothingBeforeStart'
        BY <2>1 DEF NothingIsLost, OkIsHandled, NothingBeforeStart
    <2>. QED
        BY <2>2, <2>3 DEF Tidy
<1>. QED
    BY <1>3, <1>4, <1>5 DEF PromiseStep

LEMMA ClientStepKeeps ==
    ASSUME SafeEnvironment, TypeOK, TypeOK', NothingIsLost, ClientStep
    PROVE  InOrder' /\ Tidy'
<1>0. /\ started /\ UNCHANGED <<handled, position, started, decoding, element,
                                queueIsProcessing>>
    BY DEF ClientStep, onError, stop, disconnecting, onDisconnect, loopVars,
           NothingIsLost, NothingBeforeStart
<1>1. CASE onError
    <2>1. ~Drains
        BY <1>1, Zenon DEF onError, SafeEnvironment, mayFail
    <2>2. conn' \in {"down", "closing"} /\ ~Serving' /\ queue' = << >>
        BY <1>1, <2>1, StoppedFatally DEF onError, Clear, NothingIsLost
    <2>3. Tidy'
        BY <1>0, <2>2 DEF NothingIsLost, Tidy, PendingFiled, AwaitsFront,
                          Accepts, OkIsHandled, NothingBeforeStart
    <2>. QED
        BY <2>2, <2>3, IdleInOrder
<1>2. CASE stop
    <2>1. Accepts /\ conn' = Stopped /\ queue' = queue
        BY <1>2 DEF stop, Accepts
    <2>2. conn' \in {"draining", "closing"} /\ (conn' = "draining" => Drains)
        BY <1>2 DEF stop, Stopped
    <2>3. InOrder'
        <3>1. CASE Serving
            BY <1>0, <2>1, <3>1, FrameInOrder DEF NothingIsLost, InOrder
        <3>2. CASE ~Serving
            <4>1. ~Serving'
                BY <1>0, <2>1, <3>2 DEF Serving
            <4>. QED
                BY <4>1, IdleInOrder
        <3>. QED
            BY <3>1, <3>2
    <2>4. Tidy'
        BY <1>0, <2>1, <2>2 DEF NothingIsLost, Tidy, PendingFiled, AwaitsFront,
                          OkIsHandled, NothingBeforeStart
    <2>. QED
        BY <2>3, <2>4
<1>3. CASE disconnecting \/ onDisconnect
    <2>1. /\ conn' \in {"down", "closing"}
          /\ queue' = queue \/ queue' = << >>
        BY <1>3 DEF disconnecting, onDisconnect, Clear
    <2>2. ~Serving'
        BY <2>1 DEF Serving, Accepts
    <2>3. Tidy'
        BY <1>0, <2>1 DEF NothingIsLost, Tidy, PendingFiled, AwaitsFront,
                          Accepts, OkIsHandled, NothingBeforeStart
    <2>. QED
        BY <2>2, <2>3, IdleInOrder
<1>. QED
    BY <1>1, <1>2, <1>3 DEF ClientStep

LEMMA ProcessEndsKeeps ==
    ASSUME ProcessEnds
    PROVE  InOrder' /\ Tidy'
<1>1. ~Serving'
    BY DEF ProcessEnds, Serving, Accepts
<1>2. Len(<< >>) = 0
    BY EmptySeq
<1>3. Tidy'
    BY <1>2 DEF ProcessEnds, Tidy, PendingFiled, AwaitsFront, Accepts, OkIsHandled,
                NothingBeforeStart
<1>. QED
    BY <1>1, <1>3, IdleInOrder

\* A process starts with nothing in its hands, behind the committed offsets.
LEMMA StartKeeps ==
    ASSUME SafeEnvironment, TypeOK, NothingIsLost, start
    PROVE  InOrder' /\ Tidy'
<1>1. /\ queue' = << >> /\ element' = None
      /\ decoding' = [p \in Partitions |-> << >>]
      /\ position' = committed /\ handled' = handled
      /\ conn' = "up" /\ started' = TRUE
    BY DEF start, SafeEnvironment, NothingIsLost, NothingBeforeStart, loopVars
<1>2. Len(<< >>) = 0
    BY EmptySeq
<1>3. NoneDropped'
    BY <1>1 DEF NoneDropped, NothingIsLost, AtLeastOnce, Covered
<1>4. BufferInOrder' /\ PendingInOrder'
    BY <1>1, <1>2 DEF BufferInOrder, PendingInOrder
<1>5. Tidy'
    BY <1>1, <1>2 DEF Tidy, PendingFiled, AwaitsFront, OkIsHandled, NothingBeforeStart
<1>. QED
    BY <1>3, <1>4, <1>5 DEF InOrder

-----------------------------------------------------------------------------
\* No other step than a successful turn of the loop moves a committed offset.
LEMMA SucceedsDelivers ==
    ASSUME TypeOK, NothingIsLost, processQueueSucceeds
    PROVE  D!Next
<1>1. /\ element # None /\ element \in Elements /\ Accepts /\ awaited
      /\ handled' = handled \cup Resolved(element)
      /\ safeCommitMessage(element.msg)
    BY DEF processQueueSucceeds, awaited, TypeOK
<1>2. PICK m \in Messages : m = element.msg
    BY <1>1 DEF Elements
<1>3. handled' = handled \cup {m} /\ m \in handled'
    BY <1>1, <1>2 DEF awaited, Resolved, NothingIsLost, OkIsHandled
<1>4. m \in D!Messages /\ D!Handle(m)
    BY <1>3 DEF D!Messages, Messages, D!Handle
<1>5. CASE committed' = committed
    BY <1>4, <1>5 DEF D!Next
<1>6. CASE committed' = [committed EXCEPT ![m.part] = m.off + 1]
    <2>1. ASSUME NEW b \in Messages, b.part = m.part, b.off <= m.off
          PROVE  D!Settled(b, handled')
        <3>0. b.off \in Nat /\ m.off \in Nat
            BY LengthFacts
        <3>1. CASE b.off = m.off
            <4>1. b = m
                BY <2>1, <3>1 DEF Messages
            <4>. QED
                BY <1>3, <4>1 DEF D!Settled
        <3>2. CASE b.off < m.off
            <4>1. queue # << >> /\ queue[1].msg = m /\ Serving
                BY <1>1, <1>2 DEF NothingIsLost, AwaitsFront, Serving
            <4>2. 1 \in 1..Len(queue)
                BY <4>1, EmptySeq, LenProperties DEF TypeOK
            <4>3. Covered(b) \/ Buffered(b, 1 - 1)
                BY <2>1, <3>2, <4>1, <4>2 DEF NothingIsLost, BufferInOrder, Before
            <4>4. ~Buffered(b, 1 - 1)
                BY DEF Buffered
            <4>. QED
                BY <1>3, <4>3, <4>4 DEF Covered, D!Settled
        <3>. QED
            BY <2>1, <3>0, <3>1, <3>2
    <2>2. D!HandleAndCommit(m)
        BY <1>4, <1>6, <2>1 DEF D!HandleAndCommit, D!Messages, Messages
    <2>. QED
        BY <1>4, <2>2 DEF D!Next
<1>. QED
    BY <1>1, <1>2, <1>5, <1>6 DEF safeCommitMessage

\* Every step of the consumer is a step of the abstract delivery, or none.
LEMMA StepDelivers ==
    ASSUME TypeOK, NothingIsLost, [Next]_vars
    PROVE  [D!Next]_D!deliveryVars
<1>1. ASSUME committed' = committed,
             handled' = handled \/ \E m \in Messages : handled' = handled \cup {m}
      PROVE  [D!Next]_D!deliveryVars
    BY <1>1 DEF D!Next, D!Handle, D!Messages, Messages, D!deliveryVars
<1>0. \A e \in Elements : e.msg \in Messages
    BY DEF Elements
<1>2. CASE start \/ ClientStep \/ crash \/ processRestarts \/ UNCHANGED vars
    BY <1>1, <1>2 DEF start, ClientStep, onError, stop, disconnecting, onDisconnect,
                      crash, processRestarts, ProcessEnds, vars
<1>3. CASE \E p \in Partitions : PartitionStep(p)
    BY <1>1, <1>3 DEF PartitionStep, onData, seekDone, seekFails, deserialize,
                      deserializeFails
<1>4. CASE processQueueSucceeds
    BY <1>4, SucceedsDelivers
<1>5. CASE \/ processQueueCommitFatal \/ processQueueDisconnected
           \/ (\E kind \in HandlerErrors : processQueueFails(kind))
           \/ processQueueRejected
    <2>1. committed' = committed
        BY <1>5 DEF processQueueCommitFatal, processQueueDisconnected,
                    processQueueFails, processQueueRejected
    <2>2. CASE processQueueCommitFatal \/ processQueueDisconnected
        <3>1. handled' = handled \cup Resolved(element) /\ element \in Elements
            BY <2>2 DEF processQueueCommitFatal, processQueueDisconnected, awaited,
                        TypeOK
        <3>2. Resolved(element) = {} \/ Resolved(element) = {element.msg}
            BY DEF Resolved
        <3>. QED
            BY <1>0, <1>1, <2>1, <3>1, <3>2
    <2>3. CASE (\E kind \in HandlerErrors : processQueueFails(kind))
               \/ processQueueRejected
        <3>1. handled' = handled
            BY <2>3 DEF processQueueFails, processQueueRejected
        <3>. QED
            BY <1>1, <2>1, <3>1
    <2>. QED
        BY <1>5, <2>2, <2>3
<1>6. CASE PromiseStep
    <2>1. ASSUME NEW e \in Elements, NEW f, retryPromise(e, f)
          PROVE  handled' = handled \/ handled' = handled \cup {e.msg}
        BY <2>1 DEF retryPromise
    <2>2. CASE retryAwaited
        <3>1. committed' = committed /\ element \in Elements
            BY <2>2 DEF retryAwaited, TypeOK
        <3>2. handled' = handled \/ handled' = handled \cup {element.msg}
            BY <2>1, <2>2, <3>1 DEF retryAwaited
        <3>. QED
            BY <1>0, <1>1, <3>1, <3>2
    <2>3. CASE \E i \in DOMAIN queue : retryQueued(i)
        <3>1. PICK i \in DOMAIN queue : retryQueued(i)
            BY <2>3
        <3>2. committed' = committed /\ queue[i] \in Elements
            BY <3>1, LenProperties DEF retryQueued, TypeOK
        <3>3. handled' = handled \/ handled' = handled \cup {queue[i].msg}
            BY <2>1, <3>1, <3>2 DEF retryQueued
        <3>. QED
            BY <1>0, <1>1, <3>2, <3>3
    <2>4. CASE \E m \in orphans : retryOrphan(m)
        <3>1. PICK m \in orphans : retryOrphan(m)
            BY <2>4
        <3>2. m \in Messages /\ committed' = committed
            BY <3>1 DEF retryOrphan, TypeOK
        <3>3. handled' = handled \/ handled' = handled \cup {m}
            BY <3>1 DEF retryOrphan
        <3>. QED
            BY <1>1, <3>2, <3>3
    <2>. QED
        BY <1>6, <2>2, <2>3, <2>4 DEF PromiseStep
<1>. QED
    BY <1>2, <1>3, <1>4, <1>5, <1>6 DEF Next, LoopStep

\* A step of the abstract delivery commits nothing that is not settled.
LEMMA DeliveryCommitsSettled ==
    ASSUME TypeOK, AtLeastOnce, [D!Next]_D!deliveryVars
    PROVE  AtLeastOnce'
<1>1. ASSUME NEW x, handled \subseteq handled' PROVE Covered(x) => Covered(x)'
    BY <1>1 DEF Covered
<1>2. CASE UNCHANGED D!deliveryVars
    BY <1>2 DEF D!deliveryVars, AtLeastOnce, Covered
<1>3. CASE \E m \in D!Messages : D!Handle(m) /\ UNCHANGED committed
    BY <1>1, <1>3 DEF D!Handle, AtLeastOnce
<1>4. CASE \E m \in D!Messages : D!HandleAndCommit(m)
    <2>1. PICK m \in Messages : D!HandleAndCommit(m)
        BY <1>4 DEF D!Messages, Messages
    <2>2. /\ handled \subseteq handled'
          /\ committed' = [committed EXCEPT ![m.part] = m.off + 1]
          /\ \A b \in Messages :
                b.part = m.part /\ b.off <= m.off => D!Settled(b, handled')
        BY <2>1 DEF D!HandleAndCommit, D!Handle, D!Messages, Messages
    <2> SUFFICES ASSUME NEW x \in Messages, x.off < committed'[x.part]
                 PROVE  Covered(x)'
        BY DEF AtLeastOnce
    <2>3. CASE x.part = m.part
        <3>1. x.off <= m.off
            BY <2>2, <2>3, LengthFacts DEF TypeOK
        <3>. QED
            BY <2>2, <2>3, <3>1 DEF D!Settled, Covered
    <2>4. CASE x.part # m.part
        <3>1. committed'[x.part] = committed[x.part]
            BY <2>2, <2>4, LengthFacts DEF TypeOK
        <3>. QED
            BY <1>1, <2>2, <3>1 DEF AtLeastOnce
    <2>. QED
        BY <2>3, <2>4
<1>. QED
    BY <1>2, <1>3, <1>4 DEF D!Next

-----------------------------------------------------------------------------
LEMMA InitNothingIsLost == Init => NothingIsLost
<1> SUFFICES ASSUME Init PROVE NothingIsLost
    OBVIOUS
<1>1. /\ committed = [p \in Partitions |-> 0] /\ conn = "down"
      /\ queue = << >> /\ decoding = [p \in Partitions |-> << >>]
      /\ element = None /\ ~queueIsProcessing
    BY DEF Init
<1>2. Len(<< >>) = 0
    BY EmptySeq
<1>3. AtLeastOnce
    BY <1>1, ConsumerAssumption DEF AtLeastOnce, Messages
<1>4. NoneDropped /\ BufferInOrder /\ PendingInOrder
    BY <1>1 DEF NoneDropped, BufferInOrder, PendingInOrder, Serving, Accepts
<1>5. PendingFiled /\ AwaitsFront /\ OkIsHandled /\ NothingBeforeStart
    BY <1>1, <1>2 DEF PendingFiled, AwaitsFront, OkIsHandled, NothingBeforeStart
<1>. QED
    BY <1>3, <1>4, <1>5 DEF NothingIsLost

LEMMA NextNothingIsLost ==
    ASSUME SafeEnvironment, TypeOK, NothingIsLost, [Next]_vars
    PROVE  NothingIsLost'
<1>1. TypeOK'
    BY NextTypeOK
<1>2. AtLeastOnce'
    BY StepDelivers, DeliveryCommitsSettled DEF NothingIsLost
<1>3. InOrder' /\ Tidy'
    <2>1. CASE start
        BY <2>1, StartKeeps
    <2>2. CASE \E p \in Partitions : PartitionStep(p)
        BY <1>1, <2>2, OnDataKeeps, SeekKeeps, DeserializeKeeps, DeserializeFailsKeeps
           DEF PartitionStep
    <2>3. CASE LoopStep
        BY <1>1, <2>3, LoopStepKeeps
    <2>4. CASE PromiseStep
        BY <1>1, <2>4, PromiseStepKeeps
    <2>5. CASE ClientStep
        BY <1>1, <2>5, ClientStepKeeps
    <2>6. CASE crash \/ processRestarts
        BY <2>6, ProcessEndsKeeps DEF crash, processRestarts
    <2>7. CASE UNCHANGED vars
        BY <2>7 DEF vars, NothingIsLost, InOrder, Tidy, NoneDropped, BufferInOrder,
                    PendingInOrder, PendingFiled, AwaitsFront, OkIsHandled,
                    NothingBeforeStart, Serving, Accepts, Covered, Buffered, Pending
    <2>. QED
        BY <2>1, <2>2, <2>3, <2>4, <2>5, <2>6, <2>7 DEF Next
<1>. QED
    BY <1>2, <1>3 DEF NothingIsLost, InOrder, Tidy

(***************************************************************************)
(* In a safe environment everything the client has delivered to onData is  *)
(* handled, or is on its way through deserialize and the buffer in the     *)
(* order of its offsets, for as long as the consumer may still commit.     *)
(***************************************************************************)
THEOREM ConsumerLosesNothing ==
    SafeEnvironment => (Spec => [](TypeOK /\ NothingIsLost))
<1> SUFFICES ASSUME SafeEnvironment PROVE Spec => [](TypeOK /\ NothingIsLost)
    OBVIOUS
<1>1. Init => TypeOK /\ NothingIsLost
    BY InitTypeOK, InitNothingIsLost
<1>2. TypeOK /\ NothingIsLost /\ [Next]_vars => (TypeOK /\ NothingIsLost)'
    BY NextTypeOK, NextNothingIsLost
<1>. QED
    BY <1>1, <1>2, PTL DEF Spec

(***************************************************************************)
(* In a safe environment safeCommitMessage never moves a committed offset  *)
(* past a message that nobody has handled: whoever resumes from it misses  *)
(* no message.                                                             *)
(***************************************************************************)
THEOREM ConsumerAtLeastOnce == SafeEnvironment => (Spec => []AtLeastOnce)
<1>1. NothingIsLost => AtLeastOnce
    BY DEF NothingIsLost
<1>. QED
    BY <1>1, ConsumerLosesNothing, PTL

(***************************************************************************)
(* In a safe environment the consumer implements the abstract delivery:    *)
(* each of its steps handles at most one message, and commits only behind  *)
(* a message that was handled together with all those before it.           *)
(***************************************************************************)
THEOREM ConsumerDelivers == SafeEnvironment => (Spec => DeliversAtLeastOnce)
<1> SUFFICES ASSUME SafeEnvironment PROVE Spec => DeliversAtLeastOnce
    OBVIOUS
<1>1. Init => D!Init
    BY DEF Init, D!Init
<1>2. TypeOK /\ NothingIsLost /\ [Next]_vars => [D!Next]_D!deliveryVars
    BY StepDelivers
<1>3. Spec => [](TypeOK /\ NothingIsLost)
    BY ConsumerLosesNothing
<1>. QED
    BY <1>1, <1>2, <1>3, PTL DEF Spec, DeliversAtLeastOnce, D!Spec

-----------------------------------------------------------------------------
(***************************************************************************)
(* The environments of a synchronous consumer in which its messages are    *)
(* proved to be handled in order: safe ones, in which nothing but an error *)
(* of the handler closes the client.                                       *)
(***************************************************************************)
OrderedEnvironment ==
    /\ SafeEnvironment
    /\ ~Asynchronous
    /\ Hazards \cap {"clientFatal", "coder", "commitFatal", "stop"} = {}

\* No promises, and once the client closes nothing is awaited any more.
Quiet ==
    /\ conn # "up" => element = None /\ (queueIsProcessing \/ ~started)
    /\ element # None => element.promise = "none"
    /\ \A i \in 1..Len(queue) : queue[i].promise = "none"
    /\ orphans = {}

LEMMA NeverFails ==
    ASSUME OrderedEnvironment, NEW h \in {"clientFatal", "coder", "commitFatal", "stop"}
    PROVE  ~mayFail(h)
BY DEF OrderedEnvironment, mayFail

LEMMA QuietClear ==
    ASSUME TypeOK, Quiet, Clear(queue)
    PROVE  queue' = << >> /\ orphans' = {}
<1>1. \A i \in DOMAIN queue : queue[i].promise = "none"
    BY LenProperties DEF TypeOK, Quiet
<1>2. Running(queue) = {}
    BY <1>1 DEF Running
<1>. QED
    BY <1>2 DEF Clear, Quiet

LEMMA QuietTurn ==
    ASSUME NEW q \in Seq(Elements), \A i \in 1..Len(q) : q[i].promise = "none",
           NEW errors, Turn(q, errors)
    PROVE  /\ queue' = q
           /\ element' # None => element'.promise = "none"
<1>1. CASE q = << >>
    BY <1>1 DEF Turn
<1>2. CASE q # << >>
    <2>1. q[1].promise = "none" /\ 1 \in 1..Len(q)
        BY <1>2, EmptySeq, LenProperties
    <2>2. queue' = [q EXCEPT ![1] = Await(q[1])] /\ element' = q[1]
        BY <1>2 DEF Turn
    <2>3. Await(q[1]) = q[1]
        BY <2>1 DEF Await
    <2>4. [q EXCEPT ![1] = q[1]] = q
        BY <2>1, LenProperties
    <2>. QED
        BY <2>1, <2>2, <2>3, <2>4
<1>. QED
    BY <1>1, <1>2

LEMMA QuietArrive ==
    ASSUME OrderedEnvironment, TypeOK, Quiet, started, NEW m \in Messages, Arrive(m),
           UNCHANGED started
    PROVE  Quiet'
<1> DEFINE q == Append(queue, Enqueued(m))
<1>1. Enqueued(m).promise = "none"
    BY DEF Enqueued, OrderedEnvironment
<1>2. /\ q \in Seq(Elements) /\ Len(q) = Len(queue) + 1 /\ Len(queue) \in Nat
      /\ \A i \in 1..Len(queue) : q[i] = queue[i]
      /\ q[Len(queue) + 1] = Enqueued(m)
    BY EnqueuedFacts, AppendProperties, LenProperties DEF TypeOK
<1>3. \A i \in 1..Len(q) : q[i].promise = "none"
    BY <1>1, <1>2 DEF Quiet
<1>4. conn' = conn
    BY ArriveFacts
<1>5. CASE /\ queueIsProcessing /\ queue' = q
           /\ UNCHANGED loopVars /\ UNCHANGED orphans
    BY <1>3, <1>4, <1>5 DEF Quiet, loopVars
<1>6. CASE ~queueIsProcessing /\ Turn(q, 0) /\ UNCHANGED orphans
    <2>1. conn = "up"
        BY <1>6 DEF Quiet
    <2> HIDE DEF q
    <2>2. queue' = q /\ (element' # None => element'.promise = "none")
        BY <1>2, <1>3, <1>6, QuietTurn
    <2>. QED
        BY <1>3, <1>4, <1>6, <2>1, <2>2 DEF Quiet
<1>7. CASE Clear(q) /\ UNCHANGED loopVars
    <2>1. \A i \in DOMAIN q : q[i].promise = "none"
        BY <1>2, <1>3, LenProperties
    <2> HIDE DEF q
    <2>2. queue' = << >> /\ orphans' = {}
        BY <1>7, <2>1 DEF Clear, Running, Quiet
    <2>. QED
        BY <1>4, <1>7, <2>2 DEF Quiet, loopVars
<1>. QED
    BY <1>5, <1>6, <1>7 DEF Arrive

LEMMA QuietGiveUp ==
    ASSUME TypeOK, Quiet, element # None, NEW fatal, GiveUp(fatal)
    PROVE  Quiet'
<1>1. element' = None /\ queueIsProcessing' = TRUE
    BY DEF GiveUp, TypeOK
<1>2. CASE Clear(queue)
    BY <1>1, <1>2, QuietClear DEF Quiet
<1>3. CASE UNCHANGED <<queue, orphans, conn>>
    BY <1>1, <1>3 DEF Quiet
<1>. QED
    BY <1>2, <1>3 DEF GiveUp

LEMMA QuietPartitionStep ==
    ASSUME OrderedEnvironment, TypeOK, NothingBeforeStart, Quiet,
           NEW p \in Partitions, PartitionStep(p)
    PROVE  Quiet'
<1>1. ASSUME UNCHANGED <<conn, queue, element, queueIsProcessing, started, orphans>>
      PROVE  Quiet'
    BY <1>1 DEF Quiet
<1>2. CASE onData(p)
    <2> DEFINE m == [part |-> p, off |-> position[p]]
    <2>1. started /\ UNCHANGED started
        BY <1>2 DEF onData, Accepts, NothingBeforeStart
    <2>2. m \in Messages
        BY <1>2, ConsumerAssumption DEF onData, Messages, TypeOK, Counter
    <2>3. CASE Arrive(m)
        BY <2>1, <2>2, <2>3, QuietArrive
    <2>4. CASE UNCHANGED <<conn, queue, loopVars, orphans>>
        BY <1>1, <2>1, <2>4 DEF loopVars
    <2>. QED
        BY <1>2, <2>3, <2>4 DEF onData
<1>3. CASE seekDone(p)
    BY <1>1, <1>3 DEF seekDone, loopVars
<1>4. CASE seekFails(p)
    <2>1. ~mayFail("clientFatal")
        BY NeverFails
    <2>. QED
        BY <1>1, <1>4, <2>1 DEF seekFails, loopVars
<1>5. CASE deserialize(p)
    <2>1. decoding[p] # << >> /\ decoding[p] \in Seq(Messages)
        BY <1>5 DEF deserialize, TypeOK
    <2>2. Head(decoding[p]) \in Messages
        BY <2>1
    <2>3. started /\ UNCHANGED started
        BY <1>5, <2>1 DEF NothingBeforeStart, deserialize
    <2>4. Arrive(Head(decoding[p]))
        BY <1>5 DEF deserialize
    <2>. QED
        BY <2>2, <2>3, <2>4, QuietArrive
<1>6. CASE deserializeFails(p)
    BY <1>6, NeverFails DEF deserializeFails
<1>. QED
    BY <1>2, <1>3, <1>4, <1>5, <1>6 DEF PartitionStep

LEMMA QuietSucceeds ==
    ASSUME TypeOK, Quiet, processQueueSucceeds
    PROVE  Quiet'
<1> DEFINE rest == IF queue = << >> THEN << >> ELSE Tail(queue)
           left == IF queue = << >> THEN << >> ELSE << queue[1] >>
<1>1. queue \in Seq(Elements) /\ \A i \in 1..Len(queue) : queue[i].promise = "none"
    BY DEF TypeOK, Quiet
<1>2. rest \in Seq(Elements) /\ \A i \in 1..Len(rest) : rest[i].promise = "none"
    <2>1. CASE queue = << >>
        BY <2>1
    <2>2. CASE queue # << >>
        BY <1>1, <2>2, HeadTailProperties
    <2>. QED
        BY <2>1, <2>2
<1>3. \A i \in DOMAIN left : left[i].promise = "none"
    <2>1. CASE queue = << >>
        BY <2>1
    <2>2. CASE queue # << >>
        <3>1. queue[1].promise = "none"
            BY <1>1, <2>2, EmptySeq, LenProperties
        <3>. QED
            BY <2>2, <3>1
    <2>. QED
        BY <2>1, <2>2
<1>4. conn = "up" /\ conn' = conn
    BY DEF processQueueSucceeds, awaited, Quiet
<1>5. Turn(rest, 0) /\ orphans' = orphans \cup Running(left)
    BY DEF processQueueSucceeds
<1> HIDE DEF rest, left
<1>6. Running(left) = {}
    BY <1>3 DEF Running
<1>7. queue' = rest /\ (element' # None => element'.promise = "none")
    BY <1>2, <1>5, QuietTurn
<1>. QED
    BY <1>2, <1>4, <1>5, <1>6, <1>7 DEF Quiet

LEMMA QuietFails ==
    ASSUME TypeOK, Quiet, NEW kind, processQueueFails(kind)
    PROVE  Quiet'
<1>1. element # None /\ conn = "up"
    BY DEF processQueueFails, Quiet
<1>2. CASE GiveUp(kind # "nonfatal")
    BY <1>1, <1>2, QuietGiveUp
<1>3. CASE Turn(queue, errorCount + 1) /\ UNCHANGED <<conn, orphans>>
    <2>1. queue' = queue /\ (element' # None => element'.promise = "none")
        BY <1>3, QuietTurn DEF TypeOK, Quiet
    <2>. QED
        BY <1>1, <1>3, <2>1 DEF Quiet
<1>. QED
    BY <1>2, <1>3 DEF processQueueFails

\* A synchronous consumer has no promise that could settle.
LEMMA NoPromiseStep ==
    ASSUME TypeOK, Quiet
    PROVE  ~PromiseStep /\ ~processQueueRejected
<1>1. ~processQueueRejected /\ ~retryAwaited
    BY DEF Quiet, processQueueRejected, retryAwaited, retryPromise
<1>2. \A i \in DOMAIN queue : ~retryQueued(i)
    <2>1. \A i \in DOMAIN queue : queue[i].promise = "none"
        BY LenProperties DEF TypeOK, Quiet
    <2>. QED
        BY <2>1 DEF retryQueued, retryPromise
<1>3. ~ \E m \in orphans : retryOrphan(m)
    BY DEF Quiet
<1>. QED
    BY <1>1, <1>2, <1>3 DEF PromiseStep

LEMMA NextQuiet ==
    ASSUME OrderedEnvironment, TypeOK, NothingBeforeStart, Quiet, [Next]_vars
    PROVE  Quiet'
<1>1. CASE start
    BY <1>1 DEF start, Quiet, loopVars
<1>2. CASE \E p \in Partitions : PartitionStep(p)
    BY <1>2, QuietPartitionStep
<1>3. CASE LoopStep
    <2>1. ~processQueueCommitFatal
        BY NeverFails DEF processQueueCommitFatal
    <2>2. ~processQueueDisconnected
        BY DEF processQueueDisconnected, awaited, Quiet, Accepts
    <2>. QED
        BY <1>3, <2>1, <2>2, QuietSucceeds, QuietFails, NoPromiseStep DEF LoopStep
<1>4. CASE PromiseStep
    BY <1>4, NoPromiseStep
<1>5. CASE ClientStep
    <2>1. ~onError /\ ~stop
        BY NeverFails DEF onError, stop
    <2>2. CASE disconnecting
        BY <2>2 DEF disconnecting, Quiet, loopVars
    <2>3. CASE onDisconnect
        <3>1. queue' = << >> /\ orphans' = {}
            BY <2>3, QuietClear DEF onDisconnect
        <3>. QED
            BY <2>3, <3>1 DEF onDisconnect, Quiet, loopVars
    <2>. QED
        BY <1>5, <2>1, <2>2, <2>3 DEF ClientStep
<1>6. CASE crash \/ processRestarts
    BY <1>6 DEF crash, processRestarts, ProcessEnds, Quiet
<1>7. CASE UNCHANGED vars
    BY <1>7 DEF vars, Quiet
<1>. QED
    BY <1>1, <1>2, <1>3, <1>4, <1>5, <1>6, <1>7 DEF Next

\* Only what processQueue awaits is handled: the front of the buffer, whose
\* predecessors were handled.
LEMMA NextHandledInOrder ==
    ASSUME OrderedEnvironment, TypeOK, NothingIsLost, Quiet, HandledInOrder, [Next]_vars
    PROVE  HandledInOrder'
<1>1. CASE handled' = handled
    BY <1>1 DEF HandledInOrder, Covered
<1>2. CASE handled' # handled
    <2>1. processQueueSucceeds
        <3>1. ~start /\ ~ClientStep /\ ~crash /\ ~processRestarts /\ ~UNCHANGED vars
            BY <1>2 DEF start, ClientStep, onError, stop, disconnecting, onDisconnect,
                        crash, processRestarts, ProcessEnds, vars
        <3>2. ~ \E p \in Partitions : PartitionStep(p)
            BY <1>2 DEF PartitionStep, onData, seekDone, seekFails, deserialize,
                        deserializeFails
        <3>3. ~processQueueCommitFatal
            BY NeverFails DEF processQueueCommitFatal
        <3>4. ~processQueueDisconnected
            BY DEF processQueueDisconnected, awaited, Quiet, Accepts
        <3>5. ~ \E kind \in HandlerErrors : processQueueFails(kind)
            BY <1>2 DEF processQueueFails
        <3>. QED
            BY <3>1, <3>2, <3>3, <3>4, <3>5, NoPromiseStep DEF Next, LoopStep
    <2>2. /\ element # None /\ element \in Elements /\ Accepts
          /\ handled' = handled \cup Resolved(element)
        BY <2>1 DEF processQueueSucceeds, awaited, TypeOK
    <2>3. PICK m \in Messages : m = element.msg
        BY <2>2 DEF Elements
    <2>4. handled' = handled \cup {m}
        BY <2>2, <2>3 DEF Quiet, Resolved
    <2>5. queue # << >> /\ queue[1].msg = m /\ Serving
        BY <2>2, <2>3 DEF NothingIsLost, AwaitsFront, Serving
    <2>6. 1 \in 1..Len(queue)
        BY <2>5, EmptySeq, LenProperties DEF TypeOK
    <2>7. \A b \in Messages : ~Buffered(b, 1 - 1)
        BY DEF Buffered
    <2>8. \A b \in Messages : Before(b, m) => Covered(b)
        BY <2>5, <2>6, <2>7 DEF NothingIsLost, BufferInOrder
    <2>. QED
        BY <2>4, <2>8 DEF HandledInOrder, Covered, Before
<1>. QED
    BY <1>1, <1>2

(***************************************************************************)
(* In an ordered environment a synchronous consumer hands no message to    *)
(* its observer with success before every earlier message of the partition *)
(* was handled, though handlers fail and are retried, commits are lost or  *)
(* refused, and the process crashes.                                       *)
(***************************************************************************)
THEOREM ConsumerHandlesInOrder == OrderedEnvironment => (Spec => []HandledInOrder)
<1> SUFFICES ASSUME OrderedEnvironment PROVE Spec => []HandledInOrder
    OBVIOUS
<1>1. Init => Quiet /\ HandledInOrder
    BY EmptySeq DEF Init, Quiet, HandledInOrder
<1>2. NothingIsLost => NothingBeforeStart
    BY DEF NothingIsLost
<1>3. /\ TypeOK /\ NothingIsLost /\ Quiet /\ HandledInOrder
      /\ [Next]_vars
      => (Quiet /\ HandledInOrder)'
    BY <1>2, NextQuiet, NextHandledInOrder
<1>4. Spec => [](TypeOK /\ NothingIsLost)
    BY ConsumerLosesNothing DEF OrderedEnvironment
<1>. QED
    BY <1>1, <1>3, <1>4, PTL DEF Spec

-----------------------------------------------------------------------------
(***************************************************************************)
(* The environments in which a consumer is proved to be paused exactly     *)
(* while its buffer is at the limit: one partition, and a new process for  *)
(* a consumer that closed.                                                 *)
(***************************************************************************)
OnePartitionEach ==
    /\ \E p : Partitions = {p}
    /\ "object" \notin Restarts

\* A process that has not called start() has nothing in its hands, and has
\* paused nothing.
Fresh ==
    ~started =>
        /\ conn = "down" /\ queue = << >> /\ element = None
        /\ decoding = [p \in Partitions |-> << >>]
        /\ ~consumerPaused /\ pausedAt = {}

\* Back pressure makes the pause match the new length of the buffer.
LEMMA BackpressureMatches ==
    ASSUME OnePartitionEach, TypeOK, NEW p \in Partitions, NEW n \in Nat,
           pausedAt = IF consumerPaused THEN Partitions ELSE {},
           handleBackpressure(p, n)
    PROVE  /\ consumerPaused' <=> MaxBufferLength <= n
           /\ pausedAt' = IF consumerPaused' THEN Partitions ELSE {}
<1>1. Partitions = {p} /\ consumerPaused \in BOOLEAN
    BY DEF OnePartitionEach, TypeOK
<1>2. MaxBufferLength \in Nat
    BY ConsumerAssumption
<1>3. CASE MustPause(n) /\ consumerPaused' = TRUE /\ pausedAt' = pausedAt \cup {p}
    BY <1>1, <1>3 DEF MustPause
<1>4. CASE MustResume(n) /\ consumerPaused' = FALSE /\ pausedAt' = pausedAt \ {p}
    BY <1>1, <1>2, <1>4 DEF MustResume
<1>5. CASE ~MustPause(n) /\ ~MustResume(n) /\ UNCHANGED pauseVars
    BY <1>1, <1>2, <1>5 DEF MustPause, MustResume, pauseVars
<1>. QED
    BY <1>3, <1>4, <1>5 DEF handleBackpressure

\* What leaves the length of the buffer alone, or closes the client.
LEMMA PauseFrame ==
    ASSUME PauseMatchesBuffer, UNCHANGED pauseVars,
           conn' = "up" => conn = "up" /\ Len(queue') = Len(queue)
    PROVE  PauseMatchesBuffer'
BY DEF PauseMatchesBuffer, pauseVars

LEMMA ArrivePause ==
    ASSUME OnePartitionEach, TypeOK, PauseMatchesBuffer, NEW m \in Messages, Arrive(m)
    PROVE  PauseMatchesBuffer'
<1>1. CASE conn # "up"
    BY <1>1, ArriveFacts DEF PauseMatchesBuffer, Arrive, Stopped
<1>2. CASE conn = "up"
    <2>1. Accepts
        BY <1>2 DEF Accepts
    <2>2. conn' = conn /\ Len(queue') = Len(queue) + 1 /\ Len(queue) \in Nat
        BY <2>1, ArriveFacts, LengthFacts
    <2>3. Len(Append(queue, Enqueued(m))) = Len(queue) + 1
        BY EnqueuedFacts, AppendProperties DEF TypeOK
    <2>4. handleBackpressure(m.part, Len(queue) + 1)
        BY <2>1, <2>3 DEF Arrive, BackpressureThrows
    <2>5. m.part \in Partitions
        BY LengthFacts
    <2>6. pausedAt = IF consumerPaused THEN Partitions ELSE {}
        BY <1>2 DEF PauseMatchesBuffer
    <2>7. Len(queue) + 1 \in Nat
        BY <2>2
    <2>8. /\ consumerPaused' <=> MaxBufferLength <= Len(queue) + 1
          /\ pausedAt' = IF consumerPaused' THEN Partitions ELSE {}
        BY <2>4, <2>5, <2>6, <2>7, BackpressureMatches
    <2>. QED
        BY <2>2, <2>8 DEF PauseMatchesBuffer
<1>. QED
    BY <1>1, <1>2

LEMMA PartitionStepPause ==
    ASSUME OnePartitionEach, TypeOK, PauseMatchesBuffer,
           NEW p \in Partitions, PartitionStep(p)
    PROVE  PauseMatchesBuffer'
<1>1. CASE onData(p)
    <2> DEFINE m == [part |-> p, off |-> position[p]]
    <2>1. m \in Messages
        BY <1>1, ConsumerAssumption DEF onData, Messages, TypeOK, Counter
    <2>2. CASE Arrive(m)
        BY <2>1, <2>2, ArrivePause
    <2>3. CASE UNCHANGED <<conn, pauseVars, queue>>
        BY <2>3, PauseFrame
    <2>. QED
        BY <1>1, <2>2, <2>3 DEF onData
<1>2. CASE seekDone(p)
    BY <1>2, PauseFrame DEF seekDone
<1>3. CASE seekFails(p)
    <2>1. UNCHANGED pauseVars /\ (UNCHANGED <<conn, queue>> \/ conn' = Stopped)
        BY <1>3 DEF seekFails
    <2>. QED
        BY <2>1, PauseFrame DEF Stopped
<1>4. CASE deserialize(p)
    <2>1. decoding[p] # << >> /\ decoding[p] \in Seq(Messages)
        BY <1>4 DEF deserialize, TypeOK
    <2>2. Head(decoding[p]) \in Messages
        BY <2>1
    <2>. QED
        BY <1>4, <2>2, ArrivePause DEF deserialize
<1>5. CASE deserializeFails(p)
    <2>1. UNCHANGED pauseVars /\ conn' = Stopped
        BY <1>5 DEF deserializeFails
    <2>. QED
        BY <2>1, PauseFrame DEF Stopped
<1>. QED
    BY <1>1, <1>2, <1>3, <1>4, <1>5 DEF PartitionStep

LEMMA SucceedsPause ==
    ASSUME OnePartitionEach, TypeOK, PauseMatchesBuffer, processQueueSucceeds
    PROVE  PauseMatchesBuffer'
<1> DEFINE rest == IF queue = << >> THEN << >> ELSE Tail(queue)
<1>1. /\ handleBackpressure(element.msg.part, Len(rest)) /\ Turn(rest, 0)
      /\ UNCHANGED conn /\ element \in Elements
    BY DEF processQueueSucceeds, awaited, TypeOK
<1>2. element.msg.part \in Partitions
    BY <1>1 DEF Elements, Messages
<1>3. rest \in Seq(Elements) /\ Len(rest) \in Nat
    BY DEF TypeOK
<1>4. 0 \in 0..MaxRetries
    BY ConsumerAssumption
<1> HIDE DEF rest
<1>5. Len(queue') = Len(rest)
    BY <1>1, <1>3, <1>4, TurnFacts
<1>6. CASE conn # "up"
    BY <1>1, <1>6 DEF PauseMatchesBuffer
<1>7. CASE conn = "up"
    <2>1. pausedAt = IF consumerPaused THEN Partitions ELSE {}
        BY <1>7 DEF PauseMatchesBuffer
    <2>2. /\ consumerPaused' <=> MaxBufferLength <= Len(rest)
          /\ pausedAt' = IF consumerPaused' THEN Partitions ELSE {}
        BY <1>1, <1>2, <1>3, <2>1, BackpressureMatches
    <2>. QED
        BY <1>5, <2>2 DEF PauseMatchesBuffer
<1>. QED
    BY <1>6, <1>7

LEMMA LoopStepPause ==
    ASSUME OnePartitionEach, TypeOK, PauseMatchesBuffer, LoopStep
    PROVE  PauseMatchesBuffer'
<1>0. ASSUME NEW fatal, GiveUp(fatal), UNCHANGED pauseVars
      PROVE  PauseMatchesBuffer'
    <2>1. UNCHANGED <<conn, queue>> \/ conn' = Stopped
        BY <1>0 DEF GiveUp
    <2>. QED
        BY <1>0, <2>1, PauseFrame DEF Stopped
<1>1. ASSUME errorCount + 1 <= MaxRetries, Turn(queue, errorCount + 1), UNCHANGED conn,
             UNCHANGED pauseVars
      PROVE  PauseMatchesBuffer'
    <2>1. errorCount + 1 \in 0..MaxRetries
        BY <1>1, ConsumerAssumption DEF TypeOK
    <2>2. Len(queue') = Len(queue)
        BY <1>1, <2>1, TurnFacts DEF TypeOK
    <2>. QED
        BY <1>1, <2>2, PauseFrame
<1>2. CASE processQueueCommitFatal
    BY <1>2 DEF processQueueCommitFatal, PauseMatchesBuffer, Stopped
<1>3. CASE processQueueDisconnected
    BY <1>3 DEF processQueueDisconnected, PauseMatchesBuffer, Stopped, Accepts
<1>4. CASE \E kind \in HandlerErrors : processQueueFails(kind)
    BY <1>0, <1>1, <1>4 DEF processQueueFails
<1>5. CASE processQueueRejected
    BY <1>0, <1>1, <1>5 DEF processQueueRejected
<1>. QED
    BY <1>2, <1>3, <1>4, <1>5, SucceedsPause DEF LoopStep

LEMMA PromiseStepPause ==
    ASSUME TypeOK, PauseMatchesBuffer, PromiseStep
    PROVE  PauseMatchesBuffer'
<1>1. CASE retryAwaited
    BY <1>1, PauseFrame DEF retryAwaited, clientVars, pauseVars
<1>2. CASE \E i \in DOMAIN queue : retryQueued(i)
    <2>1. PICK i \in DOMAIN queue : retryQueued(i)
        BY <1>2
    <2>2. PICK f \in Outcomes(queue[i]) : queue' = [queue EXCEPT ![i] = f]
        BY <2>1 DEF retryQueued
    <2>3. queue \in Seq(Elements) /\ i \in 1..Len(queue)
        BY <2>1, LenProperties DEF TypeOK
    <2>4. f \in Elements
        BY <2>2, <2>3, LengthFacts, OutcomeFacts
    <2>5. Len(queue') = Len(queue)
        BY <2>2, <2>3, <2>4, ExceptSeq
    <2>. QED
        BY <2>1, <2>5, PauseFrame DEF retryQueued, clientVars, pauseVars
<1>3. CASE \E m \in orphans : retryOrphan(m)
    BY <1>3, PauseFrame DEF retryOrphan, clientVars, pauseVars
<1>. QED
    BY <1>1, <1>2, <1>3 DEF PromiseStep

LEMMA NextPause ==
    ASSUME OnePartitionEach, TypeOK, PauseMatchesBuffer, Fresh, [Next]_vars
    PROVE  PauseMatchesBuffer'
<1>1. CASE start
    <2>1. ~started
        BY <1>1 DEF start, OnePartitionEach
    <2>2. /\ queue' = << >> /\ consumerPaused' = FALSE /\ pausedAt' = {}
        BY <1>1, <2>1 DEF Fresh, start, TypeOK
    <2>3. ~(MaxBufferLength <= Len(<< >>))
        BY ConsumerAssumption, EmptySeq
    <2>. QED
        BY <2>2, <2>3 DEF PauseMatchesBuffer
<1>2. CASE ClientStep
    BY <1>2 DEF ClientStep, onError, stop, disconnecting, onDisconnect, PauseMatchesBuffer, Stopped
<1>3. CASE crash \/ processRestarts
    BY <1>3 DEF crash, processRestarts, ProcessEnds, PauseMatchesBuffer
<1>4. CASE UNCHANGED vars
    BY <1>4 DEF vars, PauseMatchesBuffer
<1>. QED
    BY <1>1, <1>2, <1>3, <1>4, PartitionStepPause, LoopStepPause, PromiseStepPause DEF Next

\* Before start() nothing but start() happens, or a handler of before ends.
LEMMA NextFresh ==
    ASSUME TypeOK, Fresh, [Next]_vars
    PROVE  Fresh'
<1>1. CASE started
    <2>1. CASE crash \/ processRestarts
        BY <2>1 DEF crash, processRestarts, ProcessEnds, Fresh
    <2>2. CASE start \/ UNCHANGED vars
        BY <1>1, <2>2 DEF start, vars, Fresh
    <2>3. CASE LoopStep \/ PromiseStep \/ ClientStep \/ \E p \in Partitions : PartitionStep(p)
        <3>1. UNCHANGED started
            BY <2>3 DEF LoopStep, PromiseStep, ClientStep, PartitionStep, onData, seekDone,
                seekFails, deserialize, deserializeFails, processQueueSucceeds,
                processQueueCommitFatal, processQueueDisconnected, processQueueFails,
                processQueueRejected, retryAwaited, retryQueued, retryOrphan, onError, stop,
                disconnecting, onDisconnect
        <3>. QED
            BY <1>1, <3>1 DEF Fresh
    <2>. QED
        BY <2>1, <2>2, <2>3 DEF Next
<1>2. CASE ~started
    <2>1. /\ conn = "down" /\ queue = << >> /\ element = None
          /\ decoding = [p \in Partitions |-> << >>]
        BY <1>2 DEF Fresh
    <2>2. ~LoopStep
        BY <2>1 DEF LoopStep, processQueueSucceeds, processQueueCommitFatal,
                    processQueueDisconnected, processQueueFails, processQueueRejected, awaited
    <2>3. ~ \E p \in Partitions : PartitionStep(p)
        BY <2>1 DEF PartitionStep, onData, seekDone, seekFails, deserialize,
                    deserializeFails, Accepts
    <2>4. ~ClientStep /\ ~crash /\ ~processRestarts
        BY <1>2, <2>1 DEF ClientStep, onError, stop, disconnecting, onDisconnect,
                          crash, processRestarts
    <2>5. ~retryAwaited /\ ~ \E i \in DOMAIN queue : retryQueued(i)
        BY <2>1 DEF retryAwaited
    <2>6. CASE start
        BY <2>6 DEF start, Fresh
    <2>7. CASE \E m \in orphans : retryOrphan(m)
        BY <2>7 DEF retryOrphan, Fresh, clientVars, loopVars
    <2>8. CASE UNCHANGED vars
        BY <2>8 DEF vars, Fresh
    <2>. QED
        BY <2>2, <2>3, <2>4, <2>5, <2>6, <2>7, <2>8 DEF Next, PromiseStep
<1>. QED
    BY <1>1, <1>2

(***************************************************************************)
(* A consumer of one partition has it paused exactly while its buffer is   *)
(* at the limit, for every limit, both classes, and whatever fails:        *)
(* between two callbacks handleBackpressure never leaves the client        *)
(* delivering into a full buffer, nor paused over one with room.           *)
(***************************************************************************)
THEOREM ConsumerPausesAtLimit == OnePartitionEach => (Spec => []PauseMatchesBuffer)
<1> SUFFICES ASSUME OnePartitionEach PROVE Spec => []PauseMatchesBuffer
    OBVIOUS
<1>1. Init => PauseMatchesBuffer /\ Fresh
    BY DEF Init, PauseMatchesBuffer, Fresh
<1>2. TypeOK /\ PauseMatchesBuffer /\ Fresh /\ [Next]_vars => (PauseMatchesBuffer /\ Fresh)'
    BY NextPause, NextFresh
<1>3. Spec => []TypeOK
    BY ConsumerTypeOK
<1>. QED
    BY <1>1, <1>2, <1>3, PTL DEF Spec

-----------------------------------------------------------------------------
(***************************************************************************)
(* The environments in which commits are proved to be in order: safe ones  *)
(* without start offsets, so that nothing is sought.                       *)
(***************************************************************************)
FromTheFirst == SafeEnvironment /\ \A p \in Partitions : StartOffset[p] = 0

\* m was delivered in this process, and is not behind the committed offset.
Within(m) == committed[m.part] <= m.off /\ m.off < position[m.part]

\* What is in the buffer and with the coder climbs, from the committed offset
\* to the position of the client.
Climbing ==
    /\ \A p \in Partitions : seeks[p] = 0 /\ committed[p] <= position[p]
    /\ \A i \in 1..Len(queue) : Within(queue[i].msg)
    /\ \A p \in Partitions : \A i \in 1..Len(decoding[p]) : Within(decoding[p][i])
    /\ \A i, j \in 1..Len(queue) : i < j /\ queue[i].msg.part = queue[j].msg.part =>
           queue[i].msg.off < queue[j].msg.off
    /\ \A p \in Partitions : \A i, j \in 1..Len(decoding[p]) : i < j =>
           decoding[p][i].off < decoding[p][j].off
    /\ \A p \in Partitions : \A j \in 1..Len(decoding[p]) : \A i \in 1..Len(queue) :
           queue[i].msg.part = p => queue[i].msg.off < decoding[p][j].off

\* An empty buffer, and what is left with the coder.
LEMMA ClimbCleared ==
    ASSUME TypeOK, Climbing, queue' = << >>, UNCHANGED <<committed, position, seeks, decoding>>
    PROVE  Climbing'
BY EmptySeq DEF Climbing, Within

\* Steps that keep the messages where they are.
LEMMA ClimbFrame ==
    ASSUME TypeOK, Climbing, UNCHANGED <<committed, position, seeks, decoding>>,
           Len(queue') = Len(queue), \A i \in 1..Len(queue) : queue'[i].msg = queue[i].msg
    PROVE  Climbing'
BY DEF Climbing, Within

LEMMA ArriveQueue ==
    ASSUME TypeOK, NEW m \in Messages, Arrive(m)
    PROVE  \/ queue' = << >>
           \/ /\ Len(queue') = Len(queue) + 1
              /\ \A i \in 1..Len(queue) : queue'[i].msg = queue[i].msg
              /\ queue'[Len(queue) + 1].msg = m
<1> DEFINE q == Append(queue, Enqueued(m))
<1>1. /\ q \in Seq(Elements) /\ Len(q) = Len(queue) + 1 /\ Len(queue) \in Nat
      /\ \A i \in 1..Len(queue) : q[i] = queue[i]
      /\ q[Len(queue) + 1] = Enqueued(m)
    BY EnqueuedFacts, AppendProperties, LenProperties DEF TypeOK
<1>2. q[Len(queue) + 1].msg = m
    BY <1>1, EnqueuedFacts
<1>3. CASE queue' = q
    BY <1>1, <1>2, <1>3
<1>4. CASE Turn(q, 0)
    <2>1. 0 \in 0..MaxRetries
        BY ConsumerAssumption
    <2> HIDE DEF q
    <2>2. Len(queue') = Len(q) /\ \A i \in 1..Len(q) : queue'[i].msg = q[i].msg
        BY <1>1, <1>4, <2>1, TurnFacts
    <2>. QED
        BY <1>1, <1>2, <2>2
<1>5. CASE Clear(q)
    BY <1>5 DEF Clear
<1>. QED
    BY <1>3, <1>4, <1>5 DEF Arrive

\* A message that the coder has decoded goes from its line to the buffer.
LEMMA ClimbDeserialize ==
    ASSUME TypeOK, PendingFiled, Climbing, NEW p \in Partitions, decoding[p] # << >>,
           decoding' = [decoding EXCEPT ![p] = Tail(@)],
           UNCHANGED <<committed, position, seeks>>,
           \/ queue' = << >>
           \/ /\ Len(queue') = Len(queue) + 1
              /\ \A i \in 1..Len(queue) : queue'[i].msg = queue[i].msg
              /\ queue'[Len(queue) + 1].msg = Head(decoding[p])
    PROVE  Climbing'
<1> DEFINE d == decoding[p]
           m == Head(d)
<1>1. /\ d = decoding[p] /\ d \in Seq(Messages) /\ Len(d) \in Nat \ {0} /\ m = d[1]
      /\ decoding'[p] = Tail(d)
      /\ \A r \in Partitions : r # p => decoding'[r] = decoding[r]
    BY DEF TypeOK
<1>2. /\ Len(decoding'[p]) = Len(d) - 1
      /\ \A i \in 1..(Len(d) - 1) : decoding'[p][i] = d[i + 1]
    <2> HIDE DEF d, m
    <2>1. d # << >>
        BY <1>1
    <2>2. Len(Tail(d)) = Len(d) - 1 /\ \A i \in 1..Len(Tail(d)) : Tail(d)[i] = d[i + 1]
        BY <1>1, <2>1, HeadTailProperties
    <2>. QED
        BY <1>1, <2>2
<1>3. m.part = p /\ Within(m) /\ 1 \in 1..Len(d)
    BY <1>1 DEF PendingFiled, Climbing
<1>4. \A r \in Partitions : \A i \in 1..Len(decoding'[r]) :
          \E k \in 1..Len(decoding[r]) :
              decoding'[r][i] = decoding[r][k] /\ k >= i /\ (r = p => k = i + 1)
    <2> SUFFICES ASSUME NEW r \in Partitions, NEW i \in 1..Len(decoding'[r])
                 PROVE  \E k \in 1..Len(decoding[r]) :
                            decoding'[r][i] = decoding[r][k] /\ k >= i /\ (r = p => k = i + 1)
        OBVIOUS
    <2>1. CASE r = p
        <3>1. i + 1 \in 1..Len(d) /\ i \in 1..(Len(d) - 1) /\ i + 1 >= i
            BY <1>1, <1>2, <2>1
        <3>. QED
            BY <1>2, <2>1, <3>1
    <2>2. CASE r # p
        BY <1>1, <2>2, LengthFacts
    <2>. QED
        BY <2>1, <2>2
<1>5. ASSUME NEW x, Within(x) PROVE Within(x)'
    BY <1>5 DEF Within
<1> HIDE DEF d, m
<1>6. \A r \in Partitions : \A i \in 1..Len(decoding'[r]) : Within(decoding[r][i])'
    <2> SUFFICES ASSUME NEW r \in Partitions, NEW i \in 1..Len(decoding'[r])
                 PROVE  Within(decoding[r][i])'
        OBVIOUS
    <2>1. PICK k \in 1..Len(decoding[r]) : decoding'[r][i] = decoding[r][k]
        BY <1>4
    <2>2. Within(decoding[r][k])
        BY DEF Climbing
    <2>. QED
        BY <2>1, <2>2 DEF Within
<1>7. \A r \in Partitions : \A i, j \in 1..Len(decoding'[r]) : i < j =>
          decoding'[r][i].off < decoding'[r][j].off
    <2> SUFFICES ASSUME NEW r \in Partitions, NEW i \in 1..Len(decoding'[r]),
                        NEW j \in 1..Len(decoding'[r]), i < j
                 PROVE  decoding'[r][i].off < decoding'[r][j].off
        OBVIOUS
    <2>1. CASE r = p
        <3>1. i + 1 \in 1..Len(d) /\ j + 1 \in 1..Len(d) /\ i + 1 < j + 1
            BY <1>1, <1>2, <2>1
        <3>2. decoding'[r][i] = d[i + 1] /\ decoding'[r][j] = d[j + 1]
            BY <1>1, <1>2, <2>1
        <3>. QED
            BY <3>1, <3>2 DEF Climbing
    <2>2. CASE r # p
        BY <1>1, <2>2 DEF Climbing
    <2>. QED
        BY <2>1, <2>2
<1>8. \A r \in Partitions : seeks'[r] = 0 /\ committed'[r] <= position'[r]
    BY DEF Climbing
<1>9. CASE queue' = << >>
    <2>1. 1..Len(queue') = {}
        BY <1>9, EmptySeq
    <2>. QED
        BY <1>6, <1>7, <1>8, <2>1 DEF Climbing
<1>10. CASE /\ Len(queue') = Len(queue) + 1
            /\ \A i \in 1..Len(queue) : queue'[i].msg = queue[i].msg
            /\ queue'[Len(queue) + 1].msg = m
    <2>1. Len(queue) \in Nat
        BY LengthFacts
    <2>2. \A i \in 1..Len(queue') :
              \/ i \in 1..Len(queue) /\ queue'[i].msg = queue[i].msg
              \/ i = Len(queue) + 1 /\ queue'[i].msg = m
        BY <1>10, <2>1
    <2>3. \A i \in 1..Len(queue') : Within(queue[i].msg)'
        BY <1>3, <1>5, <2>2 DEF Climbing
    <2>4. \A i \in 1..Len(queue) : queue[i].msg.part = p => queue[i].msg.off < m.off
        BY <1>1, <1>3 DEF Climbing
    <2>5. \A i, j \in 1..Len(queue') : i < j /\ queue'[i].msg.part = queue'[j].msg.part =>
              queue'[i].msg.off < queue'[j].msg.off
        <3> SUFFICES ASSUME NEW i \in 1..Len(queue'), NEW j \in 1..Len(queue'), i < j,
                            queue'[i].msg.part = queue'[j].msg.part
                     PROVE  queue'[i].msg.off < queue'[j].msg.off
            OBVIOUS
        <3>1. i \in 1..Len(queue) /\ queue'[i].msg = queue[i].msg
            BY <1>10, <2>1
        <3>2. CASE j \in 1..Len(queue) /\ queue'[j].msg = queue[j].msg
            BY <3>1, <3>2 DEF Climbing
        <3>3. CASE queue'[j].msg = m
            BY <1>3, <2>4, <3>1, <3>3
        <3>. QED
            BY <2>2, <3>2, <3>3
    <2>6. \A r \in Partitions : \A j \in 1..Len(decoding'[r]) : \A i \in 1..Len(queue') :
              queue'[i].msg.part = r => queue'[i].msg.off < decoding'[r][j].off
        <3> SUFFICES ASSUME NEW r \in Partitions, NEW j \in 1..Len(decoding'[r]),
                            NEW i \in 1..Len(queue'), queue'[i].msg.part = r
                     PROVE  queue'[i].msg.off < decoding'[r][j].off
            OBVIOUS
        <3>1. PICK k \in 1..Len(decoding[r]) :
                  decoding'[r][j] = decoding[r][k] /\ (r = p => k = j + 1)
            BY <1>4
        <3>2. CASE i \in 1..Len(queue) /\ queue'[i].msg = queue[i].msg
            BY <3>1, <3>2 DEF Climbing
        <3>3. CASE queue'[i].msg = m
            <4>1. r = p /\ 1 < k
                BY <1>3, <3>1, <3>3
            <4>2. d[1].off < d[k].off
                BY <1>1, <1>3, <3>1, <4>1 DEF Climbing
            <4>. QED
                BY <1>1, <3>1, <3>3, <4>1, <4>2
        <3>. QED
            BY <2>2, <3>2, <3>3
    <2>. QED
        BY <1>6, <1>7, <1>8, <2>3, <2>5, <2>6 DEF Climbing
<1>. QED
    BY <1>9, <1>10 DEF m, d

\* onData: the message goes behind everything that was delivered before.
LEMMA ClimbOnData ==
    ASSUME FromTheFirst, TypeOK, PendingFiled, Climbing, NEW p \in Partitions, onData(p)
    PROVE  Climbing'
<1>0. [part |-> p, off |-> position[p]] \in Messages
    BY ConsumerAssumption DEF onData, Messages, TypeOK, Counter
<1>m. PICK m \in Messages : m = [part |-> p, off |-> position[p]]
    BY <1>0
<1>1. m.part = p /\ m.off = position[p] /\ m.off \in Nat /\ ~(m.off < StartOffset[p])
    BY <1>m, LengthFacts DEF FromTheFirst
<1>2. /\ UNCHANGED committed
      /\ position' = [position EXCEPT ![p] = @ + 1]
    BY DEF onData
<1>3. /\ position'[p] = position[p] + 1 /\ position[p] \in Nat
      /\ \A r \in Partitions : r # p => position'[r] = position[r]
      /\ \A r \in Partitions : position[r] \in Nat /\ committed[r] \in Nat
    BY <1>2, ConsumerAssumption DEF TypeOK, Counter
<1>4. ASSUME NEW x \in Messages, Within(x) PROVE Within(x)'
    <2>1. x.part \in Partitions /\ x.off \in Nat
        BY LengthFacts
    <2>. QED
        BY <1>2, <1>3, <1>4, <2>1 DEF Within
<1>5. Within(m)'
    BY <1>1, <1>2, <1>3 DEF Within, Climbing
<1>6. \A x \in Messages : x.part = p /\ Within(x) => x.off < m.off
    BY <1>1 DEF Within
<1>7. CASE m \notin Undelayed
           /\ decoding' = [decoding EXCEPT ![p] = Append(@, m)]
           /\ UNCHANGED <<seeks, queue>>
    <2>1. /\ decoding[p] \in Seq(Messages) /\ Len(decoding[p]) \in Nat
          /\ decoding'[p] = Append(decoding[p], m)
          /\ \A r \in Partitions : r # p => decoding'[r] = decoding[r]
        BY <1>7, LengthFacts DEF TypeOK
    <2>2. /\ Len(decoding'[p]) = Len(decoding[p]) + 1
          /\ \A i \in 1..Len(decoding[p]) : decoding'[p][i] = decoding[p][i]
          /\ decoding'[p][Len(decoding[p]) + 1] = m
        BY <2>1, AppendProperties
    <2>3. \A r \in Partitions : \A i \in 1..Len(decoding'[r]) :
              \/ i \in 1..Len(decoding[r]) /\ decoding'[r][i] = decoding[r][i]
              \/ r = p /\ i = Len(decoding[p]) + 1 /\ decoding'[r][i] = m
        BY <2>1, <2>2
    <2>4. \A i \in 1..Len(queue') : Within(queue[i].msg)'
        <3> SUFFICES ASSUME NEW i \in 1..Len(queue) PROVE Within(queue[i].msg)'
            BY <1>7
        <3>1. queue[i].msg \in Messages /\ Within(queue[i].msg)
            BY LengthFacts DEF Climbing
        <3>2. PICK x \in Messages : x = queue[i].msg
            BY <3>1
        <3>3. Within(x)'
            BY <1>4, <3>1, <3>2
        <3>. QED
            BY <1>7, <3>2, <3>3
    <2>5. \A r \in Partitions : \A i \in 1..Len(decoding'[r]) : Within(decoding[r][i])'
        <3> SUFFICES ASSUME NEW r \in Partitions, NEW i \in 1..Len(decoding'[r])
                     PROVE  Within(decoding[r][i])'
            OBVIOUS
        <3>1. CASE i \in 1..Len(decoding[r]) /\ decoding'[r][i] = decoding[r][i]
            <4>1. PICK x \in Messages : x = decoding[r][i] /\ Within(x)
                BY <3>1, LengthFacts DEF Climbing
            <4>2. Within(x)'
                BY <1>4, <4>1
            <4>. QED
                BY <3>1, <4>1, <4>2
        <3>2. CASE decoding'[r][i] = m
            BY <1>5, <3>2
        <3>. QED
            BY <2>3, <3>1, <3>2
    <2>6. \A r \in Partitions : \A i, j \in 1..Len(decoding'[r]) : i < j =>
              decoding'[r][i].off < decoding'[r][j].off
        <3> SUFFICES ASSUME NEW r \in Partitions, NEW i \in 1..Len(decoding'[r]),
                            NEW j \in 1..Len(decoding'[r]), i < j
                     PROVE  decoding'[r][i].off < decoding'[r][j].off
            OBVIOUS
        <3>1. i \in 1..Len(decoding[r]) /\ decoding'[r][i] = decoding[r][i]
            BY <2>1, <2>2
        <3>2. CASE j \in 1..Len(decoding[r]) /\ decoding'[r][j] = decoding[r][j]
            BY <3>1, <3>2 DEF Climbing
        <3>3. CASE r = p /\ decoding'[r][j] = m
            <4>1. decoding[r][i] \in Messages /\ decoding[r][i].part = p /\ Within(decoding[r][i])
                BY <3>1, <3>3, LengthFacts DEF PendingFiled, Climbing
            <4>. QED
                BY <1>6, <3>1, <3>3, <4>1
        <3>. QED
            BY <2>3, <3>2, <3>3
    <2>7. \A r \in Partitions : \A j \in 1..Len(decoding'[r]) : \A i \in 1..Len(queue) :
              queue[i].msg.part = r => queue[i].msg.off < decoding'[r][j].off
        <3> SUFFICES ASSUME NEW r \in Partitions, NEW j \in 1..Len(decoding'[r]),
                            NEW i \in 1..Len(queue), queue[i].msg.part = r
                     PROVE  queue[i].msg.off < decoding'[r][j].off
            OBVIOUS
        <3>1. CASE j \in 1..Len(decoding[r]) /\ decoding'[r][j] = decoding[r][j]
            BY <3>1 DEF Climbing
        <3>2. CASE r = p /\ decoding'[r][j] = m
            <4>1. queue[i].msg \in Messages /\ Within(queue[i].msg)
                BY LengthFacts DEF Climbing
            <4>. QED
                BY <1>6, <3>2, <4>1
        <3>. QED
            BY <2>3, <3>1, <3>2
    <2>8. \A r \in Partitions : seeks'[r] = 0 /\ committed'[r] <= position'[r]
        BY <1>2, <1>3, <1>7 DEF Climbing
    <2>. QED
        BY <1>7, <2>4, <2>5, <2>6, <2>7, <2>8 DEF Climbing
<1>8. CASE m \in Undelayed /\ Arrive(m) /\ UNCHANGED <<seeks, decoding>>
    <2>1. \A i \in 1..Len(decoding[p]) : FALSE
        <3> SUFFICES ASSUME NEW i \in 1..Len(decoding[p]) PROVE FALSE
            OBVIOUS
        <3>1. PICK b \in Messages : b = decoding[p][i]
            BY LengthFacts
        <3>2. b.part = p /\ b \notin Undelayed /\ Within(b)
            BY <3>1 DEF PendingFiled, Climbing
        <3>3. b.off < m.off
            BY <1>6, <3>2
        <3>. QED
            BY <1>1, <1>8, <3>2, <3>3 DEF FromTheFirst, SafeEnvironment
    <2>2. \A r \in Partitions : \A i \in 1..Len(decoding'[r]) : Within(decoding[r][i])'
        <3> SUFFICES ASSUME NEW r \in Partitions, NEW i \in 1..Len(decoding[r])
                     PROVE  Within(decoding[r][i])'
            BY <1>8
        <3>1. PICK x \in Messages : x = decoding[r][i] /\ Within(x)
            BY LengthFacts DEF Climbing
        <3>2. Within(x)'
            BY <1>4, <3>1
        <3>. QED
            BY <1>8, <3>1, <3>2
    <2>3. \A r \in Partitions : seeks'[r] = 0 /\ committed'[r] <= position'[r]
        BY <1>2, <1>3, <1>8 DEF Climbing
    <2>4. CASE queue' = << >>
        <3>1. 1..Len(queue') = {}
            BY <2>4, EmptySeq
        <3>. QED
            BY <1>8, <2>2, <2>3, <3>1 DEF Climbing
    <2>5. CASE /\ Len(queue') = Len(queue) + 1
               /\ \A i \in 1..Len(queue) : queue'[i].msg = queue[i].msg
               /\ queue'[Len(queue) + 1].msg = m
        <3>1. Len(queue) \in Nat
            BY LengthFacts
        <3>2. \A i \in 1..Len(queue') :
                  \/ i \in 1..Len(queue) /\ queue'[i].msg = queue[i].msg
                  \/ i = Len(queue) + 1 /\ queue'[i].msg = m
            BY <2>5, <3>1
        <3>3. \A i \in 1..Len(queue') : Within(queue[i].msg)'
            <4> SUFFICES ASSUME NEW i \in 1..Len(queue') PROVE Within(queue[i].msg)'
                OBVIOUS
            <4>1. CASE i \in 1..Len(queue) /\ queue'[i].msg = queue[i].msg
                <5>1. PICK x \in Messages : x = queue[i].msg /\ Within(x)
                    BY <4>1, LengthFacts DEF Climbing
                <5>2. Within(x)'
                    BY <1>4, <5>1
                <5>. QED
                    BY <4>1, <5>1, <5>2
            <4>2. CASE queue'[i].msg = m
                BY <1>5, <4>2
            <4>. QED
                BY <3>2, <4>1, <4>2
        <3>4. \A i, j \in 1..Len(queue') : i < j /\ queue'[i].msg.part = queue'[j].msg.part =>
                  queue'[i].msg.off < queue'[j].msg.off
            <4> SUFFICES ASSUME NEW i \in 1..Len(queue'), NEW j \in 1..Len(queue'), i < j,
                                queue'[i].msg.part = queue'[j].msg.part
                         PROVE  queue'[i].msg.off < queue'[j].msg.off
                OBVIOUS
            <4>1. i \in 1..Len(queue) /\ queue'[i].msg = queue[i].msg
                BY <2>5, <3>1
            <4>2. CASE j \in 1..Len(queue) /\ queue'[j].msg = queue[j].msg
                BY <4>1, <4>2 DEF Climbing
            <4>3. CASE queue'[j].msg = m
                <5>1. queue[i].msg \in Messages /\ Within(queue[i].msg)
                    BY <4>1, LengthFacts DEF Climbing
                <5>. QED
                    BY <1>1, <1>6, <4>1, <4>3, <5>1
            <4>. QED
                BY <3>2, <4>2, <4>3
        <3>5. \A r \in Partitions : \A j \in 1..Len(decoding'[r]) : \A i \in 1..Len(queue') :
                  queue'[i].msg.part = r => queue'[i].msg.off < decoding'[r][j].off
            BY <1>1, <1>8, <2>1, <3>2 DEF Climbing
        <3>6. \A r \in Partitions : \A i, j \in 1..Len(decoding'[r]) : i < j =>
                  decoding'[r][i].off < decoding'[r][j].off
            BY <1>8 DEF Climbing
        <3>. QED
            BY <2>2, <2>3, <3>3, <3>4, <3>5, <3>6 DEF Climbing
    <2>. QED
        BY <1>8, <2>4, <2>5, ArriveQueue
<1>. QED
    BY <1>m, <1>1, <1>7, <1>8 DEF onData

\* A commit takes the front of the buffer, and everything else is behind it.
LEMMA ClimbSucceeds ==
    ASSUME TypeOK, PendingFiled, AwaitsFront, Climbing, processQueueSucceeds
    PROVE  Climbing' /\ \A p \in Partitions : committed'[p] >= committed[p]
<1>1. /\ Accepts /\ element # None /\ queue # << >> /\ queue \in Seq(Elements)
      /\ UNCHANGED <<position, seeks, decoding>>
    BY DEF processQueueSucceeds, awaited, AwaitsFront, TypeOK
<1>2. /\ Len(queue) \in Nat \ {0} /\ 1 \in 1..Len(queue)
    BY <1>1, LengthFacts, EmptySeq
<1>3. PICK m \in Messages : m = queue[1].msg
    BY <1>2, LengthFacts
<1>4. m = element.msg /\ Within(m)
    BY <1>1, <1>2, <1>3 DEF AwaitsFront, Climbing
<1>5. /\ Tail(queue) \in Seq(Elements) /\ Len(Tail(queue)) = Len(queue) - 1
      /\ \A i \in 1..Len(Tail(queue)) : Tail(queue)[i] = queue[i + 1]
    BY <1>1, HeadTailProperties
<1>6. Turn(Tail(queue), 0) /\ 0 \in 0..MaxRetries
    BY <1>1, ConsumerAssumption DEF processQueueSucceeds
<1>7. /\ Len(queue') = Len(queue) - 1
      /\ \A i \in 1..Len(queue') : i + 1 \in 1..Len(queue) /\ queue'[i].msg = queue[i + 1].msg
    <2>1. /\ Len(queue') = Len(Tail(queue))
          /\ \A i \in 1..Len(Tail(queue)) : queue'[i].msg = Tail(queue)[i].msg
        BY <1>5, <1>6, TurnFacts
    <2>2. \A i \in 1..(Len(queue) - 1) : i + 1 \in 1..Len(queue)
        BY <1>2
    <2>. QED
        BY <1>2, <1>5, <2>1, <2>2
<1>8. \A p \in Partitions : position[p] \in Nat /\ committed[p] \in Nat
    BY ConsumerAssumption DEF TypeOK, Counter
<1>9. m.part \in Partitions /\ m.off \in Nat
    BY LengthFacts
<1>10. \/ committed' = committed
       \/ committed' = [committed EXCEPT ![m.part] = m.off + 1]
    BY <1>4 DEF processQueueSucceeds, safeCommitMessage
<1>11. ASSUME NEW x \in Messages, Within(x), x.part = m.part => m.off < x.off
       PROVE  Within(x)'
    <2>1. x.part \in Partitions /\ x.off \in Nat
        BY LengthFacts
    <2>2. CASE x.part = m.part
        BY <1>1, <1>8, <1>9, <1>10, <1>11, <2>1, <2>2 DEF Within, TypeOK
    <2>3. CASE x.part # m.part
        BY <1>1, <1>8, <1>9, <1>10, <1>11, <2>1, <2>3 DEF Within, TypeOK
    <2>. QED
        BY <2>2, <2>3
<1>12. \A p \in Partitions : /\ committed'[p] >= committed[p]
                             /\ seeks'[p] = 0 /\ committed'[p] <= position'[p]
    <2> SUFFICES ASSUME NEW p \in Partitions
                 PROVE  committed'[p] >= committed[p] /\ committed'[p] <= position'[p]
        BY <1>1 DEF Climbing
    <2>1. CASE p = m.part
        BY <1>1, <1>4, <1>8, <1>9, <1>10, <2>1 DEF Within, Climbing, TypeOK
    <2>2. CASE p # m.part
        BY <1>1, <1>8, <1>9, <1>10, <2>2 DEF Climbing, TypeOK
    <2>. QED
        BY <2>1, <2>2
<1>13. \A i \in 1..Len(queue') : Within(queue[i].msg)'
    <2> SUFFICES ASSUME NEW i \in 1..Len(queue') PROVE Within(queue[i].msg)'
        OBVIOUS
    <2>1. i + 1 \in 1..Len(queue) /\ queue'[i].msg = queue[i + 1].msg /\ 1 < i + 1
        BY <1>2, <1>7
    <2>2. PICK x \in Messages : x = queue[i + 1].msg /\ Within(x)
        BY <2>1, LengthFacts DEF Climbing
    <2>3. x.part = m.part => m.off < x.off
        BY <1>2, <1>3, <2>1, <2>2 DEF Climbing
    <2>4. Within(x)'
        BY <1>11, <2>2, <2>3
    <2>. QED
        BY <2>1, <2>2, <2>4
<1>14. \A p \in Partitions : \A i \in 1..Len(decoding'[p]) : Within(decoding[p][i])'
    <2> SUFFICES ASSUME NEW p \in Partitions, NEW i \in 1..Len(decoding[p])
                 PROVE  Within(decoding[p][i])'
        BY <1>1
    <2>1. PICK x \in Messages : x = decoding[p][i] /\ Within(x)
        BY LengthFacts DEF Climbing
    <2>2. x.part = p
        BY <2>1 DEF PendingFiled
    <2>3. x.part = m.part => m.off < x.off
        BY <1>2, <1>3, <2>1, <2>2 DEF Climbing
    <2>4. Within(x)'
        BY <1>11, <2>1, <2>3
    <2>. QED
        BY <1>1, <2>1, <2>4
<1>15. \A i, j \in 1..Len(queue') : i < j /\ queue'[i].msg.part = queue'[j].msg.part =>
           queue'[i].msg.off < queue'[j].msg.off
    <2> SUFFICES ASSUME NEW i \in 1..Len(queue'), NEW j \in 1..Len(queue'), i < j,
                        queue'[i].msg.part = queue'[j].msg.part
                 PROVE  queue'[i].msg.off < queue'[j].msg.off
        OBVIOUS
    <2>1. /\ i + 1 \in 1..Len(queue) /\ queue'[i].msg = queue[i + 1].msg
          /\ j + 1 \in 1..Len(queue) /\ queue'[j].msg = queue[j + 1].msg
          /\ i + 1 < j + 1
        BY <1>7
    <2>. QED
        BY <2>1 DEF Climbing
<1>16. \A p \in Partitions : \A j \in 1..Len(decoding'[p]) : \A i \in 1..Len(queue') :
           queue'[i].msg.part = p => queue'[i].msg.off < decoding'[p][j].off
    BY <1>1, <1>7 DEF Climbing
<1>17. \A p \in Partitions : \A i, j \in 1..Len(decoding'[p]) : i < j =>
           decoding'[p][i].off < decoding'[p][j].off
    BY <1>1 DEF Climbing
<1>. QED
    BY <1>12, <1>13, <1>14, <1>15, <1>16, <1>17 DEF Climbing

\* Nothing in hand.
LEMMA ClimbEmpty ==
    ASSUME TypeOK, queue' = << >>, decoding' = [p \in Partitions |-> << >>],
           \A p \in Partitions : seeks'[p] = 0 /\ committed'[p] <= position'[p]
    PROVE  Climbing'
<1>1. 1..Len(queue') = {} /\ \A p \in Partitions : 1..Len(decoding'[p]) = {}
    BY EmptySeq
<1>. QED
    BY <1>1 DEF Climbing

LEMMA ClimbLoopStep ==
    ASSUME TypeOK, PendingFiled, AwaitsFront, Climbing, LoopStep
    PROVE  Climbing' /\ \A p \in Partitions : committed'[p] >= committed[p]
<1>0. \A p \in Partitions : committed[p] >= committed[p]
    BY ConsumerAssumption DEF TypeOK
<1>1. ASSUME NEW fatal, GiveUp(fatal), UNCHANGED <<committed, position, seeks, decoding>>
      PROVE  Climbing'
    <2>1. queue' = << >> \/ queue' = queue
        BY <1>1 DEF GiveUp, Clear
    <2>. QED
        BY <1>1, <2>1, ClimbCleared, ClimbFrame
<1>2. ASSUME errorCount + 1 <= MaxRetries, Turn(queue, errorCount + 1),
             UNCHANGED <<committed, position, seeks, decoding>>
      PROVE  Climbing'
    <2>1. errorCount + 1 \in 0..MaxRetries
        BY <1>2, ConsumerAssumption DEF TypeOK
    <2>2. Len(queue') = Len(queue) /\ \A i \in 1..Len(queue) : queue'[i].msg = queue[i].msg
        BY <1>2, <2>1, TurnFacts DEF TypeOK
    <2>. QED
        BY <1>2, <2>2, ClimbFrame
<1>3. CASE processQueueCommitFatal
    BY <1>0, <1>3, ClimbCleared DEF processQueueCommitFatal, Clear
<1>4. CASE processQueueDisconnected
    BY <1>0, <1>4, ClimbCleared DEF processQueueDisconnected, Clear
<1>5. CASE \E kind \in HandlerErrors : processQueueFails(kind)
    BY <1>0, <1>1, <1>2, <1>5 DEF processQueueFails
<1>6. CASE processQueueRejected
    BY <1>0, <1>1, <1>2, <1>6 DEF processQueueRejected
<1>. QED
    BY <1>3, <1>4, <1>5, <1>6, ClimbSucceeds DEF LoopStep

LEMMA ClimbPromiseStep ==
    ASSUME TypeOK, Climbing, PromiseStep
    PROVE  Climbing'
<1>1. CASE retryAwaited
    BY <1>1, ClimbFrame DEF retryAwaited, clientVars
<1>2. CASE \E i \in DOMAIN queue : retryQueued(i)
    <2>1. PICK i \in DOMAIN queue : retryQueued(i)
        BY <1>2
    <2>2. PICK f \in Outcomes(queue[i]) : queue' = [queue EXCEPT ![i] = f]
        BY <2>1 DEF retryQueued
    <2>3. queue \in Seq(Elements) /\ i \in 1..Len(queue)
        BY <2>1, LenProperties DEF TypeOK
    <2>4. f \in Elements /\ f.msg = queue[i].msg
        BY <2>2, <2>3, LengthFacts, OutcomeFacts
    <2>5. /\ Len(queue') = Len(queue)
          /\ \A j \in 1..Len(queue) : queue'[j] = IF j = i THEN f ELSE queue[j]
        BY <2>2, <2>3, <2>4, ExceptSeq
    <2>6. \A j \in 1..Len(queue) : queue'[j].msg = queue[j].msg
        BY <2>4, <2>5
    <2>. QED
        BY <2>1, <2>5, <2>6, ClimbFrame DEF retryQueued, clientVars
<1>3. CASE \E m \in orphans : retryOrphan(m)
    BY <1>3, ClimbFrame DEF retryOrphan, clientVars
<1>. QED
    BY <1>1, <1>2, <1>3 DEF PromiseStep

LEMMA NextClimbing ==
    ASSUME FromTheFirst, TypeOK, NothingIsLost, Climbing, [Next]_vars
    PROVE  Climbing' /\ \A p \in Partitions : committed'[p] >= committed[p]
<1>0. \A p \in Partitions :
          committed[p] \in Nat /\ committed[p] >= committed[p] /\ committed[p] <= committed[p]
    BY ConsumerAssumption DEF TypeOK
<1>1. CASE start
    <2>1. queue' = << >> /\ decoding' = [p \in Partitions |-> << >>]
        BY <1>1 DEF start, FromTheFirst, SafeEnvironment, NothingIsLost, NothingBeforeStart
    <2>2. UNCHANGED <<committed, seeks>> /\ position' = committed
        BY <1>1 DEF start
    <2>. QED
        BY <1>0, <2>1, <2>2, ClimbEmpty DEF Climbing
<1>2. CASE \E p \in Partitions : PartitionStep(p)
    <2>1. PICK p \in Partitions : PartitionStep(p)
        BY <1>2
    <2>2. UNCHANGED committed
        BY <2>1 DEF PartitionStep, onData, seekDone, seekFails, deserialize, deserializeFails
    <2>3. ~seekDone(p) /\ ~seekFails(p)
        BY DEF seekDone, seekFails, Climbing
    <2>4. PendingFiled
        BY DEF NothingIsLost
    <2>5. CASE onData(p)
        BY <1>0, <2>2, <2>4, <2>5, ClimbOnData
    <2>6. CASE deserialize(p)
        <3>1. /\ decoding[p] # << >> /\ decoding' = [decoding EXCEPT ![p] = Tail(@)]
              /\ Arrive(Head(decoding[p])) /\ UNCHANGED <<committed, position, seeks>>
            BY <2>6 DEF deserialize
        <3>2. Head(decoding[p]) \in Messages
            <4>1. decoding[p] \in Seq(Messages)
                BY DEF TypeOK
            <4>. QED
                BY <3>1, <4>1
        <3>. QED
            BY <1>0, <2>4, <3>1, <3>2, ArriveQueue, ClimbDeserialize
    <2>7. CASE deserializeFails(p)
        <3>1. /\ decoding[p] # << >> /\ decoding' = [decoding EXCEPT ![p] = Tail(@)]
              /\ queue' = << >> /\ UNCHANGED <<committed, position, seeks>>
            BY <2>7 DEF deserializeFails, Clear
        <3>. QED
            BY <1>0, <2>4, <3>1, ClimbDeserialize
    <2>. QED
        BY <2>1, <2>3, <2>5, <2>6, <2>7 DEF PartitionStep
<1>3. CASE LoopStep
    BY <1>3, ClimbLoopStep DEF NothingIsLost
<1>4. CASE PromiseStep
    <2>1. UNCHANGED committed
        BY <1>4 DEF PromiseStep, retryAwaited, retryQueued, retryOrphan
    <2>. QED
        BY <1>0, <1>4, <2>1, ClimbPromiseStep
<1>5. CASE ClientStep
    <2>1. UNCHANGED <<committed, position, decoding>> /\ (queue' = << >> \/ queue' = queue)
        BY <1>5 DEF ClientStep, onError, stop, disconnecting, onDisconnect, Clear
    <2>2. seeks = [p \in Partitions |-> 0]
        BY DEF TypeOK, Counter, Climbing
    <2>3. UNCHANGED seeks
        BY <1>5, <2>2 DEF ClientStep, onError, stop, disconnecting, onDisconnect
    <2>. QED
        BY <1>0, <2>1, <2>3, ClimbCleared, ClimbFrame
<1>6. CASE crash \/ processRestarts
    <2>1. /\ queue' = << >> /\ decoding' = [p \in Partitions |-> << >>]
          /\ seeks' = [p \in Partitions |-> 0] /\ UNCHANGED <<committed, position>>
        BY <1>6 DEF crash, processRestarts, ProcessEnds
    <2>. QED
        BY <1>0, <2>1, ClimbEmpty DEF Climbing
<1>7. CASE UNCHANGED vars
    <2>1. UNCHANGED <<committed, position, seeks, decoding, queue>>
        BY <1>7 DEF vars
    <2>. QED
        BY <1>0, <2>1, ClimbFrame
<1>. QED
    BY <1>1, <1>2, <1>3, <1>4, <1>5, <1>6, <1>7 DEF Next

(***************************************************************************)
(* In a safe environment without start offsets no commit takes back an     *)
(* earlier one: safeCommitMessage only ever moves an offset forward,       *)
(* whatever is retried, refused, lost or delivered again, for synchronous  *)
(* and asynchronous consumers.                                             *)
(***************************************************************************)
THEOREM ConsumerCommitsInOrder == FromTheFirst => (Spec => CommitsInOrder)
<1> SUFFICES ASSUME FromTheFirst PROVE Spec => CommitsInOrder
    OBVIOUS
<1>1. Init => Climbing
    <2> SUFFICES ASSUME Init PROVE Climbing
        OBVIOUS
    <2>1. /\ queue = << >> /\ decoding = [p \in Partitions |-> << >>]
          /\ \A p \in Partitions : seeks[p] = 0 /\ committed[p] <= position[p]
        BY DEF Init
    <2>2. 1..Len(queue) = {} /\ \A p \in Partitions : 1..Len(decoding[p]) = {}
        BY <2>1, EmptySeq
    <2>. QED
        BY <2>1, <2>2 DEF Climbing
<1>2. TypeOK /\ NothingIsLost /\ Climbing /\ [Next]_vars => Climbing'
    BY NextClimbing
<1>3. TypeOK /\ NothingIsLost /\ Climbing /\ [Next]_vars
          => [\A p \in Partitions : committed'[p] >= committed[p]]_vars
    BY NextClimbing
<1>4. Spec => [](TypeOK /\ NothingIsLost)
    BY ConsumerLosesNothing DEF FromTheFirst
<1>. QED
    BY <1>1, <1>2, <1>3, <1>4, PTL DEF Spec, CommitsInOrder
=============================================================================
