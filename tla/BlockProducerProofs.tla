------------------------ MODULE BlockProducerProofs -------------------------
(***************************************************************************)
(* Proofs about BlockProducer, for every depth of reorganisations, start   *)
(* block, number of tries and length of the chain, whatever goes wrong and *)
(* however often: its types, and that the checkpoint and the topic skip no *)
(* number without a report as long as no block is produced behind one that *)
(* failed.                                                                 *)
(***************************************************************************)
EXTENDS BlockProducer, SequenceTheorems, TLAPS

\* Blocks are produced one by one, or produceEvent never fails.
SafeProducer == Overlap = 1 \/ "produce" \notin Hazards

-----------------------------------------------------------------------------
(***************************************************************************)
(* The inductive invariant.                                                *)
(***************************************************************************)
\* A number has its report, or is in the first i messages of the buffer, or
\* in the first j of the blocks being produced.
Ahead(m, i, j) ==
    \/ m \in Reported
    \/ \E k \in 1..i : Len(buffer[k]) = m
    \/ \E k \in 1..j : Len(producing[k]) = m

\* Every block on its way follows the numbers before it.
BufferInOrder ==
    \A i \in 1..Len(buffer) :
        \A m \in StartBlock..(Len(buffer[i]) - 1) : Ahead(m, i - 1, 0)

ProducingInOrder ==
    \A i \in 1..Len(producing) :
        \A m \in StartBlock..(Len(producing[i]) - 1) : Ahead(m, Len(buffer), i - 1)

\* So does the block the subscription emits next.
NextInOrder ==
    phase = "running" =>
        \A m \in StartBlock..(nextBlock - 1) : Ahead(m, Len(buffer), Len(producing))

\* Nothing is on its way before the subscription starts and after it ended.
Settled ==
    /\ phase \notin {"running", "stopping"} => producing = << >>
    /\ phase \notin {"running", "stopping", "flushing"} => buffer = << >>
    /\ Len(producing) <= Overlap

\* What is written, and what getStartBlock read, was reported before.
ReportsCovered == \A n \in Reported : Covered(n)

Items(q) == {q[i] : i \in 1..Len(q)}

Recording ==
    db \cup Items(queue) \cup (IF adding.step = "idle" THEN {} ELSE {adding.block})

RecordsCovered == \A b \in Recording : Covered(Len(b))

StartCovered ==
    /\ phase = "comparing" => Covered(Len(stored))
    /\ phase = "walking" /\ ~Falsy(blockNumber) => Covered(blockNumber - 1)

IInv == /\ TypeOK
        /\ BufferInOrder /\ ProducingInOrder /\ NextInOrder
        /\ Settled
        /\ ReportsCovered /\ RecordsCovered /\ StartCovered

-----------------------------------------------------------------------------
(***************************************************************************)
(* Types of the helpers.                                                   *)
(***************************************************************************)
LEMMA EmptyFacts ==
    /\ << >> \in Blocks
    /\ << >> \in Seq(Blocks)
    /\ Len(<< >>) = 0
<1>1. << >> \in Blocks
    BY DEF Blocks
<1>. QED
    BY <1>1, EmptySeq

LEMMA BlockAtFacts ==
    ASSUME head \in Blocks, NEW n \in Nat, n <= Len(head)
    PROVE  BlockAt(n) \in Blocks /\ Len(BlockAt(n)) = n
<1>1. \A i \in 1..n : head[i] \in Nat
    BY ElementOfSeq, LenProperties DEF Blocks
<1>. QED
    BY <1>1, SubSeqProperties DEF BlockAt, Ancestor, Blocks

LEMMA KeptFacts ==
    ASSUME NEW b
    PROVE  Kept(b) \subseteq db
BY DEF Kept

LEMMA FoundFacts ==
    ASSUME NEW n
    PROVE  Found(n) \subseteq db
BY DEF Found, Newest

\* One turn of the loop takes the blocks it leaves and the one it adds from q.
LEMMA TurnFacts ==
    ASSUME NEW q \in Seq(Blocks), processQueue(q)
    PROVE  /\ queue' \in Seq(Blocks)
           /\ adding' \in Waits
           /\ \A i \in 1..Len(queue') : \E k \in 1..Len(q) : queue'[i] = q[k]
           /\ adding'.step # "idle" => \E k \in 1..Len(q) : adding'.block = q[k]
<1>1. CASE q = << >>
    <2>2. adding' = [step |-> "idle", block |-> << >>, tries |-> 0] /\ queue' = << >>
        BY <1>1 DEF processQueue, Idle
    <2>. QED
        BY <2>2, <1>1, EmptyFacts DEF Waits
<1>2. CASE q # << >>
    <2> DEFINE t == Taken(q)
    <2>1. Len(q) \in Nat \ {0}
        BY <1>2, EmptySeq
    <2>2. t \in 1..Len(q)
        BY <2>1, ProducerAssumption DEF Taken
    <2>3. /\ queue' = SubSeq(q, t + 1, Len(q))
          /\ adding' = [step |-> "create", block |-> q[t], tries |-> 0]
        BY <1>2 DEF processQueue
    <2> HIDE DEF t
    <2>4. \A i \in 1..Len(q) : q[i] \in Blocks
        BY ElementOfSeq
    <2>5. /\ SubSeq(q, t + 1, Len(q)) \in Seq(Blocks)
          /\ Len(SubSeq(q, t + 1, Len(q))) <= Len(q) - t
          /\ \A i \in 1..(Len(q) - t) : SubSeq(q, t + 1, Len(q))[i] = q[t + i]
        BY <2>1, <2>2, <2>4, SubSeqProperties
    <2>6. ASSUME NEW i \in 1..Len(queue')
          PROVE  \E k \in 1..Len(q) : queue'[i] = q[k]
        <3>1. Len(queue') \in Nat /\ Len(queue') <= Len(q) - t
            BY <2>3, <2>5, LenProperties
        <3>2. i \in Nat /\ 1 <= i /\ i <= Len(queue')
            BY <3>1
        <3>3. i \in 1..(Len(q) - t) /\ t + i \in 1..Len(q)
            BY <3>1, <3>2, <2>1, <2>2
        <3>. QED
            BY <3>3, <2>3, <2>5
    <2>7. adding' \in Waits /\ adding'.block = q[t]
        BY <2>2, <2>3, <2>4 DEF Waits
    <2>. QED
        BY <2>2, <2>3, <2>5, <2>6, <2>7
<1>. QED
    BY <1>1, <1>2

LEMMA OnErrorFacts ==
    ASSUME TypeOK, NEW forced \in BOOLEAN, onError(forced)
    PROVE  /\ restarting' \in BOOLEAN /\ forceStop' \in BOOLEAN
           /\ phase' \in Phases
           /\ \/ phase' = phase
              \/ phase' = "stopping" /\ phase # "flushing"
           /\ nextBlock' = 0 /\ blockNumber' = NoNumber /\ depth' = 0
           /\ stored' = << >> /\ stored' \in Blocks
BY EmptyFacts DEF onError, TypeOK, Phases

LEMMA ExitFacts ==
    ASSUME Exit
    PROVE  /\ phase' = "down" /\ phase' \in Phases
           /\ restarting' \in BOOLEAN /\ forceStop' \in BOOLEAN
           /\ blockNumber' = NoNumber /\ depth' = 0 /\ nextBlock' = 0
           /\ stored' \in Blocks /\ lastEmitted' \in Blocks
           /\ producing' = << >> /\ buffer' = << >> /\ queue' = << >>
           /\ producing' \in Seq(Blocks) /\ buffer' \in Seq(Blocks)
           /\ queue' \in Seq(Blocks)
           /\ adding' \in Waits /\ adding'.step = "idle"
BY EmptyFacts DEF Exit, Idle, Waits, Phases

LEMMA SubscribeFacts ==
    ASSUME NEW n \in Nat, subscribe(n)
    PROVE  /\ phase' = "running" /\ phase' \in Phases
           /\ restarting' \in BOOLEAN
           /\ nextBlock' = n /\ blockNumber' = NoNumber /\ depth' = 0
           /\ stored' \in Blocks
BY EmptyFacts DEF subscribe, Phases

\* A fault and the tail of a sequence.
LEMMA FaultFacts ==
    ASSUME faults \in Nat, NEW h, Fault(h)
    PROVE  faults' \in Nat /\ h \in Hazards
BY DEF Fault, mayFail

LEMMA TailFacts ==
    ASSUME NEW q \in Seq(Blocks), q # << >>
    PROVE  /\ Len(q) \in Nat \ {0}
           /\ Head(q) = q[1] /\ q[1] \in Blocks
           /\ Tail(q) \in Seq(Blocks)
           /\ Len(Tail(q)) = Len(q) - 1
           /\ \A i \in 1..(Len(q) - 1) : Tail(q)[i] = q[i + 1]
<1>1. Len(q) \in Nat \ {0}
    BY EmptySeq
<1>2. /\ Tail(q) \in Seq(Blocks)
      /\ Len(Tail(q)) = Len(q) - 1
      /\ \A i \in 1..Len(Tail(q)) : Tail(q)[i] = q[i + 1]
    BY HeadTailProperties
<1>3. q[1] \in Blocks
    BY <1>1, ElementOfSeq
<1>. QED
    BY <1>1, <1>2, <1>3

LEMMA AppendFacts ==
    ASSUME NEW q \in Seq(Blocks), NEW b \in Blocks
    PROVE  /\ Append(q, b) \in Seq(Blocks)
           /\ Len(q) \in Nat
           /\ Len(Append(q, b)) = Len(q) + 1
           /\ \A i \in 1..Len(q) : Append(q, b)[i] = q[i]
           /\ Append(q, b)[Len(q) + 1] = b
<1>1. Len(q) \in Nat
    BY LenProperties
<1>2. /\ Append(q, b) \in Seq(Blocks)
      /\ Len(Append(q, b)) = Len(q) + 1
      /\ \A i \in 1..Len(q) : Append(q, b)[i] = q[i]
      /\ Append(q, b)[Len(q) + 1] = b
    BY AppendProperties
<1>. QED
    BY <1>1, <1>2

-----------------------------------------------------------------------------
(***************************************************************************)
(* Type correctness.                                                       *)
(***************************************************************************)
LEMMA InitTypeOK == Init => TypeOK
<1> SUFFICES ASSUME Init PROVE TypeOK
    OBVIOUS
<1>1. head \in Blocks
    <2>1. head = [i \in 1..FirstNumber |-> 0] /\ FirstNumber \in Nat
        BY ProducerAssumption DEF Init
    <2>. QED
        BY <2>1 DEF Blocks
<1>2. DOMAIN topic = {}
    BY EmptyFacts, LenProperties DEF Init
<1>3. adding \in Waits
    BY EmptyFacts DEF Init, Idle, Waits
<1>. QED
    BY <1>1, <1>2, <1>3, EmptyFacts DEF Init, TypeOK, Phases

LEMMA ChainTypeOK ==
    ASSUME TypeOK, Environment
    PROVE  TypeOK'
<1>1. CASE Mine
    <2>1. head # << >> => head[Len(head)] \in Nat
        <3>1. head # << >> => Len(head) \in 1..Len(head)
            BY EmptySeq DEF TypeOK, Blocks
        <3>. QED
            BY <3>1, ElementOfSeq DEF TypeOK, Blocks
    <2>2. head' \in Blocks
        BY <1>1, <2>1, AppendProperties DEF Mine, TypeOK, Blocks
    <2>. QED
        BY <1>1, <2>2 DEF Mine, TypeOK, lifeVars, startVars, subscriptionVars, insertVars
<1>2. CASE Reorganise
    <2>1. PICK d \in 1..MaxReOrgDepth :
              /\ d <= Len(head)
              /\ head' = Ancestor(head, Len(head) - d) \o [i \in 1..(d + 1) |-> forks + 1]
        BY <1>2 DEF Reorganise
    <2>2. d \in Nat /\ forks + 1 \in Nat /\ Len(head) - d \in Nat
        BY <2>1, ProducerAssumption, LenProperties DEF TypeOK, Blocks
    <2>3. Ancestor(head, Len(head) - d) \in Blocks
        <3>1. \A i \in 1..Len(head) : head[i] \in Nat
            BY ElementOfSeq DEF TypeOK, Blocks
        <3>2. \A i \in 1..(Len(head) - d) : head[i] \in Nat
            BY <2>2, <3>1, LenProperties DEF TypeOK, Blocks
        <3>. QED
            BY <2>2, <3>2, SubSeqProperties DEF Ancestor, Blocks
    <2>4. [i \in 1..(d + 1) |-> forks + 1] \in Blocks
        BY <2>2 DEF Blocks
    <2>5. head' \in Blocks
        BY <2>1, <2>3, <2>4, ConcatProperties DEF Blocks
    <2>6. unseen' \in BOOLEAN
        BY <1>2, Zenon DEF Reorganise, Unguarded, TypeOK
    <2>. QED
        BY <1>2, <2>5, <2>6
        DEF Reorganise, TypeOK, lifeVars, startVars, subscriptionVars, insertVars
<1>. QED
    BY <1>1, <1>2 DEF Environment

LEMMA TriedFacts ==
    ASSUME NEW a \in Waits
    PROVE  [a EXCEPT !.step = "create", !.tries = @ + 1] \in Waits
<1>1. [a EXCEPT !.step = "create"] \in Waits
    BY DEF Waits
<1>2. ASSUME NEW c \in Waits PROVE [c EXCEPT !.tries = @ + 1] \in Waits
    BY DEF Waits
<1>3. [a EXCEPT !.step = "create", !.tries = @ + 1]
        = [[a EXCEPT !.step = "create"] EXCEPT !.tries = @ + 1]
    OBVIOUS
<1>. QED
    BY <1>1, <1>2, <1>3

LEMMA InsertTypeOK ==
    ASSUME TypeOK, Insert
    PROVE  TypeOK'
<1> USE DEF TypeOK, chainVars, lifeVars, startVars, subscriptionVars
<1>1. CASE Create
    <2>1. adding' \in Waits /\ adding.block \in Blocks
        BY <1>1 DEF Create, Waits
    <2>. QED
        BY <1>1, <2>1 DEF Create
<1>2. CASE DeleteMany
    <2>1. db' \subseteq Blocks
        BY <1>2, KeptFacts DEF DeleteMany
    <2>2. queue' \in Seq(Blocks) /\ adding' \in Waits
        BY <1>2, TurnFacts DEF DeleteMany
    <2>. QED
        BY <1>2, <2>1, <2>2 DEF DeleteMany
<1>3. CASE AddFails
    <2>1. adding' \in Waits
        <3>1. adding' = [adding EXCEPT !.step = "create", !.tries = @ + 1] \/ adding' = Idle
            BY <1>3 DEF AddFails
        <3>2. Idle \in Waits
            BY EmptyFacts DEF Waits, Idle
        <3>3. [adding EXCEPT !.step = "create", !.tries = @ + 1] \in Waits
            BY TriedFacts
        <3>. QED
            BY <3>1, <3>2, <3>3
    <2>2. adding.block \in Blocks
        BY DEF Waits
    <2>3. db' \subseteq Blocks /\ faults' \in Nat
        <3>1. db' = db \/ db' = Written
            BY <1>3 DEF AddFails
        <3>2. Written \subseteq Blocks
            BY <2>2, KeptFacts DEF Written
        <3>3. faults' \in Nat
            BY <1>3, FaultFacts DEF AddFails
        <3>. QED
            BY <3>1, <3>2, <3>3
    <2>. QED
        BY <1>3, <2>1, <2>3 DEF AddFails
<1>. QED
    BY <1>1, <1>2, <1>3 DEF Insert

LEMMA StartingTypeOK ==
    ASSUME TypeOK, Starting
    PROVE  TypeOK'
<1> USE DEF TypeOK, chainVars, startVars, subscriptionVars, insertVars
<1>1. CASE Start
    BY <1>1 DEF Start, Phases
<1>2. CASE LastProduced
    <2>1. blockNumber' \in Nat \cup {NoNumber}
        <3>1. \A b \in Newest : Len(b) \in Nat
            BY LenProperties DEF Newest, Blocks
        <3>. QED
            BY <1>2, <3>1 DEF LastProduced
    <2>. QED
        BY <1>2, <2>1 DEF LastProduced, Phases
<1>3. CASE Lookup
    <2>1. stored' \in Blocks
        BY <1>3, FoundFacts DEF Lookup
    <2>. QED
        BY <1>3, <2>1 DEF Lookup, Phases
<1>4. ASSUME NEW n \in Nat, subscribe(n),
             UNCHANGED <<chainVars, topic, refused, db, faults, producing, buffer,
                         forceStop, lastEmitted, insertVars>>
      PROVE  TypeOK'
    BY <1>4, SubscribeFacts
<1>5. Len(stored) \in Nat
    BY LenProperties DEF Blocks
<1>6. CASE Unverified
    <2>1. (IF Falsy(blockNumber) THEN StartBlock ELSE blockNumber) \in Nat
        BY ProducerAssumption DEF Falsy
    <2>. QED
        BY <1>6, <2>1, <1>4 DEF Unverified
<1>7. CASE Same
    BY <1>7, <1>5, <1>4 DEF Same
<1>8. CASE Different
    <2>1. blockNumber' \in Nat \cup {NoNumber}
        BY <1>8, <1>5 DEF Different, NoNumber
    <2>. QED
        BY <1>8, <2>1, EmptyFacts DEF Different, Phases
<1>. QED
    BY <1>1, <1>2, <1>3, <1>6, <1>7, <1>8 DEF Starting

LEMMA StoppingTypeOK ==
    ASSUME TypeOK, Stopping
    PROVE  TypeOK'
<1> USE DEF TypeOK, chainVars, startVars, subscriptionVars, insertVars
<1>1. CASE Stop
    BY <1>1, FaultFacts DEF Stop, Phases
<1>2. CASE Disconnect
    BY <1>2 DEF Disconnect, Phases
<1>3. CASE Disconnected
    <2>1. faults' \in Nat
        BY <1>3, FaultFacts DEF Disconnected
    <2>2. CASE Exit
        BY <1>3, <2>1, <2>2, ExitFacts DEF Disconnected
    <2>3. CASE ~forceStop
        BY <1>3, <2>1, <2>3, EmptyFacts DEF Disconnected, Phases
    <2>. QED
        BY <1>3, <2>2, <2>3 DEF Disconnected
<1>. QED
    BY <1>1, <1>2, <1>3 DEF Stopping

LEMMA OnErrorTypeOK ==
    ASSUME TypeOK, NEW forced \in BOOLEAN, onError(forced), faults' \in Nat,
           producing' \in Seq(Blocks), buffer' \in Seq(Blocks),
           UNCHANGED <<chainVars, topic, refused, db, lastEmitted, insertVars>>
    PROVE  TypeOK'
BY OnErrorFacts DEF TypeOK, chainVars, insertVars

LEMMA SubscriptionTypeOK ==
    ASSUME TypeOK, Subscription
    PROVE  TypeOK'
<1> USE DEF TypeOK, chainVars, lifeVars, startVars, insertVars
<1>1. CASE Emit
    <2>1. BlockAt(nextBlock) \in Blocks
        BY <1>1, BlockAtFacts DEF Emit
    <2>2. producing' \in Seq(Blocks)
        BY <1>1, <2>1, AppendFacts DEF Emit
    <2>. QED
        BY <1>1, <2>1, <2>2 DEF Emit
<1>3. CASE ReOrgEncountered
    BY <1>3, OnErrorTypeOK DEF ReOrgEncountered
<1>4. CASE SubscriptionError
    BY <1>4, OnErrorTypeOK, FaultFacts DEF SubscriptionError
<1>. QED
    BY <1>1, <1>3, <1>4 DEF Subscription

\* The number of a block has its report: Kafka takes the block, in the place
\* of an earlier one, or refuses it.
LEMMA DeliveredFacts ==
    ASSUME TypeOK, Delivered \/ DeliveryFails
    PROVE  /\ buffer # << >> /\ buffer' = Tail(buffer)
           /\ Reported' = Reported \cup {Len(buffer[1])}
           /\ DOMAIN topic' \subseteq Nat
           /\ \A n \in DOMAIN topic' : topic'[n] \in Blocks /\ Len(topic'[n]) = n
           /\ refused' \subseteq Nat /\ faults' \in Nat
           /\ Append(queue, buffer[1]) \in Seq(Blocks)
           /\ \/ adding = Idle /\ processQueue(Append(queue, buffer[1]))
              \/ queue' = Append(queue, buffer[1]) /\ UNCHANGED adding
           /\ queue' \in Seq(Blocks) /\ adding' \in Waits
           /\ UNCHANGED <<chainVars, db, producing, lifeVars, startVars, subscriptionVars>>
<1> DEFINE b == buffer[1]
<1>1. buffer # << >> /\ Head(buffer) = b /\ b \in Blocks
    BY TailFacts DEF Delivered, DeliveryFails, onDelivered, TypeOK
<1>2. Len(b) \in Nat
    BY <1>1, LenProperties DEF Blocks
<1>3. /\ buffer' = Tail(buffer)
      /\ \/ adding = Idle /\ processQueue(Append(queue, b))
         \/ queue' = Append(queue, b) /\ UNCHANGED adding
      /\ UNCHANGED <<chainVars, db, producing, lifeVars, startVars, subscriptionVars>>
    BY <1>1 DEF Delivered, DeliveryFails, onDelivered
<1>4. Append(queue, b) \in Seq(Blocks)
    BY <1>1, AppendFacts DEF TypeOK
<1>5. queue' \in Seq(Blocks) /\ adding' \in Waits
    BY <1>3, <1>4, TurnFacts DEF TypeOK
<1>6. /\ Reported' = Reported \cup {Len(b)}
      /\ DOMAIN topic' \subseteq Nat
      /\ \A n \in DOMAIN topic' : topic'[n] \in Blocks /\ Len(topic'[n]) = n
      /\ refused' \subseteq Nat /\ faults' \in Nat
    <2>1. CASE Delivered
        <3>1. /\ topic' = [n \in DOMAIN topic \cup {Len(b)} |->
                              IF n = Len(b) THEN b ELSE topic[n]]
              /\ refused' = refused \ {Len(b)} /\ UNCHANGED faults
            BY <1>1, <2>1 DEF Delivered
        <3>2. DOMAIN topic' = DOMAIN topic \cup {Len(b)}
            BY <3>1
        <3>3. \A n \in DOMAIN topic' : topic'[n] \in Blocks /\ Len(topic'[n]) = n
            BY <1>1, <3>1, <3>2 DEF TypeOK
        <3>4. UNCHANGED faults
            BY <2>1 DEF Delivered
        <3>. QED
            BY <1>2, <3>1, <3>2, <3>3, <3>4 DEF TypeOK, Reported
    <2>2. CASE DeliveryFails
        <3>1. refused' = refused \cup {Len(b)} /\ UNCHANGED topic /\ faults' \in Nat
            BY <1>1, <2>2, FaultFacts DEF DeliveryFails, TypeOK
        <3>. QED
            BY <1>2, <3>1 DEF TypeOK, Reported
    <2>. QED
        BY <2>1, <2>2
<1>. QED
    BY <1>1, <1>3, <1>4, <1>5, <1>6

LEMMA ProducingTypeOK ==
    ASSUME TypeOK, Produced \/ Delivered \/ DeliveryFails
    PROVE  TypeOK'
<1> USE DEF TypeOK, chainVars, lifeVars, startVars, subscriptionVars, insertVars
<1>1. CASE Produced
    <2>1. buffer' \in Seq(Blocks) /\ producing' \in Seq(Blocks)
        BY <1>1, TailFacts, AppendFacts DEF Produced
    <2>. QED
        BY <1>1, <2>1 DEF Produced
<1>2. CASE Delivered \/ DeliveryFails
    <2>1. buffer' \in Seq(Blocks)
        BY <1>2, DeliveredFacts, TailFacts
    <2>. QED
        BY <1>2, <2>1, DeliveredFacts
<1>. QED
    BY <1>1, <1>2

LEMMA FailureTypeOK ==
    ASSUME TypeOK, Failure
    PROVE  TypeOK'
<1> USE DEF TypeOK, chainVars, insertVars
<1>1. CASE Crash
    BY <1>1, ExitFacts, FaultFacts DEF Crash
<1>2. CASE ConnectFails
    BY <1>2, ExitFacts, FaultFacts DEF ConnectFails
<1>3. CASE LookupFails
    <2>1. faults' \in Nat
        BY <1>3, FaultFacts DEF LookupFails
    <2>2. CASE Exit
        BY <1>3, <2>1, <2>2, ExitFacts DEF LookupFails
    <2>3. CASE onError(FALSE) /\ UNCHANGED <<producing, buffer, lastEmitted, insertVars>>
        BY <1>3, <2>1, <2>3, OnErrorTypeOK DEF LookupFails
    <2>. QED
        BY <1>3, <2>2, <2>3 DEF LookupFails
<1>4. CASE ProduceFails
    <2>1. producing' \in Seq(Blocks) /\ faults' \in Nat
        BY <1>4, TailFacts, FaultFacts DEF ProduceFails
    <2>. QED
        BY <1>4, <2>1, OnErrorTypeOK DEF ProduceFails
<1>5. CASE NoPartition
    <2>1. producing' \in Seq(Blocks) /\ buffer' \in Seq(Blocks) /\ faults' \in Nat
        BY <1>5, EmptyFacts, FaultFacts DEF NoPartition
    <2>. QED
        BY <1>5, <2>1, OnErrorTypeOK DEF NoPartition
<1>. QED
    BY <1>1, <1>2, <1>3, <1>4, <1>5 DEF Failure

LEMMA StutterTypeOK ==
    ASSUME TypeOK, UNCHANGED vars
    PROVE  TypeOK'
BY DEF TypeOK, vars

LEMMA NextTypeOK == TypeOK /\ [Next]_vars => TypeOK'
BY ChainTypeOK, InsertTypeOK, StartingTypeOK, StoppingTypeOK, SubscriptionTypeOK,
   ProducingTypeOK, FailureTypeOK, StutterTypeOK DEF Next

(***************************************************************************)
(* The state of the producer, its client and its collection is well formed *)
(* after any sequence of failures, restarts and reorganisations; among     *)
(* other things, the subscription never starts at a negative number,       *)
(* although getStartBlock walks back one number at a time.                 *)
(***************************************************************************)
THEOREM ProducerTypeOK == Spec => []TypeOK
BY InitTypeOK, NextTypeOK, PTL DEF Spec

-----------------------------------------------------------------------------
(***************************************************************************)
(* The blocks on their way to the topic are in order.                      *)
(***************************************************************************)
InOrder == BufferInOrder /\ ProducingInOrder /\ NextInOrder /\ Settled

USE DEF Reported

\* What is not touched stays in order.
LEMMA WayKept ==
    ASSUME BufferInOrder, ProducingInOrder, UNCHANGED <<topic, refused, buffer, producing>>
    PROVE  BufferInOrder' /\ ProducingInOrder'
BY DEF BufferInOrder, ProducingInOrder, Ahead

\* No block is on its way.
LEMMA WayEmpty ==
    ASSUME producing = << >>, buffer = << >>
    PROVE  BufferInOrder /\ ProducingInOrder
BY EmptyFacts DEF BufferInOrder, ProducingInOrder

LEMMA WayEmptyPrime ==
    ASSUME producing' = << >>, buffer' = << >>
    PROVE  BufferInOrder' /\ ProducingInOrder'
BY EmptyFacts DEF BufferInOrder, ProducingInOrder

\* The subscription has stopped, or counts from zero.
LEMMA NoNext ==
    ASSUME phase' # "running" \/ nextBlock' = 0
    PROVE  NextInOrder'
BY ProducerAssumption DEF NextInOrder

LEMMA InitInOrder == Init => InOrder
BY EmptyFacts, WayEmpty, ProducerAssumption DEF Init, InOrder, NextInOrder, Settled

LEMMA StartingInOrder ==
    ASSUME IInv, Starting
    PROVE  InOrder'
<1>1. /\ phase \in {"down", "stopped", "starting", "first", "walking", "comparing"}
      /\ UNCHANGED <<topic, refused, producing, buffer>>
    BY DEF Starting, Start, LastProduced, Lookup, Unverified, Same, Different
<1>2. producing = << >> /\ buffer = << >>
    BY <1>1 DEF IInv, Settled
<1>3. BufferInOrder' /\ ProducingInOrder'
    BY <1>1, WayKept DEF IInv
<1>4. Settled'
    BY <1>1, <1>2, EmptyFacts, ProducerAssumption DEF Settled
<1> SUFFICES NextInOrder'
    BY <1>3, <1>4 DEF InOrder
<1>5. ASSUME NEW n \in Nat, subscribe(n), Covered(n - 1)
      PROVE  NextInOrder'
    BY <1>1, <1>5 DEF NextInOrder, Ahead, Covered, subscribe
<1>6. Len(stored) \in Nat
    BY LenProperties DEF IInv, TypeOK, Blocks
<1>7. CASE Unverified
    <2> DEFINE n == IF Falsy(blockNumber) THEN StartBlock ELSE blockNumber
    <2>1. n \in Nat
        BY ProducerAssumption DEF Falsy, IInv, TypeOK
    <2>2. Covered(n - 1)
        <3>1. CASE Falsy(blockNumber)
            BY <3>1, ProducerAssumption DEF Covered
        <3>2. CASE ~Falsy(blockNumber)
            BY <1>7, <3>2 DEF IInv, StartCovered, Unverified
        <3>. QED
            BY <3>1, <3>2
    <2>. QED
        BY <1>5, <1>7, <2>1, <2>2 DEF Unverified
<1>8. CASE Same
    <2>1. Covered((Len(stored) + 1) - 1)
        BY <1>6, <1>8 DEF IInv, StartCovered, Same, Covered
    <2>. QED
        BY <1>5, <1>6, <1>8, <2>1 DEF Same
<1>9. CASE Start \/ LastProduced \/ Lookup \/ Different
    BY <1>9, NoNext DEF Start, LastProduced, Lookup, Different
<1>. QED
    BY <1>7, <1>8, <1>9 DEF Starting

\* The blocks and the next number stay: only the phase may leave "running".
LEMMA PhaseInOrder ==
    ASSUME IInv, UNCHANGED <<topic, refused, producing, buffer>>,
           \/ UNCHANGED <<phase, nextBlock>>
           \/ phase' = "stopping"
           \/ /\ phase' = "flushing"
              /\ producing = << >>
    PROVE  InOrder'
<1>1. BufferInOrder' /\ ProducingInOrder'
    BY WayKept DEF IInv
<1>2. NextInOrder'
    <2>1. CASE UNCHANGED <<phase, nextBlock>>
        BY <2>1 DEF IInv, NextInOrder, Ahead
    <2>. QED
        BY <2>1, NoNext
<1>3. Settled'
    BY DEF IInv, Settled
<1>. QED
    BY <1>1, <1>2, <1>3 DEF InOrder

\* Nothing is on its way any more.
LEMMA DroppedInOrder ==
    ASSUME producing' = << >>, buffer' = << >>, phase' # "running" \/ nextBlock' = 0
    PROVE  InOrder'
<1>1. Settled'
    BY EmptyFacts, ProducerAssumption DEF Settled
<1>. QED
    BY <1>1, WayEmptyPrime, NoNext DEF InOrder

LEMMA OnErrorInOrder ==
    ASSUME IInv, NEW forced \in BOOLEAN, onError(forced),
           UNCHANGED <<topic, refused, producing, buffer>>
    PROVE  InOrder'
<1>1. /\ \/ phase' = phase
         \/ phase' = "stopping" /\ phase # "flushing"
      /\ nextBlock' = 0
    BY OnErrorFacts DEF IInv
<1>2. BufferInOrder' /\ ProducingInOrder'
    BY WayKept DEF IInv
<1>3. Settled'
    BY <1>1 DEF IInv, Settled
<1>. QED
    BY <1>1, <1>2, <1>3, NoNext DEF InOrder

LEMMA StoppingInOrder ==
    ASSUME IInv, Stopping
    PROVE  InOrder'
<1>1. CASE Stop
    BY <1>1, PhaseInOrder DEF Stop
<1>2. CASE Disconnect
    BY <1>2, PhaseInOrder DEF Disconnect
<1>3. CASE Disconnected
    <2>1. CASE Exit
        BY <2>1, ExitFacts, DroppedInOrder
    <2>2. CASE ~forceStop
        <3>1. producing' = << >> /\ buffer' = << >> /\ phase' # "running"
            BY <1>3, <2>2 DEF Disconnected, IInv, Settled
        <3>. QED
            BY <3>1, DroppedInOrder
    <2>. QED
        BY <1>3, <2>1, <2>2 DEF Disconnected
<1>. QED
    BY <1>1, <1>2, <1>3 DEF Stopping

LEMMA EmitInOrder ==
    ASSUME IInv, Emit
    PROVE  InOrder'
<1> DEFINE b == BlockAt(nextBlock)
<1>1. /\ phase = "running" /\ UNCHANGED <<phase, topic, refused, buffer>>
      /\ nextBlock <= Len(head) /\ Len(producing) < Overlap
      /\ producing' = Append(producing, b)
      /\ nextBlock' = nextBlock + 1
    BY DEF Emit, lifeVars
<1>2. b \in Blocks /\ Len(b) = nextBlock
    BY <1>1, BlockAtFacts DEF IInv, TypeOK
<1>3. nextBlock \in Nat /\ buffer \in Seq(Blocks) /\ producing \in Seq(Blocks)
    BY DEF IInv, TypeOK
<1> HIDE DEF b
<1>4. PICK l \in Nat : l = Len(producing)
    BY <1>3, LenProperties
<1>5. /\ Len(producing') = l + 1
      /\ \A i \in 1..l : producing'[i] = producing[i]
      /\ producing'[l + 1] = b
    BY <1>1, <1>2, <1>3, <1>4, AppendFacts
<1>6. Len(buffer) \in Nat
    BY <1>3, LenProperties
<1>7. ASSUME NEW m, NEW i, NEW j \in 0..l, Ahead(m, i, j)
      PROVE  Ahead(m, i, j)'
    BY <1>1, <1>5, <1>7 DEF Ahead
<1>8. BufferInOrder'
    BY <1>1, <1>7 DEF IInv, BufferInOrder, Ahead
<1>9. ProducingInOrder'
    <2>1. ASSUME NEW i \in 1..(l + 1), NEW m \in StartBlock..(Len(producing'[i]) - 1)
          PROVE  Ahead(m, Len(buffer), i - 1)'
        <3>1. CASE i = l + 1
            <4>1. m \in StartBlock..(nextBlock - 1)
                BY <3>1, <1>5, <1>2
            <4>2. Ahead(m, Len(buffer), l)
                BY <4>1, <1>1, <1>4 DEF IInv, NextInOrder
            <4>. QED
                BY <4>2, <3>1, <1>1, <1>4, <1>5 DEF Ahead
        <3>2. CASE i \in 1..l
            <4>1. Ahead(m, Len(buffer), i - 1)
                BY <3>2, <1>4, <1>5 DEF IInv, ProducingInOrder
            <4>. QED
                BY <4>1, <3>2, <1>1, <1>4, <1>5 DEF Ahead
        <3>. QED
            BY <3>1, <3>2
    <2>. QED
        BY <2>1, <1>5 DEF ProducingInOrder
<1>10. NextInOrder'
    <2>1. ASSUME NEW m \in StartBlock..nextBlock
          PROVE  Ahead(m, Len(buffer), Len(producing))'
        <3>1. CASE m = nextBlock
            <4>1. l + 1 \in 1..(l + 1) /\ Len(producing'[l + 1]) = m
                BY <3>1, <1>5, <1>2
            <4>. QED
                BY <4>1, <1>5 DEF Ahead
        <3>2. CASE m \in StartBlock..(nextBlock - 1)
            <4>1. Ahead(m, Len(buffer), l)
                BY <3>2, <1>1, <1>4 DEF IInv, NextInOrder
            <4>. QED
                BY <4>1, <1>1, <1>4, <1>5 DEF Ahead
        <3>. QED
            BY <3>1, <3>2, <1>3, ProducerAssumption
    <2>2. \A m \in StartBlock..(nextBlock' - 1) : m \in StartBlock..nextBlock
        BY <1>1, <1>3, ProducerAssumption
    <2>. QED
        BY <2>1, <2>2 DEF NextInOrder
<1>11. Settled'
    BY <1>1, <1>4, <1>5, ProducerAssumption DEF IInv, Settled
<1>. QED
    BY <1>8, <1>9, <1>10, <1>11 DEF InOrder

\* The first of the blocks being produced becomes the last of the buffer.
LEMMA ProducedInOrder ==
    ASSUME IInv, Produced
    PROVE  InOrder'
<1>1. /\ producing # << >>
      /\ buffer' = Append(buffer, Head(producing))
      /\ producing' = Tail(producing)
      /\ UNCHANGED <<topic, refused, phase, nextBlock>>
    BY DEF Produced, lifeVars, subscriptionVars
<1>2. buffer \in Seq(Blocks) /\ producing \in Seq(Blocks) /\ nextBlock \in Nat
    BY DEF IInv, TypeOK
<1>3. PICK l \in Nat, n \in Nat \ {0} : l = Len(buffer) /\ n = Len(producing)
    BY <1>1, <1>2, LenProperties, EmptySeq
<1>4. Head(producing) = producing[1] /\ producing[1] \in Blocks
    BY <1>1, <1>2, TailFacts
<1>5. /\ Len(buffer') = l + 1
      /\ \A i \in 1..l : buffer'[i] = buffer[i]
      /\ buffer'[l + 1] = producing[1]
    BY <1>1, <1>2, <1>3, <1>4, AppendFacts
<1>6. /\ Len(producing') = n - 1
      /\ \A i \in 1..(n - 1) : producing'[i] = producing[i + 1]
    BY <1>1, <1>2, <1>3, TailFacts
<1>7. ASSUME NEW m, NEW i \in 0..l, Ahead(m, i, 0)
      PROVE  Ahead(m, i, 0)'
    BY <1>1, <1>5, <1>7 DEF Ahead
<1>8. ASSUME NEW m, NEW j \in 1..n, Ahead(m, l, j)
      PROVE  /\ m \in Reported'
                \/ (\E k \in 1..(l + 1) : Len(buffer'[k]) = m)
                \/ (\E k \in 1..(j - 1) : Len(producing'[k]) = m)
    <2>1. CASE m \in Reported
        BY <2>1, <1>1
    <2>2. CASE \E k \in 1..l : Len(buffer[k]) = m
        BY <2>2, <1>5
    <2>3. CASE \E k \in 1..j : Len(producing[k]) = m
        <3>1. PICK k \in 1..j : Len(producing[k]) = m
            BY <2>3
        <3>2. CASE k = 1
            BY <3>1, <3>2, <1>5
        <3>3. CASE k # 1
            <4>1. k - 1 \in 1..(j - 1) /\ k - 1 \in 1..(n - 1) /\ (k - 1) + 1 = k
                BY <3>3
            <4>. QED
                BY <3>1, <4>1, <1>6
        <3>. QED
            BY <3>2, <3>3
    <2>. QED
        BY <1>8, <2>1, <2>2, <2>3 DEF Ahead
<1>9. BufferInOrder'
    <2>1. ASSUME NEW i \in 1..(l + 1), NEW m \in StartBlock..(Len(buffer'[i]) - 1)
          PROVE  Ahead(m, i - 1, 0)'
        <3>1. CASE i = l + 1
            <4>1. m \in StartBlock..(Len(producing[1]) - 1)
                BY <3>1, <1>5
            <4>2. Ahead(m, l, 0)
                BY <4>1, <1>3 DEF IInv, ProducingInOrder
            <4>. QED
                BY <4>2, <3>1, <1>7
        <3>2. CASE i \in 1..l
            <4>1. Ahead(m, i - 1, 0)
                BY <3>2, <1>3, <1>5 DEF IInv, BufferInOrder
            <4>. QED
                BY <4>1, <3>2, <1>7
        <3>. QED
            BY <3>1, <3>2
    <2>. QED
        BY <2>1, <1>5 DEF BufferInOrder
<1>10. ProducingInOrder'
    <2>1. ASSUME NEW i \in 1..(n - 1), NEW m \in StartBlock..(Len(producing'[i]) - 1)
          PROVE  Ahead(m, Len(buffer), i - 1)'
        <3>1. i + 1 \in 1..n /\ m \in StartBlock..(Len(producing[i + 1]) - 1)
            BY <1>6
        <3>2. Ahead(m, l, (i + 1) - 1)
            BY <3>1, <1>3 DEF IInv, ProducingInOrder
        <3>3. Ahead(m, l, i) /\ i \in 1..n
            BY <3>2
        <3>. QED
            BY <3>3, <1>5, <1>8 DEF Ahead
    <2>. QED
        BY <2>1, <1>6 DEF ProducingInOrder
<1>11. NextInOrder'
    <2>1. ASSUME phase = "running", NEW m \in StartBlock..(nextBlock - 1)
          PROVE  Ahead(m, Len(buffer), Len(producing))'
        <3>1. Ahead(m, l, n) /\ n \in 1..n
            BY <2>1, <1>3 DEF IInv, NextInOrder
        <3>2. \/ m \in Reported'
              \/ \E k \in 1..(l + 1) : Len(buffer'[k]) = m
              \/ \E k \in 1..(n - 1) : Len(producing'[k]) = m
            BY <3>1, <1>8
        <3>. QED
            BY <3>2, <1>5, <1>6 DEF Ahead
    <2>. QED
        BY <2>1, <1>1 DEF NextInOrder
<1>12. Settled'
    BY <1>1, <1>3, <1>6, ProducerAssumption DEF IInv, Settled
<1>. QED
    BY <1>9, <1>10, <1>11, <1>12 DEF InOrder

\* The first message of the buffer arrives in the topic.
LEMMA DeliveredInOrder ==
    ASSUME IInv, Delivered \/ DeliveryFails
    PROVE  InOrder'
<1>1. /\ buffer # << >> /\ buffer' = Tail(buffer)
      /\ Reported' = Reported \cup {Len(buffer[1])}
      /\ UNCHANGED <<producing, phase, nextBlock>>
    BY DeliveredFacts DEF lifeVars, subscriptionVars, IInv
<1>2. buffer \in Seq(Blocks) /\ producing \in Seq(Blocks)
    BY DEF IInv, TypeOK
<1>3. PICK l \in Nat \ {0} : l = Len(buffer)
    BY <1>1, <1>2, EmptySeq
<1>4. /\ Len(buffer') = l - 1
      /\ \A i \in 1..(l - 1) : buffer'[i] = buffer[i + 1]
    BY <1>1, <1>2, <1>3, TailFacts
<1>5. ASSUME NEW m, NEW i \in 1..l, NEW j \in Nat, Ahead(m, i, j)
      PROVE  \/ m \in Reported'
             \/ \E k \in 1..(i - 1) : Len(buffer'[k]) = m
             \/ \E k \in 1..j : Len(producing'[k]) = m
    <2>1. CASE m \in Reported
        BY <2>1, <1>1
    <2>2. CASE \E k \in 1..i : Len(buffer[k]) = m
        <3>1. PICK k \in 1..i : Len(buffer[k]) = m
            BY <2>2
        <3>2. CASE k = 1
            BY <3>1, <3>2, <1>1
        <3>3. CASE k # 1
            <4>1. k - 1 \in 1..(i - 1) /\ k - 1 \in 1..(l - 1) /\ (k - 1) + 1 = k
                BY <3>3
            <4>. QED
                BY <3>1, <4>1, <1>4
        <3>. QED
            BY <3>2, <3>3
    <2>3. CASE \E k \in 1..j : Len(producing[k]) = m
        BY <2>3, <1>1
    <2>. QED
        BY <1>5, <2>1, <2>2, <2>3 DEF Ahead
<1>6. BufferInOrder'
    <2>1. ASSUME NEW i \in 1..(l - 1), NEW m \in StartBlock..(Len(buffer'[i]) - 1)
          PROVE  Ahead(m, i - 1, 0)'
        <3>1. i + 1 \in 1..l /\ m \in StartBlock..(Len(buffer[i + 1]) - 1)
            BY <1>4
        <3>2. Ahead(m, (i + 1) - 1, 0)
            BY <3>1, <1>3 DEF IInv, BufferInOrder
        <3>3. Ahead(m, i, 0) /\ i \in 1..l
            BY <3>2
        <3>. QED
            BY <3>3, <1>5 DEF Ahead
    <2>. QED
        BY <2>1, <1>4 DEF BufferInOrder
<1>7. ProducingInOrder'
    <2>1. ASSUME NEW i \in 1..Len(producing), NEW m \in StartBlock..(Len(producing[i]) - 1)
          PROVE  Ahead(m, Len(buffer), i - 1)'
        <3>1. Ahead(m, l, i - 1) /\ l \in 1..l /\ i - 1 \in Nat
            BY <1>2, <1>3, LenProperties DEF IInv, ProducingInOrder
        <3>2. \/ m \in Reported'
              \/ \E k \in 1..(l - 1) : Len(buffer'[k]) = m
              \/ \E k \in 1..(i - 1) : Len(producing'[k]) = m
            BY <3>1, <1>5
        <3>. QED
            BY <3>2, <1>4 DEF Ahead
    <2>. QED
        BY <2>1, <1>1 DEF ProducingInOrder
<1>8. NextInOrder'
    <2>1. ASSUME phase = "running", NEW m \in StartBlock..(nextBlock - 1)
          PROVE  Ahead(m, Len(buffer), Len(producing))'
        <3>1. Ahead(m, l, Len(producing)) /\ l \in 1..l /\ Len(producing) \in Nat
            BY <2>1, <1>2, <1>3, LenProperties DEF IInv, NextInOrder
        <3>2. \/ m \in Reported'
              \/ \E k \in 1..(l - 1) : Len(buffer'[k]) = m
              \/ \E k \in 1..Len(producing) : Len(producing'[k]) = m
            BY <3>1, <1>5
        <3>. QED
            BY <3>2, <1>1, <1>4 DEF Ahead
    <2>. QED
        BY <2>1, <1>1 DEF NextInOrder
<1>9. Settled'
    BY <1>1 DEF IInv, Settled
<1>. QED
    BY <1>6, <1>7, <1>8, <1>9 DEF InOrder

\* Where a failure drops a block from the middle, nothing is behind it.
LEMMA ProduceFailsInOrder ==
    ASSUME IInv, SafeProducer, ProduceFails
    PROVE  InOrder'
<1>1. /\ producing # << >> /\ producing' = Tail(producing)
      /\ onError(FALSE) /\ UNCHANGED <<topic, refused, buffer>>
      /\ "produce" \in Hazards
    BY DEF ProduceFails, Fault, mayFail
<1>2. producing' = << >>
    <2>1. Len(producing) = 1
        <3>1. Overlap = 1 /\ Len(producing) <= Overlap
            BY <1>1 DEF SafeProducer, IInv, Settled
        <3>2. PICK n \in Nat \ {0} : n = Len(producing)
            BY <1>1, EmptySeq DEF IInv, TypeOK
        <3>3. n <= 1
            BY <3>1, <3>2
        <3>. QED
            BY <3>2, <3>3
    <2>2. producing' \in Seq(Blocks) /\ Len(producing') = 0
        BY <1>1, <2>1, TailFacts DEF IInv, TypeOK
    <2>. QED
        BY <2>2, EmptySeq
<1>3. /\ \/ phase' = phase
         \/ phase' = "stopping" /\ phase # "flushing"
      /\ nextBlock' = 0
    BY <1>1, OnErrorFacts DEF IInv
<1>4. BufferInOrder'
    BY <1>1 DEF IInv, BufferInOrder, Ahead
<1>5. ProducingInOrder'
    BY <1>2, EmptyFacts DEF ProducingInOrder
<1>6. Settled'
    BY <1>1, <1>2, <1>3, EmptyFacts, ProducerAssumption DEF IInv, Settled
<1>. QED
    BY <1>3, <1>4, <1>5, <1>6, NoNext DEF InOrder

LEMMA FailureInOrder ==
    ASSUME IInv, SafeProducer, Failure
    PROVE  InOrder'
<1>1. CASE Crash
    BY <1>1, ExitFacts, DroppedInOrder DEF Crash
<1>2. CASE ConnectFails
    BY <1>2, ExitFacts, DroppedInOrder DEF ConnectFails
<1>3. CASE LookupFails
    <2>1. CASE Exit
        BY <2>1, ExitFacts, DroppedInOrder
    <2>2. CASE onError(FALSE) /\ UNCHANGED <<producing, buffer, lastEmitted, insertVars>>
        BY <1>3, <2>2, OnErrorInOrder DEF LookupFails
    <2>. QED
        BY <1>3, <2>1, <2>2 DEF LookupFails
<1>4. CASE ProduceFails
    BY <1>4, ProduceFailsInOrder
<1>5. CASE NoPartition
    BY <1>5, OnErrorFacts, DroppedInOrder DEF NoPartition, IInv
<1>. QED
    BY <1>1, <1>2, <1>3, <1>4, <1>5 DEF Failure

LEMMA NextBlocksInOrder ==
    ASSUME IInv, SafeProducer, [Next]_vars
    PROVE  InOrder'
<1>1. CASE Environment
    BY <1>1, PhaseInOrder
    DEF Environment, Mine, Reorganise, lifeVars, subscriptionVars
<1>2. CASE Insert
    BY <1>2, PhaseInOrder
    DEF Insert, Create, DeleteMany, AddFails, lifeVars, subscriptionVars
<1>3. CASE Subscription
    <2>1. CASE ReOrgEncountered
        BY <2>1, OnErrorInOrder DEF ReOrgEncountered
    <2>2. CASE SubscriptionError
        BY <2>2, OnErrorInOrder DEF SubscriptionError
    <2>. QED
        BY <1>3, <2>1, <2>2, EmitInOrder DEF Subscription
<1>4. CASE UNCHANGED vars
    BY <1>4, PhaseInOrder DEF vars
<1>. QED
    BY <1>1, <1>2, <1>3, <1>4, StartingInOrder, StoppingInOrder, ProducedInOrder,
       DeliveredInOrder, FailureInOrder DEF Next

-----------------------------------------------------------------------------
(***************************************************************************)
(* What was recorded, or is being compared, was reported before.           *)
(***************************************************************************)
Recorded == ReportsCovered /\ RecordsCovered /\ StartCovered

LEMMA InitRecorded == Init => Recorded
<1> SUFFICES ASSUME Init PROVE Recorded
    OBVIOUS
<1>1. Reported = {} /\ Len(queue) = 0
    BY EmptyFacts, LenProperties DEF Init, Reported
<1>2. Recording = {}
    BY <1>1 DEF Init, Recording, Items, Idle
<1>. QED
    BY <1>1, <1>2 DEF Init, Recorded, ReportsCovered, RecordsCovered, StartCovered

\* The topic and what is to be recorded stay, or less is.
LEMMA RecordsKept ==
    ASSUME ReportsCovered, RecordsCovered, UNCHANGED <<topic, refused>>, Recording' \subseteq Recording
    PROVE  ReportsCovered' /\ RecordsCovered'
BY DEF ReportsCovered, RecordsCovered, Covered

\* getStartBlock goes on, or it is over.
LEMMA StartKept ==
    ASSUME StartCovered, UNCHANGED <<topic, refused>>,
           \/ UNCHANGED <<phase, blockNumber, stored>>
           \/ phase' \notin {"walking", "comparing"}
    PROVE  StartCovered'
BY DEF StartCovered, Covered, Falsy

\* A turn of processQueue takes what it records from its queue.
LEMMA TurnRecording ==
    ASSUME NEW q \in Seq(Blocks), processQueue(q)
    PROVE  Recording' \subseteq db' \cup Items(q)
<1>1. /\ \A i \in 1..Len(queue') : \E k \in 1..Len(q) : queue'[i] = q[k]
      /\ adding'.step # "idle" => \E k \in 1..Len(q) : adding'.block = q[k]
    BY TurnFacts
<1>. QED
    BY <1>1 DEF Recording, Items

LEMMA InsertRecorded ==
    ASSUME IInv, Insert
    PROVE  Recorded'
<1>1. UNCHANGED <<topic, refused, phase, blockNumber, stored>>
    BY DEF Insert, Create, DeleteMany, AddFails, lifeVars, startVars
<1>2. CASE Create
    <2>1. /\ adding.step = "create" /\ adding'.block = adding.block
          /\ db' = db \cup {adding.block} /\ queue' = queue
        BY <1>2 DEF Create, IInv, TypeOK, Waits
    <2>. QED
        BY <2>1, <1>1, RecordsKept, StartKept DEF Recording, IInv, Recorded
<1>3. CASE DeleteMany
    <2>1. db' \subseteq db /\ processQueue(queue) /\ queue \in Seq(Blocks)
        BY <1>3, KeptFacts DEF DeleteMany, IInv, TypeOK
    <2>2. Recording' \subseteq db' \cup Items(queue)
        BY <2>1, TurnRecording
    <2>3. Recording' \subseteq Recording
        BY <2>1, <2>2 DEF Recording
    <2>. QED
        BY <2>3, <1>1, RecordsKept, StartKept DEF IInv, Recorded
<1>4. CASE AddFails
    <2>1. /\ adding.step # "idle" /\ queue' = queue
          /\ db' = db \/ db' = Written
        BY <1>4 DEF AddFails
    <2>2. db' \subseteq db \cup {adding.block}
        BY <2>1, KeptFacts DEF Written
    <2>3. adding'.step = "idle" \/ adding'.block = adding.block
        BY <1>4 DEF AddFails, Idle, IInv, TypeOK, Waits
    <2>4. Recording' \subseteq Recording
        BY <2>1, <2>2, <2>3 DEF Recording
    <2>. QED
        BY <2>4, <1>1, RecordsKept, StartKept DEF IInv, Recorded
<1>. QED
    BY <1>2, <1>3, <1>4 DEF Insert

LEMMA StartingRecorded ==
    ASSUME IInv, Starting
    PROVE  Recorded'
<1>1. UNCHANGED <<topic, refused, db, queue, adding>>
    BY DEF Starting, Start, LastProduced, Lookup, Unverified, Same, Different, insertVars
<1>2. ReportsCovered' /\ RecordsCovered'
    BY <1>1, RecordsKept DEF IInv, Recording
<1>3. \A b \in db : Len(b) \in Nat /\ Covered(Len(b))
    BY LenProperties DEF IInv, TypeOK, Blocks, RecordsCovered, Recording
<1>4. StartCovered'
    <2>1. CASE Start
        BY <2>1, <1>1, StartKept DEF Start, IInv
    <2>2. CASE LastProduced
        <3>1. phase' = "walking"
              /\ (blockNumber' = NoNumber \/ \E b \in db : blockNumber' = Len(b))
            BY <2>2 DEF LastProduced, Newest
        <3>. QED
            BY <3>1, <1>1, <1>3 DEF StartCovered, Covered, Falsy
    <2>3. CASE Lookup
        <3>1. phase' = "comparing" /\ stored' \in db
            BY <2>3, FoundFacts DEF Lookup
        <3>. QED
            BY <3>1, <1>1, <1>3 DEF StartCovered, Covered
    <2>4. CASE Unverified
        BY <2>4, <1>1, StartKept DEF Unverified, subscribe, IInv
    <2>5. CASE Same
        BY <2>5, <1>1, StartKept DEF Same, subscribe, IInv
    <2>6. CASE Different
        <3>1. Len(stored) \in Nat /\ Covered(Len(stored))
            BY <2>6, LenProperties DEF Different, IInv, TypeOK, Blocks, StartCovered
        <3>2. phase' = "walking" /\ blockNumber' = Len(stored) - 1
            BY <2>6 DEF Different
        <3>. QED
            BY <3>1, <3>2, <1>1 DEF StartCovered, Covered
    <2>. QED
        BY <2>1, <2>2, <2>3, <2>4, <2>5, <2>6 DEF Starting
<1>. QED
    BY <1>2, <1>4 DEF Recorded

LEMMA ExitRecorded ==
    ASSUME IInv, Exit, UNCHANGED <<topic, refused, db>>
    PROVE  Recorded'
<1>1. Recording' \subseteq Recording /\ phase' = "down"
    BY ExitFacts, EmptyFacts DEF Recording, Items
<1>. QED
    BY <1>1, RecordsKept, StartKept DEF IInv, Recorded

LEMMA OnErrorRecorded ==
    ASSUME IInv, NEW forced \in BOOLEAN, onError(forced),
           phase \in {"comparing", "running", "stopping", "flushing"},
           phase = "comparing" => ~restarting,
           UNCHANGED <<topic, refused, db, queue, adding>>
    PROVE  Recorded'
<1>1. phase' \notin {"walking", "comparing"}
    BY DEF onError
<1>2. Recording' = Recording
    BY DEF Recording
<1>. QED
    BY <1>1, <1>2, RecordsKept, StartKept DEF IInv, Recorded

LEMMA DeliveredRecorded ==
    ASSUME IInv, Delivered \/ DeliveryFails
    PROVE  Recorded'
<1>1. PICK b \in Blocks : b = buffer[1]
    BY DeliveredFacts, TailFacts DEF IInv, TypeOK
<1>2. /\ buffer # << >>
      /\ Reported' = Reported \cup {Len(b)}
      /\ Append(queue, b) \in Seq(Blocks)
      /\ \/ processQueue(Append(queue, b))
         \/ queue' = Append(queue, b) /\ UNCHANGED adding
      /\ UNCHANGED <<db, phase, blockNumber, stored>>
    BY <1>1, DeliveredFacts DEF IInv, lifeVars, startVars
<1>3. Len(b) \in Nat /\ 1 \in 1..Len(buffer)
    <2>1. Len(buffer) \in Nat \ {0}
        BY <1>2, EmptySeq DEF IInv, TypeOK
    <2>. QED
        BY <2>1, LenProperties DEF Blocks
<1>4. \A m \in StartBlock..(Len(b) - 1) : m \in Reported
    <2>1. ASSUME NEW m \in StartBlock..(Len(b) - 1) PROVE m \in Reported
        <3>1. Ahead(m, 1 - 1, 0)
            BY <1>1, <1>3 DEF IInv, BufferInOrder
        <3>. QED
            BY <3>1 DEF Ahead
    <2>. QED
        BY <2>1
<1>5. \A m \in StartBlock..Len(b) : m \in Reported'
    BY <1>2, <1>3, <1>4, ProducerAssumption
<1>6. ASSUME NEW n, Covered(n) PROVE \A m \in StartBlock..n : m \in Reported'
    BY <1>2, <1>6 DEF Covered
<1>7. ReportsCovered'
    BY <1>2, <1>5, <1>6 DEF IInv, ReportsCovered, Covered
<1>8. StartCovered'
    BY <1>2, <1>6 DEF IInv, StartCovered, Covered, Falsy
<1>9. Recording' \subseteq Recording \cup {b}
    <2>1. queue \in Seq(Blocks)
        BY DEF IInv, TypeOK
    <2>2. Items(Append(queue, b)) \subseteq Items(queue) \cup {b}
        <3>1. /\ Len(queue) \in Nat
              /\ Len(Append(queue, b)) = Len(queue) + 1
              /\ \A i \in 1..Len(queue) : Append(queue, b)[i] = queue[i]
              /\ Append(queue, b)[Len(queue) + 1] = b
            BY <2>1, AppendFacts
        <3>2. \A i \in 1..(Len(queue) + 1) : i \in 1..Len(queue) \/ i = Len(queue) + 1
            BY <3>1
        <3>. QED
            BY <3>1, <3>2 DEF Items
    <2>3. CASE processQueue(Append(queue, b))
        <3>1. Recording' \subseteq db' \cup Items(Append(queue, b))
            BY <2>3, <1>2, TurnRecording
        <3>. QED
            BY <3>1, <2>2, <1>2 DEF Recording
    <2>4. CASE queue' = Append(queue, b) /\ UNCHANGED adding
        <3>1. Items(queue)' = Items(Append(queue, b))
            BY <2>4 DEF Items
        <3>. QED
            BY <3>1, <2>2, <2>4, <1>2 DEF Recording
    <2>. QED
        BY <1>2, <2>3, <2>4
<1>10. RecordsCovered'
    BY <1>5, <1>6, <1>9 DEF IInv, RecordsCovered, Covered
<1>. QED
    BY <1>7, <1>8, <1>10 DEF Recorded

LEMMA KeptRecorded ==
    ASSUME IInv, UNCHANGED <<topic, refused, db, queue, adding>>,
           \/ UNCHANGED <<phase, blockNumber, stored>>
           \/ phase' \notin {"walking", "comparing"}
    PROVE  Recorded'
<1>1. Recording' = Recording
    BY DEF Recording
<1>. QED
    BY <1>1, RecordsKept, StartKept DEF IInv, Recorded

LEMMA StoppingRecorded ==
    ASSUME IInv, Stopping
    PROVE  Recorded'
<1>1. CASE Stop
    BY <1>1, KeptRecorded DEF Stop, insertVars
<1>2. CASE Disconnect
    BY <1>2, KeptRecorded DEF Disconnect, insertVars
<1>3. CASE Disconnected
    <2>1. CASE Exit
        BY <1>3, <2>1, ExitRecorded DEF Disconnected
    <2>2. CASE ~forceStop
        <3>1. /\ UNCHANGED <<topic, refused, db, queue, adding>>
              /\ phase' \in {"starting", "stopped"}
            BY <1>3, <2>2 DEF Disconnected, insertVars
        <3>. QED
            BY <3>1, KeptRecorded
    <2>. QED
        BY <1>3, <2>1, <2>2 DEF Disconnected
<1>. QED
    BY <1>1, <1>2, <1>3 DEF Stopping

LEMMA SubscriptionRecorded ==
    ASSUME IInv, Subscription
    PROVE  Recorded'
<1>1. CASE Emit
    BY <1>1, KeptRecorded DEF Emit, lifeVars, startVars, insertVars
<1>2. CASE ReOrgEncountered
    BY <1>2, OnErrorRecorded DEF ReOrgEncountered, insertVars
<1>3. CASE SubscriptionError
    BY <1>3, OnErrorRecorded DEF SubscriptionError, insertVars
<1>. QED
    BY <1>1, <1>2, <1>3 DEF Subscription

LEMMA FailureRecorded ==
    ASSUME IInv, Failure
    PROVE  Recorded'
<1>1. CASE Crash
    BY <1>1, ExitRecorded DEF Crash
<1>2. CASE ConnectFails
    BY <1>2, ExitRecorded DEF ConnectFails
<1>3. CASE LookupFails
    <2>1. CASE Exit
        BY <1>3, <2>1, ExitRecorded DEF LookupFails
    <2>2. CASE /\ ~restarting
               /\ onError(FALSE)
               /\ UNCHANGED <<producing, buffer, lastEmitted, insertVars>>
        BY <1>3, <2>2, OnErrorRecorded DEF LookupFails, insertVars
    <2>. QED
        BY <1>3, <2>1, <2>2 DEF LookupFails
<1>4. phase \in Phases
    BY DEF IInv, TypeOK
<1>5. CASE ProduceFails
    <2>1. phase \in {"running", "stopping"}
        BY <1>5, <1>4 DEF ProduceFails, IInv, Settled, Phases
    <2>. QED
        BY <1>5, <2>1, OnErrorRecorded DEF ProduceFails, insertVars
<1>6. CASE NoPartition
    <2>1. phase \in {"running", "stopping", "flushing"}
        BY <1>6, <1>4 DEF NoPartition, IInv, Settled, Phases
    <2>. QED
        BY <1>6, <2>1, OnErrorRecorded DEF NoPartition, insertVars
<1>. QED
    BY <1>1, <1>2, <1>3, <1>5, <1>6 DEF Failure

LEMMA NextRecorded ==
    ASSUME IInv, [Next]_vars
    PROVE  Recorded'
<1>1. CASE Environment
    BY <1>1, KeptRecorded
    DEF Environment, Mine, Reorganise, lifeVars, startVars, insertVars
<1>2. CASE Produced
    BY <1>2, KeptRecorded DEF Produced, lifeVars, startVars, insertVars
<1>3. CASE UNCHANGED vars
    BY <1>3, KeptRecorded DEF vars
<1>. QED
    BY <1>1, <1>2, <1>3, InsertRecorded, StartingRecorded, StoppingRecorded,
       SubscriptionRecorded, DeliveredRecorded, FailureRecorded DEF Next

LEMMA InitIInv == Init => IInv
BY InitTypeOK, InitInOrder, InitRecorded DEF IInv, InOrder, Recorded

LEMMA NextIInv == SafeProducer /\ IInv /\ [Next]_vars => IInv'
<1> SUFFICES ASSUME SafeProducer, IInv, [Next]_vars
             PROVE  IInv'
    OBVIOUS
<1>1. TypeOK'
    BY NextTypeOK DEF IInv
<1>2. InOrder'
    BY NextBlocksInOrder
<1>3. Recorded'
    BY NextRecorded
<1>. QED
    BY <1>1, <1>2, <1>3 DEF IInv, InOrder, Recorded

(***************************************************************************)
(* Wherever a process is interrupted and whatever the chain does, the      *)
(* topic has no gap, and no document of the collection, from which a later *)
(* start resumes, names a block with a number before it that Kafka did not *)
(* accept, except for the numbers refused by a report whose error nobody   *)
(* looked at: for every depth of reorganisations, any number of faults and *)
(* restarts, as long as blocks are produced one by one or producing them   *)
(* never fails.                                                            *)
(***************************************************************************)
THEOREM ProducerSkipsNothing ==
    ASSUME SafeProducer
    PROVE  Spec => []NothingSkipped
<1>1. Init => IInv
    BY InitIInv
<1>2. IInv /\ [Next]_vars => IInv'
    BY NextIInv
<1>3. IInv => NothingSkipped
    BY DEF IInv, ReportsCovered, RecordsCovered, Recording, NothingSkipped, CheckpointCovered
<1>. QED
    BY <1>1, <1>2, <1>3, PTL DEF Spec

\* Without failing reports no number is refused.
LEMMA NoneRefused ==
    ASSUME "report" \notin Hazards
    PROVE  Spec => [](refused = {})
<1>1. Init => refused = {}
    BY DEF Init
<1>2. refused = {} /\ [Next]_vars => (refused = {})'
    <2> SUFFICES ASSUME refused = {}, [Next]_vars PROVE (refused = {})'
        OBVIOUS
    <2>1. CASE Environment \/ Insert
        BY <2>1 DEF Environment, Mine, Reorganise, Insert, Create, DeleteMany, AddFails
    <2>2. CASE Starting
        BY <2>2 DEF Starting, Start, LastProduced, Lookup, Unverified, Same, Different
    <2>3. CASE Stopping
        BY <2>3 DEF Stopping, Stop, Disconnect, Disconnected
    <2>4. CASE Subscription \/ Produced
        BY <2>4 DEF Subscription, Emit, ReOrgEncountered, SubscriptionError, Produced
    <2>5. CASE Delivered
        BY <2>5 DEF Delivered
    <2>6. CASE DeliveryFails
        BY <2>6 DEF DeliveryFails, Fault, mayFail
    <2>7. CASE Failure
        BY <2>7 DEF Failure, Crash, ConnectFails, LookupFails, ProduceFails, NoPartition
    <2>8. CASE UNCHANGED vars
        BY <2>8 DEF vars
    <2>. QED
        BY <2>1, <2>2, <2>3, <2>4, <2>5, <2>6, <2>7, <2>8 DEF Next
<1>. QED
    BY <1>1, <1>2, PTL DEF Spec

(***************************************************************************)
(* A failing report is the only way past the topic: where none fails, all  *)
(* numbers up to a recorded one were accepted (onDeliveryReport, start).   *)
(***************************************************************************)
THEOREM ProducerRecordsAccepted ==
    ASSUME SafeProducer, "report" \notin Hazards
    PROVE  Spec => []RecordedIsAccepted
<1>1. NothingSkipped /\ refused = {} => RecordedIsAccepted
    BY DEF NothingSkipped, CheckpointCovered, Covered, RecordedIsAccepted
<1>. QED
    BY <1>1, ProducerSkipsNothing, NoneRefused, PTL

=============================================================================
