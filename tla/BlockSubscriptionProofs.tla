---------------------- MODULE BlockSubscriptionProofs ----------------------
(***************************************************************************)
(* Proofs about BlockSubscription, for any number of workers, any limit of *)
(* the queue, any chains and any faults: its type invariant, that the      *)
(* queue of a backfill stays bounded, that no number is left out, that no  *)
(* reorganisation is reported that there was not, and that a block is      *)
(* given only after its parent (BlockStream).                              *)
(*                                                                         *)
(* The argument for the second: a worker that finds the queue at its limit *)
(* waits, and only a worker that does not wait, or finds the queue shorter *)
(* than the limit, adds to it; so there are no more requests above the     *)
(* limit than workers that wait.  Nobody else adds to the queue, because   *)
(* the log subscription is off until the backfill has ended.  The          *)
(* arguments for the others are given where their proofs begin.            *)
(***************************************************************************)
EXTENDS BlockSubscription, SequenceTheorems, FiniteSetTheorems, TLAPS

Labels == [fork : Nat, logs : BOOLEAN]
Branches == Seq(Labels)
Feeds == [state : {"off", "on", "silent"}, logs : Seq(Branches)]
Fields ==
    [lastFinalizedBlock : Int, nextBlock : Nat, lastReceived : Nat,
     lastBlockHash : Branches, lastEmitted : Branches,
     fatalError : BOOLEAN, backfilling : BOOLEAN, timer : Seq(Branches)]
Reqs ==
    [n : Nat, w : Workers, job : BOOLEAN, life : Nat,
     state : {"pending", "done", "failed"}, block : Branches]
Fills == [current : BOOLEAN, req : Reqs]
Steps == {"closing", "finalized", "latest"}

CallOK ==
    call # << >> =>
        /\ call = <<Call(call[1].by, call[1].step, call[1].start)>>
        /\ call[1].step \in Steps /\ call[1].start \in Nat
        /\ call[1].step # "closing" => call[1].start > 0

Types ==
    /\ scenario \in Scenarios /\ forks \in Nat /\ head \in Branches
    /\ feed \in Feeds
    /\ s \in Fields
    /\ queue \in Seq(Reqs)
    /\ loop \in Seq(Reqs) /\ Len(loop) <= 1
    /\ fills \subseteq Fills
    /\ waiting \subseteq Workers
    /\ exits \in [Workers -> Nat]
    /\ CallOK
    /\ Len(err) <= 1

\* A backfill has the queue for itself, and bounds it.
Bounded ==
    /\ call # << >> => ~s.backfilling
    /\ s.backfilling \/ (call # << >> /\ call[1].step # "closing") => feed = Off
    /\ call # << >> /\ call[1].step = "latest" => queue = << >>
    /\ s.backfilling => Len(queue) < QueueLimit + Cardinality(waiting)

Inv == Types /\ Bounded

-----------------------------------------------------------------------------
\* The workers.
LEMMA WorkersFacts ==
    /\ Cardinality(Workers) \in Nat \ {0}
    /\ Workers \subseteq Nat /\ 0 \in Workers
    /\ \A i \in 1..Cardinality(Workers) : i - 1 \in Workers
    /\ QueueLimit \in Nat
<1>1. Cardinality(Workers) \in Nat
    BY SubscriptionAssumption, FS_CardinalityType
<1>2. Cardinality(Workers) # 0
    BY SubscriptionAssumption, FS_EmptySet
<1>3. Workers = 0..(Cardinality(Workers) - 1) /\ QueueLimit \in Nat
    BY SubscriptionAssumption
<1>4. \A c \in Nat \ {0} : Workers = 0..(c - 1) =>
          Workers \subseteq Nat /\ 0 \in Workers /\ \A i \in 1..c : i - 1 \in Workers
    OBVIOUS
<1>. QED
    BY <1>1, <1>2, <1>3, <1>4

LEMMA WaitingFacts ==
    ASSUME NEW W, W \subseteq Workers
    PROVE  IsFiniteSet(W) /\ Cardinality(W) \in Nat /\ Cardinality(W) <= Cardinality(Workers)
BY SubscriptionAssumption, FS_Subset, FS_CardinalityType

-----------------------------------------------------------------------------
\* Fields, one at a time.
LEMMA SetBackfilling == ASSUME NEW t \in Fields, NEW x \in BOOLEAN
                        PROVE  [t EXCEPT !.backfilling = x] \in Fields
BY DEF Fields
LEMMA SetFatalError == ASSUME NEW t \in Fields, NEW x \in BOOLEAN
                       PROVE  [t EXCEPT !.fatalError = x] \in Fields
BY DEF Fields
LEMMA SetTimer == ASSUME NEW t \in Fields, NEW x \in Seq(Branches)
                  PROVE  [t EXCEPT !.timer = x] \in Fields
BY DEF Fields
LEMMA SetNextBlock == ASSUME NEW t \in Fields, NEW x \in Nat
                      PROVE  [t EXCEPT !.nextBlock = x] \in Fields
BY DEF Fields
LEMMA SetLastReceived == ASSUME NEW t \in Fields, NEW x \in Nat
                         PROVE  [t EXCEPT !.lastReceived = x] \in Fields
BY DEF Fields
LEMMA SetLastBlockHash == ASSUME NEW t \in Fields, NEW x \in Branches
                          PROVE  [t EXCEPT !.lastBlockHash = x] \in Fields
BY DEF Fields
LEMMA SetLastEmitted == ASSUME NEW t \in Fields, NEW x \in Branches
                        PROVE  [t EXCEPT !.lastEmitted = x] \in Fields
BY DEF Fields
LEMMA SetLastFinalized == ASSUME NEW t \in Fields, NEW x \in Int
                          PROVE  [t EXCEPT !.lastFinalizedBlock = x] \in Fields
BY DEF Fields

LEMMA FieldFacts ==
    ASSUME NEW t \in Fields
    PROVE  /\ t.nextBlock \in Nat /\ t.lastReceived \in Nat /\ t.lastFinalizedBlock \in Int
           /\ t.lastBlockHash \in Branches /\ t.lastEmitted \in Branches
BY DEF Fields

\* unsubscribe: no backfill and no timer.
LEMMA Ended ==
    ASSUME NEW t \in Fields
    PROVE  LET u == [t EXCEPT !.backfilling = FALSE, !.timer = << >>]
           IN  u \in Fields /\ ~u.backfilling
<1> DEFINE v == [t EXCEPT !.backfilling = FALSE]
           u == [t EXCEPT !.backfilling = FALSE, !.timer = << >>]
<1>1. v \in Fields
    BY SetBackfilling
<1>2. u = [v EXCEPT !.timer = << >>]
    OBVIOUS
<1>3. << >> \in Seq(Branches)
    OBVIOUS
<1>4. ~u.backfilling
    BY DEF Fields
<1> HIDE DEF v, u
<1>5. u \in Fields
    BY <1>1, <1>2, <1>3, SetTimer
<1>. QED
    BY <1>4, <1>5 DEF u

\* Two fields of a failing loop.
LEMMA Failing ==
    ASSUME NEW t \in Fields
    PROVE  LET u == [t EXCEPT !.backfilling = FALSE, !.fatalError = TRUE]
           IN  u \in Fields /\ ~u.backfilling
<1> DEFINE v == [t EXCEPT !.backfilling = FALSE]
           u == [t EXCEPT !.backfilling = FALSE, !.fatalError = TRUE]
<1>1. v \in Fields
    BY SetBackfilling
<1>2. u = [v EXCEPT !.fatalError = TRUE]
    OBVIOUS
<1>3. ~u.backfilling
    BY DEF Fields
<1> HIDE DEF v, u
<1>4. u \in Fields
    BY <1>1, <1>2, SetFatalError
<1>. QED
    BY <1>3, <1>4 DEF u

-----------------------------------------------------------------------------
\* Requests and their answers.
LEMMA RequestOK ==
    ASSUME Types, NEW n \in Nat, NEW w \in Workers, NEW job \in BOOLEAN
    PROVE  Request(n, w, job) \in Reqs
<1>1. exits[w] \in Nat /\ NoBlock \in Branches
    BY DEF Types, NoBlock, Branches
<1>. QED
    BY <1>1 DEF Request, Reqs

LEMMA BlockOK ==
    ASSUME NEW h \in Branches, NEW n \in Nat, n <= Len(h)
    PROVE  Ancestor(h, n) \in Branches
<1>1. \A i \in 1..n : h[i] \in Labels
    BY DEF Branches
<1>. QED
    BY <1>1, SubSeqProperties DEF Branches, Ancestor

LEMMA AnswersOK ==
    ASSUME Types, NEW r \in Reqs, NEW a \in Answers(r)
    PROVE  a[1] \in Reqs
<1>1. Failed(r) \in Reqs
    BY DEF Failed, Reqs
<1>2. ASSUME r.n <= Len(head) PROVE Answered(r) \in Reqs
    <2> DEFINE v == [r EXCEPT !.state = "done"]
    <2>1. v \in Reqs
        BY DEF Reqs
    <2>2. BlockAt(r.n) \in Branches
        BY <1>2, BlockOK DEF BlockAt, Types, Reqs
    <2>3. Answered(r) = [v EXCEPT !.block = BlockAt(r.n)]
        BY DEF Answered
    <2> HIDE DEF v
    <2>. QED
        BY <2>1, <2>2, <2>3 DEF Reqs
<1>3. \/ a = <<r, 0>> \/ a = <<Failed(r), 0>> \/ a = <<Failed(r), 1>>
      \/ r.n <= Len(head) /\ a = <<Answered(r), 0>>
    BY DEF Answers
<1>. QED
    BY <1>1, <1>2, <1>3

LEMMA LogsAreBranches ==
    ASSUME NEW h \in Branches, NEW n \in Nat, NEW q \in LogsFrom(h, n)
    PROVE  q \in Seq(Branches)
<1> DEFINE numbers == {m \in n..Len(h) : h[m].logs}
<1>1. Len(h) \in Nat
    BY DEF Branches
<1>2. Cardinality(numbers) \in Nat
    <2>1. IsFiniteSet(n..Len(h))
        BY <1>1, FS_Interval
    <2>. QED
        BY <2>1, FS_Subset, FS_CardinalityType
<1>3. PICK f \in [1..Cardinality(numbers) -> numbers] :
          q = [i \in DOMAIN f |-> Ancestor(h, f[i])]
    BY DEF LogsFrom
<1>4. \A m \in numbers : Ancestor(h, m) \in Branches
    BY <1>1, BlockOK
<1> HIDE DEF numbers
<1>5. q \in [1..Cardinality(numbers) -> Branches]
    BY <1>3, <1>4
<1>. QED
    BY <1>2, <1>5, SeqDef

-----------------------------------------------------------------------------
\* addWorkerJobToQueue.
LEMMA GrownOK ==
    ASSUME Types, NEW q \in Seq(Reqs), NEW w \in Workers
    PROVE  /\ Grown(q, w) \in Seq(Reqs)
           /\ Len(Grown(q, w)) = Len(q) + (IF WantsMore(q) THEN 1 ELSE 0)
           /\ Throttled(q, w) \subseteq Workers
<1>1. s.nextBlock + Len(q) + 1 \in Nat
    BY FieldFacts DEF Types
<1>2. Request(s.nextBlock + Len(q) + 1, w, TRUE) \in Reqs
    BY <1>1, RequestOK
<1>3. /\ AddJob(q, s.nextBlock + Len(q) + 1, w) \in Seq(Reqs)
      /\ Len(AddJob(q, s.nextBlock + Len(q) + 1, w)) = Len(q) + 1
    <2>1. \A r \in Reqs : Append(q, r) \in Seq(Reqs) /\ Len(Append(q, r)) = Len(q) + 1
        OBVIOUS
    <2>. QED
        BY <1>2, <2>1, Zenon DEF AddJob
<1>. QED
    BY <1>3 DEF Grown, Throttled, Types

\* However a worker goes on, no more requests are above the limit than
\* workers wait.
LEMMA GrownBound ==
    ASSUME Types, NEW q \in Seq(Reqs), NEW w \in Workers,
           w \notin waiting \/ Len(q) < QueueLimit,
           Len(q) < QueueLimit + Cardinality(waiting)
    PROVE  Len(Grown(q, w)) < QueueLimit + Cardinality(Throttled(q, w))
<1>1. QueueLimit \in Nat /\ Len(q) \in Nat
    BY WorkersFacts
<1>2. /\ IsFiniteSet(waiting) /\ Cardinality(waiting) \in Nat
      /\ IsFiniteSet(waiting \ {w}) /\ Cardinality(waiting \ {w}) \in Nat
      /\ IsFiniteSet(waiting \cup {w}) /\ Cardinality(waiting \cup {w}) \in Nat
    BY WaitingFacts DEF Types
<1>3. Len(Grown(q, w)) = Len(q) + (IF WantsMore(q) THEN 1 ELSE 0)
    BY GrownOK
<1>4. CASE WantsMore(q) /\ Len(q) + 1 >= QueueLimit
    <2>1. Throttled(q, w) = waiting \cup {w}
        BY <1>4 DEF Throttled
    <2>2. CASE w \notin waiting
        <3>1. Cardinality(waiting \cup {w}) = Cardinality(waiting) + 1
            BY <1>2, <2>2, FS_AddElement
        <3>. QED
            BY <1>1, <1>2, <1>3, <1>4, <2>1, <3>1
    <2>3. CASE w \in waiting
        <3>1. Len(q) < QueueLimit
            BY <2>3
        <3>2. Cardinality(waiting \cup {w}) # 0
            BY <1>2, FS_EmptySet
        <3>. QED
            BY <1>1, <1>2, <1>3, <1>4, <2>1, <3>1, <3>2
    <2>. QED
        BY <2>2, <2>3
<1>5. CASE ~(WantsMore(q) /\ Len(q) + 1 >= QueueLimit)
    <2>1. Throttled(q, w) = waiting \ {w}
        BY <1>5 DEF Throttled
    <2>2. CASE w \notin waiting
        <3>1. waiting \ {w} = waiting
            BY <2>2
        <3>2. Cardinality(Throttled(q, w)) = Cardinality(waiting)
            BY <2>1, <3>1
        <3>. QED
            BY <1>1, <1>2, <1>3, <1>5, <3>2
    <2>3. CASE w \in waiting
        BY <1>1, <1>2, <1>3, <1>5, <2>1, <2>3
    <2>. QED
        BY <2>2, <2>3
<1>. QED
    BY <1>4, <1>5

-----------------------------------------------------------------------------
LEMMA InitInv == Init => Inv
<1> SUFFICES ASSUME Init PROVE Inv
    OBVIOUS
<1>1. scenario \in Scenarios /\ scenario.first \in Nat
    BY SubscriptionAssumption DEF Init
<1>2. head \in Branches
    <2>1. [fork |-> 0, logs |-> TRUE] \in Labels
        BY DEF Labels
    <2>2. head \in [1..scenario.first -> Labels]
        BY <2>1 DEF Init
    <2>. QED
        BY <1>1, <2>2, SeqDef DEF Branches
<1>3. << >> \in Branches /\ << >> \in Seq(Branches) /\ << >> \in Seq(Reqs)
    BY DEF Branches
<1>4. feed \in Feeds
    BY <1>3 DEF Init, Feeds, Off
<1>5. s \in Fields /\ ~s.backfilling
    BY <1>3 DEF Init, Fields, NoBlock
<1>6. exits \in [Workers -> Nat]
    BY DEF Init
<1>7. CallOK
    BY SubscriptionAssumption DEF Init, CallOK, Call, Steps
<1>8. Types
    BY <1>1, <1>2, <1>3, <1>4, <1>5, <1>6, <1>7 DEF Init, Types
<1>9. Bounded
    BY <1>5 DEF Init, Bounded, Call
<1>. QED
    BY <1>8, <1>9 DEF Inv

-----------------------------------------------------------------------------
\* The node.
LEMMA Notified ==
    ASSUME Types, NEW h \in Branches, NEW n \in Nat, Notify(h, n)
    PROVE  feed' \in Feeds /\ (feed = Off => feed' = Off)
<1>1. CASE feed.state = "on"
    <2>1. PICK new \in LogsFrom(h, n) : feed' = [feed EXCEPT !.logs = @ \o new]
        BY <1>1 DEF Notify
    <2>2. new \in Seq(Branches) /\ feed.logs \in Seq(Branches)
        BY LogsAreBranches DEF Types, Feeds
    <2>3. feed.logs \o new \in Seq(Branches)
        BY <2>2
    <2>. QED
        <3>1. feed' \in Feeds
            BY <2>1, <2>3 DEF Types, Feeds
        <3>2. feed # Off
            BY <1>1 DEF Off
        <3>. QED
            BY <3>1, <3>2
<1>2. CASE feed.state # "on"
    BY <1>2 DEF Notify, Types
<1>. QED
    BY <1>1, <1>2

LEMMA Extended ==
    ASSUME Types, NEW n \in 0..Len(head), NEW k \in Nat, forks' \in Nat, Extend(n, k)
    PROVE  head' \in Branches /\ feed' \in Feeds /\ (feed = Off => feed' = Off)
<1>1. PICK holds \in [1..k -> BOOLEAN] :
        LET h == Ancestor(head, n) \o [i \in 1..k |-> [fork |-> forks', logs |-> holds[i]]]
        IN  head' = h /\ Notify(h, n + 1)
    BY Zenon DEF Extend
<1> DEFINE new == [i \in 1..k |-> [fork |-> forks', logs |-> holds[i]]]
<1>2. \A i \in 1..k : holds[i] \in BOOLEAN
    BY <1>1
<1>3. \A i \in 1..k : [fork |-> forks', logs |-> holds[i]] \in Labels
    BY <1>2 DEF Labels
<1>4. new \in [1..k -> Labels]
    BY <1>3
<1>5. new \in Seq(Labels)
    BY <1>4, SeqDef
<1>6. Ancestor(head, n) \in Seq(Labels)
    BY BlockOK DEF Types, Branches
<1> DEFINE h == Ancestor(head, n) \o new
<1>7. h \in Branches /\ head' = h /\ Notify(h, n + 1)
    <2>1. head' = h /\ Notify(h, n + 1)
        BY <1>1, Zenon
    <2> HIDE DEF new
    <2>2. h \in Branches
        BY <1>5, <1>6 DEF Branches
    <2>. QED
        BY <2>1, <2>2
<1> HIDE DEF h
<1>. QED
    BY <1>7, Notified

LEMMA ExtendInv ==
    ASSUME Inv, NEW n \in 0..Len(head), NEW k \in Nat, forks' \in Nat, Extend(n, k),
           UNCHANGED <<scenario, s, work, exits, call, err>>
    PROVE  Inv'
<1>1. head' \in Branches /\ feed' \in Feeds /\ (feed = Off => feed' = Off)
    BY Extended DEF Inv
<1>2. Types'
    BY <1>1 DEF Inv, Types, work, CallOK
<1>3. Bounded'
    BY <1>1 DEF Inv, Bounded, work, Off
<1>. QED
    BY <1>2, <1>3 DEF Inv

LEMMA ChainInv == ASSUME Inv, Chain PROVE Inv'
<1>. head \in Branches /\ forks \in Nat /\ Len(head) \in Nat
    BY DEF Inv, Types, Branches
<1>1. CASE Mine
    BY <1>1, ExtendInv DEF Mine
<1>2. CASE Reorganise
    <2>1. PICK d \in 1..ForkDepth : d <= Len(head) /\ Extend(Len(head) - d, d + 1)
        BY <1>2 DEF Reorganise
    <2>2. Len(head) - d \in 0..Len(head) /\ d + 1 \in Nat
        BY <2>1, SubscriptionAssumption
    <2>. QED
        BY <1>2, <2>1, <2>2, ExtendInv DEF Reorganise
<1>3. CASE Stall
    <2>1. feed' \in Feeds
        BY <1>3 DEF Stall, Feeds
    <2>2. feed # Off
        BY <1>3 DEF Stall, Off
    <2>3. Types'
        BY <1>3, <2>1 DEF Stall, Inv, Types, work, CallOK, chain
    <2>4. Bounded'
        BY <1>3, <2>2 DEF Stall, Inv, Bounded, work, chain
    <2>. QED
        BY <2>3, <2>4 DEF Inv
<1>4. CASE WorkerExits
    <2>1. exits' \in [Workers -> Nat]
        BY <1>4 DEF WorkerExits, Inv, Types
    <2>2. Types'
        BY <1>4, <2>1 DEF WorkerExits, Inv, Types, work, CallOK, chain
    <2>3. Bounded'
        BY <1>4 DEF WorkerExits, Inv, Bounded, work, chain, Off
    <2>. QED
        BY <2>2, <2>3 DEF Inv
<1>. QED
    BY <1>1, <1>2, <1>3, <1>4 DEF Chain

-----------------------------------------------------------------------------
\* Workers go on.
LEMMA AnswerQueuedInv == ASSUME Inv, AnswerQueued PROVE Inv'
<1>. USE DEF Inv
<1>0. PICK i \in 1..Len(queue) : \E a \in Answers(queue[i]) :
        LET r == queue[i]
            q == [queue EXCEPT ![i] = a[1]]
        IN  /\ queue' = IF GoesOn(r) THEN Grown(q, r.w) ELSE q
            /\ waiting' = IF GoesOn(r) THEN Throttled(q, r.w) ELSE waiting
            /\ UNCHANGED <<chain, feed, s, loop, fills, exits, call, err>>
    BY DEF AnswerQueued
<1>1. PICK a \in Answers(queue[i]) :
        LET r == queue[i]
            q == [queue EXCEPT ![i] = a[1]]
        IN  /\ queue' = IF GoesOn(r) THEN Grown(q, r.w) ELSE q
            /\ waiting' = IF GoesOn(r) THEN Throttled(q, r.w) ELSE waiting
            /\ UNCHANGED <<chain, feed, s, loop, fills, exits, call, err>>
    BY <1>0
<1> DEFINE r == queue[i]
           q == [queue EXCEPT ![i] = a[1]]
<1>2. r \in Reqs /\ r.w \in Workers /\ queue # << >>
    <2>1. queue \in Seq(Reqs)
        BY DEF Types
    <2>2. r \in Reqs
        BY <2>1, ElementOfSeq
    <2>. QED
        BY <2>1, <2>2 DEF Reqs
<1>3. a[1] \in Reqs
    BY <1>2, AnswersOK
<1>4. q \in Seq(Reqs) /\ Len(q) = Len(queue)
    BY <1>3, ExceptSeq DEF Types
<1>5. GoesOn(r) => r.w \notin waiting
    BY DEF GoesOn
<1>6. /\ queue' = IF GoesOn(r) THEN Grown(q, r.w) ELSE q
      /\ waiting' = IF GoesOn(r) THEN Throttled(q, r.w) ELSE waiting
      /\ UNCHANGED <<chain, feed, s, loop, fills, exits, call, err>>
    BY <1>1
<1> HIDE DEF q, r
<1>7. queue' \in Seq(Reqs) /\ waiting' \subseteq Workers
    BY <1>2, <1>4, <1>6, GrownOK DEF Types
<1>8. Types'
    BY <1>6, <1>7 DEF Types, CallOK, chain
<1>9. s.backfilling => Len(queue') < QueueLimit + Cardinality(waiting')
    BY <1>2, <1>4, <1>5, <1>6, GrownBound DEF Bounded
<1>10. Bounded'
    BY <1>2, <1>6, <1>9 DEF Bounded, Off
<1>. QED
    BY <1>8, <1>10

LEMMA ReleaseInv == ASSUME Inv, Release PROVE Inv'
<1>. USE DEF Inv
<1>1. PICK w \in waiting :
        /\ Len(queue) < QueueLimit
        /\ \/ queue' = Grown(queue, w) /\ waiting' = Throttled(queue, w)
           \/ queue' = queue /\ waiting' = waiting \ {w}
        /\ UNCHANGED <<chain, feed, s, loop, fills, exits, call, err>>
    BY DEF Release
<1>2. w \in Workers /\ queue \in Seq(Reqs) /\ Len(queue) \in Nat /\ QueueLimit \in Nat
    BY WorkersFacts DEF Types
<1>3. queue' \in Seq(Reqs) /\ waiting' \subseteq Workers
    BY <1>1, <1>2, GrownOK DEF Types
<1>4. Types'
    BY <1>1, <1>3 DEF Types, CallOK, chain
<1>5. ~s.backfilling => queue' = queue \/ ~(call # << >> /\ call[1].step = "latest" /\ queue' # << >>)
    <2>1. ~s.backfilling => Grown(queue, w) = queue
        BY DEF Grown, WantsMore
    <2>. QED
        BY <1>1, <2>1
<1>6. s.backfilling => Len(queue') < QueueLimit + Cardinality(waiting')
    <2>1. Cardinality(waiting) \in Nat /\ Cardinality(waiting \ {w}) \in Nat
        BY WaitingFacts DEF Types
    <2>2. CASE queue' = Grown(queue, w) /\ waiting' = Throttled(queue, w)
        BY <1>1, <1>2, <2>1, <2>2, GrownBound
    <2>3. CASE queue' = queue /\ waiting' = waiting \ {w}
        BY <1>1, <1>2, <2>1, <2>3
    <2>. QED
        BY <1>1, <2>2, <2>3
<1>7. Bounded'
    BY <1>1, <1>5, <1>6 DEF Bounded, Off
<1>. QED
    BY <1>4, <1>7

-----------------------------------------------------------------------------
\* The observer is told of an error: no backfill is left.
LEMMA ErrorInv ==
    ASSUME Inv, NEW kind, NEW b, NEW t \in Fields, error(kind, b, t),
           t.backfilling => s.backfilling,
           loop' \in Seq(Reqs), Len(loop') <= 1, fills' \subseteq Fills,
           UNCHANGED <<chain, feed, exits>>
    PROVE  Inv'
<1>. USE DEF Inv
<1>1. Len(err') <= 1
    BY DEF error, Types
<1>2. CASE call = << >>
    <2>1. Unsubscribe("owner", t)
        BY <1>2 DEF error
    <2>2. s' \in Fields /\ ~s'.backfilling
        BY <2>1, Ended DEF Unsubscribe
    <2>3. call' = <<Call("owner", "closing", 0)>> /\ queue' = << >> /\ waiting' = {}
        BY <2>1 DEF Unsubscribe
    <2>4. CallOK'
        BY <2>3 DEF CallOK, Call, Steps
    <2>5. Types'
        BY <1>1, <2>2, <2>3, <2>4 DEF Types, chain
    <2>6. Bounded'
        BY <2>2, <2>3 DEF Bounded, Call
    <2>. QED
        BY <2>5, <2>6
<1>3. CASE call # << >>
    <2>1. s' = t /\ UNCHANGED <<queue, waiting, call>>
        BY <1>3 DEF error
    <2>2. Types'
        BY <1>1, <2>1 DEF Types, CallOK, chain
    <2>3. Bounded'
        BY <1>3, <2>1 DEF Bounded, Off
    <2>. QED
        BY <2>2, <2>3
<1>. QED
    BY <1>2, <1>3

-----------------------------------------------------------------------------
\* processQueue.
LEMMA Takes ==
    ASSUME NEW q \in Seq(Reqs), NEW fatal, Take(q, fatal)
    PROVE  /\ loop' \in Seq(Reqs) /\ Len(loop') <= 1
           /\ queue' \in Seq(Reqs) /\ Len(queue') <= Len(q)
           /\ q = << >> => queue' = << >>
<1>1. CASE q = << >> \/ fatal
    <2>1. loop' = << >> /\ queue' = q
        BY <1>1 DEF Take
    <2>2. << >> \in Seq(Reqs) /\ Len(<< >>) = 0 /\ Len(q) \in Nat
        OBVIOUS
    <2>. QED
        BY <2>1, <2>2
<1>2. CASE ~(q = << >> \/ fatal)
    <2>1. loop' = <<q[1]>> /\ queue' = Tail(q) /\ q # << >>
        BY <1>2 DEF Take
    <2>2. q[1] \in Reqs /\ Tail(q) \in Seq(Reqs) /\ Len(Tail(q)) <= Len(q)
        BY <2>1
    <2>. QED
        BY <2>1, <2>2
<1>. QED
    BY <1>1, <1>2

LEMMA ProcessBlockInv ==
    ASSUME Inv, NEW b \in Branches, ProcessBlock(b), UNCHANGED <<chain, feed, fills, exits>>
    PROVE  Inv'
<1>. USE DEF Inv
<1> DEFINE t == [s EXCEPT !.nextBlock = Len(b) + 1]
<1>1. Len(b) + 1 \in Nat
    BY DEF Branches
<1>2. t \in Fields
    BY <1>1, SetNextBlock DEF Types
<1>3. s' = [t EXCEPT !.lastEmitted = b]
    BY DEF ProcessBlock
<1>4. s'.backfilling = s.backfilling
    BY DEF ProcessBlock, Types, Fields
<1> HIDE DEF t
<1>5. s' \in Fields
    BY <1>2, <1>3, SetLastEmitted
<1>6. queue \in Seq(Reqs) /\ Take(queue, s.fatalError) /\ UNCHANGED <<waiting, call, err>>
    BY DEF ProcessBlock, Types
<1>7. /\ loop' \in Seq(Reqs) /\ Len(loop') <= 1
      /\ queue' \in Seq(Reqs) /\ Len(queue') <= Len(queue)
      /\ queue = << >> => queue' = << >>
    BY <1>6, Takes
<1>8. Types'
    BY <1>5, <1>6, <1>7 DEF Types, CallOK, chain
<1>9. Bounded'
    <2>1. Cardinality(waiting) \in Nat
        BY WaitingFacts DEF Types
    <2>2. QueueLimit \in Nat
        BY WorkersFacts
    <2>3. Len(queue) \in Nat /\ Len(queue') \in Nat
        BY <1>6, <1>7
    <2>4. waiting' = waiting
        BY <1>6
    <2>5. s'.backfilling => Len(queue') < QueueLimit + Cardinality(waiting')
        BY <1>4, <1>7, <2>1, <2>2, <2>3, <2>4 DEF Bounded
    <2>. QED
        BY <1>4, <1>6, <1>7, <2>5 DEF Bounded, Off
<1>. QED
    BY <1>8, <1>9

LEMMA processQueueInv == ASSUME Inv, processQueue PROVE Inv'
<1>1. PICK a \in Answers(loop[1]) :
        /\ IF a[1].state = "done" THEN ProcessBlock(a[1].block) \/ ProcessReorg(a[1].block)
           ELSE ProcessError
        /\ UNCHANGED <<chain, feed, fills, exits>>
    BY DEF processQueue
<1>2. loop[1] \in Reqs
    BY DEF Inv, Types, processQueue
<1>3. a[1] \in Reqs
    BY <1>2, AnswersOK DEF Inv
<1>4. a[1].block \in Branches
    BY <1>3 DEF Reqs
<1>5. s \in Fields /\ fills' \subseteq Fills /\ << >> \in Seq(Reqs)
    BY <1>1 DEF Inv, Types
<1>6. CASE ProcessBlock(a[1].block)
    BY <1>1, <1>4, <1>6, ProcessBlockInv
<1>7. CASE ProcessReorg(a[1].block)
    <2> DEFINE v == [s EXCEPT !.nextBlock = Len(a[1].block) + 1]
               t == [s EXCEPT !.nextBlock = Len(a[1].block) + 1, !.fatalError = TRUE]
    <2>1. Len(a[1].block) + 1 \in Nat
        BY <1>4 DEF Branches
    <2>2. v \in Fields
        BY <1>5, <2>1, SetNextBlock
    <2>3. t = [v EXCEPT !.fatalError = TRUE] /\ (t.backfilling => s.backfilling)
        BY <1>5 DEF Fields
    <2>4. error("reorg", a[1].block, t) /\ loop' = << >>
        BY <1>7 DEF ProcessReorg
    <2> HIDE DEF v, t
    <2>5. t \in Fields
        BY <2>2, <2>3, SetFatalError
    <2>6. loop' \in Seq(Reqs) /\ Len(loop') <= 1
        BY <1>5, <2>4
    <2>7. UNCHANGED <<chain, feed, exits>> /\ fills' \subseteq Fills
        BY <1>1, <1>5
    <2>8. t.backfilling => s.backfilling
        BY <2>3
    <2>. QED
        BY <2>4, <2>5, <2>6, <2>7, <2>8, ErrorInv
<1>8. CASE ProcessError
    <2> DEFINE t == [s EXCEPT !.fatalError = TRUE]
    <2>1. t \in Fields /\ (t.backfilling => s.backfilling)
        BY <1>5, SetFatalError DEF Fields
    <2>2. error("other", NoBlock, t) /\ loop' = << >>
        BY <1>8 DEF ProcessError
    <2> HIDE DEF t
    <2>. QED
        BY <1>1, <1>5, <2>1, <2>2, ErrorInv
<1>. QED
    BY <1>1, <1>6, <1>7, <1>8

-----------------------------------------------------------------------------
\* The events of the log subscription.
LEMMA RequestsOK ==
    ASSUME Types, NEW n \in Nat, n >= s.lastReceived
    PROVE  Requests(n) \in Seq(Reqs)
<1> DEFINE first == IF n > s.lastReceived THEN s.lastReceived + 1 ELSE n
<1>1. s.lastReceived \in Nat
    BY FieldFacts DEF Types
<1>2. first \in Nat /\ n - first + 1 \in Nat
    BY <1>1
<1>3. \A i \in 1..(n - first + 1) : Request(first + i - 1, 0, FALSE) \in Reqs
    <2> SUFFICES ASSUME NEW i \in 1..(n - first + 1) PROVE Request(first + i - 1, 0, FALSE) \in Reqs
        OBVIOUS
    <2>1. first + i - 1 \in Nat
        BY <1>2
    <2> HIDE DEF first
    <2>. QED
        BY <2>1, RequestOK, WorkersFacts
<1>4. Requests(n) = [i \in 1..(n - first + 1) |-> Request(first + i - 1, 0, FALSE)]
    BY DEF Requests
<1> HIDE DEF first
<1>5. Requests(n) \in [1..(n - first + 1) -> Reqs]
    BY <1>3, <1>4
<1>. QED
    BY <1>2, <1>5, SeqDef

LEMMA DataInv == ASSUME Inv, Data PROVE Inv'
<1>. USE DEF Inv
<1> DEFINE b == feed.logs[1]
<1>1. feed.logs \in Seq(Branches) /\ feed.logs # << >>
    BY DEF Data, Types, Feeds
<1>2. b \in Branches /\ Tail(feed.logs) \in Seq(Branches)
    BY <1>1
<1>3. Len(b) \in Nat
    BY <1>2 DEF Branches
<1>4. feed' \in Feeds
    BY <1>2 DEF Data, Types, Feeds
<1>5. feed # Off
    BY <1>1 DEF Off
<1>6. ~s.backfilling /\ (call # << >> => call[1].step = "closing")
    BY <1>5 DEF Bounded
<1>7. UNCHANGED <<chain, fills, waiting, exits, call, err>>
    BY DEF Data
<1>8. s \in Fields /\ queue \in Seq(Reqs) /\ loop \in Seq(Reqs) /\ Len(loop) <= 1
    BY DEF Types
<1>9. /\ s' \in Fields /\ ~s'.backfilling
      /\ queue' \in Seq(Reqs) /\ loop' \in Seq(Reqs) /\ Len(loop') <= 1
    <2>1. CASE Len(b) < s.lastReceived \/ b = s.lastBlockHash
        BY <1>6, <1>8, <2>1 DEF Data
    <2>2. CASE ~(Len(b) < s.lastReceived \/ b = s.lastBlockHash)
        <3>1. /\ s' = [s EXCEPT !.lastBlockHash = b, !.lastReceived = Len(b)]
              /\ IF loop = << >> THEN Take(queue \o Requests(Len(b)), s.fatalError)
                 ELSE queue' = queue \o Requests(Len(b)) /\ UNCHANGED loop
            BY <2>2 DEF Data
        <3> DEFINE t == [s EXCEPT !.lastBlockHash = b]
        <3>2. t \in Fields
            BY <1>2, <1>8, SetLastBlockHash
        <3>3. s' = [t EXCEPT !.lastReceived = Len(b)] /\ ~s'.backfilling
            BY <1>6, <1>8, <3>1 DEF Fields
        <3> HIDE DEF t, b
        <3>4. s' \in Fields
            BY <1>3, <3>2, <3>3, SetLastReceived
        <3>5. Requests(Len(b)) \in Seq(Reqs)
            BY <1>3, <1>8, <2>2, RequestsOK, FieldFacts
        <3>6. queue \o Requests(Len(b)) \in Seq(Reqs)
            BY <1>8, <3>5, ConcatProperties
        <3>7. CASE loop = << >>
            BY <3>1, <3>3, <3>4, <3>6, <3>7, Takes
        <3>8. CASE loop # << >>
            BY <1>8, <3>1, <3>3, <3>4, <3>6, <3>8
        <3>. QED
            BY <3>7, <3>8
    <2>. QED
        BY <2>1, <2>2
<1>10. Types'
    BY <1>4, <1>7, <1>9 DEF Types, CallOK, chain
<1>11. Bounded'
    BY <1>6, <1>7, <1>9 DEF Bounded
<1>. QED
    BY <1>10, <1>11

LEMMA OutsideErrorInv == ASSUME Inv, OutsideError PROVE Inv'
<1>1. s \in Fields /\ loop' \in Seq(Reqs) /\ Len(loop') <= 1 /\ fills' \subseteq Fills
    BY DEF Inv, Types, OutsideError
<1>. QED
    BY <1>1, ErrorInv DEF OutsideError

-----------------------------------------------------------------------------
\* subscribe and unsubscribe.
LEMMA UnsubscribeInv ==
    ASSUME Inv, NEW by, NEW t \in Fields, Unsubscribe(by, t), Len(err') <= 1,
           UNCHANGED <<chain, feed, loop, fills, exits>>
    PROVE  Inv'
<1>. USE DEF Inv
<1>1. s' \in Fields /\ ~s'.backfilling
    BY Ended DEF Unsubscribe
<1>2. call' = <<Call(by, "closing", 0)>> /\ queue' = << >> /\ waiting' = {}
    BY DEF Unsubscribe
<1>3. CallOK'
    BY <1>2 DEF CallOK, Call, Steps
<1>4. Types'
    BY <1>1, <1>2, <1>3 DEF Types, chain
<1>5. Bounded'
    BY <1>1, <1>2 DEF Bounded, Call
<1>. QED
    BY <1>4, <1>5

LEMMA ClosedInv == ASSUME Inv, Closed PROVE Inv'
<1>. USE DEF Inv
<1>1. PICK n \in StartBlock..(scenario.last + 1) :
        call' = <<Call(call[1].by, "finalized", n)>> /\ Len(err') <= 1
    BY DEF Closed, Types
<1>2. n \in Nat /\ n > 0
    BY <1>1, SubscriptionAssumption
<1>3. CallOK'
    BY <1>1, <1>2 DEF CallOK, Call, Steps
<1>4. feed' = Off /\ Off \in Feeds
    BY DEF Closed, Off, Feeds
<1>5. UNCHANGED <<chain, s, queue, loop, fills, waiting, exits>> /\ call # << >>
    BY DEF Closed, work, InCall
<1>6. Types'
    BY <1>1, <1>3, <1>4, <1>5 DEF Types, chain
<1>7. Bounded'
    BY <1>1, <1>4, <1>5 DEF Bounded, Call
<1>. QED
    BY <1>6, <1>7

LEMMA ResetInv == ASSUME Inv, Reset PROVE Inv'
<1>. USE DEF Inv
<1> DEFINE n == call[1].start
           t1 == [s EXCEPT !.lastFinalizedBlock = Len(head) - Lag]
           t2 == [t1 EXCEPT !.fatalError = FALSE]
           t3 == [t2 EXCEPT !.nextBlock = n]
           t4 == [t3 EXCEPT !.lastBlockHash = NoBlock]
<1>1. call # << >> /\ call[1].step = "finalized"
    BY DEF Reset, InCall
<1>2. n \in Nat /\ n - 1 \in Nat
    BY <1>1 DEF Types, CallOK
<1>3. Len(head) - Lag \in Int
    BY SubscriptionAssumption DEF Types, Branches
<1>4. NoBlock \in Branches
    BY DEF NoBlock, Branches
<1>5. s' = [t4 EXCEPT !.lastReceived = n - 1]
    BY DEF Reset
<1>6. s'.backfilling = s.backfilling
    BY DEF Reset, Types, Fields
<1>7. t1 \in Fields
    BY <1>3, SetLastFinalized DEF Types
<1> HIDE DEF t1
<1>8. t2 \in Fields
    BY <1>7, SetFatalError
<1> HIDE DEF t2, n
<1>9. t3 \in Fields
    BY <1>2, <1>8, SetNextBlock
<1> HIDE DEF t3
<1>10. t4 \in Fields
    BY <1>4, <1>9, SetLastBlockHash
<1> HIDE DEF t4
<1>11. s' \in Fields
    BY <1>2, <1>5, <1>10, SetLastReceived
<1>12. /\ call' = <<Call(call[1].by, "latest", call[1].start)>> /\ queue' = << >>
       /\ UNCHANGED <<chain, feed, loop, fills, waiting, exits, err>>
    BY DEF Reset
<1>13. CallOK'
    BY <1>1, <1>12 DEF Types, CallOK, Call, Steps
<1>14. Types'
    BY <1>11, <1>12, <1>13 DEF Types, chain
<1>15. Bounded'
    BY <1>1, <1>6, <1>12 DEF Bounded, Call, Off
<1>. QED
    BY <1>14, <1>15

\* The workers that wait when a backfill starts: those whose number reaches
\* the limit.
LEMMA FirstWaiting ==
    Cardinality(Workers) - 1 < QueueLimit + Cardinality({w \in Workers : w + 1 >= QueueLimit})
<1> DEFINE c == Cardinality(Workers)
           W == {w \in Workers : w + 1 >= QueueLimit}
<1>1. c \in Nat \ {0} /\ QueueLimit \in Nat /\ Workers = 0..(c - 1)
    BY WorkersFacts, SubscriptionAssumption
<1>2. Cardinality(W) \in Nat
    BY WaitingFacts
<1>3. CASE QueueLimit >= c
    BY <1>1, <1>2, <1>3
<1>4. CASE QueueLimit < c /\ QueueLimit > 0
    <2>1. W = (QueueLimit - 1)..(c - 1)
        BY <1>1, <1>4
    <2>2. Cardinality((QueueLimit - 1)..(c - 1)) = c - QueueLimit + 1
        BY <1>1, <1>4, FS_Interval
    <2>3. Cardinality(W) = c - QueueLimit + 1
        BY <2>1, <2>2
    <2> HIDE DEF c, W
    <2>4. c - 1 < QueueLimit + Cardinality(W)
        BY <1>1, <2>3
    <2>. QED
        BY <2>4 DEF c, W
<1>5. CASE QueueLimit = 0
    <2>1. W = Workers
        BY <1>1, <1>5
    <2>2. Cardinality(W) = c
        BY <2>1
    <2> HIDE DEF c, W
    <2>3. c - 1 < QueueLimit + Cardinality(W)
        BY <1>1, <1>5, <2>2
    <2>. QED
        BY <2>3 DEF c, W
<1>. QED
    BY <1>1, <1>3, <1>4, <1>5

LEMMA backFillBlocksInv == ASSUME Inv, backFillBlocks PROVE Inv'
<1>. USE DEF Inv
<1> DEFINE c == Cardinality(Workers)
           jobs == [i \in 1..c |-> Request(s.nextBlock + i - 1, i - 1, TRUE)]
<1>1. call # << >> /\ call[1].step = "latest"
    BY DEF backFillBlocks, InCall
<1>2. queue = << >> /\ feed = Off
    BY <1>1 DEF Bounded
<1>3. c \in Nat \ {0} /\ s.nextBlock \in Nat
    BY WorkersFacts, FieldFacts DEF Types
<1>4. \A i \in 1..c : Request(s.nextBlock + i - 1, i - 1, TRUE) \in Reqs
    <2> SUFFICES ASSUME NEW i \in 1..c PROVE Request(s.nextBlock + i - 1, i - 1, TRUE) \in Reqs
        OBVIOUS
    <2>1. s.nextBlock + i - 1 \in Nat
        BY <1>3
    <2>. QED
        BY <2>1, RequestOK, WorkersFacts
<1>5. jobs \in [1..c -> Reqs]
    BY <1>4
<1> HIDE DEF c
<1>6. jobs \in Seq(Reqs) /\ Len(jobs) = c
    <2>1. DOMAIN jobs = 1..c
        OBVIOUS
    <2> HIDE DEF jobs
    <2>2. jobs \in Seq(Reqs)
        BY <1>3, <1>5, SeqDef
    <2>. QED
        BY <1>3, <2>1, <2>2, LenProperties
<1>7. /\ call' = << >>
      /\ fills' = {[f EXCEPT !.current = FALSE] : f \in fills}
                      \cup {[current |-> TRUE, req |-> (queue \o jobs)[1]]}
      /\ queue' = Tail(queue \o jobs)
      /\ waiting' = {w \in Workers : Len(queue) + w + 1 >= QueueLimit}
      /\ s' = [s EXCEPT !.backfilling = TRUE]
      /\ UNCHANGED <<chain, feed, loop, exits, err>>
    BY DEF backFillBlocks, c
<1> HIDE DEF jobs
<1>8. queue \o jobs = jobs
    BY <1>2, <1>6
<1>9. jobs[1] \in Reqs /\ queue' \in Seq(Reqs) /\ Len(queue') = c - 1
    BY <1>3, <1>6, <1>7, <1>8
<1>10. fills' \subseteq Fills
    <2>1. \A f \in fills : [f EXCEPT !.current = FALSE] \in Fills
        BY DEF Types, Fills
    <2>2. [current |-> TRUE, req |-> jobs[1]] \in Fills
        BY <1>9 DEF Fills
    <2>3. fills' = {[f EXCEPT !.current = FALSE] : f \in fills} \cup {[current |-> TRUE, req |-> jobs[1]]}
        BY <1>7, <1>8
    <2>. QED
        BY <2>1, <2>2, <2>3
<1>11. s' \in Fields
    BY <1>7, SetBackfilling DEF Types
<1>12. Types'
    BY <1>7, <1>9, <1>10, <1>11 DEF Types, CallOK, chain
<1>13. waiting' = {w \in Workers : w + 1 >= QueueLimit}
    BY <1>2, <1>7, WorkersFacts
<1>14. Bounded'
    BY <1>2, <1>7, <1>9, <1>13, FirstWaiting DEF Bounded, Off, c
<1>. QED
    BY <1>12, <1>14

LEMMA SubscribeToLogsInv == ASSUME Inv, SubscribeToLogs PROVE Inv'
<1>. USE DEF Inv
<1>1. call # << >> /\ ~s.backfilling
    BY DEF SubscribeToLogs, InCall, Bounded
<1>2. /\ call' = << >> /\ s' = [s EXCEPT !.timer = <<s.lastBlockHash>>]
      /\ UNCHANGED <<chain, queue, loop, fills, waiting, exits, err>>
    BY DEF SubscribeToLogs, work
<1>3. s' \in Fields /\ ~s'.backfilling
    <2>1. <<s.lastBlockHash>> \in Seq(Branches)
        BY FieldFacts DEF Types
    <2>2. s' \in Fields
        BY <1>2, <2>1, SetTimer DEF Types
    <2>. QED
        BY <1>1, <1>2, <2>2 DEF Types, Fields
<1>4. feed' \in Feeds
    <2>1. PICK old \in LogsFrom(head, s.nextBlock) : feed' = [state |-> "on", logs |-> old]
        BY DEF SubscribeToLogs
    <2>2. old \in Seq(Branches)
        BY LogsAreBranches, FieldFacts DEF Types
    <2>. QED
        BY <2>1, <2>2 DEF Feeds
<1>5. Types'
    BY <1>2, <1>3, <1>4 DEF Types, CallOK, chain
<1>6. Bounded'
    BY <1>2, <1>3 DEF Bounded
<1>. QED
    BY <1>5, <1>6

LEMMA checkIfLiveAgainInv == ASSUME Inv, checkIfLiveAgain PROVE Inv'
<1>. USE DEF Inv
<1>1. s' = [s EXCEPT !.timer = <<s.lastBlockHash>>]
    BY DEF checkIfLiveAgain
<1>2. UNCHANGED <<chain, feed, queue, loop, fills, waiting, exits, call, err>>
    BY DEF checkIfLiveAgain, work
<1>3. s' \in Fields /\ s'.backfilling = s.backfilling
    <2>1. <<s.lastBlockHash>> \in Seq(Branches)
        BY FieldFacts DEF Types
    <2>2. s' \in Fields
        BY <1>1, <2>1, SetTimer DEF Types
    <2>. QED
        BY <1>1, <2>2 DEF Types, Fields
<1>4. Types'
    BY <1>2, <1>3 DEF Types, CallOK, chain
<1>5. Bounded'
    BY <1>2, <1>3 DEF Bounded, Off
<1>. QED
    BY <1>4, <1>5

LEMMA CallFailsInv == ASSUME Inv, CallFails PROVE Inv'
<1> DEFINE t == IF call[1].by = "backfill" THEN [s EXCEPT !.fatalError = TRUE] ELSE s
<1>1. t \in Fields
    BY SetFatalError DEF Inv, Types
<1>2. Unsubscribe("owner", t) /\ UNCHANGED <<chain, feed, loop, fills, exits>>
    BY DEF CallFails
<1>3. Len(err') <= 1
    BY DEF CallFails, Inv, Types
<1> HIDE DEF t
<1>. QED
    BY <1>1, <1>2, <1>3, UnsubscribeInv

LEMMA CallsInv == ASSUME Inv, Calls PROVE Inv'
<1>0. s \in Fields /\ Len(err) <= 1
    BY DEF Inv, Types
<1>1. CASE OwnerRestarts
    BY <1>0, <1>1, UnsubscribeInv DEF OwnerRestarts
<1>2. CASE checkIfLiveRestarts
    BY <1>0, <1>2, UnsubscribeInv DEF checkIfLiveRestarts
<1>. QED
    BY <1>1, <1>2, checkIfLiveAgainInv, ClosedInv, ResetInv, backFillBlocksInv,
       SubscribeToLogsInv, CallFailsInv DEF Calls

-----------------------------------------------------------------------------
\* The loop of backFillBlocks.
LEMMA FillBlockInv ==
    ASSUME Inv, NEW f \in fills, NEW b, NEW q \in Seq(Reqs), FillBlock(f, b, q),
           waiting' \subseteq Workers,
           Len(q) < QueueLimit + Cardinality(waiting'),
           UNCHANGED <<chain, feed, loop, exits>>
    PROVE  Inv'
<1>. USE DEF Inv
<1> DEFINE t == [s EXCEPT !.nextBlock = @ + 1]
<1>1. s.backfilling /\ call = << >> /\ feed = Off /\ s \in Fields /\ f \in Fills
    BY DEF FillBlock, Active, Bounded, Types
<1>2. s.nextBlock \in Nat /\ s.nextBlock + 1 \in Nat
    BY <1>1, FieldFacts
<1>3. t \in Fields
    BY <1>1, <1>2, SetNextBlock
<1>4. QueueLimit \in Nat /\ Cardinality(waiting') \in Nat
    BY WorkersFacts, WaitingFacts
<1>5. UNCHANGED err
    BY DEF FillBlock
<1>6. CASE s.nextBlock < s.lastFinalizedBlock /\ q # << >>
    <2>1. s' = t /\ fills' = (fills \ {f}) \cup {[f EXCEPT !.req = q[1]]}
          /\ queue' = Tail(q) /\ UNCHANGED call
        BY <1>6 DEF FillBlock
    <2> HIDE DEF t
    <2>2. q[1] \in Reqs /\ Tail(q) \in Seq(Reqs) /\ Len(Tail(q)) = Len(q) - 1 /\ Len(q) \in Nat
        BY <1>6
    <2>3. [f EXCEPT !.req = q[1]] \in Fills
        BY <1>1, <2>2 DEF Fills
    <2>4. fills' \subseteq Fills
        BY <2>1, <2>3 DEF Types
    <2>5. Types'
        BY <1>3, <1>5, <2>1, <2>2, <2>4 DEF Types, CallOK, chain
    <2>6. Len(queue') < QueueLimit + Cardinality(waiting')
        BY <1>4, <2>1, <2>2
    <2>7. Bounded'
        BY <1>1, <2>1, <2>6 DEF Bounded, Off
    <2>. QED
        BY <2>5, <2>7
<1>7. CASE ~(s.nextBlock < s.lastFinalizedBlock /\ q # << >>)
    <2>1. /\ s' = [s EXCEPT !.nextBlock = @ + 1, !.backfilling = FALSE]
          /\ fills' = fills \ {f} /\ queue' = q
          /\ call' = <<Call("backfill", "finalized", s.nextBlock + 1)>>
        BY <1>7 DEF FillBlock
    <2>2. s' = [t EXCEPT !.backfilling = FALSE] /\ ~s'.backfilling
        BY <1>1, <2>1 DEF Fields
    <2> HIDE DEF t
    <2>3. s' \in Fields
        BY <1>3, <2>2, SetBackfilling
    <2>4. s.nextBlock + 1 > 0
        BY <1>2
    <2>5. CallOK'
        BY <1>2, <2>1, <2>4 DEF CallOK, Call, Steps
    <2>6. Types'
        BY <1>5, <2>1, <2>3, <2>5 DEF Types, chain
    <2>7. Bounded'
        BY <1>1, <2>1, <2>2 DEF Bounded, Call, Off
    <2>. QED
        BY <2>6, <2>7
<1>. QED
    BY <1>6, <1>7

LEMMA FillAbandonedInv ==
    ASSUME Inv, NEW f \in fills, NEW q \in Seq(Reqs), FillAbandoned(f, q),
           waiting' \subseteq Workers,
           s.backfilling => Len(q) < QueueLimit + Cardinality(waiting'),
           ~s.backfilling => q = queue,
           UNCHANGED <<chain, feed, loop, exits>>
    PROVE  Inv'
<1>. USE DEF Inv
<1>1. fills' = fills \ {f} /\ queue' = q /\ UNCHANGED <<s, call, err>>
    BY DEF FillAbandoned
<1>2. Types'
    BY <1>1 DEF Types, CallOK, chain
<1>3. Bounded'
    BY <1>1 DEF Bounded, Off
<1>. QED
    BY <1>2, <1>3

LEMMA FillErrorInv ==
    ASSUME Inv, NEW f \in fills, FillError(f), UNCHANGED <<chain, feed, loop, exits>>
    PROVE  Inv'
<1> DEFINE t == [s EXCEPT !.backfilling = FALSE, !.fatalError = TRUE]
<1>1. t \in Fields /\ ~t.backfilling
    BY Failing DEF Inv, Types
<1>2. error("other", NoBlock, t) /\ fills' = fills \ {f}
    BY DEF FillError
<1> HIDE DEF t
<1>3. loop' \in Seq(Reqs) /\ Len(loop') <= 1 /\ fills' \subseteq Fills
    BY <1>2 DEF Inv, Types
<1>. QED
    BY <1>1, <1>2, <1>3, ErrorInv

LEMMA FillInv == ASSUME Inv, Fill PROVE Inv'
<1>1. PICK f \in fills : \E a \in Answers(f.req) :
        LET more == GoesOn(f.req) /\ f.current
        IN  /\ IF a[1].state = "done"
               THEN LET q == IF more THEN Grown(queue, f.req.w) ELSE queue
                    IN  /\ FillBlock(f, a[1].block, q) \/ FillAbandoned(f, q)
                        /\ waiting' = IF more THEN Throttled(queue, f.req.w) ELSE waiting
               ELSE FillError(f)
            /\ UNCHANGED <<chain, feed, loop, exits>>
    BY Zenon DEF Fill
<1>2. PICK a \in Answers(f.req) :
        LET more == GoesOn(f.req) /\ f.current
        IN  /\ IF a[1].state = "done"
               THEN LET q == IF more THEN Grown(queue, f.req.w) ELSE queue
                    IN  /\ FillBlock(f, a[1].block, q) \/ FillAbandoned(f, q)
                        /\ waiting' = IF more THEN Throttled(queue, f.req.w) ELSE waiting
               ELSE FillError(f)
            /\ UNCHANGED <<chain, feed, loop, exits>>
    BY <1>1, Zenon
<1> DEFINE more == GoesOn(f.req) /\ f.current
           q == IF more THEN Grown(queue, f.req.w) ELSE queue
<1>3. UNCHANGED <<chain, feed, loop, exits>>
    BY <1>2
<1>4. CASE a[1].state = "done"
    <2>1. /\ FillBlock(f, a[1].block, q) \/ FillAbandoned(f, q)
          /\ waiting' = IF more THEN Throttled(queue, f.req.w) ELSE waiting
        BY <1>2, <1>4, Zenon
    <2>2. Types /\ queue \in Seq(Reqs) /\ f.req.w \in Workers /\ waiting \subseteq Workers
        BY DEF Inv, Types, Fills, Reqs
    <2>3. more => f.req.w \notin waiting
        BY DEF GoesOn
    <2>4. q \in Seq(Reqs) /\ waiting' \subseteq Workers
        BY <2>1, <2>2, GrownOK
    <2>5. s.backfilling => Len(q) < QueueLimit + Cardinality(waiting')
        <3>1. s.backfilling => Len(queue) < QueueLimit + Cardinality(waiting)
            BY DEF Inv, Bounded
        <3>2. CASE more
            BY <2>1, <2>2, <2>3, <3>1, <3>2, GrownBound
        <3>3. CASE ~more
            BY <2>1, <3>1, <3>3
        <3>. QED
            BY <3>2, <3>3
    <2>6. ~s.backfilling => q = queue
        BY DEF Grown, WantsMore
    <2> HIDE DEF more, q
    <2>7. CASE FillBlock(f, a[1].block, q)
        <3>1. s.backfilling
            BY <2>7 DEF FillBlock, Active
        <3>. QED
            BY <1>3, <2>4, <2>5, <2>7, <3>1, FillBlockInv
    <2>8. CASE FillAbandoned(f, q)
        BY <1>3, <2>4, <2>5, <2>6, <2>8, FillAbandonedInv
    <2>. QED
        BY <2>1, <2>7, <2>8
<1>5. CASE a[1].state # "done"
    <2>1. FillError(f)
        BY <1>2, <1>5, Zenon
    <2>. QED
        BY <1>3, <2>1, FillErrorInv
<1>. QED
    BY <1>4, <1>5

-----------------------------------------------------------------------------
LEMMA StutterInv == ASSUME Inv, UNCHANGED vars PROVE Inv'
BY DEF Inv, Types, Bounded, CallOK, vars, chain, work, hist, Off

LEMMA NextInv == ASSUME Inv, [Next]_vars PROVE Inv'
BY ChainInv, AnswerQueuedInv, ReleaseInv, processQueueInv, DataInv, OutsideErrorInv,
   CallsInv, FillInv, StutterInv DEF Next

LEMMA InvTypeOK == ASSUME Inv PROVE TypeOK
<1>1. /\ s.nextBlock \in Nat /\ s.lastReceived \in Nat /\ s.lastFinalizedBlock \in Int
      /\ Len(loop) <= 1 /\ Len(err) <= 1 /\ waiting \subseteq Workers
    BY FieldFacts DEF Inv, Types
<1>2. Len(call) <= 1
    <2>1. CASE call = << >>
        BY <2>1
    <2>2. CASE call # << >>
        <3>1. \E x : call = <<x>>
            BY <2>2 DEF Inv, Types, CallOK
        <3>2. \A x : Len(<<x>>) = 1
            OBVIOUS
        <3>. QED
            BY <3>1, <3>2
    <2>. QED
        BY <2>1, <2>2
<1>3. \A i \in 1..Len(queue) : queue[i] \in Reqs
    BY ElementOfSeq DEF Inv, Types
<1>4. \A f \in fills : f.req \in Reqs
    BY DEF Inv, Types, Fills
<1>5. \A r \in {queue[i] : i \in 1..Len(queue)} \cup {f.req : f \in fills} : r \in Reqs
    BY <1>3, <1>4
<1>6. \A r \in Reqs : r.n \in Nat /\ r.w \in Workers /\ r.state \in {"pending", "done", "failed"}
    BY DEF Reqs
<1>. QED
    BY <1>1, <1>2, <1>5, <1>6 DEF TypeOK

LEMMA InvQueueBounded == ASSUME Inv PROVE QueueBounded
<1>1. s.backfilling => Len(queue) < QueueLimit + Cardinality(waiting)
    BY DEF Inv, Bounded
<1>2. Cardinality(waiting) \in Nat /\ Cardinality(waiting) <= Cardinality(Workers)
    BY WaitingFacts DEF Inv, Types
<1>3. QueueLimit \in Nat /\ Cardinality(Workers) \in Nat
    BY WorkersFacts
<1>4. Len(queue) \in Nat
    BY DEF Inv, Types
<1>. QED
    BY <1>1, <1>2, <1>3, <1>4 DEF QueueBounded

\* The fields of a subscription, its requests and its calls have the values
\* the code gives them: whatever reorganisations, late events and failures
\* interleave with subscribe, unsubscribe and processQueue, every request is
\* to an existing worker, and one loop and one call are under way at most.
THEOREM SubscriptionTypeOK == Spec => []TypeOK
<1>1. Init => Inv
    BY InitInv
<1>2. Inv /\ [Next]_vars => Inv'
    BY NextInv
<1>3. Inv => TypeOK
    BY InvTypeOK
<1>. QED
    BY <1>1, <1>2, <1>3, PTL DEF Spec

\* The queue of a backfill never grows past the limit that
\* addWorkerJobToQueue looks at by more than one request for every worker,
\* for any number of workers, any limit and any order of answers.
THEOREM SubscriptionQueueBounded == Spec => []QueueBounded
<1>1. Init => Inv
    BY InitInv
<1>2. Inv /\ [Next]_vars => Inv'
    BY NextInv
<1>3. Inv => QueueBounded
    BY InvQueueBounded
<1>. QED
    BY <1>1, <1>2, <1>3, PTL DEF Spec

-----------------------------------------------------------------------------
(***************************************************************************)
(* That no number is left out.  The argument follows the number of the     *)
(* block given next: the one processQueue awaits, the first in the queue,  *)
(* the one after lastReceived or the nextBlock of a backfill or of a call, *)
(* whichever of them comes next.                                           *)
(***************************************************************************)
\* No events arrive while the log subscription is being closed, and no loop
\* goes on that awaits a block of a subscription that was closed.
Punctual == "late" \notin scenario.hazards

\* b is off the branch h only since an earlier reorganisation than the k-th.
Known(b, h, k) == Extends(h, b) \/ b[Len(b)].fork < k
Members(q) == {q[i] : i \in 1..Len(q)}
Requested == Members(queue) \cup Members(loop) \cup {f.req : f \in fills}

\* Every answer has the block of the number asked for, and a block that was
\* fetched and has left the chain does not come back.
Numbered ==
    /\ \A i \in 1..Len(head) : head[i].fork <= forks
    /\ given \subseteq Branches
    /\ \A b \in given : Known(b, head, forks)
    /\ \A r \in Requested : r.state = "done" => Len(r.block) = r.n /\ Known(r.block, head, forks)

Live == call = << >> /\ ~s.backfilling
pend == loop \o queue

\* The requests p ask for numbers without a gap, up to l.
Steady(p, l) ==
    /\ \A i \in 1..(Len(p) - 1) : p[i + 1].n \in {p[i].n, p[i].n + 1}
    /\ p # << >> => p[Len(p)].n = l

\* Loops of an earlier subscription end before the next one begins.
Calm ==
    /\ InCall("closing") => queue = << >> /\ (loop # << >> => Restarting)
    /\ InCall("finalized") \/ InCall("latest") => loop = << >> /\ fills = {}
    /\ InCall("latest") => s.nextBlock = call[1].start /\ s.lastReceived = call[1].start - 1
    /\ Live => fills = {} /\ Steady(pend, s.lastReceived)
    /\ s.backfilling =>
           /\ loop = << >>
           /\ \A f \in fills : fills = {f} /\ f.req.n = s.nextBlock
           /\ \A i \in 1..Len(queue) : queue[i].n = s.nextBlock + i

\* The owner is going to choose another first block.
Stale == Restarting /\ ~InCall("latest")

\* The block given next has at most the number after m.
Within(m) ==
    /\ loop # << >> => loop[1].n <= m + 1
    /\ InCall("finalized") => call[1].start <= m + 1
    /\ ~Stale => s.nextBlock <= m + 1
    /\ Live => IF pend = << >> THEN s.lastReceived <= m ELSE pend[1].n <= m + 1

\* It has no number lower than m, and a backfill none lower than the next.
Above(m) ==
    /\ loop # << >> => m <= loop[1].n
    /\ InCall("finalized") => m <= call[1].start - 1
    /\ ~Stale => m <= s.nextBlock - 1
    /\ Live => IF pend = << >> THEN m <= s.lastReceived ELSE m <= pend[1].n

GapFree ==
    /\ out \in Nat /\ StartBlock - 1 <= out
    /\ Within(out)
    /\ \A b \in given : Extends(head, b) => Len(b) <= out

Low ==
    /\ Above(StartBlock - 1)
    /\ \A b \in given : Extends(head, b) => Above(Len(b))

Emitted ==
    s.lastEmitted # NoBlock =>
        /\ Within(Len(s.lastEmitted))
        /\ StartBlock - 1 <= Len(s.lastEmitted)
        /\ \A b \in given : Extends(head, b) => Len(b) <= Len(s.lastEmitted)

-----------------------------------------------------------------------------
\* Blocks and branches.
LEMMA ExtendsIff ==
    ASSUME NEW h \in Branches, NEW b \in Branches
    PROVE  Extends(h, b) <=> Len(b) <= Len(h) /\ \A i \in 1..Len(b) : b[i] = h[i]
<1>. Len(h) \in Nat /\ Len(b) \in Nat /\ b \in Seq(Labels) /\ h \in Seq(Labels)
    BY DEF Branches
<1>1. ASSUME Len(b) <= Len(h)
      PROVE  Ancestor(h, Len(b)) = b <=> \A i \in 1..Len(b) : b[i] = h[i]
    <2>1. \A i \in 1..Len(b) : h[i] \in Labels
        BY <1>1
    <2>2. /\ Ancestor(h, Len(b)) \in Seq(Labels) /\ Len(Ancestor(h, Len(b))) = Len(b)
          /\ \A i \in 1..Len(b) : Ancestor(h, Len(b))[i] = h[i]
        <3>1. \A i \in 1..(Len(b) - 1 + 1) : SubSeq(h, 1, Len(b))[i] = h[1 + i - 1]
            BY <2>1, SubSeqProperties
        <3>2. SubSeq(h, 1, Len(b)) \in Seq(Labels)
              /\ Len(SubSeq(h, 1, Len(b))) = IF 1 <= Len(b) THEN Len(b) - 1 + 1 ELSE 0
            BY <2>1, SubSeqProperties
        <3>. QED
            BY <3>1, <3>2 DEF Ancestor
    <2>3. (\A i \in 1..Len(b) : b[i] = h[i]) => Ancestor(h, Len(b)) = b
        BY <2>2, SeqEqual
    <2>. QED
        BY <2>2, <2>3
<1>. QED
    BY <1>1 DEF Extends

\* The block of a number, and its parent.
LEMMA AncestorFacts ==
    ASSUME NEW h \in Branches, NEW n \in Nat, n <= Len(h)
    PROVE  /\ Ancestor(h, n) \in Branches /\ Len(Ancestor(h, n)) = n
           /\ \A i \in 1..n : Ancestor(h, n)[i] = h[i]
           /\ Extends(h, Ancestor(h, n))
<1>. Len(h) \in Nat /\ h \in Seq(Labels)
    BY DEF Branches
<1>1. \A i \in 1..n : h[i] \in Labels
    OBVIOUS
<1>2. \A i \in 1..(n - 1 + 1) : SubSeq(h, 1, n)[i] = h[1 + i - 1]
    BY <1>1, SubSeqProperties
<1>3. SubSeq(h, 1, n) \in Seq(Labels) /\ Len(SubSeq(h, 1, n)) = IF 1 <= n THEN n - 1 + 1 ELSE 0
    BY <1>1, SubSeqProperties
<1>4. Len(SubSeq(h, 1, n)) = n
    BY <1>3
<1>5. Extends(h, Ancestor(h, n))
    BY <1>4 DEF Extends, Ancestor
<1>. QED
    BY <1>2, <1>3, <1>4, <1>5 DEF Ancestor, Branches

\* The chain becomes its first n blocks and others, made by reorganisation k.
LEMMA Grafted ==
    ASSUME NEW h \in Branches, NEW n \in 0..Len(h), NEW g \in Branches, NEW k \in Nat,
           Len(g) > n, \A i \in 1..n : g[i] = h[i], \A i \in (n + 1)..Len(g) : g[i].fork = k,
           NEW k0 \in Nat, (k0 = k /\ n = Len(h)) \/ k0 < k,
           \A i \in 1..Len(h) : h[i].fork <= k0,
           NEW b \in Branches, Known(b, h, k0)
    PROVE  Known(b, g, k) /\ (Extends(g, b) => Extends(h, b))
<1>. Len(h) \in Nat /\ Len(g) \in Nat /\ Len(b) \in Nat /\ b \in Seq(Labels) /\ h \in Seq(Labels)
    BY DEF Branches
<1>0. \A i \in 1..Len(b) : b[i].fork \in Nat
    <2>1. \A i \in 1..Len(b) : b[i] \in Labels
        OBVIOUS
    <2>. QED
        BY <2>1 DEF Labels
<1>1. ASSUME Extends(g, b), ~Extends(h, b) PROVE FALSE
    <2>1. Len(b) <= Len(g) /\ \A i \in 1..Len(b) : b[i] = g[i]
        BY <1>1, ExtendsIff
    <2>2. Len(b) > n
        BY <1>1, <2>1, ExtendsIff
    <2>3. b[Len(b)].fork = k
        BY <2>1, <2>2
    <2>4. b[Len(b)].fork < k0
        BY <1>1 DEF Known
    <2>. QED
        BY <2>3, <2>4
<1>2. ASSUME ~Extends(g, b) PROVE b[Len(b)].fork < k
    <2>1. CASE Extends(h, b)
        <3>1. Len(b) <= Len(h) /\ \A i \in 1..Len(b) : b[i] = h[i]
            BY <2>1, ExtendsIff
        <3>2. Len(b) > n
            BY <1>2, <3>1, ExtendsIff
        <3>3. b[Len(b)] = h[Len(b)] /\ Len(b) \in 1..Len(h)
            BY <3>1, <3>2
        <3>4. b[Len(b)].fork <= k0 /\ b[Len(b)].fork \in Nat
            BY <1>0, <3>2, <3>3
        <3>5. k0 < k
            BY <3>1, <3>2
        <3>. QED
            BY <3>4, <3>5
    <2>2. CASE ~Extends(h, b)
        <3>1. b[Len(b)].fork < k0
            BY <2>2 DEF Known
        <3>2. Len(b) # 0
            BY <1>2, ExtendsIff
        <3>3. b[Len(b)].fork \in Nat
            BY <1>0, <3>2
        <3>. QED
            BY <3>1, <3>3
    <2>. QED
        BY <2>1, <2>2
<1>. QED
    BY <1>1, <1>2 DEF Known

-----------------------------------------------------------------------------
\* Sequences of requests.
LEMMA MembersOf ==
    ASSUME NEW q \in Seq(Reqs), q # << >>
    PROVE  Members(q) = {q[1]} \cup Members(Tail(q))
<1>. Len(q) \in Nat \ {0} /\ Len(Tail(q)) = Len(q) - 1 /\ \A i \in 1..Len(Tail(q)) : Tail(q)[i] = q[i + 1]
    OBVIOUS
<1>1. ASSUME NEW i \in 1..Len(q) PROVE q[i] \in {q[1]} \cup Members(Tail(q))
    <2>1. CASE i = 1
        BY <2>1
    <2>2. CASE i # 1
        <3>1. i - 1 \in 1..Len(Tail(q)) /\ Tail(q)[i - 1] = q[i]
            BY <2>2
        <3>. QED
            BY <3>1 DEF Members
    <2>. QED
        BY <2>1, <2>2
<1>2. ASSUME NEW i \in 1..Len(Tail(q)) PROVE Tail(q)[i] \in Members(q)
    <2>1. i + 1 \in 1..Len(q)
        OBVIOUS
    <2>. QED
        BY <2>1 DEF Members
<1>3. q[1] \in Members(q)
    BY DEF Members
<1>. QED
    BY <1>1, <1>2, <1>3 DEF Members

LEMMA MembersConcat ==
    ASSUME NEW p \in Seq(Reqs), NEW q \in Seq(Reqs)
    PROVE  Members(p \o q) = Members(p) \cup Members(q)
<1>. Len(p) \in Nat /\ Len(q) \in Nat
    OBVIOUS
<1>1. /\ Len(p \o q) = Len(p) + Len(q)
      /\ \A i \in 1..(Len(p) + Len(q)) : (p \o q)[i] = IF i <= Len(p) THEN p[i] ELSE q[i - Len(p)]
    BY ConcatProperties
<1>2. ASSUME NEW i \in 1..(Len(p) + Len(q)) PROVE (p \o q)[i] \in Members(p) \cup Members(q)
    <2>1. CASE i <= Len(p)
        BY <1>1, <2>1 DEF Members
    <2>2. CASE i > Len(p)
        <3>1. i - Len(p) \in 1..Len(q) /\ (p \o q)[i] = q[i - Len(p)]
            BY <1>1, <2>2
        <3>. QED
            BY <3>1 DEF Members
    <2>. QED
        BY <2>1, <2>2
<1>3. ASSUME NEW i \in 1..Len(p) PROVE p[i] \in Members(p \o q)
    <2>1. i \in 1..(Len(p) + Len(q)) /\ (p \o q)[i] = p[i]
        BY <1>1
    <2>. QED
        BY <1>1, <2>1 DEF Members
<1>4. ASSUME NEW i \in 1..Len(q) PROVE q[i] \in Members(p \o q)
    <2>1. i + Len(p) \in 1..(Len(p) + Len(q)) /\ (p \o q)[i + Len(p)] = q[i]
        BY <1>1
    <2>. QED
        BY <1>1, <2>1 DEF Members
<1>. QED
    BY <1>1, <1>2, <1>3, <1>4 DEF Members

LEMMA MembersExcept ==
    ASSUME NEW q \in Seq(Reqs), NEW i \in 1..Len(q), NEW r \in Reqs
    PROVE  Members([q EXCEPT ![i] = r]) \subseteq Members(q) \cup {r}
<1>1. /\ Len([q EXCEPT ![i] = r]) = Len(q)
      /\ \A j \in 1..Len(q) : [q EXCEPT ![i] = r][j] = IF j = i THEN r ELSE q[j]
    BY ExceptSeq
<1>. QED
    BY <1>1 DEF Members

LEMMA MembersEmpty == Members(<< >>) = {} /\ \A r : Members(<<r>>) = {r}
<1>1. Len(<< >>) = 0 /\ \A r : Len(<<r>>) = 1 /\ <<r>>[1] = r
    OBVIOUS
<1>. QED
    BY <1>1 DEF Members

\* The loop takes the first request of the queue, if any.
LEMMA TakeFacts ==
    ASSUME NEW q \in Seq(Reqs), NEW fatal, Take(q, fatal)
    PROVE  /\ loop' \o queue' = q
           /\ Members(loop') \cup Members(queue') = Members(q)
           /\ q = << >> => loop' = << >>
           /\ loop' # << >> => q # << >> /\ loop' = <<q[1]>>
<1>1. CASE q = << >> \/ fatal
    BY <1>1, MembersEmpty, ConcatEmptySeq DEF Take
<1>2. CASE ~(q = << >> \/ fatal)
    <2>1. loop' = <<q[1]>> /\ queue' = Tail(q) /\ q # << >>
        BY <1>2 DEF Take
    <2>2. <<q[1]>> \o Tail(q) = q
        BY <2>1
    <2>3. Members(loop') \cup Members(queue') = Members(q)
        BY <2>1, MembersOf, MembersEmpty
    <2>. QED
        BY <2>1, <2>2, <2>3
<1>. QED
    BY <1>1, <1>2

LEMMA SteadyTail ==
    ASSUME NEW q \in Seq(Reqs), NEW x \in Reqs, NEW l \in Nat, Steady(<<x>> \o q, l)
    PROVE  /\ Steady(q, l)
           /\ q = << >> => l = x.n
           /\ q # << >> => q[1].n \in {x.n, x.n + 1}
<1> DEFINE p == <<x>> \o q
<1>. Len(q) \in Nat
    OBVIOUS
<1>1. <<x>> \in Seq(Reqs) /\ Len(<<x>>) = 1
    OBVIOUS
<1>2. Len(p) = Len(q) + 1 /\ p[1] = x /\ \A i \in 1..Len(q) : p[i + 1] = q[i]
    <2>1. /\ Len(p) = 1 + Len(q)
          /\ \A i \in 1..(1 + Len(q)) : p[i] = IF i <= 1 THEN <<x>>[i] ELSE q[i - 1]
        BY <1>1, ConcatProperties
    <2> HIDE DEF p
    <2>. QED
        BY <2>1
<1>3. \A i \in 1..(Len(p) - 1) : p[i + 1].n \in {p[i].n, p[i].n + 1}
    BY DEF Steady
<1>4. p[Len(p)].n = l
    BY <1>1, ConcatEqualIffEmpty DEF Steady
<1> HIDE DEF p
<1>5. \A i \in 1..(Len(q) - 1) : q[i + 1].n \in {q[i].n, q[i].n + 1}
    <2> SUFFICES ASSUME NEW i \in 1..(Len(q) - 1) PROVE q[i + 1].n \in {q[i].n, q[i].n + 1}
        OBVIOUS
    <2>1. i + 1 \in 1..(Len(p) - 1) /\ p[i + 1] = q[i] /\ p[i + 1 + 1] = q[i + 1]
        BY <1>2
    <2>. QED
        BY <1>3, <2>1
<1>6. q # << >> => q[Len(q)].n = l /\ q[1].n \in {x.n, x.n + 1}
    <2> SUFFICES ASSUME q # << >> PROVE q[Len(q)].n = l /\ q[1].n \in {x.n, x.n + 1}
        OBVIOUS
    <2>1. Len(q) \in 1..Len(q) /\ 1 \in 1..Len(q) /\ 1 \in 1..(Len(p) - 1)
        BY <1>2
    <2>2. p[Len(q) + 1] = q[Len(q)] /\ p[1 + 1] = q[1]
        BY <1>2, <2>1
    <2>. QED
        BY <1>2, <1>3, <1>4, <2>1, <2>2
<1>7. q = << >> => l = x.n
    BY <1>2, <1>4
<1>. QED
    BY <1>5, <1>6, <1>7 DEF Steady

\* New requests, from the number after the last or from the last one itself.
LEMMA SteadyConcat ==
    ASSUME NEW p \in Seq(Reqs), NEW q \in Seq(Reqs), NEW l \in Nat, NEW n \in Nat,
           Steady(p, l), q # << >>, q[1].n \in {l, l + 1}, Steady(q, n)
    PROVE  /\ Steady(p \o q, n)
           /\ p \o q # << >>
           /\ (p \o q)[1] = IF p = << >> THEN q[1] ELSE p[1]
<1> DEFINE c == p \o q
<1>. Len(p) \in Nat /\ Len(q) \in Nat \ {0}
    OBVIOUS
<1>1. /\ Len(c) = Len(p) + Len(q)
      /\ \A i \in 1..Len(p) : c[i] = p[i]
      /\ \A i \in 1..Len(q) : c[i + Len(p)] = q[i]
    <2>1. /\ Len(c) = Len(p) + Len(q)
          /\ \A i \in 1..(Len(p) + Len(q)) : c[i] = IF i <= Len(p) THEN p[i] ELSE q[i - Len(p)]
        BY ConcatProperties
    <2> HIDE DEF c
    <2>. QED
        BY <2>1
<1>2. c # << >>
    BY ConcatEqualIffEmpty
<1>3. c[1] = IF p = << >> THEN q[1] ELSE p[1]
    <2>1. CASE p = << >>
        BY <1>1, <2>1
    <2>2. CASE p # << >>
        BY <1>1, <2>2
    <2>. QED
        BY <2>1, <2>2
<1> HIDE DEF c
<1>4. \A i \in 1..(Len(c) - 1) : c[i + 1].n \in {c[i].n, c[i].n + 1}
    <2> SUFFICES ASSUME NEW i \in 1..(Len(c) - 1) PROVE c[i + 1].n \in {c[i].n, c[i].n + 1}
        OBVIOUS
    <2>1. CASE i < Len(p)
        <3>1. c[i] = p[i] /\ c[i + 1] = p[i + 1] /\ i \in 1..(Len(p) - 1)
            BY <1>1, <2>1
        <3>. QED
            BY <3>1 DEF Steady
    <2>2. CASE i = Len(p)
        <3>1. c[i] = p[Len(p)] /\ c[i + 1] = q[1] /\ p # << >>
            BY <1>1, <2>2
        <3>2. p[Len(p)].n = l
            BY <3>1 DEF Steady
        <3>. QED
            BY <3>1, <3>2
    <2>3. CASE i > Len(p)
        <3>1. i - Len(p) \in 1..(Len(q) - 1)
            BY <1>1, <2>3
        <3>2. PICK j \in 1..(Len(q) - 1) : j = i - Len(p)
            BY <3>1
        <3>3. j \in 1..Len(q) /\ j + 1 \in 1..Len(q) /\ j + Len(p) = i /\ (j + 1) + Len(p) = i + 1
            BY <3>2
        <3>4. c[j + Len(p)] = q[j] /\ c[(j + 1) + Len(p)] = q[j + 1]
            BY <1>1, <3>3
        <3>5. c[i] = q[j] /\ c[i + 1] = q[j + 1]
            BY <3>3, <3>4
        <3>. QED
            BY <3>5 DEF Steady
    <2>. QED
        BY <2>1, <2>2, <2>3
<1>5. c[Len(c)].n = n
    <2>1. c[Len(c)] = q[Len(q)]
        BY <1>1
    <2>. QED
        BY <2>1 DEF Steady
<1>6. Steady(c, n)
    BY <1>4, <1>5 DEF Steady
<1>. QED
    BY <1>2, <1>3, <1>6 DEF c

\* Only the numbers count.
LEMMA SteadySame ==
    ASSUME NEW p \in Seq(Reqs), NEW q \in Seq(Reqs), NEW l, Len(p) = Len(q),
           \A i \in 1..Len(p) : p[i].n = q[i].n, Steady(p, l)
    PROVE  Steady(q, l)
<1>. Len(p) \in Nat
    OBVIOUS
<1>1. \A i \in 1..(Len(p) - 1) : i \in 1..Len(p) /\ i + 1 \in 1..Len(p)
    OBVIOUS
<1>2. \A i \in 1..(Len(q) - 1) : q[i + 1].n \in {q[i].n, q[i].n + 1}
    BY <1>1 DEF Steady
<1>3. q # << >> => p # << >> /\ Len(q) \in 1..Len(p)
    OBVIOUS
<1>. QED
    BY <1>2, <1>3 DEF Steady

-----------------------------------------------------------------------------
\* Where requests and blocks come from: an answer is the block that the chain
\* has of the number asked for.
Fresh(r) == r.n <= Len(head) /\ r.block = BlockAt(r.n)
Truthful == \A r \in Requested' : r.state = "done" => r \in Requested \/ Fresh(r)
GivesOnly == \A b \in given' : b \in given \/
                 \E r \in Reqs : r.state = "done" /\ (r \in Requested \/ Fresh(r)) /\ b = r.block

LEMMA AnswerFacts ==
    ASSUME Types, NEW r \in Reqs, NEW a \in Answers(r)
    PROVE  /\ a[1] \in Reqs /\ a[1].n = r.n
           /\ a[1].state = "done" => a[1] = r \/ Fresh(a[1])
<1>1. a[1] \in Reqs
    BY AnswersOK
<1>2. a[1] = r \/ a[1] = Failed(r) \/ (r.n <= Len(head) /\ a[1] = Answered(r))
    BY DEF Answers
<1>3. Failed(r).n = r.n /\ Failed(r).state = "failed"
    BY DEF Failed, Reqs
<1>4. Answered(r).n = r.n /\ Answered(r).block = BlockAt(r.n)
    BY DEF Answered, Reqs
<1>. QED
    BY <1>1, <1>2, <1>3, <1>4 DEF Fresh

LEMMA GrownFacts ==
    ASSUME Types, NEW q \in Seq(Reqs), NEW w \in Workers
    PROVE  /\ Grown(q, w) \in Seq(Reqs)
           /\ \A r \in Members(Grown(q, w)) : r \in Members(q) \/ r.state = "pending"
           /\ ~s.backfilling => Grown(q, w) = q
           /\ (\A i \in 1..Len(q) : q[i].n = s.nextBlock + i) =>
                  \A i \in 1..Len(Grown(q, w)) : Grown(q, w)[i].n = s.nextBlock + i
<1>. Len(q) \in Nat /\ s.nextBlock \in Nat
    BY FieldFacts DEF Types
<1>1. CASE ~WantsMore(q)
    BY <1>1 DEF Grown
<1>2. CASE WantsMore(q)
    <2> DEFINE n == s.nextBlock + Len(q) + 1
               x == Request(n, w, TRUE)
    <2>1. n \in Nat
        OBVIOUS
    <2>2. x \in Reqs /\ x.n = n /\ x.state = "pending"
        BY <2>1, RequestOK DEF Request
    <2>3. Grown(q, w) = Append(q, x)
        BY <1>2 DEF Grown, AddJob
    <2>4. n = s.nextBlock + (Len(q) + 1)
        OBVIOUS
    <2> HIDE DEF x, n
    <2>5. /\ Append(q, x) \in Seq(Reqs) /\ Len(Append(q, x)) = Len(q) + 1
          /\ \A i \in 1..Len(q) : Append(q, x)[i] = q[i]
          /\ Append(q, x)[Len(q) + 1] = x
        BY <2>2
    <2>6. \A i \in 1..(Len(q) + 1) : i \in 1..Len(q) \/ i = Len(q) + 1
        OBVIOUS
    <2>7. \A r \in Members(Append(q, x)) : r \in Members(q) \/ r = x
        BY <2>5, <2>6 DEF Members
    <2>8. s.backfilling
        BY <1>2 DEF WantsMore
    <2>9. (\A i \in 1..Len(q) : q[i].n = s.nextBlock + i) =>
              \A i \in 1..(Len(q) + 1) : Append(q, x)[i].n = s.nextBlock + i
        <3> SUFFICES ASSUME \A i \in 1..Len(q) : q[i].n = s.nextBlock + i,
                            NEW i \in 1..(Len(q) + 1)
                     PROVE  Append(q, x)[i].n = s.nextBlock + i
            OBVIOUS
        <3>1. CASE i \in 1..Len(q)
            BY <2>5, <3>1
        <3>2. CASE i = Len(q) + 1
            BY <2>2, <2>4, <2>5, <3>2
        <3>. QED
            BY <2>6, <3>1, <3>2
    <2>. QED
        BY <2>2, <2>3, <2>5, <2>7, <2>8, <2>9
<1>. QED
    BY <1>1, <1>2

\* What the actions that await an answer do with it.
LEMMA AnswerQueuedCases ==
    ASSUME Inv, AnswerQueued
    PROVE  /\ \E i \in 1..Len(queue), r \in Reqs :
                  /\ r.n = queue[i].n /\ (r.state = "done" => r = queue[i] \/ Fresh(r))
                  /\ \/ queue' = [queue EXCEPT ![i] = r]
                     \/ \E w \in Workers : queue' = Grown([queue EXCEPT ![i] = r], w)
           /\ UNCHANGED <<chain, feed, s, loop, fills, exits, call, err, hist>>
<1>0. Types
    BY DEF Inv
<1>a. PICK i \in 1..Len(queue) : \E a \in Answers(queue[i]) :
        queue' = IF GoesOn(queue[i]) THEN Grown([queue EXCEPT ![i] = a[1]], queue[i].w)
                 ELSE [queue EXCEPT ![i] = a[1]]
    BY DEF AnswerQueued
<1>1. PICK a \in Answers(queue[i]) :
        queue' = IF GoesOn(queue[i]) THEN Grown([queue EXCEPT ![i] = a[1]], queue[i].w)
                 ELSE [queue EXCEPT ![i] = a[1]]
    BY <1>a
<1>2. queue[i] \in Reqs
    BY <1>0, ElementOfSeq DEF Types
<1>3. a[1] \in Reqs /\ a[1].n = queue[i].n /\ (a[1].state = "done" => a[1] = queue[i] \/ Fresh(a[1]))
    BY <1>0, <1>2, AnswerFacts
<1>4. queue[i].w \in Workers
    BY <1>2 DEF Reqs
<1>5. \/ queue' = [queue EXCEPT ![i] = a[1]]
      \/ \E w \in Workers : queue' = Grown([queue EXCEPT ![i] = a[1]], w)
    BY <1>1, <1>4
<1>6. UNCHANGED <<chain, feed, s, loop, fills, exits, call, err, hist>>
    BY DEF AnswerQueued
<1>. QED
    BY <1>3, <1>5, <1>6

LEMMA ReleaseCases ==
    ASSUME Inv, Release
    PROVE  /\ queue' = queue \/ \E w \in Workers : queue' = Grown(queue, w)
           /\ UNCHANGED <<chain, feed, s, loop, fills, exits, call, err, hist>>
BY DEF Inv, Types, Release

LEMMA processQueueCases ==
    ASSUME Inv, processQueue
    PROVE  /\ loop # << >> /\ loop[1] \in Reqs /\ loop = <<loop[1]>>
           /\ \/ \E r \in Reqs :
                     /\ r.n = loop[1].n /\ r.state = "done" /\ (r = loop[1] \/ Fresh(r))
                     /\ ProcessBlock(r.block) \/ ProcessReorg(r.block)
              \/ ProcessError
           /\ UNCHANGED <<chain, feed, fills, exits>>
<1>0. Types
    BY DEF Inv
<1>1. PICK a \in Answers(loop[1]) :
        /\ IF a[1].state = "done" THEN ProcessBlock(a[1].block) \/ ProcessReorg(a[1].block)
           ELSE ProcessError
    BY DEF processQueue
<1>2. loop # << >> /\ UNCHANGED <<chain, feed, fills, exits>>
    BY DEF processQueue
<1>3. loop[1] \in Reqs /\ loop = <<loop[1]>>
    <2>1. loop \in Seq(Reqs) /\ Len(loop) <= 1
        BY <1>0 DEF Types
    <2>. QED
        BY <1>2, <2>1
<1>4. a[1] \in Reqs /\ a[1].n = loop[1].n /\ (a[1].state = "done" => a[1] = loop[1] \/ Fresh(a[1]))
    BY <1>0, <1>3, AnswerFacts
<1>. QED
    BY <1>1, <1>2, <1>3, <1>4

LEMMA FillCases ==
    ASSUME Inv, Fill
    PROVE  \E f \in fills :
              /\ f \in Fills
              /\ \/ \E q \in Seq(Reqs), r \in Reqs :
                        /\ r.n = f.req.n /\ r.state = "done" /\ (r = f.req \/ Fresh(r))
                        /\ q = queue \/ \E w \in Workers : q = Grown(queue, w)
                        /\ FillBlock(f, r.block, q) \/ FillAbandoned(f, q)
                 \/ FillError(f)
              /\ UNCHANGED <<chain, feed, loop, exits>>
<1>0. Types
    BY DEF Inv
<1>1. PICK f \in fills : \E a \in Answers(f.req) :
        LET more == GoesOn(f.req) /\ f.current
        IN  /\ IF a[1].state = "done"
               THEN LET q == IF more THEN Grown(queue, f.req.w) ELSE queue
                    IN  FillBlock(f, a[1].block, q) \/ FillAbandoned(f, q)
               ELSE FillError(f)
            /\ UNCHANGED <<chain, feed, loop, exits>>
    BY Zenon DEF Fill
<1>2. PICK a \in Answers(f.req) :
        LET more == GoesOn(f.req) /\ f.current
        IN  /\ IF a[1].state = "done"
               THEN LET q == IF more THEN Grown(queue, f.req.w) ELSE queue
                    IN  FillBlock(f, a[1].block, q) \/ FillAbandoned(f, q)
               ELSE FillError(f)
            /\ UNCHANGED <<chain, feed, loop, exits>>
    BY <1>1, Zenon
<1> DEFINE more == GoesOn(f.req) /\ f.current
           q == IF more THEN Grown(queue, f.req.w) ELSE queue
<1>3. f \in Fills /\ f.req \in Reqs /\ f.req.w \in Workers
    BY <1>0 DEF Types, Fills, Reqs
<1>4. a[1] \in Reqs /\ a[1].n = f.req.n /\ (a[1].state = "done" => a[1] = f.req \/ Fresh(a[1]))
    BY <1>0, <1>3, AnswerFacts
<1>5. q \in Seq(Reqs) /\ (q = queue \/ \E w \in Workers : q = Grown(queue, w))
    <2>1. queue \in Seq(Reqs)
        BY <1>0 DEF Types
    <2>2. Grown(queue, f.req.w) \in Seq(Reqs)
        BY <1>0, <1>3, <2>1, GrownFacts
    <2>. QED
        BY <1>3, <2>1, <2>2
<1>6. UNCHANGED <<chain, feed, loop, exits>>
    BY <1>2
<1>7. CASE a[1].state = "done"
    <2>1. FillBlock(f, a[1].block, q) \/ FillAbandoned(f, q)
        BY <1>2, <1>7, Zenon
    <2> HIDE DEF q
    <2>. QED
        BY <1>3, <1>4, <1>5, <1>6, <1>7, <2>1
<1>8. CASE a[1].state # "done"
    <2>1. FillError(f)
        BY <1>2, <1>8, Zenon
    <2>. QED
        BY <1>3, <1>6, <2>1
<1>. QED
    BY <1>7, <1>8

\* The requests there are, and where the blocks given come from.
LEMMA ErrorRequests ==
    ASSUME NEW kind, NEW b, NEW t, error(kind, b, t)
    PROVE  queue' = queue \/ queue' = << >>
BY DEF error, Unsubscribe

LEMMA ProcessRequests == ASSUME Inv, processQueue PROVE Truthful /\ GivesOnly
<1>1. /\ loop # << >> /\ loop = <<loop[1]>> /\ UNCHANGED fills
      /\ \/ \E r \in Reqs :
                /\ r.n = loop[1].n /\ r.state = "done" /\ (r = loop[1] \/ Fresh(r))
                /\ ProcessBlock(r.block) \/ ProcessReorg(r.block)
         \/ ProcessError
    BY processQueueCases
<1>2. queue \in Seq(Reqs) /\ loop[1] \in Requested
    <2>1. loop[1] \in Members(loop)
        BY <1>1, MembersEmpty
    <2>. QED
        BY <2>1 DEF Inv, Types, Requested
<1>3. ASSUME loop' = << >>, queue' = queue \/ queue' = << >>, UNCHANGED hist
      PROVE  Truthful /\ GivesOnly
    BY <1>1, <1>3, MembersEmpty DEF Truthful, GivesOnly, Requested, hist
<1>4. ASSUME NEW r \in Reqs, r.state = "done", r = loop[1] \/ Fresh(r), ProcessBlock(r.block)
      PROVE  Truthful /\ GivesOnly
    <2>1. Take(queue, s.fatalError) /\ given' = given \cup {r.block}
        BY <1>4 DEF ProcessBlock, next
    <2>2. Members(loop') \cup Members(queue') = Members(queue)
        BY <1>2, <2>1, TakeFacts
    <2>3. Truthful
        BY <1>1, <2>2 DEF Truthful, Requested
    <2>4. r \in Requested \/ Fresh(r)
        BY <1>2, <1>4
    <2>5. GivesOnly
        BY <1>4, <2>1, <2>4 DEF GivesOnly
    <2>. QED
        BY <2>3, <2>5
<1>5. ASSUME NEW b, ProcessReorg(b) PROVE Truthful /\ GivesOnly
    BY <1>3, <1>5, ErrorRequests DEF ProcessReorg
<1>6. ASSUME ProcessError PROVE Truthful /\ GivesOnly
    BY <1>3, <1>6, ErrorRequests DEF ProcessError
<1>. QED
    BY <1>1, <1>4, <1>5, <1>6

LEMMA FillRequests == ASSUME Inv, Fill PROVE Truthful /\ GivesOnly
<1>1. PICK f \in fills :
              /\ f \in Fills
              /\ \/ \E q \in Seq(Reqs), r \in Reqs :
                        /\ r.n = f.req.n /\ r.state = "done" /\ (r = f.req \/ Fresh(r))
                        /\ q = queue \/ \E w \in Workers : q = Grown(queue, w)
                        /\ FillBlock(f, r.block, q) \/ FillAbandoned(f, q)
                 \/ FillError(f)
              /\ UNCHANGED <<chain, feed, loop, exits>>
    BY FillCases
<1>2. Types /\ queue \in Seq(Reqs) /\ f.req \in Requested
    BY DEF Inv, Types, Requested
<1>3. ASSUME FillError(f) PROVE Truthful /\ GivesOnly
    <2>1. queue' = queue \/ queue' = << >>
        BY <1>3, ErrorRequests DEF FillError
    <2>2. fills' \subseteq fills /\ UNCHANGED hist
        BY <1>3 DEF FillError
    <2>. QED
        BY <1>1, <2>1, <2>2, MembersEmpty DEF Truthful, GivesOnly, Requested, hist
<1>4. ASSUME NEW q \in Seq(Reqs), NEW r \in Reqs, r.state = "done", r = f.req \/ Fresh(r),
             q = queue \/ \E w \in Workers : q = Grown(queue, w),
             FillBlock(f, r.block, q) \/ FillAbandoned(f, q)
      PROVE  Truthful /\ GivesOnly
    <2>1. \A x \in Members(q) : x \in Members(queue) \/ x.state = "pending"
        BY <1>2, <1>4, GrownFacts
    <2>2. CASE FillAbandoned(f, q)
        <3>1. queue' = q /\ fills' \subseteq fills /\ UNCHANGED hist
            BY <2>2 DEF FillAbandoned
        <3>. QED
            BY <1>1, <2>1, <3>1 DEF Truthful, GivesOnly, Requested, hist
    <2>3. CASE FillBlock(f, r.block, q)
        <3>1. given' = given \cup {r.block}
            BY <2>3 DEF FillBlock, next
        <3>2. GivesOnly
            BY <1>2, <1>4, <3>1 DEF GivesOnly
        <3>3. ASSUME NEW x \in Requested' PROVE x \in Requested \/ x.state = "pending"
            <4>1. CASE s.nextBlock < s.lastFinalizedBlock /\ q # << >>
                <5>1. queue' = Tail(q) /\ fills' = (fills \ {f}) \cup {[f EXCEPT !.req = q[1]]}
                    BY <2>3, <4>1 DEF FillBlock
                <5>2. Members(q) = {q[1]} \cup Members(Tail(q))
                    BY <4>1, MembersOf
                <5>3. [f EXCEPT !.req = q[1]].req = q[1]
                    BY <1>1 DEF Fills
                <5>4. \A g \in fills' : g \in fills \/ g.req = q[1]
                    BY <5>1, <5>3
                <5>5. x \in Members(q) \/ x \in Requested
                    BY <1>1, <3>3, <5>1, <5>2, <5>4 DEF Requested
                <5>. QED
                    BY <2>1, <5>5 DEF Requested
            <4>2. CASE ~(s.nextBlock < s.lastFinalizedBlock /\ q # << >>)
                <5>1. queue' = q /\ fills' = fills \ {f}
                    BY <2>3, <4>2 DEF FillBlock
                <5>. QED
                    BY <1>1, <2>1, <3>3, <5>1 DEF Requested
            <4>. QED
                BY <4>1, <4>2
        <3>4. Truthful
            BY <3>3 DEF Truthful
        <3>. QED
            BY <3>2, <3>4
    <2>. QED
        BY <1>4, <2>2, <2>3
<1>. QED
    BY <1>1, <1>3, <1>4

\* The requests for a block of an event.
LEMMA RequestsFacts ==
    ASSUME Types, NEW n \in Nat, n >= s.lastReceived
    PROVE  /\ Requests(n) \in Seq(Reqs) /\ Requests(n) # << >>
           /\ \A r \in Members(Requests(n)) : r.state = "pending"
           /\ \A r \in Members(Requests(n)) : s.lastReceived < r.n \/ n <= r.n
           /\ Steady(Requests(n), n)
           /\ Requests(n)[1].n \in {s.lastReceived, s.lastReceived + 1}
<1> DEFINE first == IF n > s.lastReceived THEN s.lastReceived + 1 ELSE n
           q == Requests(n)
<1>1. s.lastReceived \in Nat
    BY FieldFacts DEF Types
<1>2. first \in Nat /\ n - first + 1 \in Nat \ {0} /\ first \in {s.lastReceived, s.lastReceived + 1}
      /\ first >= s.lastReceived
    BY <1>1
<1>a. s.lastReceived < first \/ n <= first
    BY <1>1
<1>3. q \in Seq(Reqs)
    BY RequestsOK
<1>4. q = [i \in 1..(n - first + 1) |-> Request(first + i - 1, 0, FALSE)]
    BY DEF Requests
<1> HIDE DEF first, q
<1>5. /\ DOMAIN q = 1..(n - first + 1)
      /\ \A i \in 1..(n - first + 1) : q[i].n = first + i - 1 /\ q[i].state = "pending"
    BY <1>4 DEF Request
<1>6. Len(q) = n - first + 1 /\ q # << >>
    <2>1. Len(q) \in Nat /\ DOMAIN q = 1..Len(q)
        BY <1>3, LenProperties
    <2>2. Len(q) = n - first + 1
        BY <1>2, <1>5, <2>1
    <2>. QED
        BY <1>2, <2>2
<1>7. Steady(q, n)
    <2>1. ASSUME NEW i \in 1..(Len(q) - 1) PROVE q[i + 1].n = q[i].n + 1
        <3>1. i \in 1..(n - first + 1) /\ i + 1 \in 1..(n - first + 1)
            BY <1>2, <1>6
        <3>2. q[i].n = first + i - 1 /\ q[i + 1].n = first + (i + 1) - 1
            BY <1>5, <3>1
        <3>. QED
            BY <1>2, <3>2
    <2>2. q[Len(q)].n = n
        <3>1. Len(q) \in 1..(n - first + 1)
            BY <1>2, <1>6
        <3>2. q[Len(q)].n = first + Len(q) - 1
            BY <1>5, <3>1
        <3>. QED
            BY <1>2, <1>6, <3>2
    <2>. QED
        BY <2>1, <2>2 DEF Steady
<1>8. q[1].n = first
    <2>1. 1 \in 1..(n - first + 1) /\ first + 1 - 1 = first
        BY <1>2
    <2>. QED
        BY <1>5, <2>1
<1>9. \A r \in Members(q) : r.state = "pending" /\ (s.lastReceived < r.n \/ n <= r.n)
    <2>1. ASSUME NEW i \in 1..Len(q)
          PROVE  q[i].state = "pending" /\ (s.lastReceived < q[i].n \/ n <= q[i].n)
        <3>1. q[i].n = first + i - 1 /\ q[i].state = "pending"
            BY <1>5, <1>6
        <3>2. s.lastReceived < first + i - 1 \/ n <= first + i - 1
            BY <1>1, <1>2, <1>a
        <3>. QED
            BY <3>1, <3>2
    <2>. QED
        BY <2>1 DEF Members
<1>. QED
    BY <1>2, <1>3, <1>6, <1>7, <1>8, <1>9 DEF q

\* An event: its cases.
LEMMA DataCases ==
    ASSUME Inv, Data
    PROVE  /\ feed.logs \in Seq(Branches) /\ feed.logs # << >>
           /\ feed.logs[1] \in Branches /\ Len(feed.logs[1]) \in Nat /\ ~s.backfilling
           /\ feed' = [feed EXCEPT !.logs = Tail(@)]
           /\ UNCHANGED <<chain, faults, fills, waiting, exits, call, err, hist>>
           /\ \/ UNCHANGED <<s, queue, loop>>
              \/ /\ Len(feed.logs[1]) >= s.lastReceived
                 /\ s' = [s EXCEPT !.lastBlockHash = feed.logs[1], !.lastReceived = Len(feed.logs[1])]
                 /\ s'.backfilling = s.backfilling /\ s'.nextBlock = s.nextBlock
                 /\ s'.lastReceived = Len(feed.logs[1]) /\ s'.lastEmitted = s.lastEmitted
                 /\ s'.lastFinalizedBlock = s.lastFinalizedBlock
                 /\ pend' = pend \o Requests(Len(feed.logs[1]))
                 /\ Requested' = Requested \cup Members(Requests(Len(feed.logs[1])))
                 /\ loop # << >> => UNCHANGED loop
                 /\ loop = << >> /\ loop' # << >> => loop' = <<(pend')[1]>>
<1> DEFINE b == feed.logs[1]
           q == Requests(Len(b))
<1>0. Types /\ s \in Fields /\ queue \in Seq(Reqs) /\ loop \in Seq(Reqs)
    BY DEF Inv, Types
<1>1. feed.logs \in Seq(Branches) /\ feed.logs # << >>
    BY <1>0 DEF Data, Types, Feeds
<1>2. b \in Branches /\ Len(b) \in Nat
    BY <1>1 DEF Branches
<1>3. ~s.backfilling
    <2>1. feed # Off
        BY <1>1 DEF Off
    <2>. QED
        BY <2>1 DEF Inv, Bounded
<1>4. /\ feed' = [feed EXCEPT !.logs = Tail(@)]
      /\ UNCHANGED <<chain, faults, fills, waiting, exits, call, err, hist>>
    BY DEF Data
<1>5. CASE Len(b) < s.lastReceived \/ b = s.lastBlockHash
    BY <1>1, <1>2, <1>3, <1>4, <1>5 DEF Data
<1>6. CASE ~(Len(b) < s.lastReceived \/ b = s.lastBlockHash)
    <2>1. /\ s' = [s EXCEPT !.lastBlockHash = b, !.lastReceived = Len(b)]
          /\ IF loop = << >> THEN Take(queue \o q, s.fatalError)
             ELSE queue' = queue \o q /\ UNCHANGED loop
        BY <1>6 DEF Data
    <2>2. /\ s'.backfilling = s.backfilling /\ s'.nextBlock = s.nextBlock
          /\ s'.lastReceived = Len(b) /\ s'.lastEmitted = s.lastEmitted
          /\ s'.lastFinalizedBlock = s.lastFinalizedBlock
        BY <1>0, <2>1 DEF Fields
    <2>3. Len(b) >= s.lastReceived
        BY <1>0, <1>2, <1>6, FieldFacts
    <2>4. q \in Seq(Reqs)
        BY <1>0, <1>2, <2>3, RequestsFacts
    <2> HIDE DEF q, b
    <2>5. queue \o q \in Seq(Reqs) /\ Members(queue \o q) = Members(queue) \cup Members(q)
        BY <1>0, <2>4, MembersConcat, ConcatProperties
    <2>6. /\ pend' = pend \o q
          /\ Members(loop') \cup Members(queue') = Members(loop) \cup Members(queue) \cup Members(q)
          /\ loop # << >> => UNCHANGED loop
          /\ loop = << >> /\ loop' # << >> => loop' = <<(pend')[1]>>
        <3>1. CASE loop = << >>
            <4>1. loop' \o queue' = queue \o q /\ Members(loop') \cup Members(queue') = Members(queue \o q)
                  /\ (loop' # << >> => loop' = <<(queue \o q)[1]>>)
                BY <2>1, <2>5, <3>1, TakeFacts
            <4>2. pend = queue
                BY <1>0, <3>1, ConcatEmptySeq DEF pend
            <4>. QED
                BY <2>5, <3>1, <4>1, <4>2, MembersEmpty DEF pend
        <3>2. CASE loop # << >>
            <4>1. queue' = queue \o q /\ UNCHANGED loop
                BY <2>1, <3>2
            <4>2. loop \in Seq(Reqs) /\ queue \in Seq(Reqs)
                BY <1>0
            <4>3. (loop \o queue) \o q = loop \o (queue \o q)
                BY <2>4, <4>2, ConcatAssociative
            <4>. QED
                BY <2>5, <3>2, <4>1, <4>3 DEF pend
        <3>. QED
            BY <3>1, <3>2
    <2>7. Requested' = Requested \cup Members(q)
        BY <1>4, <2>6 DEF Requested
    <2>. QED
        BY <1>1, <1>2, <1>3, <1>4, <2>1, <2>2, <2>3, <2>6, <2>7 DEF q, b
<1>. QED
    BY <1>5, <1>6

\* The start of a backfill.
LEMMA backFillCases ==
    ASSUME Inv, backFillBlocks
    PROVE  /\ InCall("latest") /\ call' = << >> /\ s.nextBlock <= Len(head) /\ FarBehind
           /\ UNCHANGED <<chain, faults, feed, loop, exits, err, hist>>
           /\ s'.backfilling /\ s'.nextBlock = s.nextBlock /\ s'.lastEmitted = s.lastEmitted
           /\ s'.lastFinalizedBlock = s.lastFinalizedBlock
           /\ \E x \in Reqs :
                  /\ x.n = s.nextBlock /\ x.state = "pending"
                  /\ fills' = {[f EXCEPT !.current = FALSE] : f \in fills}
                                  \cup {[current |-> TRUE, req |-> x]}
           /\ \A r \in Members(queue') : r.state = "pending"
           /\ \A i \in 1..Len(queue') : queue'[i].n = s.nextBlock + i
<1> DEFINE c == Cardinality(Workers)
           jobs == [i \in 1..c |-> Request(s.nextBlock + i - 1, i - 1, TRUE)]
<1>0. Types /\ s \in Fields /\ s.nextBlock \in Nat /\ c \in Nat \ {0}
    BY WorkersFacts, FieldFacts DEF Inv, Types
<1>1. InCall("latest") /\ queue = << >>
    BY DEF backFillBlocks, InCall, Inv, Bounded
<1>2. \A i \in 1..c : Request(s.nextBlock + i - 1, i - 1, TRUE) \in Reqs
    <2> SUFFICES ASSUME NEW i \in 1..c PROVE Request(s.nextBlock + i - 1, i - 1, TRUE) \in Reqs
        OBVIOUS
    <2>1. s.nextBlock + i - 1 \in Nat
        BY <1>0
    <2>. QED
        BY <1>0, <2>1, RequestOK, WorkersFacts
<1>3. jobs \in [1..c -> Reqs]
    BY <1>2
<1>4. \A i \in 1..c : jobs[i].n = s.nextBlock + i - 1 /\ jobs[i].state = "pending"
    BY DEF Request
<1>5. /\ call' = << >>
      /\ fills' = {[f EXCEPT !.current = FALSE] : f \in fills}
                      \cup {[current |-> TRUE, req |-> (queue \o jobs)[1]]}
      /\ queue' = Tail(queue \o jobs)
      /\ s' = [s EXCEPT !.backfilling = TRUE]
      /\ s.nextBlock <= Len(head) /\ FarBehind
      /\ UNCHANGED <<chain, faults, feed, loop, exits, err, hist>>
    BY DEF backFillBlocks
<1> HIDE DEF c
<1>6. jobs \in Seq(Reqs) /\ Len(jobs) = c
    <2>1. DOMAIN jobs = 1..c
        OBVIOUS
    <2> HIDE DEF jobs
    <2>2. jobs \in Seq(Reqs)
        BY <1>0, <1>3, SeqDef
    <2>. QED
        BY <1>0, <2>1, <2>2, LenProperties
<1> HIDE DEF jobs
<1>7. queue \o jobs = jobs
    BY <1>1, <1>6, ConcatEmptySeq
<1>8. jobs # << >> /\ jobs[1] \in Reqs /\ jobs[1].n = s.nextBlock /\ jobs[1].state = "pending"
    <2>1. 1 \in 1..c /\ s.nextBlock + 1 - 1 = s.nextBlock
        BY <1>0
    <2>. QED
        BY <1>3, <1>4, <1>6, <2>1
<1>9. /\ Len(Tail(jobs)) = Len(jobs) - 1
      /\ \A i \in 1..Len(Tail(jobs)) : Tail(jobs)[i] = jobs[i + 1]
    BY <1>6, <1>8, HeadTailProperties
<1>10. queue' = Tail(jobs)
    BY <1>5, <1>7
<1>11. \A i \in 1..Len(queue') : queue'[i].n = s.nextBlock + i /\ queue'[i].state = "pending"
    <2> SUFFICES ASSUME NEW i \in 1..Len(Tail(jobs))
                 PROVE  Tail(jobs)[i].n = s.nextBlock + i /\ Tail(jobs)[i].state = "pending"
        BY <1>10
    <2>1. i + 1 \in 1..c /\ s.nextBlock + (i + 1) - 1 = s.nextBlock + i
        BY <1>0, <1>6, <1>9
    <2>. QED
        BY <1>4, <1>9, <2>1
<1>12. /\ s'.backfilling /\ s'.nextBlock = s.nextBlock /\ s'.lastEmitted = s.lastEmitted
       /\ s'.lastFinalizedBlock = s.lastFinalizedBlock
    BY <1>0, <1>5 DEF Fields
<1>13. \A r \in Members(queue') : r.state = "pending"
    BY <1>11 DEF Members
<1>. QED
    BY <1>1, <1>5, <1>7, <1>8, <1>11, <1>12, <1>13

LEMMA RequestsKept ==
    ASSUME UNCHANGED <<queue, loop, fills, given>>
    PROVE  Truthful /\ GivesOnly
BY DEF Truthful, GivesOnly, Requested

LEMMA CallsRequests == ASSUME Inv, Calls PROVE Truthful /\ GivesOnly
<1>1. ASSUME queue' = << >>, UNCHANGED <<loop, fills, given>> PROVE Truthful /\ GivesOnly
    BY <1>1, MembersEmpty DEF Truthful, GivesOnly, Requested
<1>2. CASE OwnerRestarts
    BY <1>1, <1>2 DEF OwnerRestarts, Unsubscribe, hist
<1>3. CASE checkIfLiveRestarts
    BY <1>1, <1>3 DEF checkIfLiveRestarts, Unsubscribe, hist
<1>4. CASE checkIfLiveAgain
    BY <1>4, RequestsKept DEF checkIfLiveAgain, work, hist
<1>5. CASE Closed
    BY <1>5, RequestsKept DEF Closed, work
<1>6. CASE Reset
    BY <1>1, <1>6 DEF Reset, hist
<1>7. CASE backFillBlocks
    <2>1. PICK x \in Reqs :
              /\ x.state = "pending"
              /\ fills' = {[f EXCEPT !.current = FALSE] : f \in fills}
                              \cup {[current |-> TRUE, req |-> x]}
        BY <1>7, backFillCases
    <2>2. \A f \in fills : [f EXCEPT !.current = FALSE].req = f.req
        BY DEF Inv, Types, Fills
    <2>3. [current |-> TRUE, req |-> x].req = x
        OBVIOUS
    <2>4. \A g \in fills' : g.req = x \/ \E f \in fills : g.req = f.req
        BY <2>1, <2>2, <2>3
    <2>5. (\A r \in Members(queue') : r.state = "pending") /\ UNCHANGED <<loop, hist>>
        BY <1>7, backFillCases
    <2>. QED
        BY <2>1, <2>4, <2>5 DEF Truthful, GivesOnly, Requested, hist
<1>8. CASE SubscribeToLogs
    BY <1>8, RequestsKept DEF SubscribeToLogs, work, hist
<1>9. CASE CallFails
    BY <1>1, <1>9 DEF CallFails, Unsubscribe, hist
<1>. QED
    BY <1>2, <1>3, <1>4, <1>5, <1>6, <1>7, <1>8, <1>9 DEF Calls

LEMMA NextRequests == ASSUME Inv, [Next]_vars PROVE Truthful /\ GivesOnly
<1>0. Types /\ queue \in Seq(Reqs)
    BY DEF Inv, Types
<1>1. CASE Chain
    BY <1>1, RequestsKept DEF Chain, Mine, Reorganise, Stall, WorkerExits, work, hist
<1>2. CASE AnswerQueued
    <2>1. PICK i \in 1..Len(queue), r \in Reqs :
              /\ r.n = queue[i].n /\ (r.state = "done" => r = queue[i] \/ Fresh(r))
              /\ \/ queue' = [queue EXCEPT ![i] = r]
                 \/ \E w \in Workers : queue' = Grown([queue EXCEPT ![i] = r], w)
        BY <1>2, AnswerQueuedCases
    <2> DEFINE q == [queue EXCEPT ![i] = r]
    <2>2. q \in Seq(Reqs) /\ Members(q) \subseteq Members(queue) \cup {r}
        BY <1>0, ExceptSeq, MembersExcept
    <2>3. queue' = q \/ \E w \in Workers : queue' = Grown(q, w)
        BY <2>1
    <2> HIDE DEF q
    <2>4. \A x \in Members(queue') : x \in Members(q) \/ x.state = "pending"
        BY <1>0, <2>2, <2>3, GrownFacts
    <2>5. queue[i] \in Members(queue)
        BY DEF Members
    <2>6. UNCHANGED <<loop, fills, hist>>
        BY <1>2, AnswerQueuedCases
    <2>. QED
        BY <2>1, <2>2, <2>4, <2>5, <2>6 DEF Truthful, GivesOnly, Requested, hist
<1>3. CASE Release
    <2>1. \A x \in Members(queue') : x \in Members(queue) \/ x.state = "pending"
        BY <1>0, <1>3, ReleaseCases, GrownFacts
    <2>2. UNCHANGED <<loop, fills, hist>>
        BY <1>3, ReleaseCases
    <2>. QED
        BY <2>1, <2>2 DEF Truthful, GivesOnly, Requested, hist
<1>4. CASE Data
    <2>1. ASSUME Len(feed.logs[1]) >= s.lastReceived,
                 Requested' = Requested \cup Members(Requests(Len(feed.logs[1])))
          PROVE  Truthful
        <3>1. \A r \in Members(Requests(Len(feed.logs[1]))) : r.state = "pending"
            BY <1>0, <1>4, <2>1, DataCases, RequestsFacts
        <3>. QED
            BY <2>1, <3>1 DEF Truthful
    <2>2. UNCHANGED <<fills, given>>
        BY <1>4, DataCases DEF hist
    <2>3. UNCHANGED <<s, queue, loop>> => Truthful
        BY <2>2, RequestsKept
    <2>. QED
        BY <1>4, <2>1, <2>2, <2>3, DataCases DEF GivesOnly
<1>5. CASE OutsideError
    <2>1. queue' = queue \/ queue' = << >>
        BY <1>5, ErrorRequests DEF OutsideError
    <2>2. UNCHANGED <<loop, fills, given>>
        BY <1>5 DEF OutsideError, hist
    <2>. QED
        BY <2>1, <2>2, MembersEmpty DEF Truthful, GivesOnly, Requested
<1>6. CASE UNCHANGED vars
    BY <1>6, RequestsKept DEF vars, work, hist
<1>. QED
    BY <1>1, <1>2, <1>3, <1>4, <1>5, <1>6, ProcessRequests, CallsRequests, FillRequests DEF Next

-----------------------------------------------------------------------------
\* A block that is off the chain does not come back.
LEMMA ExtendFacts ==
    ASSUME Types, NEW n \in 0..Len(head), NEW k \in Nat \ {0}, forks' \in Nat, Extend(n, k)
    PROVE  /\ head' \in Branches /\ Len(head') = n + k /\ Len(head') <= scenario.last
           /\ \A i \in 1..n : head'[i] = head[i]
           /\ \A i \in (n + 1)..Len(head') : head'[i].fork = forks'
           /\ Notify(head', n + 1)
<1>1. PICK holds \in [1..k -> BOOLEAN] :
        LET h == Ancestor(head, n) \o [i \in 1..k |-> [fork |-> forks', logs |-> holds[i]]]
        IN  head' = h /\ Len(h) <= scenario.last /\ Notify(h, n + 1)
    BY Zenon DEF Extend
<1> DEFINE new == [i \in 1..k |-> [fork |-> forks', logs |-> holds[i]]]
           a == Ancestor(head, n)
<1>2. \A i \in 1..k : new[i] \in Labels /\ new[i].fork = forks'
    <2>1. \A i \in 1..k : holds[i] \in BOOLEAN
        BY <1>1
    <2>. QED
        BY <2>1 DEF Labels
<1>3. DOMAIN new = 1..k /\ new \in [1..k -> Labels]
    BY <1>2
<1>4. head' = a \o new /\ Len(head') <= scenario.last /\ Notify(head', n + 1)
    BY <1>1, Zenon
<1> HIDE DEF new
<1>5. new \in Seq(Labels) /\ Len(new) = k
    <2>1. new \in Seq(Labels)
        BY <1>3, SeqDef
    <2>. QED
        BY <1>3, <2>1, LenProperties
<1>6. a \in Seq(Labels) /\ Len(a) = n /\ \A i \in 1..n : a[i] = head[i]
    <2>1. head \in Branches /\ n \in Nat /\ n <= Len(head)
        BY DEF Types, Branches
    <2>. QED
        BY <2>1, AncestorFacts DEF Branches
<1> HIDE DEF a
<1>7. /\ a \o new \in Seq(Labels) /\ Len(a \o new) = n + k
      /\ \A i \in 1..(n + k) : (a \o new)[i] = IF i <= n THEN a[i] ELSE new[i - n]
    <2>1. a \in Seq(Labels) /\ new \in Seq(Labels)
        BY <1>5, <1>6
    <2>2. /\ a \o new \in Seq(Labels) /\ Len(a \o new) = Len(a) + Len(new)
          /\ \A i \in 1..(Len(a) + Len(new)) :
                 (a \o new)[i] = IF i <= Len(a) THEN a[i] ELSE new[i - Len(a)]
        BY <2>1, ConcatProperties
    <2>. QED
        BY <1>5, <1>6, <2>2
<1>8. n \in Nat /\ k \in Nat
    BY DEF Types, Branches
<1>9. \A i \in 1..n : head'[i] = head[i]
    BY <1>4, <1>6, <1>7, <1>8
<1>10. \A i \in (n + 1)..(n + k) : head'[i].fork = forks'
    <2> SUFFICES ASSUME NEW i \in (n + 1)..(n + k) PROVE head'[i].fork = forks'
        OBVIOUS
    <2>1. i - n \in 1..k /\ i \in 1..(n + k) /\ ~(i <= n)
        BY <1>8
    <2>. QED
        BY <1>2, <1>4, <1>7, <2>1
<1>. QED
    BY <1>4, <1>7, <1>9, <1>10 DEF Branches

\* How the chain changes: not at all, or from some block on.
LEMMA ChainCases ==
    ASSUME Inv, Chain
    PROVE  /\ UNCHANGED <<scenario, s, work, call, err, hist>>
           /\ \/ UNCHANGED <<head, forks>> /\ (feed' = feed \/ feed' = [state |-> "silent", logs |-> << >>])
              \/ \E n \in 0..Len(head), k \in Nat \ {0} :
                    /\ Extend(n, k) /\ forks' \in Nat
                    /\ (forks' = forks /\ n = Len(head)) \/ forks < forks'
                    /\ Len(head) < n + k /\ n + ForkDepth >= Len(head)
<1>0. Types /\ forks \in Nat /\ Len(head) \in Nat /\ ForkDepth \in Nat
    BY SubscriptionAssumption DEF Inv, Types, Branches
<1>1. UNCHANGED <<scenario, s, work, call, err, hist>>
    BY DEF Chain, Mine, Reorganise, Stall, WorkerExits, chain
<1>2. CASE Mine
    <2>1. Extend(Len(head), 1) /\ forks' = forks
        BY <1>2 DEF Mine
    <2>2. /\ Len(head) \in 0..Len(head) /\ 1 \in Nat \ {0}
          /\ Len(head) < Len(head) + 1 /\ Len(head) + ForkDepth >= Len(head)
        BY <1>0
    <2>. QED
        BY <1>0, <1>1, <2>1, <2>2
<1>3. CASE Reorganise
    <2>1. PICK d \in 1..ForkDepth : d <= Len(head) /\ Extend(Len(head) - d, d + 1)
        BY <1>3 DEF Reorganise
    <2>2. forks' = forks + 1
        BY <1>3 DEF Reorganise
    <2>3. /\ Len(head) - d \in 0..Len(head) /\ d + 1 \in Nat \ {0}
          /\ Len(head) < (Len(head) - d) + (d + 1) /\ (Len(head) - d) + ForkDepth >= Len(head)
        BY <1>0, <2>1
    <2>4. forks' \in Nat /\ forks < forks'
        BY <1>0, <2>2
    <2>. QED
        BY <1>1, <2>1, <2>3, <2>4
<1>4. CASE Stall \/ WorkerExits
    BY <1>1, <1>4 DEF Stall, WorkerExits, chain
<1>. QED
    BY <1>2, <1>3, <1>4 DEF Chain

LEMMA HeadKept == ASSUME [Next]_vars, ~Chain PROVE UNCHANGED chain
BY DEF Next, AnswerQueued, Release, processQueue, Data, OutsideError, Calls, OwnerRestarts,
       checkIfLiveRestarts, checkIfLiveAgain, Closed, Reset, backFillBlocks, SubscribeToLogs,
       CallFails, Fill, vars

LEMMA KnownStep ==
    ASSUME Inv, [Next]_vars, \A i \in 1..Len(head) : head[i].fork <= forks
    PROVE  /\ \A i \in 1..Len(head') : head'[i].fork <= forks'
           /\ \A b \in Branches : Known(b, head, forks) =>
                  Known(b, head', forks') /\ (Extends(head', b) => Extends(head, b))
<1>0. Types /\ head \in Branches /\ forks \in Nat
    BY DEF Inv, Types
<1>1. CASE UNCHANGED <<head, forks>>
    BY <1>1 DEF Known
<1>2. ASSUME NEW n \in 0..Len(head), NEW k \in Nat \ {0}, Extend(n, k), forks' \in Nat,
             (forks' = forks /\ n = Len(head)) \/ forks < forks'
      PROVE  /\ \A i \in 1..Len(head') : head'[i].fork <= forks'
             /\ \A b \in Branches : Known(b, head, forks) =>
                  Known(b, head', forks') /\ (Extends(head', b) => Extends(head, b))
    <2>1. /\ head' \in Branches /\ Len(head') = n + k
          /\ \A i \in 1..n : head'[i] = head[i]
          /\ \A i \in (n + 1)..Len(head') : head'[i].fork = forks'
        BY <1>0, <1>2, ExtendFacts
    <2>2. Len(head) \in Nat /\ n \in Nat /\ n <= Len(head)
        BY <1>0 DEF Branches
    <2>3. Len(head') > n
        BY <2>1, <2>2
    <2>4. ASSUME NEW i \in 1..Len(head') PROVE head'[i].fork <= forks'
        <3>1. CASE i <= n
            <4>1. i \in 1..Len(head) /\ head'[i] = head[i] /\ i \in 1..n
                BY <2>1, <2>2, <3>1
            <4>2. head[i] \in Labels
                BY <1>0, <4>1, ElementOfSeq DEF Branches
            <4>3. head[i].fork \in Nat
                BY <4>2 DEF Labels
            <4>. QED
                BY <1>0, <1>2, <4>1, <4>3
        <3>2. CASE i > n
            <4>1. i \in (n + 1)..Len(head')
                BY <2>1, <2>2, <3>2
            <4>. QED
                BY <1>2, <2>1, <4>1
        <3>. QED
            BY <2>2, <3>1, <3>2
    <2>5. \A b \in Branches : Known(b, head, forks) =>
              Known(b, head', forks') /\ (Extends(head', b) => Extends(head, b))
        BY <1>0, <1>2, <2>1, <2>3, Grafted
    <2>. QED
        BY <2>4, <2>5
<1>3. CASE Chain
    BY <1>1, <1>2, <1>3, ChainCases
<1>. QED
    BY <1>1, <1>3, HeadKept DEF chain

LEMMA MembersType ==
    ASSUME NEW p \in Seq(Reqs), NEW q \in Seq(Reqs), NEW F \in SUBSET Fills
    PROVE  Members(p) \cup Members(q) \cup {f.req : f \in F} \subseteq Reqs
<1>1. \A f \in F : f.req \in Reqs
    BY DEF Fills
<1>2. Members(p) \subseteq Reqs /\ Members(q) \subseteq Reqs
    BY ElementOfSeq DEF Members
<1>. QED
    BY <1>1, <1>2

LEMMA RequestedTypes == ASSUME Inv, [Next]_vars PROVE Requested \subseteq Reqs /\ (Requested \subseteq Reqs)'
<1>1. Requested \subseteq Reqs
    BY MembersType DEF Inv, Types, Requested
<1>2. Inv'
    BY NextInv
<1>3. queue' \in Seq(Reqs) /\ loop' \in Seq(Reqs) /\ fills' \in SUBSET Fills
    BY <1>2 DEF Inv, Types
<1>4. (Requested \subseteq Reqs)'
    BY <1>3, MembersType DEF Requested
<1>. QED
    BY <1>1, <1>4

LEMMA FreshFacts ==
    ASSUME Types, NEW r \in Reqs, Fresh(r)
    PROVE  r.block \in Branches /\ Len(r.block) = r.n /\ Extends(head, r.block)
BY AncestorFacts DEF Types, Fresh, BlockAt, Reqs

LEMMA InitNumbered == Init => Numbered
<1> SUFFICES ASSUME Init PROVE Numbered
    OBVIOUS
<1>1. scenario.first \in Nat
    BY SubscriptionAssumption DEF Init
<1>2. Len(head) = scenario.first
    BY <1>1 DEF Init
<1>3. \A i \in 1..Len(head) : head[i].fork <= forks
    <2>1. \A i \in 1..scenario.first : head[i].fork = 0
        BY DEF Init
    <2>2. forks = 0
        BY DEF Init
    <2>. QED
        BY <1>2, <2>1, <2>2
<1>. QED
    BY <1>3, MembersEmpty DEF Init, Numbered, Requested

LEMMA NextNumbered == ASSUME Inv, Numbered, [Next]_vars PROVE Numbered'
<1>0. Types /\ Requested \subseteq Reqs /\ Requested' \subseteq Reqs
    BY RequestedTypes DEF Inv
<1>1. /\ \A i \in 1..Len(head') : head'[i].fork <= forks'
      /\ \A b \in Branches : Known(b, head, forks) => Known(b, head', forks')
    BY KnownStep DEF Numbered
<1>2. Truthful /\ GivesOnly
    BY NextRequests
<1>3. \A r \in Reqs : r.state = "done" /\ (r \in Requested \/ Fresh(r)) =>
          r.block \in Branches /\ Len(r.block) = r.n /\ Known(r.block, head, forks)
    BY <1>0, FreshFacts DEF Numbered, Known, Reqs
<1>4. \A r \in Requested' : r.state = "done" => Len(r.block) = r.n /\ Known(r.block, head', forks')
    BY <1>0, <1>1, <1>2, <1>3 DEF Truthful
<1>5. \A b \in given' : b \in Branches /\ Known(b, head', forks')
    BY <1>1, <1>2, <1>3 DEF GivesOnly, Numbered
<1>. QED
    BY <1>1, <1>4, <1>5 DEF Numbered

-----------------------------------------------------------------------------
\* The number of the block given next.
Moves == \A m \in Nat : (Within(m) => Within(m)') /\ (Above(m) => Above(m)')

LEMMA CallFacts ==
    ASSUME NEW by, NEW step, NEW start
    PROVE  LET c == <<Call(by, step, start)>>
           IN  c # << >> /\ c[1].by = by /\ c[1].step = step /\ c[1].start = start
BY DEF Call

LEMMA CallSteps ==
    ASSUME Types
    PROVE  /\ call = << >> \/ InCall("closing") \/ InCall("finalized") \/ InCall("latest")
           /\ InCall("finalized") \/ InCall("latest") => call[1].start \in Nat \ {0}
BY DEF Types, CallOK, Steps, InCall

LEMMA PendType ==
    ASSUME Types
    PROVE  /\ pend \in Seq(Reqs) /\ s.nextBlock \in Nat /\ s.lastReceived \in Nat
           /\ loop # << >> => loop[1] \in Reqs /\ loop[1].n \in Nat
           /\ pend # << >> => pend[1] \in Reqs /\ pend[1].n \in Nat
<1>1. loop \in Seq(Reqs) /\ queue \in Seq(Reqs)
    BY DEF Types
<1>2. pend \in Seq(Reqs)
    BY <1>1 DEF pend
<1>3. \A q \in Seq(Reqs) : q # << >> => q[1] \in Reqs /\ q[1].n \in Nat
    <2>1. \A q \in Seq(Reqs) : q # << >> => q[1] \in Reqs
        OBVIOUS
    <2>. QED
        BY <2>1 DEF Reqs
<1>. QED
    BY <1>1, <1>2, <1>3, FieldFacts DEF Types

\* Nothing of it changes.
LEMMA MovesKept ==
    ASSUME Calm, s'.backfilling = s.backfilling, s'.nextBlock = s.nextBlock,
           s'.lastReceived = s.lastReceived, UNCHANGED <<queue, loop, fills, call>>
    PROVE  Calm' /\ Moves
<1>1. Calm'
    BY DEF Calm, InCall, Restarting, Live, pend, Steady
<1>2. Moves
    BY DEF Moves, Within, Above, InCall, Stale, Restarting, Live, pend
<1>. QED
    BY <1>1, <1>2

\* unsubscribe is called, by the owner or by the timer.
LEMMA UnsubscribeMoves ==
    ASSUME Inv, Calm, NEW by, NEW t \in Fields, Unsubscribe(by, t),
           loop' = loop \/ loop' = << >>,
           by # "owner" => loop = << >> /\ t.nextBlock = s.nextBlock /\ call = << >>
    PROVE  Calm' /\ Moves
<1>1. queue' = << >> /\ call' # << >> /\ call'[1].by = by /\ call'[1].step = "closing"
    BY CallFacts DEF Unsubscribe
<1>2. ~s'.backfilling /\ s'.nextBlock = t.nextBlock
    BY DEF Unsubscribe, Fields
<1>3. ~Live'
    BY <1>1 DEF Live
<1>4. /\ InCall("closing")' /\ ~InCall("finalized")' /\ ~InCall("latest")'
      /\ Restarting' = (by = "owner") /\ Stale' = (by = "owner")
    BY <1>1 DEF InCall, Restarting, Stale
<1>5. Calm'
    BY <1>1, <1>2, <1>3, <1>4 DEF Calm
<1>6. by # "owner" => ~Stale
    BY DEF Stale, Restarting
<1>7. ASSUME NEW m \in Nat PROVE (Within(m) => Within(m)') /\ (Above(m) => Above(m)')
    BY <1>2, <1>3, <1>4, <1>6 DEF Within, Above
<1>. QED
    BY <1>5, <1>7 DEF Moves

LEMMA ErrorMoves ==
    ASSUME Inv, Calm, NEW kind, NEW b, NEW t \in Fields, error(kind, b, t),
           t.backfilling => s.backfilling, t.lastReceived = s.lastReceived,
           call # << >> => Stale \/ t.nextBlock = s.nextBlock,
           loop' = loop \/ loop' = << >>, fills' \subseteq fills
    PROVE  Calm' /\ Moves
<1>1. CASE call = << >>
    BY <1>1, UnsubscribeMoves DEF error
<1>2. CASE call # << >>
    <2>1. s' = t /\ UNCHANGED <<queue, waiting, call>>
        BY <1>2 DEF error
    <2>2. ~s'.backfilling
        BY <1>2, <2>1 DEF Inv, Bounded
    <2>3. ~Live /\ ~Live'
        BY <1>2, <2>1 DEF Live
    <2>4. /\ InCall("closing")' = InCall("closing") /\ InCall("finalized")' = InCall("finalized")
          /\ InCall("latest")' = InCall("latest") /\ Restarting' = Restarting /\ Stale' = Stale
        BY <2>1 DEF InCall, Restarting, Stale
    <2>5. Stale \/ s'.nextBlock = s.nextBlock
        BY <1>2, <2>1
    <2>6. InCall("latest") => ~Stale
        BY DEF Stale
    <2>7. Calm'
        BY <2>1, <2>2, <2>3, <2>4, <2>5, <2>6 DEF Calm
    <2>8. ASSUME NEW m \in Nat PROVE (Within(m) => Within(m)') /\ (Above(m) => Above(m)')
        BY <2>1, <2>3, <2>4, <2>5 DEF Within, Above
    <2>. QED
        BY <2>7, <2>8 DEF Moves
<1>. QED
    BY <1>1, <1>2

LEMMA ConcatNumbers ==
    ASSUME NEW p \in Seq(Reqs), NEW q \in Seq(Reqs), NEW r \in Seq(Reqs), Len(r) = Len(q),
           \A i \in 1..Len(q) : r[i].n = q[i].n
    PROVE  /\ p \o r \in Seq(Reqs) /\ Len(p \o r) = Len(p \o q)
           /\ \A i \in 1..Len(p \o q) : (p \o r)[i].n = (p \o q)[i].n
<1>. Len(p) \in Nat /\ Len(q) \in Nat
    OBVIOUS
<1>0. \A x, y \in Seq(Reqs) :
          /\ x \o y \in Seq(Reqs) /\ Len(x \o y) = Len(x) + Len(y)
          /\ \A i \in 1..(Len(x) + Len(y)) : (x \o y)[i] = IF i <= Len(x) THEN x[i] ELSE y[i - Len(x)]
    <2> SUFFICES ASSUME NEW x \in Seq(Reqs), NEW y \in Seq(Reqs)
                 PROVE  /\ x \o y \in Seq(Reqs) /\ Len(x \o y) = Len(x) + Len(y)
                        /\ \A i \in 1..(Len(x) + Len(y)) :
                               (x \o y)[i] = IF i <= Len(x) THEN x[i] ELSE y[i - Len(x)]
        OBVIOUS
    <2>. QED
        BY ConcatProperties
<1>1. /\ Len(p \o q) = Len(p) + Len(q)
      /\ \A i \in 1..(Len(p) + Len(q)) : (p \o q)[i] = IF i <= Len(p) THEN p[i] ELSE q[i - Len(p)]
    BY <1>0
<1>2. /\ p \o r \in Seq(Reqs) /\ Len(p \o r) = Len(p) + Len(r)
      /\ \A i \in 1..(Len(p) + Len(r)) : (p \o r)[i] = IF i <= Len(p) THEN p[i] ELSE r[i - Len(p)]
    BY <1>0
<1>3. ASSUME NEW i \in 1..(Len(p) + Len(q)) PROVE (p \o r)[i].n = (p \o q)[i].n
    <2>1. CASE i <= Len(p)
        BY <1>1, <1>2, <2>1
    <2>2. CASE ~(i <= Len(p))
        <3>1. i - Len(p) \in 1..Len(q)
            BY <2>2
        <3>2. PICK j \in 1..Len(q) : j = i - Len(p)
            BY <3>1
        <3>3. (p \o r)[i] = r[j] /\ (p \o q)[i] = q[j]
            BY <1>1, <1>2, <2>2, <3>2
        <3>. QED
            BY <3>3
    <2>. QED
        BY <2>1, <2>2
<1>. QED
    BY <1>1, <1>2, <1>3

\* Requests are answered, or added for a backfill.
LEMMA AnswerMoves ==
    ASSUME Inv, Calm, UNCHANGED <<s, loop, call>>, fills' \subseteq fills,
           NEW q \in Seq(Reqs), Len(q) = Len(queue), \A i \in 1..Len(queue) : q[i].n = queue[i].n,
           queue' = q \/ \E w \in Workers : queue' = Grown(q, w)
    PROVE  Calm' /\ Moves
<1>0. Types /\ queue \in Seq(Reqs) /\ loop \in Seq(Reqs) /\ Len(loop) \in Nat /\ Len(queue) \in Nat
    BY DEF Inv, Types
<1>1. ~s.backfilling => queue' = q
    BY <1>0, GrownFacts
<1>2. ASSUME ~s.backfilling
      PROVE  /\ pend' = loop \o q /\ Len(pend') = Len(pend) /\ pend' \in Seq(Reqs)
             /\ \A i \in 1..Len(pend) : (pend')[i].n = pend[i].n
    <2>1. pend' = loop \o q
        BY <1>1, <1>2 DEF pend
    <2>2. /\ loop \o q \in Seq(Reqs) /\ Len(loop \o q) = Len(loop \o queue)
          /\ \A i \in 1..Len(loop \o queue) : (loop \o q)[i].n = (loop \o queue)[i].n
        BY <1>0, ConcatNumbers
    <2>. QED
        BY <2>1, <2>2 DEF pend
<1>3. /\ InCall("closing")' = InCall("closing") /\ InCall("finalized")' = InCall("finalized")
      /\ InCall("latest")' = InCall("latest") /\ Restarting' = Restarting /\ Stale' = Stale
      /\ Live' = Live
    BY DEF InCall, Restarting, Stale, Live
<1>4. Live => Steady(pend', s'.lastReceived)
    <2> SUFFICES ASSUME Live PROVE Steady(pend', s'.lastReceived)
        OBVIOUS
    <2>1. pend \in Seq(Reqs) /\ Steady(pend, s.lastReceived)
        BY <1>0, PendType DEF Calm
    <2>2. ~s.backfilling /\ s'.lastReceived = s.lastReceived
        BY DEF Live
    <2>. QED
        BY <1>2, <2>1, <2>2, SteadySame
<1>5. InCall("closing") => queue' = << >>
    <2> SUFFICES ASSUME InCall("closing") PROVE queue' = << >>
        OBVIOUS
    <2>1. ~s.backfilling /\ queue = << >>
        BY DEF Inv, Bounded, Calm, InCall
    <2>. QED
        BY <1>1, <2>1
<1>6. s.backfilling => \A i \in 1..Len(queue') : queue'[i].n = s.nextBlock + i
    <2> SUFFICES ASSUME s.backfilling PROVE \A i \in 1..Len(queue') : queue'[i].n = s.nextBlock + i
        OBVIOUS
    <2>1. \A i \in 1..Len(q) : q[i].n = s.nextBlock + i
        BY DEF Calm
    <2>2. CASE queue' = q
        BY <2>1, <2>2
    <2>3. ASSUME NEW w \in Workers, queue' = Grown(q, w)
          PROVE  \A i \in 1..Len(queue') : queue'[i].n = s.nextBlock + i
        <3>1. \A i \in 1..Len(Grown(q, w)) : Grown(q, w)[i].n = s.nextBlock + i
            BY <1>0, <2>1, GrownFacts
        <3>. QED
            BY <2>3, <3>1
    <2>. QED
        BY <2>2, <2>3
<1>7. Calm'
    <2>1. (\A f \in fills : fills = {f} /\ f.req.n = s.nextBlock) =>
              \A f \in fills' : fills' = {f} /\ f.req.n = s.nextBlock
        OBVIOUS
    <2>2. fills = {} => fills' = {}
        OBVIOUS
    <2>. QED
        BY <1>3, <1>4, <1>5, <1>6, <2>1, <2>2 DEF Calm
<1>8. ASSUME Live, pend' # << >> PROVE pend # << >> /\ (pend')[1].n = pend[1].n
    <2>1. Len(pend') = Len(pend) /\ pend \in Seq(Reqs) /\ pend' \in Seq(Reqs) /\ ~s.backfilling
        BY <1>0, <1>2, <1>8, PendType DEF Live
    <2>2. pend # << >> /\ 1 \in 1..Len(pend)
        BY <1>8, <2>1
    <2>. QED
        BY <1>2, <2>1, <2>2
<1>9. ASSUME Live, pend' = << >> PROVE pend = << >>
    <2>1. Len(pend') = Len(pend) /\ pend \in Seq(Reqs)
        BY <1>0, <1>2, <1>9, PendType DEF Live
    <2>. QED
        BY <1>9, <2>1
<1>10. ASSUME NEW m \in Nat PROVE (Within(m) => Within(m)') /\ (Above(m) => Above(m)')
    BY <1>3, <1>8, <1>9 DEF Within, Above
<1>. QED
    BY <1>7, <1>10 DEF Moves

\* An event arrives.
LEMMA DataMoves == ASSUME Inv, Calm, Punctual, Data PROVE Calm' /\ Moves
<1>0. Types /\ ~s.backfilling /\ UNCHANGED <<fills, call>>
    BY DataCases DEF Inv
<1>1. call = << >> /\ Live
    BY <1>0 DEF Data, Punctual, Live
<1>2. CASE UNCHANGED <<s, queue, loop>>
    BY <1>0, <1>2, MovesKept
<1>3. CASE ~UNCHANGED <<s, queue, loop>>
    <2> DEFINE n == Len(feed.logs[1])
               q == Requests(n)
    <2>1. /\ n \in Nat /\ n >= s.lastReceived
          /\ s'.backfilling = s.backfilling /\ s'.nextBlock = s.nextBlock /\ s'.lastReceived = n
          /\ pend' = pend \o q
          /\ loop # << >> => UNCHANGED loop
          /\ loop = << >> /\ loop' # << >> => loop' = <<(pend')[1]>>
        BY <1>3, DataCases
    <2> HIDE DEF n
    <2>2. /\ q \in Seq(Reqs) /\ q # << >> /\ Steady(q, n)
          /\ q[1].n \in {s.lastReceived, s.lastReceived + 1}
        BY <1>0, <2>1, RequestsFacts
    <2> HIDE DEF q
    <2>a. loop = << >> /\ loop' # << >> => loop'[1] = (pend')[1]
        <3>1. \A x : <<x>>[1] = x
            OBVIOUS
        <3>. QED
            BY <2>1, <3>1, Zenon
    <2>3. /\ pend \in Seq(Reqs) /\ s.lastReceived \in Nat /\ Steady(pend, s.lastReceived) /\ fills = {}
          /\ pend # << >> => pend[1].n \in Nat
        BY <1>0, <1>1, PendType DEF Calm
    <2>4. /\ Steady(pend \o q, n) /\ pend \o q # << >>
          /\ (pend \o q)[1] = IF pend = << >> THEN q[1] ELSE pend[1]
        BY <2>1, <2>2, <2>3, SteadyConcat
    <2>5. Live' /\ Steady(pend', s'.lastReceived) /\ pend' # << >> /\ call' = << >> /\ Stale' = Stale
          /\ ~InCall("closing")' /\ ~InCall("finalized")' /\ ~InCall("latest")' /\ ~s'.backfilling
          /\ (pend')[1] = IF pend = << >> THEN q[1] ELSE pend[1]
        BY <1>0, <1>1, <2>1, <2>4 DEF Live, InCall, Stale, Restarting
    <2>6. Calm'
        BY <1>0, <2>3, <2>5 DEF Calm
    <2>7. ASSUME NEW m \in Nat, Within(m) PROVE Within(m)'
        <3>1. (pend')[1].n <= m + 1
            <4>1. CASE pend = << >>
                <5>1. s.lastReceived <= m
                    BY <1>1, <2>7, <4>1 DEF Within
                <5>. QED
                    BY <2>2, <2>3, <2>5, <4>1, <5>1
            <4>2. CASE pend # << >>
                BY <1>1, <2>5, <2>7, <4>2 DEF Within
            <4>. QED
                BY <4>1, <4>2
        <3>2. loop' # << >> => loop'[1].n <= m + 1
            BY <2>1, <2>a, <2>7, <3>1 DEF Within
        <3>. QED
            BY <2>1, <2>5, <2>7, <3>1, <3>2 DEF Within
    <2>8. ASSUME NEW m \in Nat, Above(m) PROVE Above(m)'
        <3>1. m <= (pend')[1].n
            <4>1. CASE pend = << >>
                <5>1. m <= s.lastReceived
                    BY <1>1, <2>8, <4>1 DEF Above
                <5>. QED
                    BY <2>2, <2>3, <2>5, <4>1, <5>1
            <4>2. CASE pend # << >>
                BY <1>1, <2>5, <2>8, <4>2 DEF Above
            <4>. QED
                BY <4>1, <4>2
        <3>2. loop' # << >> => m <= loop'[1].n
            BY <2>1, <2>a, <2>8, <3>1 DEF Above
        <3>. QED
            BY <2>1, <2>5, <2>8, <3>1, <3>2 DEF Above
    <2>. QED
        BY <2>6, <2>7, <2>8 DEF Moves
<1>. QED
    BY <1>2, <1>3

\* The owner chooses a first block.
Starts(n) ==
    /\ n \in Nat \ {0} /\ IsStart(n) /\ out' = n - 1 /\ UNCHANGED <<given, s>>
    /\ \A m \in Nat : (n - 1 <= m => Within(m)') /\ (m <= n - 1 => Above(m)')

LEMMA ClosedMoves ==
    ASSUME Inv, Calm, Punctual, Closed
    PROVE  Calm' /\ ((Moves /\ UNCHANGED hist) \/ \E n \in Nat : Starts(n))
<1>1. PICK n \in StartBlock..(scenario.last + 1) :
        /\ IF Restarting THEN IsStart(n) /\ out' = n - 1 /\ err' = << >>
           ELSE n = s.nextBlock /\ UNCHANGED <<out, err>>
        /\ call' = <<Call(call[1].by, "finalized", n)>>
    BY DEF Closed
<1>2. n \in Nat \ {0} /\ call # << >> /\ ~s.backfilling /\ InCall("closing")
    BY <1>1, SubscriptionAssumption DEF Closed, InCall, Inv, Bounded
<1>3. loop = << >> /\ fills = {} /\ UNCHANGED <<s, queue, loop, fills, given>>
    BY DEF Closed, Punctual, work
<1>4. /\ ~InCall("closing")' /\ InCall("finalized")' /\ ~InCall("latest")' /\ ~Live'
      /\ call'[1].start = n /\ Restarting' = Restarting /\ Stale' = Restarting
    BY <1>1, <1>2, CallFacts DEF InCall, Restarting, Stale, Live
<1>5. Calm'
    BY <1>2, <1>3, <1>4 DEF Calm
<1>6. CASE Restarting
    <2>1. ASSUME NEW m \in Nat PROVE (n - 1 <= m => Within(m)') /\ (m <= n - 1 => Above(m)')
        BY <1>2, <1>3, <1>4, <1>6 DEF Within, Above
    <2>2. Starts(n)
        BY <1>1, <1>2, <1>3, <1>6, <2>1 DEF Starts
    <2>. QED
        BY <1>2, <1>5, <2>2
<1>7. CASE ~Restarting
    <2>1. n = s.nextBlock /\ UNCHANGED hist /\ ~Stale
        BY <1>1, <1>3, <1>7 DEF hist, Stale
    <2>2. ASSUME NEW m \in Nat PROVE (Within(m) => Within(m)') /\ (Above(m) => Above(m)')
        BY <1>3, <1>4, <2>1 DEF Within, Above
    <2>. QED
        BY <1>5, <2>1, <2>2 DEF Moves
<1>. QED
    BY <1>6, <1>7

LEMMA ResetMoves == ASSUME Inv, Calm, Reset PROVE Calm' /\ Moves
<1> DEFINE n == call[1].start
<1>1. InCall("finalized") /\ n \in Nat \ {0} /\ ~s.backfilling
    BY CallSteps DEF Reset, Inv, Bounded, InCall
<1>2. s'.nextBlock = n /\ s'.lastReceived = n - 1 /\ s'.backfilling = s.backfilling
    BY DEF Reset, Inv, Types, Fields
<1>3. /\ queue' = << >> /\ call' = <<Call(call[1].by, "latest", n)>> /\ UNCHANGED <<loop, fills>>
    BY DEF Reset
<1> HIDE DEF n
<1>4. /\ ~InCall("closing")' /\ ~InCall("finalized")' /\ InCall("latest")' /\ ~Live'
      /\ call'[1].start = n /\ ~Stale'
    BY <1>3, CallFacts DEF InCall, Stale, Live
<1>5. loop = << >> /\ fills = {}
    BY <1>1 DEF Calm
<1>6. Calm'
    BY <1>1, <1>2, <1>3, <1>4, <1>5 DEF Calm
<1>7. ASSUME NEW m \in Nat PROVE (Within(m) => Within(m)') /\ (Above(m) => Above(m)')
    BY <1>1, <1>2, <1>3, <1>4, <1>5 DEF Within, Above, n
<1>. QED
    BY <1>6, <1>7 DEF Moves

LEMMA backFillMoves == ASSUME Inv, Calm, backFillBlocks PROVE Calm' /\ Moves
<1>1. /\ InCall("latest") /\ call' = << >> /\ UNCHANGED loop
      /\ s'.backfilling /\ s'.nextBlock = s.nextBlock
      /\ \A i \in 1..Len(queue') : queue'[i].n = s.nextBlock + i
    BY backFillCases
<1>2. loop = << >> /\ fills = {} /\ ~Stale
    BY <1>1 DEF Calm, Stale
<1>3. PICK x \in Reqs :
          /\ x.n = s.nextBlock
          /\ fills' = {[f EXCEPT !.current = FALSE] : f \in fills} \cup {[current |-> TRUE, req |-> x]}
    BY backFillCases
<1>4. fills' = {[current |-> TRUE, req |-> x]}
    BY <1>2, <1>3
<1>5. \A f \in fills' : fills' = {f} /\ f.req.n = s.nextBlock
    <2>1. [current |-> TRUE, req |-> x].req = x
        OBVIOUS
    <2>. QED
        BY <1>3, <1>4, <2>1
<1>6. /\ ~InCall("closing")' /\ ~InCall("finalized")' /\ ~InCall("latest")' /\ ~Live' /\ ~Stale'
    BY <1>1 DEF InCall, Stale, Restarting, Live
<1>7. Calm'
    BY <1>1, <1>2, <1>5, <1>6 DEF Calm
<1>8. ASSUME NEW m \in Nat PROVE (Within(m) => Within(m)') /\ (Above(m) => Above(m)')
    BY <1>1, <1>2, <1>6 DEF Within, Above
<1>. QED
    BY <1>7, <1>8 DEF Moves

LEMMA SubscribeMoves == ASSUME Inv, Calm, SubscribeToLogs PROVE Calm' /\ Moves
<1>1. InCall("latest") /\ call' = << >> /\ UNCHANGED <<queue, loop, fills>>
    BY DEF SubscribeToLogs, work
<1>2. s'.backfilling = s.backfilling /\ s'.nextBlock = s.nextBlock /\ s'.lastReceived = s.lastReceived
    BY DEF SubscribeToLogs, Inv, Types, Fields
<1>3. loop = << >> /\ queue = << >> /\ fills = {} /\ ~Stale /\ ~s.backfilling
    BY <1>1 DEF Calm, Stale, Inv, Bounded, InCall
<1>4. s.nextBlock \in Nat /\ s.lastReceived \in Nat /\ s.lastReceived = s.nextBlock - 1
    <2>1. s.nextBlock \in Nat /\ s.lastReceived \in Nat
        BY PendType DEF Inv
    <2>. QED
        BY <1>1, <2>1 DEF Calm
<1>5. pend' = << >> /\ Steady(pend', s'.lastReceived)
    <2>1. pend' = << >> \o << >>
        BY <1>1, <1>3 DEF pend
    <2>2. << >> \o << >> = << >> /\ Len(<< >>) = 0
        BY ConcatEmptySeq, EmptySeq
    <2>. QED
        BY <2>1, <2>2 DEF Steady
<1>6. /\ ~InCall("closing")' /\ ~InCall("finalized")' /\ ~InCall("latest")' /\ ~Stale'
    BY <1>1 DEF InCall, Stale, Restarting, Live
<1>7. Calm'
    BY <1>1, <1>2, <1>3, <1>5, <1>6 DEF Calm
<1>8. ASSUME NEW m \in Nat PROVE (Within(m) => Within(m)') /\ (Above(m) => Above(m)')
    BY <1>1, <1>2, <1>3, <1>4, <1>5, <1>6 DEF Within, Above
<1>. QED
    BY <1>7, <1>8 DEF Moves

\* Block b is given: it has the number expected, and the next one follows.
Gives(b) ==
    /\ given' = given \cup {b} /\ out' = IF Len(b) > out THEN Len(b) ELSE out
    /\ \A m \in Nat : /\ (Within(m) => Len(b) <= m + 1) /\ (Above(m) => m <= Len(b))
                      /\ (Len(b) <= m => Within(m)') /\ (m <= Len(b) => Above(m)')
    /\ s'.lastEmitted = b \/ (s'.lastEmitted = s.lastEmitted /\ s.backfilling)

LEMMA ProcessBlockMoves ==
    ASSUME Inv, Calm, loop # << >>, loop = <<loop[1]>>, loop[1] \in Reqs, NEW b \in Branches,
           Len(b) = loop[1].n, ProcessBlock(b), UNCHANGED fills
    PROVE  Calm' /\ Gives(b)
<1> DEFINE x == loop[1]
<1>0. /\ Types /\ queue \in Seq(Reqs) /\ s \in Fields /\ x \in Reqs /\ x.n \in Nat /\ Len(b) = x.n
      /\ s.lastReceived \in Nat
    BY FieldFacts DEF Inv, Types, Reqs
<1>1. Take(queue, s.fatalError) /\ UNCHANGED call /\ next(b)
    BY DEF ProcessBlock
<1>2. /\ s'.nextBlock = Len(b) + 1 /\ s'.lastEmitted = b /\ s'.lastReceived = s.lastReceived
      /\ s'.backfilling = s.backfilling
    BY <1>0 DEF ProcessBlock, Fields
<1>3. /\ pend' = queue /\ (queue = << >> => loop' = << >>)
      /\ (loop' # << >> => queue # << >> /\ loop' = <<queue[1]>>)
    BY <1>0, <1>1, TakeFacts DEF pend
<1>a. loop' # << >> => loop'[1] = queue[1]
    <2> SUFFICES ASSUME loop' # << >> PROVE loop'[1] = queue[1]
        OBVIOUS
    <2>1. loop' = <<queue[1]>>
        BY <1>3
    <2>2. \A y : <<y>>[1] = y
        OBVIOUS
    <2>. QED
        BY <2>1, <2>2, Zenon
<1>4. ~s.backfilling /\ (call = << >> \/ InCall("closing"))
    BY <1>0, CallSteps DEF Calm
<1>5. /\ InCall("closing")' = InCall("closing") /\ ~InCall("finalized")' /\ ~InCall("latest")'
      /\ Restarting' = Restarting /\ Stale' = Stale /\ Live' = Live
    BY <1>1, <1>2, <1>4 DEF InCall, Restarting, Stale, Live
<1>6. InCall("closing") => queue = << >> /\ loop' = << >> /\ queue' = << >>
    BY <1>1, <1>3 DEF Calm, Take
<1>7. Live => /\ Steady(queue, s.lastReceived)
              /\ queue = << >> => s.lastReceived = x.n
              /\ queue # << >> => queue[1].n \in {x.n, x.n + 1}
    <2> SUFFICES ASSUME Live
                 PROVE  /\ Steady(queue, s.lastReceived)
                        /\ queue = << >> => s.lastReceived = x.n
                        /\ queue # << >> => queue[1].n \in {x.n, x.n + 1}
        OBVIOUS
    <2>1. Steady(<<x>> \o queue, s.lastReceived)
        BY DEF Calm, pend
    <2> HIDE DEF x
    <2>. QED
        BY <1>0, <2>1, SteadyTail
<1>8. ~Live => InCall("closing")
    BY <1>4 DEF Live
<1>9. Calm'
    BY <1>2, <1>3, <1>4, <1>5, <1>6, <1>7 DEF Calm
<1>10. ASSUME NEW m \in Nat
       PROVE  /\ (Within(m) => Len(b) <= m + 1) /\ (Above(m) => m <= Len(b))
              /\ (Len(b) <= m => Within(m)') /\ (m <= Len(b) => Above(m)')
    <2>1. (Within(m) => Len(b) <= m + 1) /\ (Above(m) => m <= Len(b))
        BY <1>0 DEF Within, Above
    <2> HIDE DEF x
    <2>2. loop' # << >> => queue[1].n \in {x.n, x.n + 1} /\ loop'[1].n = queue[1].n
        BY <1>3, <1>a, <1>6, <1>7, <1>8
    <2>3. ASSUME Len(b) <= m PROVE Within(m)'
        <3>1. loop' # << >> => loop'[1].n <= m + 1
            BY <1>0, <2>2, <2>3
        <3>2. s'.nextBlock <= m + 1
            BY <1>0, <1>2, <2>3
        <3>3. Live' => IF pend' = << >> THEN s'.lastReceived <= m ELSE (pend')[1].n <= m + 1
            BY <1>0, <1>2, <1>3, <1>5, <1>7, <2>3
        <3>. QED
            BY <1>5, <3>1, <3>2, <3>3 DEF Within
    <2>4. ASSUME m <= Len(b) PROVE Above(m)'
        <3>1. loop' # << >> => m <= loop'[1].n
            BY <1>0, <2>2, <2>4
        <3>2. m <= s'.nextBlock - 1
            BY <1>0, <1>2, <2>4
        <3>3. Live' => IF pend' = << >> THEN m <= s'.lastReceived ELSE m <= (pend')[1].n
            BY <1>0, <1>2, <1>3, <1>5, <1>7, <2>4
        <3>. QED
            BY <1>5, <3>1, <3>2, <3>3 DEF Above
    <2>. QED
        BY <2>1, <2>3, <2>4
<1>. QED
    BY <1>1, <1>2, <1>9, <1>10 DEF Gives, next

LEMMA FillBlockMoves ==
    ASSUME Inv, Calm, NEW f \in fills, f \in Fills, NEW q \in Seq(Reqs),
           q = queue \/ \E w \in Workers : q = Grown(queue, w),
           NEW b \in Branches, Len(b) = f.req.n, FillBlock(f, b, q), UNCHANGED loop
    PROVE  Calm' /\ Gives(b)
<1>0. Types /\ s \in Fields /\ s.nextBlock \in Nat /\ queue \in Seq(Reqs) /\ Len(q) \in Nat
    BY FieldFacts DEF Inv, Types
<1>1. s.backfilling /\ call = << >> /\ next(b)
    BY DEF FillBlock, Active, Inv, Bounded
<1>2. loop = << >> /\ fills = {f} /\ f.req.n = s.nextBlock /\ Len(b) = s.nextBlock
    BY <1>1 DEF Calm
<1>3. \A i \in 1..Len(q) : q[i].n = s.nextBlock + i
    <2>1. \A i \in 1..Len(queue) : queue[i].n = s.nextBlock + i
        BY <1>1 DEF Calm
    <2>2. ASSUME NEW w \in Workers, q = Grown(queue, w)
          PROVE  \A i \in 1..Len(q) : q[i].n = s.nextBlock + i
        <3>1. \A i \in 1..Len(Grown(queue, w)) : Grown(queue, w)[i].n = s.nextBlock + i
            BY <1>0, <2>1, GrownFacts
        <3>. QED
            BY <2>2, <3>1
    <2>. QED
        BY <2>1, <2>2
<1>4. ~Stale
    BY <1>1 DEF Stale, Restarting
<1>5. \A m \in Nat : (Within(m) => Len(b) <= m + 1) /\ (Above(m) => m <= Len(b))
    BY <1>0, <1>2, <1>4 DEF Within, Above
<1>6. CASE s.nextBlock < s.lastFinalizedBlock /\ q # << >>
    <2>1. /\ s' = [s EXCEPT !.nextBlock = @ + 1]
          /\ fills' = (fills \ {f}) \cup {[f EXCEPT !.req = q[1]]}
          /\ queue' = Tail(q) /\ UNCHANGED call
        BY <1>6 DEF FillBlock
    <2>2. s'.nextBlock = s.nextBlock + 1 /\ s'.backfilling /\ s'.lastEmitted = s.lastEmitted
        BY <1>0, <1>1, <2>1 DEF Fields
    <2>3. fills' = {[f EXCEPT !.req = q[1]]} /\ [f EXCEPT !.req = q[1]].req = q[1]
        BY <1>2, <2>1 DEF Fills
    <2>4. q[1].n = s.nextBlock + 1
        <3>1. 1 \in 1..Len(q)
            BY <1>0, <1>6
        <3>. QED
            BY <1>3, <3>1
    <2>5. \A g \in fills' : fills' = {g} /\ g.req.n = s'.nextBlock
        BY <2>2, <2>3, <2>4
    <2>6. \A i \in 1..Len(queue') : queue'[i].n = s'.nextBlock + i
        <3>1. /\ Len(Tail(q)) = Len(q) - 1
              /\ \A i \in 1..Len(Tail(q)) : Tail(q)[i] = q[i + 1]
            BY <1>6, HeadTailProperties
        <3> SUFFICES ASSUME NEW i \in 1..Len(Tail(q)) PROVE Tail(q)[i].n = s.nextBlock + 1 + i
            BY <2>1, <2>2
        <3>a. i \in Nat \ {0} /\ i <= Len(q) - 1
            BY <1>0, <3>1
        <3>2. i + 1 \in 1..Len(q) /\ s.nextBlock + (i + 1) = s.nextBlock + 1 + i
            BY <1>0, <3>a
        <3>. QED
            BY <1>3, <3>1, <3>2
    <2>7. /\ ~InCall("closing")' /\ ~InCall("finalized")' /\ ~InCall("latest")' /\ ~Live'
          /\ loop' = << >>
        BY <1>1, <1>2, <2>1, <2>2 DEF InCall, Live
    <2>8. Calm'
        BY <2>2, <2>5, <2>6, <2>7 DEF Calm
    <2>9. \A m \in Nat : (Len(b) <= m => Within(m)') /\ (m <= Len(b) => Above(m)')
        BY <1>0, <1>2, <2>2, <2>7 DEF Within, Above
    <2>. QED
        BY <1>1, <1>5, <2>2, <2>8, <2>9 DEF Gives, next
<1>7. CASE ~(s.nextBlock < s.lastFinalizedBlock /\ q # << >>)
    <2>1. /\ s' = [s EXCEPT !.nextBlock = @ + 1, !.backfilling = FALSE]
          /\ fills' = fills \ {f} /\ call' = <<Call("backfill", "finalized", s.nextBlock + 1)>>
        BY <1>7 DEF FillBlock
    <2>2. s'.nextBlock = s.nextBlock + 1 /\ ~s'.backfilling /\ s'.lastEmitted = s.lastEmitted
        BY <1>0, <2>1 DEF Fields
    <2>3. /\ call' # << >> /\ call'[1].by = "backfill" /\ call'[1].step = "finalized"
          /\ call'[1].start = s.nextBlock + 1
        BY <2>1, CallFacts
    <2>4. /\ ~InCall("closing")' /\ InCall("finalized")' /\ ~InCall("latest")' /\ ~Live'
          /\ loop' = << >> /\ fills' = {}
        BY <1>2, <2>1, <2>3 DEF InCall, Live
    <2>5. Calm'
        BY <2>2, <2>4 DEF Calm
    <2>6. \A m \in Nat : (Len(b) <= m => Within(m)') /\ (m <= Len(b) => Above(m)')
        BY <1>0, <1>2, <2>2, <2>3, <2>4 DEF Within, Above
    <2>. QED
        BY <1>1, <1>5, <2>2, <2>5, <2>6 DEF Gives, next
<1>. QED
    BY <1>6, <1>7

-----------------------------------------------------------------------------
\* The steps: the number of the next block is kept, or a block is given, or
\* the owner starts the subscription.
Quiet == Moves /\ UNCHANGED hist /\ (s'.lastEmitted = s.lastEmitted)

LEMMA ProcessMoves ==
    ASSUME Inv, Numbered, Calm, processQueue
    PROVE  Calm' /\ (Quiet \/ \E b \in Branches : Gives(b))
<1>0. s \in Fields /\ Types
    BY DEF Inv, Types
<1>1. /\ loop # << >> /\ loop[1] \in Reqs /\ loop = <<loop[1]>> /\ UNCHANGED fills
      /\ \/ \E r \in Reqs :
                /\ r.n = loop[1].n /\ r.state = "done" /\ (r = loop[1] \/ Fresh(r))
                /\ ProcessBlock(r.block) \/ ProcessReorg(r.block)
         \/ ProcessError
    BY processQueueCases
<1>2. loop[1] \in Requested
    BY <1>1, MembersEmpty DEF Requested
<1>3. \A r \in Reqs : r.state = "done" /\ (r = loop[1] \/ Fresh(r)) =>
          r.block \in Branches /\ Len(r.block) = r.n
    BY <1>0, <1>2, FreshFacts DEF Numbered, Reqs
<1>4. ASSUME NEW r \in Reqs, r.n = loop[1].n, r.state = "done", r = loop[1] \/ Fresh(r),
             ProcessBlock(r.block)
      PROVE  Calm' /\ Gives(r.block)
    BY <1>1, <1>3, <1>4, ProcessBlockMoves
<1>5. ASSUME call # << >> PROVE Stale
    BY <1>0, <1>1, <1>5, CallSteps DEF Calm, Stale, InCall
<1>6. ASSUME NEW b \in Branches, ProcessReorg(b) PROVE Calm' /\ Quiet
    <2> DEFINE t == [s EXCEPT !.nextBlock = Len(b) + 1, !.fatalError = TRUE]
               v == [s EXCEPT !.nextBlock = Len(b) + 1]
    <2>1. error("reorg", b, t) /\ loop' = << >> /\ UNCHANGED hist
        BY <1>6 DEF ProcessReorg
    <2>2. /\ t.backfilling = s.backfilling /\ t.lastReceived = s.lastReceived
          /\ t.lastEmitted = s.lastEmitted /\ t = [v EXCEPT !.fatalError = TRUE]
        BY <1>0 DEF Fields
    <2>3. v \in Fields
        <3>1. Len(b) + 1 \in Nat
            BY DEF Branches
        <3>. QED
            BY <1>0, <3>1, SetNextBlock
    <2> HIDE DEF v, t
    <2>4. t \in Fields
        BY <2>2, <2>3, SetFatalError
    <2>5. Calm' /\ Moves
        BY <1>1, <1>5, <2>1, <2>2, <2>4, ErrorMoves
    <2>6. s'.lastEmitted = t.lastEmitted
        BY <2>1, <2>4 DEF error, Unsubscribe, Fields
    <2>. QED
        BY <2>1, <2>2, <2>5, <2>6 DEF Quiet
<1>7. ASSUME ProcessError PROVE Calm' /\ Quiet
    <2> DEFINE t == [s EXCEPT !.fatalError = TRUE]
    <2>1. error("other", NoBlock, t) /\ loop' = << >> /\ UNCHANGED hist
        BY <1>7 DEF ProcessError
    <2>2. /\ t.backfilling = s.backfilling /\ t.lastReceived = s.lastReceived
          /\ t.lastEmitted = s.lastEmitted
        BY <1>0 DEF Fields
    <2>3. t \in Fields
        BY <1>0, SetFatalError
    <2> HIDE DEF t
    <2>4. Calm' /\ Moves
        BY <1>1, <1>5, <2>1, <2>2, <2>3, ErrorMoves
    <2>5. s'.lastEmitted = t.lastEmitted
        BY <2>1, <2>3 DEF error, Unsubscribe, Fields
    <2>. QED
        BY <2>1, <2>2, <2>4, <2>5 DEF Quiet
<1>. QED
    BY <1>1, <1>3, <1>4, <1>6, <1>7

LEMMA FillMoves ==
    ASSUME Inv, Numbered, Calm, Fill
    PROVE  Calm' /\ (Quiet \/ \E b \in Branches : Gives(b))
<1>0. s \in Fields /\ Types /\ queue \in Seq(Reqs)
    BY DEF Inv, Types
<1>1. PICK f \in fills :
              /\ f \in Fills
              /\ \/ \E q \in Seq(Reqs), r \in Reqs :
                        /\ r.n = f.req.n /\ r.state = "done" /\ (r = f.req \/ Fresh(r))
                        /\ q = queue \/ \E w \in Workers : q = Grown(queue, w)
                        /\ FillBlock(f, r.block, q) \/ FillAbandoned(f, q)
                 \/ FillError(f)
              /\ UNCHANGED loop
    BY FillCases
<1>2. f.req \in Requested
    BY DEF Requested
<1>3. \A r \in Reqs : r.state = "done" /\ (r = f.req \/ Fresh(r)) =>
          r.block \in Branches /\ Len(r.block) = r.n
    BY <1>0, <1>2, FreshFacts DEF Numbered, Reqs
<1>4. ASSUME NEW q \in Seq(Reqs), NEW r \in Reqs, r.n = f.req.n, r.state = "done",
             r = f.req \/ Fresh(r), q = queue \/ \E w \in Workers : q = Grown(queue, w),
             FillBlock(f, r.block, q)
      PROVE  Calm' /\ Gives(r.block) /\ r.block \in Branches
    BY <1>1, <1>3, <1>4, FillBlockMoves
<1>5. ASSUME NEW q \in Seq(Reqs), q = queue \/ \E w \in Workers : q = Grown(queue, w),
             FillAbandoned(f, q)
      PROVE  Calm' /\ Quiet
    <2>1. queue' = q /\ fills' \subseteq fills /\ UNCHANGED <<s, call, err, hist>>
        BY <1>5 DEF FillAbandoned
    <2>2. Calm' /\ Moves
        BY <1>0, <1>1, <1>5, <2>1, AnswerMoves
    <2>. QED
        BY <2>1, <2>2 DEF Quiet
<1>6. ASSUME FillError(f) PROVE Calm' /\ Quiet
    <2> DEFINE t == [s EXCEPT !.backfilling = FALSE, !.fatalError = TRUE]
    <2>1. error("other", NoBlock, t) /\ fills' \subseteq fills /\ UNCHANGED hist
        BY <1>6 DEF FillError
    <2>2. t \in Fields /\ ~t.backfilling
        BY <1>0, Failing
    <2>3. t.nextBlock = s.nextBlock /\ t.lastReceived = s.lastReceived /\ t.lastEmitted = s.lastEmitted
        BY <1>0 DEF Fields
    <2> HIDE DEF t
    <2>4. Calm' /\ Moves
        BY <1>1, <2>1, <2>2, <2>3, ErrorMoves
    <2>5. s'.lastEmitted = t.lastEmitted
        BY <2>1, <2>2 DEF error, Unsubscribe, Fields
    <2>. QED
        BY <2>1, <2>3, <2>4, <2>5 DEF Quiet
<1>. QED
    BY <1>1, <1>4, <1>5, <1>6

LEMMA CallsMoves ==
    ASSUME Inv, Calm, Punctual, Calls
    PROVE  Calm' /\ (Quiet \/ \E n \in Nat : Starts(n))
<1>0. s \in Fields
    BY DEF Inv, Types
<1>1. ASSUME NEW by, NEW t \in Fields, Unsubscribe(by, t) PROVE s'.lastEmitted = t.lastEmitted
    BY <1>1 DEF Unsubscribe, Fields
<1>2. CASE OwnerRestarts
    BY <1>0, <1>1, <1>2, UnsubscribeMoves DEF OwnerRestarts, Quiet
<1>3. CASE checkIfLiveRestarts
    BY <1>0, <1>1, <1>3, UnsubscribeMoves DEF checkIfLiveRestarts, Quiet, Punctual
<1>4. CASE checkIfLiveAgain
    <2>1. s' = [s EXCEPT !.timer = <<s.lastBlockHash>>] /\ UNCHANGED <<queue, loop, fills, call, hist>>
        BY <1>4 DEF checkIfLiveAgain, work
    <2>2. /\ s'.backfilling = s.backfilling /\ s'.nextBlock = s.nextBlock
          /\ s'.lastReceived = s.lastReceived /\ s'.lastEmitted = s.lastEmitted
        BY <1>0, <2>1 DEF Fields
    <2>. QED
        BY <2>1, <2>2, MovesKept DEF Quiet
<1>5. CASE Closed
    BY <1>5, ClosedMoves DEF Quiet, Closed
<1>6. CASE Reset
    <2>1. UNCHANGED hist /\ s'.lastEmitted = s.lastEmitted
        BY <1>0, <1>6 DEF Reset, Fields
    <2>. QED
        BY <1>6, <2>1, ResetMoves DEF Quiet
<1>7. CASE backFillBlocks
    BY <1>7, backFillMoves, backFillCases DEF Quiet
<1>8. CASE SubscribeToLogs
    <2>1. UNCHANGED hist /\ s'.lastEmitted = s.lastEmitted
        BY <1>0, <1>8 DEF SubscribeToLogs, Fields
    <2>. QED
        BY <1>8, <2>1, SubscribeMoves DEF Quiet
<1>9. CASE CallFails
    <2> DEFINE t == IF call[1].by = "backfill" THEN [s EXCEPT !.fatalError = TRUE] ELSE s
    <2>1. t \in Fields /\ t.lastEmitted = s.lastEmitted
        <3>1. [s EXCEPT !.fatalError = TRUE] \in Fields
            BY <1>0, SetFatalError
        <3>. QED
            BY <1>0, <3>1 DEF Fields
    <2>2. Unsubscribe("owner", t) /\ UNCHANGED <<loop, fills, hist>>
        BY <1>9 DEF CallFails
    <2> HIDE DEF t
    <2>. QED
        BY <1>1, <2>1, <2>2, UnsubscribeMoves DEF Quiet
<1>. QED
    BY <1>2, <1>3, <1>4, <1>5, <1>6, <1>7, <1>8, <1>9 DEF Calls

LEMMA NextMoves ==
    ASSUME Inv, Numbered, Calm, Punctual, [Next]_vars
    PROVE  Calm' /\ (Quiet \/ (\E b \in Branches : Gives(b)) \/ \E n \in Nat : Starts(n))
<1>0. s \in Fields /\ Types /\ queue \in Seq(Reqs)
    BY DEF Inv, Types
<1>1. ASSUME UNCHANGED <<s, work, call, hist>> PROVE Calm' /\ Quiet
    BY <1>1, MovesKept DEF work, Quiet
<1>2. CASE Chain
    BY <1>1, <1>2, ChainCases
<1>3. CASE AnswerQueued
    <2>1. PICK i \in 1..Len(queue), r \in Reqs :
              /\ r.n = queue[i].n
              /\ \/ queue' = [queue EXCEPT ![i] = r]
                 \/ \E w \in Workers : queue' = Grown([queue EXCEPT ![i] = r], w)
        BY <1>3, AnswerQueuedCases
    <2>2. UNCHANGED <<s, loop, fills, call, hist>>
        BY <1>3, AnswerQueuedCases
    <2> DEFINE q == [queue EXCEPT ![i] = r]
    <2>3. q \in Seq(Reqs) /\ Len(q) = Len(queue) /\ \A j \in 1..Len(queue) : q[j].n = queue[j].n
        BY <1>0, <2>1, ExceptSeq
    <2>4. queue' = q \/ \E w \in Workers : queue' = Grown(q, w)
        BY <2>1
    <2> HIDE DEF q
    <2>5. Calm' /\ Moves
        BY <2>2, <2>3, <2>4, AnswerMoves
    <2>. QED
        BY <2>2, <2>5 DEF Quiet
<1>4. CASE Release
    <2>1. /\ queue' = queue \/ \E w \in Workers : queue' = Grown(queue, w)
          /\ UNCHANGED <<s, loop, fills, call, hist>>
        BY <1>4, ReleaseCases
    <2>2. Calm' /\ Moves
        BY <1>0, <2>1, AnswerMoves
    <2>. QED
        BY <2>1, <2>2 DEF Quiet
<1>5. CASE Data
    <2>1. UNCHANGED hist /\ s'.lastEmitted = s.lastEmitted
        BY <1>5, DataCases
    <2>. QED
        BY <1>5, <2>1, DataMoves DEF Quiet
<1>6. CASE OutsideError
    <2>1. error("other", NoBlock, s) /\ UNCHANGED <<loop, fills, hist>>
        BY <1>6 DEF OutsideError
    <2>2. s'.lastEmitted = s.lastEmitted
        BY <1>0, <2>1 DEF error, Unsubscribe, Fields
    <2>3. Calm' /\ Moves
        BY <1>0, <2>1, ErrorMoves
    <2>. QED
        BY <2>1, <2>2, <2>3 DEF Quiet
<1>7. CASE UNCHANGED vars
    BY <1>1, <1>7 DEF vars
<1>. QED
    BY <1>2, <1>3, <1>4, <1>5, <1>6, <1>7, ProcessMoves, FillMoves, CallsMoves DEF Next

LEMMA WithinMonotone ==
    ASSUME Types, NEW m \in Nat, NEW n \in Nat, m <= n, Within(m)
    PROVE  Within(n)
<1>1. InCall("finalized") => call[1].start \in Nat
    BY CallSteps
<1>. QED
    BY <1>1, PendType DEF Within

\* Blocks given that are on the chain after the step were on it before.
LEMMA OnChainBefore ==
    ASSUME Inv, Numbered, [Next]_vars, NEW b \in given, Extends(head', b)
    PROVE  Extends(head, b) /\ b \in Branches /\ Len(b) \in Nat
<1>1. b \in Branches /\ Known(b, head, forks)
    BY DEF Numbered
<1>. QED
    BY <1>1, KnownStep DEF Numbered, Branches

\* The owner starts after the last block given that is on the chain.
LEMMA StartFacts ==
    ASSUME Inv, NEW n \in Nat \ {0}, IsStart(n)
    PROVE  /\ StartBlock <= n
           /\ n = StartBlock \/ \E b \in given : Extends(head, b) /\ Len(b) = n - 1
           /\ given \subseteq Branches => \A b \in given : Extends(head, b) => Len(b) <= n - 1
<1>0. head \in Branches /\ Len(head) \in Nat /\ StartBlock \in Nat
    BY SubscriptionAssumption DEF Inv, Types, Branches
<1>1. StartBlock <= n /\ n <= Len(head) + 1
    BY <1>0 DEF IsStart
<1>2. ASSUME n # StartBlock PROVE \E b \in given : Extends(head, b) /\ Len(b) = n - 1
    <2>1. BlockAt(n - 1) \in given
        BY <1>2 DEF IsStart
    <2>2. n - 1 \in Nat /\ n - 1 <= Len(head)
        BY <1>0, <1>1
    <2>3. Extends(head, BlockAt(n - 1)) /\ Len(BlockAt(n - 1)) = n - 1
        BY <1>0, <2>2, AncestorFacts DEF BlockAt
    <2>. QED
        BY <2>1, <2>3
<1>3. ASSUME given \subseteq Branches, NEW b \in given, Extends(head, b) PROVE Len(b) <= n - 1
    <2>1. Len(b) \in Nat /\ Len(b) <= Len(head) /\ BlockAt(Len(b)) = b
        BY <1>3 DEF Extends, BlockAt, Branches
    <2>2. Len(b) \notin n..Len(head)
        BY <1>3, <2>1 DEF IsStart
    <2>. QED
        BY <1>0, <2>1, <2>2
<1>. QED
    BY <1>1, <1>2, <1>3

LEMMA NextGapFree ==
    ASSUME Inv, Numbered, Calm, Punctual, GapFree, [Next]_vars
    PROVE  GapFree' /\ out' <= out + 1
<1>0. out \in Nat /\ StartBlock \in Nat \ {0} /\ StartBlock - 1 <= out /\ given \subseteq Branches
    BY SubscriptionAssumption DEF GapFree, Numbered
<1>1. PICK c \in Nat : c = out
    BY <1>0
<1>2. Within(c) /\ \A b \in given : Extends(head, b) => Len(b) <= c
    BY <1>1 DEF GapFree, Within
<1>3. \A b \in given : Extends(head', b) => Len(b) <= c /\ Len(b) \in Nat
    BY <1>2, OnChainBefore
<1>4. CASE Quiet
    <2>1. Within(c)' /\ out' = c /\ UNCHANGED given
        BY <1>1, <1>2, <1>4 DEF Quiet, Moves, hist
    <2>2. Within(out)'
        BY <2>1 DEF Within
    <2>. QED
        BY <1>0, <1>1, <1>3, <2>1, <2>2 DEF GapFree
<1>5. ASSUME NEW b \in Branches, Gives(b) PROVE GapFree' /\ out' <= out + 1
    <2>1. Len(b) \in Nat /\ Len(b) <= c + 1 /\ out' = IF Len(b) > c THEN Len(b) ELSE c
        BY <1>1, <1>2, <1>5 DEF Gives, Branches
    <2>2. PICK d \in Nat : d = out'
        BY <2>1
    <2>3. Len(b) <= d /\ c <= d /\ d <= c + 1
        BY <2>1, <2>2
    <2>4. Within(d)'
        BY <1>5, <2>3 DEF Gives
    <2>5. Within(out)'
        BY <2>2, <2>4 DEF Within
    <2>6. given' = given \cup {b}
        BY <1>5 DEF Gives
    <2>7. \A x \in given' : Extends(head', x) => Len(x) <= d
        BY <1>3, <2>3, <2>6
    <2>8. StartBlock - 1 <= d
        BY <1>0, <1>1, <2>3
    <2>. QED
        BY <1>1, <2>2, <2>3, <2>5, <2>7, <2>8 DEF GapFree
<1>6. ASSUME NEW n \in Nat, Starts(n) PROVE GapFree' /\ out' <= out + 1
    <2>1. n \in Nat \ {0} /\ IsStart(n) /\ out' = n - 1 /\ UNCHANGED given
        BY <1>6 DEF Starts
    <2>2. /\ StartBlock <= n
          /\ n = StartBlock \/ \E b \in given : Extends(head, b) /\ Len(b) = n - 1
          /\ \A b \in given : Extends(head, b) => Len(b) <= n - 1
        BY <1>0, <2>1, StartFacts
    <2>3. n - 1 <= c
        BY <1>0, <1>1, <1>2, <2>1, <2>2
    <2>4. PICK d \in Nat : d = n - 1
        BY <2>1
    <2>5. Within(d)'
        BY <1>6, <2>4 DEF Starts
    <2>6. Within(out)'
        BY <2>1, <2>4, <2>5 DEF Within
    <2>7. \A b \in given : Extends(head', b) => Len(b) <= d
        BY <2>2, <2>4, OnChainBefore
    <2>. QED
        BY <1>0, <1>1, <2>1, <2>2, <2>3, <2>4, <2>6, <2>7 DEF GapFree
<1>. QED
    BY <1>4, <1>5, <1>6, NextMoves

LEMMA PunctualKept == ASSUME [Next]_vars PROVE Punctual' = Punctual
<1>1. ASSUME UNCHANGED scenario PROVE Punctual' = Punctual
    BY <1>1 DEF Punctual
<1>2. CASE Chain
    BY <1>1, <1>2 DEF Chain, Mine, Reorganise, Stall, WorkerExits, chain
<1>. QED
    BY <1>1, <1>2, HeadKept DEF chain

LEMMA InitGapFree == ASSUME Init PROVE Calm /\ GapFree /\ Low /\ Emitted
<1>0. StartBlock \in Nat \ {0}
    BY SubscriptionAssumption
<1>1. /\ call # << >> /\ call[1].by = "owner" /\ call[1].step = "finalized"
      /\ call[1].start = StartBlock
    BY CallFacts DEF Init
<1>2. /\ InCall("finalized") /\ ~InCall("closing") /\ ~InCall("latest") /\ ~Live /\ Stale
    BY <1>1 DEF InCall, Live, Stale, Restarting
<1>3. /\ loop = << >> /\ fills = {} /\ ~s.backfilling /\ s.lastEmitted = NoBlock
      /\ given = {} /\ out = StartBlock - 1
    BY DEF Init
<1>4. Calm
    BY <1>2, <1>3 DEF Calm
<1>5. Within(StartBlock - 1) /\ Above(StartBlock - 1)
    BY <1>0, <1>1, <1>2, <1>3 DEF Within, Above
<1>6. Within(out)
    BY <1>3, <1>5
<1>. QED
    BY <1>0, <1>3, <1>4, <1>5, <1>6 DEF GapFree, Low, Emitted

\* From the block the owner asked for, no number is left out: whatever the
\* order of answers, the blocks without logs, the failures of workers and
\* calls and the reorganisations, for any number of workers, any limits and
\* any chain, as long as no event comes while the log subscription is being
\* closed.
THEOREM SubscriptionNoGap == Spec /\ Punctual => NoGap
<1> DEFINE J == Inv /\ Numbered /\ Calm /\ Punctual /\ GapFree
<1>1. Init /\ Punctual => J
    BY InitInv, InitNumbered, InitGapFree
<1>2. J /\ [Next]_vars => J'
    BY NextInv, NextNumbered, NextMoves, NextGapFree, PunctualKept
<1>3. J /\ [Next]_vars => [out' <= out + 1]_vars
    BY NextGapFree
<1> HIDE DEF J
<1>. QED
    BY <1>1, <1>2, <1>3, PTL DEF Spec, NoGap

-----------------------------------------------------------------------------
(***************************************************************************)
(* That a reorganisation is not reported without reason: the block that    *)
(* processQueue compares with the block emitted last has the next number   *)
(* at most, so that one on the same branch has it for a parent.  A         *)
(* backfill does not set the block emitted last: after one that follows    *)
(* live blocks the comparison is wrong (see README, known divergences).    *)
(***************************************************************************)
NoBackfillAfterLive == s.backfilling => s.lastEmitted = NoBlock

LEMMA NextLow ==
    ASSUME Inv, Numbered, Calm, Punctual, Low, [Next]_vars
    PROVE  Low'
<1>0. StartBlock \in Nat \ {0} /\ StartBlock - 1 \in Nat /\ given \subseteq Branches
    BY SubscriptionAssumption DEF Numbered
<1>1. \A b \in given : Extends(head', b) => Len(b) \in Nat /\ Extends(head, b) /\ Above(Len(b))
    BY OnChainBefore DEF Low
<1>2. CASE Quiet
    <2>1. \A m \in Nat : Above(m) => Above(m)'
        BY <1>2 DEF Quiet, Moves
    <2>2. Above(StartBlock - 1)'
        BY <1>0, <2>1 DEF Low
    <2>3. ASSUME NEW b \in given, Extends(head', b) PROVE Above(Len(b))'
        BY <1>1, <2>1, <2>3
    <2>4. UNCHANGED given
        BY <1>2 DEF Quiet, hist
    <2>. QED
        BY <2>2, <2>3, <2>4 DEF Low
<1>3. ASSUME NEW b \in Branches, Gives(b) PROVE Low'
    <2>1. /\ given' = given \cup {b} /\ Len(b) \in Nat
          /\ \A m \in Nat : (Above(m) => m <= Len(b)) /\ (m <= Len(b) => Above(m)')
        BY <1>3 DEF Gives, Branches
    <2>2. Above(StartBlock - 1)'
        BY <1>0, <2>1 DEF Low
    <2>3. ASSUME NEW x \in given, Extends(head', x) PROVE Above(Len(x))'
        BY <1>1, <2>1, <2>3
    <2>4. Above(Len(b))'
        BY <2>1
    <2>. QED
        BY <2>1, <2>2, <2>3, <2>4 DEF Low
<1>4. ASSUME NEW n \in Nat, Starts(n) PROVE Low'
    <2>1. /\ n \in Nat \ {0} /\ IsStart(n) /\ UNCHANGED given
          /\ \A m \in Nat : m <= n - 1 => Above(m)'
        BY <1>4 DEF Starts
    <2>2. StartBlock <= n /\ \A b \in given : Extends(head, b) => Len(b) <= n - 1
        BY <1>0, <2>1, StartFacts
    <2>3. Above(StartBlock - 1)'
        BY <1>0, <2>1, <2>2
    <2>4. ASSUME NEW x \in given, Extends(head', x) PROVE Above(Len(x))'
        BY <1>1, <2>1, <2>2, <2>4
    <2>. QED
        BY <2>1, <2>3, <2>4 DEF Low
<1>. QED
    BY <1>2, <1>3, <1>4, NextMoves

LEMMA NextEmitted ==
    ASSUME Inv, Numbered, Calm, Punctual, Low, Emitted, NoBackfillAfterLive, [Next]_vars
    PROVE  Emitted'
<1> SUFFICES ASSUME s'.lastEmitted # NoBlock
             PROVE  /\ Within(Len(s.lastEmitted))' /\ StartBlock - 1 <= Len(s'.lastEmitted)
                    /\ \A b \in given' : Extends(head', b) => Len(b) <= Len(s'.lastEmitted)
    BY DEF Emitted
<1>0. /\ StartBlock \in Nat \ {0} /\ StartBlock - 1 \in Nat /\ given \subseteq Branches
      /\ Len(s.lastEmitted) \in Nat
    BY SubscriptionAssumption, FieldFacts DEF Numbered, Inv, Types, Branches
<1>1. PICK e \in Nat : e = Len(s.lastEmitted)
    BY <1>0
<1>2. s.lastEmitted # NoBlock =>
          /\ Within(e) /\ StartBlock - 1 <= e
          /\ \A b \in given : Extends(head, b) => Len(b) <= e
    BY <1>1 DEF Emitted, Within
<1>3. \A b \in given : Extends(head', b) => Extends(head, b) /\ Len(b) \in Nat
    BY OnChainBefore
<1>4. CASE Quiet
    <2>1. /\ \A m \in Nat : Within(m) => Within(m)'
          /\ s'.lastEmitted = s.lastEmitted /\ UNCHANGED given
        BY <1>4 DEF Quiet, Moves, hist
    <2>2. Within(e)' /\ Len(s'.lastEmitted) = e
        BY <1>1, <1>2, <2>1
    <2>3. Within(Len(s.lastEmitted))'
        BY <2>2 DEF Within
    <2>. QED
        BY <1>1, <1>2, <1>3, <2>1, <2>3
<1>5. ASSUME NEW b \in Branches, Gives(b)
      PROVE  /\ Within(Len(s.lastEmitted))' /\ StartBlock - 1 <= Len(s'.lastEmitted)
             /\ \A x \in given' : Extends(head', x) => Len(x) <= Len(s'.lastEmitted)
    <2>1. /\ given' = given \cup {b} /\ Len(b) \in Nat /\ Len(b) <= Len(b)
          /\ \A m \in Nat : (Above(m) => m <= Len(b)) /\ (Len(b) <= m => Within(m)')
          /\ s'.lastEmitted = b \/ (s'.lastEmitted = s.lastEmitted /\ s.backfilling)
        BY <1>5 DEF Gives, Branches
    <2>2. s'.lastEmitted = b
        BY <2>1 DEF NoBackfillAfterLive
    <2>3. PICK d \in Nat : d = Len(b)
        BY <2>1
    <2>4. Within(d)' /\ Len(s'.lastEmitted) = d
        BY <2>1, <2>2, <2>3
    <2>5. Within(Len(s.lastEmitted))'
        BY <2>4 DEF Within
    <2>6. StartBlock - 1 <= d
        BY <1>0, <2>1, <2>3 DEF Low
    <2>7. ASSUME NEW x \in given, Extends(head', x) PROVE Len(x) <= d
        BY <1>3, <2>1, <2>3, <2>7 DEF Low
    <2>. QED
        BY <2>1, <2>3, <2>4, <2>5, <2>6, <2>7
<1>6. ASSUME NEW n \in Nat, Starts(n)
      PROVE  /\ Within(Len(s.lastEmitted))' /\ StartBlock - 1 <= Len(s'.lastEmitted)
             /\ \A b \in given' : Extends(head', b) => Len(b) <= Len(s'.lastEmitted)
    <2>1. /\ n \in Nat \ {0} /\ IsStart(n) /\ UNCHANGED <<given, s>>
          /\ \A m \in Nat : n - 1 <= m => Within(m)'
        BY <1>6 DEF Starts
    <2>2. n = StartBlock \/ \E b \in given : Extends(head, b) /\ Len(b) = n - 1
        BY <2>1, StartFacts
    <2>3. n - 1 <= e
        BY <1>0, <1>2, <2>1, <2>2
    <2>4. Within(e)' /\ Len(s'.lastEmitted) = e
        BY <1>1, <2>1, <2>3
    <2>5. Within(Len(s.lastEmitted))'
        BY <2>4 DEF Within
    <2>. QED
        BY <1>2, <1>3, <2>1, <2>4, <2>5
<1>. QED
    BY <1>4, <1>5, <1>6, NextMoves

\* What the observer is told of a reorganisation.
Missed(b) ==
    /\ loop # << >> /\ loop[1] \in Reqs /\ loop[1] \in Requested
    /\ \E r \in Reqs : /\ r.n = loop[1].n /\ r.state = "done" /\ (r = loop[1] \/ Fresh(r))
                       /\ b = r.block /\ isReOrgedMissed(b)

LEMMA ReorgReported ==
    ASSUME Inv, [Next]_vars, err = << >>, NEW i \in 1..Len(err'), err'[i].kind = "reorg"
    PROVE  Missed(err'[i].block)
<1>0. Len(<< >>) = 0
    OBVIOUS
<1>1. err' # << >>
    BY <1>0
<1>2. ASSUME NEW kind, NEW b, NEW t, error(kind, b, t) PROVE err'[i] = [kind |-> kind, block |-> b]
    <2>1. err' = <<[kind |-> kind, block |-> b]>>
        BY <1>1, <1>2 DEF error
    <2>2. \A x : Len(<<x>>) = 1 /\ <<x>>[1] = x
        OBVIOUS
    <2>3. i = 1
        BY <2>1, <2>2
    <2>. QED
        BY <2>1, <2>2, <2>3
<1>3. ASSUME NEW b, NEW t, error("other", b, t) PROVE FALSE
    <2>1. err'[i] = [kind |-> "other", block |-> b]
        BY <1>2, <1>3
    <2>2. \A e : e = [kind |-> "other", block |-> b] => e.kind = "other"
        OBVIOUS
    <2>3. err'[i].kind = "other"
        BY <2>1, <2>2, Zenon
    <2>. QED
        BY <2>3
<1>4. CASE processQueue
    <2>1. /\ loop # << >> /\ loop[1] \in Reqs /\ loop[1] \in Requested
          /\ \/ \E r \in Reqs :
                    /\ r.n = loop[1].n /\ r.state = "done" /\ (r = loop[1] \/ Fresh(r))
                    /\ ProcessBlock(r.block) \/ ProcessReorg(r.block)
             \/ ProcessError
        BY <1>4, processQueueCases, MembersEmpty DEF Requested
    <2>2. \A b : ~ProcessBlock(b)
        BY <1>1 DEF ProcessBlock
    <2>3. ~ProcessError
        BY <1>3 DEF ProcessError
    <2>4. ASSUME NEW r, ProcessReorg(r.block) PROVE err'[i].block = r.block /\ isReOrgedMissed(r.block)
        <3>1. err'[i] = [kind |-> "reorg", block |-> r.block]
            BY <1>2, <2>4 DEF ProcessReorg
        <3>. QED
            BY <2>4, <3>1 DEF ProcessReorg
    <2>. QED
        BY <2>1, <2>2, <2>3, <2>4 DEF Missed
<1>5. CASE Fill
    <2>1. PICK f \in fills :
                 \/ \E q \in Seq(Reqs), r \in Reqs : FillBlock(f, r.block, q) \/ FillAbandoned(f, q)
                 \/ FillError(f)
        BY <1>5, FillCases
    <2>2. \A q, b : ~FillBlock(f, b, q) /\ ~FillAbandoned(f, q)
        BY <1>1 DEF FillBlock, FillAbandoned
    <2>3. ~FillError(f)
        BY <1>3 DEF FillError
    <2>. QED
        BY <2>1, <2>2, <2>3
<1>6. CASE OutsideError
    BY <1>3, <1>6 DEF OutsideError
<1>7. CASE CallFails
    <2>1. err' = <<[kind |-> "other", block |-> NoBlock]>>
        BY <1>7 DEF CallFails
    <2>2. \A x : Len(<<x>>) = 1 /\ <<x>>[1] = x
        OBVIOUS
    <2>3. i = 1
        BY <2>1, <2>2
    <2>4. err'[i] = [kind |-> "other", block |-> NoBlock]
        BY <2>1, <2>2, <2>3, Zenon
    <2>5. \A e, b : e = [kind |-> "other", block |-> b] => e.kind = "other"
        OBVIOUS
    <2>6. err'[i].kind = "other"
        BY <2>4, <2>5, Zenon
    <2>. QED
        BY <2>6
<1>8. CASE Closed
    BY <1>1, <1>8 DEF Closed
<1>9. ASSUME UNCHANGED err PROVE FALSE
    BY <1>1, <1>9
<1>10. CASE Chain
    BY <1>9, <1>10 DEF Chain, Mine, Reorganise, Stall, WorkerExits
<1>11. CASE AnswerQueued \/ Release \/ Data \/ UNCHANGED vars
    BY <1>9, <1>11 DEF AnswerQueued, Release, Data, vars
<1>12. CASE OwnerRestarts \/ checkIfLiveRestarts \/ checkIfLiveAgain \/ Reset \/ backFillBlocks
                \/ SubscribeToLogs
    BY <1>9, <1>12 DEF OwnerRestarts, checkIfLiveRestarts, checkIfLiveAgain, Reset, backFillBlocks,
       SubscribeToLogs
<1>. QED
    BY <1>4, <1>5, <1>6, <1>7, <1>8, <1>10, <1>11, <1>12 DEF Next, Calls

LEMMA NextNoFalseReorg ==
    ASSUME Inv, Numbered, Calm, Punctual, Emitted, [Next]_vars,
           err = << >>, NEW i \in 1..Len(err'), err'[i].kind = "reorg"
    PROVE  ~Extends(err'[i].block, s.lastEmitted)
<1>1. PICK b : b = err'[i].block
    OBVIOUS
<1>2. Missed(b)
    BY <1>1, ReorgReported
<1>4. s.lastEmitted # NoBlock /\ Len(b) > Len(s.lastEmitted) /\ Parent(b) # s.lastEmitted
    BY <1>2 DEF Missed, isReOrgedMissed
<1>5. Types /\ Len(s.lastEmitted) \in Nat
    BY FieldFacts DEF Inv, Types, Branches
<1>6. Len(b) \in Nat /\ Len(b) <= Len(s.lastEmitted) + 1
    <2>1. b \in Branches /\ Len(b) = loop[1].n
        BY <1>2, <1>5, FreshFacts DEF Missed, Numbered, Reqs
    <2>2. loop[1].n <= Len(s.lastEmitted) + 1
        BY <1>2, <1>4 DEF Missed, Emitted, Within
    <2>. QED
        BY <2>1, <2>2 DEF Branches
<1>7. Len(b) - 1 = Len(s.lastEmitted)
    BY <1>4, <1>5, <1>6
<1>8. ~Extends(b, s.lastEmitted)
    BY <1>4, <1>7 DEF Extends, Parent
<1>. QED
    BY <1>1, <1>8

\* The comparison with the block emitted last reports a reorganisation only
\* for a block on another branch, whatever else interleaves with it, unless
\* a backfill runs after live blocks were given: the only way to a report
\* without a reorganisation is the one in the README.
THEOREM SubscriptionNoFalseReorg == Spec /\ []NoBackfillAfterLive => NoFalseReorg
<1> DEFINE J == Inv /\ Numbered /\ Calm /\ Punctual /\ Low /\ Emitted
           Right == \A e \in {err'[i] : i \in 1..Len(err')} :
               err = << >> /\ e.kind = "reorg" /\ "late" \notin scenario.hazards =>
                   ~Extends(e.block, s.lastEmitted)
<1>1. Init /\ Punctual => J
    BY InitInv, InitNumbered, InitGapFree
<1>2. J /\ NoBackfillAfterLive /\ [Next]_vars => J'
    BY NextInv, NextNumbered, NextMoves, NextLow, NextEmitted, PunctualKept
<1>3. J /\ [Next]_vars => [Right]_vars
    BY NextNoFalseReorg
<1>4. ~Punctual /\ [Next]_vars => ~Punctual'
    BY PunctualKept
<1>5. ~Punctual => [Right]_vars
    BY DEF Punctual
<1>6. NoFalseReorg <=> [][Right]_vars
    BY DEF NoFalseReorg
<1> HIDE DEF J, Right
<1>. QED
    BY <1>1, <1>2, <1>3, <1>4, <1>5, <1>6, PTL DEF Spec
-----------------------------------------------------------------------------
(***************************************************************************)
(* That the subscription implements BlockStream, when a reorganisation     *)
(* replaces at most one block and what the node calls final does not       *)
(* change.  Then the parent of a block that was fetched stays on the       *)
(* chain, and with it the blocks before it; so it is enough to show that   *)
(* these are given, of every block given, and that no number is left out.  *)
(***************************************************************************)
Shallow == ForkDepth <= 1 /\ ForkDepth <= Lag

\* Whoever starts a backfill was given the block before it.
FillsKnown ==
    InCall("latest") /\ s.nextBlock <= Len(head) /\ FarBehind =>
        s.nextBlock = StartBlock \/ BlockAt(s.nextBlock - 1) \in given

\* The blocks wanted before number n stay on the chain and are given.
Full(n) == \A k \in StartBlock..(n - 1) : k + ForkDepth <= Len(head) /\ BlockAt(k) \in given

\* The parent of b stays on the chain.
Seen(b) == Len(b) - 1 + ForkDepth <= Len(head) /\ Extends(head, Parent(b))

\* A block that BlockStream may give: all blocks before it are given.
Due(b) == b \in Branches /\ StartBlock <= Len(b) /\ Seen(b) /\ Full(Len(b))

Fetched == \A r \in Requested : StartBlock <= r.n /\ (r.state = "done" => Seen(r.block))
Ancestors == \A b \in given : Due(b)

\* The log subscription, and the events it has under way.
Subscribed ==
    feed.state = "on" \/ feed.logs # << >> =>
        /\ StartBlock <= Len(head) /\ StartBlock - 1 <= s.lastReceived
        /\ \A i \in 1..Len(feed.logs) : StartBlock <= Len(feed.logs[i])

\* A backfill gives final blocks.
Filled ==
    /\ s.backfilling \/ InCall("latest") => s.lastFinalizedBlock + ForkDepth <= Len(head)
    /\ s.backfilling =>
           /\ s.nextBlock <= s.lastFinalizedBlock /\ Full(s.nextBlock)
           /\ \A r \in Requested : r.state = "done" /\ r.n <= s.lastFinalizedBlock =>
                  Extends(head, r.block)

\* The first live block follows all that were given.
Compared ==
    IF s.lastEmitted = NoBlock THEN Full(out + 1) ELSE s.lastEmitted \in given

Complete == Fetched /\ Ancestors /\ Subscribed /\ Filled /\ Compared

-----------------------------------------------------------------------------
\* What stays on the chain.
LEMMA ParentFacts ==
    ASSUME NEW h \in Branches, NEW b \in Branches, b # NoBlock
    PROVE  /\ Parent(b) \in Branches /\ Len(Parent(b)) = Len(b) - 1 /\ Len(b) \in Nat \ {0}
           /\ Extends(h, b) => Extends(h, Parent(b))
<1>1. Len(b) \in Nat \ {0}
    BY DEF Branches, NoBlock
<1>2. Len(b) - 1 \in Nat /\ Len(b) - 1 <= Len(b)
    BY <1>1
<1>3. /\ Parent(b) \in Branches /\ Len(Parent(b)) = Len(b) - 1
      /\ \A i \in 1..(Len(b) - 1) : Parent(b)[i] = b[i]
    BY <1>2, AncestorFacts DEF Parent
<1>4. ASSUME Extends(h, b) PROVE Extends(h, Parent(b))
    <2>1. Len(b) <= Len(h) /\ \A i \in 1..Len(b) : b[i] = h[i]
        BY <1>4, ExtendsIff
    <2>2. Len(Parent(b)) <= Len(h) /\ \A i \in 1..Len(Parent(b)) : Parent(b)[i] = h[i]
        <3>1. Len(h) \in Nat
            BY DEF Branches
        <3>. QED
            BY <1>1, <1>3, <2>1, <3>1
    <2>. QED
        BY <1>3, <2>2, ExtendsIff
<1>. QED
    BY <1>1, <1>3, <1>4

\* A block that no reorganisation reaches.
LEMMA Stays ==
    ASSUME Inv, [Next]_vars
    PROVE  /\ head \in Branches /\ head' \in Branches /\ Len(head) \in Nat /\ Len(head') \in Nat
           /\ Len(head) <= Len(head') /\ ForkDepth \in Nat /\ StartBlock \in Nat \ {0}
           /\ \A b \in Branches : Len(b) + ForkDepth <= Len(head) /\ Extends(head, b) =>
                  Extends(head', b)
<1>0. /\ head \in Branches /\ Len(head) \in Nat /\ ForkDepth \in Nat /\ StartBlock \in Nat \ {0}
    BY SubscriptionAssumption DEF Inv, Types, Branches
<1>1. head' \in Branches /\ Len(head') \in Nat
    BY NextInv DEF Inv, Types, Branches
<1>2. ASSUME NEW n \in 0..Len(head), NEW k \in Nat \ {0}, Extend(n, k), forks' \in Nat,
             Len(head) < n + k, n + ForkDepth >= Len(head)
      PROVE  /\ Len(head) <= Len(head')
             /\ \A b \in Branches : Len(b) + ForkDepth <= Len(head) /\ Extends(head, b) =>
                  Extends(head', b)
    <2>1. Len(head') = n + k /\ \A i \in 1..n : head'[i] = head[i]
        BY <1>2, ExtendFacts DEF Inv
    <2>2. ASSUME NEW b \in Branches, Len(b) + ForkDepth <= Len(head), Extends(head, b)
          PROVE  Extends(head', b)
        <3>1. Len(b) \in Nat /\ Len(b) <= n /\ Len(b) <= Len(head')
            BY <1>0, <1>2, <2>1, <2>2 DEF Branches
        <3>2. \A i \in 1..Len(b) : b[i] = head[i]
            BY <1>0, <2>2, ExtendsIff
        <3>3. \A i \in 1..Len(b) : b[i] = head'[i]
            BY <2>1, <3>1, <3>2
        <3>. QED
            BY <1>1, <3>1, <3>3, ExtendsIff
    <2>. QED
        BY <1>0, <1>2, <2>1, <2>2
<1>3. CASE Chain
    BY <1>0, <1>1, <1>2, <1>3, ChainCases
<1>4. CASE UNCHANGED head
    BY <1>0, <1>4
<1>. QED
    BY <1>0, <1>1, <1>3, <1>4, HeadKept DEF chain

LEMMA FullLess == ASSUME NEW n \in Nat, NEW m \in Nat, n <= m, Full(m) PROVE Full(n)
BY SubscriptionAssumption DEF Full

LEMMA FullStays ==
    ASSUME Inv, [Next]_vars, given \subseteq given', NEW n \in Nat, Full(n)
    PROVE  Full(n)'
<1> SUFFICES ASSUME NEW k \in StartBlock..(n - 1)
             PROVE  k + ForkDepth <= Len(head') /\ BlockAt(k)' \in given'
    BY DEF Full
<1>1. k \in Nat /\ k + ForkDepth <= Len(head) /\ BlockAt(k) \in given /\ k <= Len(head)
    BY Stays DEF Full
<1>2. PICK b : b = BlockAt(k)
    OBVIOUS
<1>3. b \in Branches /\ Len(b) = k /\ Extends(head, b)
    BY <1>1, <1>2, Stays, AncestorFacts DEF BlockAt
<1>4. Extends(head', b)
    BY <1>1, <1>3, Stays
<1>5. BlockAt(k)' = b
    BY <1>3, <1>4 DEF Extends, BlockAt
<1>. QED
    BY <1>1, <1>2, <1>5, Stays

\* A block is given that stays on the chain.
LEMMA FullNext ==
    ASSUME Inv, [Next]_vars, NEW b \in Branches, given' = given \cup {b}, Full(Len(b)),
           Len(b) + ForkDepth <= Len(head), Extends(head, b)
    PROVE  Full(Len(b) + 1)'
<1>1. Len(b) \in Nat
    BY DEF Branches
<1>2. Full(Len(b))'
    BY <1>1, FullStays
<1>3. Extends(head', b) /\ Len(b) + ForkDepth <= Len(head')
    BY <1>1, Stays
<1>4. BlockAt(Len(b))' = b
    BY <1>3 DEF Extends, BlockAt
<1>5. PICK d \in Nat : d = Len(b)
    BY <1>1
<1>6. Full(d)' /\ BlockAt(d)' = b /\ d + ForkDepth <= Len(head')
    BY <1>2, <1>3, <1>4, <1>5
<1>7. Full(d + 1)'
    BY <1>6, Stays DEF Full
<1>. QED
    BY <1>5, <1>7

LEMMA SeenStays ==
    ASSUME Inv, [Next]_vars, NEW b \in Branches, b # NoBlock, Seen(b)
    PROVE  Seen(b)'
<1>1. Parent(b) \in Branches /\ Len(Parent(b)) = Len(b) - 1 /\ Len(b) \in Nat \ {0}
    BY Stays, ParentFacts
<1>2. Len(b) - 1 + ForkDepth <= Len(head) /\ Extends(head, Parent(b))
    BY DEF Seen
<1>3. Extends(head', Parent(b))
    BY <1>1, <1>2, Stays
<1>4. Len(b) - 1 + ForkDepth <= Len(head')
    BY <1>1, <1>2, Stays
<1>. QED
    BY <1>3, <1>4 DEF Seen

LEMMA SeenFresh ==
    ASSUME Shallow, Types, NEW r \in Reqs, Fresh(r), r.n # 0
    PROVE  Seen(r.block)
<1>1. r.block \in Branches /\ Len(r.block) = r.n /\ Extends(head, r.block) /\ head \in Branches
    BY FreshFacts DEF Types
<1>2. r.block # NoBlock /\ Len(r.block) \in Nat
    BY <1>1 DEF NoBlock, Reqs
<1>3. Extends(head, Parent(r.block))
    BY <1>1, <1>2, ParentFacts
<1>4. ForkDepth \in Nat /\ Len(head) \in Nat /\ r.n <= Len(head)
    BY SubscriptionAssumption DEF Fresh, Types, Branches
<1>. QED
    BY <1>1, <1>2, <1>3, <1>4 DEF Shallow, Seen

\* A block with its ancestors given is one that BlockStream may give.
LEMMA FullParent ==
    ASSUME Types, NEW b \in Branches, StartBlock < Len(b), Seen(b), Full(Len(b))
    PROVE  Parent(b) \in given
<1>1. StartBlock \in Nat \ {0} /\ Len(b) \in Nat
    BY SubscriptionAssumption DEF Branches
<1>2. b # NoBlock /\ head \in Branches
    BY <1>1 DEF NoBlock, Types
<1>3. Len(b) - 1 \in StartBlock..(Len(b) - 1)
    BY <1>1
<1>4. BlockAt(Len(b) - 1) \in given
    BY <1>3 DEF Full
<1>5. Len(Parent(b)) = Len(b) - 1 /\ Extends(head, Parent(b))
    BY <1>2, ParentFacts DEF Seen
<1>. QED
    BY <1>4, <1>5 DEF Extends, BlockAt

-----------------------------------------------------------------------------
\* The numbers asked for are the owner's first and those after it.
Wanted == \A r \in Requested : StartBlock <= r.n

\* In a backfill they are numbered from nextBlock on.
LEMMA FillWanted ==
    ASSUME Inv, Calm, Low, s.backfilling
    PROVE  /\ Wanted /\ StartBlock <= s.nextBlock
           /\ \A i \in 1..Len(queue) : queue[i].n = s.nextBlock + i
<1>0. StartBlock \in Nat \ {0} /\ s.nextBlock \in Nat /\ queue \in Seq(Reqs)
    BY SubscriptionAssumption, FieldFacts DEF Inv, Types
<1>1. StartBlock <= s.nextBlock
    <2>1. ~Stale
        BY DEF Inv, Bounded, Stale, Restarting
    <2>. QED
        BY <1>0, <2>1 DEF Low, Above
<1>2. /\ loop = << >> /\ \A f \in fills : f.req.n = s.nextBlock
      /\ \A i \in 1..Len(queue) : queue[i].n = s.nextBlock + i
    BY DEF Calm
<1>3. \A r \in Members(queue) : StartBlock <= r.n
    BY <1>0, <1>1, <1>2 DEF Members
<1>. QED
    BY <1>1, <1>2, <1>3, MembersEmpty DEF Wanted, Requested

\* The same after a step.
LEMMA FillWantedAfter == (Inv /\ Calm /\ Low /\ s.backfilling => Wanted)'
<1>1. Inv /\ Calm /\ Low /\ s.backfilling => Wanted
    BY FillWanted
<1>. QED
    BY <1>1, PTL

\* No request is added.
LEMMA WantedKept ==
    ASSUME Wanted, Members(queue') \cup Members(loop') \subseteq Members(queue) \cup Members(loop),
           fills' \subseteq fills
    PROVE  Wanted'
BY DEF Wanted, Requested

LEMMA ErrorWanted ==
    ASSUME Wanted, NEW kind, NEW b, NEW t, error(kind, b, t), loop' = loop \/ loop' = << >>,
           fills' \subseteq fills
    PROVE  Wanted'
BY WantedKept, ErrorRequests, MembersEmpty

LEMMA AnswerWanted ==
    ASSUME Inv, Wanted, ~s.backfilling, NEW q \in Seq(Reqs),
           \A r \in Members(q) : StartBlock <= r.n,
           queue' = q \/ \E w \in Workers : queue' = Grown(q, w), UNCHANGED <<loop, fills>>
    PROVE  Wanted'
<1>1. queue' = q
    BY GrownFacts DEF Inv
<1>. QED
    BY <1>1 DEF Wanted, Requested

LEMMA ProcessWanted == ASSUME Inv, Wanted, processQueue PROVE Wanted'
<1>1. /\ loop # << >> /\ UNCHANGED fills
      /\ \/ \E r \in Reqs : ProcessBlock(r.block) \/ ProcessReorg(r.block)
         \/ ProcessError
    BY processQueueCases
<1>2. ASSUME NEW b, ProcessBlock(b) PROVE Wanted'
    <2>1. Take(queue, s.fatalError) /\ queue \in Seq(Reqs)
        BY <1>2 DEF ProcessBlock, Inv, Types
    <2>2. Members(loop') \cup Members(queue') = Members(queue)
        BY <2>1, TakeFacts
    <2>. QED
        BY <1>1, <2>2, WantedKept
<1>3. ASSUME NEW b, ProcessReorg(b) PROVE Wanted'
    BY <1>1, <1>3, ErrorWanted DEF ProcessReorg
<1>4. ASSUME ProcessError PROVE Wanted'
    BY <1>1, <1>4, ErrorWanted DEF ProcessError
<1>. QED
    BY <1>1, <1>2, <1>3, <1>4

LEMMA DataWanted ==
    ASSUME Inv, Wanted, Subscribed, Data
    PROVE  Wanted'
<1> DEFINE b == feed.logs[1]
           q == Requests(Len(b))
<1>0. Types /\ StartBlock \in Nat /\ s.lastReceived \in Nat
    BY SubscriptionAssumption, FieldFacts DEF Inv, Types
<1>1. feed.logs # << >> /\ feed.logs \in Seq(Branches) /\ Len(b) \in Nat
    BY DataCases
<1>2. StartBlock <= Len(b) /\ StartBlock - 1 <= s.lastReceived
    BY <1>1 DEF Subscribed
<1>3. CASE UNCHANGED <<queue, loop>>
    BY <1>3, DataCases, WantedKept
<1>4. ASSUME Len(b) >= s.lastReceived, Requested' = Requested \cup Members(q)
      PROVE  Wanted'
    <2>1. /\ q \in Seq(Reqs)
          /\ \A r \in Members(q) : s.lastReceived < r.n \/ Len(b) <= r.n
        BY <1>0, <1>1, <1>4, RequestsFacts
    <2>2. \A r \in Members(q) : r \in Reqs
        BY <2>1, ElementOfSeq DEF Members
    <2> HIDE DEF b, q
    <2>3. \A r \in Members(q) : StartBlock <= r.n
        BY <1>0, <1>1, <1>2, <2>1, <2>2 DEF Reqs
    <2>. QED
        BY <1>4, <2>3 DEF Wanted
<1>. QED
    BY <1>3, <1>4, DataCases

LEMMA CallsWanted == ASSUME Inv, Wanted, Calls, ~backFillBlocks PROVE Wanted'
<1>1. ASSUME queue' = << >>, UNCHANGED <<loop, fills>> PROVE Wanted'
    BY <1>1, WantedKept, MembersEmpty
<1>2. ASSUME UNCHANGED work PROVE Wanted'
    BY <1>2, WantedKept DEF work
<1>. QED
    BY <1>1, <1>2 DEF Calls, OwnerRestarts, checkIfLiveRestarts, checkIfLiveAgain, Closed, Reset,
       SubscribeToLogs, CallFails, Unsubscribe

LEMMA FillWantedStep ==
    ASSUME Inv, Calm, Low, Wanted, Fill, ~s'.backfilling
    PROVE  Wanted'
<1>1. PICK f \in fills :
              /\ \/ \E q \in Seq(Reqs), r \in Reqs :
                        /\ q = queue \/ \E w \in Workers : q = Grown(queue, w)
                        /\ FillBlock(f, r.block, q) \/ FillAbandoned(f, q)
                 \/ FillError(f)
              /\ UNCHANGED <<chain, feed, loop, exits>>
    BY FillCases
<1>0. Types /\ queue \in Seq(Reqs) /\ s \in Fields
    BY DEF Inv, Types
<1>2. CASE FillError(f)
    BY <1>1, <1>2, ErrorWanted DEF FillError
<1>3. ASSUME NEW q \in Seq(Reqs), NEW b, q = queue \/ \E w \in Workers : q = Grown(queue, w),
             FillBlock(f, b, q) \/ FillAbandoned(f, q)
      PROVE  Wanted'
    <2>1. queue' = q /\ fills' \subseteq fills
        <3>1. CASE FillAbandoned(f, q)
            BY <3>1 DEF FillAbandoned
        <3>2. CASE FillBlock(f, b, q)
            <4>1. ~(s.nextBlock < s.lastFinalizedBlock /\ q # << >>)
                BY <1>0, <3>2 DEF FillBlock, Active, Fields
            <4>. QED
                BY <3>2, <4>1 DEF FillBlock
        <3>. QED
            BY <1>3, <3>1, <3>2
    <2>2. CASE s.backfilling
        <3>1. StartBlock <= s.nextBlock /\ \A i \in 1..Len(queue) : queue[i].n = s.nextBlock + i
            BY <2>2, FillWanted
        <3>2. \A i \in 1..Len(q) : q[i].n = s.nextBlock + i
            <4>1. ASSUME NEW w \in Workers, q = Grown(queue, w)
                  PROVE  \A i \in 1..Len(q) : q[i].n = s.nextBlock + i
                <5>1. \A i \in 1..Len(Grown(queue, w)) : Grown(queue, w)[i].n = s.nextBlock + i
                    BY <1>0, <3>1, GrownFacts
                <5>. QED
                    BY <4>1, <5>1
            <4>. QED
                BY <1>3, <3>1, <4>1
        <3>3. StartBlock \in Nat /\ s.nextBlock \in Nat
            BY <1>0, SubscriptionAssumption, FieldFacts
        <3>4. \A r \in Members(q) : StartBlock <= r.n
            BY <3>1, <3>2, <3>3 DEF Members
        <3>. QED
            BY <1>1, <2>1, <3>4 DEF Wanted, Requested
    <2>3. CASE ~s.backfilling
        <3>1. q = queue
            BY <1>0, <1>3, <2>3, GrownFacts
        <3>. QED
            BY <1>1, <2>1, <3>1, WantedKept
    <2>. QED
        BY <2>2, <2>3
<1>. QED
    BY <1>1, <1>2, <1>3

LEMMA NextWanted ==
    ASSUME Inv, Numbered, Calm, Punctual, Low, Wanted, Subscribed, [Next]_vars
    PROVE  Wanted'
<1>0. Types /\ queue \in Seq(Reqs)
    BY DEF Inv, Types
<1>1. CASE s'.backfilling
    <2>1. Inv' /\ Calm' /\ Low'
        BY NextInv, NextMoves, NextLow
    <2>. QED
        BY <1>1, <2>1, FillWantedAfter
<1> SUFFICES ASSUME ~s'.backfilling PROVE Wanted'
    BY <1>1
<1>2. CASE Chain
    BY <1>2, WantedKept, ChainCases DEF work
<1>3. CASE AnswerQueued
    <2>1. PICK i \in 1..Len(queue), r \in Reqs :
              /\ r.n = queue[i].n
              /\ \/ queue' = [queue EXCEPT ![i] = r]
                 \/ \E w \in Workers : queue' = Grown([queue EXCEPT ![i] = r], w)
        BY <1>3, AnswerQueuedCases
    <2> DEFINE q == [queue EXCEPT ![i] = r]
    <2>2. q \in Seq(Reqs) /\ Members(q) \subseteq Members(queue) \cup {r}
        BY <1>0, ExceptSeq, MembersExcept
    <2>3. queue' = q \/ \E w \in Workers : queue' = Grown(q, w)
        BY <2>1
    <2>4. queue[i] \in Members(queue)
        BY DEF Members
    <2> HIDE DEF q
    <2>5. \A x \in Members(q) : StartBlock <= x.n
        BY <2>1, <2>2, <2>4 DEF Wanted, Requested
    <2>6. UNCHANGED <<s, loop, fills>>
        BY <1>3, AnswerQueuedCases
    <2>. QED
        BY <2>2, <2>3, <2>5, <2>6, AnswerWanted
<1>4. CASE Release
    <2>1. \A x \in Members(queue) : StartBlock <= x.n
        BY DEF Wanted, Requested
    <2>. QED
        BY <1>0, <1>4, <2>1, ReleaseCases, AnswerWanted
<1>5. CASE OutsideError
    BY <1>5, ErrorWanted DEF OutsideError
<1>6. CASE backFillBlocks
    BY <1>6, backFillCases
<1>7. CASE UNCHANGED vars
    BY <1>7, WantedKept DEF vars, work
<1>. QED
    BY <1>2, <1>3, <1>4, <1>5, <1>6, <1>7, ProcessWanted, DataWanted, CallsWanted, FillWantedStep
    DEF Next

-----------------------------------------------------------------------------
\* The events under way are of blocks that are wanted.
LEMMA LogsNumbers ==
    ASSUME NEW h \in Branches, NEW n \in Nat, NEW q \in LogsFrom(h, n)
    PROVE  q \in Seq(Branches) /\ \A i \in 1..Len(q) : n <= Len(q[i])
<1> DEFINE numbers == {m \in n..Len(h) : h[m].logs}
<1>1. Len(h) \in Nat /\ q \in Seq(Branches)
    BY LogsAreBranches DEF Branches
<1>2. PICK f \in [1..Cardinality(numbers) -> numbers] :
          q = [i \in DOMAIN f |-> Ancestor(h, f[i])]
    BY DEF LogsFrom
<1>3. \A m \in numbers : n <= m /\ Len(Ancestor(h, m)) = m
    BY <1>1, AncestorFacts
<1> HIDE DEF numbers
<1>4. DOMAIN q = 1..Len(q) /\ DOMAIN q = DOMAIN f
    <2>1. DOMAIN q = DOMAIN f
        BY <1>2
    <2>2. DOMAIN q = 1..Len(q)
        BY <1>1, LenProperties
    <2>. QED
        BY <2>1, <2>2
<1>5. ASSUME NEW i \in DOMAIN f PROVE n <= Len(q[i])
    <2>1. f[i] \in numbers /\ q[i] = Ancestor(h, f[i])
        BY <1>2
    <2>. QED
        BY <1>3, <2>1
<1>. QED
    BY <1>1, <1>4, <1>5

LEMMA SubscribedKept ==
    ASSUME Inv, [Next]_vars, Subscribed, feed' = feed \/ feed' = [state |-> "silent", logs |-> << >>]
                                             \/ feed' = Off,
           s'.lastReceived = s.lastReceived \/ feed' = Off
    PROVE  Subscribed'
<1>1. Len(head) \in Nat /\ Len(head') \in Nat /\ Len(head) <= Len(head') /\ StartBlock \in Nat
    BY Stays
<1>2. \A x : [state |-> x, logs |-> << >>].state = x /\ [state |-> x, logs |-> << >>].logs = << >>
    OBVIOUS
<1>3. feed' # feed => feed'.logs = << >> /\ feed'.state # "on"
    BY <1>2 DEF Off
<1>4. Off.logs = << >> /\ Off.state # "on"
    BY <1>2 DEF Off
<1>. QED
    BY <1>1, <1>3, <1>4 DEF Subscribed

LEMMA ChainSubscribed == ASSUME Shallow, Inv, Subscribed, Chain PROVE Subscribed'
<1>0. Types /\ feed \in Feeds /\ [Next]_vars
    BY DEF Inv, Types, Next
<1>1. Len(head) \in Nat /\ Len(head') \in Nat /\ Len(head) <= Len(head') /\ StartBlock \in Nat
      /\ ForkDepth \in Nat /\ head' \in Branches
    BY <1>0, Stays
<1>2. UNCHANGED s
    BY ChainCases
<1>3. ASSUME NEW n \in 0..Len(head), Notify(head', n + 1), n + ForkDepth >= Len(head)
      PROVE  Subscribed'
    <2>1. CASE feed.state # "on"
        BY <1>0, <1>2, <1>3, <2>1, SubscribedKept DEF Notify
    <2>2. CASE feed.state = "on"
        <3>1. PICK new \in LogsFrom(head', n + 1) : feed' = [feed EXCEPT !.logs = @ \o new]
            BY <1>3, <2>2 DEF Notify
        <3>2. StartBlock <= Len(head) /\ StartBlock - 1 <= s.lastReceived
              /\ \A i \in 1..Len(feed.logs) : StartBlock <= Len(feed.logs[i])
            BY <2>2 DEF Subscribed
        <3>3. n + 1 \in Nat /\ StartBlock <= n + 1
            BY <1>1, <1>3, <3>2 DEF Shallow
        <3>4. new \in Seq(Branches) /\ \A i \in 1..Len(new) : n + 1 <= Len(new[i])
            BY <1>1, <3>1, <3>3, LogsNumbers
        <3>5. \A i \in 1..Len(new) : StartBlock <= Len(new[i])
            <4> SUFFICES ASSUME NEW i \in 1..Len(new) PROVE StartBlock <= Len(new[i])
                OBVIOUS
            <4>1. n + 1 <= Len(new[i]) /\ Len(new[i]) \in Nat
                BY <3>4, ElementOfSeq DEF Branches
            <4>. QED
                BY <1>1, <3>3, <4>1
        <3>6. feed.logs \in Seq(Branches) /\ feed'.logs = feed.logs \o new
            BY <1>0, <3>1 DEF Feeds
        <3>7. /\ Len(feed.logs \o new) = Len(feed.logs) + Len(new)
              /\ \A i \in 1..(Len(feed.logs) + Len(new)) :
                     (feed.logs \o new)[i] = IF i <= Len(feed.logs) THEN feed.logs[i]
                                             ELSE new[i - Len(feed.logs)]
            BY <3>4, <3>6, ConcatProperties
        <3>8. ASSUME NEW i \in 1..(Len(feed.logs) + Len(new))
              PROVE  StartBlock <= Len((feed.logs \o new)[i])
            <4>0. Len(feed.logs) \in Nat /\ Len(new) \in Nat
                BY <3>4, <3>6
            <4>1. CASE i <= Len(feed.logs)
                BY <3>2, <3>7, <4>0, <4>1
            <4>2. CASE i > Len(feed.logs)
                <5>1. i - Len(feed.logs) \in 1..Len(new)
                    BY <4>0, <4>2
                <5>. QED
                    BY <3>5, <3>7, <4>0, <4>2, <5>1
            <4>. QED
                BY <4>0, <4>1, <4>2
        <3>9. \A i \in 1..Len(feed'.logs) : StartBlock <= Len(feed'.logs[i])
            BY <3>6, <3>7, <3>8
        <3>. QED
            BY <1>1, <1>2, <3>2, <3>9 DEF Subscribed
    <2>. QED
        BY <2>1, <2>2
<1>4. ASSUME NEW n \in 0..Len(head), NEW k \in Nat \ {0}, Extend(n, k), forks' \in Nat,
             n + ForkDepth >= Len(head)
      PROVE  Subscribed'
    BY <1>0, <1>3, <1>4, ExtendFacts
<1>. QED
    BY <1>0, <1>2, <1>4, ChainCases, SubscribedKept

LEMMA DataSubscribed == ASSUME Inv, Subscribed, Data PROVE Subscribed'
<1>0. Types /\ feed \in Feeds /\ [Next]_vars
    BY DEF Inv, Types, Next
<1>1. feed.logs \in Seq(Branches) /\ feed.logs # << >> /\ feed' = [feed EXCEPT !.logs = Tail(@)]
    BY DataCases
<1>2. /\ Len(feed.logs) \in Nat \ {0} /\ Len(Tail(feed.logs)) = Len(feed.logs) - 1
      /\ \A i \in 1..Len(Tail(feed.logs)) : Tail(feed.logs)[i] = feed.logs[i + 1]
    BY <1>1, HeadTailProperties
<1>3. /\ StartBlock <= Len(head) /\ StartBlock - 1 <= s.lastReceived
      /\ \A i \in 1..Len(feed.logs) : StartBlock <= Len(feed.logs[i])
    BY <1>1 DEF Subscribed
<1>4. \A i \in 1..Len(Tail(feed.logs)) : StartBlock <= Len(Tail(feed.logs)[i])
    <2> SUFFICES ASSUME NEW i \in 1..Len(Tail(feed.logs)) PROVE StartBlock <= Len(Tail(feed.logs)[i])
        OBVIOUS
    <2>1. i + 1 \in 1..Len(feed.logs) /\ Tail(feed.logs)[i] = feed.logs[i + 1]
        BY <1>2
    <2>. QED
        BY <1>3, <2>1
<1>5. feed'.logs = Tail(feed.logs)
    BY <1>0, <1>1 DEF Feeds
<1>6. UNCHANGED head
    BY DEF Data, chain
<1>7. StartBlock - 1 <= s'.lastReceived
    <2>1. StartBlock <= Len(feed.logs[1]) /\ Len(feed.logs[1]) \in Nat /\ StartBlock \in Nat
        <3>1. 1 \in 1..Len(feed.logs)
            BY <1>2
        <3>. QED
            BY <1>3, <3>1, DataCases, SubscriptionAssumption
    <2>2. s'.lastReceived \in {s.lastReceived, Len(feed.logs[1])}
        BY DataCases
    <2>. QED
        BY <1>3, <2>1, <2>2
<1>. QED
    BY <1>3, <1>4, <1>5, <1>6, <1>7 DEF Subscribed

LEMMA SubscribeSubscribed ==
    ASSUME Inv, Calm, Low, SubscribeToLogs
    PROVE  Subscribed'
<1>1. /\ InCall("latest") /\ s.nextBlock <= Len(head) /\ UNCHANGED head
      /\ s' = [s EXCEPT !.timer = <<s.lastBlockHash>>]
    BY DEF SubscribeToLogs, chain
<1>2. PICK old \in LogsFrom(head, s.nextBlock) : feed' = [state |-> "on", logs |-> old]
    BY DEF SubscribeToLogs
<1>3. /\ head \in Branches /\ s \in Fields /\ s.nextBlock \in Nat /\ Len(head) \in Nat
      /\ StartBlock \in Nat \ {0}
    BY SubscriptionAssumption, FieldFacts DEF Inv, Types, Branches
<1>4. s.lastReceived = s.nextBlock - 1
    BY <1>1 DEF Calm
<1>5. StartBlock <= s.nextBlock
    <2>1. ~Stale
        BY <1>1 DEF Stale
    <2>. QED
        BY <1>3, <2>1 DEF Low, Above
<1>6. old \in Seq(Branches) /\ \A i \in 1..Len(old) : s.nextBlock <= Len(old[i])
    BY <1>2, <1>3, LogsNumbers
<1>7. \A i \in 1..Len(old) : StartBlock <= Len(old[i])
    <2> SUFFICES ASSUME NEW i \in 1..Len(old) PROVE StartBlock <= Len(old[i])
        OBVIOUS
    <2>1. s.nextBlock <= Len(old[i]) /\ Len(old[i]) \in Nat
        BY <1>6, ElementOfSeq DEF Branches
    <2>. QED
        BY <1>3, <1>5, <2>1
<1>8. feed'.logs = old
    BY <1>2
<1>9. s'.lastReceived = s.lastReceived
    BY <1>1, <1>3 DEF Fields
<1>. QED
    BY <1>1, <1>3, <1>4, <1>5, <1>7, <1>8, <1>9 DEF Subscribed

LEMMA ErrorReceived ==
    ASSUME NEW kind, NEW b, NEW t \in Fields, error(kind, b, t)
    PROVE  s'.lastReceived = t.lastReceived
BY DEF error, Unsubscribe, Fields

LEMMA NextSubscribed ==
    ASSUME Shallow, Inv, Numbered, Calm, Punctual, Low, Subscribed, [Next]_vars
    PROVE  Subscribed'
<1>0. Types /\ s \in Fields /\ s.lastFinalizedBlock \in Int
    BY FieldFacts DEF Inv, Types
<1>1. ASSUME UNCHANGED feed, s'.lastReceived = s.lastReceived PROVE Subscribed'
    BY <1>1, SubscribedKept
<1>2. CASE AnswerQueued \/ Release
    BY <1>1, <1>2, AnswerQueuedCases, ReleaseCases
<1>3. CASE processQueue
    <2>1. /\ UNCHANGED feed
          /\ \/ \E r \in Reqs : ProcessBlock(r.block) \/ ProcessReorg(r.block)
             \/ ProcessError
        BY <1>3, processQueueCases
    <2>2. ASSUME NEW r \in Reqs, ProcessBlock(r.block) PROVE s'.lastReceived = s.lastReceived
        BY <1>0, <2>2 DEF ProcessBlock, Fields
    <2>3. ASSUME NEW r \in Reqs, ProcessReorg(r.block) PROVE s'.lastReceived = s.lastReceived
        <3> DEFINE t == [s EXCEPT !.nextBlock = Len(r.block) + 1, !.fatalError = TRUE]
        <3>0. Len(r.block) + 1 \in Nat
            BY DEF Reqs, Branches
        <3>1. t \in Fields /\ t.lastReceived = s.lastReceived
            BY <1>0, <3>0 DEF Fields
        <3>2. error("reorg", r.block, t)
            BY <2>3 DEF ProcessReorg
        <3> HIDE DEF t
        <3>. QED
            BY <3>1, <3>2, ErrorReceived
    <2>4. ASSUME ProcessError PROVE s'.lastReceived = s.lastReceived
        <3> DEFINE t == [s EXCEPT !.fatalError = TRUE]
        <3>1. t \in Fields /\ t.lastReceived = s.lastReceived
            BY <1>0 DEF Fields
        <3>2. error("other", NoBlock, t)
            BY <2>4 DEF ProcessError
        <3> HIDE DEF t
        <3>. QED
            BY <3>1, <3>2, ErrorReceived
    <2>. QED
        BY <1>1, <2>1, <2>2, <2>3, <2>4
<1>4. CASE Fill
    <2>1. PICK f \in fills :
              /\ \/ \E q \in Seq(Reqs), r \in Reqs : FillBlock(f, r.block, q) \/ FillAbandoned(f, q)
                 \/ FillError(f)
              /\ UNCHANGED feed
        BY <1>4, FillCases
    <2>2. ASSUME NEW q, NEW b, FillBlock(f, b, q) \/ FillAbandoned(f, q)
          PROVE  s'.lastReceived = s.lastReceived
        BY <1>0, <2>2 DEF FillBlock, FillAbandoned, Fields
    <2>3. ASSUME FillError(f) PROVE s'.lastReceived = s.lastReceived
        <3> DEFINE t == [s EXCEPT !.backfilling = FALSE, !.fatalError = TRUE]
        <3>1. t \in Fields /\ t.lastReceived = s.lastReceived
            BY <1>0 DEF Fields
        <3>2. error("other", NoBlock, t)
            BY <2>3 DEF FillError
        <3> HIDE DEF t
        <3>. QED
            BY <3>1, <3>2, ErrorReceived
    <2>. QED
        BY <1>1, <2>1, <2>2, <2>3
<1>5. CASE OutsideError
    <2>1. error("other", NoBlock, s) /\ UNCHANGED feed
        BY <1>5 DEF OutsideError
    <2>. QED
        BY <1>0, <1>1, <2>1, ErrorReceived
<1>6. CASE Calls
    <2>1. CASE Closed
        BY <2>1, SubscribedKept DEF Closed
    <2>2. CASE Reset
        <3>1. feed = Off /\ UNCHANGED feed
            BY <2>2, CallFacts DEF Reset, InCall, Inv, Bounded
        <3>. QED
            BY <3>1, SubscribedKept
    <2>3. ASSUME NEW by, NEW t \in Fields, Unsubscribe(by, t), t.lastReceived = s.lastReceived
          PROVE  s'.lastReceived = s.lastReceived
        BY <2>3 DEF Unsubscribe, Fields
    <2>4. CASE OwnerRestarts \/ checkIfLiveRestarts
        BY <1>0, <1>1, <2>3, <2>4 DEF OwnerRestarts, checkIfLiveRestarts
    <2>5. CASE checkIfLiveAgain
        BY <1>0, <1>1, <2>5 DEF checkIfLiveAgain, Fields
    <2>6. CASE CallFails
        <3>1. [s EXCEPT !.fatalError = TRUE] \in Fields
              /\ [s EXCEPT !.fatalError = TRUE].lastReceived = s.lastReceived
            BY <1>0 DEF Fields
        <3>2. UNCHANGED feed
            BY <2>6 DEF CallFails
        <3>3. s'.lastReceived = s.lastReceived
            BY <1>0, <2>3, <2>6, <3>1 DEF CallFails
        <3>. QED
            BY <1>1, <3>2, <3>3
    <2>7. CASE backFillBlocks
        BY <1>0, <1>1, <2>7 DEF backFillBlocks, Fields
    <2>. QED
        BY <1>6, <2>1, <2>2, <2>4, <2>5, <2>6, <2>7, SubscribeSubscribed DEF Calls
<1>7. CASE UNCHANGED vars
    BY <1>1, <1>7 DEF vars
<1>. QED
    BY <1>2, <1>3, <1>4, <1>5, <1>6, <1>7, ChainSubscribed, DataSubscribed DEF Next

-----------------------------------------------------------------------------
\* What a backfill depends on.
FillKept ==
    /\ s'.lastFinalizedBlock = s.lastFinalizedBlock
    /\ InCall("latest")' => InCall("latest")
    /\ s'.backfilling => s.backfilling /\ s'.nextBlock = s.nextBlock

LEMMA UnsubscribeFill ==
    ASSUME NEW by, NEW t \in Fields, Unsubscribe(by, t),
           t.lastFinalizedBlock = s.lastFinalizedBlock
    PROVE  FillKept
<1>1. ~s'.backfilling /\ s'.lastFinalizedBlock = s.lastFinalizedBlock
    BY DEF Unsubscribe, Fields
<1>2. call' = <<Call(by, "closing", 0)>>
    BY DEF Unsubscribe
<1>3. ~InCall("latest")'
    BY <1>2, CallFacts DEF InCall
<1>. QED
    BY <1>1, <1>3 DEF FillKept

LEMMA ErrorFill ==
    ASSUME Inv, NEW kind, NEW b, NEW t \in Fields, error(kind, b, t),
           t.lastFinalizedBlock = s.lastFinalizedBlock, t.backfilling => s.backfilling
    PROVE  FillKept
<1>1. CASE call = << >>
    BY <1>1, UnsubscribeFill DEF error
<1>2. CASE call # << >>
    BY <1>2 DEF error, FillKept, InCall, Inv, Bounded
<1>. QED
    BY <1>1, <1>2

LEMMA ProcessFill == ASSUME Inv, Calm, processQueue PROVE FillKept
<1>0. s \in Fields
    BY DEF Inv, Types
<1>1. /\ loop # << >>
      /\ \/ \E r \in Reqs : ProcessBlock(r.block) \/ ProcessReorg(r.block)
         \/ ProcessError
    BY processQueueCases
<1>2. ~s.backfilling
    BY <1>1 DEF Calm
<1>3. ASSUME NEW r \in Reqs, ProcessBlock(r.block) PROVE FillKept
    BY <1>0, <1>2, <1>3 DEF ProcessBlock, FillKept, InCall, Fields
<1>4. ASSUME NEW r \in Reqs, ProcessReorg(r.block) PROVE FillKept
    <2> DEFINE t == [s EXCEPT !.nextBlock = Len(r.block) + 1, !.fatalError = TRUE]
    <2>1. Len(r.block) + 1 \in Nat
        BY DEF Reqs, Branches
    <2>2. t \in Fields /\ t.lastFinalizedBlock = s.lastFinalizedBlock /\ t.backfilling = s.backfilling
        BY <1>0, <2>1 DEF Fields
    <2>3. error("reorg", r.block, t)
        BY <1>4 DEF ProcessReorg
    <2> HIDE DEF t
    <2>. QED
        BY <2>2, <2>3, ErrorFill
<1>5. ASSUME ProcessError PROVE FillKept
    <2> DEFINE t == [s EXCEPT !.fatalError = TRUE]
    <2>1. t \in Fields /\ t.lastFinalizedBlock = s.lastFinalizedBlock /\ t.backfilling = s.backfilling
        BY <1>0 DEF Fields
    <2>2. error("other", NoBlock, t)
        BY <1>5 DEF ProcessError
    <2> HIDE DEF t
    <2>. QED
        BY <2>1, <2>2, ErrorFill
<1>. QED
    BY <1>1, <1>3, <1>4, <1>5

LEMMA CallsFill == ASSUME Inv, Calls, ~Reset, ~backFillBlocks PROVE FillKept
<1>0. s \in Fields /\ (call # << >> => ~s.backfilling)
    BY DEF Inv, Types, Bounded
<1>1. CASE OwnerRestarts \/ checkIfLiveRestarts
    BY <1>0, <1>1, UnsubscribeFill DEF OwnerRestarts, checkIfLiveRestarts
<1>2. CASE checkIfLiveAgain
    BY <1>0, <1>2 DEF checkIfLiveAgain, FillKept, InCall, Fields
<1>3. CASE Closed
    <2>1. PICK by, n : call' = <<Call(by, "finalized", n)>>
        BY <1>3 DEF Closed
    <2>2. ~InCall("latest")'
        BY <2>1, CallFacts DEF InCall
    <2>3. UNCHANGED s
        BY <1>3 DEF Closed
    <2>. QED
        BY <2>2, <2>3 DEF FillKept
<1>4. CASE SubscribeToLogs
    BY <1>0, <1>4 DEF SubscribeToLogs, FillKept, InCall, Fields
<1>5. CASE CallFails
    <2> DEFINE t == IF call[1].by = "backfill" THEN [s EXCEPT !.fatalError = TRUE] ELSE s
    <2>1. t \in Fields /\ t.lastFinalizedBlock = s.lastFinalizedBlock
        BY <1>0 DEF Fields
    <2>2. Unsubscribe("owner", t)
        BY <1>5 DEF CallFails
    <2> HIDE DEF t
    <2>. QED
        BY <2>1, <2>2, UnsubscribeFill
<1>. QED
    BY <1>1, <1>2, <1>3, <1>4, <1>5 DEF Calls

LEMMA NextFill ==
    ASSUME Inv, Calm, [Next]_vars, ~Reset, ~backFillBlocks, ~Fill
    PROVE  FillKept
<1>0. s \in Fields
    BY DEF Inv, Types
<1>1. ASSUME UNCHANGED <<s, call>> PROVE FillKept
    BY <1>1 DEF FillKept, InCall
<1>2. CASE Chain
    BY <1>1, <1>2, ChainCases
<1>3. CASE AnswerQueued \/ Release
    BY <1>1, <1>3, AnswerQueuedCases, ReleaseCases
<1>4. CASE Data
    BY <1>1, <1>4, DataCases DEF FillKept, InCall
<1>5. CASE OutsideError
    BY <1>0, <1>5, ErrorFill DEF OutsideError
<1>6. CASE UNCHANGED vars
    BY <1>1, <1>6 DEF vars
<1>. QED
    BY <1>2, <1>3, <1>4, <1>5, <1>6, ProcessFill, CallsFill DEF Next

-----------------------------------------------------------------------------
\* Every block given is followed by the next.
LEMMA FullWith ==
    ASSUME Types, NEW b \in given, b \in Branches, Full(Len(b)), Extends(head, b),
           Len(b) + ForkDepth <= Len(head)
    PROVE  Full(Len(b) + 1)
<1>1. Len(b) \in Nat /\ StartBlock \in Nat \ {0} /\ BlockAt(Len(b)) = b
    BY SubscriptionAssumption DEF Branches, Extends, BlockAt
<1>2. PICK d \in Nat : d = Len(b)
    BY <1>1
<1>3. Full(d + 1)
    BY <1>1, <1>2 DEF Full
<1>. QED
    BY <1>2, <1>3

\* processQueue gives a block only if all before it are given: its parent
\* is the block emitted last, it has no higher number than that one, or no
\* block was emitted and no number is left out.
LEMMA ProcessGives ==
    ASSUME Shallow, Inv, Numbered, Calm, GapFree, Complete, processQueue
    PROVE  \/ UNCHANGED hist /\ s'.lastEmitted = s.lastEmitted
           \/ \E b \in Branches : Due(b) /\ given' = given \cup {b} /\ s'.lastEmitted = b
<1>0. Types /\ s \in Fields /\ StartBlock \in Nat \ {0} /\ out \in Nat /\ s.lastEmitted \in Branches
    BY SubscriptionAssumption, FieldFacts DEF Inv, Types, GapFree
<1>1. /\ loop # << >> /\ loop[1] \in Reqs /\ loop = <<loop[1]>>
      /\ \/ \E r \in Reqs :
                /\ r.n = loop[1].n /\ r.state = "done" /\ (r = loop[1] \/ Fresh(r))
                /\ ProcessBlock(r.block) \/ ProcessReorg(r.block)
         \/ ProcessError
    BY processQueueCases
<1>2. loop[1] \in Requested
    BY <1>1, MembersEmpty DEF Requested
<1>3. ASSUME NEW r \in Reqs, ProcessReorg(r.block) PROVE UNCHANGED hist /\ s'.lastEmitted = s.lastEmitted
    <2> DEFINE t == [s EXCEPT !.nextBlock = Len(r.block) + 1, !.fatalError = TRUE]
    <2>1. t.lastEmitted = s.lastEmitted
        BY <1>0 DEF Fields
    <2>2. t \in Fields
        <3>1. Len(r.block) + 1 \in Nat
            BY DEF Reqs, Branches
        <3>. QED
            BY <1>0, <3>1 DEF Fields
    <2>3. error("reorg", r.block, t) /\ UNCHANGED hist
        BY <1>3 DEF ProcessReorg
    <2> HIDE DEF t
    <2>. QED
        BY <2>1, <2>2, <2>3 DEF error, Unsubscribe, Fields
<1>4. ASSUME ProcessError PROVE UNCHANGED hist /\ s'.lastEmitted = s.lastEmitted
    <2> DEFINE t == [s EXCEPT !.fatalError = TRUE]
    <2>1. t.lastEmitted = s.lastEmitted /\ t \in Fields
        BY <1>0 DEF Fields
    <2>2. error("other", NoBlock, t) /\ UNCHANGED hist
        BY <1>4 DEF ProcessError
    <2> HIDE DEF t
    <2>. QED
        BY <2>1, <2>2 DEF error, Unsubscribe, Fields
<1>5. ASSUME NEW r \in Reqs, r.n = loop[1].n, r.state = "done", r = loop[1] \/ Fresh(r),
             ProcessBlock(r.block)
      PROVE  \E b \in Branches : Due(b) /\ given' = given \cup {b} /\ s'.lastEmitted = b
    <2>1. PICK b \in Branches : b = r.block
        BY DEF Reqs
    <2>2. StartBlock <= r.n /\ r.n \in Nat /\ Len(b) = r.n
        BY <1>0, <1>2, <1>5, <2>1, FreshFacts DEF Complete, Fetched, Numbered, Reqs
    <2>3. Seen(b)
        BY <1>0, <1>2, <1>5, <2>1, <2>2, SeenFresh DEF Complete, Fetched
    <2>4. ~isReOrgedMissed(b) /\ given' = given \cup {b} /\ s'.lastEmitted = b
        BY <1>0, <1>5, <2>1 DEF ProcessBlock, next, Fields
    <2>5. CASE s.lastEmitted = NoBlock
        <3>1. Full(out + 1)
            BY <2>5 DEF Complete, Compared
        <3>2. Len(b) <= out + 1
            BY <1>1, <1>5, <2>2 DEF GapFree, Within
        <3>3. Full(Len(b))
            BY <1>0, <2>2, <3>1, <3>2, FullLess
        <3>. QED
            BY <2>2, <2>3, <2>4, <3>3 DEF Due
    <2>6. CASE s.lastEmitted # NoBlock
        <3>1. PICK e \in Branches : e = s.lastEmitted
            BY <1>0
        <3>2. e \in given /\ Full(Len(e)) /\ Len(e) \in Nat /\ e # NoBlock
            BY <2>6, <3>1 DEF Complete, Compared, Ancestors, Due, Branches
        <3>3. CASE Len(b) <= Len(e)
            <4>1. Full(Len(b))
                BY <2>2, <3>2, <3>3, FullLess
            <4>. QED
                BY <2>2, <2>3, <2>4, <4>1 DEF Due
        <3>4. CASE Len(b) > Len(e)
            <4>1. Parent(b) = e
                BY <2>4, <3>1, <3>2, <3>4 DEF isReOrgedMissed
            <4>2. b # NoBlock
                BY <1>0, <2>2 DEF NoBlock
            <4>3. Len(e) = Len(b) - 1
                BY <4>1, <4>2, <1>0, ParentFacts DEF Types
            <4>4. Len(e) + ForkDepth <= Len(head) /\ Extends(head, e)
                BY <2>3, <4>1, <4>3 DEF Seen
            <4>5. Full(Len(e) + 1)
                BY <1>0, <3>2, <4>4, FullWith
            <4>6. Len(e) + 1 = Len(b)
                BY <2>2, <4>3
            <4>. QED
                BY <2>2, <2>3, <2>4, <4>5, <4>6 DEF Due
        <3>. QED
            BY <2>2, <3>2, <3>3, <3>4
    <2>. QED
        BY <2>5, <2>6
<1>. QED
    BY <1>1, <1>3, <1>4, <1>5

\* A backfill gives the blocks in order, all of them final.
LEMMA FillGives ==
    ASSUME Shallow, Inv, Numbered, Calm, Low, Complete, Fill
    PROVE  /\ s'.lastEmitted = s.lastEmitted /\ s'.lastFinalizedBlock = s.lastFinalizedBlock
           /\ \/ UNCHANGED hist /\ FillKept
              \/ \E b \in Branches :
                    /\ Due(b) /\ given' = given \cup {b} /\ out' = IF Len(b) > out THEN Len(b) ELSE out
                    /\ s.backfilling /\ Len(b) = s.nextBlock /\ s'.nextBlock = s.nextBlock + 1
                    /\ Extends(head, b) /\ Len(b) + ForkDepth <= Len(head)
                    /\ s'.backfilling => s.nextBlock < s.lastFinalizedBlock
<1>0. /\ Types /\ s \in Fields /\ StartBlock \in Nat \ {0} /\ s.nextBlock \in Nat
      /\ s.lastFinalizedBlock \in Int /\ Len(head) \in Nat /\ ForkDepth \in Nat /\ head \in Branches
    <2>1. Types /\ s \in Fields /\ head \in Branches /\ head \in Seq(Labels)
        BY DEF Inv, Types, Branches
    <2>2. s.nextBlock \in Nat /\ s.lastFinalizedBlock \in Int
        BY <2>1, FieldFacts
    <2>. QED
        BY <2>1, <2>2, SubscriptionAssumption
<1>1. PICK f \in fills :
          /\ f \in Fills
          /\ \/ \E q \in Seq(Reqs), r \in Reqs :
                    /\ r.n = f.req.n /\ r.state = "done" /\ (r = f.req \/ Fresh(r))
                    /\ FillBlock(f, r.block, q) \/ FillAbandoned(f, q)
             \/ FillError(f)
          /\ UNCHANGED <<chain, feed, loop, exits>>
    BY FillCases
<1>2. CASE FillError(f)
    <2> DEFINE t == [s EXCEPT !.backfilling = FALSE, !.fatalError = TRUE]
    <2>1. t \in Fields /\ t.lastEmitted = s.lastEmitted
          /\ t.lastFinalizedBlock = s.lastFinalizedBlock /\ ~t.backfilling
        BY <1>0 DEF Fields
    <2>2. error("other", NoBlock, t) /\ UNCHANGED hist
        BY <1>2 DEF FillError
    <2> HIDE DEF t
    <2>3. FillKept
        BY <2>1, <2>2, ErrorFill
    <2>4. s'.lastEmitted = s.lastEmitted
        BY <2>1, <2>2 DEF error, Unsubscribe, Fields
    <2>. QED
        BY <2>2, <2>3, <2>4 DEF FillKept
<1>3. ASSUME NEW q, FillAbandoned(f, q) PROVE UNCHANGED <<s, hist>> /\ FillKept
    BY <1>3 DEF FillAbandoned, FillKept, InCall
<1>4. ASSUME NEW q, NEW r \in Reqs, r.n = f.req.n, r.state = "done", r = f.req \/ Fresh(r),
             FillBlock(f, r.block, q)
      PROVE  /\ s'.lastEmitted = s.lastEmitted /\ s'.lastFinalizedBlock = s.lastFinalizedBlock
             /\ \E b \in Branches :
                    /\ Due(b) /\ given' = given \cup {b} /\ out' = IF Len(b) > out THEN Len(b) ELSE out
                    /\ s.backfilling /\ Len(b) = s.nextBlock /\ s'.nextBlock = s.nextBlock + 1
                    /\ Extends(head, b) /\ Len(b) + ForkDepth <= Len(head)
                    /\ s'.backfilling => s.nextBlock < s.lastFinalizedBlock
    <2>1. PICK b \in Branches : b = r.block
        BY DEF Reqs
    <2>2. s.backfilling /\ next(b)
        BY <1>4, <2>1 DEF FillBlock, Active
    <2>3. /\ s'.lastEmitted = s.lastEmitted /\ s'.lastFinalizedBlock = s.lastFinalizedBlock
          /\ s'.nextBlock = s.nextBlock + 1
          /\ s'.backfilling => s.nextBlock < s.lastFinalizedBlock
        BY <1>0, <1>4 DEF FillBlock, Fields
    <2>4. f.req.n = s.nextBlock /\ f.req \in Requested
        BY <2>2 DEF Calm, Requested
    <2>5. StartBlock <= s.nextBlock
        BY <2>2, FillWanted
    <2>6. /\ s.nextBlock <= s.lastFinalizedBlock /\ Full(s.nextBlock)
          /\ s.lastFinalizedBlock + ForkDepth <= Len(head)
          /\ \A x \in Requested : x.state = "done" /\ x.n <= s.lastFinalizedBlock =>
                 Extends(head, x.block)
        BY <2>2 DEF Complete, Filled
    <2>7. Len(b) = s.nextBlock /\ Extends(head, b)
        BY <1>0, <1>4, <2>1, <2>4, <2>6, FreshFacts DEF Numbered
    <2>8. Len(b) + ForkDepth <= Len(head)
        BY <1>0, <2>6, <2>7
    <2>9. Seen(b)
        <3>1. b # NoBlock
            BY <1>0, <2>5, <2>7 DEF NoBlock
        <3>2. Extends(head, Parent(b))
            BY <1>0, <2>7, <3>1, ParentFacts
        <3>. QED
            BY <1>0, <2>7, <2>8, <3>2 DEF Seen
    <2>10. Due(b)
        BY <2>5, <2>6, <2>7, <2>9 DEF Due
    <2>. QED
        BY <2>2, <2>3, <2>7, <2>8, <2>10 DEF next
<1>. QED
    BY <1>1, <1>2, <1>3, <1>4 DEF FillKept

\* What is given in a step.
LEMMA NextGives ==
    ASSUME Shallow, Inv, Numbered, Calm, Punctual, GapFree, Low, Complete, [Next]_vars
    PROVE  UNCHANGED given \/ \E b \in Branches : Due(b) /\ given' = given \cup {b}
<1>1. CASE processQueue
    BY <1>1, ProcessGives DEF hist
<1>2. CASE Fill
    BY <1>2, FillGives DEF hist
<1>3. CASE AnswerQueued \/ Release
    BY <1>3, AnswerQueuedCases, ReleaseCases DEF hist
<1>4. CASE Chain
    BY <1>4, ChainCases DEF hist
<1>5. CASE Data
    BY <1>5, DataCases DEF hist
<1>6. CASE Calls
    BY <1>6 DEF Calls, OwnerRestarts, checkIfLiveRestarts, checkIfLiveAgain, Closed, Reset,
       backFillBlocks, SubscribeToLogs, CallFails, hist
<1>. QED
    BY <1>1, <1>2, <1>3, <1>4, <1>5, <1>6 DEF Next, OutsideError, vars, hist

LEMMA DueStays ==
    ASSUME Inv, [Next]_vars, given \subseteq given', NEW b, Due(b)
    PROVE  Due(b)'
<1>1. /\ b \in Branches /\ Len(b) \in Nat /\ StartBlock \in Nat \ {0} /\ StartBlock <= Len(b)
      /\ Seen(b) /\ Full(Len(b))
    BY Stays DEF Due, Branches
<1>2. b # NoBlock
    BY <1>1 DEF NoBlock
<1>3. Seen(b)' /\ Full(Len(b))'
    BY <1>1, <1>2, SeenStays, FullStays
<1>. QED
    BY <1>1, <1>3 DEF Due

LEMMA NextAncestors ==
    ASSUME Shallow, Inv, Numbered, Calm, Punctual, GapFree, Low, Complete, [Next]_vars
    PROVE  Ancestors' /\ given \subseteq given' /\ [Stream!Next]_given
<1>1. UNCHANGED given \/ \E b \in Branches : Due(b) /\ given' = given \cup {b}
    BY NextGives
<1>2. given \subseteq given' /\ \A b \in given' : Due(b)
    BY <1>1 DEF Complete, Ancestors
<1>3. \A b \in given' : Due(b)'
    BY <1>2, DueStays
<1>4. ASSUME NEW b \in Branches, Due(b), given' = given \cup {b} PROVE Stream!Next
    <2>1. StartBlock <= Len(b) /\ (Len(b) = StartBlock \/ Parent(b) \in given)
        <3>1. Len(b) \in Nat /\ StartBlock \in Nat
            BY Stays DEF Branches
        <3>. QED
            BY <1>4, <3>1, FullParent DEF Due, Inv
    <2>2. Stream!Parent(b) = Parent(b)
        BY DEF Stream!Parent, Parent, Ancestor
    <2>. QED
        BY <1>4, <2>1, <2>2 DEF Stream!Next, Stream!Give
<1>. QED
    BY <1>1, <1>2, <1>3, <1>4 DEF Ancestors

LEMMA NextFetched ==
    ASSUME Shallow, Inv, Numbered, Calm, Punctual, Low, Fetched, Subscribed, [Next]_vars
    PROVE  Fetched'
<1>0. Types /\ Requested \subseteq Reqs /\ Requested' \subseteq Reqs /\ Truthful /\ StartBlock \in Nat \ {0}
    BY RequestedTypes, NextRequests, SubscriptionAssumption DEF Inv
<1>1. Wanted'
    BY NextWanted DEF Fetched, Wanted
<1>2. ASSUME NEW r \in Requested', r.state = "done" PROVE Seen(r.block)'
    <2>1. r \in Reqs /\ StartBlock <= r.n /\ r.n \in Nat /\ (r \in Requested \/ Fresh(r))
        BY <1>0, <1>1, <1>2 DEF Truthful, Wanted, Reqs
    <2>2. Seen(r.block)
        BY <1>0, <1>2, <2>1, SeenFresh DEF Fetched
    <2>3. PICK b \in Branches : b = r.block
        BY <2>1 DEF Reqs
    <2>4. Len(b) = r.n
        BY <1>0, <1>2, <2>1, <2>3, FreshFacts DEF Numbered
    <2>5. b # NoBlock
        BY <1>0, <2>1, <2>4 DEF NoBlock
    <2>6. Seen(b)'
        BY <2>2, <2>3, <2>5, SeenStays
    <2>. QED
        BY <2>3, <2>6
<1>. QED
    BY <1>1, <1>2 DEF Fetched, Wanted

\* Nothing that a backfill depends on changes, or one block is given.
LEMMA FilledKept ==
    ASSUME Inv, Numbered, [Next]_vars, Filled,
           s'.lastFinalizedBlock = s.lastFinalizedBlock,
           s'.backfilling \/ InCall("latest")' => s.backfilling \/ InCall("latest"),
           s'.backfilling =>
               s.backfilling /\ s'.nextBlock <= s.lastFinalizedBlock /\ Full(s.nextBlock)'
    PROVE  Filled'
<1>0. /\ Types /\ Requested \subseteq Reqs /\ Requested' \subseteq Reqs /\ Truthful
      /\ s.lastFinalizedBlock \in Int
    BY RequestedTypes, NextRequests, FieldFacts DEF Inv, Types
<1>1. Len(head) \in Nat /\ Len(head') \in Nat /\ Len(head) <= Len(head') /\ ForkDepth \in Nat
    BY Stays
<1>2. s'.backfilling \/ InCall("latest")' => s'.lastFinalizedBlock + ForkDepth <= Len(head')
    BY <1>0, <1>1 DEF Filled
<1>3. ASSUME s'.backfilling, NEW r \in Requested', r.state = "done", r.n <= s.lastFinalizedBlock
      PROVE  Extends(head', r.block)
    <2>1. r \in Reqs /\ r.n \in Nat /\ (r \in Requested \/ Fresh(r))
        BY <1>0, <1>3 DEF Truthful, Reqs
    <2>2. Extends(head, r.block)
        BY <1>0, <1>3, <2>1, FreshFacts DEF Filled
    <2>3. r.block \in Branches /\ Len(r.block) = r.n
        BY <1>0, <1>3, <2>1, FreshFacts DEF Numbered, Reqs
    <2>4. Len(r.block) + ForkDepth <= Len(head)
        <3>1. s.lastFinalizedBlock + ForkDepth <= Len(head)
            BY <1>3 DEF Filled
        <3>. QED
            BY <1>0, <1>1, <1>3, <2>1, <2>3, <3>1
    <2>. QED
        BY <2>2, <2>3, <2>4, Stays
<1>. QED
    BY <1>2, <1>3 DEF Filled

LEMMA ResetFilled == ASSUME Shallow, Inv, Reset PROVE Filled'
<1>1. /\ Len(head) \in Nat /\ ForkDepth \in Nat /\ Lag \in Nat /\ s \in Fields /\ UNCHANGED head
      /\ call # << >>
    BY SubscriptionAssumption DEF Inv, Types, Branches, Reset, chain, InCall
<1>2. s'.lastFinalizedBlock = Len(head) - Lag /\ s'.backfilling = s.backfilling
    BY <1>1 DEF Reset, Fields
<1>3. ~s'.backfilling
    BY <1>1, <1>2 DEF Inv, Bounded
<1>4. s'.lastFinalizedBlock + ForkDepth <= Len(head')
    BY <1>1, <1>2 DEF Shallow
<1>. QED
    BY <1>3, <1>4 DEF Filled

\* The first block of a backfill follows the blocks given.
LEMMA backFillFilled ==
    ASSUME Inv, Calm, Complete, FillsKnown, backFillBlocks
    PROVE  Filled'
<1>0. /\ head \in Branches /\ Len(head) \in Nat /\ ForkDepth \in Nat /\ StartBlock \in Nat \ {0}
      /\ Margin \in Nat /\ s.nextBlock \in Nat /\ s.lastFinalizedBlock \in Int
    BY SubscriptionAssumption, FieldFacts DEF Inv, Types, Branches
<1>1. /\ InCall("latest") /\ s.nextBlock <= Len(head) /\ FarBehind
      /\ UNCHANGED <<head, loop, given>>
      /\ s'.nextBlock = s.nextBlock /\ s'.lastFinalizedBlock = s.lastFinalizedBlock
    BY backFillCases DEF chain, hist
<1>2. /\ s.lastFinalizedBlock + ForkDepth <= Len(head)
      /\ s.nextBlock = call[1].start /\ loop = << >>
    BY <1>1 DEF Complete, Filled, Calm
<1>3. s.nextBlock <= s.lastFinalizedBlock
    BY <1>0, <1>1, <1>2 DEF FarBehind
<1>4. Full(s.nextBlock)
    <2>1. CASE s.nextBlock = StartBlock
        BY <1>0, <2>1 DEF Full
    <2>2. CASE s.nextBlock # StartBlock
        <3>1. BlockAt(s.nextBlock - 1) \in given
            BY <1>1, <2>2 DEF FillsKnown
        <3>2. PICK b \in given : b = BlockAt(s.nextBlock - 1)
            BY <3>1
        <3>3. s.nextBlock # 0
            BY <1>1, CallSteps, <1>2 DEF Inv
        <3>. DEFINE m == s.nextBlock - 1
        <3>a. m \in Nat /\ m <= Len(head)
            BY <1>0, <1>1, <3>3
        <3>b. b = Ancestor(head, m)
            BY <3>2 DEF BlockAt
        <3>. HIDE DEF m
        <3>4. b \in Branches /\ Len(b) = m /\ Extends(head, b)
            BY <1>0, <3>a, <3>b, AncestorFacts
        <3>5. Full(Len(b))
            BY DEF Complete, Ancestors, Due
        <3>7. Len(b) + 1 = s.nextBlock
            BY <1>0, <3>3, <3>4 DEF m
        <3>8. Len(b) + ForkDepth <= Len(head)
            BY <1>0, <1>2, <1>3, <3>a, <3>4, <3>7
        <3>9. Types
            BY DEF Inv
        <3>6. Full(Len(b) + 1)
            BY <3>2, <3>4, <3>5, <3>8, <3>9, FullWith
        <3>. QED
            BY <3>6, <3>7
    <2>. QED
        BY <2>1, <2>2
<1>5. Full(s.nextBlock)'
    BY <1>1, <1>4 DEF Full, BlockAt
<1>6. \A r \in Requested' : r.state = "pending"
    <2>1. PICK x \in Reqs :
              /\ x.state = "pending"
              /\ fills' = {[f EXCEPT !.current = FALSE] : f \in fills}
                              \cup {[current |-> TRUE, req |-> x]}
        BY backFillCases
    <2>2. fills = {}
        BY <1>1 DEF Calm
    <2>3. [current |-> TRUE, req |-> x].req = x
        OBVIOUS
    <2>4. \A g \in fills' : g.req = x
        BY <2>1, <2>2, <2>3
    <2>5. Members(loop') = {} /\ \A r \in Members(queue') : r.state = "pending"
        BY <1>1, <1>2, MembersEmpty, backFillCases
    <2>. QED
        BY <2>1, <2>4, <2>5 DEF Requested
<1>. QED
    BY <1>1, <1>2, <1>3, <1>5, <1>6 DEF Filled

LEMMA NextFilled ==
    ASSUME Shallow, Inv, Numbered, Calm, Punctual, GapFree, Low, Complete, FillsKnown, [Next]_vars
    PROVE  Filled'
<1>0. /\ s.nextBlock \in Nat /\ s.lastFinalizedBlock \in Int /\ given \subseteq given'
    BY FieldFacts, NextAncestors DEF Inv, Types
<1>1. ASSUME FillKept PROVE Filled'
    <2>1. ASSUME s'.backfilling
          PROVE  s.backfilling /\ s'.nextBlock <= s.lastFinalizedBlock /\ Full(s.nextBlock)'
        <3>1. s.backfilling /\ s'.nextBlock = s.nextBlock
            BY <1>1, <2>1 DEF FillKept
        <3>2. s.nextBlock <= s.lastFinalizedBlock /\ Full(s.nextBlock)
            BY <3>1 DEF Complete, Filled
        <3>3. PICK n \in Nat : n = s.nextBlock
            BY <1>0
        <3>4. Full(n)'
            BY <1>0, <3>2, <3>3, FullStays
        <3>. QED
            BY <3>1, <3>2, <3>3, <3>4
    <2>. QED
        BY <1>1, <2>1, FilledKept DEF Complete, FillKept
<1>2. CASE Fill
    <2>1. ASSUME NEW b \in Branches, Due(b), given' = given \cup {b}, Len(b) = s.nextBlock,
                 s.backfilling, s'.nextBlock = s.nextBlock + 1,
                 s'.lastFinalizedBlock = s.lastFinalizedBlock,
                 Extends(head, b), Len(b) + ForkDepth <= Len(head),
                 s'.backfilling => s.nextBlock < s.lastFinalizedBlock
          PROVE  Filled'
        <3>1. Full(Len(b) + 1)'
            BY <2>1, FullNext DEF Due
        <3>2. PICK n \in Nat : n = Len(b) + 1
            BY <1>0, <2>1
        <3>3. Full(n)' /\ s'.nextBlock = n
            BY <2>1, <3>1, <3>2
        <3>4. Full(s.nextBlock)'
            BY <3>3
        <3>5. s'.backfilling => s'.nextBlock <= s.lastFinalizedBlock
            BY <1>0, <2>1
        <3>. QED
            BY <2>1, <3>4, <3>5, FilledKept DEF Complete
    <2>. QED
        BY <1>1, <1>2, <2>1, FillGives
<1>. QED
    BY <1>1, <1>2, NextFill, ResetFilled, backFillFilled

\* As long as no live block was given, everything up to out is given.
LEMMA NextCompared ==
    ASSUME Shallow, Inv, Numbered, Calm, Punctual, GapFree, Low, Complete, [Next]_vars
    PROVE  Compared'
<1>0. /\ StartBlock \in Nat \ {0} /\ out \in Nat /\ given \subseteq given'
      /\ given \subseteq Branches
    BY SubscriptionAssumption, NextAncestors DEF GapFree, Numbered
<1>1. PICK c \in Nat : c = out
    BY <1>0
<1>2. s.lastEmitted = NoBlock => Full(c + 1)
    BY <1>1 DEF Complete, Compared, Full
<1>3. s.lastEmitted # NoBlock => s.lastEmitted \in given
    BY DEF Complete, Compared
<1>4. ASSUME s'.lastEmitted = s.lastEmitted, UNCHANGED out PROVE Compared'
    <2>1. s.lastEmitted = NoBlock => Full(c + 1)'
        BY <1>0, <1>2, FullStays
    <2>2. out' = c
        BY <1>1, <1>4
    <2>3. s.lastEmitted = NoBlock => Full(out + 1)'
        BY <2>1, <2>2
    <2>. QED
        BY <1>0, <1>3, <1>4, <2>3 DEF Compared
<1>5. CASE processQueue
    <2>1. ASSUME NEW b \in Branches, Due(b), given' = given \cup {b}, s'.lastEmitted = b
          PROVE  Compared'
        <3>1. b # NoBlock
            BY <1>0, <2>1 DEF Due, NoBlock
        <3>. QED
            BY <2>1, <3>1 DEF Compared
    <2>. QED
        BY <1>4, <1>5, <2>1, ProcessGives DEF hist
<1>6. CASE Fill
    <2>1. ASSUME NEW b \in Branches, Due(b), given' = given \cup {b},
                 out' = IF Len(b) > out THEN Len(b) ELSE out,
                 Extends(head, b), Len(b) + ForkDepth <= Len(head), s'.lastEmitted = s.lastEmitted
          PROVE  Compared'
        <3>1. CASE s.lastEmitted # NoBlock
            BY <1>0, <1>3, <2>1, <3>1 DEF Compared
        <3>2. CASE s.lastEmitted = NoBlock
            <4>1. Full(Len(b) + 1)' /\ Full(c + 1)' /\ Len(b) \in Nat
                BY <1>0, <1>2, <2>1, <3>2, FullNext, FullStays DEF Due, Branches
            <4>2. PICK d \in Nat : d = Len(b)
                BY <4>1
            <4>3. Full(d + 1)' /\ Full(c + 1)' /\ (out' = c \/ out' = d)
                BY <1>1, <2>1, <4>1, <4>2
            <4>4. Full(out + 1)'
                BY <4>3
            <4>. QED
                BY <2>1, <3>2, <4>4 DEF Compared
        <3>. QED
            BY <3>1, <3>2
    <2>. QED
        BY <1>4, <1>6, <2>1, FillGives DEF hist
<1>7. CASE ~processQueue /\ ~Fill
    <2>1. CASE Quiet
        BY <1>4, <2>1 DEF Quiet, hist
    <2>2. ASSUME NEW n \in Nat, Starts(n) PROVE Compared'
        <3>1. /\ n \in Nat \ {0} /\ IsStart(n) /\ out' = n - 1 /\ UNCHANGED <<given, s>>
            BY <2>2 DEF Starts
        <3>2. n = StartBlock \/ \E b \in given : Extends(head, b) /\ Len(b) = n - 1
            BY <3>1, StartFacts
        <3>3. n <= c + 1
            BY <1>0, <1>1, <3>1, <3>2 DEF GapFree
        <3>4. s.lastEmitted = NoBlock => Full(n)
            BY <1>2, <3>1, <3>3, FullLess
        <3>5. s.lastEmitted = NoBlock => Full(n)'
            BY <1>0, <3>4, FullStays
        <3>6. n = out' + 1
            BY <3>1
        <3>7. s.lastEmitted = NoBlock => Full(out + 1)'
            BY <3>5, <3>6
        <3>. QED
            BY <1>3, <3>1, <3>7 DEF Compared
    <2>3. CASE Chain \/ AnswerQueued \/ Release
        BY <1>4, <2>3, ChainCases, AnswerQueuedCases, ReleaseCases DEF hist
    <2>4. CASE Data
        BY <1>4, <2>4, DataCases DEF hist
    <2>5. CASE OutsideError
        <3>1. s \in Fields /\ error("other", NoBlock, s) /\ UNCHANGED hist
            BY <2>5 DEF OutsideError, Inv, Types
        <3>2. s'.lastEmitted = s.lastEmitted
            BY <3>1 DEF error, Unsubscribe, Fields
        <3>. QED
            BY <1>4, <3>1, <3>2 DEF hist
    <2>6. CASE UNCHANGED vars
        BY <1>4, <2>6 DEF vars, hist
    <2>7. CASE Calls
        BY <2>1, <2>2, <2>7, CallsMoves
    <2>. QED
        BY <1>7, <2>3, <2>4, <2>5, <2>6, <2>7 DEF Next
<1>. QED
    BY <1>5, <1>6, <1>7

-----------------------------------------------------------------------------
LEMMA InitComplete == Init => Complete
<1> SUFFICES ASSUME Init PROVE Complete
    OBVIOUS
<1>1. /\ feed = Off /\ queue = << >> /\ loop = << >> /\ fills = {} /\ given = {}
      /\ out = StartBlock - 1 /\ s.lastEmitted = NoBlock /\ ~s.backfilling
    BY DEF Init
<1>2. Requested = {}
    BY <1>1, MembersEmpty DEF Requested
<1>3. feed.state # "on" /\ feed.logs = << >>
    BY <1>1 DEF Off
<1>4. call[1].step = "finalized"
    BY CallFacts DEF Init
<1>5. StartBlock \in Nat \ {0}
    BY SubscriptionAssumption
<1>6. Full(out + 1)
    BY <1>1, <1>5 DEF Full
<1>7. Fetched /\ Ancestors
    BY <1>1, <1>2 DEF Fetched, Ancestors
<1>8. Subscribed /\ Compared
    BY <1>1, <1>3, <1>6 DEF Subscribed, Compared
<1>9. Filled
    BY <1>1, <1>4 DEF Filled, InCall
<1>. QED
    BY <1>7, <1>8, <1>9 DEF Complete

LEMMA NextComplete ==
    ASSUME Shallow, Inv, Numbered, Calm, Punctual, GapFree, Low, Complete, FillsKnown, [Next]_vars
    PROVE  Complete'
<1>1. Fetched' /\ Ancestors'
    BY NextFetched, NextAncestors DEF Complete
<1>2. Subscribed'
    BY NextSubscribed DEF Complete
<1>3. Filled' /\ Compared'
    BY NextFilled, NextCompared
<1>. QED
    BY <1>1, <1>2, <1>3 DEF Complete

\* The subscription implements BlockStream: a block is given only after its
\* parent, whatever the order of answers, the failures of workers and of
\* calls, the restarts and the reorganisations of one block, and whichever
\* block is fetched before and which after a reorganisation.
THEOREM SubscriptionIsStream ==
    ASSUME Shallow
    PROVE  Spec /\ Punctual /\ []FillsKnown => IsStream
<1> DEFINE J == Inv /\ Numbered /\ Calm /\ Punctual /\ GapFree /\ Low /\ Complete
<1>1. Shallow
    OBVIOUS
<1>2. Init /\ Punctual => J
    BY InitInv, InitNumbered, InitGapFree, InitComplete
<1>3. J /\ FillsKnown /\ [Next]_vars => J'
    BY <1>1, NextInv, NextNumbered, NextMoves, NextGapFree, NextLow, PunctualKept, NextComplete
<1>4. J /\ [Next]_vars => [Stream!Next]_given
    BY <1>1, NextAncestors
<1>5. Init => Stream!Init
    BY DEF Init, Stream!Init
<1> HIDE DEF J
<1>. QED
    BY <1>2, <1>3, <1>4, <1>5, PTL DEF Spec, IsStream, Stream!Spec
=============================================================================
