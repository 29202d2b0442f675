---------------------------- MODULE BlockProducer ---------------------------
(***************************************************************************)
(* BlockProducer of internal/block_producers: it takes blocks from a       *)
(* subscription, produces them to Kafka, and keeps a checkpoint of what    *)
(* Kafka accepted in a MongoDB collection (ProducedBlocksModel), from      *)
(* which a later start resumes.                                            *)
(*                                                                         *)
(* Around it: the chain of the node, which grows and reorganises; the      *)
(* topic; the process manager that starts the process again.               *)
(*                                                                         *)
(* A block is the branch that leads to it: the sequence of the branch      *)
(* labels chosen at each height.  Its number is its length, its hash is    *)
(* the sequence itself, its parent the sequence without the last label,    *)
(* and the block with number 0, << >>, is common to all branches.          *)
(***************************************************************************)
EXTENDS Integers, Sequences

CONSTANTS
    StartBlock,         \* this.startBlock
    MaxReOrgDepth,      \* this.maxReOrgDepth, and how deep the chain reorganises
    MaxTries,           \* how often addBlockToMongo calls add
    Overlap,            \* calls of produceBlock in flight at a time
    Hazards,            \* what else may go wrong
    MaxFaults,          \* bound of the model: faults in a behaviour
    MaxForks,           \* bound of the model: reorganisations in a behaviour
    FirstNumber,        \* number of the head at the beginning
    LastNumber          \* bound of the model: number of the last block

(***************************************************************************)
(* crash: the process dies; connect: connecting fails in a restart;        *)
(* lookup: the node does not answer getStartBlock; subscription, timeout:  *)
(* the subscription reports a fatal error, or one that forces a stop;      *)
(* produce: produceEvent fails; topic: a report names no partition;        *)
(* insert: an operation on the collection fails; flush: the flush timeout  *)
(* ends before the buffer is empty; report: Kafka does not take a message, *)
(* and its report says so; stop: the application calls stop().             *)
(***************************************************************************)
HazardKinds == {"crash", "connect", "lookup", "subscription", "timeout",
                "produce", "topic", "insert", "flush", "report", "stop"}

ASSUME ProducerAssumption ==
    /\ StartBlock \in Nat
    /\ MaxReOrgDepth \in Nat
    /\ MaxTries \in Nat \ {0}
    /\ Overlap \in Nat \ {0}
    /\ Hazards \subseteq HazardKinds
    /\ MaxFaults \in Nat
    /\ MaxForks \in Nat
    /\ FirstNumber \in Nat
    /\ LastNumber \in Nat

Blocks == Seq(Nat)

NoNumber == -1          \* blockNumber is undefined

VARIABLES
    \* --- the chain, the topic and the collection
    head,               \* the last block of the node's chain
    forks,              \* reorganisations so far
    unseen,             \* history: one that nothing in the code looks for
    topic,              \* for each number produced, the last block of it
    refused,            \* history: numbers reported last with an error
    db,                 \* the documents of the collection
    faults,             \* faults so far
    \* --- the client
    producing,          \* produceBlock calls in flight (producingBlockPromises)
    buffer,             \* librdkafka's queue: produced, no report yet
    \* --- start, stop and restart
    phase,              \* how far start() or stop() is
    restarting,         \* this.restartPromise is set
    forceStop,          \* this.forceStop
    blockNumber, depth, \* the locals of getStartBlock
    stored,             \* its local "block"
    \* --- the subscription
    nextBlock,          \* the number it emits next
    lastEmitted,        \* its lastEmittedBlock, << >> if undefined
    \* --- the checkpoint
    queue,              \* this.mongoInsertQueue
    adding              \* what processQueue awaits

chainVars == <<head, forks, unseen>>
startVars == <<blockNumber, depth, stored>>
lifeVars == <<phase, restarting, forceStop>>
subscriptionVars == <<nextBlock, lastEmitted>>
insertVars == <<queue, adding>>
vars == <<head, forks, unseen, topic, refused, db, faults, producing, buffer, phase,
          restarting, forceStop, blockNumber, depth, stored, nextBlock, lastEmitted, queue,
          adding>>

(***************************************************************************)
(* down: no process; stopped: stop() is over; starting: start() connects;  *)
(* first, walking, comparing: the awaits of getStartBlock; running;        *)
(* stopping: stop() waits for the promises; flushing: it disconnects.      *)
(***************************************************************************)
Phases == {"down", "stopped", "starting", "first", "walking", "comparing",
           "running", "stopping", "flushing"}

mayFail(h) == h \in Hazards /\ faults < MaxFaults
Fault(h) == mayFail(h) /\ faults' = faults + 1

-----------------------------------------------------------------------------
(***************************************************************************)
(* The chain of the node.                                                  *)
(***************************************************************************)
\* The block with number n of the branch that leads to block b.
Ancestor(b, n) == SubSeq(b, 1, n)

BlockAt(n) == Ancestor(head, n)

Mine ==
    /\ Len(head) < LastNumber
    /\ head' = Append(head, IF head = << >> THEN 0 ELSE head[Len(head)])
    /\ UNCHANGED <<forks, unseen, topic, refused, db, faults, producing, buffer, lifeVars,
                   startVars, subscriptionVars, insertVars>>

(***************************************************************************)
(* The subscription compares the parent of a block with the block it       *)
(* emitted before, in this process; the first block after a start may have *)
(* none to be compared with, and getStartBlock has done its comparisons.   *)
(***************************************************************************)
Unguarded ==
    /\ phase = "running"
    /\ StartBlock < nextBlock
    /\ lastEmitted = << >> \/ nextBlock <= Len(lastEmitted)

\* A longer branch wins: it replaces the last d blocks by new ones.
Reorganise ==
    /\ forks < MaxForks
    /\ Len(head) < LastNumber
    /\ \E d \in 1..MaxReOrgDepth :
        /\ d <= Len(head)
        /\ head' = Ancestor(head, Len(head) - d) \o [i \in 1..(d + 1) |-> forks + 1]
    /\ forks' = forks + 1
    /\ unseen' = (unseen \/ Unguarded)
    /\ UNCHANGED <<topic, refused, db, faults, producing, buffer, lifeVars, startVars,
                   subscriptionVars, insertVars>>

-----------------------------------------------------------------------------
(***************************************************************************)
(* ProducedBlocksModel.                                                    *)
(***************************************************************************)
\* A number that JavaScript takes for false.
Falsy(n) == n \in {NoNumber, 0}

Newest == {b \in db : \A c \in db : Len(c) <= Len(b)}

\* get(n): at most one document.
Found(n) == IF Falsy(n) THEN Newest ELSE {b \in db : Len(b) = n}

\* What the deleteMany of add(b) leaves.
Kept(b) == {c \in db : Len(b) - MaxReOrgDepth <= Len(c) /\ Len(c) <= Len(b)}

-----------------------------------------------------------------------------
(***************************************************************************)
(* processQueue and addBlockToMongo.                                       *)
(***************************************************************************)
Idle == [step |-> "idle", block |-> << >>, tries |-> 0]

\* The item taken: the last of those shiftByN drops, or the first.
Taken(q) == IF MaxReOrgDepth < Len(q) THEN Len(q) - MaxReOrgDepth ELSE 1

\* One more turn of the loop, with q in the queue.
processQueue(q) ==
    IF q = << >>
    THEN /\ queue' = q
         /\ adding' = Idle
    ELSE /\ queue' = SubSeq(q, Taken(q) + 1, Len(q))
         /\ adding' = [step |-> "create", block |-> q[Taken(q)], tries |-> 0]

\* create(block): the number is unique in the collection.
Create ==
    /\ adding.step = "create"
    /\ \A c \in db : Len(c) # Len(adding.block)
    /\ db' = db \cup {adding.block}
    /\ adding' = [adding EXCEPT !.step = "delete"]
    /\ UNCHANGED <<chainVars, topic, refused, faults, producing, buffer, lifeVars, startVars,
                   subscriptionVars, queue>>

DeleteMany ==
    /\ adding.step = "delete"
    /\ db' = Kept(adding.block)
    /\ processQueue(queue)
    /\ UNCHANGED <<chainVars, topic, refused, faults, producing, buffer, lifeVars, startVars,
                   subscriptionVars>>

\* What the operation under way leaves in the collection.
Written == IF adding.step = "create" THEN db \cup {adding.block} ELSE Kept(adding.block)

Duplicate == adding.step = "create" /\ \E c \in db : Len(c) = Len(adding.block)

\* add rejects, for a duplicate number or though the operation may have been
\* applied: it is called again, or the error ends processQueue, which leaves
\* the rest of the queue to the next report.
AddFails ==
    /\ adding.step # "idle"
    /\ \/ /\ Duplicate
          /\ UNCHANGED <<db, faults>>
       \/ /\ ~Duplicate
          /\ Fault("insert")
          /\ db' \in {db, Written}
    /\ adding' = IF adding.tries + 1 < MaxTries
                 THEN [adding EXCEPT !.step = "create", !.tries = @ + 1]
                 ELSE Idle
    /\ UNCHANGED <<chainVars, topic, refused, producing, buffer, lifeVars, startVars,
                   subscriptionVars, queue>>

-----------------------------------------------------------------------------
(***************************************************************************)
(* The end of the process: it crashes, or the application exits on         *)
(* blockProducer.fatalError.                                               *)
(***************************************************************************)
Exit ==
    /\ phase' = "down"
    /\ restarting' = FALSE
    /\ forceStop' = FALSE
    /\ blockNumber' = NoNumber
    /\ depth' = 0
    /\ stored' = << >>
    /\ producing' = << >>
    /\ buffer' = << >>
    /\ nextBlock' = 0
    /\ lastEmitted' = << >>
    /\ queue' = << >>
    /\ adding' = Idle

Crash ==
    /\ phase # "down"
    /\ Fault("crash")
    /\ Exit
    /\ UNCHANGED <<chainVars, topic, refused, db>>

(***************************************************************************)
(* onError of a fatal error, or of one that forces a stop: a restart, of   *)
(* which stop() is the first part; an error that arrives during a restart  *)
(* starts none, and one that arrives during the application's stop() will  *)
(* start the producer again.                                               *)
(***************************************************************************)
onError(forced) ==
    /\ restarting' = TRUE
    /\ forceStop' = (forceStop \/ forced)
    /\ phase' = IF restarting \/ phase = "flushing" THEN phase ELSE "stopping"
    /\ nextBlock' = 0
    /\ blockNumber' = NoNumber
    /\ depth' = 0
    /\ stored' = << >>

-----------------------------------------------------------------------------
(***************************************************************************)
(* start() and getStartBlock().                                            *)
(***************************************************************************)
\* The database and the broker are connected.
Start ==
    /\ phase \in {"down", "stopped", "starting"}
    /\ phase' = "first"
    /\ forceStop' = FALSE
    /\ UNCHANGED <<chainVars, topic, refused, db, faults, producing, buffer, restarting,
                   startVars, subscriptionVars, insertVars>>

ConnectFails ==
    /\ phase = "starting"
    /\ Fault("connect")
    /\ Exit
    /\ UNCHANGED <<chainVars, topic, refused, db>>

LastProduced ==
    /\ phase = "first"
    /\ phase' = "walking"
    /\ \/ /\ db = {}
          /\ blockNumber' = NoNumber
       \/ \E b \in Newest : blockNumber' = Len(b)
    /\ UNCHANGED <<chainVars, topic, refused, db, faults, producing, buffer, restarting,
                   forceStop, depth, stored, subscriptionVars, insertVars>>

Lookup ==
    /\ phase = "walking"
    /\ depth < MaxReOrgDepth
    /\ stored' \in Found(blockNumber)
    /\ phase' = "comparing"
    /\ UNCHANGED <<chainVars, topic, refused, db, faults, producing, buffer, restarting,
                   forceStop, blockNumber, depth, subscriptionVars, insertVars>>

\* Mutant of subscribe: it starts one block early, at -1 the first time.
subscribeEarly(n) ==
    /\ phase' = "running"
    /\ restarting' = FALSE
    /\ nextBlock' = n - 1
    /\ blockNumber' = NoNumber
    /\ depth' = 0
    /\ stored' = << >>

\* getStartBlock returns n, and start() subscribes from there.
subscribe(n) ==
    /\ phase' = "running"
    /\ restarting' = FALSE
    /\ nextBlock' = n
    /\ blockNumber' = NoNumber
    /\ depth' = 0
    /\ stored' = << >>

\* No document, or none left to compare: the number goes unverified.
Unverified ==
    /\ phase = "walking"
    /\ depth = MaxReOrgDepth \/ Found(blockNumber) = {}
    /\ subscribe(IF Falsy(blockNumber) THEN StartBlock ELSE blockNumber)
    /\ UNCHANGED <<chainVars, topic, refused, db, faults, producing, buffer, forceStop,
                   lastEmitted, insertVars>>

\* Mutant of Same: only the numbers are compared.
SameNumber ==
    /\ phase = "comparing"
    /\ Len(stored) <= Len(head)
    /\ subscribe(Len(stored) + 1)
    /\ UNCHANGED <<chainVars, topic, refused, db, faults, producing, buffer, forceStop,
                   lastEmitted, insertVars>>

Same ==
    /\ phase = "comparing"
    /\ stored = BlockAt(Len(stored))
    /\ subscribe(Len(stored) + 1)
    /\ UNCHANGED <<chainVars, topic, refused, db, faults, producing, buffer, forceStop,
                   lastEmitted, insertVars>>

\* Mutant of Different: it looks at the same number again.
DifferentAgain ==
    /\ phase = "comparing"
    /\ stored # BlockAt(Len(stored))
    /\ phase' = "walking"
    /\ blockNumber' = Len(stored)
    /\ depth' = depth + 1
    /\ stored' = << >>
    /\ UNCHANGED <<chainVars, topic, refused, db, faults, producing, buffer, restarting,
                   forceStop, subscriptionVars, insertVars>>

Different ==
    /\ phase = "comparing"
    /\ stored # BlockAt(Len(stored))
    /\ phase' = "walking"
    /\ blockNumber' = Len(stored) - 1
    /\ depth' = depth + 1
    /\ stored' = << >>
    /\ UNCHANGED <<chainVars, topic, refused, db, faults, producing, buffer, restarting,
                   forceStop, subscriptionVars, insertVars>>

\* The node does not answer: start() throws, after onError began a restart
\* unless this is one.
LookupFails ==
    /\ phase = "comparing"
    /\ Fault("lookup")
    /\ \/ /\ restarting
          /\ Exit
       \/ /\ ~restarting
          /\ onError(FALSE)
          /\ UNCHANGED <<producing, buffer, lastEmitted, insertVars>>
    /\ UNCHANGED <<chainVars, topic, refused, db>>

-----------------------------------------------------------------------------
(***************************************************************************)
(* The subscription, observer.next and produceBlock.                       *)
(***************************************************************************)
\* Mutant of isReOrgedMissed: it looks at the blocks after the next only.
isReOrgedMissedLate(b) ==
    /\ lastEmitted # << >>
    /\ Len(lastEmitted) + 1 < Len(b)
    /\ lastEmitted # Ancestor(b, Len(b) - 1)

\* isReOrgedMissed: the block does not follow the one emitted last.
isReOrgedMissed(b) ==
    /\ lastEmitted # << >>
    /\ Len(lastEmitted) < Len(b)
    /\ lastEmitted # Ancestor(b, Len(b) - 1)

Emit ==
    /\ phase = "running"
    /\ nextBlock <= Len(head)
    /\ Len(producing) < Overlap
    /\ ~isReOrgedMissed(BlockAt(nextBlock))
    /\ producing' = Append(producing, BlockAt(nextBlock))
    /\ lastEmitted' = BlockAt(nextBlock)
    /\ nextBlock' = nextBlock + 1
    /\ UNCHANGED <<chainVars, topic, refused, db, faults, buffer, lifeVars, startVars,
                   insertVars>>

ReOrgEncountered ==
    /\ phase = "running"
    /\ nextBlock <= Len(head)
    /\ isReOrgedMissed(BlockAt(nextBlock))
    /\ onError(FALSE)
    /\ UNCHANGED <<chainVars, topic, refused, db, faults, producing, buffer, lastEmitted,
                   insertVars>>

SubscriptionError ==
    /\ phase = "running"
    /\ \/ Fault("subscription") /\ onError(FALSE)
       \/ Fault("timeout") /\ onError(TRUE)
    /\ UNCHANGED <<chainVars, topic, refused, db, producing, buffer, lastEmitted, insertVars>>

\* Mutant of Produced: the block is recorded before there is a report.
ProducedRecords ==
    /\ producing # << >>
    /\ buffer' = Append(buffer, Head(producing))
    /\ producing' = Tail(producing)
    /\ IF adding = Idle
       THEN processQueue(Append(queue, Head(producing)))
       ELSE /\ queue' = Append(queue, Head(producing))
            /\ UNCHANGED adding
    /\ UNCHANGED <<chainVars, topic, refused, db, faults, lifeVars, startVars,
                   subscriptionVars>>

\* produceEvent: the message is in librdkafka's queue.
Produced ==
    /\ producing # << >>
    /\ buffer' = Append(buffer, Head(producing))
    /\ producing' = Tail(producing)
    /\ UNCHANGED <<chainVars, topic, refused, db, faults, lifeVars, startVars,
                   subscriptionVars, insertVars>>

\* produceEvent rejects: every error sendToInternalProducer throws is fatal.
ProduceFails ==
    /\ producing # << >>
    /\ Fault("produce")
    /\ producing' = Tail(producing)
    /\ onError(FALSE)
    /\ UNCHANGED <<chainVars, topic, refused, db, buffer, lastEmitted, insertVars>>

-----------------------------------------------------------------------------
(***************************************************************************)
(* Delivery reports, for a topic of one partition.                         *)
(***************************************************************************)
\* The listener of "delivered": the block of the report goes to the checkpoint.
onDelivered ==
    /\ buffer # << >>
    /\ buffer' = Tail(buffer)
    /\ IF adding = Idle
       THEN processQueue(Append(queue, Head(buffer)))
       ELSE /\ queue' = Append(queue, Head(buffer))
            /\ UNCHANGED adding

Delivered ==
    /\ onDelivered
    /\ LET b == Head(buffer)
       IN /\ topic' = [n \in DOMAIN topic \cup {Len(b)} |->
                         IF n = Len(b) THEN b ELSE topic[n]]
          /\ refused' = refused \ {Len(b)}
    /\ UNCHANGED <<chainVars, db, faults, producing, lifeVars, startVars, subscriptionVars>>

\* Kafka refuses the message.  onDeliveryReport does not look at the error of
\* the report and emits "delivered" all the same.
DeliveryFails ==
    /\ onDelivered
    /\ Fault("report")
    /\ refused' = refused \cup {Len(Head(buffer))}
    /\ UNCHANGED <<chainVars, topic, db, producing, lifeVars, startVars, subscriptionVars>>

\* The topic does not exist: no message of the session gets a partition.
NoPartition ==
    /\ buffer # << >>
    /\ DOMAIN topic = {}
    /\ Fault("topic")
    /\ buffer' = << >>
    /\ producing' = << >>
    /\ onError(FALSE)
    /\ UNCHANGED <<chainVars, topic, refused, db, lastEmitted, insertVars>>

-----------------------------------------------------------------------------
(***************************************************************************)
(* stop(), by the application or as the first part of a restart.           *)
(***************************************************************************)
Stop ==
    /\ phase = "running"
    /\ Fault("stop")
    /\ phase' = "stopping"
    /\ nextBlock' = 0
    /\ UNCHANGED <<chainVars, topic, refused, db, producing, buffer, restarting, forceStop,
                   startVars, lastEmitted, insertVars>>

\* producingBlockPromises and queueProcessingPromise are settled.
Disconnect ==
    /\ phase = "stopping"
    /\ producing = << >>
    /\ adding = Idle
    /\ phase' = "flushing"
    /\ UNCHANGED <<chainVars, topic, refused, db, faults, producing, buffer, restarting,
                   forceStop, startVars, subscriptionVars, insertVars>>

\* The client is gone, with what it could not deliver in time; the
\* "delivered" listener goes; a forced stop ends with fatalError.
Disconnected ==
    /\ phase = "flushing"
    /\ \/ /\ buffer = << >>
          /\ UNCHANGED faults
       \/ /\ buffer # << >>
          /\ Fault("flush")
    /\ \/ /\ forceStop
          /\ Exit
       \/ /\ ~forceStop
          /\ phase' = IF restarting THEN "starting" ELSE "stopped"
          /\ buffer' = << >>
          /\ UNCHANGED <<restarting, forceStop, startVars, producing,
                         subscriptionVars, insertVars>>
    /\ UNCHANGED <<chainVars, topic, refused, db>>

-----------------------------------------------------------------------------
Init ==
    /\ head = [i \in 1..FirstNumber |-> 0]
    /\ forks = 0
    /\ unseen = FALSE
    /\ topic = << >>
    /\ refused = {}
    /\ db = {}
    /\ faults = 0
    /\ producing = << >>
    /\ buffer = << >>
    /\ phase = "down"
    /\ restarting = FALSE
    /\ forceStop = FALSE
    /\ blockNumber = NoNumber
    /\ depth = 0
    /\ stored = << >>
    /\ nextBlock = 0
    /\ lastEmitted = << >>
    /\ queue = << >>
    /\ adding = Idle

Environment == Mine \/ Reorganise

Insert == Create \/ DeleteMany \/ AddFails

Starting == Start \/ LastProduced \/ Lookup \/ Unverified \/ Same \/ Different

Stopping == Stop \/ Disconnect \/ Disconnected

Subscription == Emit \/ ReOrgEncountered \/ SubscriptionError

Failure == Crash \/ ConnectFails \/ LookupFails \/ ProduceFails \/ NoPartition

Next == \/ Environment \/ Insert \/ Starting \/ Stopping \/ Subscription
        \/ Produced \/ Delivered \/ DeliveryFails \/ Failure

Spec == Init /\ [][Next]_vars

(***************************************************************************)
(* What waits is served: MongoDB, the node and the broker answer, the      *)
(* process manager starts a process that exited (README.md:102), and a     *)
(* restart goes on.  Nothing obliges the application to start a producer   *)
(* that it stopped.                                                        *)
(***************************************************************************)
Fairness ==
    /\ WF_vars(Insert)
    /\ WF_vars(phase # "stopped" /\ Starting)
    /\ WF_vars(Disconnect \/ Disconnected)
    /\ WF_vars(Emit \/ ReOrgEncountered)
    /\ WF_vars(Produced)
    /\ WF_vars(Delivered)

FairSpec == Spec /\ Fairness

-----------------------------------------------------------------------------
Waits == [step : {"idle", "create", "delete"}, block : Blocks, tries : Nat]

\* The values the variables take.
TypeOK ==
    /\ head \in Blocks
    /\ forks \in Nat
    /\ unseen \in BOOLEAN
    /\ DOMAIN topic \subseteq Nat
    /\ \A n \in DOMAIN topic : topic[n] \in Blocks /\ Len(topic[n]) = n
    /\ refused \subseteq Nat
    /\ db \subseteq Blocks
    /\ faults \in Nat
    /\ producing \in Seq(Blocks)
    /\ buffer \in Seq(Blocks)
    /\ phase \in Phases
    /\ restarting \in BOOLEAN
    /\ forceStop \in BOOLEAN
    /\ blockNumber \in Nat \cup {NoNumber}
    /\ depth \in Nat
    /\ stored \in Blocks
    /\ nextBlock \in Nat
    /\ lastEmitted \in Blocks
    /\ queue \in Seq(Blocks)
    /\ adding \in Waits

(***************************************************************************)
(* The numbers of which the producer got a report: Kafka accepted a block  *)
(* of them, or refused it and nobody looked at the error.                  *)
(***************************************************************************)
Reported == DOMAIN topic \cup refused

\* All the numbers up to n were produced.
Covered(n) == \A m \in StartBlock..n : m \in Reported

(***************************************************************************)
(* The checkpoint is nowhere ahead of the reports: for a block of the      *)
(* collection, which a later start may resume after, Kafka accepted a      *)
(* block of every number before, but for those whose report bore an error  *)
(* that onDeliveryReport ignores (refused).                                *)
(***************************************************************************)
CheckpointCovered == \A b \in db : Covered(Len(b))

(***************************************************************************)
(* Moreover the topic is a stream without a gap at any time, except for    *)
(* the refused numbers.                                                    *)
(***************************************************************************)
NothingSkipped ==
    /\ \A n \in DOMAIN topic : Covered(n)
    /\ CheckpointCovered

(***************************************************************************)
(* What onDeliveryReport says of itself (asynchronous_producer.ts:33): it   *)
(* emits "delivered" on a successful delivery, or an error; so that Kafka  *)
(* accepted a block of every number up to any that is recorded.  It is so  *)
(* as long as no report bears an error.                                    *)
(***************************************************************************)
RecordedIsAccepted ==
    \A b \in db : \A m \in StartBlock..Len(b) : m \in DOMAIN topic

\* The last block produced for each number up to n is the block of the chain,
\* except where Kafka refused that.
Agrees(n) ==
    \A m \in (StartBlock..n) \ refused : m \in DOMAIN topic /\ topic[m] = BlockAt(m)

(***************************************************************************)
(* getStartBlock finds the reorganisations the producer missed: it starts  *)
(* at no number past a block that the chain has replaced since the topic   *)
(* got it.  Excepted are those nothing in the code looks for, between the  *)
(* comparison of getStartBlock and the first block of a new process.       *)
(***************************************************************************)
StartsWhereTopicAgrees ==
    [][phase # "running" /\ phase' = "running" => unseen \/ Agrees(nextBlock' - 1)]_vars

(***************************************************************************)
(* However often the process and the chain fail it, the topic ends with    *)
(* the blocks of the chain, unless the application stopped the producer    *)
(* (or the chain reorganised unseen, see above).                           *)
(***************************************************************************)
FollowsChain == <>[](phase = "stopped" \/ unseen \/ Agrees(Len(head)))

=============================================================================
