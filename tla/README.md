# A verification of the chain indexer framework

TLA+ specifications of the parts of this repository whose correctness depends
on the order in which callbacks, awaits, messages and failures happen, TLC
configurations that check them on small instances, and TLAPS proofs.

## The system

The framework is a TypeScript library (`internal/`, re-exported by the thin
wrappers of `public/`) for pipelines over Kafka:

    node --> BlockGetter / workers --> BlockSubscription --> BlockProducer --> Kafka topic
                                                              |   ^
                                             ProducedBlocksModel (MongoDB checkpoint)
    Kafka topic --> Consumer --> AbstractDataTransformer --> Producer --> Kafka topic
    Kafka topic --> Consumer --> AbstractEventConsumer --> the application

| component | state it keeps | operations | what makes it correct | hard behaviour |
|---|---|---|---|---|
| `Queue` (queue/queue.ts) | record of items, head, tail | enqueue, shift, shiftByN, front, clear, getLength, isEmpty | it is a FIFO sequence; no item leaks behind the head | boundary positions of shiftByN |
| `AbstractConsumer`, `SynchronousConsumer`, `AsynchronousConsumer` (kafka/consumer) | buffer, `queueIsProcessing`, `consumerPaused`, `seekCalled`, connection flags; at the broker the committed offsets | start, onData, seek, deserialize, handleBackpressure, processQueue, retryPromise, safeCommitMessage, onError, stop, onDisconnect | no offset is committed past an unprocessed message; order; back pressure neither overfills nor stops for good | every await interleaves with data, errors and disconnection; crash before a commit; lost commits; restart of the object |
| `AbstractEventConsumer` (event_consumer) | none of its own | execute | that of `SynchronousConsumer` | the same |
| `AbstractProducer`, `AsynchronousProducer`, `SynchronousProducer` (kafka/producer) | connection promise and flags, delivery-report listeners | start, produceEvent, sendToInternalProducer, onDeliveryReport, stop | a confirmed message is in the topic; messages keep the order of the calls; every call is settled | overlapping calls share a connection, timeouts race reports, start and stop race |
| `BlockProducer` (block_producers) | `started`, `forceStop`, `restarting`, queue of blocks to checkpoint | start, produceBlock, addBlockToMongo, processQueue, getStartBlock, onError, restartBlockProducer, stop | nothing between the checkpoint and the chain is skipped, over crashes, restarts and reorganisations | delivery reports out of step with the checkpoint; restart with writes in flight |
| `ProducedBlocksModel` | capped collection of (number, hash) | get, add | the last produced block survives | delete and insert are two steps |
| `AbstractBlockSubscription`, `BlockSubscription` (block_subscription) | queue of block promises, `nextBlock`, last emitted block, `lastBlockHash`, workers | subscribe, unsubscribe, backFillBlocks, processQueue, enqueueMissedBlocks, checkIfLive | blocks are emitted in order, without gap, with a reorganisation reported as one | workers answer out of order, headers arrive during the backfill, reorganisations |
| `BlockPoller`, `ErigonBlockPoller` | next block, polling flag, queue | subscribe, unsubscribe, polling | the same, by polling | errors in the middle of a poll |
| `BlockGetter` and its subclasses (block_getters), `BlockFormatter` | none | getBlock, getBlockWithTransactionReceipts, getLatestBlockNumber | a block is returned with all its receipts, its own | retries within retries, an alternative node, a node that changes its branch between two calls |
| `AbstractDataTransformer` (data_transformation) | a consumer and a producer | start, onData, closed | an input is committed only after its output is produced | closed() restarts the same object |
| the services of `examples/` | a collection of a database | save | the collection holds what the chain holds | a save that breaks off half way; a reorganisation seen only as a block number that comes again |
| coders, bloom filter, errors, database, RPC client, logger | none | pure conversions and I/O | - | - |

## The modules

| module | models | extends / instantiates |
|---|---|---|
| `Fifo` | what a queue promises | - |
| `Queue` | `Queue`, over the record of items | refines `Fifo` |
| `QueueProofs` | proofs about `Queue` | `Queue` |
| `Delivery` | what a consumer group that commits after processing promises | - |
| `KafkaConsumer` | the three consumer classes, the topics and the client | refines `Delivery` |
| `KafkaConsumerProofs` | proofs about `KafkaConsumer` | `KafkaConsumer` |
| `BlockProducer` | `BlockProducer` and `ProducedBlocksModel`, with the chain, the topic and the process around them | - |
| `BlockProducerProofs` | proofs about `BlockProducer` | `BlockProducer` |
| `BlockStream` | what a block subscription promises: no block before its parent | - |
| `BlockSubscription` | `AbstractBlockSubscription`, `BlockSubscription` | instantiates `BlockStream` |
| `BlockSubscriptionProofs` | proofs about `BlockSubscription` | `BlockSubscription` |
| `BlockPolling` | `BlockPoller`, `ErigonBlockPoller` | instantiates `BlockStream` |
| `BlockPollingProofs` | proofs about `BlockPolling` | `BlockPolling` |
| `BlockGetter` | the getters, their workers, `BlockFormatter` | - |
| `BlockGetterProofs` | proofs about `BlockGetter` | `BlockGetter` |
| `KafkaProducer` | the three producer classes, the librdkafka client, the topic | - |
| `KafkaProducerProofs` | proofs about `KafkaProducer` | `KafkaProducer` |
| `Pipeline` | `AbstractDataTransformer`, `AbstractEventConsumer`, consume, the services of the examples, between two topics and a collection | - |
| `PipelineProofs` | proofs about `Pipeline` | `Pipeline` |
| `MC...` | constants for TLC, one module for each of the above that is run | |

### Queue

`items`, `head`, `tail` are the fields of the class, `ret` what the last call
returned. `MaxTail` bounds how many items are enqueued between two calls of
`clear`. The refinement maps the window `[head, tail)` of the record to the
sequence of `Fifo`.

### KafkaConsumer

JavaScript runs to completion between two awaits: an action is what one
callback or continuation does until it awaits again. The state and the code:

| variable | code |
|---|---|
| `committed` | the group's offsets at the broker |
| `conn`, `position`, `pausedAt`, `seeks` | the librdkafka client: connection, next offset, paused partitions, seeks in flight |
| `consumerPaused`, `seekCalled`, `queueIsProcessing`, `queue` | the fields of the class |
| `decoding` | calls of onData suspended in `await this.deserialize` |
| `element`, `errorCount` | the local state of the one running processQueue; the count stays where it gave up on a non-fatal error |
| `orphans` | promises of an asynchronous consumer whose queue element was dropped |
| `handled`, `faults` | history, and the bound on faults |

An onData of a message without value, or of a topic whose schema is loaded,
does not give way to other callbacks before it enqueues; those messages are the
constant `Undelayed`, so that both kinds are covered. A commit may be applied, be
lost after the client accepted it, or be refused until the retries are used up.
`connectToBroker` is one step with `start`; a failing connection leaves the
consumer as it was. `disconnect` is asynchronous: after stop() the client may go on
delivering (`Drains`) until it closes. A numeric librdkafka error carries
no `isFatal` and createUnknown then makes a fatal error of it, so that fatal and
non-fatal client errors both occur.

Abstractions: offsets and partitions without payload; the handler is an await that
resolves or rejects with an error that is plain (no BaseError), non-fatal or fatal.
A rejected promise that processQueue has not reached yet ends a Node process by
default: that is a `crash`. A plain error becomes fatal in createUnknown; a non-fatal one whose retries are
used up clears nothing and disconnects nobody, and processQueue returns with its guard set (`GivenUp`): the consumer stays connected
and idle for good, which `AllHandled` names as its one exception.

### BlockProducer

A block is the branch that leads to it (the sequence of branch labels): its
number is the length, its hash the sequence, its parent the front of it, so that two
blocks of one number differ exactly when their hashes do.

| variable | code |
|---|---|
| `head`, `forks` | the node's chain: it grows, and a longer branch may replace up to `maxReOrgDepth` blocks |
| `topic` | for each number, the last block Kafka accepted |
| `db` | the documents of `ProducedBlocksModel` |
| `producing`, `buffer` | calls of produceBlock in flight; messages librdkafka has not reported |
| `phase` | which await of start(), getStartBlock() or stop() is pending |
| `restarting`, `forceStop` | `restartPromise` and `forceStop` of the class |
| `blockNumber`, `depth`, `stored` | the locals of getStartBlock |
| `nextBlock`, `lastEmitted` | where the subscription is, and its `lastEmittedBlock`, which survives a restart of the same object |
| `queue`, `adding` | `mongoInsertQueue`, and the operation of addBlockToMongo that is awaited |

onError, restartBlockProducer and stop() are one path: an error sets
`restartPromise`, stop() waits for the produceBlock calls and the queue it knows of
(`Disconnect`), flushes and disconnects (`Disconnected`), and start() begins again.
A delivery report may bear an error (`DeliveryFails`): onDeliveryReport does not look at it
(asynchronous_producer.ts:40) and the listener records the block like any other. The history variable `refused` has the numbers
that only such a report stands for, until Kafka accepts a block of them.
The flush itself delivers messages, whose reports start new writes to the collection:
nobody waits for those, and they go on while the next start() reads the
collection. `AddFails` covers a duplicate number and an operation that failed with or
without having been applied. An error with no way on ends in
`Exit`: README.md:102 of the repository tells the application to exit on
`blockProducer.fatalError`, and the process manager starts it again.

Abstractions: the topic has one partition; the subscription is the part of
`AbstractBlockSubscription` the producer depends on (it emits block after block
and reports a reorganisation when a block does not follow the one emitted last), and
`Overlap` bounds how many produceBlock calls it lets run at a time; an abandoned branch
does not become the chain again. `unseen` is a history variable: nothing in the code looks
for a reorganisation between getStartBlock's comparison and the first block of a new
process, and the properties about the chain except a behaviour in which one happened.

### BlockSubscription

Blocks are sequences of labels as in `BlockProducer`; a label also says whether the block has
logs, since the log subscription only tells of blocks that have.

| variable | code |
|---|---|
| `s` | the fields of the object; `timer` holds the argument of the pending checkIfLive |
| `queue` | the `Queue` the class extends: promises of blocks, here requests with the answer they got so far |
| `loop` | the promise processQueue awaits; empty when `processingQueue` is false |
| `fills` | the loops of backFillBlocks that await a promise, `current` while `activeBackFillingId` is theirs |
| `waiting`, `exits` | calls of addWorkerJobToQueue that wait for a shorter queue; ends of workers |
| `call` | the await of subscribe or unsubscribe that is pending, and who called |
| `feed` | the log subscription and the events that are under way |
| `given`, `out` | history: the blocks observer.next was called with, the highest number since the owner started it |

A worker that ends is replaced, but no listener is put on the replacement: when that one ends too,
requests to it are never answered (`Answers` has no case for them). The owner is `BlockProducer`: it stops the
subscription at an error and starts it from the block behind the last one that it has and the chain
still has.

Left out: the timer and the owner subscribing at the same time; a restart by the timer that crosses into a
backfill while processQueue awaits a block of before; a worker that ends twice in one run (`MaxFaults`);
a reorganisation that replaces two blocks whose logs come below `lastReceivedBlockNumber`, which the handler
discards, so that a block is given whose parent is fetched later only by its number (`ForkDepth` is 1); callback ids that
coincide; a timer at the end of a chain that never grows again. The events that arrive during the await of unsubscribe, and
a loop that goes on after it, are the hazard `late`, a scenario of its own.

### BlockPolling

`polls` are the loops of startBlockPolling with their locals, `current` while `pollingId` is theirs: unsubscribe
forgets the id and nothing else, and a loop finds out when it looks at the id again. `queue`, `loop`,
`saved` (`lastSavedBlockHash`) and `fatalError` belong to `ErigonBlockPoller` and outlive a subscription.
`BlockPoller` compares no parents, and its chain does not reorganise in the run. A worker that ends with an error fails all the requests it
was given (`WorkerExits`), queued or awaited, and is replaced. Left out: a worker that ends twice (the replacement has no listener for its end,
erigon_block_polling.ts:75), that ends without an error, so that nobody settles its requests, or that fails while it has no request (nobody
listens to the error, which ends the process); two calls of subscribe within one millisecond, which share an id.

### BlockGetter

One request to a worker: `state` is the call it awaits, `errorCount` and `receiptErrors` the counters of the two levels
of retries, `block`, `receipts`, `transactions` what the attempt has so far, `answer` the block it returns. `view` is the
branch that each endpoint holds and changes at any step. A node may report a list of receipts that is
incomplete, in any order, may not know the block, the call may fail or time out, any number of times: attempts are bounded by the
code alone. `optional` is the value of the fields a node may leave out; numbers, hexadecimal strings and
Longs are records that differ in kind, so that `Truthy` tells 0 from "0x0" as the code does. `strayed` is a history
variable: whether the first endpoint left the branch of the block since it came. The 5 s and 2 s pauses between attempts are part
of the await that follows.

### KafkaProducer

| variable | code |
|---|---|
| `producerConnecting`, `producerConnected`, `stopProducerPromise` | the fields of the class |
| `attempts`, `open`, `waitsFor` | the promises of connectToBroker: how many, which are pending, which one a call awaits |
| `telling` | onKafkaError is emitting "producer.error" and has not reset `producerConnected` yet |
| `step`, `outcome`, `called` | of each call: where it stands, how its promise was settled; their order |
| `sending` | the messages that are being serialised, in the order in which they got there |
| `process` | whether it runs, has a rejection that nobody handles, or has ended over it |
| `overtook` | history: of which calls a message produced as start() returned came before |
| `listening`, `timers` | `SynchronousProducer`: the calls whose delivery listener is registered, whose timer runs |
| `up`, `buffer`, `reports`, `log` | the client, what it took, its reports, the topic |

A call that awaits the connection stands at `starting`. When the promise settles, all that await it are `connected` or `refused` and go on one by
one in their order (`Continues`, `Refused`), before the event loop takes anything else (`Quiet`): that is what microtasks do. start() returns to its
owner (`resumed`), who may produce at once, until it awaits again (`Returns`). A call of produceEvent awaits `_start()`, one promise deeper than
start(), so what the owner produces then is serialised first: such pairs are kept in `overtook`.
The catch in the executor of `SynchronousProducer.produceEvent` throws: since the executor is async, nobody handles that rejection, and
Node ends the process, unless the application listens for `unhandledRejection` (hazard `survive`); the call is then left to its timer.

Each message is produced at most once by its owner. The coder answers in the order of the calls. One partition. Left out: a second call of
stop while one is pending, which awaits the same promise.

### Pipeline

The composition behind the block producer: a topic `raw` of blocks in the order the producer made them, a transformer, a second
topic `out`, and a service with its collection `db`.

| variable | code |
|---|---|
| `queue`, `position`, `committed` | the buffer of the transformer's consumer: offsets with the state of their onData (`fresh`, `retried`, `done`, `failed`); the client; the group's offset |
| `element` | what the suspended processQueue awaits, when its entry was dropped from the buffer under it |
| `stuck` | processQueue gave up: `queueIsProcessing` stays set, also over a restart of the object |
| `strays` | the other handlers of an asynchronous consumer whose entries were dropped |
| `state` | `running`; `draining`, as onError asked the client to disconnect, which may still deliver; `stopping`, as closed() waits for producer.stop(); `fatal` |
| `buffer`, `out` | the client of the `AsynchronousProducer`, and its topic |
| `step`, `row`, `offset`, `resume` | the await of save that is pending, the transfer it adds, the message handled, the service's commit |

closed() starts the same consumer object again, as abstract_data_transformer.ts:47-55 does. So the loop and the handlers of the old session go
on through `closed` and `start`. What they awaited ends in `elementResolves` or `elementRejects`: the loop commits it and shifts whatever is at the
front by then. On a client that is not connected the commit throws into onError, which ignores it (or, when it resumes a buffer that
was full and no retries are left, into processQueue, which gives up: `stuck` is chosen freely). After a fatal error in a handler
the guard stays set, and the object started again takes messages and handles none.
A transformer that is not to restart, or whose producer fails to stop or start, gives up with `dataTransformer.fatalError`, and its process is
started again (`fatalError`).

The services see a reorganisation only as a block number that comes again (README.md:549 of the repository tells services to compare
numbers). Five cases defeat that or lose a block, and the history variable `harm` records them:

* `empty`: the first block of the new branch has no transfers and is not produced, so that its number does not come again;
* `overtaken`: a block is produced behind a later one, by an asynchronous handler that was retried or by one that outlived its session;
* `skipped`: the old loop shifts a message of after the clear, or the client still delivers what is behind the messages dropped;
* `undelivered`: the broker refuses a message, and `AsynchronousProducer` ignores the report that says so;
* `lost`: a transformer's process ends with committed messages in its client.

The properties say that nothing else does, and that what the transformer is left with may be a processQueue that gave up.
`matic_transfer` deletes from the number on that came again and adds. `nft_balancer` upserts one document per token (`updateTokens`, token_methods.ts:18-24) and
deletes none, whatever the number: its collection is what the newest block that moves a token says of it (`Owners`), whether or not that block is still
on the chain. That it need not be the chain's is among the divergences below. `db` is a bag of documents: the properties ask which
documents there are and how often, and the one order the code reads, the newest block's number, is the highest.

Abstractions: one partition; commits of a connected client arrive (lost ones are in `KafkaConsumer`); a buffer of at least two; messages of the producer are
delivered in order; a rejected promise that processQueue does not await ends the process (`TransformerDies`).

## The runs

Bounds of the consumer runs: one or two partitions of up to four messages, a buffer of
one or two, at most one retry, two or three faults. Every hazard of the code needs one
partition or two, one message in the handler, one in the buffer, one with the
coder and one or two faults; a longer log repeats them. Of the producer runs:
blocks 0 to 4 and reorganisations one block deep (`ProducerRestarts`) or two
(`ProducerRecovers`). Four numbers suffice for the queue to be longer than `maxReOrgDepth`, so
that shiftByN jumps, for deleteMany to delete, and for a walk back that ends on a
document, on a hole, and on the last step of the loop; `StartBlock` is 0, the number the code
takes for no number. `ProducerRestarts` allows one fault of any kind in a behaviour, a failing report among them: with a
second one `FollowsChain` no longer holds (the hazard at
abstract_block_subscription.ts:309, in `BlockSubscription` the scenario `Outage`). `MaxForks` reorganisations happen at
most. The proofs do without bounds.

| run | shows |
|---|---|
| `MCQueue` | types, no leak, FIFO refinement |
| `ConsumerFaults` | two partitions, a start offset, every hazard: types, the inductive invariant `NothingIsLost`, the refinement of `Delivery` |
| `ConsumerOrder` | one partition, fair, handlers that reject with any error: pausing matches the buffer, no gap in what was handled, offsets never go back, everything is handled unless the consumer gave up on a non-fatal error |
| `ConsumerAsync` | an asynchronous consumer, fair, any error: at-least-once, everything is handled with the same exception |
| `ProducerRestarts` | one block deep, any one fault, fair: types, no gap in the topic and no checkpoint ahead of it but for refused numbers, a start before everything the chain replaced, the topic ends with the chain |
| `ProducerRecovers` | up to two blocks deep, crashes and failing writes: a start before everything the chain replaced |
| `ProducerSkips` | *violated*: with two blocks in flight, one that fails is skipped for good |
| `Subscription` | a backfill, the logs from the start, and a loop that survives unsubscribe; one reorganisation, any one fault: bounded queue, no gap, no false reorganisation, `BlockStream`, all blocks in the end |
| `Polling` | both pollers, any one fault, `ErigonBlockPoller` with one reorganisation: `BlockStream`, order, all blocks in the end unless it was restarted over a full queue |
| `BlockGetter` | four getters, a node that changes its branch at will: a complete block, with its own receipts unless the node strayed, or an error, after a bounded number of attempts |
| `KafkaProducer` | two messages and a call of start, both classes, any two faults, a stop: true confirmations, order but for what an owner that awaited start() produces, every call settled or the process ended |
| `Pipeline` | a synchronous transformer with either service, an asynchronous one with `matic_transfer`, one reorganisation, any one fault (any two over two blocks): nothing dropped, the collection in step with the topic, but for `harm` |

Bounds of the new runs. `Subscription`: chains that end at block 6 (backfill: five final blocks of six, two workers, a queue limit
of one) or at 4 or 3 (logs only): enough for blocks without logs between two that have some, a reorganisation before, during and behind
the backfill, and a restart at each of its steps. `Polling`: a queue of two, four blocks: the queue is full, partly full and
empty when an error comes; of two workers one ends with one or two of the requests under way, and the rest is answered. `BlockGetter`: two branches of two transactions that share one at different places, one retry;
counters are bounded by the code, the chain by nothing. `KafkaProducer`: with two
messages and start there are three calls to overlap, one more than the connection promise needs. `Pipeline`: three blocks in the topic, one
reorganisation, a buffer of two: one message is awaited while another is dropped or arrives behind it, and a third says what was committed past. Two
tokens, and blocks of either, both or none, by scenario (`contents`): a save may break off between two transfers, a block may not be produced, and
a token may be moved on one branch only. One fault (`maxFaults`), since every case of `harm` but two needs one; with two blocks
(`maxBlocks`) two, since a handler that outlives a clear can fail only as the second.

### Divergences that are known

The passing runs keep to environments in which the code does what its documents say. Outside of them it does not,
and these are the settings with which TLC shows it:

* `MCKafkaConsumer`, `LogEnd` 2, no retries. With `Restarts = {"object"}`, `HandlerErrors <- RetriedErrors`, one fault: `AllHandled` is violated, a
  consumer object started again after it gave up still has `queueIsProcessing` set (abstract_consumer.ts:262). With
  `Restarts = {"object"}`, `Hazards = {"clientFatal"}`, `Undelayed <- NoneDelayed`, two partitions: `AtLeastOnce` is violated, a suspended loop of the
  old session shifts a message of the new one (abstract_consumer.ts:252). With `Undelayed <- SecondIsTombstone`, no hazards: `AtLeastOnce` is violated, a
  tombstone overtakes a message that waits for its schema (abstract_consumer.ts:281). With two partitions, a buffer of one, no
  hazards: `AllHandled` is violated, the partition resumed need not be the one paused (abstract_consumer.ts:157).
  `ConsumerOrder` with `StartOffset <- FromTwo`: `CommitsInOrder` is violated, every message before the start offset that comes while the first seek is under way asks
  for one more, and what was committed is delivered and committed again (abstract_consumer.ts:174); nothing is lost.
* `ProducerSkips`, the run that is expected to be violated (block_producer.ts:387).
* `MCKafkaConsumer`, `LogEnd` 2, one partition, `HandlerErrors <- AllErrors`, no hazards: `ClearedOnFailure` is violated. abstract_consumer.ts:225 says that the queue is cleared
  after the retries; onError clears it for a fatal error only, so that a non-fatal one leaves queue, guard and connection as they are, for good
  (abstract_consumer.ts:257-262). `AllHandled` excepts this state (`GivenUp`) and nothing else.
* `MCBlockProducer` with `Overlap = 1`, `Hazards = {"report"}`, one fault: `RecordedIsAccepted` is violated. One report with an error makes a block the checkpoint that Kafka
  refused (asynchronous_producer.ts:40, block_producer.ts:98-127), against asynchronous_producer.ts:33 and the name of the test at
  tests/kafka/producer/asynchronous_producer.test.ts:104, "onDeliveryReport error, delivered event must not be emitted", which passes no report.
* `MCKafkaProducer` with `OnlySync`: `FailureIsThrown` is violated. What the executor throws (synchronous_producer.ts:114) is a rejection that nobody handles, and
  the process ends, where line 40 has the method throw the error. `AllSettled` excepts the end of the process.
* `MCPipeline` with `Matics` (one fault), `MaxForks = 0`: `ResumesWithoutLoss` is violated (README.md:821 of the repository: a consumer resumes, "avoiding any data loss"). The
  queue is cleared over an error while processQueue awaits a handler; when that ends, `shift` drops a message that came since
  (abstract_consumer.ts:252), and a later commit covers it.
* `MCPipeline` with `Balancers` (two blocks, no faults): `OwnersOfChain` is violated. A token moved only on the branch left behind keeps its owner there (token_methods.ts:18), against
  consumer.ts:17 of the example.
* `MCKafkaProducer`: what an owner produces right as start() returns overtakes what was called after start() and waits for the same connection
  (abstract_producer.ts:204 awaits one promise more than line 156). synchronous_producer.ts:13 promises order only for
  events produced one at a time; `TakenInOrder` excepts exactly these pairs, and without `overtook` TLC finds one.
* `MCBlockProducer` with `Overlap = 1`, `Hazards = {"subscription"}`, reorganisations two deep, one fault: `StartsWhereTopicAgrees` is violated, a
  write of the old session deletes the document between the two reads of getStartBlock (block_producer.ts:325), which resumes behind a replaced block.
* `MCBlockPolling` with `WorkerFails`: `AllGiven` is violated, the subscription started over a full queue waits for good; with
  `FirstFails`: `IsStream` is violated, the requests behind the failed one are emitted by the next subscription.
* `MCBlockSubscription` with `Outage`: `NoFalseReorg` is violated, a backfill does not set `lastEmittedBlock`; with `Margin = 0` besides,
  `IsStream` is violated: a block is replaced while the node is silent, the timer subscribes again behind it, and the backfill, which
  compares nothing, gives the next number of the new branch.

Deadlock is not checked in the runs of servers, all but `MCQueue` and `BlockGetter`: a producer has nothing
to do when the chain (bounded by `LastNumber`) ends; a consumer that has read its log, or
has closed without anybody to restart it, has nothing to do.

Fairness (`Fairness`): the event loop runs every callback that is due, promises
of handlers settle, the client delivers, closes and seeks, a supervisor restarts
a process that closed. No fault is ever bound to happen, and their number in a behaviour
is bounded by `MaxFaults`: with handlers that fail for ever nothing is handled.

Fairness of the block producer: MongoDB, the node and the broker answer, the client reports,
the process manager starts a process that exited. The chain need not grow, and nothing obliges
the application to start again what it stopped.

Fairness of the others. `Subscription`: promises of workers settle (unless nobody answers), timers fire, the owner restarts, the chain
grows to its bound; `SF` of `Data` because an event under way, which takes milliseconds, comes before the timeout of a minute
restarts the subscription. `Polling`: RPCs are answered, timers end, the owner restarts. `BlockGetter`: every call is
answered or a timer rejects it: those of the code (30 s, 45 s, rpcTimeout), for eth.getBlock in `BlockGetter` the
`timeout: 45000` of the provider (block_getter_worker.ts:25). `KafkaProducer`: librdkafka calls back, timers end, microtasks run. `Pipeline`:
messages arrive, what is awaited resolves (`elementResolves`), a client told to disconnect does (`Disconnected`), and whoever died is started again. Handlers that
nobody awaits (`strayResolves`) need not end.

## The proofs

* `QueueTypeOK`, `QueueKeepsWindow`, `QueueIsFifo`: for every set of items and every
  `MaxTail`. The window is inductive together with the types and is what makes the
  refinement step by step.
* `ConsumerTypeOK`: for all constants.
* `ConsumerLosesNothing`, `ConsumerAtLeastOnce`, `ConsumerDelivers`: for all partitions,
  log lengths, start offsets, buffer lengths, retries and hazards, for synchronous and
  asynchronous consumers, under `SafeEnvironment`, whose three conditions are exactly what the
  divergences above and the hazard of a client that drains after a fatal error show to be needed:
  a closed consumer is replaced with its process, a client told to disconnect over a
  fatal error serves no longer, and no undelayed message overtakes a delayed one.

  `AtLeastOnce` alone is not inductive: a commit is justified by what lies ahead of the
  message. `NothingIsLost` adds that every delivered message is covered, buffered or
  with the coder (`NoneDropped`), in the order of its offsets (`BufferInOrder`,
  `PendingInOrder`, `PendingFiled`), that processQueue awaits the front (`AwaitsFront`), that a
  resolved promise stands for a handled message (`OkIsHandled`), and that a process
  before start() is empty. All of it is needed only while the consumer is `Serving`: after
  a fatal error, or once processQueue has returned with its guard set, nothing is
  committed any more. The lemmas go action by action; `StepDelivers` maps every step
  to a step of `Delivery` or a stutter, and `AtLeastOnce` follows from that.

* `ConsumerHandlesInOrder`: for all constants, under `OrderedEnvironment`: a synchronous consumer in a safe environment whose client
  closes for nothing but an error of a handler. With `NothingIsLost`, what is left to show is
  that only the front of the buffer is handled (`Quiet`): once the client closes, nothing is awaited any more. Each of the four hazards excluded
  (`clientFatal`, `coder`, `commitFatal`, `stop`) drops or cuts off the buffer while the loop goes on; TLC finds a gap for
  each when it is added to `ConsumerOrder`.
* `ConsumerPausesAtLimit`: for both classes, all hazards and limits, under `OnePartitionEach`: one partition, and a new process for a consumer that closed.
  With two partitions the one flag `consumerPaused` stands for both, and an object started again keeps it: TLC finds either.

* `ConsumerCommitsInOrder`: for both classes and all hazards, in safe environments without start offsets (`FromTheFirst`). What is in the buffer and with the coder
  climbs from the committed offset to the position of the client (`Climbing`), so that a commit, which takes the front, leaves everything
  else behind it. With a start offset the condition fails: every message before it asks for a seek of its own, the second seek delivers
  what the first has delivered, and the commits go back; TLC shows it when `ConsumerOrder` is given a start offset of 2.

* `GetterTypeOK`, `GetterOwnBlock`, `GetterComplete`: for every set of getters, number of retries and every family of branches whose
  blocks name no transaction twice (`GetterAssumption`: the hash of a transaction is unique). The properties speak of a block that is given; the invariant `IInv` follows it through
  the attempt: what was fetched by number or by hash are receipts as a node sends them (`ReceiptsSent`), of the branch of the block
  or the node has strayed (`OwnSoFar`, for which the node must still be on that branch if it has not, `NotStrayed`), and what was
  formatted so far is the front of the block (`CompleteSoFar`).

* `KafkaProducerTypeOK`, `KafkaProducerConfirms`, `KafkaProducerConnected`, `KafkaProducerOrder`: for every set of messages, both
  classes, any number of faults and stops, with owners that produce within their error listener. A confirmation rests on the reports (`ReportsTrue`). The
  order rests on the connection: at most one attempt is open, whoever starts awaits it, and nothing ends the connection while those that found it go on
  (`OneAttempt`). `InOrder` is a statement about pairs: from the topic over the buffer and the messages being serialised to the calls that wait
  for the connection, what is further on may come before what is further back: it was called before, or the pair is in `overtook`. `CalledOnce` ties the
  steps of calls to their places.

* `BlockPollingTypeOK`, `BlockPollingInOrder`, `BlockPollingIsStream`: for any number of workers, any limit of the queue, any chain with
  any reorganisations and faults; the last under `ParentsKnown`, which excludes the two known
  divergences: a failure of the first block of an `ErigonBlockPoller`, and reorganisations under a `BlockPoller`. That blocks follow their parents rests on
  `saved`: it is the hash of a block given, so a block that processQueue compares has its parent given. A block it cannot
  compare is the first that the subscription asked for, or its answer (`AnchoredRequest`), and the owner asked for the block after one it
  has; nothing is in the queue from before, because what clears `saved` clears the queue (`Known`).
  A BlockPoller fetches by number: its current poll stands where the last block was given (`AtOut`).

* `SubscriptionTypeOK`, `SubscriptionQueueBounded`: for any number of workers, any limit of the queue, any chains and any
  faults, late events included. A worker that finds the queue at its limit waits, and only one that does not wait, or finds
  the queue shorter, adds to it: so the requests above the limit are fewer than the workers that wait (`GrownBound`; `FirstWaiting` for the
  first requests of a backfill). Nobody else adds to the queue, because the log
  subscription is off from the end of unsubscribe until the backfill has ended (`Bounded`).
* `SubscriptionNoGap`: for any number of workers, any limits, any chain, reorganisations of any depth and any failures, under `Punctual`: no event
  arrives while the log subscription is being closed, and no loop goes on for a subscription that was closed. Where that may happen (hazard `late`) the run
  checks `NoGap` with reorganisations one block deep; TLC finds a gap with a depth of two, or when a backfill follows.
  `NoGap` compares a number with a history variable and is far from inductive. The invariant follows the number
  of the block given next through the queue: at most the number after `m` (`Within(m)`), at least `m` (`Above(m)`),
  wherever it is kept: in the loop, at the front of the queue, in `lastReceived`, in `nextBlock`, in the call under way. That
  the queue asks for numbers without a gap up to `lastReceived`, and a backfill for those behind `nextBlock`, is `Calm`; that an answer has the number asked for is
  `Numbered`. A block that was fetched and left the chain does not come back (`Known`), so that the owner, who starts behind the last block it was given that
  is on the chain, starts no later than the number due (`StartFacts`). Every step leaves that number, gives the block or starts (`NextMoves`), and
  `GapFree`, which is `Within(out)`, is kept by each.
* `SubscriptionNoFalseReorg`: in the same generality, as long as no backfill runs after live blocks were given (`NoBackfillAfterLive`): the scenario `Outage` shows that this
  is needed. The block compared has at most the number after the block emitted last (`Emitted`), so that it is its child
  if it is on its branch; the block emitted last is the highest given that is on the chain, because nothing that is given next is
  below a block that was given and is on the chain (`Low`).
* `SubscriptionIsStream`: `BlockSubscription` implements `BlockStream`, for any number of workers, any limits, any length of the chain and any number of
  reorganisations and failures, under three conditions. `Punctual`, as above; TLC finds a block given before its parent if events may be late and a
  backfill follows. `Shallow`: a reorganisation replaces one block, and none that the node called final; with two blocks TLC finds a
  violation, because the comparison of `processQueue` sees one block. `FillsKnown`: a backfill begins behind a block that was given, or at the first
  block wanted. TLC finds this to be so in the scenarios `History` and `Live` of the run; a replaced block and a timer that fires late enough break it (the
  divergence of `Outage` above). The invariant `Complete` says of every block given, and of every block fetched, that its parent
  stays on the chain for good (`Seen`), and of the blocks given that all numbers before theirs are final and given (`Full`). A block is on
  the chain when it is fetched, and a reorganisation reaches no further than the last block; so `Seen` is kept. What `processQueue` gives next then has its parent given: by the
  comparison; or because no block was emitted and no number is left out, by `GapFree` (`Compared`); or because its number is not above that
  of the block emitted last. A backfill has the numbers before `nextBlock` given, all its blocks are final, and it gives them in order (`Filled`).

* `PipelineTypeOK`, `PipelineDropsNothing`: for all classes, contents of blocks, chains and faults, with a consumer object that is closed and started again any number
  of times. The queue of the transformer's consumer holds blocks that follow one another (`QueueInv`); unless something was skipped they lie right behind
  the offset committed last, and the element that a loop of an old session awaits is that offset or the next one (`OrderInv`). What is done in the queue
  was produced (`Produced`), and so is what the old loop commits, so that a commit adds nothing that was not.
* `PipelineDatabaseInStep`: likewise for all classes, chains, depths of reorganisations and faults; of the five cases of `harm` none may
  have happened. `DatabaseInStep` speaks of the end, when all was handled. The invariant `StepInv` speaks of what is left to handle: a block
  behind the service's offset or not yet produced for good (`IsLeft`; a redelivered block is left once more). Up to every number below
  which nothing is left, the collection holds the chain's transfers, each once (`DbInv`). A save of block `b` breaks nothing below
  `b`'s number and removes or finds absent what is at or above it (`AddInv`, for which `save` must compare with `>=`). When its last transfer
  is added, `b` is no longer left; that the numbers from `b`'s on are then right is the core of the argument: behind one place of
  `b` in the first topic, everything that came after is left to the service behind its offset (`Follow`, which needs that a
  handler is `done` only behind done ones, `DonePrefix`, and that a handler which outlived its session does not end behind later ones), and as long as nothing of that is up
  to number n, the chain and `b`'s branch agree up to n (`ChainInv`). For the service that keeps owners the same is said token by token: while no block is left that
  moves the token (`LeftMoves`), its document is the one of the newest block that does (`OwnersHeld`), and within a block the last of its
  transfers added so far (`LastOf`).

* `ProducerTypeOK`: for all constants.
* `ProducerSkipsNothing`: for every start block, depth of reorganisations, number of tries,
  length of the chain and number of faults, under `SafeProducer`: blocks are produced one by one,
  or produceEvent does not fail. The run `ProducerSkips` shows that the condition is needed. The numbers that only a failing report
  stands for (`refused`) are excepted.
* `ProducerRecordsAccepted`: under the same condition, and where no report bears an error (`"report" \notin Hazards`), Kafka accepted a block of every number up to
  any that is recorded. That this condition is needed as well is among the divergences above.

  `NothingSkipped` speaks of the topic and the collection and is not inductive: what is
  recorded tomorrow is on its way today. The invariant `IInv` follows a number
  from the subscription to the collection: a block in the buffer or being produced has the numbers before it in
  the topic or ahead of it (`BufferInOrder`, `ProducingInOrder`), so has the
  block the subscription emits next (`NextInOrder`); outside a session nothing is on its way
  (`Settled`); what is queued or being written was accepted (`RecordsCovered`), and so were the numbers
  before those getStartBlock has read (`StartCovered`), which holds although old
  writes may change the collection under it, because a topic forgets no number.
  The lemmas `...InOrder` keep the first half, the lemmas `...Recorded` the second, one per group
  of actions.

Only model-checked: `StartsWhereTopicAgrees` (it holds for reorganisations one block deep,
and for deeper ones without a restart inside the process; the argument needs the timing of
the writes) and the liveness properties `AllHandled`, `FollowsChain`,
`AllGiven`, `AllGivenOrFull`, `AllSettled` and `Settles` (liveness under fairness is out of the prover's reach).

## The plan

1. Done: `Queue`, `KafkaConsumer`, `BlockProducer` and their proofs; `BlockSubscription` and `BlockPolling` over `BlockStream`;
   `KafkaProducer` and `BlockGetter` with their proofs, the proof that `BlockPolling` implements `BlockStream`; `Pipeline` with its proofs.
2. Worth proving next: `StartsWhereTopicAgrees` of `BlockProducer`, for reorganisations one block deep.
3. Worth modelling next: an application that calls start() and stop() of `BlockProducer` while an error restarts it; several partitions
   between `KafkaProducer` and `BlockProducer`.

## Not modelled, and why

See `PROJECT.json` for every component. Of `BlockProducer`, an application that calls start() or stop() while the other runs, and
checkIfBlocksSynced, which changes nothing. Of the formatters, the fields that are copied and the logs of a receipt. Coders, bloom filter,
errors, the database, the RPC client and the logger are pure conversions or I/O without order or state of their own. Of the
examples, the APIs that query the collections and the decoding of transfers. A rebalance of
partitions between consumers of a group is librdkafka's; the code has no handler for it.
