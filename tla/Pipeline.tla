------------------------------ MODULE Pipeline ------------------------------
(***************************************************************************)
(* The layers behind the block producer, end to end: a transformer         *)
(* (internal/data_transformation) reads the topic of blocks and produces   *)
(* to a second topic what a service needs of each; the service             *)
(* (internal/event_consumer or consume, and the services of examples/)     *)
(* keeps a collection of a database in step with that topic.               *)
(*                                                                         *)
(* A service learns of a reorganisation only because a block number comes  *)
(* again: it deletes what it has from that number on, or keeps what the    *)
(* latest block says.  What may defeat that, or make the transformer lose  *)
(* a block, is kept in the history variable harm, and the properties say   *)
(* that nothing else does.                                                 *)
(*                                                                         *)
(* The transformer's consumer is the one of KafkaConsumer, with one        *)
(* partition and commits that arrive: its processQueue, and the handlers   *)
(* it has started, go on when the queue is cleared under them, over a      *)
(* restart of the same object, too.  The producer is asynchronous.         *)
(***************************************************************************)
EXTENDS Integers, SequencesExt

CONSTANTS
    Scenarios,          \* classes of the transformer and the service, and the blocks
    Tokens,             \* what is transferred
    QueueLimit,         \* maxBufferLength of the transformer's consumer
    MaxForks            \* bound of the model: reorganisations

\* The transformer's class, how the service consumes, and what it keeps; what
\* a block may transfer: tokens, in their order; and bounds of the model.
ASSUME PipelineAssumption ==
    /\ Scenarios \subseteq [transformer : {"synchronous", "asynchronous"},
                            consumer : {"consume", "execute"},
                            service : {"matic_transfer", "nft_balancer"},
                            contents : SUBSET Seq(Tokens),
                            maxFaults : Nat, maxBlocks : Nat]
    /\ {QueueLimit, MaxForks} \subseteq Nat
    \* Of one, a flag left from the last session would keep it from pausing.
    /\ QueueLimit > 1

VARIABLES
    scenario, faults, harm,
    head, forks, raw,       \* the chain, and the topic of blocks
    queue, position, committed,     \* the transformer's consumer
    element,    \* what processQueue awaits though it left the queue, or 0
    stuck,      \* processQueue gave up, and queueIsProcessing is still set
    strays,     \* a bag: what other handlers are at that left the queue
    state,      \* of the transformer: running; draining, as its consumer was
                \* told to stop; stopping, its producer; or fatal
    buffer, out,    \* its producer's client, and the topic it writes
    step, row,  \* of save: where it stands, the transfer it adds next
    offset, resume,     \* of the service: the message it handles, its commit
    db          \* the collection: a bag of documents

bounds == <<scenario, faults, harm>>
chain == <<head, forks, raw>>
consumer == <<queue, position, committed, element, stuck, strays>>
transformer == <<consumer, state, buffer>>
service == <<step, row, offset, resume, db>>
vars == <<bounds, chain, transformer, out, service>>

Fault == faults < scenario.maxFaults /\ faults' = faults + 1

-----------------------------------------------------------------------------
(***************************************************************************)
(* A block is the branch that leads to it, each label the fork that made   *)
(* it and the tokens that it transfers.                                    *)
(***************************************************************************)
Label(f, c) == [fork |-> f, tokens |-> c]
Ancestor(b, n) == SubSeq(b, 1, n)

\* transform and the mappers: the transfers of a block.
map(b) == [i \in 1..Len(Last(b).tokens) |->
              [blockNumber |-> Len(b), fork |-> Last(b).fork, index |-> i, token |-> Last(b).tokens[i]]]

\* The transfers of a block and all its ancestors.
Branch(b) == UNION {ToSet(map(Ancestor(b, n))) : n \in 1..Len(b)}

Produce(b) == head' = b /\ raw' = Append(raw, b)

Mine ==
    /\ Len(raw) < scenario.maxBlocks
    /\ \E c \in scenario.contents : Produce(Append(head, Label(forks, c)))
    /\ UNCHANGED <<bounds, forks, transformer, out, service>>

\* The block producer goes on with the first block of another branch.  When
\* that has no transfers, the number does not come again.
Reorganise ==
    /\ Len(raw) < scenario.maxBlocks
    /\ forks < MaxForks /\ forks' = forks + 1
    /\ \E d \in 1..Len(head), c \in scenario.contents :
        /\ Produce(Append(Ancestor(head, Len(head) - d), Label(forks + 1, c)))
        /\ harm' = IF c = << >> THEN harm \cup {"empty"} ELSE harm
    /\ UNCHANGED <<scenario, faults, transformer, out, service>>

-----------------------------------------------------------------------------
(***************************************************************************)
(* The consumer of AbstractDataTransformer.                                *)
(***************************************************************************)
Accepts == state \in {"running", "draining"}

\* processQueue is free, or awaits the front of the queue.
AtFront == element = 0 /\ ~stuck

\* Mutant of Receive: the queue grows past its limit.
ReceiveMore ==
    /\ Accepts
    /\ position <= Len(raw) /\ Len(queue) <= QueueLimit
    /\ queue' = Append(queue, [at |-> position, state |-> "fresh"])
    /\ position' = position + 1
    /\ harm' = IF state = "draining" /\ queue = << >> /\ position > committed + 1
               THEN harm \cup {"skipped"} ELSE harm
    /\ UNCHANGED <<scenario, faults, chain, committed, element, stuck, strays, state, buffer, out,
                   service>>

\* The client delivers, also when it was told to disconnect as the queue was
\* cleared: what comes is behind what was dropped.
Receive ==
    /\ Accepts
    /\ position <= Len(raw) /\ Len(queue) < QueueLimit
    /\ queue' = Append(queue, [at |-> position, state |-> "fresh"])
    /\ position' = position + 1
    /\ harm' = IF state = "draining" /\ queue = << >> /\ position > committed + 1
               THEN harm \cup {"skipped"} ELSE harm
    /\ UNCHANGED <<scenario, faults, chain, committed, element, stuck, strays, state, buffer, out,
                   service>>

\* The entries whose onData may end now.  An AsynchronousConsumer has called
\* all of them, in order; one that failed is called again behind the others.
Running ==
    {k \in DOMAIN queue :
        /\ queue[k].state \in {"fresh", "retried"}
        /\ IF scenario.transformer = "synchronous" THEN k = 1 /\ AtFront
           ELSE \A j \in 1..(k - 1) : queue[j].state # "fresh"}

\* onData produces what transform returns, unless that is empty.
produceEvent(p) == buffer' = IF map(raw[p]) = << >> THEN buffer ELSE Append(buffer, raw[p])

\* One behind offset p is produced and does not come again.
Overtakes(p) ==
    p < committed \/ \E k \in DOMAIN queue : queue[k].at > p /\ queue[k].state = "done"

onData ==
    /\ Accepts
    /\ \E k \in Running :
        /\ queue' = [queue EXCEPT ![k].state = "done"]
        /\ produceEvent(queue[k].at)
        /\ harm' = IF \E j \in 1..(k - 1) : queue[j].state # "done"
                   THEN harm \cup {"overtaken"} ELSE harm
    /\ UNCHANGED <<scenario, faults, chain, position, committed, element, stuck, strays, state, out,
                   service>>

\* transform or produceEvent throws: the consumer calls onData again.
onDataFails ==
    /\ Accepts /\ Fault
    /\ \E k \in Running :
        /\ queue[k].state = "fresh"
        /\ queue' = [queue EXCEPT ![k].state = "retried"]
    /\ UNCHANGED <<scenario, harm, chain, position, committed, element, stuck, strays, state, buffer,
                   out, service>>

CommitDue == AtFront /\ queue # << >> /\ queue[1].state = "done"

Commit ==
    /\ Accepts /\ CommitDue
    /\ committed' = queue[1].at
    /\ queue' = Tail(queue)
    /\ UNCHANGED <<bounds, chain, position, element, stuck, strays, state, buffer, out, service>>

\* The offsets of the queue whose handlers run, but what processQueue awaits.
Handled ==
    IF scenario.transformer = "synchronous" THEN {}
    ELSE {queue[k].at : k \in {j \in DOMAIN queue :
              queue[j].state \in {"fresh", "retried"} /\ ~(AtFront /\ j = 1)}}

\* queue.clear()
clear ==
    /\ queue' = << >>
    /\ strays' = strays (+) SetToBag(Handled)

\* processQueue gives up on what it awaits, and returns with queueIsProcessing
\* set.  Only a fatal error clears the queue and disconnects the consumer.
GiveUp ==
    /\ element' = 0 /\ stuck' = TRUE
    /\ \/ /\ queue' = IF AtFront THEN [queue EXCEPT ![1].state = "failed"] ELSE queue
          /\ UNCHANGED <<strays, state>>
       \/ /\ clear
          /\ state' = IF Accepts THEN "draining" ELSE state

GivesUp ==
    /\ Accepts /\ Fault
    /\ AtFront /\ 1 \in Running
    /\ GiveUp
    /\ UNCHANGED <<scenario, harm, chain, position, committed, buffer, out, service>>

\* A fatal error of the client or the coder; the queue is cleared under
\* processQueue, which goes on.
onError ==
    /\ state = "running" /\ Fault /\ ~CommitDue
    /\ state' = "draining"
    /\ clear
    /\ element' = IF AtFront /\ queue # << >> THEN queue[1].at ELSE element
    /\ UNCHANGED <<scenario, harm, chain, position, committed, stuck, buffer, out, service>>

(***************************************************************************)
(* What processQueue awaits was dropped, and ends.  The loop commits it    *)
(* and shifts whatever is at the front by then.  On a client that is not   *)
(* connected the commit throws, and so may the resume of a full buffer.    *)
(***************************************************************************)
Shifted ==
    IF queue = << >> \/ scenario.transformer = "synchronous" \/ queue[1].state = "done" THEN {}
    ELSE {queue[1].at}

elementResolves ==
    /\ element # 0 /\ element' = 0
    /\ produceEvent(element)
    /\ \/ /\ Accepts
          /\ committed' = element
          /\ queue' = IF queue = << >> THEN queue ELSE Tail(queue)
          /\ strays' = strays (+) SetToBag(Shifted)
          /\ harm' = harm \cup (IF Overtakes(element) THEN {"overtaken"} ELSE {})
                          \cup (IF queue # << >> /\ queue[1].at # element THEN {"skipped"} ELSE {})
          /\ UNCHANGED stuck
       \/ /\ ~Accepts
          /\ stuck' \in BOOLEAN
          /\ harm' = IF Overtakes(element) THEN harm \cup {"overtaken"} ELSE harm
          /\ UNCHANGED <<queue, committed, strays>>
    /\ UNCHANGED <<scenario, faults, chain, position, state, out, service>>

\* It fails: processQueue goes on with what is at the front now, or gives up.
elementRejects ==
    /\ element # 0 /\ Fault
    /\ \/ GiveUp
       \/ element' = 0 /\ UNCHANGED <<queue, stuck, strays, state>>
    /\ UNCHANGED <<scenario, harm, chain, position, committed, buffer, out, service>>

\* Another handler whose entry was dropped ends: nobody looks at how.
strayResolves ==
    /\ \E p \in BagToSet(strays) :
        /\ strays' = strays (-) SetToBag({p})
        /\ produceEvent(p)
        /\ harm' = IF Overtakes(p) THEN harm \cup {"overtaken"} ELSE harm
    /\ UNCHANGED <<scenario, faults, chain, queue, position, committed, element, stuck, state, out,
                   service>>

-----------------------------------------------------------------------------
(***************************************************************************)
(* The producer's client, and the transformer.                             *)
(***************************************************************************)
\* The broker takes a message of the client.
Deliver ==
    /\ buffer # << >>
    /\ out' = Append(out, Head(buffer))
    /\ buffer' = Tail(buffer)
    /\ UNCHANGED <<bounds, chain, consumer, state, service>>

\* ... or does not: AsynchronousProducer ignores the report that says so.
DeliveryFails ==
    /\ buffer # << >> /\ Fault
    /\ buffer' = Tail(buffer)
    /\ harm' = harm \cup {"undelivered"}
    /\ UNCHANGED <<scenario, chain, consumer, state, out, service>>

\* The consumer is disconnected, and clears its queue once more.  The producer
\* stops; or the transformer is not to start again, or its producer fails to:
\* it gives up with "dataTransformer.fatalError".
closed ==
    /\ ~CommitDue
    /\ state' \in {"stopping", "fatal"}
    /\ clear
    /\ element' = IF AtFront /\ queue # << >> THEN queue[1].at ELSE element
    /\ UNCHANGED <<scenario, harm, chain, position, committed, stuck, buffer, out, service>>

\* Somebody stops the consumer, or its connection ends; or it was told to.
Disconnects == state = "running" /\ Fault /\ closed
Disconnected == state = "draining" /\ UNCHANGED faults /\ closed

\* Mutant of start: the consumer goes on where it stopped.
startOnward ==
    /\ state = "stopping" /\ buffer = << >>
    /\ state' = "running"
    /\ UNCHANGED position
    /\ UNCHANGED <<bounds, chain, queue, committed, element, stuck, strays, buffer, out, service>>

\* With everything sent the transformer starts the same consumer again.
start ==
    /\ state = "stopping" /\ buffer = << >>
    /\ state' = "running"
    /\ position' = committed + 1
    /\ UNCHANGED <<bounds, chain, queue, committed, element, stuck, strays, buffer, out, service>>

\* A new process: what the client of the old one held is committed and not in
\* the topic.
NewProcess ==
    /\ state' = "running"
    /\ queue' = << >> /\ buffer' = << >>
    /\ element' = 0 /\ stuck' = FALSE /\ strays' = EmptyBag
    /\ position' = committed + 1
    /\ harm' = IF buffer = << >> THEN harm ELSE harm \cup {"lost"}
    /\ UNCHANGED <<scenario, chain, committed, out, service>>

TransformerDies == Fault /\ NewProcess

\* Somebody starts the transformer that gave up; its client may by then have
\* sent what it held.
fatalError == state = "fatal" /\ NewProcess /\ UNCHANGED faults

-----------------------------------------------------------------------------
(***************************************************************************)
(* The service: next calls save for each message of out.                   *)
(***************************************************************************)
Matic == scenario.service = "matic_transfer"
block == out[offset]

\* TransferService asks for the latest block first, TransferTokenService adds.
First == IF Matic THEN "last" ELSE "add"

next ==
    /\ step = "idle" /\ offset <= Len(out)
    /\ step' = First /\ row' = 1
    /\ UNCHANGED <<bounds, chain, transformer, out, offset, resume, db>>

\* The newest transfer is one of the highest block: timestamps grow with it.
getLastTransferBlock == Max({0} \cup {t.blockNumber : t \in BagToSet(db)})

\* Mutant of save: the block saved last may come again.
saveAfter ==
    /\ step = "last"
    /\ step' = IF getLastTransferBlock > Len(block) THEN "delete" ELSE "add"
    /\ UNCHANGED <<bounds, chain, transformer, out, row, offset, resume, db>>

save ==
    /\ step = "last"
    /\ step' = IF getLastTransferBlock >= Len(block) THEN "delete" ELSE "add"
    /\ UNCHANGED <<bounds, chain, transformer, out, row, offset, resume, db>>

\* Mutant of deleteTxsForReorg: only the transfers of the block.
deleteTxsOfBlock ==
    /\ step = "delete" /\ step' = "add"
    /\ db' = RestrictDomain(db, LAMBDA t : t.blockNumber # Len(block))
    /\ UNCHANGED <<bounds, chain, transformer, out, row, offset, resume>>

deleteTxsForReorg ==
    /\ step = "delete" /\ step' = "add"
    /\ db' = RestrictDomain(db, LAMBDA t : t.blockNumber < Len(block))
    /\ UNCHANGED <<bounds, chain, transformer, out, row, offset, resume>>

\* The collection with transfer t; with t as what gave its token its owner.
addAllTransfers(t) == db (+) SetToBag({t})
updateTokens(t) == RestrictDomain(db, LAMBDA u : u.token # t.token) (+) SetToBag({t})

\* The transfers are added one at a time.
add ==
    /\ step = "add"
    /\ db' = IF Matic THEN addAllTransfers(map(block)[row]) ELSE updateTokens(map(block)[row])
    /\ IF row < Len(map(block))
       THEN row' = row + 1 /\ UNCHANGED <<step, offset>>
       ELSE step' = "idle" /\ offset' = offset + 1 /\ UNCHANGED row
    /\ UNCHANGED <<bounds, chain, transformer, out, resume>>

commit ==
    /\ resume < offset
    /\ resume' = offset
    /\ UNCHANGED <<bounds, chain, transformer, out, step, row, offset, db>>

\* An operation of the database fails.  consume calls next again; execute makes
\* the error fatal, and the consumer closes.
saveFails ==
    /\ step \in {"last", "delete", "add"} /\ Fault
    /\ step' = IF scenario.consumer = "consume" THEN First ELSE "closed"
    /\ row' = 1
    /\ UNCHANGED <<scenario, harm, chain, transformer, out, offset, resume, db>>

ServiceDies ==
    /\ step # "closed" /\ Fault
    /\ step' = "closed"
    /\ UNCHANGED <<scenario, harm, chain, transformer, out, row, offset, resume, db>>

\* Somebody starts the service again, behind the message committed last.
ServiceStarts ==
    /\ step = "closed" /\ step' = "idle"
    /\ offset' = resume
    /\ UNCHANGED <<bounds, chain, transformer, out, row, resume, db>>

-----------------------------------------------------------------------------
Init ==
    /\ scenario \in Scenarios
    /\ faults = 0 /\ harm = {}
    /\ head = << >> /\ forks = 0 /\ raw = << >>
    /\ queue = << >> /\ position = 1 /\ committed = 0
    /\ element = 0 /\ stuck = FALSE /\ strays = EmptyBag
    /\ state = "running" /\ buffer = << >> /\ out = << >>
    /\ step = "idle" /\ row = 1 /\ offset = 1 /\ resume = 1
    /\ db = EmptyBag

Next ==
    \/ Mine \/ Reorganise
    \/ Receive \/ onData \/ onDataFails \/ Commit \/ GivesUp
    \/ elementResolves \/ elementRejects \/ strayResolves \/ onError
    \/ Deliver \/ DeliveryFails
    \/ Disconnects \/ Disconnected \/ start \/ fatalError \/ TransformerDies
    \/ next \/ save \/ deleteTxsForReorg \/ add \/ commit
    \/ saveFails \/ ServiceDies \/ ServiceStarts

Spec == Init /\ [][Next]_vars

\* Messages arrive, promises settle, and who died is started again.
Fairness ==
    /\ WF_vars(Receive) /\ WF_vars(onData) /\ WF_vars(Commit) /\ WF_vars(elementResolves)
    /\ WF_vars(Deliver) /\ WF_vars(Disconnected) /\ WF_vars(start) /\ WF_vars(fatalError)
    /\ WF_vars(next) /\ WF_vars(save) /\ WF_vars(deleteTxsForReorg) /\ WF_vars(add)
    /\ WF_vars(ServiceStarts)
FairSpec == Spec /\ Fairness

-----------------------------------------------------------------------------
\* The types; the buffer of the transformer is bounded, what it awaits or has
\* lost hold of is in the topic, a save has a transfer to add.
TypeOK ==
    /\ harm \subseteq {"empty", "overtaken", "skipped", "undelivered", "lost"}
    /\ state \in {"running", "draining", "stopping", "fatal"}
    /\ committed <= Len(raw) /\ position <= Len(raw) + 1
    /\ element \in 0..Len(raw) /\ BagToSet(strays) \subseteq 1..Len(raw)
    /\ stuck \in BOOLEAN
    /\ 1 <= resume /\ resume <= offset /\ offset <= Len(out) + 1
    /\ Len(queue) <= QueueLimit
    /\ step \in {"idle", "last", "delete", "add", "closed"}
    /\ step = "add" => row \in 1..Len(map(block))

\* A token belongs to whom its last transfer in the newest block gave it that
\* transfers it, though the chain may have left that block behind.
Moves(b, x) == \E i \in DOMAIN map(b) : map(b)[i].token = x
LastMove(b, t) ==
    \E i \in DOMAIN map(b) :
        /\ t = map(b)[i]
        /\ \A k \in (i + 1)..Len(map(b)) : map(b)[k].token # t.token
Owners == UNION {{t \in ToSet(map(raw[j])) :
                      LastMove(raw[j], t) /\ \A k \in (j + 1)..Len(raw) : ~Moves(raw[k], t.token)} :
                 j \in DOMAIN raw}

\* What the collection should be: the chain's transfers, or the owners.
Table == SetToBag(IF Matic THEN Branch(head) ELSE Owners)

InStep == harm # {} \/ db = Table

\* All that was produced has been handled.
CaughtUp ==
    /\ committed = Len(raw) /\ buffer = << >>
    /\ offset = Len(out) + 1 /\ step = "idle"

\* When all that was produced has been handled, the collection holds the
\* transfers of the chain, each once, and none of a branch left behind, or
\* every token with the owner that the newest block gave it - over
\* reorganisations, saves that broke off half way, redeliveries, and handlers
\* that outlive the session they were called in.
DatabaseInStep == CaughtUp => InStep

\* A committed block is produced: whatever fails, and however the transformer
\* is closed and started again, it drops none.  Its process takes along what
\* the client held (lost), the broker may refuse a message and nobody hear of
\* it (undelivered), and processQueue may go past what was cleared under it
\* (skipped).
NothingDropped ==
    harm \cap {"lost", "undelivered", "skipped"} = {} => \A i \in 1..committed :
        map(raw[i]) # << >> => raw[i] \in ToSet(out) \cup ToSet(buffer)

\* What README.md:821 says of consumers that fail: they resume from where they
\* got stopped, and no data is lost.
ResumesWithoutLoss ==
    harm \cap {"lost", "undelivered"} = {} => \A i \in 1..committed :
        map(raw[i]) # << >> => raw[i] \in ToSet(out) \cup ToSet(buffer)

\* The order of the transfers in the chain.
NotBefore(t, u) ==
    \/ t.blockNumber > u.blockNumber
    \/ t.blockNumber = u.blockNumber /\ t.index >= u.index

\* What consumer.ts:17 of nft_balancer says of a reorganisation, that save
\* handles it: the owners are those of the chain.
OwnersOfChain ==
    CaughtUp /\ harm = {} /\ ~Matic =>
        db = SetToBag({t \in Branch(head) :
                           \A u \in Branch(head) : u.token = t.token => NotBefore(t, u)})

\* ... and the collection does come to that, unless the transformer is left
\* with a processQueue that gave up: after a fatal error in a handler the
\* consumer that is started again handles nothing, as it does, without being
\* closed, when the retries of any other are used up.
FollowsChain == <>[]InStep \/ <>[](stuck /\ state = "running")
=============================================================================
