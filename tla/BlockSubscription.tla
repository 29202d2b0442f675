-------------------------- MODULE BlockSubscription -------------------------
(***************************************************************************)
(* AbstractBlockSubscription and BlockSubscription of                      *)
(* internal/block_subscription: a subscription to the logs of a node,      *)
(* whose events name the blocks that workers then fetch; a backfill for    *)
(* blocks that are final; a timer that subscribes again when the node      *)
(* goes silent.  processQueue, the backfill, the event handlers and the    *)
(* calls of subscribe and unsubscribe interleave at their awaits.          *)
(*                                                                         *)
(* Around it: the node, whose chain grows and reorganises; the workers;    *)
(* the owner (BlockProducer), which stops and starts the subscription      *)
(* whenever it reports an error, from the block after the last one given   *)
(* that is on the chain.                                                   *)
(*                                                                         *)
(* A block is the branch that leads to it, a sequence of labels; a label   *)
(* says which reorganisation made the block and whether it holds logs.     *)
(* The sequence stands for the block's hash, its length for the number.    *)
(***************************************************************************)
EXTENDS Integers, Sequences, FiniteSets

CONSTANTS
    StartBlock,         \* the block the owner wants first
    Workers,            \* numbers of the workers, 0 .. rpcWsEndpoints.length - 1
    Margin,             \* how far from the final block live events begin (20)
    QueueLimit,         \* the queue's length at which workers wait (2500)
    Lag,                \* how far the final block is behind the head (blockDelay)
    ForkDepth,          \* how many blocks a reorganisation replaces at most
    Scenarios,          \* chains and hazards to begin with, see Init
    MaxForks, MaxFaults \* bounds of the model: reorganisations, faults

(***************************************************************************)
(* worker: a fetch fails; exit: a worker ends; stall: the node goes        *)
(* silent; feed: the log subscription reports an error; owner: the owner   *)
(* has one; node: an RPC of subscribe or unsubscribe fails; late: events   *)
(* arrive while the log subscription is being closed, and a loop goes on   *)
(* that awaits a block of a subscription that was closed.                  *)
(***************************************************************************)
HazardKinds == {"worker", "exit", "stall", "feed", "owner", "node", "late"}

ASSUME SubscriptionAssumption ==
    /\ StartBlock \in Nat \ {0}
    /\ IsFiniteSet(Workers) /\ Workers = 0..(Cardinality(Workers) - 1) /\ Workers # {}
    /\ {Margin, QueueLimit, Lag, ForkDepth, MaxForks, MaxFaults} \subseteq Nat
    /\ Scenarios \subseteq [first : Nat, last : Nat, hazards : SUBSET HazardKinds]

VARIABLES
    head,       \* the last block of the chain
    forks,      \* reorganisations so far
    faults,     \* faults so far
    scenario,   \* the element of Scenarios
    feed,       \* the log subscription and the events under way
    s,          \* the fields of the object
    queue,      \* the Queue it extends: requests to workers, with answers
    loop,       \* the request processQueue awaits, << >> when it does not run
    fills,      \* the backfill loops, each with the request it awaits
    waiting,    \* workers whose addWorkerJobToQueue waits for a shorter queue
    exits,      \* how often each worker has ended
    call,       \* the call of subscribe or unsubscribe under way, if any
    err,        \* what the observer's error was called with
    given,      \* history: the blocks observer.next was called with
    out         \* history: the highest number since the owner's last start

chain == <<head, forks, scenario>>
work == <<queue, loop, fills, waiting>>
hist == <<given, out>>
vars == <<chain, faults, feed, s, work, exits, call, err, hist>>

NoBlock == << >>

mayFail(h) == h \in scenario.hazards /\ faults < MaxFaults
Fault(h) == mayFail(h) /\ faults' = faults + 1

-----------------------------------------------------------------------------
(***************************************************************************)
(* The node: its chain, the events of the log subscription, its answers.   *)
(***************************************************************************)
Ancestor(b, n) == SubSeq(b, 1, n)
BlockAt(n) == Ancestor(head, n)
Parent(b) == Ancestor(b, Len(b) - 1)

\* The blocks of the branch h from number n on that hold logs: the sequence
\* (there is one) that has them in order.
LogsFrom(h, n) ==
    LET numbers == {m \in n..Len(h) : h[m].logs}
    IN  {[i \in DOMAIN f |-> Ancestor(h, f[i])] :
            f \in {g \in [1..Cardinality(numbers) -> numbers] :
                       \A i, j \in DOMAIN g : i < j => g[i] < g[j]}}

Off == [state |-> "off", logs |-> << >>]

Notify(h, n) ==
    IF feed.state = "on"
    THEN \E new \in LogsFrom(h, n) : feed' = [feed EXCEPT !.logs = @ \o new]
    ELSE UNCHANGED feed

\* The chain becomes the first n blocks followed by k new ones; the last
\* block of all holds logs.
Extend(n, k) ==
    \E holds \in [1..k -> BOOLEAN] :
        LET h == Ancestor(head, n) \o [i \in 1..k |-> [fork |-> forks', logs |-> holds[i]]]
        IN  /\ Len(h) <= scenario.last
            /\ Len(h) = scenario.last => holds[k]
            /\ head' = h
            /\ Notify(h, n + 1)

Mine ==
    /\ UNCHANGED forks
    /\ Extend(Len(head), 1)
    /\ UNCHANGED <<scenario, faults, s, work, exits, call, err, hist>>

Reorganise ==
    /\ forks < MaxForks
    /\ forks' = forks + 1
    /\ \E d \in 1..ForkDepth : d <= Len(head) /\ Extend(Len(head) - d, d + 1)
    /\ UNCHANGED <<scenario, faults, s, work, exits, call, err, hist>>

\* The connection stays open, and nothing comes any more.
Stall ==
    /\ feed.state = "on"
    /\ Fault("stall")
    /\ feed' = [state |-> "silent", logs |-> << >>]
    /\ UNCHANGED <<chain, s, work, exits, call, err, hist>>

-----------------------------------------------------------------------------
(***************************************************************************)
(* Workers.  Every worker is replaced by a new one when it ends; of that   *)
(* one nobody notices the end, and requests to it are never answered.      *)
(***************************************************************************)
\* getBlockFromWorker(n, w); job: called by addWorkerJobToQueue.
Request(n, w, job) ==
    [n |-> n, w |-> w, job |-> job, life |-> exits[w], state |-> "pending", block |-> NoBlock]

Answered(r) == [r EXCEPT !.state = "done", !.block = BlockAt(r.n)]
Failed(r) == [r EXCEPT !.state = "failed"]

\* The ways r may be settled, each with the faults it takes.
Answers(r) ==
    CASE r.state # "pending" -> {<<r, 0>>}
      [] r.state = "pending" /\ r.life < exits[r.w] -> {<<Failed(r), 0>>}
      [] r.state = "pending" /\ r.life = exits[r.w] /\ r.life < 2 ->
             {<<IF r.n <= Len(head) THEN Answered(r) ELSE Failed(r), 0>>}
                 \cup (IF mayFail("worker") THEN {<<Failed(r), 1>>} ELSE {})
      [] OTHER -> {}

WorkerExits ==
    \E w \in Workers :
        /\ exits[w] < 2
        /\ Fault("exit")
        /\ exits' = [exits EXCEPT ![w] = @ + 1]
        /\ UNCHANGED <<chain, feed, s, work, call, err, hist>>

(***************************************************************************)
(* addWorkerJobToQueue: a worker whose block is there is given the next    *)
(* number, unless it waits for a queue shorter than the limit.             *)
(***************************************************************************)
WantsMore(q) == s.backfilling /\ s.nextBlock + Len(q) < s.lastFinalizedBlock

\* Worker w puts its request into the queue q.
AddJob(q, n, w) == Append(q, Request(n, w, TRUE))

\* The queue, and the workers that wait, after w went on with q.
Grown(q, w) == IF WantsMore(q) THEN AddJob(q, s.nextBlock + Len(q) + 1, w) ELSE q
Throttled(q, w) ==
    IF WantsMore(q) /\ Len(q) + 1 >= QueueLimit THEN waiting \cup {w} ELSE waiting \ {w}

\* The answer to r makes its worker go on.
GoesOn(r) == r.state = "pending" /\ r.job /\ r.w \notin waiting

\* A request that is still in the queue is answered.
AnswerQueued ==
    \E i \in 1..Len(queue) : \E a \in Answers(queue[i]) :
        LET r == queue[i]
            q == [queue EXCEPT ![i] = a[1]]
        IN  /\ r.state = "pending"
            /\ queue' = IF GoesOn(r) THEN Grown(q, r.w) ELSE q
            /\ waiting' = IF GoesOn(r) THEN Throttled(q, r.w) ELSE waiting
            /\ faults' = faults + a[2]
            /\ UNCHANGED <<chain, feed, s, loop, fills, exits, call, err, hist>>

\* Mutant of Release: the length of the queue is not looked at.
ReleaseAtOnce ==
    \E w \in waiting :
        LET mine == {f.req : f \in {g \in fills : g.current}} \cup {queue[i] : i \in 1..Len(queue)}
            there == \A r \in mine : r.w = w => r.state # "pending"
        IN  /\ queue' = IF there THEN Grown(queue, w) ELSE queue
            /\ waiting' = IF there THEN Throttled(queue, w) ELSE waiting \ {w}
            /\ UNCHANGED <<chain, faults, feed, s, loop, fills, exits, call, err, hist>>

\* The queue is short again: worker w waits for its block, or goes on if
\* the block is there.
Release ==
    \E w \in waiting :
        LET mine == {f.req : f \in {g \in fills : g.current}} \cup {queue[i] : i \in 1..Len(queue)}
            there == \A r \in mine : r.w = w => r.state # "pending"
        IN  /\ Len(queue) < QueueLimit
            /\ queue' = IF there THEN Grown(queue, w) ELSE queue
            /\ waiting' = IF there THEN Throttled(queue, w) ELSE waiting \ {w}
            /\ UNCHANGED <<chain, faults, feed, s, loop, fills, exits, call, err, hist>>

-----------------------------------------------------------------------------
(***************************************************************************)
(* The observer.                                                           *)
(***************************************************************************)
next(b) == given' = given \cup {b} /\ out' = IF Len(b) > out THEN Len(b) ELSE out

\* A call of subscribe or unsubscribe: who made it, its await, the first block
\* it wants.
Call(by, step, start) == [by |-> by, step |-> step, start |-> start]

Restarting == call # << >> /\ call[1].by = "owner"

\* The part of unsubscribe before its await, with t for s.
Unsubscribe(by, t) ==
    /\ s' = [t EXCEPT !.backfilling = FALSE, !.timer = << >>]
    /\ queue' = << >>
    /\ waiting' = {}
    /\ call' = <<Call(by, "closing", 0)>>

\* BlockProducer stops the subscription at once, to start it again, unless
\* it is restarting; it waits for a call of the timer or the backfill.
error(kind, b, t) ==
    /\ err' = IF Restarting \/ err # << >> THEN err ELSE <<[kind |-> kind, block |-> b]>>
    /\ IF call = << >> THEN Unsubscribe("owner", t) ELSE s' = t /\ UNCHANGED <<queue, waiting, call>>

-----------------------------------------------------------------------------
(***************************************************************************)
(* processQueue.                                                           *)
(***************************************************************************)
\* The loop takes the next request of q, if there is one.
Take(q, fatal) ==
    IF q = << >> \/ fatal
    THEN loop' = << >> /\ queue' = q
    ELSE loop' = <<q[1]>> /\ queue' = Tail(q)

\* Mutant of isReOrgedMissed: parents are not compared.
noneMissed(b) == FALSE

isReOrgedMissed(b) ==
    s.lastEmitted # NoBlock /\ Len(b) > Len(s.lastEmitted) /\ Parent(b) # s.lastEmitted

\* Mutant of ProcessBlock: the block emitted last is set once.
ProcessBlockOnce(b) ==
    /\ ~isReOrgedMissed(b)
    /\ next(b)
    /\ s' = [s EXCEPT !.nextBlock = Len(b) + 1,
                     !.lastEmitted = IF @ = NoBlock THEN b ELSE @]
    /\ Take(queue, s.fatalError)
    /\ UNCHANGED <<waiting, call, err>>

ProcessBlock(b) ==
    /\ ~isReOrgedMissed(b)
    /\ next(b)
    /\ s' = [s EXCEPT !.nextBlock = Len(b) + 1, !.lastEmitted = b]
    /\ Take(queue, s.fatalError)
    /\ UNCHANGED <<waiting, call, err>>

ProcessReorg(b) ==
    /\ isReOrgedMissed(b)
    /\ error("reorg", b, [s EXCEPT !.nextBlock = Len(b) + 1, !.fatalError = TRUE])
    /\ loop' = << >>
    /\ UNCHANGED hist

ProcessError ==
    /\ error("other", NoBlock, [s EXCEPT !.fatalError = TRUE])
    /\ loop' = << >>
    /\ UNCHANGED hist

processQueue ==
    /\ loop # << >>
    /\ \E a \in Answers(loop[1]) :
        /\ faults' = faults + a[2]
        /\ IF a[1].state = "done" THEN ProcessBlock(a[1].block) \/ ProcessReorg(a[1].block)
           ELSE ProcessError
    /\ UNCHANGED <<chain, feed, fills, exits>>

-----------------------------------------------------------------------------
(***************************************************************************)
(* The events of the log subscription.                                     *)
(***************************************************************************)
\* Mutant of Requests: only the block of the event.
RequestsOne(n) == <<Request(n, 0, FALSE)>>

\* enqueueMissedBlocks, and the block of the event itself.
Requests(n) ==
    LET first == IF n > s.lastReceived THEN s.lastReceived + 1 ELSE n
    IN  [i \in 1..(n - first + 1) |-> Request(first + i - 1, 0, FALSE)]

Data ==
    /\ feed.logs # << >>
    /\ call = << >> \/ "late" \in scenario.hazards
    /\ feed' = [feed EXCEPT !.logs = Tail(@)]
    /\ LET b == feed.logs[1]
       IN  IF Len(b) < s.lastReceived \/ b = s.lastBlockHash
           THEN UNCHANGED <<s, queue, loop>>
           ELSE /\ s' = [s EXCEPT !.lastBlockHash = b, !.lastReceived = Len(b)]
                /\ IF loop = << >> THEN Take(queue \o Requests(Len(b)), s.fatalError)
                   ELSE queue' = queue \o Requests(Len(b)) /\ UNCHANGED loop
    /\ UNCHANGED <<chain, faults, fills, waiting, exits, call, err, hist>>

\* The log subscription reports an error, or the owner restarts because of
\* an error of Kafka.
OutsideError ==
    /\ call = << >>
    /\ \/ Fault("owner")
       \/ feed.state = "on" /\ Fault("feed")
    /\ error("other", NoBlock, s)
    /\ UNCHANGED <<chain, feed, loop, fills, exits, hist>>

-----------------------------------------------------------------------------
(***************************************************************************)
(* subscribe and unsubscribe.  A call closes the log subscription, reads   *)
(* the final block, then the latest until it reaches the first block       *)
(* wanted, and starts the backfill or the log subscription.                *)
(***************************************************************************)
OwnerRestarts ==
    /\ err # << >> /\ call = << >>
    /\ Unsubscribe("owner", s)
    /\ UNCHANGED <<chain, faults, feed, loop, fills, exits, err, hist>>

\* checkIfLive: no event since the timer was set.
checkIfLiveRestarts ==
    /\ s.timer = <<s.lastBlockHash>> /\ call = << >>
    /\ "late" \in scenario.hazards \/ loop = << >>
    /\ Unsubscribe("timer", s)
    /\ UNCHANGED <<chain, faults, feed, loop, fills, exits, err, hist>>

\* Mutant of checkIfLiveAgain: the timer is not set again.
checkIfLiveOnce ==
    /\ s.timer # << >> /\ s.timer # <<s.lastBlockHash>>
    /\ s' = [s EXCEPT !.timer = << >>]
    /\ UNCHANGED <<chain, faults, feed, work, exits, call, err, hist>>

checkIfLiveAgain ==
    /\ s.timer # << >> /\ s.timer # <<s.lastBlockHash>>
    /\ s' = [s EXCEPT !.timer = <<s.lastBlockHash>>]
    /\ UNCHANGED <<chain, faults, feed, work, exits, call, err, hist>>

InCall(step) == call # << >> /\ call[1].step = step

\* getStartBlock: the block after the last one given that is on the chain.
IsStart(n) ==
    /\ n \in StartBlock..(Len(head) + 1)
    /\ n = StartBlock \/ BlockAt(n - 1) \in given
    /\ \A m \in n..Len(head) : BlockAt(m) \notin given

Closed ==
    /\ InCall("closing")
    /\ "late" \in scenario.hazards \/ (loop = << >> /\ fills = {})
    /\ feed' = Off
    /\ \E n \in StartBlock..(scenario.last + 1) :
        /\ IF Restarting THEN IsStart(n) /\ out' = n - 1 /\ err' = << >>
           ELSE n = s.nextBlock /\ UNCHANGED <<out, err>>
        /\ call' = <<Call(call[1].by, "finalized", n)>>
    /\ UNCHANGED <<chain, faults, s, work, exits, given>>

\* Mutant of Reset: one block more is taken for missed.
ResetBefore ==
    /\ InCall("finalized")
    /\ LET n == call[1].start
       IN  s' = [s EXCEPT !.lastFinalizedBlock = Len(head) - Lag, !.fatalError = FALSE,
                          !.nextBlock = n, !.lastBlockHash = NoBlock, !.lastReceived = n - 2]
    /\ queue' = << >>
    /\ call' = <<Call(call[1].by, "latest", call[1].start)>>
    /\ UNCHANGED <<chain, faults, feed, loop, fills, waiting, exits, err, hist>>

\* subscribe, from the answer for the final block to its next await.
Reset ==
    /\ InCall("finalized")
    /\ LET n == call[1].start
       IN  s' = [s EXCEPT !.lastFinalizedBlock = Len(head) - Lag, !.fatalError = FALSE,
                          !.nextBlock = n, !.lastBlockHash = NoBlock, !.lastReceived = n - 1]
    /\ queue' = << >>
    /\ call' = <<Call(call[1].by, "latest", call[1].start)>>
    /\ UNCHANGED <<chain, faults, feed, loop, fills, waiting, exits, err, hist>>

FarBehind == s.lastFinalizedBlock - Margin > call[1].start

\* The rest, when the node has the first block wanted.
backFillBlocks ==
    /\ InCall("latest") /\ s.nextBlock <= Len(head) /\ FarBehind
    /\ call' = << >>
    /\ LET jobs == [i \in 1..Cardinality(Workers) |-> Request(s.nextBlock + i - 1, i - 1, TRUE)]
           all == queue \o jobs
       IN  /\ fills' = {[f EXCEPT !.current = FALSE] : f \in fills}
                           \cup {[current |-> TRUE, req |-> all[1]]}
           /\ queue' = Tail(all)
           /\ waiting' = {w \in Workers : Len(queue) + w + 1 >= QueueLimit}
    /\ s' = [s EXCEPT !.backfilling = TRUE]
    /\ UNCHANGED <<chain, faults, feed, loop, exits, err, hist>>

SubscribeToLogs ==
    /\ InCall("latest") /\ s.nextBlock <= Len(head) /\ ~FarBehind
    /\ call' = << >>
    /\ s' = [s EXCEPT !.timer = <<s.lastBlockHash>>]
    /\ \E old \in LogsFrom(head, s.nextBlock) : feed' = [state |-> "on", logs |-> old]
    /\ UNCHANGED <<chain, faults, work, exits, err, hist>>

\* An RPC of the call fails, which its caller reports; the call of the owner
\* itself makes start() reject, and the application ends.
CallFails ==
    /\ call # << >> /\ ~Restarting
    /\ Fault("node")
    /\ Unsubscribe("owner", IF call[1].by = "backfill" THEN [s EXCEPT !.fatalError = TRUE] ELSE s)
    /\ err' = IF err # << >> THEN err ELSE <<[kind |-> "other", block |-> NoBlock]>>
    /\ UNCHANGED <<chain, feed, loop, fills, exits, hist>>

-----------------------------------------------------------------------------
(***************************************************************************)
(* The loop of backFillBlocks.                                             *)
(***************************************************************************)
\* activeBackFillingId is the id of the backfill f, and nothing has failed.
Active(f) == f.current /\ s.backfilling /\ ~s.fatalError

FillBlock(f, b, q) ==
    /\ Active(f)
    /\ next(b)
    /\ IF s.nextBlock < s.lastFinalizedBlock /\ q # << >>
       THEN /\ s' = [s EXCEPT !.nextBlock = @ + 1]
            /\ fills' = (fills \ {f}) \cup {[f EXCEPT !.req = q[1]]}
            /\ queue' = Tail(q)
            /\ UNCHANGED call
       ELSE /\ s' = [s EXCEPT !.nextBlock = @ + 1, !.backfilling = FALSE]
            /\ fills' = fills \ {f}
            /\ queue' = q
            /\ call' = <<Call("backfill", "finalized", s.nextBlock + 1)>>
    /\ UNCHANGED err

FillAbandoned(f, q) ==
    /\ ~Active(f)
    /\ fills' = fills \ {f}
    /\ queue' = q
    /\ UNCHANGED <<s, call, err, hist>>

FillError(f) ==
    /\ error("other", NoBlock, [s EXCEPT !.backfilling = FALSE, !.fatalError = TRUE])
    /\ fills' = fills \ {f}
    /\ UNCHANGED hist

\* The answer makes the worker go on first, then the loop.
Fill ==
    \E f \in fills : \E a \in Answers(f.req) :
        LET more == GoesOn(f.req) /\ f.current
        IN  /\ faults' = faults + a[2]
            /\ IF a[1].state = "done"
               THEN LET q == IF more THEN Grown(queue, f.req.w) ELSE queue
                    IN  /\ FillBlock(f, a[1].block, q) \/ FillAbandoned(f, q)
                        /\ waiting' = IF more THEN Throttled(queue, f.req.w) ELSE waiting
               ELSE FillError(f)
            /\ UNCHANGED <<chain, feed, loop, exits>>

-----------------------------------------------------------------------------
Init ==
    /\ scenario \in Scenarios
    /\ head = [i \in 1..scenario.first |-> [fork |-> 0, logs |-> TRUE]]
    /\ forks = 0 /\ faults = 0
    /\ feed = Off
    /\ s = [lastFinalizedBlock |-> 0, nextBlock |-> 0, lastReceived |-> 0,
            lastBlockHash |-> NoBlock, lastEmitted |-> NoBlock,
            fatalError |-> FALSE, backfilling |-> FALSE, timer |-> << >>]
    /\ queue = << >> /\ loop = << >> /\ fills = {} /\ waiting = {}
    /\ exits = [w \in Workers |-> 0]
    /\ call = <<Call("owner", "finalized", StartBlock)>>
    /\ err = << >>
    /\ given = {} /\ out = StartBlock - 1

Chain == Mine \/ Reorganise \/ Stall \/ WorkerExits
Calls == OwnerRestarts \/ checkIfLiveRestarts \/ checkIfLiveAgain \/ Closed \/ Reset
             \/ backFillBlocks \/ SubscribeToLogs \/ CallFails
Next == Chain \/ AnswerQueued \/ Release \/ processQueue \/ Data \/ OutsideError \/ Calls \/ Fill

Spec == Init /\ [][Next]_vars

\* Promises settle, timers fire, and the owner restarts.  The timeout is
\* much longer than an event takes: one that is under way comes before it.
Fairness ==
    /\ WF_vars(AnswerQueued) /\ WF_vars(Release) /\ WF_vars(processQueue) /\ WF_vars(Fill)
    /\ WF_vars(OwnerRestarts) /\ WF_vars(checkIfLiveRestarts) /\ WF_vars(Closed)
    /\ WF_vars(Reset) /\ WF_vars(backFillBlocks) /\ WF_vars(SubscribeToLogs)
    /\ WF_vars(checkIfLiveAgain) /\ WF_vars(Mine) /\ SF_vars(Data)
FairSpec == Spec /\ Fairness

-----------------------------------------------------------------------------
\* The values the fields, requests and calls may have.
TypeOK ==
    /\ s.nextBlock \in Nat /\ s.lastReceived \in Nat /\ s.lastFinalizedBlock \in Int
    /\ \A r \in {queue[i] : i \in 1..Len(queue)} \cup {f.req : f \in fills} :
           r.n \in Nat /\ r.w \in Workers /\ r.state \in {"pending", "done", "failed"}
    /\ Len(loop) <= 1 /\ Len(call) <= 1 /\ Len(err) <= 1
    /\ waiting \subseteq Workers

\* addWorkerJobToQueue limits the queue of a backfill: however the workers
\* and the loop interleave, no worker adds more than one request to a queue
\* that has reached the limit.
QueueBounded == s.backfilling => Len(queue) < QueueLimit + Cardinality(Workers)

\* From the block the owner asked for, the numbers of the blocks given have
\* no gap: neither blocks without logs, nor answers out of order, nor the
\* arithmetic of the backfill, nor a subscription that is closed and opened
\* while processQueue awaits a block leaves one out.
NoGap == [][out' <= out + 1]_vars

\* b is on the branch of a.
Extends(b, a) == Len(a) <= Len(b) /\ Ancestor(b, Len(a)) = a

\* processQueue reports a reorganisation ("check if a re org has been missed
\* by the subscription") only for a block that is not on the branch of the
\* block emitted last.
NoFalseReorg ==
    [][\A e \in {err'[i] : i \in 1..Len(err')} :
           err = << >> /\ e.kind = "reorg" /\ "late" \notin scenario.hazards =>
               ~Extends(e.block, s.lastEmitted)]_vars

\* The subscription implements BlockStream: whatever reorganisation happens
\* between the fetches of two blocks, no block is given before its parent.
Stream == INSTANCE BlockStream
IsStream == Stream!Spec

\* Every block of the chain is given in the end, though the node goes
\* silent, workers fail and the subscription is closed and opened again.
AllGiven ==
    "late" \notin scenario.hazards =>
        <>[](\A n \in StartBlock..Len(head) : BlockAt(n) \in given)
=============================================================================
