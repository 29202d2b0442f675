---------------------------- MODULE BlockPolling ----------------------------
(***************************************************************************)
(* The subscriptions of internal/block_subscription that poll the node:    *)
(* BlockPoller, which fetches one block after the other, and               *)
(* ErigonBlockPoller, which lets workers fetch blocks ahead of the loop    *)
(* (processQueue) that emits them and compares their parents.              *)
(*                                                                         *)
(* unsubscribe only forgets the id of the poll: the loop of the poll goes  *)
(* on until it looks at the id again, and the queue of an                  *)
(* ErigonBlockPoller stays as it is, for the next subscription.            *)
(*                                                                         *)
(* Around it: the chain of the node, and the owner (BlockProducer), which  *)
(* stops the subscription at an error and starts it again at the block     *)
(* after the last one given that is on the chain.  Blocks are as in        *)
(* BlockSubscription; a label is the reorganisation that made the block.   *)
(***************************************************************************)
EXTENDS Integers, Sequences

CONSTANTS
    StartBlock,         \* the block the owner wants first
    Workers,            \* ErigonBlockPoller: how many workers it has
    Limit,              \* the length at which the queue is full (100 per worker)
    Scenarios,          \* the subscription, its hazards, and how many forks
    MaxFaults, LastNumber       \* bounds of the model: faults, the last block

\* getter: an RPC or a worker fails; first: a worker fails to get a block whose
\* parent is unknown; exit: a worker ends; owner: the owner has another error.
HazardKinds == {"getter", "first", "exit", "owner"}

ASSUME PollingAssumption ==
    /\ StartBlock \in Nat \ {0}
    /\ {Workers, Limit, MaxFaults, LastNumber} \subseteq Nat \ {0}
    /\ Scenarios \subseteq [kind : {"BlockPoller", "ErigonBlockPoller"},
                            hazards : SUBSET HazardKinds, forks : Nat]

VARIABLES
    head, forks, faults, scenario,      \* as in BlockSubscription
    polls,      \* the loops of startBlockPolling, each with its locals
    queue,      \* ErigonBlockPoller: requests to workers, with the answers
    loop,       \* ErigonBlockPoller: the request processQueue awaits, if it runs
    saved,      \* ErigonBlockPoller: lastSavedBlockHash
    fatalError, \* ErigonBlockPoller
    owner,      \* whether the subscription runs, or is to be started again
    given, out  \* history: the blocks given, the number of the last one

chain == <<head, forks, faults, scenario>>
work == <<queue, loop, saved, fatalError>>
hist == <<given, out>>
vars == <<chain, polls, work, owner, hist>>

NoBlock == << >>
Erigon == scenario.kind = "ErigonBlockPoller"

mayFail(h) == h \in scenario.hazards /\ faults < MaxFaults

-----------------------------------------------------------------------------
Ancestor(b, n) == SubSeq(b, 1, n)
BlockAt(n) == Ancestor(head, n)
Parent(b) == Ancestor(b, Len(b) - 1)

Mine ==
    /\ Len(head) < LastNumber
    /\ head' = Append(head, forks)
    /\ UNCHANGED <<forks, faults, scenario, polls, work, owner, hist>>

\* The first block of a subscription that knows no parent is the owner's:
\* a reorganisation just before it is what BlockProducer cannot see.
Reorganise ==
    /\ forks < scenario.forks
    /\ given = {} \/ saved # NoBlock
    /\ \E d \in 1..Len(head) :
        /\ Len(head) < LastNumber
        /\ head' = Ancestor(head, Len(head) - d) \o [i \in 1..(d + 1) |-> forks + 1]
    /\ forks' = forks + 1
    /\ UNCHANGED <<faults, scenario, polls, work, owner, hist>>

-----------------------------------------------------------------------------
(***************************************************************************)
(* The owner.                                                              *)
(***************************************************************************)
next(b) == given' = given \cup {b} /\ out' = Len(b)

Poll(current, step, last, latest) ==
    [current |-> current, step |-> step, last |-> last, latest |-> latest]

\* The subscription has no poll: what is under way belongs to none.
Forgotten(ps) == {Poll(FALSE, p.step, p.last, p.latest) : p \in ps}

\* The observer's error, with ps for the polls: the owner calls unsubscribe
\* at once, unless it is restarting.
error(ps) ==
    /\ owner' = "stopped"
    /\ polls' = Forgotten(ps)

OwnerStops ==
    /\ owner = "running"
    /\ mayFail("owner") /\ faults' = faults + 1
    /\ error(polls)
    /\ UNCHANGED <<head, forks, scenario, work, hist>>

\* Mutant of subscribe: fatalError is not reset.
subscribeFatal ==
    /\ owner = "stopped"
    /\ owner' = "running"
    /\ \E n \in StartBlock..(Len(head) + 1) :
        /\ n = StartBlock \/ BlockAt(n - 1) \in given
        /\ \A m \in n..Len(head) : BlockAt(m) \notin given
        /\ polls' = polls \cup {Poll(TRUE, "latest", n - 1, 0)}
        /\ out' = n - 1
    /\ UNCHANGED <<chain, work, given>>

\* subscribe, with the block after the last one given that is on the chain.
\* The queue and lastSavedBlockHash are left as they are.
subscribe ==
    /\ owner = "stopped"
    /\ owner' = "running"
    /\ \E n \in StartBlock..(Len(head) + 1) :
        /\ n = StartBlock \/ BlockAt(n - 1) \in given
        /\ \A m \in n..Len(head) : BlockAt(m) \notin given
        /\ polls' = polls \cup {Poll(TRUE, "latest", n - 1, 0)}
        /\ out' = n - 1
    /\ fatalError' = FALSE
    /\ UNCHANGED <<chain, queue, loop, saved, given>>

-----------------------------------------------------------------------------
(***************************************************************************)
(* startBlockPolling.                                                      *)
(***************************************************************************)
\* Poll p goes on from here, or ends when it finds that it is forgotten.
GoOn(p, step, last, latest) ==
    polls' = (polls \ {p}) \cup (IF p.current THEN {Poll(TRUE, step, last, latest)} ELSE {})

\* The RPC p awaits fails.
PollFails ==
    \E p \in polls :
        /\ p.step \in {"latest", "fetch"}
        /\ mayFail("getter") /\ faults' = faults + 1
        /\ error(polls \ {p})
        /\ UNCHANGED <<head, forks, scenario, work, hist>>

\* getLatestBlockNumber answers; with nothing new the poll pauses.
Latest ==
    \E p \in polls :
        /\ p.step = "latest"
        /\ GoOn(p, IF Len(head) <= p.last THEN "pause" ELSE IF Erigon THEN "room" ELSE "fetch",
                p.last, Len(head))
        /\ UNCHANGED <<chain, work, owner, hist>>

Paused ==
    \E p \in polls :
        /\ p.step = "pause"
        /\ GoOn(p, "latest", p.last, p.latest)
        /\ UNCHANGED <<chain, work, owner, hist>>

\* Mutant of Fetched: the block is emitted without a look at the id.
FetchedAnyway ==
    \E p \in polls :
        LET n == p.last + 1
        IN  /\ p.step = "fetch"
            /\ GoOn(p, IF n < p.latest THEN "fetch" ELSE "latest", n, p.latest)
            /\ next(BlockAt(n))
            /\ UNCHANGED <<chain, work, owner>>

\* BlockPoller: the block is there, and is emitted unless p is forgotten.
Fetched ==
    \E p \in polls :
        LET n == p.last + 1
        IN  /\ p.step = "fetch"
            /\ GoOn(p, IF n < p.latest THEN "fetch" ELSE "latest", n, p.latest)
            /\ IF p.current THEN next(BlockAt(n)) ELSE UNCHANGED hist
            /\ UNCHANGED <<chain, work, owner>>

-----------------------------------------------------------------------------
(***************************************************************************)
(* ErigonBlockPoller: its poll puts requests into the queue while there is *)
(* room, and processQueue emits the answers.                               *)
(***************************************************************************)
Request(n, state, block) == [n |-> n, state |-> state, block |-> block]

\* processQueue takes the next request of q; with none, it ends.
Take(q, fatal) ==
    IF q = << >> \/ fatal
    THEN loop' = << >> /\ queue' = q
    ELSE loop' = <<q[1]>> /\ queue' = Tail(q)

\* Mutant of Room: a full queue takes one more.
RoomOneMore == Limit - Len(queue) + (IF loop = << >> /\ ~fatalError THEN 2 ELSE 1)

\* How many requests fit, with the one processQueue takes when it starts.
Room == Limit - Len(queue) + (IF loop = << >> /\ ~fatalError THEN 1 ELSE 0)

Enqueue ==
    \E p \in polls :
        LET wanted == p.latest - p.last
            k == IF wanted < Room THEN wanted ELSE Room
            q == queue \o [i \in 1..k |-> Request(p.last + i, "pending", NoBlock)]
        IN  /\ p.step = "room" /\ Len(queue) < Limit
            /\ GoOn(p, IF k < wanted THEN "room" ELSE "latest", p.last + k, p.latest)
            /\ IF ~p.current THEN UNCHANGED <<queue, loop>>
               ELSE IF loop = << >> THEN Take(q, fatalError)
               ELSE queue' = q /\ UNCHANGED loop
            /\ UNCHANGED <<chain, saved, fatalError, owner, hist>>

\* A worker answers, with the faults this takes.  The failure of a block whose
\* parent is unknown leaves the blocks behind it in the queue, and the next
\* subscription emits them unchecked: a hazard of its own.
Answers(r) ==
    IF r.state # "pending" THEN {<<r, 0>>}
    ELSE {<<Request(r.n, "done", BlockAt(r.n)), 0>>} \cup
             (IF mayFail(IF saved = NoBlock THEN "first" ELSE "getter")
              THEN {<<Request(r.n, "failed", NoBlock), 1>>} ELSE {})

AnswerQueued ==
    \E i \in 1..Len(queue) : \E a \in Answers(queue[i]) :
        /\ queue[i].state = "pending"
        /\ queue' = [queue EXCEPT ![i] = a[1]]
        /\ faults' = faults + a[2]
        /\ UNCHANGED <<head, forks, scenario, polls, loop, saved, fatalError, owner, hist>>

\* A worker ends with an error, which fails every request it was given, and is
\* replaced: those to come are answered again.  Request n is of worker
\* n % Workers.  Without a request nobody listens to the error, which ends the
\* process: not modelled here.
Exited(w, rs) ==
    [i \in DOMAIN rs |-> IF rs[i].state = "pending" /\ rs[i].n % Workers = w
                         THEN Request(rs[i].n, "failed", NoBlock) ELSE rs[i]]

WorkerExits ==
    /\ Erigon
    /\ mayFail(IF saved = NoBlock THEN "first" ELSE "exit") /\ faults' = faults + 1
    /\ \E w \in 0..(Workers - 1) : queue' = Exited(w, queue) /\ loop' = Exited(w, loop)
    /\ <<queue, loop>>' # <<queue, loop>>
    /\ UNCHANGED <<head, forks, scenario, polls, saved, fatalError, owner, hist>>

isReOrged(b) == saved # NoBlock /\ saved # Parent(b)

ProcessBlock(b) ==
    /\ ~isReOrged(b)
    /\ saved' = b
    /\ next(b)
    /\ Take(queue, fatalError)
    /\ UNCHANGED <<fatalError, owner, polls>>

\* Mutant of ProcessReorg: the queue is not cleared.
ProcessReorgKeeps(b) ==
    /\ isReOrged(b)
    /\ saved' = NoBlock
    /\ loop' = << >> /\ fatalError' = TRUE
    /\ error(polls)
    /\ UNCHANGED <<queue, hist>>

ProcessReorg(b) ==
    /\ isReOrged(b)
    /\ saved' = NoBlock
    /\ queue' = << >> /\ loop' = << >> /\ fatalError' = TRUE
    /\ error(polls)
    /\ UNCHANGED hist

ProcessError ==
    /\ loop' = << >> /\ fatalError' = TRUE
    /\ error(polls)
    /\ UNCHANGED <<queue, saved, hist>>

processQueue ==
    /\ loop # << >>
    /\ \E a \in Answers(loop[1]) :
        /\ faults' = faults + a[2]
        /\ IF a[1].state = "done" THEN ProcessBlock(a[1].block) \/ ProcessReorg(a[1].block)
           ELSE ProcessError
    /\ UNCHANGED <<head, forks, scenario>>

-----------------------------------------------------------------------------
Init ==
    /\ scenario \in Scenarios
    /\ head = [i \in 1..StartBlock |-> 0]
    /\ forks = 0 /\ faults = 0
    /\ polls = {}
    /\ queue = << >> /\ loop = << >> /\ saved = NoBlock /\ fatalError = FALSE
    /\ owner = "stopped"
    /\ given = {} /\ out = StartBlock - 1

Next ==
    \/ Mine \/ Reorganise
    \/ OwnerStops \/ subscribe
    \/ PollFails \/ Latest \/ Paused \/ Fetched
    \/ Enqueue \/ AnswerQueued \/ WorkerExits \/ processQueue

Spec == Init /\ [][Next]_vars

\* RPCs are answered, timers end, and the owner starts it again.
Fairness ==
    /\ WF_vars(Mine) /\ WF_vars(subscribe)
    /\ WF_vars(Latest) /\ WF_vars(Paused) /\ WF_vars(Fetched)
    /\ WF_vars(Enqueue) /\ WF_vars(AnswerQueued) /\ WF_vars(processQueue)
FairSpec == Spec /\ Fairness

-----------------------------------------------------------------------------
\* The types; and at most one poll is the current one, and only while the
\* owner wants it; an ErigonBlockPoller holds no more requests than Limit,
\* although forgotten polls wait for room together with the current one.
TypeOK ==
    /\ \A p \in polls : p.last \in Nat /\ p.latest \in Nat
    /\ \A p, q \in polls : p.current /\ q.current => p = q /\ owner = "running"
    /\ Len(queue) <= Limit /\ Len(loop) <= 1

\* A block is given only after its parent, over forks, errors, restarts and
\* what stale loops still emit: processQueue compares the parent of each block
\* with lastSavedBlockHash, which outlives the subscription.
Stream == INSTANCE BlockStream
IsStream == Stream!Spec

\* BlockPoller: between two restarts the blocks come one by one in order, and
\* none comes from a loop that was forgotten while it awaited a block.
InOrder == [][Erigon \/ out' = out \/ out' = out + 1 \/ owner' # owner]_vars

\* The chain that the node ends with is given.
AllGiven == <>[](\A n \in StartBlock..Len(head) : BlockAt(n) \in given)

\* ... unless an ErigonBlockPoller was restarted with a full queue: the poll
\* waits for room, and only the poll starts processQueue.  Nothing else stops
\* the stream for good.
AllGivenOrFull ==
    <>[](\/ \A n \in StartBlock..Len(head) : BlockAt(n) \in given
         \/ Erigon /\ Len(queue) = Limit /\ loop = << >>)
=============================================================================
