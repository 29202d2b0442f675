---------------------------- MODULE KafkaConsumer ---------------------------
(***************************************************************************)
(* AbstractConsumer of internal/kafka/consumer with its two subclasses,    *)
(* SynchronousConsumer and AsynchronousConsumer, the topics it reads and   *)
(* the librdkafka client it extends.                                       *)
(*                                                                         *)
(* JavaScript runs to completion between two awaits, so that an action is  *)
(* what one callback or one continuation does until it awaits again.  Many *)
(* actions interleave nevertheless: the continuations of onData (one per   *)
(* message being deserialised), the one invocation of processQueue that    *)
(* passed its guard, the retried promises of an asynchronous consumer, the *)
(* callbacks of seek and disconnect, and the errors of the client.         *)
(***************************************************************************)
EXTENDS Integers, Sequences, FiniteSets

LOCAL INSTANCE SequencesExt

CONSTANTS
    Partitions,         \* the topic-partitions assigned to the consumer
    LogEnd,             \* each partition holds the offsets 0..LogEnd-1
    StartOffset,        \* config.startOffsets, 0 where none is given
    Undelayed,          \* the messages that do not wait for the coder
    Asynchronous,       \* TRUE for AsynchronousConsumer
    MaxBufferLength,    \* config.maxBufferLength
    MaxRetries,         \* config.maxRetries
    HandlerErrors,      \* how observer.next may reject
    Hazards,            \* what else may go wrong
    Restarts,           \* who restarts a consumer that closed
    Drains,             \* may the client still serve after disconnect()?
    MaxFaults,          \* bound of the model: faults in a behaviour
    None                \* no queue element

Messages == [part : Partitions, off : 0..(LogEnd - 1)]

(***************************************************************************)
(* The error observer.next rejects with: something that is no BaseError    *)
(* ("plain": retried, fatal once the retries are used up), or a BaseError  *)
(* that is fatal or not.                                                   *)
(***************************************************************************)
ErrorKinds == {"plain", "nonfatal", "fatal"}

(***************************************************************************)
(* commitLost: the broker never applies a commit the client accepted;      *)
(* commitError, commitFatal: the client refuses the commit maxRetries + 1  *)
(* times, with an error that is not fatal or that is; coder: deserialising *)
(* throws (CoderError is fatal); clientFatal: the client reports a fatal   *)
(* error; seek: a seek fails; stop: the owner calls stop(); crash: the     *)
(* process dies.                                                           *)
(***************************************************************************)
HazardKinds == {"commitLost", "commitError", "commitFatal", "coder",
                "clientFatal", "seek", "stop", "crash"}

ASSUME ConsumerAssumption ==
    /\ LogEnd \in Nat
    /\ StartOffset \in [Partitions -> Nat]
    /\ Undelayed \subseteq Messages
    /\ Asynchronous \in BOOLEAN
    /\ Drains \in BOOLEAN
    /\ MaxBufferLength \in Nat \ {0}
    /\ MaxRetries \in Nat
    /\ HandlerErrors \subseteq ErrorKinds
    /\ Hazards \subseteq HazardKinds
    /\ Restarts \subseteq {"process", "object"}
    /\ MaxFaults \in Nat

(***************************************************************************)
(* The promise of a queue element: none for a synchronous consumer; while  *)
(* the loop awaits it, its state is in "element" and the copy in the queue *)
(* reads "awaited".                                                        *)
(***************************************************************************)
PromiseStates == {"none", "running", "ok", "nonfatal", "fatal", "awaited"}

Elements == [msg : Messages, promise : PromiseStates, tries : 0..MaxRetries]

ASSUME NoneAssumption == None \notin Elements

VARIABLES
    \* --- the topics and the group's offsets, and what was done so far
    committed,          \* committed offset of each partition
    handled,            \* history: messages whose observer.next resolved
    faults,             \* how many faults have happened
    \* --- the librdkafka client
    conn,               \* down, up, draining or closing
    position,           \* next offset the client delivers
    pausedAt,           \* the partitions paused at the client
    seeks,              \* seek calls in flight
    \* --- the consumer object
    started,            \* has start() been called in this process?
    consumerPaused,     \* this.consumerPaused
    seekCalled,         \* this.seekCalled
    queue,              \* this.queue (see module Queue)
    decoding,           \* onData calls that await deserialize, per partition
    queueIsProcessing,  \* this.queueIsProcessing
    element,            \* what processQueue awaits, None if it is not running
    errorCount,         \* errorCount of that invocation, kept where it gave up
    orphans             \* running promises that left the queue

clientVars == <<conn, position, pausedAt, seeks>>
loopVars == <<queueIsProcessing, element, errorCount>>
pauseVars == <<consumerPaused, pausedAt>>
vars == <<committed, handled, faults, conn, position, pausedAt, seeks, started,
          consumerPaused, seekCalled, queue, decoding, queueIsProcessing,
          element, errorCount, orphans>>

-----------------------------------------------------------------------------
\* The client still takes calls and delivers messages.
Accepts == conn \in {"up", "draining"}

\* The status after stop(), which asks the client to disconnect.
Stopped == IF conn # "up" THEN conn
           ELSE IF Drains THEN "draining" ELSE "closing"

mayFail(h) == h \in Hazards /\ faults < MaxFaults

\* What enqueue(message) of the subclass returns: an asynchronous consumer
\* has called observer.next by then.
Enqueued(m) ==
    [msg |-> m, promise |-> IF Asynchronous THEN "running" ELSE "none", tries |-> 0]

\* The messages whose handler runs on when these elements are dropped.
Running(q) == {q[i].msg : i \in {j \in DOMAIN q : q[j].promise = "running"}}

\* queue.clear()
Clear(q) ==
    /\ queue' = << >>
    /\ orphans' = orphans \cup Running(q)

(***************************************************************************)
(* handleBackpressure(message), for a buffer of length n.                  *)
(***************************************************************************)
\* Mutant of MustPause: the buffer grows past its limit.
MustPauseLate(n) == ~consumerPaused /\ MaxBufferLength < n

MustPause(n) == ~consumerPaused /\ MaxBufferLength <= n
MustResume(n) == consumerPaused /\ n < MaxBufferLength

\* Mutant of handleBackpressure: a paused consumer is never resumed.
handleBackpressureSticky(p, n) ==
    \/ /\ MustPause(n)
       /\ consumerPaused' = TRUE
       /\ pausedAt' = pausedAt \cup {p}
    \/ /\ ~MustPause(n)
       /\ UNCHANGED pauseVars

handleBackpressure(p, n) ==
    \/ /\ MustPause(n)
       /\ consumerPaused' = TRUE
       /\ pausedAt' = pausedAt \cup {p}
    \/ /\ MustResume(n)
       /\ consumerPaused' = FALSE
       /\ pausedAt' = pausedAt \ {p}
    \/ /\ ~MustPause(n)
       /\ ~MustResume(n)
       /\ UNCHANGED pauseVars

\* pause and resume throw on a client that is not connected
BackpressureThrows(n) == ~Accepts /\ (MustPause(n) \/ MustResume(n))

(***************************************************************************)
(* The next turn of the while loop of processQueue over the buffer q: take *)
(* its front and await it, or leave.                                       *)
(***************************************************************************)
Await(e) == IF e.promise = "none" THEN e ELSE [e EXCEPT !.promise = "awaited"]

\* Mutant of Turn: the guard of processQueue is not set.
TurnUnguarded(q, errors) ==
    /\ queueIsProcessing' = FALSE
    /\ \/ /\ q = << >>
          /\ queue' = q
          /\ element' = None
          /\ errorCount' = 0
       \/ /\ q # << >>
          /\ queue' = [q EXCEPT ![1] = Await(@)]
          /\ element' = q[1]
          /\ errorCount' = errors

\* Mutant of Turn: the guard of processQueue is not reset.
TurnStuck(q, errors) ==
    /\ queueIsProcessing' = TRUE
    /\ \/ /\ q = << >>
          /\ queue' = q
          /\ element' = None
          /\ errorCount' = 0
       \/ /\ q # << >>
          /\ queue' = [q EXCEPT ![1] = Await(@)]
          /\ element' = q[1]
          /\ errorCount' = errors

Turn(q, errors) ==
    \/ /\ q = << >>
       /\ queue' = q
       /\ queueIsProcessing' = FALSE
       /\ element' = None
       /\ errorCount' = 0
    \/ /\ q # << >>
       /\ queue' = [q EXCEPT ![1] = Await(@)]
       /\ queueIsProcessing' = TRUE
       /\ element' = q[1]
       /\ errorCount' = errors

\* Mutant of GiveUp: every error clears the buffer, and the guard is reset.
GiveUpCleared(fatal) ==
    /\ element' = None
    /\ errorCount' = 0
    /\ queueIsProcessing' = FALSE
    /\ Clear(queue)
    /\ conn' = IF fatal THEN Stopped ELSE conn

(***************************************************************************)
(* processQueue gives up: onError, and a return that leaves                *)
(* queueIsProcessing set.  Only a fatal error clears the buffer.           *)
(***************************************************************************)
GiveUp(fatal) ==
    /\ element' = None
    /\ UNCHANGED queueIsProcessing
    /\ \/ /\ fatal
          /\ Clear(queue)
          /\ conn' = Stopped
          /\ errorCount' = 0
       \/ /\ ~fatal
          /\ errorCount' = MaxRetries + 1
          /\ UNCHANGED <<queue, orphans, conn>>

(***************************************************************************)
(* The rest of onData once the message is deserialised: into the buffer,   *)
(* back pressure, processQueue.  An exception reaches onError as a fatal   *)
(* error.                                                                  *)
(***************************************************************************)
Arrive(m) ==
    LET q == Append(queue, Enqueued(m)) IN
    \/ /\ ~BackpressureThrows(Len(q))
       /\ handleBackpressure(m.part, Len(q))
       /\ \/ /\ queueIsProcessing
             /\ queue' = q
             /\ UNCHANGED loopVars
          \/ /\ ~queueIsProcessing
             /\ Turn(q, 0)
       /\ UNCHANGED <<conn, orphans>>
    \/ /\ BackpressureThrows(Len(q))
       /\ Clear(q)
       /\ conn' = Stopped
       /\ UNCHANGED <<pauseVars, loopVars>>

-----------------------------------------------------------------------------
Init ==
    /\ committed = [p \in Partitions |-> 0]
    /\ handled = {}
    /\ faults = 0
    /\ conn = "down"
    /\ position = [p \in Partitions |-> 0]
    /\ pausedAt = {}
    /\ seeks = [p \in Partitions |-> 0]
    /\ started = FALSE
    /\ consumerPaused = FALSE
    /\ seekCalled = FALSE
    /\ queue = << >>
    /\ decoding = [p \in Partitions |-> << >>]
    /\ queueIsProcessing = FALSE
    /\ element = None
    /\ errorCount = 0
    /\ orphans = {}

(***************************************************************************)
(* start(): listeners, connection, subscription.  The client resumes from  *)
(* the committed offsets.  An object is started again only by an owner     *)
(* that does so in closed(), as AbstractDataTransformer does.              *)
(***************************************************************************)
start ==
    /\ conn = "down"
    /\ started => "object" \in Restarts
    /\ conn' = "up"
    /\ started' = TRUE
    /\ position' = committed
    /\ UNCHANGED <<committed, handled, faults, pausedAt, seeks, consumerPaused,
                   seekCalled, queue, decoding, loopVars, orphans>>

(***************************************************************************)
(* The client delivers the next message of p to onData.  Behind the start  *)
(* offset it is dropped, and a seek is asked for until one has completed.  *)
(* A null value is not deserialised, and once the schema of its topic is   *)
(* loaded a message is deserialised without giving way to other callbacks. *)
(***************************************************************************)
onData(p) ==
    LET m == [part |-> p, off |-> position[p]] IN
    /\ Accepts
    /\ p \notin pausedAt
    /\ position[p] < LogEnd
    /\ position' = [position EXCEPT ![p] = @ + 1]
    /\ \/ /\ m.off < StartOffset[p]
          /\ seeks' = [seeks EXCEPT ![p] = IF seekCalled THEN @ ELSE @ + 1]
          /\ UNCHANGED <<conn, pauseVars, queue, decoding, loopVars, orphans>>
       \/ /\ m.off >= StartOffset[p]
          /\ m \notin Undelayed
          /\ decoding' = [decoding EXCEPT ![p] = Append(@, m)]
          /\ UNCHANGED <<conn, pauseVars, seeks, queue, loopVars, orphans>>
       \/ /\ m.off >= StartOffset[p]
          /\ m \in Undelayed
          /\ Arrive(m)
          /\ UNCHANGED <<seeks, decoding>>
    /\ UNCHANGED <<committed, handled, faults, started, seekCalled>>

\* The callback of seek.
seekDone(p) ==
    /\ Accepts
    /\ seeks[p] > 0
    /\ seeks' = [seeks EXCEPT ![p] = @ - 1]
    /\ seekCalled' = TRUE
    /\ position' = [position EXCEPT ![p] = StartOffset[p]]
    /\ UNCHANGED <<committed, handled, faults, conn, pauseVars, started, queue,
                   decoding, loopVars, orphans>>

\* A seek that fails rejects onData, and the error goes to onError.
seekFails(p) ==
    /\ Accepts
    /\ seeks[p] > 0
    /\ seeks' = [seeks EXCEPT ![p] = @ - 1]
    /\ \/ /\ mayFail("seek")
          /\ UNCHANGED <<conn, queue, orphans>>
       \/ /\ mayFail("clientFatal")
          /\ Clear(queue)
          /\ conn' = Stopped
    /\ faults' = faults + 1
    /\ UNCHANGED <<committed, handled, position, pauseVars, started, seekCalled,
                   decoding, loopVars>>

\* Mutant of deserialize: the calls for a topic are answered in any order.
deserializeUnordered(p) ==
    \E i \in DOMAIN decoding[p] :
        /\ decoding' = [decoding EXCEPT ![p] = RemoveAt(@, i)]
        /\ Arrive(decoding[p][i])
        /\ UNCHANGED <<committed, handled, faults, position, seeks, started,
                       seekCalled>>

\* deserialize resolves: the coder answers the calls for a topic in order.
deserialize(p) ==
    /\ decoding[p] # << >>
    /\ decoding' = [decoding EXCEPT ![p] = Tail(@)]
    /\ Arrive(Head(decoding[p]))
    /\ UNCHANGED <<committed, handled, faults, position, seeks, started, seekCalled>>

\* deserialize rejects: a CoderError, fatal.
deserializeFails(p) ==
    /\ mayFail("coder")
    /\ decoding[p] # << >>
    /\ decoding' = [decoding EXCEPT ![p] = Tail(@)]
    /\ Clear(queue)
    /\ conn' = Stopped
    /\ faults' = faults + 1
    /\ UNCHANGED <<committed, handled, position, pauseVars, seeks, started,
                   seekCalled, loopVars>>

-----------------------------------------------------------------------------
\* Mutant of safeCommitMessage: the offset committed is one too high.
safeCommitMessageAhead(m) ==
    \/ /\ m.off + 2 <= LogEnd
       /\ committed' = [committed EXCEPT ![m.part] = m.off + 2]
       /\ UNCHANGED faults
    \/ /\ mayFail("commitLost") \/ mayFail("commitError")
       /\ faults' = faults + 1
       /\ UNCHANGED committed

(***************************************************************************)
(* safeCommitMessage on a connected client: the commit is applied, or lost *)
(* on its way, or refused until the retries are used up.  In the last case *)
(* the observer is told and, the error not being fatal, processQueue goes  *)
(* on all the same.                                                        *)
(***************************************************************************)
safeCommitMessage(m) ==
    \/ /\ committed' = [committed EXCEPT ![m.part] = m.off + 1]
       /\ UNCHANGED faults
    \/ /\ mayFail("commitLost") \/ mayFail("commitError")
       /\ faults' = faults + 1
       /\ UNCHANGED committed

\* The await of processQueue ended well.
awaited == element # None /\ element.promise \in {"none", "ok"}

\* What was handled by it: observer.next of a synchronous consumer, whereas
\* an asynchronous one awaits a promise that was resolved before.
Resolved(e) == IF e.promise = "none" THEN {e.msg} ELSE {}

\* Commit, shift, back pressure, and the next turn.
processQueueSucceeds ==
    LET rest == IF queue = << >> THEN << >> ELSE Tail(queue)
        out  == IF queue = << >> THEN << >> ELSE << queue[1] >>
    IN
    /\ awaited
    /\ Accepts
    /\ handled' = handled \cup Resolved(element)
    /\ safeCommitMessage(element.msg)
    /\ handleBackpressure(element.msg.part, Len(rest))
    /\ Turn(rest, 0)
    /\ orphans' = orphans \cup Running(out)
    /\ UNCHANGED <<conn, position, seeks, started, seekCalled, decoding>>

(***************************************************************************)
(* A commit refused with a fatal error: onError clears the buffer and asks *)
(* the client to disconnect, and the loop finds nothing left to do.        *)
(***************************************************************************)
processQueueCommitFatal ==
    /\ awaited
    /\ Accepts
    /\ mayFail("commitFatal")
    /\ faults' = faults + 1
    /\ handled' = handled \cup Resolved(element)
    /\ Clear(queue)
    /\ conn' = Stopped
    /\ handleBackpressure(element.msg.part, 0)
    /\ element' = None
    /\ errorCount' = 0
    /\ queueIsProcessing' = FALSE
    /\ UNCHANGED <<committed, position, seeks, started, seekCalled, decoding>>

(***************************************************************************)
(* On a client that is not connected the commit throws an Error, which is  *)
(* fatal: the buffer is cleared and the loop ends.  A resume that throws   *)
(* in its turn counts as one more error.                                   *)
(***************************************************************************)
processQueueDisconnected ==
    /\ awaited
    /\ ~Accepts
    /\ handled' = handled \cup Resolved(element)
    /\ Clear(queue)
    /\ conn' = Stopped
    /\ element' = None
    /\ errorCount' = 0
    /\ queueIsProcessing' = (consumerPaused /\ errorCount + 1 > MaxRetries)
    /\ UNCHANGED <<committed, faults, position, pauseVars, seeks, started,
                   seekCalled, decoding>>

\* observer.next rejects in a synchronous consumer: another turn, or enough.
processQueueFails(kind) ==
    /\ element # None
    /\ element.promise = "none"
    /\ kind \in HandlerErrors
    /\ faults < MaxFaults
    /\ faults' = faults + 1
    /\ \/ /\ errorCount + 1 > MaxRetries \/ kind = "fatal"
          /\ GiveUp(kind # "nonfatal")
       \/ /\ errorCount + 1 <= MaxRetries
          /\ kind # "fatal"
          /\ Turn(queue, errorCount + 1)
          /\ UNCHANGED <<conn, orphans>>
    /\ UNCHANGED <<committed, handled, position, pauseVars, seeks, started,
                   seekCalled, decoding>>

(***************************************************************************)
(* The awaited promise of an asynchronous consumer was rejected.  A fatal  *)
(* error ends the loop.  Otherwise the front is awaited again: the same    *)
(* promise until the retries are used up, or whatever is at the front now. *)
(***************************************************************************)
processQueueRejected ==
    /\ element # None
    /\ \/ /\ element.promise = "fatal"
          /\ GiveUp(TRUE)
       \/ /\ element.promise = "nonfatal"
          /\ \/ queue # << >> /\ queue[1].promise = "awaited"
             \/ errorCount + 1 > MaxRetries
          /\ GiveUp(FALSE)
       \/ /\ element.promise = "nonfatal"
          /\ ~(queue # << >> /\ queue[1].promise = "awaited")
          /\ errorCount + 1 <= MaxRetries
          /\ Turn(queue, errorCount + 1)
          /\ UNCHANGED <<conn, orphans>>
    /\ UNCHANGED <<committed, handled, faults, position, pauseVars, seeks,
                   started, seekCalled, decoding>>

\* Mutant of retryPromise: the error of the last attempt is swallowed.
retryPromiseSwallows(e, f) ==
    /\ e.promise = "running"
    /\ \/ /\ f = [e EXCEPT !.promise = "ok"]
          /\ handled' = handled \cup {e.msg}
          /\ UNCHANGED faults
       \/ /\ faults < MaxFaults
          /\ faults' = faults + 1
          /\ UNCHANGED handled
          /\ IF e.tries >= MaxRetries
             THEN f = [e EXCEPT !.promise = "ok"]
             ELSE f = [e EXCEPT !.tries = @ + 1]

(***************************************************************************)
(* retryPromise of an asynchronous consumer: an attempt of the element e   *)
(* succeeds, or fails and is made again or rejects.                        *)
(***************************************************************************)
retryPromise(e, f) ==
    /\ e.promise = "running"
    /\ \/ /\ f = [e EXCEPT !.promise = "ok"]
          /\ handled' = handled \cup {e.msg}
          /\ UNCHANGED faults
       \/ /\ faults < MaxFaults
          /\ faults' = faults + 1
          /\ UNCHANGED handled
          /\ \E kind \in HandlerErrors :
                IF e.tries >= MaxRetries \/ kind = "fatal"
                THEN f = [e EXCEPT !.promise =
                              IF kind = "nonfatal" THEN "nonfatal" ELSE "fatal"]
                ELSE f = [e EXCEPT !.tries = @ + 1]

Outcomes(e) ==
    {[e EXCEPT !.promise = s] : s \in {"ok", "nonfatal", "fatal"}}
        \cup (IF e.tries < MaxRetries THEN {[e EXCEPT !.tries = @ + 1]} ELSE {})

retryAwaited ==
    /\ element # None
    /\ \E f \in Outcomes(element) : retryPromise(element, f) /\ element' = f
    /\ UNCHANGED <<committed, clientVars, started, consumerPaused, seekCalled,
                   queue, decoding, queueIsProcessing, errorCount, orphans>>

retryQueued(i) ==
    /\ \E f \in Outcomes(queue[i]) :
           retryPromise(queue[i], f) /\ queue' = [queue EXCEPT ![i] = f]
    /\ UNCHANGED <<committed, clientVars, started, consumerPaused, seekCalled,
                   decoding, loopVars, orphans>>

\* The handler of a dropped element ends: nobody looks at how.
retryOrphan(m) ==
    /\ orphans' = orphans \ {m}
    /\ \/ handled' = handled \cup {m}
       \/ HandlerErrors # {} /\ UNCHANGED handled
    /\ UNCHANGED <<committed, faults, clientVars, started, consumerPaused,
                   seekCalled, queue, decoding, loopVars>>

-----------------------------------------------------------------------------
\* onError with a fatal error of the client (event.error).
onError ==
    /\ mayFail("clientFatal")
    /\ conn = "up"
    /\ faults' = faults + 1
    /\ Clear(queue)
    /\ conn' = Stopped
    /\ UNCHANGED <<committed, handled, position, pauseVars, seeks, started,
                   seekCalled, decoding, loopVars>>

stop ==
    /\ mayFail("stop")
    /\ conn = "up"
    /\ faults' = faults + 1
    /\ conn' = Stopped
    /\ UNCHANGED <<committed, handled, position, pauseVars, seeks, started,
                   seekCalled, queue, decoding, loopVars, orphans>>

\* The client has begun to close its connection and refuses calls.
disconnecting ==
    /\ conn = "draining"
    /\ conn' = "closing"
    /\ UNCHANGED <<committed, handled, faults, position, pauseVars, seeks, started,
                   seekCalled, queue, decoding, loopVars, orphans>>

(***************************************************************************)
(* The client is disconnected and has given its partitions back; the seeks *)
(* in flight end with it.                                                  *)
(***************************************************************************)
onDisconnect ==
    /\ conn = "closing"
    /\ conn' = "down"
    /\ Clear(queue)
    /\ pausedAt' = {}
    /\ seeks' = [p \in Partitions |-> 0]
    /\ UNCHANGED <<committed, handled, faults, position, started,
                   consumerPaused, seekCalled, decoding, loopVars>>

\* The process ends, and with it all that is not at the broker.
ProcessEnds ==
    /\ conn' = "down"
    /\ pausedAt' = {}
    /\ seeks' = [p \in Partitions |-> 0]
    /\ started' = FALSE
    /\ consumerPaused' = FALSE
    /\ seekCalled' = FALSE
    /\ queue' = << >>
    /\ decoding' = [p \in Partitions |-> << >>]
    /\ queueIsProcessing' = FALSE
    /\ element' = None
    /\ errorCount' = 0
    /\ orphans' = {}
    /\ UNCHANGED <<committed, handled, position>>

crash ==
    /\ mayFail("crash")
    /\ started
    /\ faults' = faults + 1
    /\ ProcessEnds

\* A supervisor replaces a process whose consumer closed.
processRestarts ==
    /\ "process" \in Restarts
    /\ conn = "down"
    /\ started
    /\ ProcessEnds
    /\ UNCHANGED faults

PartitionStep(p) ==
    \/ onData(p)
    \/ seekDone(p)
    \/ seekFails(p)
    \/ deserialize(p)
    \/ deserializeFails(p)

LoopStep ==
    \/ processQueueSucceeds
    \/ processQueueCommitFatal
    \/ processQueueDisconnected
    \/ \E kind \in HandlerErrors : processQueueFails(kind)
    \/ processQueueRejected

PromiseStep ==
    \/ retryAwaited
    \/ \E i \in DOMAIN queue : retryQueued(i)
    \/ \E m \in orphans : retryOrphan(m)

ClientStep ==
    \/ onError
    \/ stop
    \/ disconnecting
    \/ onDisconnect

Next ==
    \/ start
    \/ \E p \in Partitions : PartitionStep(p)
    \/ LoopStep
    \/ PromiseStep
    \/ ClientStep
    \/ crash
    \/ processRestarts

Spec == Init /\ [][Next]_vars

(***************************************************************************)
(* What the scheduling of JavaScript and of the client gives: callbacks    *)
(* run, promises settle, a supervisor acts.  No fault is bound to happen.  *)
(***************************************************************************)
Fairness ==
    /\ WF_vars(start)
    /\ \A p \in Partitions :
           WF_vars(onData(p)) /\ WF_vars(seekDone(p)) /\ WF_vars(deserialize(p))
    /\ WF_vars(LoopStep)
    /\ WF_vars(retryAwaited)
    /\ WF_vars(\E i \in DOMAIN queue : retryQueued(i))
    /\ WF_vars(disconnecting)
    /\ WF_vars(onDisconnect)
    /\ WF_vars(processRestarts)

FairSpec == Spec /\ Fairness

-----------------------------------------------------------------------------
Counter(f) == f \in [Partitions -> Nat]

TypeOK ==
    /\ committed \in [Partitions -> 0..LogEnd]
    /\ handled \subseteq Messages
    /\ faults \in 0..MaxFaults
    /\ conn \in {"down", "up", "draining", "closing"}
    /\ Counter(position)
    /\ pausedAt \subseteq Partitions
    /\ Counter(seeks)
    /\ started \in BOOLEAN
    /\ consumerPaused \in BOOLEAN
    /\ seekCalled \in BOOLEAN
    /\ queue \in Seq(Elements)
    /\ decoding \in [Partitions -> Seq(Messages)]
    /\ queueIsProcessing \in BOOLEAN
    /\ element \in Elements \cup {None}
    /\ element # None => queueIsProcessing
    /\ errorCount \in 0..(MaxRetries + 1)
    /\ orphans \subseteq Messages

\* Nobody misses m: it lies before the start offset, or was handled.
Covered(m) == m.off < StartOffset[m.part] \/ m \in handled

(***************************************************************************)
(* An offset is committed only when every earlier message was handled, so  *)
(* that whoever resumes from it misses none (README.md:821).               *)
(***************************************************************************)
AtLeastOnce ==
    \A m \in Messages : m.off < committed[m.part] => Covered(m)

D == INSTANCE Delivery

(***************************************************************************)
(* The consumer implements the abstract delivery: a step handles at most   *)
(* one message, and moves a committed offset only to just behind the       *)
(* message it handled, all the earlier ones being handled.                 *)
(***************************************************************************)
DeliversAtLeastOnce == D!Spec

(***************************************************************************)
(* The environments in which at-least-once delivery is proved: a closed    *)
(* consumer is replaced together with its process; a client asked to       *)
(* disconnect over a fatal error serves no longer; and no message that     *)
(* needs no deserialising overtakes one that waits for the coder.          *)
(***************************************************************************)
SafeEnvironment ==
    /\ "object" \notin Restarts
    /\ Drains => Hazards \cap {"clientFatal", "coder", "commitFatal"} = {}
    /\ \A m \in Undelayed : \A b \in Messages :
           b.part = m.part /\ b.off < m.off => b \in Undelayed

\* b comes before m in the partition they share.
Before(b, m) == b.part = m.part /\ b.off < m.off

\* m is one of the first n elements of the buffer.
Buffered(m, n) == \E i \in 1..n : queue[i].msg = m

\* m is one of the first n messages of its partition that await the coder.
Pending(m, n) == \E i \in 1..n : decoding[m.part][i] = m

(***************************************************************************)
(* The consumer takes messages that it may commit: its client serves, and  *)
(* processQueue has not returned with its guard set.                       *)
(***************************************************************************)
Serving == Accepts /\ (queueIsProcessing => element # None)

\* Every delivered message was handled, or is buffered, or awaits the coder.
NoneDropped ==
    Serving => \A m \in Messages :
        m.off < position[m.part] =>
            \/ Covered(m)
            \/ Buffered(m, Len(queue))
            \/ Pending(m, Len(decoding[m.part]))

\* What comes before a buffered message was handled, or is ahead of it.
BufferInOrder ==
    Serving => \A i \in 1..Len(queue) : \A b \in Messages :
        Before(b, queue[i].msg) => Covered(b) \/ Buffered(b, i - 1)

\* The same of a message that awaits the coder.
PendingInOrder ==
    Serving => \A p \in Partitions : \A i \in 1..Len(decoding[p]) :
        \A b \in Messages :
            Before(b, decoding[p][i]) =>
                Covered(b) \/ Buffered(b, Len(queue)) \/ Pending(b, i - 1)

\* The messages that await the coder are filed under their partition.
PendingFiled ==
    \A p \in Partitions : \A i \in 1..Len(decoding[p]) :
        decoding[p][i].part = p /\ decoding[p][i] \notin Undelayed

\* While the client serves, processQueue awaits the front of the buffer.
AwaitsFront ==
    Accepts /\ element # None => queue # << >> /\ queue[1].msg = element.msg

\* A promise that was resolved stands for a message that was handled.
OkIsHandled ==
    /\ element # None /\ element.promise = "ok" => element.msg \in handled
    /\ \A i \in 1..Len(queue) :
           queue[i].promise = "ok" => queue[i].msg \in handled

\* A process that has not called start() has nothing in its hands.
NothingBeforeStart ==
    /\ ~started => /\ conn = "down" /\ queue = << >> /\ element = None
                   /\ ~queueIsProcessing
                   /\ decoding = [p \in Partitions |-> << >>]
    /\ conn = "draining" => Drains

(***************************************************************************)
(* The inductive invariant behind AtLeastOnce: whatever the client has     *)
(* delivered is still on its way through the consumer, in order.           *)
(***************************************************************************)
NothingIsLost ==
    /\ AtLeastOnce
    /\ NoneDropped
    /\ BufferInOrder
    /\ PendingInOrder
    /\ PendingFiled
    /\ AwaitsFront
    /\ OkIsHandled
    /\ NothingBeforeStart

(***************************************************************************)
(* A consumer of one partition has it paused exactly while the buffer is   *)
(* at its limit: the client neither overfills it nor is forgotten in the   *)
(* paused state (handleBackpressure).                                      *)
(***************************************************************************)
PauseMatchesBuffer ==
    conn = "up" =>
        /\ consumerPaused <=> MaxBufferLength <= Len(queue)
        /\ pausedAt = IF consumerPaused THEN Partitions ELSE {}

(***************************************************************************)
(* A synchronous consumer handles a message only after every earlier one   *)
(* of its partition: what was handled has no gap.                          *)
(***************************************************************************)
HandledInOrder ==
    \A m \in handled : \A b \in Messages :
        b.part = m.part /\ b.off < m.off => Covered(b)

\* The offsets of a partition are committed in order: none is taken back.
CommitsInOrder ==
    [][\A p \in Partitions : committed'[p] >= committed[p]]_vars

(***************************************************************************)
(* processQueue gave up on an error that is not fatal: it returned with    *)
(* its guard set, on a client that stays connected.                        *)
(***************************************************************************)
GivenUp ==
    /\ conn = "up"
    /\ queueIsProcessing
    /\ element = None
    /\ errorCount > MaxRetries

(***************************************************************************)
(* Every message of every partition is handled at last, unless the         *)
(* consumer gave up on a message whose handler rejects once too often with *)
(* an error that is not fatal: then, and only then, it stays connected and *)
(* idle for good.                                                          *)
(***************************************************************************)
AllHandled == <>(\A m \in Messages : Covered(m)) \/ <>[]GivenUp

(***************************************************************************)
(* What the comment of processQueue says (abstract_consumer.ts:224-225):   *)
(* on a failure after the maximum of retries the queue is cleared.         *)
(***************************************************************************)
ClearedOnFailure ==
    [][element # None /\ errorCount' > MaxRetries => queue' = << >>]_vars
=============================================================================
