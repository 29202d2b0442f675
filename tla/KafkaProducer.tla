---------------------------- MODULE KafkaProducer ---------------------------
(***************************************************************************)
(* The producers of internal/kafka/producer: AbstractProducer, which keeps *)
(* a connection to the broker and hands messages to the librdkafka client, *)
(* AsynchronousProducer, whose produceEvent ends when the client has taken *)
(* the message, and SynchronousProducer, whose produceEvent waits for the  *)
(* delivery report, with one listener per call.                            *)
(*                                                                         *)
(* The calls overlap: producerConnecting and producerConnected are read    *)
(* before an await and set by whoever comes back from one.  An owner that  *)
(* listens to "producer.error" may produce from within its listener.       *)
(***************************************************************************)
EXTENDS Integers, Sequences

CONSTANTS
    Messages,       \* what produceEvent is called with, each at most once
    Starter,        \* the call of start() that comes from outside
    Scenarios,      \* the class of the producer, and what may happen to it
    MaxFaults, MaxStops     \* bounds of the model

\* refuse: a connection fails; send: serialize or produce throws; event: the
\* client reports an error; report: a message is not delivered; flush: stop
\* fails, or gives up what is left; listener: the owner produces in its error
\* listener; restart: it calls start in its listener for the disconnection;
\* survive: the application goes on after a rejection that nobody handles.
HazardKinds == {"refuse", "send", "event", "report", "flush", "listener", "restart", "survive"}

ASSUME ProducerAssumption ==
    /\ Starter \notin Messages
    /\ Scenarios \subseteq [kind : {"sync", "async"}, hazards : SUBSET HazardKinds]
    /\ {MaxFaults, MaxStops} \subseteq Nat

VARIABLES
    scenario, faults, stops,
    process,    \* it runs, has a rejection that nobody handles, or is ended
    producerConnecting, producerConnected,
    attempts,   \* how often connectToBroker ran: the latest producerConnectPromise
    open,       \* the attempts that the client has not answered
    errorListeners,     \* how many there are of "event.error"
    telling,    \* onKafkaError is in the listeners of "producer.error"
    stopProducerPromise,        \* whether a disconnect is under way
    called,     \* the calls in their order
    step,       \* of each call: where its function stands
    waitsFor,   \* of each call: the attempt whose promise it awaits
    sending,    \* the messages that were given to serialize, in this order
    overtook,   \* history: calls made as start() returned, and those it overtook
    outcome,    \* of each call: how the promise of the caller is settled
    listening, timers,  \* SynchronousProducer: the calls with a listener, a timer
    up, buffer, reports, log    \* the client, its messages and reports; the topic

bounds == <<scenario, faults, stops>>
conn == <<producerConnecting, producerConnected, attempts, open, errorListeners>>
flow == <<called, step, waitsFor, sending, overtook>>
settled == <<outcome, listening, timers>>
client == <<up, buffer, reports, log>>
vars == <<bounds, process, conn, telling, stopProducerPromise, flow, settled, client>>

Calls == Messages \cup {Starter}
Sync == scenario.kind = "sync"

mayHappen(h) == h \in scenario.hazards
Fault(h) ==
    /\ mayHappen(h) /\ faults < MaxFaults
    /\ faults' = faults + 1 /\ UNCHANGED <<scenario, stops>>

\* The calls that stand at the step s, by their places, and the first of them.
At(s) == {i \in DOMAIN called : step[called[i]] = s}
First(s) == called[CHOOSE i \in At(s) : \A j \in At(s) : i <= j]

\* Listeners, and those that await a settled promise of a connection, run
\* before anything else; a rejection that nobody handles comes next.
Resumed ==
    /\ process # "ended" /\ ~telling
    /\ At("connected") = {} /\ At("refused") = {} /\ step[Starter] # "resumed"
Quiet == Resumed /\ process = "runs"

Settle(c, o) == outcome' = [outcome EXCEPT ![c] = IF @ = "none" THEN o ELSE @]

-----------------------------------------------------------------------------
(***************************************************************************)
(* The connection.                                                         *)
(***************************************************************************)
\* Mutant of connectToBroker: the promise of an earlier attempt is kept.
connectToBrokerKept ==
    /\ producerConnecting' = TRUE
    /\ UNCHANGED attempts
    /\ open' = open \cup {attempts + 1}
    /\ errorListeners' = errorListeners + 1

connectToBroker ==
    /\ producerConnecting' = TRUE
    /\ attempts' = attempts + 1
    /\ open' = open \cup {attempts + 1}
    /\ errorListeners' = errorListeners + 1

\* Mutant of _start: a connection that is being made is not waited for.
_startAgain(c) ==
    /\ called' = Append(called, c)
    /\ IF producerConnected
       THEN UNCHANGED <<producerConnecting, attempts, open, errorListeners>>
       ELSE connectToBroker
    /\ waitsFor' = [waitsFor EXCEPT ![c] = attempts']
    /\ step' = [step EXCEPT ![c] = "starting"]
    /\ UNCHANGED <<producerConnected, sending>>

\* start and _start: the call c awaits the latest promise.
_start(c) ==
    /\ called' = Append(called, c)
    /\ IF producerConnecting \/ producerConnected
       THEN UNCHANGED <<producerConnecting, attempts, open, errorListeners>>
       ELSE connectToBroker
    /\ waitsFor' = [waitsFor EXCEPT ![c] = attempts']
    /\ step' = [step EXCEPT ![c] = "starting"]
    /\ UNCHANGED <<producerConnected, sending>>

start ==
    /\ Quiet /\ step[Starter] = "idle"
    /\ IF producerConnected
       THEN /\ step' = [step EXCEPT ![Starter] = "done"]
            /\ Settle(Starter, "resolved")
            /\ UNCHANGED <<conn, called, waitsFor, sending>>
       ELSE _start(Starter) /\ UNCHANGED outcome
    /\ UNCHANGED <<bounds, process, telling, stopProducerPromise, overtook, listening, timers,
                   client>>

\* The calls that await the promise p, which is settled, stand at s.
Wakes(p, s) ==
    step' = [c \in Calls |-> IF step[c] = "starting" /\ waitsFor[c] = p THEN s ELSE step[c]]

\* connect calls back.
Connects ==
    /\ Quiet
    /\ \E p \in open : open' = open \ {p} /\ Wakes(p, "connected")
    /\ producerConnecting' = FALSE /\ producerConnected' = TRUE
    /\ up' = TRUE
    /\ UNCHANGED <<bounds, process, attempts, errorListeners, telling, stopProducerPromise, called,
                   waitsFor, sending, overtook, settled, buffer, reports, log>>

\* Those that awaited it go on one by one in their order: start() returns to
\* its owner, sendToInternalProducer serialises its message.
Continues ==
    /\ process # "ended"
    /\ At("connected") # {} /\ step[Starter] # "resumed"
    /\ LET c == First("connected")
       IN  IF c = Starter
           THEN /\ step' = [step EXCEPT ![c] = "resumed"]
                /\ Settle(c, "resolved")
                /\ UNCHANGED sending
           ELSE /\ step' = [step EXCEPT ![c] = "ready"]
                /\ sending' = Append(sending, c)
                /\ UNCHANGED outcome
    /\ UNCHANGED <<bounds, process, conn, telling, stopProducerPromise, called, waitsFor, overtook,
                   listening, timers, client>>

\* The owner, who awaited start() and may have produced since, awaits again.
Returns ==
    /\ process # "ended" /\ step[Starter] = "resumed"
    /\ step' = [step EXCEPT ![Starter] = "done"]
    /\ UNCHANGED <<bounds, process, conn, telling, stopProducerPromise, called, waitsFor, sending,
                   overtook, settled, client>>

\* Mutant of ConnectFails: the promise is not rejected.
ConnectFailsSilently ==
    /\ Quiet
    /\ \E p \in open : open' = open \ {p}
    /\ Fault("refuse")
    /\ producerConnecting' = FALSE
    /\ UNCHANGED <<process, producerConnected, attempts, errorListeners, telling,
                   stopProducerPromise, flow, settled, client>>

\* The callback and the catches of start and of _start, which come before any
\* listener, reset producerConnecting.
ConnectFails ==
    /\ Quiet
    /\ \E p \in open : open' = open \ {p} /\ Wakes(p, "refused")
    /\ Fault("refuse")
    /\ producerConnecting' = FALSE
    /\ UNCHANGED <<process, producerConnected, attempts, errorListeners, telling,
                   stopProducerPromise, called, waitsFor, sending, overtook, settled, client>>

\* The error that call m of produceEvent meets: the listeners hear it, and the
\* executor of SynchronousProducer, which is async, throws: a rejection that
\* nobody handles, whereas the caller is left to its timer.
SendFails(m) ==
    /\ telling' = TRUE
    /\ step' = [step EXCEPT ![m] = "failed"]
    /\ listening' = listening \ {m}
    /\ \/ /\ Sync
          /\ process' = IF mayHappen("survive") THEN process ELSE "unhandled"
          /\ UNCHANGED outcome
       \/ /\ ~Sync
          /\ Settle(m, "rejected")
          /\ UNCHANGED process
    /\ UNCHANGED timers

\* Node ends the process, once all that has been resolved has run.
ProcessEnds ==
    /\ Resumed /\ process = "unhandled"
    /\ process' = "ended"
    /\ UNCHANGED <<bounds, conn, telling, stopProducerPromise, flow, settled, client>>

\* Those that awaited the rejected promise go on one by one in their order.
Refused ==
    /\ process # "ended" /\ ~telling
    /\ At("refused") # {} /\ step[Starter] # "resumed"
    /\ LET c == First("refused")
       IN  IF c # Starter THEN SendFails(c)
           ELSE /\ step' = [step EXCEPT ![c] = "resumed"]
                /\ Settle(c, "rejected")
                /\ UNCHANGED <<process, telling, listening, timers>>
    /\ UNCHANGED <<bounds, conn, stopProducerPromise, called, waitsFor, sending, overtook, client>>

\* The client reports an error to the listeners there are.
KafkaError ==
    /\ Quiet /\ errorListeners > 0
    /\ Fault("event")
    /\ telling' = TRUE
    /\ UNCHANGED <<process, conn, stopProducerPromise, flow, settled, client>>

\* The rest of onKafkaError, when the listeners have returned.
onKafkaError ==
    /\ telling /\ telling' = FALSE
    /\ producerConnected' = FALSE
    /\ UNCHANGED <<bounds, process, producerConnecting, attempts, open, errorListeners,
                   stopProducerPromise, flow, settled, client>>

-----------------------------------------------------------------------------
(***************************************************************************)
(* produceEvent and sendToInternalProducer.                                *)
(***************************************************************************)
\* The owner calls at any time, or from its listener, or as start() returns.
produceEvent(m) ==
    /\ step[m] = "idle"
    /\ \/ Quiet
       \/ telling /\ mayHappen("listener")
       \/ process # "ended" /\ step[Starter] = "resumed"
    /\ IF producerConnected
       THEN /\ called' = Append(called, m)
            /\ step' = [step EXCEPT ![m] = "ready"]
            /\ sending' = Append(sending, m)
            /\ UNCHANGED <<conn, waitsFor>>
       ELSE _start(m)
    /\ overtook' = overtook \cup {<<m, called[i]>> : i \in At("connected")}
    /\ IF Sync THEN listening' = listening \cup {m} /\ timers' = timers \cup {m}
       ELSE UNCHANGED <<listening, timers>>
    /\ UNCHANGED <<bounds, process, telling, stopProducerPromise, outcome, client>>

\* The first of the messages that were serialised: the client takes it.
Sent ==
    /\ Resumed /\ sending # << >>
    /\ sending' = Tail(sending)
    /\ LET m == Head(sending)
       IN  /\ up
           /\ step' = [step EXCEPT ![m] = "done"]
           /\ buffer' = Append(buffer, m)
           /\ IF Sync THEN UNCHANGED outcome ELSE Settle(m, "resolved")
    /\ UNCHANGED <<bounds, process, conn, telling, stopProducerPromise, called, waitsFor, overtook,
                   listening, timers, up, reports, log>>

\* serialize or produce throws: produce does when the client is not connected.
NotSent ==
    /\ Resumed /\ sending # << >>
    /\ sending' = Tail(sending)
    /\ Fault("send") \/ (~up /\ UNCHANGED bounds)
    /\ SendFails(Head(sending))
    /\ UNCHANGED <<conn, stopProducerPromise, called, waitsFor, overtook, client>>

-----------------------------------------------------------------------------
(***************************************************************************)
(* The broker takes the messages in their order, and the client reports.   *)
(***************************************************************************)
Report(m, ok) == [message |-> m, ok |-> ok]

Deliver ==
    /\ process # "ended" /\ buffer # << >>
    /\ buffer' = Tail(buffer)
    /\ log' = Append(log, Head(buffer))
    /\ reports' = Append(reports, Report(Head(buffer), TRUE))
    /\ UNCHANGED <<bounds, process, conn, telling, stopProducerPromise, flow, settled, up>>

NotDelivered ==
    /\ process # "ended" /\ buffer # << >>
    /\ Fault("report")
    /\ buffer' = Tail(buffer)
    /\ reports' = Append(reports, Report(Head(buffer), FALSE))
    /\ UNCHANGED <<process, conn, telling, stopProducerPromise, flow, settled, up, log>>

\* Mutant of deliveryListeners: any report is taken for the own one.
deliveryListenersAll(r) == listening

\* The listeners whose calls a report settles: its own, or all with an error.
deliveryListeners(r) == IF r.ok THEN listening \cap {r.message} ELSE listening

DeliveryReport ==
    /\ Quiet /\ reports # << >>
    /\ LET r == Head(reports)
           ls == deliveryListeners(r)
       IN  /\ listening' = listening \ ls
           /\ timers' = timers \ ls
           /\ outcome' = [c \in Calls |-> IF c \notin ls \/ outcome[c] # "none" THEN outcome[c]
                                          ELSE IF r.ok THEN "resolved" ELSE "rejected"]
    /\ reports' = Tail(reports)
    /\ UNCHANGED <<bounds, process, conn, telling, stopProducerPromise, flow, up, buffer, log>>

\* deliveryTimeout is over: the call is rejected, its listener stays.
DeliveryTimeout ==
    /\ Quiet
    /\ \E m \in timers : timers' = timers \ {m} /\ Settle(m, "rejected")
    /\ UNCHANGED <<bounds, process, conn, telling, stopProducerPromise, flow, listening, client>>

-----------------------------------------------------------------------------
(***************************************************************************)
(* stop and the disconnection.                                             *)
(***************************************************************************)
stop ==
    /\ Quiet /\ stops < MaxStops /\ stops' = stops + 1
    /\ stopProducerPromise' = TRUE
    /\ UNCHANGED <<scenario, faults, process, conn, telling, flow, settled, client>>

\* Mutant of onDisconnected: producerConnected is not reset.
onDisconnectedKeeps ==
    /\ UNCHANGED producerConnected
    /\ errorListeners' = 0
    /\ \/ UNCHANGED <<producerConnecting, attempts, open, called, step, waitsFor>>
       \/ /\ mayHappen("restart") /\ step[Starter] = "idle"
          /\ called' = Append(called, Starter)
          /\ step' = [step EXCEPT ![Starter] = "starting"]
          /\ IF producerConnecting THEN UNCHANGED <<producerConnecting, attempts, open>>
             ELSE /\ producerConnecting' = TRUE
                  /\ attempts' = attempts + 1 /\ open' = open \cup {attempts + 1}
          /\ waitsFor' = [waitsFor EXCEPT ![Starter] = attempts']

\* onDisconnected, run by the client and by stop: it removes the listeners
\* after it emitted, also those of a start from within "producer.disconnected".
onDisconnected ==
    /\ producerConnected' = FALSE
    /\ errorListeners' = 0
    /\ \/ UNCHANGED <<producerConnecting, attempts, open, called, step, waitsFor>>
       \/ /\ mayHappen("restart") /\ step[Starter] = "idle"
          /\ called' = Append(called, Starter)
          /\ step' = [step EXCEPT ![Starter] = "starting"]
          /\ IF producerConnecting THEN UNCHANGED <<producerConnecting, attempts, open>>
             ELSE /\ producerConnecting' = TRUE
                  /\ attempts' = attempts + 1 /\ open' = open \cup {attempts + 1}
          /\ waitsFor' = [waitsFor EXCEPT ![Starter] = attempts']

\* disconnect flushed the messages; with a fault it dropped what was left.
Disconnected ==
    /\ Quiet /\ stopProducerPromise
    /\ \/ buffer = << >> /\ reports = << >> /\ UNCHANGED bounds
       \/ buffer # << >> /\ Fault("flush")
    /\ stopProducerPromise' = FALSE
    /\ onDisconnected
    /\ up' = FALSE /\ buffer' = << >> /\ reports' = << >>
    /\ UNCHANGED <<process, telling, sending, overtook, settled, log>>

DisconnectFails ==
    /\ Quiet /\ stopProducerPromise
    /\ Fault("flush")
    /\ stopProducerPromise' = FALSE
    /\ UNCHANGED <<process, conn, telling, flow, settled, client>>

-----------------------------------------------------------------------------
Init ==
    /\ scenario \in Scenarios
    /\ faults = 0 /\ stops = 0 /\ process = "runs"
    /\ producerConnecting = FALSE /\ producerConnected = FALSE
    /\ attempts = 0 /\ open = {} /\ errorListeners = 0
    /\ telling = FALSE /\ stopProducerPromise = FALSE
    /\ called = << >> /\ sending = << >> /\ overtook = {}
    /\ step = [c \in Calls |-> "idle"]
    /\ waitsFor = [c \in Calls |-> 0]
    /\ outcome = [c \in Calls |-> "none"]
    /\ listening = {} /\ timers = {}
    /\ up = FALSE /\ buffer = << >> /\ reports = << >> /\ log = << >>

Next ==
    \/ start \/ Connects \/ Continues \/ Returns \/ ConnectFails \/ Refused
    \/ KafkaError \/ onKafkaError \/ ProcessEnds
    \/ (\E m \in Messages : produceEvent(m)) \/ Sent \/ NotSent
    \/ Deliver \/ NotDelivered \/ DeliveryReport \/ DeliveryTimeout
    \/ stop \/ Disconnected \/ DisconnectFails

Spec == Init /\ [][Next]_vars

\* What is awaited comes: the client calls back, timers end, the broker takes
\* the messages.  Nobody has to produce, to start or to stop.
Fairness ==
    /\ WF_vars(Connects) /\ WF_vars(Continues) /\ WF_vars(Returns) /\ WF_vars(Refused)
    /\ WF_vars(onKafkaError) /\ WF_vars(ProcessEnds)
    /\ WF_vars(Sent) /\ WF_vars(NotSent)
    /\ WF_vars(Deliver) /\ WF_vars(DeliveryReport) /\ WF_vars(DeliveryTimeout)
    /\ WF_vars(Disconnected)
FairSpec == Spec /\ Fairness

-----------------------------------------------------------------------------
\* The types; a call awaits a promise that was made, an answer is awaited only
\* for an attempt that was made.
TypeOK ==
    /\ {producerConnecting, producerConnected, telling, stopProducerPromise, up} \subseteq BOOLEAN
    /\ open \subseteq 1..attempts
    /\ \A c \in Calls : waitsFor[c] \in 0..attempts
    /\ timers \subseteq Messages /\ listening \subseteq Messages
    /\ process \in {"runs", "unhandled", "ended"}

\* A call of SynchronousProducer is resolved only when its own message is in
\* the topic, whatever the other calls, errors and timeouts do to its listener.
ConfirmedIsInTopic ==
    Sync => \A m \in Messages : outcome[m] = "resolved" => \E i \in DOMAIN log : log[i] = m

\* The producer takes itself for connected only while the client is: over
\* errors, overlapping starts, and a stop that meets either.
ConnectedIsUp == producerConnected => up

place(c) == CHOOSE i \in DOMAIN called : called[i] = c

\* The topic has the messages in the order of their calls, although some calls
\* wait for a connection and later ones find it there: calls that overlap share
\* one attempt to connect, over errors, and listeners that produce.  Only the
\* owner who awaited start() comes before the calls made after it that waited
\* for the same connection: what it produces then overtakes them.
TakenInOrder ==
    \A i, j \in DOMAIN log :
        i < j => place(log[i]) < place(log[j]) \/ <<log[i], log[j]>> \in overtook

\* Every call is settled, however connecting, sending and delivering end; or
\* the process has ended, which happens to SynchronousProducer alone, when a
\* message could not be sent and the application does not expect rejections
\* that nobody handles.
AllSettled ==
    \A c \in Calls : [](step[c] # "idle" => <>(outcome[c] # "none" \/ process = "ended"))

\* What synchronous_producer.ts:39 says of produceEvent: it throws an error on
\* failure, so that the caller's promise is rejected.
FailureIsThrown == \A m \in Messages : step[m] = "failed" ~> outcome[m] = "rejected"
=============================================================================
