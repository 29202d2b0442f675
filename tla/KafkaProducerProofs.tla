------------------------- MODULE KafkaProducerProofs -------------------------
(***************************************************************************)
(* The producers, for every set of messages and every number of faults and *)
(* stops.  Each part of the invariant is carried through the actions on    *)
(* its own: the types, what a confirmation stands for, and the order of    *)
(* the calls from produceEvent to the topic.                               *)
(***************************************************************************)
EXTENDS KafkaProducer, SequenceTheorems, WellFoundedInduction, TLAPS

Steps == {"idle", "starting", "connected", "refused", "resumed", "ready", "failed", "done"}
Outcomes == {"none", "resolved", "rejected"}

Types ==
    /\ TypeOK
    /\ scenario \in Scenarios /\ faults \in Nat /\ attempts \in Nat /\ errorListeners \in Nat
    /\ step \in [Calls -> Steps] /\ outcome \in [Calls -> Outcomes]
    /\ waitsFor \in [Calls -> Nat]
    /\ {called, sending, buffer, log} \subseteq Seq(Calls)
    /\ reports \in Seq([message : Calls, ok : BOOLEAN])

\* A report of success speaks of a message in the topic.
InLog(m) == \E i \in DOMAIN log : log[i] = m
ReportsTrue == \A i \in DOMAIN reports : reports[i].ok => InLog(reports[i].message)
Confirmed == ReportsTrue /\ ConfirmedIsInTopic

Elems(s) == {s[i] : i \in DOMAIN s}

\* Every call that waits, or whose message goes on, is in called, once.
CalledOnce ==
    /\ \A i, j \in DOMAIN called : called[i] = called[j] => i = j
    /\ \A i \in DOMAIN called : step[called[i]] # "idle"
    /\ \A c \in Calls : step[c] \in {"starting", "connected", "refused"} => c \in Elems(called)
    /\ Elems(log) \cup Elems(buffer) \cup Elems(sending) \subseteq Elems(called)

\* At most one attempt is open, the latest; whoever starts awaits it, and while
\* those that found the connection go on nothing has ended it.
OneAttempt ==
    /\ open \subseteq {attempts}
    /\ producerConnecting <=> open # {}
    /\ producerConnected => open = {}
    /\ \A c \in Calls : step[c] = "starting" => waitsFor[c] \in open
    /\ \A c, d \in Calls : step[c] = "connected" =>
            producerConnected /\ ~telling /\ step[d] # "refused"

\* The pairs of calls of which the first may come before the second.
Before(c, d) == \E i, j \in DOMAIN called : i < j /\ called[i] = c /\ called[j] = d
May == {p \in Calls \X Calls : Before(p[1], p[2])} \cup overtook
Sorted(R, s) == \A i, j \in DOMAIN s : i < j => <<s[i], s[j]>> \in R

\* From the topic over the buffer and the messages that were serialised to the
\* calls that wait for the connection: in an order that may be.
Order(R, l, b, s, w) ==
    /\ Sorted(R, l) /\ Sorted(R, b) /\ Sorted(R, s)
    /\ Elems(l) \X (Elems(b) \cup Elems(s) \cup w) \subseteq R
    /\ Elems(b) \X (Elems(s) \cup w) \subseteq R
    /\ Elems(s) \X w \subseteq R

Later == {c \in Calls : step[c] \in {"starting", "connected"}}
InOrder == Order(May, log, buffer, sending, Later)

-----------------------------------------------------------------------------
(***************************************************************************)
(* Sequences, and the first call at a step.                                *)
(***************************************************************************)
LEMMA Appended ==
    ASSUME NEW S, NEW s \in Seq(S), NEW e \in S
    PROVE  /\ Append(s, e) \in Seq(S) /\ Len(s) \in Nat /\ DOMAIN s = 1..Len(s)
           /\ DOMAIN Append(s, e) = 1..(Len(s) + 1)
           /\ \A i \in 1..Len(s) : Append(s, e)[i] = s[i] /\ s[i] \in S
           /\ Append(s, e)[Len(s) + 1] = e
<1>1. Append(s, e) \in Seq(S) /\ Len(Append(s, e)) = Len(s) + 1
    BY AppendProperties
<1>2. /\ \A i \in 1..Len(s) : Append(s, e)[i] = s[i]
      /\ Append(s, e)[Len(s) + 1] = e
    BY AppendProperties
<1>3. Len(s) \in Nat /\ DOMAIN s = 1..Len(s)
    BY LenProperties
<1>4. DOMAIN Append(s, e) = 1..(Len(s) + 1)
    BY <1>1, LenProperties
<1>5. \A i \in 1..Len(s) : s[i] \in S
    BY ElementOfSeq
<1>. QED
    BY <1>1, <1>2, <1>3, <1>4, <1>5

LEMMA Behind ==
    ASSUME NEW S, NEW s \in Seq(S), s # << >>
    PROVE  /\ Head(s) \in S /\ Head(s) = s[1] /\ Tail(s) \in Seq(S)
           /\ Len(s) \in Nat \ {0} /\ DOMAIN s = 1..Len(s) /\ DOMAIN Tail(s) = 1..(Len(s) - 1)
           /\ \A i \in 1..(Len(s) - 1) : Tail(s)[i] = s[i + 1]
<1>1. Head(s) \in S /\ Tail(s) \in Seq(S) /\ Len(Tail(s)) = Len(s) - 1
    BY HeadTailProperties
<1>2. \A i \in 1..Len(Tail(s)) : Tail(s)[i] = s[i + 1]
    BY HeadTailProperties
<1>3. Len(s) \in Nat \ {0} /\ DOMAIN s = 1..Len(s)
    BY EmptySeq, LenProperties
<1>4. DOMAIN Tail(s) = 1..(Len(s) - 1)
    BY <1>1, LenProperties
<1>. QED
    BY <1>1, <1>2, <1>3, <1>4

LEMMA AppendElems ==
    ASSUME NEW S, NEW s \in Seq(S), NEW e \in S
    PROVE  Elems(Append(s, e)) = Elems(s) \cup {e}
<1>. DEFINE n == Len(s)
<1>1. /\ n \in Nat /\ DOMAIN s = 1..n /\ DOMAIN Append(s, e) = 1..(n + 1)
      /\ \A i \in 1..n : Append(s, e)[i] = s[i]
      /\ Append(s, e)[n + 1] = e
    BY Appended
<1>2. 1..(n + 1) = 1..n \cup {n + 1}
    BY <1>1
<1>. QED
    BY <1>1, <1>2 DEF Elems

LEMMA TailElems ==
    ASSUME NEW S, NEW s \in Seq(S), s # << >>
    PROVE  Elems(s) = {Head(s)} \cup Elems(Tail(s))
<1>. DEFINE n == Len(s)
<1>1. /\ Head(s) = s[1] /\ n \in Nat \ {0} /\ DOMAIN s = 1..n
      /\ DOMAIN Tail(s) = 1..(n - 1)
      /\ \A i \in 1..(n - 1) : Tail(s)[i] = s[i + 1]
    BY Behind
<1>2. ASSUME NEW i \in 1..n PROVE s[i] \in {Head(s)} \cup Elems(Tail(s))
    <2>1. CASE i = 1
        BY <1>1, <2>1
    <2>2. CASE i # 1
        <3>1. i - 1 \in 1..(n - 1) /\ (i - 1) + 1 = i
            BY <1>1, <1>2, <2>2
        <3>. QED
            BY <1>1, <3>1 DEF Elems
    <2>. QED
        BY <2>1, <2>2
<1>3. ASSUME NEW i \in 1..(n - 1) PROVE Tail(s)[i] \in Elems(s)
    <2>1. i + 1 \in 1..n
        BY <1>1, <1>3
    <2>. QED
        BY <1>1, <2>1 DEF Elems
<1>4. Elems(s) \subseteq {Head(s)} \cup Elems(Tail(s))
    BY <1>1, <1>2 DEF Elems
<1>5. Elems(Tail(s)) \subseteq Elems(s)
    BY <1>1, <1>3 DEF Elems
<1>6. Head(s) \in Elems(s)
    <2>1. 1 \in DOMAIN s
        BY <1>1
    <2>. QED
        BY <1>1, <2>1 DEF Elems
<1>. QED
    BY <1>4, <1>5, <1>6

LEMMA FirstStands ==
    ASSUME Types, NEW s, At(s) # {}
    PROVE  /\ First(s) \in Calls /\ step[First(s)] = s
           /\ \E i \in At(s) : First(s) = called[i] /\ \A j \in At(s) : i <= j
<1>1. called \in Seq(Calls)
    BY DEF Types
<1>2. At(s) \subseteq Nat /\ \A i \in At(s) : called[i] \in Calls /\ step[called[i]] = s
    BY <1>1, LenProperties, ElementOfSeq DEF At
<1>3. PICK i \in At(s) : \A j \in At(s) : ~(<<j, i>> \in OpToRel(<, Nat))
    BY <1>2, WFMin, NatLessThanWellFounded
<1>4. \A j \in At(s) : i <= j
    <2>1. OpToRel(<, Nat) = {ss \in Nat \X Nat : ss[1] < ss[2]}
        BY DEF OpToRel
    <2>2. SUFFICES ASSUME NEW j \in At(s) PROVE ~(j < i)
        BY <1>2
    <2>3. i \in Nat /\ j \in Nat
        BY <1>2
    <2>4. <<j, i>> \in OpToRel(<, Nat) <=> j < i
        BY <2>1, <2>3
    <2>. QED
        BY <1>3, <2>4
<1>. DEFINE k == CHOOSE i1 \in At(s) : \A j \in At(s) : i1 <= j
<1>5. k \in At(s) /\ \A j \in At(s) : k <= j
    BY <1>4
<1>. QED
    BY <1>2, <1>5 DEF First

-----------------------------------------------------------------------------
(***************************************************************************)
(* The types.                                                              *)
(***************************************************************************)
LEMMA InitTypes == Init => Types
<1> SUFFICES ASSUME Init PROVE Types
    OBVIOUS
<1>1. << >> \in Seq(Calls) /\ << >> \in Seq([message : Calls, ok : BOOLEAN])
    OBVIOUS
<1>2. {producerConnecting, producerConnected, telling, stopProducerPromise, up} \subseteq BOOLEAN
    BY Zenon DEF Init
<1>3. \A c \in Calls : waitsFor[c] \in 0..attempts
    BY DEF Init
<1>4. TypeOK
    BY <1>2, <1>3 DEF Init, TypeOK
<1>. QED
    BY <1>1, <1>4 DEF Init, Types, Steps, Outcomes

LEMMA FaultTypes ==
    ASSUME Types, NEW h, Fault(h)
    PROVE  scenario' = scenario /\ faults' \in Nat
BY DEF Fault, Types

LEMMA AwaitsTypes ==
    ASSUME Types, NEW c \in Calls, NEW o \in Outcomes \ {"none"}, Settle(c, o)
    PROVE  outcome' \in [Calls -> Outcomes]
BY DEF Types, Settle, Outcomes

\* A step that makes an attempt to connect, or awaits the one there is.
LEMMA ConnTypes ==
    ASSUME Types, NEW c \in Calls,
           \/ UNCHANGED <<producerConnecting, attempts, open>>
           \/ producerConnecting' = TRUE /\ attempts' = attempts + 1 /\ open' = open \cup {attempts + 1},
           waitsFor' = [waitsFor EXCEPT ![c] = attempts']
    PROVE  /\ producerConnecting' \in BOOLEAN /\ attempts' \in Nat /\ open' \subseteq 1..attempts'
           /\ waitsFor' \in [Calls -> Nat] /\ \A d \in Calls : waitsFor'[d] \in 0..attempts'
<1>1. /\ producerConnecting \in BOOLEAN /\ attempts \in Nat /\ open \subseteq 1..attempts
      /\ waitsFor \in [Calls -> Nat] /\ \A d \in Calls : waitsFor[d] \in 0..attempts
    BY DEF Types, TypeOK
<1>2. /\ attempts' \in Nat /\ attempts <= attempts' /\ open' \subseteq 1..attempts'
      /\ producerConnecting' \in BOOLEAN
    <2>1. CASE UNCHANGED <<producerConnecting, attempts, open>>
        BY <1>1, <2>1
    <2>2. CASE producerConnecting' = TRUE /\ attempts' = attempts + 1 /\ open' = open \cup {attempts + 1}
        <3>1. attempts' \in Nat /\ attempts <= attempts'
            BY <1>1, <2>2
        <3>2. open' \subseteq 1..attempts'
            BY <1>1, <2>2
        <3>3. producerConnecting' \in BOOLEAN
            BY <2>2, Zenon
        <3>. QED
            BY <3>1, <3>2, <3>3
    <2>. QED
        BY <2>1, <2>2
<1>3. waitsFor' \in [Calls -> Nat]
    BY <1>1, <1>2
<1>4. ASSUME NEW d \in Calls PROVE waitsFor'[d] \in 0..attempts'
    <2>1. waitsFor[d] \in 0..attempts'
        BY <1>1, <1>2
    <2>. QED
        BY <1>1, <1>2, <2>1
<1>. QED
    BY <1>2, <1>3, <1>4

LEMMA _startTypes ==
    ASSUME Types, NEW c \in Calls, _start(c)
    PROVE  /\ producerConnecting' \in BOOLEAN /\ attempts' \in Nat /\ open' \subseteq 1..attempts'
           /\ waitsFor' \in [Calls -> Nat] /\ \A d \in Calls : waitsFor'[d] \in 0..attempts'
           /\ errorListeners' \in Nat /\ step' \in [Calls -> Steps] /\ called' \in Seq(Calls)
           /\ producerConnected' = producerConnected /\ sending' = sending
<1>1. /\ producerConnecting' \in BOOLEAN /\ attempts' \in Nat /\ open' \subseteq 1..attempts'
      /\ waitsFor' \in [Calls -> Nat] /\ \A d \in Calls : waitsFor'[d] \in 0..attempts'
    BY ConnTypes DEF _start, connectToBroker
<1>2. called' \in Seq(Calls)
    BY Appended DEF Types, _start
<1>3. errorListeners' \in Nat
    BY DEF Types, _start, connectToBroker
<1>. QED
    BY <1>1, <1>2, <1>3 DEF Types, _start, Steps

LEMMA SendFailsTypes ==
    ASSUME Types, NEW m \in Calls, SendFails(m)
    PROVE  /\ telling' = TRUE /\ step' \in [Calls -> Steps] /\ listening' \subseteq Messages
           /\ outcome' \in [Calls -> Outcomes] /\ timers' = timers
           /\ process' \in {"runs", "unhandled", "ended"}
<1>1. outcome' \in [Calls -> Outcomes]
    BY AwaitsTypes DEF SendFails, Types, Outcomes
<1>2. process' \in {"runs", "unhandled", "ended"}
    BY DEF Types, TypeOK, SendFails
<1>. QED
    BY <1>1, <1>2 DEF Types, TypeOK, SendFails, Steps

\* Those that wait for an attempt that ends go on.
LEMMA WakesTypes ==
    ASSUME Types, NEW p, NEW s \in Steps, Wakes(p, s)
    PROVE  step' \in [Calls -> Steps]
BY DEF Types, Wakes

LEMMA NextTypes == Types /\ [Next]_vars => Types'
<1> SUFFICES ASSUME Types, [Next]_vars PROVE Types'
    OBVIOUS
<1>. USE DEF bounds, conn, flow, settled, client
<1>0. Starter \in Calls /\ Messages \subseteq Calls
    BY DEF Calls
<1>1. CASE start
    <2>1. CASE producerConnected
        <3>1. /\ step' = [step EXCEPT ![Starter] = "done"] /\ Settle(Starter, "resolved")
              /\ UNCHANGED <<conn, called, waitsFor, sending, bounds, process, telling,
                             stopProducerPromise, listening, timers, client>>
            BY <1>1, <2>1 DEF start
        <3>2. outcome' \in [Calls -> Outcomes]
            BY <1>0, <3>1, AwaitsTypes DEF Outcomes
        <3>. QED
            BY <3>1, <3>2 DEF Types, TypeOK, Steps
    <2>2. CASE ~producerConnected
        <3>1. _start(Starter)
              /\ UNCHANGED <<outcome, bounds, process, telling, stopProducerPromise, listening,
                             timers, client>>
            BY <1>1, <2>2 DEF start
        <3>. QED
            BY <1>0, <3>1, _startTypes DEF Types, TypeOK
    <2>. QED
        BY <2>1, <2>2
<1>2. CASE Connects
    <2>1. PICK p \in open : open' = open \ {p} /\ Wakes(p, "connected")
        BY <1>2 DEF Connects
    <2>2. step' \in [Calls -> Steps]
        BY <2>1, WakesTypes DEF Steps
    <2>. QED
        BY <1>2, <2>1, <2>2 DEF Connects, Types, TypeOK
<1>3. CASE ConnectFails
    <2>1. PICK p \in open : open' = open \ {p} /\ Wakes(p, "refused")
        BY <1>3 DEF ConnectFails
    <2>2. step' \in [Calls -> Steps]
        BY <2>1, WakesTypes DEF Steps
    <2>3. scenario' = scenario /\ faults' \in Nat
        BY <1>3, FaultTypes DEF ConnectFails
    <2>. QED
        BY <1>3, <2>1, <2>2, <2>3 DEF ConnectFails, Types, TypeOK
<1>4. CASE Refused
    <2>. DEFINE c == First("refused")
    <2>1. c \in Calls
        BY <1>4, FirstStands DEF Refused
    <2>2. CASE c # Starter
        <3>1. SendFails(c)
            BY <1>4, <2>2 DEF Refused
        <3>2. /\ telling' = TRUE /\ step' \in [Calls -> Steps] /\ listening' \subseteq Messages
              /\ outcome' \in [Calls -> Outcomes] /\ timers' = timers
              /\ process' \in {"runs", "unhandled", "ended"}
            BY <2>1, <3>1, SendFailsTypes
        <3>. QED
            BY <1>4, <3>2 DEF Refused, Types, TypeOK
    <2>3. CASE c = Starter
        <3>1. /\ step' = [step EXCEPT ![c] = "resumed"] /\ Settle(c, "rejected")
              /\ UNCHANGED <<process, telling, listening, timers>>
            BY <1>4, <2>3 DEF Refused
        <3>2. outcome' \in [Calls -> Outcomes]
            BY <2>1, <3>1, AwaitsTypes DEF Outcomes
        <3>. QED
            BY <1>4, <3>1, <3>2 DEF Refused, Types, TypeOK, Steps
    <2>. QED
        BY <2>2, <2>3
<1>5. CASE KafkaError
    <2>1. scenario' = scenario /\ faults' \in Nat
        BY <1>5, FaultTypes DEF KafkaError
    <2>. QED
        BY <1>5, <2>1 DEF KafkaError, Types, TypeOK
<1>6. CASE onKafkaError
    BY <1>6 DEF onKafkaError, Types, TypeOK
<1>7. CASE \E m \in Messages : produceEvent(m)
    <2>1. PICK m \in Messages : produceEvent(m)
        BY <1>7
    <2>2. listening' \subseteq Messages /\ timers' \subseteq Messages
        BY <2>1 DEF produceEvent, Types, TypeOK
    <2>3. CASE producerConnected
        <3>1. /\ called' = Append(called, m) /\ step' = [step EXCEPT ![m] = "ready"]
              /\ sending' = Append(sending, m) /\ UNCHANGED <<conn, waitsFor>>
            BY <2>1, <2>3 DEF produceEvent
        <3>2. called' \in Seq(Calls) /\ sending' \in Seq(Calls)
            BY <1>0, <3>1, Appended DEF Types
        <3>. QED
            BY <2>1, <2>2, <3>1, <3>2 DEF produceEvent, Types, TypeOK, Steps
    <2>4. CASE ~producerConnected
        <3>1. _start(m)
            BY <2>1, <2>4 DEF produceEvent
        <3>. QED
            BY <1>0, <2>1, <2>2, <3>1, _startTypes DEF produceEvent, Types, TypeOK
    <2>. QED
        BY <2>3, <2>4
<1>8. CASE Sent
    <2>. DEFINE m == Head(sending)
    <2>1. m \in Calls /\ sending' \in Seq(Calls)
        BY <1>8, Behind DEF Sent, Types
    <2>2. buffer' \in Seq(Calls)
        BY <1>8, <2>1, Appended DEF Sent, Types
    <2>3. outcome' \in [Calls -> Outcomes]
        BY <1>8, <2>1, AwaitsTypes DEF Sent, Types, Outcomes
    <2>. QED
        BY <1>8, <2>1, <2>2, <2>3 DEF Sent, Types, TypeOK, Steps
<1>9. CASE NotSent
    <2>1. Head(sending) \in Calls /\ sending' \in Seq(Calls)
        BY <1>9, Behind DEF NotSent, Types
    <2>2. /\ telling' = TRUE /\ step' \in [Calls -> Steps] /\ listening' \subseteq Messages
          /\ outcome' \in [Calls -> Outcomes] /\ timers' = timers
          /\ process' \in {"runs", "unhandled", "ended"}
        BY <1>9, <2>1, SendFailsTypes DEF NotSent
    <2>3. scenario' = scenario /\ faults' \in Nat
        BY <1>9, FaultTypes DEF NotSent, Types
    <2>. QED
        BY <1>9, <2>1, <2>2, <2>3 DEF NotSent, Types, TypeOK
<1>10. CASE Deliver
    <2>1. Head(buffer) \in Calls /\ buffer' \in Seq(Calls)
        BY <1>10, Behind DEF Deliver, Types
    <2>2. log' \in Seq(Calls)
        BY <1>10, <2>1, Appended DEF Deliver, Types
    <2>3. Report(Head(buffer), TRUE) \in [message : Calls, ok : BOOLEAN]
        BY <2>1 DEF Report
    <2>4. reports' \in Seq([message : Calls, ok : BOOLEAN])
        BY <1>10, <2>3, Appended DEF Deliver, Types
    <2>. QED
        BY <1>10, <2>1, <2>2, <2>4 DEF Deliver, Types, TypeOK
<1>11. CASE NotDelivered
    <2>1. Head(buffer) \in Calls /\ buffer' \in Seq(Calls)
        BY <1>11, Behind DEF NotDelivered, Types
    <2>2. Report(Head(buffer), FALSE) \in [message : Calls, ok : BOOLEAN]
        BY <2>1 DEF Report
    <2>3. reports' \in Seq([message : Calls, ok : BOOLEAN])
        BY <1>11, <2>2, Appended DEF NotDelivered, Types
    <2>4. scenario' = scenario /\ faults' \in Nat
        BY <1>11, FaultTypes DEF NotDelivered
    <2>. QED
        BY <1>11, <2>1, <2>3, <2>4 DEF NotDelivered, Types, TypeOK
<1>12. CASE DeliveryReport
    <2>1. reports' \in Seq([message : Calls, ok : BOOLEAN])
        BY <1>12, Behind DEF DeliveryReport, Types
    <2>2. outcome' \in [Calls -> Outcomes]
        BY <1>12 DEF DeliveryReport, Types, Outcomes
    <2>3. listening' \subseteq Messages /\ timers' \subseteq Messages
        BY <1>12 DEF DeliveryReport, Types, TypeOK
    <2>. QED
        BY <1>12, <2>1, <2>2, <2>3 DEF DeliveryReport, Types, TypeOK
<1>13. CASE DeliveryTimeout
    <2>1. PICK m \in timers : timers' = timers \ {m} /\ Settle(m, "rejected")
        BY <1>13 DEF DeliveryTimeout
    <2>2. outcome' \in [Calls -> Outcomes]
        BY <1>0, <2>1, AwaitsTypes DEF Types, TypeOK, Outcomes
    <2>. QED
        BY <1>13, <2>1, <2>2 DEF DeliveryTimeout, Types, TypeOK
<1>14. CASE stop
    BY <1>14 DEF stop, Types, TypeOK
<1>15. CASE Disconnected
    <2>1. << >> \in Seq(Calls) /\ << >> \in Seq([message : Calls, ok : BOOLEAN])
        OBVIOUS
    <2>2. scenario' = scenario /\ faults' \in Nat
        BY <1>15, FaultTypes DEF Disconnected, Types
    <2>3. producerConnected' = FALSE /\ errorListeners' = 0
        BY <1>15 DEF Disconnected, onDisconnected
    <2>4. CASE UNCHANGED <<producerConnecting, attempts, open, called, step, waitsFor>>
        BY <1>15, <2>1, <2>2, <2>3, <2>4 DEF Disconnected, Types, TypeOK
    <2>5. CASE /\ called' = Append(called, Starter)
               /\ step' = [step EXCEPT ![Starter] = "starting"]
               /\ IF producerConnecting THEN UNCHANGED <<producerConnecting, attempts, open>>
                  ELSE /\ producerConnecting' = TRUE
                       /\ attempts' = attempts + 1 /\ open' = open \cup {attempts + 1}
               /\ waitsFor' = [waitsFor EXCEPT ![Starter] = attempts']
        <3>1. /\ producerConnecting' \in BOOLEAN /\ attempts' \in Nat /\ open' \subseteq 1..attempts'
              /\ waitsFor' \in [Calls -> Nat] /\ \A d \in Calls : waitsFor'[d] \in 0..attempts'
            BY <1>0, <2>5, ConnTypes
        <3>2. called' \in Seq(Calls)
            BY <1>0, <2>5, Appended DEF Types
        <3>. QED
            BY <1>15, <2>1, <2>2, <2>3, <2>5, <3>1, <3>2 DEF Disconnected, Types, TypeOK, Steps
    <2>. QED
        BY <1>15, <2>4, <2>5 DEF Disconnected, onDisconnected
<1>16. CASE DisconnectFails
    <2>1. scenario' = scenario /\ faults' \in Nat
        BY <1>16, FaultTypes DEF DisconnectFails
    <2>. QED
        BY <1>16, <2>1 DEF DisconnectFails, Types, TypeOK
<1>17. CASE Continues
    <2>. DEFINE c == First("connected")
    <2>1. c \in Calls
        BY <1>17, FirstStands DEF Continues
    <2>2. CASE c = Starter
        <3>1. step' = [step EXCEPT ![c] = "resumed"] /\ Settle(c, "resolved") /\ UNCHANGED sending
            BY <1>17, <2>2 DEF Continues
        <3>2. outcome' \in [Calls -> Outcomes]
            BY <2>1, <3>1, AwaitsTypes DEF Outcomes
        <3>. QED
            BY <1>17, <3>1, <3>2 DEF Continues, Types, TypeOK, Steps
    <2>3. CASE c # Starter
        <3>1. step' = [step EXCEPT ![c] = "ready"] /\ sending' = Append(sending, c) /\ UNCHANGED outcome
            BY <1>17, <2>3 DEF Continues
        <3>2. sending' \in Seq(Calls)
            BY <2>1, <3>1, Appended DEF Types
        <3>. QED
            BY <1>17, <3>1, <3>2 DEF Continues, Types, TypeOK, Steps
    <2>. QED
        BY <2>2, <2>3
<1>18. CASE Returns \/ ProcessEnds
    BY <1>18 DEF Returns, ProcessEnds, Types, TypeOK, Steps
<1>19. CASE UNCHANGED vars
    BY <1>19 DEF vars, Types, TypeOK
<1>. QED
    BY <1>1, <1>2, <1>3, <1>4, <1>5, <1>6, <1>7, <1>8, <1>9, <1>10, <1>11, <1>12, <1>13,
       <1>14, <1>15, <1>16, <1>17, <1>18, <1>19 DEF Next

-----------------------------------------------------------------------------
(***************************************************************************)
(* What a confirmation stands for.                                         *)
(***************************************************************************)
LEMMA SettleOutcome ==
    ASSUME Types, NEW c, NEW o, Settle(c, o)
    PROVE  \A d \in Calls : outcome'[d] = outcome[d] \/ (d = c /\ outcome'[d] = o)
BY DEF Types, Settle

LEMMA KeepsConfirmed ==
    ASSUME Confirmed, scenario' = scenario, log' = log, reports' = reports,
           \A m \in Messages : Sync /\ outcome'[m] = "resolved" => outcome[m] = "resolved"
    PROVE  Confirmed'
BY DEF Confirmed, ReportsTrue, InLog, ConfirmedIsInTopic, Sync

LEMMA NextConfirmed == Types /\ Confirmed /\ [Next]_vars => Confirmed'
<1> SUFFICES ASSUME Types, Confirmed, [Next]_vars PROVE Confirmed'
    OBVIOUS
<1>. USE DEF bounds, conn, flow, settled, client
<1>0. Starter \notin Messages /\ Messages \subseteq Calls /\ Starter \in Calls
    BY ProducerAssumption DEF Calls
<1>1. CASE start
    <2>1. \A d \in Calls : d = Starter \/ outcome'[d] = outcome[d]
        BY <1>1, SettleOutcome DEF start
    <2>. QED
        BY <1>0, <1>1, <2>1, KeepsConfirmed DEF start
<1>2. CASE Connects
    BY <1>2, KeepsConfirmed DEF Connects
<1>3. CASE ConnectFails
    BY <1>3, KeepsConfirmed DEF ConnectFails, Fault
<1>4. CASE Refused
    <2>. DEFINE c == First("refused")
    <2>1. (Sync /\ UNCHANGED outcome) \/ Settle(c, "rejected")
        BY <1>4 DEF Refused, SendFails
    <2>2. \A d \in Calls : outcome'[d] = outcome[d] \/ outcome'[d] = "rejected"
        BY <2>1, SettleOutcome
    <2>. QED
        BY <1>0, <1>4, <2>2, KeepsConfirmed DEF Refused
<1>5. CASE KafkaError
    BY <1>5, KeepsConfirmed DEF KafkaError, Fault
<1>6. CASE onKafkaError
    BY <1>6, KeepsConfirmed DEF onKafkaError
<1>7. CASE \E m \in Messages : produceEvent(m)
    BY <1>7, KeepsConfirmed DEF produceEvent
<1>8. CASE Sent
    BY <1>8, KeepsConfirmed DEF Sent
<1>9. CASE NotSent
    <2>1. (Sync /\ UNCHANGED outcome) \/ Settle(Head(sending), "rejected")
        BY <1>9 DEF NotSent, SendFails
    <2>2. \A d \in Calls : outcome'[d] = outcome[d] \/ outcome'[d] = "rejected"
        BY <2>1, SettleOutcome
    <2>3. scenario' = scenario
        BY <1>9 DEF NotSent, Fault
    <2>. QED
        BY <1>0, <1>9, <2>2, <2>3, KeepsConfirmed DEF NotSent
<1>10. CASE Deliver
    <2>1. PICK m \in Calls : m = Head(buffer)
        BY <1>10, Behind DEF Deliver, Types
    <2>. DEFINE r == Report(m, TRUE)
    <2>2. log' = Append(log, m) /\ reports' = Append(reports, r) /\ UNCHANGED <<outcome, scenario>>
        BY <1>10, <2>1 DEF Deliver
    <2>3. r \in [message : Calls, ok : BOOLEAN] /\ r.message = m
        BY DEF Report
    <2>. HIDE DEF r
    <2>4. log \in Seq(Calls) /\ reports \in Seq([message : Calls, ok : BOOLEAN])
        BY DEF Types
    <2>5. /\ DOMAIN log = 1..Len(log) /\ DOMAIN log' = 1..(Len(log) + 1) /\ Len(log) \in Nat
          /\ \A i \in 1..Len(log) : log'[i] = log[i]
          /\ log'[Len(log) + 1] = m
        BY <2>2, <2>4, Appended
    <2>6. /\ DOMAIN reports = 1..Len(reports) /\ DOMAIN reports' = 1..(Len(reports) + 1)
          /\ \A i \in 1..Len(reports) : reports'[i] = reports[i]
          /\ reports'[Len(reports) + 1] = r /\ Len(reports) \in Nat
        BY <2>2, <2>3, <2>4, Appended
    <2>7. \A d : InLog(d) => InLog(d)'
        BY <2>5 DEF InLog
    <2>8. InLog(m)'
        BY <2>5 DEF InLog
    <2>9. ReportsTrue'
        <3>1. SUFFICES ASSUME NEW i \in 1..(Len(reports) + 1), reports'[i].ok
                       PROVE  \E k \in DOMAIN log' : log'[k] = reports'[i].message
            BY <2>6 DEF ReportsTrue, InLog
        <3>2. CASE i = Len(reports) + 1
            BY <2>3, <2>6, <2>8, <3>2 DEF InLog
        <3>3. CASE i \in 1..Len(reports)
            <4>1. InLog(reports[i].message) /\ reports'[i] = reports[i]
                BY <2>6, <3>1, <3>3 DEF Confirmed, ReportsTrue
            <4>. QED
                BY <2>7, <4>1 DEF InLog
        <3>. QED
            BY <2>6, <3>2, <3>3
    <2>10. ConfirmedIsInTopic'
        BY <2>2, <2>7 DEF Confirmed, ConfirmedIsInTopic, InLog, Sync
    <2>. QED
        BY <2>9, <2>10 DEF Confirmed
<1>11. CASE NotDelivered
    <2>1. PICK m \in Calls : m = Head(buffer)
        BY <1>11, Behind DEF NotDelivered, Types
    <2>. DEFINE r == Report(m, FALSE)
    <2>2. reports' = Append(reports, r) /\ UNCHANGED <<log, outcome, scenario>>
        BY <1>11, <2>1 DEF NotDelivered, Fault
    <2>3. r \in [message : Calls, ok : BOOLEAN] /\ ~r.ok
        BY DEF Report
    <2>. HIDE DEF r
    <2>4. reports \in Seq([message : Calls, ok : BOOLEAN])
        BY DEF Types
    <2>5. /\ DOMAIN reports = 1..Len(reports) /\ DOMAIN reports' = 1..(Len(reports) + 1)
          /\ \A i \in 1..Len(reports) : reports'[i] = reports[i]
          /\ reports'[Len(reports) + 1] = r /\ Len(reports) \in Nat
        BY <2>2, <2>3, <2>4, Appended
    <2>6. ReportsTrue'
        BY <2>2, <2>3, <2>5 DEF Confirmed, ReportsTrue, InLog
    <2>. QED
        BY <2>2, <2>6 DEF Confirmed, ConfirmedIsInTopic, Sync
<1>12. CASE DeliveryReport
    <2>. DEFINE r == Head(reports)
    <2>1. /\ reports # << >> /\ reports' = Tail(reports) /\ UNCHANGED <<log, scenario>>
          /\ outcome' = [c \in Calls |->
                IF c \notin deliveryListeners(r) \/ outcome[c] # "none" THEN outcome[c]
                ELSE IF r.ok THEN "resolved" ELSE "rejected"]
        BY <1>12 DEF DeliveryReport
    <2>2. /\ r = reports[1] /\ Len(reports) \in Nat \ {0} /\ DOMAIN reports = 1..Len(reports)
          /\ DOMAIN reports' = 1..(Len(reports) - 1)
          /\ \A i \in 1..(Len(reports) - 1) : reports'[i] = reports[i + 1]
        BY <2>1, Behind DEF Types
    <2>3. ReportsTrue'
        <3>1. SUFFICES ASSUME NEW i \in 1..(Len(reports) - 1), reports'[i].ok
                       PROVE  InLog(reports'[i].message)
            BY <2>1, <2>2 DEF ReportsTrue, InLog
        <3>2. i + 1 \in DOMAIN reports /\ reports'[i] = reports[i + 1]
            BY <2>2, <3>1
        <3>. QED
            BY <3>1, <3>2 DEF Confirmed, ReportsTrue
    <2>4. \A m \in Messages : outcome'[m] = "resolved" =>
            outcome[m] = "resolved" \/ (r.ok /\ m = r.message)
        BY <1>0, <2>1 DEF deliveryListeners
    <2>5. r.ok => InLog(r.message)
        BY <2>2 DEF Confirmed, ReportsTrue
    <2>6. ConfirmedIsInTopic'
        BY <2>1, <2>4, <2>5 DEF Confirmed, ConfirmedIsInTopic, InLog, Sync
    <2>. QED
        BY <2>3, <2>6 DEF Confirmed
<1>13. CASE DeliveryTimeout
    <2>1. PICK m \in timers : Settle(m, "rejected")
        BY <1>13 DEF DeliveryTimeout
    <2>2. \A d \in Calls : outcome'[d] = outcome[d] \/ outcome'[d] = "rejected"
        BY <2>1, SettleOutcome
    <2>. QED
        BY <1>0, <1>13, <2>2, KeepsConfirmed DEF DeliveryTimeout
<1>14. CASE stop
    BY <1>14, KeepsConfirmed DEF stop
<1>15. CASE Disconnected
    <2>1. reports' = << >> /\ UNCHANGED <<log, outcome, scenario>>
        BY <1>15 DEF Disconnected, Fault
    <2>2. ReportsTrue'
        BY <2>1 DEF ReportsTrue
    <2>. QED
        BY <2>1, <2>2 DEF Confirmed, ConfirmedIsInTopic, Sync
<1>16. CASE DisconnectFails
    BY <1>16, KeepsConfirmed DEF DisconnectFails, Fault
<1>17. CASE Continues
    <2>1. Settle(Starter, "resolved") \/ UNCHANGED outcome
        BY <1>17 DEF Continues
    <2>2. \A d \in Calls : d = Starter \/ outcome'[d] = outcome[d]
        BY <2>1, SettleOutcome
    <2>. QED
        BY <1>0, <1>17, <2>2, KeepsConfirmed DEF Continues
<1>18. CASE Returns \/ ProcessEnds
    BY <1>18, KeepsConfirmed DEF Returns, ProcessEnds
<1>19. CASE UNCHANGED vars
    BY <1>19, KeepsConfirmed DEF vars
<1>. QED
    BY <1>1, <1>2, <1>3, <1>4, <1>5, <1>6, <1>7, <1>8, <1>9, <1>10, <1>11, <1>12, <1>13,
       <1>14, <1>15, <1>16, <1>17, <1>18, <1>19 DEF Next

LEMMA NextUp == ConnectedIsUp /\ [Next]_vars => ConnectedIsUp'
<1> SUFFICES ASSUME ConnectedIsUp, [Next]_vars PROVE ConnectedIsUp'
    OBVIOUS
<1>. USE DEF ConnectedIsUp, conn, client
<1>1. CASE start
    BY <1>1 DEF start, _start
<1>2. CASE Connects
    BY <1>2 DEF Connects
<1>3. CASE ConnectFails \/ Continues \/ Returns \/ Refused \/ KafkaError \/ ProcessEnds
    BY <1>3 DEF ConnectFails, Continues, Returns, Refused, KafkaError, ProcessEnds
<1>4. CASE onKafkaError
    BY <1>4 DEF onKafkaError
<1>5. CASE \E m \in Messages : produceEvent(m)
    <2>1. PICK m \in Messages : produceEvent(m)
        BY <1>5
    <2>2. producerConnected' = producerConnected /\ up' = up
        BY <2>1 DEF produceEvent, _start
    <2>. QED
        BY <2>2
<1>6. CASE Sent \/ NotSent \/ Deliver \/ NotDelivered \/ DeliveryReport \/ DeliveryTimeout
    BY <1>6 DEF Sent, NotSent, Deliver, NotDelivered, DeliveryReport, DeliveryTimeout
<1>7. CASE stop \/ Disconnected \/ DisconnectFails
    BY <1>7 DEF stop, Disconnected, onDisconnected, DisconnectFails
<1>8. CASE UNCHANGED vars
    BY <1>8 DEF vars
<1>. QED
    BY <1>1, <1>2, <1>3, <1>4, <1>5, <1>6, <1>7, <1>8 DEF Next

-----------------------------------------------------------------------------
(***************************************************************************)
(* The calls, and what becomes of them.                                    *)
(***************************************************************************)
Waiting(c) == step[c] \in {"starting", "connected", "refused"}

\* A call begins; one that finds the connection is serialised.
Begins(c, s) ==
    /\ step[c] = "idle" /\ called' = Append(called, c) /\ step' = [step EXCEPT ![c] = s]
    /\ log' = log /\ (buffer' = buffer \/ buffer' = << >>)
    /\ sending' = sending \/ sending' = Append(sending, c)

\* Calls go on: none that waits was not waiting before.
GoOn ==
    /\ called' = called
    /\ \A c \in Calls : step[c] # "idle" => step'[c] # "idle"
    /\ \A c \in Calls : Waiting(c)' => Waiting(c)

\* A step of one call that was called, or was no call that waits.
LEMMA OneGoesOn ==
    ASSUME Types, NEW c \in Calls, NEW s \in Steps \ {"idle", "starting", "connected", "refused"},
           step' = [step EXCEPT ![c] = s], called' = called
    PROVE  GoOn
BY DEF Types, GoOn, Waiting

LEMMA BeginsOnce ==
    ASSUME Types, CalledOnce, NEW c \in Calls, NEW s \in Steps \ {"idle"}, Begins(c, s)
    PROVE  CalledOnce'
<1>. DEFINE n == Len(called)
<1>1. called \in Seq(Calls) /\ sending \in Seq(Calls) /\ called' = Append(called, c)
    BY DEF Types, Begins
<1>2. /\ n \in Nat /\ DOMAIN called = 1..n /\ DOMAIN called' = 1..(n + 1)
      /\ \A i \in 1..n : called'[i] = called[i] /\ called[i] \in Calls
      /\ called'[n + 1] = c
    BY <1>1, Appended
<1>3. step'[c] = s /\ \A d \in Calls : d # c => step'[d] = step[d]
    BY DEF Types, Begins
<1>4. \A i \in 1..n : called[i] # c
    BY <1>2 DEF CalledOnce, Begins
<1>5. \A i, j \in DOMAIN called' : called'[i] = called'[j] => i = j
    BY <1>2, <1>4 DEF CalledOnce
<1>6. \A i \in DOMAIN called' : step'[called'[i]] # "idle"
    BY <1>2, <1>3, <1>4 DEF CalledOnce
<1>7. Elems(called') = Elems(called) \cup {c}
    BY <1>1, AppendElems
<1>8. \A d \in Calls : step'[d] \in {"starting", "connected", "refused"} => d \in Elems(called')
    BY <1>3, <1>7 DEF CalledOnce
<1>9. Elems(buffer') \subseteq Elems(buffer)
    BY DEF Begins, Elems
<1>10. Elems(sending') \subseteq Elems(sending) \cup {c}
    <2>1. Elems(Append(sending, c)) = Elems(sending) \cup {c}
        BY <1>1, AppendElems
    <2>. QED
        BY <2>1 DEF Begins
<1>11. Elems(log') \cup Elems(buffer') \cup Elems(sending') \subseteq Elems(called')
    BY <1>7, <1>9, <1>10 DEF CalledOnce, Begins
<1>. QED
    BY <1>5, <1>6, <1>8, <1>11 DEF CalledOnce

LEMMA GoOnOnce ==
    ASSUME Types, CalledOnce, GoOn,
           Elems(log') \cup Elems(buffer') \cup Elems(sending') \subseteq Elems(called)
    PROVE  CalledOnce'
<1>1. \A i \in DOMAIN called : called[i] \in Calls
    BY LenProperties, ElementOfSeq DEF Types
<1>2. \A i \in DOMAIN called' : step'[called'[i]] # "idle"
    BY <1>1 DEF CalledOnce, GoOn
<1>. QED
    BY <1>2 DEF CalledOnce, GoOn, Waiting

\* A step that leaves the messages alone, or empties the buffer.
LEMMA GoOnAlone ==
    ASSUME Types, CalledOnce, GoOn, log' = log, buffer' = buffer \/ buffer' = << >>, sending' = sending
    PROVE  CalledOnce'
<1>1. Elems(buffer') \subseteq Elems(buffer)
    BY DEF Elems
<1>. QED
    BY <1>1, GoOnOnce DEF CalledOnce

LEMMA NextCalledOnce == Types /\ CalledOnce /\ [Next]_vars => CalledOnce'
<1> SUFFICES ASSUME Types, CalledOnce, [Next]_vars PROVE CalledOnce'
    OBVIOUS
<1>. USE DEF bounds, conn, flow, settled, client
<1>0. Starter \in Calls /\ Messages \subseteq Calls /\ {"starting", "ready"} \subseteq Steps \ {"idle"}
    BY DEF Calls, Steps
<1>1. CASE start
    <2>1. CASE producerConnected
        <3>1. GoOn
            BY <1>0, <1>1, <2>1, OneGoesOn DEF start, Steps
        <3>. QED
            BY <1>1, <2>1, <3>1, GoOnAlone DEF start
    <2>2. CASE ~producerConnected
        BY <1>0, <1>1, <2>2, BeginsOnce DEF start, _start, Begins
    <2>. QED
        BY <2>1, <2>2
<1>2. CASE Connects \/ ConnectFails
    <2>1. GoOn
        BY <1>2 DEF Connects, ConnectFails, Wakes, GoOn, Waiting, Types
    <2>. QED
        BY <1>2, <2>1, GoOnAlone DEF Connects, ConnectFails
<1>3. CASE Continues
    <2>1. PICK c \in Calls : c = First("connected") /\ step[c] = "connected"
        BY <1>3, FirstStands DEF Continues
    <2>2. \/ step' = [step EXCEPT ![c] = "resumed"] /\ sending' = sending
          \/ step' = [step EXCEPT ![c] = "ready"] /\ sending' = Append(sending, c)
        BY <1>3, <2>1 DEF Continues
    <2>3. UNCHANGED <<called, log, buffer>>
        BY <1>3 DEF Continues
    <2>4. GoOn
        BY <2>2, <2>3, OneGoesOn DEF Steps
    <2>5. Elems(Append(sending, c)) = Elems(sending) \cup {c}
        <3>1. sending \in Seq(Calls)
            BY DEF Types
        <3>. QED
            BY <3>1, AppendElems
    <2>6. c \in Elems(called)
        BY <2>1 DEF CalledOnce
    <2>7. Elems(sending') \subseteq Elems(called)
        BY <2>2, <2>5, <2>6 DEF CalledOnce
    <2>8. Elems(log') \cup Elems(buffer') \cup Elems(sending') \subseteq Elems(called)
        BY <2>3, <2>7 DEF CalledOnce
    <2>. QED
        BY <2>4, <2>8, GoOnOnce
<1>4. CASE Refused \/ Returns
    <2>1. PICK c \in Calls, s \in {"failed", "resumed", "done"} : step' = [step EXCEPT ![c] = s]
        BY <1>0, <1>4, FirstStands DEF Refused, SendFails, Returns
    <2>2. UNCHANGED <<called, log, buffer, sending>>
        BY <1>4 DEF Refused, Returns
    <2>3. GoOn
        BY <2>1, <2>2, OneGoesOn DEF Steps
    <2>. QED
        BY <2>2, <2>3, GoOnAlone
<1>5. CASE \/ KafkaError \/ onKafkaError \/ ProcessEnds \/ DeliveryReport \/ DeliveryTimeout
           \/ stop \/ DisconnectFails \/ UNCHANGED vars
    <2>1. UNCHANGED <<called, step, log, buffer, sending>>
        BY <1>5 DEF KafkaError, onKafkaError, ProcessEnds, DeliveryReport, DeliveryTimeout, stop,
                    DisconnectFails, vars
    <2>2. GoOn
        BY <2>1 DEF GoOn, Waiting
    <2>. QED
        BY <2>1, <2>2, GoOnAlone
<1>6. CASE \E m \in Messages : produceEvent(m)
    <2>1. PICK m \in Messages : produceEvent(m)
        BY <1>6
    <2>2. Begins(m, "ready") \/ Begins(m, "starting")
        BY <2>1 DEF produceEvent, _start, Begins
    <2>. QED
        BY <1>0, <2>2, BeginsOnce
<1>7. CASE Sent \/ NotSent
    <2>1. PICK m \in Calls : m = Head(sending) /\ Elems(sending) = {m} \cup Elems(Tail(sending))
        BY <1>7, Behind, TailElems DEF Sent, NotSent, Types
    <2>2. /\ step' = [step EXCEPT ![m] = "done"] \/ step' = [step EXCEPT ![m] = "failed"]
          /\ buffer' = buffer \/ buffer' = Append(buffer, m)
          /\ UNCHANGED <<called, log>> /\ sending' = Tail(sending)
        BY <1>7, <2>1 DEF Sent, NotSent, SendFails
    <2>3. GoOn
        BY <2>2, OneGoesOn DEF Steps
    <2>4. Elems(buffer') \subseteq Elems(buffer) \cup {m}
        <3>1. buffer \in Seq(Calls)
            BY DEF Types
        <3>2. Elems(Append(buffer, m)) = Elems(buffer) \cup {m}
            BY <3>1, AppendElems
        <3>. QED
            BY <2>2, <3>2
    <2>. QED
        BY <2>1, <2>2, <2>3, <2>4, GoOnOnce DEF CalledOnce
<1>8. CASE Deliver \/ NotDelivered
    <2>1. PICK m \in Calls : m = Head(buffer) /\ Elems(buffer) = {m} \cup Elems(Tail(buffer))
        BY <1>8, Behind, TailElems DEF Deliver, NotDelivered, Types
    <2>2. /\ buffer' = Tail(buffer) /\ UNCHANGED <<called, step, sending>>
          /\ log' = log \/ log' = Append(log, m)
        BY <1>8, <2>1 DEF Deliver, NotDelivered
    <2>3. GoOn
        BY <2>2 DEF GoOn, Waiting
    <2>4. Elems(log') \subseteq Elems(log) \cup {m}
        <3>1. log \in Seq(Calls)
            BY DEF Types
        <3>2. Elems(Append(log, m)) = Elems(log) \cup {m}
            BY <3>1, AppendElems
        <3>. QED
            BY <2>2, <3>2
    <2>. QED
        BY <2>1, <2>2, <2>3, <2>4, GoOnOnce DEF CalledOnce
<1>9. CASE Disconnected
    <2>1. buffer' = << >> /\ log' = log /\ sending' = sending
        BY <1>9 DEF Disconnected
    <2>2. UNCHANGED <<called, step>> \/ Begins(Starter, "starting")
        BY <1>9, <2>1 DEF Disconnected, onDisconnected, Begins
    <2>3. UNCHANGED <<called, step>> => GoOn
        BY DEF GoOn, Waiting
    <2>. QED
        BY <1>0, <2>1, <2>2, <2>3, BeginsOnce, GoOnAlone
<1>. QED
    BY <1>1, <1>2, <1>3, <1>4, <1>5, <1>6, <1>7, <1>8, <1>9 DEF Next

-----------------------------------------------------------------------------
(***************************************************************************)
(* One attempt at a time: what a rejection resets is reset before anything *)
(* else runs.                                                              *)
(***************************************************************************)
NoOneStarts == \A c \in Calls : step[c] # "starting"
NoOneConnected == \A c \in Calls : step[c] # "connected"

LEMMA NoneAt == ASSUME CalledOnce PROVE At("connected") = {} => NoOneConnected
BY DEF CalledOnce, At, NoOneConnected, Elems

\* A call that awaits the open attempt, or makes one.
LEMMA AwaitsOne ==
    ASSUME Types, OneAttempt, NoOneConnected, ~producerConnected', NEW c \in Calls,
           step' = [step EXCEPT ![c] = "starting"],
           IF producerConnecting THEN UNCHANGED <<producerConnecting, attempts, open>>
           ELSE /\ producerConnecting' = TRUE
                /\ attempts' = attempts + 1 /\ open' = open \cup {attempts + 1},
           waitsFor' = [waitsFor EXCEPT ![c] = attempts']
    PROVE  OneAttempt'
<1>1. open' = {attempts'} /\ producerConnecting' = TRUE /\ (open # {} => attempts' = attempts)
    BY DEF OneAttempt, Types, TypeOK
<1>2. step'[c] = "starting" /\ \A d \in Calls : d # c => step'[d] = step[d]
    BY DEF Types
<1>3. \A d \in Calls : waitsFor'[d] = IF d = c THEN attempts' ELSE waitsFor[d]
    BY DEF Types
<1>4. \A d \in Calls : step'[d] = "starting" => waitsFor'[d] \in open'
    <2>1. \A d \in Calls : d # c /\ step'[d] = "starting" => waitsFor[d] \in open
        BY <1>2 DEF OneAttempt
    <2>2. \A d \in Calls : d # c /\ step'[d] = "starting" => waitsFor[d] = attempts'
        BY <1>1, <2>1 DEF OneAttempt
    <2>. QED
        BY <1>1, <1>3, <2>2
<1>5. NoOneConnected'
    BY <1>2 DEF NoOneConnected
<1>. QED
    BY <1>1, <1>4, <1>5 DEF OneAttempt, NoOneConnected

LEMMA _startOne ==
    ASSUME Types, OneAttempt, ~producerConnected, NEW c \in Calls, _start(c)
    PROVE  OneAttempt' /\ NoOneConnected
<1>1. NoOneConnected
    BY DEF OneAttempt, NoOneConnected
<1>. QED
    BY <1>1, AwaitsOne DEF _start, connectToBroker

\* Calls go on, and no attempt is made nor ends.
LEMMA GoOnOne ==
    ASSUME Types, OneAttempt, UNCHANGED <<producerConnecting, attempts, open, waitsFor>>,
           producerConnected' => producerConnected,
           \/ NoOneConnected
           \/ producerConnected' = producerConnected /\ (telling' => telling),
           \A c \in Calls : step'[c] \in {"starting", "connected", "refused"} => step'[c] = step[c]
    PROVE  OneAttempt'
<1>1. \A c \in Calls : step'[c] = "starting" => waitsFor'[c] \in open'
    BY DEF OneAttempt
<1>2. \A c, d \in Calls : step'[c] = "connected" => producerConnected' /\ ~telling' /\ step'[d] # "refused"
    <2>1. SUFFICES ASSUME NEW c \in Calls, NEW d \in Calls, step'[c] = "connected"
                   PROVE  producerConnected' /\ ~telling' /\ step'[d] # "refused"
        OBVIOUS
    <2>2. step[c] = "connected"
        BY <2>1
    <2>3. producerConnected' = producerConnected /\ (telling' => telling)
        BY <2>2 DEF NoOneConnected
    <2>4. producerConnected /\ ~telling /\ step[d] # "refused"
        BY <2>2 DEF OneAttempt
    <2>. QED
        BY <2>3, <2>4
<1>. QED
    BY <1>1, <1>2 DEF OneAttempt

\* Whoever awaits the open attempt goes on when it ends.
LEMMA EndsOne ==
    ASSUME Types, OneAttempt, NEW p \in open, NEW s,
           open' = open \ {p}, attempts' = attempts, waitsFor' = waitsFor,
           producerConnecting' = FALSE, Wakes(p, s), s # "starting"
    PROVE  /\ open' = {} /\ NoOneStarts'
           /\ \A c \in Calls : step'[c] = IF step[c] = "starting" THEN s ELSE step[c]
<1>1. open = {p} /\ open' = {}
    BY DEF OneAttempt
<1>2. \A c \in Calls : step[c] = "starting" => waitsFor[c] = p
    BY <1>1 DEF OneAttempt
<1>. QED
    BY <1>1, <1>2 DEF NoOneStarts, Wakes

LEMMA NextOneAttempt == Types /\ CalledOnce /\ OneAttempt /\ [Next]_vars => OneAttempt'
<1> SUFFICES ASSUME Types, CalledOnce, OneAttempt, [Next]_vars PROVE OneAttempt'
    OBVIOUS
<1>. USE DEF bounds, conn, flow, settled, client
<1>0. Starter \in Calls /\ Messages \subseteq Calls
    BY DEF Calls
<1>1. CASE start
    <2>1. CASE producerConnected
        <3>1. \A c \in Calls : step'[c] \in {"starting", "connected", "refused"} => step'[c] = step[c]
            BY <1>0, <1>1, <2>1 DEF start, Types
        <3>. QED
            BY <1>1, <2>1, <3>1, GoOnOne DEF start
    <2>2. CASE ~producerConnected
        BY <1>0, <1>1, <2>2, _startOne DEF start
    <2>. QED
        BY <2>1, <2>2
<1>2. CASE Connects
    <2>1. PICK p \in open : open' = open \ {p} /\ Wakes(p, "connected")
        BY <1>2 DEF Connects
    <2>2. /\ UNCHANGED <<attempts, waitsFor, telling>>
          /\ producerConnecting' = FALSE /\ producerConnected' = TRUE /\ Quiet
        BY <1>2 DEF Connects
    <2>3. /\ open' = {} /\ NoOneStarts'
          /\ \A c \in Calls : step'[c] = IF step[c] = "starting" THEN "connected" ELSE step[c]
        BY <2>1, <2>2, EndsOne
    <2>4. ~telling /\ \A c \in Calls : step[c] # "refused"
        BY <2>2 DEF Quiet, Resumed, CalledOnce, At, Elems
    <2>. QED
        BY <2>2, <2>3, <2>4 DEF OneAttempt, NoOneStarts
<1>3. CASE ConnectFails
    <2>1. PICK p \in open : open' = open \ {p} /\ Wakes(p, "refused")
        BY <1>3 DEF ConnectFails
    <2>2. /\ UNCHANGED <<attempts, waitsFor, telling, producerConnected>>
          /\ producerConnecting' = FALSE /\ Quiet
        BY <1>3 DEF ConnectFails
    <2>3. /\ open' = {} /\ NoOneStarts'
          /\ \A c \in Calls : step'[c] = IF step[c] = "starting" THEN "refused" ELSE step[c]
        BY <2>1, <2>2, EndsOne
    <2>4. NoOneConnected
        BY <2>2, NoneAt DEF Quiet, Resumed
    <2>. QED
        BY <2>2, <2>3, <2>4 DEF OneAttempt, NoOneStarts, NoOneConnected
<1>4. CASE Continues \/ Returns
    <2>1. PICK c \in Calls, s \in {"resumed", "ready", "done"} : step' = [step EXCEPT ![c] = s]
        BY <1>0, <1>4, FirstStands DEF Continues, Returns
    <2>2. \A d \in Calls : step'[d] \in {"starting", "connected", "refused"} => step'[d] = step[d]
        BY <2>1 DEF Types
    <2>. QED
        BY <1>4, <2>2, GoOnOne DEF Continues, Returns
<1>5. CASE Refused
    <2>1. PICK c \in Calls, s \in {"resumed", "failed"} :
            step[c] = "refused" /\ step' = [step EXCEPT ![c] = s]
        BY <1>0, <1>5, FirstStands DEF Refused, SendFails
    <2>2. NoOneConnected
        BY <2>1 DEF OneAttempt, NoOneConnected
    <2>3. \A d \in Calls : step'[d] \in {"starting", "connected", "refused"} => step'[d] = step[d]
        BY <2>1 DEF Types
    <2>. QED
        BY <1>5, <2>2, <2>3, GoOnOne DEF Refused
<1>6. CASE \/ KafkaError \/ onKafkaError \/ ProcessEnds \/ DeliveryReport \/ DeliveryTimeout
           \/ stop \/ DisconnectFails \/ Deliver \/ NotDelivered \/ UNCHANGED vars
    <2>1. NoOneConnected \/ UNCHANGED <<telling, producerConnected>>
        BY <1>6, NoneAt DEF KafkaError, Quiet, Resumed, onKafkaError, OneAttempt, NoOneConnected,
            ProcessEnds, DeliveryReport, DeliveryTimeout, stop, DisconnectFails, Deliver, NotDelivered, vars
    <2>2. UNCHANGED <<producerConnecting, attempts, open, waitsFor, step>>
        BY <1>6 DEF KafkaError, onKafkaError, ProcessEnds, DeliveryReport, DeliveryTimeout, stop,
            DisconnectFails, Deliver, NotDelivered, vars
    <2>3. producerConnected' => producerConnected
        BY <1>6 DEF KafkaError, onKafkaError, ProcessEnds, DeliveryReport, DeliveryTimeout, stop,
            DisconnectFails, Deliver, NotDelivered, vars
    <2>. QED
        BY <2>1, <2>2, <2>3, GoOnOne
<1>7. CASE \E m \in Messages : produceEvent(m)
    <2>1. PICK m \in Messages : produceEvent(m)
        BY <1>7
    <2>2. CASE producerConnected
        <3>1. step' = [step EXCEPT ![m] = "ready"] /\ UNCHANGED <<conn, waitsFor, telling>>
            BY <2>1, <2>2 DEF produceEvent
        <3>2. \A c \in Calls : step'[c] \in {"starting", "connected", "refused"} => step'[c] = step[c]
            BY <1>0, <3>1 DEF Types
        <3>. QED
            BY <3>1, <3>2, GoOnOne
    <2>3. CASE ~producerConnected
        BY <1>0, <2>1, <2>3, _startOne DEF produceEvent
    <2>. QED
        BY <2>2, <2>3
<1>8. CASE Sent \/ NotSent
    <2>1. PICK c \in Calls : c = Head(sending)
        BY <1>8, Behind DEF Sent, NotSent, Types
    <2>2. PICK s \in {"done", "failed"} : step' = [step EXCEPT ![c] = s]
        BY <1>8, <2>1 DEF Sent, NotSent, SendFails
    <2>3. NoOneConnected
        BY <1>8, NoneAt DEF Sent, NotSent, Resumed
    <2>4. \A d \in Calls : step'[d] \in {"starting", "connected", "refused"} => step'[d] = step[d]
        BY <2>2 DEF Types
    <2>. QED
        BY <1>8, <2>3, <2>4, GoOnOne DEF Sent, NotSent
<1>9. CASE Disconnected
    <2>1. NoOneConnected /\ ~producerConnected'
        BY <1>9, NoneAt DEF Disconnected, onDisconnected, Quiet, Resumed
    <2>2. CASE UNCHANGED <<producerConnecting, attempts, open, called, step, waitsFor>>
        BY <2>1, <2>2, GoOnOne
    <2>3. CASE /\ step' = [step EXCEPT ![Starter] = "starting"]
               /\ IF producerConnecting THEN UNCHANGED <<producerConnecting, attempts, open>>
                  ELSE /\ producerConnecting' = TRUE
                       /\ attempts' = attempts + 1 /\ open' = open \cup {attempts + 1}
               /\ waitsFor' = [waitsFor EXCEPT ![Starter] = attempts']
        BY <1>0, <2>1, <2>3, AwaitsOne
    <2>. QED
        BY <1>9, <2>2, <2>3 DEF Disconnected, onDisconnected
<1>. QED
    BY <1>1, <1>2, <1>3, <1>4, <1>5, <1>6, <1>7, <1>8, <1>9 DEF Next

-----------------------------------------------------------------------------
(***************************************************************************)
(* The order, over any relation R of what may come before what.            *)
(***************************************************************************)
LEMMA Grows ==
    ASSUME NEW R, NEW S, NEW s \in Seq(S), NEW e \in S, Sorted(R, s), Elems(s) \X {e} \subseteq R
    PROVE  Sorted(R, Append(s, e)) /\ Elems(Append(s, e)) = Elems(s) \cup {e}
<1>. DEFINE n == Len(s)
            t == Append(s, e)
<1>1. /\ n \in Nat /\ DOMAIN s = 1..n /\ DOMAIN t = 1..(n + 1)
      /\ \A i \in 1..n : t[i] = s[i]
      /\ t[n + 1] = e
    BY Appended
<1>. HIDE DEF t
<1>2. ASSUME NEW i \in 1..(n + 1), NEW j \in 1..(n + 1), i < j PROVE <<t[i], t[j]>> \in R
    <2>1. i \in 1..n
        BY <1>1, <1>2
    <2>2. CASE j = n + 1
        <3>1. s[i] \in Elems(s)
            BY <1>1, <2>1 DEF Elems
        <3>. QED
            BY <1>1, <2>1, <2>2, <3>1
    <2>3. CASE j \in 1..n
        BY <1>1, <1>2, <2>1, <2>3 DEF Sorted
    <2>. QED
        BY <1>1, <2>2, <2>3
<1>3. Sorted(R, t)
    BY <1>1, <1>2 DEF Sorted
<1>. QED
    BY <1>3, AppendElems DEF t

LEMMA Shrinks ==
    ASSUME NEW R, NEW S, NEW s \in Seq(S), s # << >>, Sorted(R, s)
    PROVE  /\ Sorted(R, Tail(s)) /\ Elems(s) = {Head(s)} \cup Elems(Tail(s))
           /\ {Head(s)} \X Elems(Tail(s)) \subseteq R
<1>. DEFINE n == Len(s)
            t == Tail(s)
<1>1. /\ Head(s) = s[1] /\ n \in Nat \ {0} /\ DOMAIN s = 1..n /\ DOMAIN t = 1..(n - 1)
      /\ \A i \in 1..(n - 1) : t[i] = s[i + 1]
    BY Behind
<1>. HIDE DEF t
<1>2. \A i \in 1..(n - 1) : 1 \in 1..n /\ i + 1 \in 1..n /\ 1 < i + 1
    BY <1>1
<1>3. ASSUME NEW i \in 1..(n - 1), NEW j \in 1..(n - 1), i < j PROVE <<t[i], t[j]>> \in R
    <2>1. i + 1 \in 1..n /\ j + 1 \in 1..n /\ i + 1 < j + 1
        BY <1>1, <1>3
    <2>. QED
        BY <1>1, <2>1 DEF Sorted
<1>4. ASSUME NEW i \in 1..(n - 1) PROVE <<s[1], t[i]>> \in R
    BY <1>1, <1>2, <1>4 DEF Sorted
<1>5. Sorted(R, t)
    BY <1>1, <1>3 DEF Sorted
<1>6. {Head(s)} \X Elems(t) \subseteq R
    BY <1>1, <1>4 DEF Elems
<1>. QED
    BY <1>5, <1>6, TailElems DEF t

\* More may come before more, and fewer calls wait.
LEMMA OrderSub ==
    ASSUME NEW R, NEW Q, R \subseteq Q, NEW l, NEW b, NEW s, NEW w, NEW v, v \subseteq w,
           Order(R, l, b, s, w)
    PROVE  Order(Q, l, b, s, v) /\ Order(Q, l, << >>, s, v)
<1>1. Sorted(Q, l) /\ Sorted(Q, b) /\ Sorted(Q, s) /\ Sorted(Q, << >>)
    BY DEF Order, Sorted
<1>2. Elems(<< >>) = {}
    BY DEF Elems
<1>. QED
    BY <1>1, <1>2 DEF Order

\* A call begins to wait.
LEMMA OrderWaits ==
    ASSUME NEW R, NEW l, NEW b, NEW s, NEW w, NEW e, Order(R, l, b, s, w),
           (Elems(l) \cup Elems(b) \cup Elems(s)) \X {e} \subseteq R
    PROVE  Order(R, l, b, s, w \cup {e})
BY DEF Order

\* A message is serialised.
LEMMA OrderSerialised ==
    ASSUME NEW R, NEW S, NEW l, NEW b, NEW s \in Seq(S), NEW w, NEW e \in S, Order(R, l, b, s, w),
           (Elems(l) \cup Elems(b) \cup Elems(s)) \X {e} \subseteq R, {e} \X w \subseteq R
    PROVE  Order(R, l, b, Append(s, e), w)
<1>1. Sorted(R, Append(s, e)) /\ Elems(Append(s, e)) = Elems(s) \cup {e}
    BY Grows DEF Order
<1>. QED
    BY <1>1 DEF Order

\* The first message that was serialised is taken by the client, or not.
LEMMA OrderSent ==
    ASSUME NEW R, NEW S, NEW l, NEW b \in Seq(S), NEW s \in Seq(S), NEW w, s # << >>,
           Order(R, l, b, s, w)
    PROVE  Order(R, l, b, Tail(s), w) /\ Order(R, l, Append(b, Head(s)), Tail(s), w)
<1>1. /\ Sorted(R, Tail(s)) /\ Elems(s) = {Head(s)} \cup Elems(Tail(s))
      /\ {Head(s)} \X Elems(Tail(s)) \subseteq R /\ Head(s) \in S
    BY Shrinks, Behind DEF Order
<1>2. Order(R, l, b, Tail(s), w)
    BY <1>1 DEF Order
<1>3. Elems(b) \X {Head(s)} \subseteq R /\ Sorted(R, b)
    BY <1>1 DEF Order
<1>4. Sorted(R, Append(b, Head(s))) /\ Elems(Append(b, Head(s))) = Elems(b) \cup {Head(s)}
    BY <1>1, <1>3, Grows
<1>5. Order(R, l, Append(b, Head(s)), Tail(s), w)
    BY <1>1, <1>4 DEF Order
<1>. QED
    BY <1>2, <1>5

\* The first message of the buffer leaves it, into the topic or not.
LEMMA OrderLeaves ==
    ASSUME NEW R, NEW S, NEW l \in Seq(S), NEW b \in Seq(S), NEW s, NEW w, b # << >>,
           Order(R, l, b, s, w)
    PROVE  Order(R, l, Tail(b), s, w) /\ Order(R, Append(l, Head(b)), Tail(b), s, w)
<1>1. /\ Sorted(R, Tail(b)) /\ Elems(b) = {Head(b)} \cup Elems(Tail(b))
      /\ {Head(b)} \X Elems(Tail(b)) \subseteq R /\ Head(b) \in S
    BY Shrinks, Behind DEF Order
<1>2. Order(R, l, Tail(b), s, w)
    BY <1>1 DEF Order
<1>3. Elems(l) \X {Head(b)} \subseteq R /\ Sorted(R, l)
    BY <1>1 DEF Order
<1>4. Sorted(R, Append(l, Head(b))) /\ Elems(Append(l, Head(b))) = Elems(l) \cup {Head(b)}
    BY <1>1, <1>3, Grows
<1>5. Order(R, Append(l, Head(b)), Tail(b), s, w)
    BY <1>1, <1>4 DEF Order
<1>. QED
    BY <1>2, <1>5

-----------------------------------------------------------------------------
(***************************************************************************)
(* The order of the calls.                                                 *)
(***************************************************************************)
LEMMA MayKeeps == ASSUME called' = called, overtook' = overtook PROVE May' = May
BY DEF May, Before

\* What is called now comes after all that was called before.
LEMMA MayBegins ==
    ASSUME Types, NEW c \in Calls, called' = Append(called, c), overtook \subseteq overtook'
    PROVE  May \subseteq May' /\ Elems(called) \X {c} \subseteq May'
<1>. DEFINE n == Len(called)
<1>1. /\ n \in Nat /\ DOMAIN called = 1..n /\ DOMAIN called' = 1..(n + 1)
      /\ \A i \in 1..n : called'[i] = called[i] /\ called[i] \in Calls
      /\ called'[n + 1] = c
    BY Appended DEF Types
<1>2. ASSUME NEW d, NEW e, Before(d, e) PROVE \E i, j \in DOMAIN called' : i < j /\ called'[i] = d /\ called'[j] = e
    <2>1. PICK i \in DOMAIN called, j \in DOMAIN called : i < j /\ called[i] = d /\ called[j] = e
        BY <1>2 DEF Before
    <2>2. i \in DOMAIN called' /\ j \in DOMAIN called' /\ called'[i] = d /\ called'[j] = e
        BY <1>1, <2>1
    <2>. QED
        BY <2>1, <2>2
<1>3. May \subseteq May'
    BY <1>2 DEF May, Before
<1>4. ASSUME NEW d \in Elems(called) PROVE <<d, c>> \in May'
    <2>1. PICK i \in 1..n : called[i] = d
        BY <1>1 DEF Elems
    <2>2. i \in DOMAIN called' /\ n + 1 \in DOMAIN called' /\ i < n + 1 /\ called'[i] = d /\ d \in Calls
        BY <1>1, <2>1
    <2>3. \E k, l \in DOMAIN called' : k < l /\ called'[k] = d /\ called'[l] = c
        BY <1>1, <2>2
    <2>. QED
        BY <2>2, <2>3 DEF May, Before
<1>. QED
    BY <1>3, <1>4

\* Calls go on, but none to wait; the buffer is left alone, or emptied.
LEMMA GoOnOrder ==
    ASSUME InOrder, May \subseteq May', Later' \subseteq Later, log' = log, sending' = sending,
           buffer' = buffer \/ buffer' = << >>
    PROVE  InOrder'
BY OrderSub DEF InOrder

\* A call begins to wait.
LEMMA StartOrder ==
    ASSUME Types, CalledOnce, InOrder, NEW c \in Calls, Begins(c, "starting"),
           overtook \subseteq overtook', sending' = sending
    PROVE  InOrder'
<1>1. May \subseteq May' /\ Elems(called) \X {c} \subseteq May'
    BY MayBegins DEF Begins
<1>2. Later' = Later \cup {c}
    BY DEF Later, Begins, Types
<1>3. Order(May', log, buffer', sending, Later)
    BY <1>1, OrderSub DEF InOrder, Begins
<1>4. Elems(buffer') \subseteq Elems(buffer)
    BY DEF Begins, Elems
<1>5. (Elems(log) \cup Elems(buffer') \cup Elems(sending)) \X {c} \subseteq May'
    BY <1>1, <1>4 DEF CalledOnce
<1>6. Order(May', log, buffer', sending, Later \cup {c})
    BY <1>3, <1>5, OrderWaits
<1>. QED
    BY <1>2, <1>6 DEF InOrder, Begins

LEMMA NextOrder ==
    Types /\ CalledOnce /\ OneAttempt /\ InOrder /\ [Next]_vars => InOrder'
<1> SUFFICES ASSUME Types, CalledOnce, OneAttempt, InOrder, [Next]_vars PROVE InOrder'
    OBVIOUS
<1>. USE DEF bounds, conn, flow, settled, client
<1>0. Starter \in Calls /\ Messages \subseteq Calls
    BY DEF Calls
<1>1. CASE start
    <2>1. CASE producerConnected
        <3>1. UNCHANGED <<called, overtook, log, buffer, sending>> /\ step' = [step EXCEPT ![Starter] = "done"]
            BY <1>1, <2>1 DEF start
        <3>2. Later' \subseteq Later
            BY <1>0, <3>1 DEF Later, Types
        <3>. QED
            BY <3>1, <3>2, MayKeeps, GoOnOrder
    <2>2. CASE ~producerConnected
        BY <1>0, <1>1, <2>2, StartOrder DEF start, _start, Begins
    <2>. QED
        BY <2>1, <2>2
<1>2. CASE Connects \/ ConnectFails \/ Refused \/ Returns
    <2>1. UNCHANGED <<called, overtook, log, buffer, sending>>
        BY <1>2 DEF Connects, ConnectFails, Refused, Returns
    <2>2. Later' \subseteq Later
        <3>1. CASE Connects \/ ConnectFails
            BY <3>1 DEF Connects, ConnectFails, Wakes, Later
        <3>2. CASE Refused \/ Returns
            <4>1. PICK c \in Calls, s \in {"failed", "resumed", "done"} : step' = [step EXCEPT ![c] = s]
                BY <1>0, <3>2, FirstStands DEF Refused, SendFails, Returns
            <4>. QED
                BY <4>1 DEF Later, Types
        <3>. QED
            BY <1>2, <3>1, <3>2
    <2>. QED
        BY <2>1, <2>2, MayKeeps, GoOnOrder
<1>3. CASE Continues
    <2>1. PICK c \in Calls : c = First("connected") /\ step[c] = "connected"
        BY <1>3, FirstStands DEF Continues
    <2>2. UNCHANGED <<called, overtook, log, buffer>>
        BY <1>3 DEF Continues
    <2>3. CASE c = Starter
        <3>1. step' = [step EXCEPT ![c] = "resumed"] /\ sending' = sending
            BY <1>3, <2>1, <2>3 DEF Continues
        <3>2. Later' \subseteq Later
            BY <3>1 DEF Later, Types
        <3>. QED
            BY <2>2, <3>1, <3>2, MayKeeps, GoOnOrder
    <2>4. CASE c # Starter
        <3>1. step' = [step EXCEPT ![c] = "ready"] /\ sending' = Append(sending, c)
            BY <1>3, <2>1, <2>4 DEF Continues
        <3>2. Later' = Later \ {c} /\ c \in Later
            BY <2>1, <3>1 DEF Later, Types
        <3>3. ASSUME NEW d \in Later \ {c} PROVE <<c, d>> \in May
            <4>1. producerConnected /\ open = {}
                BY <2>1 DEF OneAttempt
            <4>2. step[d] = "connected"
                BY <3>3, <4>1 DEF Later, OneAttempt
            <4>3. PICK i \in At("connected") : c = called[i] /\ \A j \in At("connected") : i <= j
                BY <1>3, <2>1, FirstStands DEF Continues
            <4>4. PICK j \in DOMAIN called : called[j] = d
                BY <3>3, <4>2 DEF CalledOnce, Elems, Later
            <4>5. i \in DOMAIN called /\ i <= j /\ i # j
                BY <3>3, <4>2, <4>3, <4>4 DEF At
            <4>6. DOMAIN called \subseteq Nat
                BY LenProperties DEF Types
            <4>7. i < j
                BY <4>4, <4>5, <4>6
            <4>8. Before(c, d)
                BY <4>3, <4>4, <4>5, <4>7 DEF Before
            <4>. QED
                BY <3>3, <4>8 DEF May, Later
        <3>4. (Elems(log) \cup Elems(buffer) \cup Elems(sending)) \X {c} \subseteq May
            BY <3>2 DEF InOrder, Order
        <3>5. Order(May, log, buffer, sending, Later \ {c})
            BY OrderSub DEF InOrder
        <3>6. Order(May, log, buffer, Append(sending, c), Later \ {c})
            <4>1. sending \in Seq(Calls)
                BY DEF Types
            <4>2. {c} \X (Later \ {c}) \subseteq May
                BY <3>3
            <4>. QED
                BY <3>4, <3>5, <4>1, <4>2, OrderSerialised
        <3>. QED
            BY <2>2, <3>1, <3>2, <3>6, MayKeeps DEF InOrder
    <2>. QED
        BY <2>3, <2>4
<1>4. CASE \/ KafkaError \/ onKafkaError \/ ProcessEnds \/ DeliveryReport \/ DeliveryTimeout
           \/ stop \/ DisconnectFails \/ UNCHANGED vars
    <2>1. UNCHANGED <<called, overtook, step, log, buffer, sending>>
        BY <1>4 DEF KafkaError, onKafkaError, ProcessEnds, DeliveryReport, DeliveryTimeout, stop,
                    DisconnectFails, vars
    <2>2. Later' = Later
        BY <2>1 DEF Later
    <2>. QED
        BY <2>1, <2>2, MayKeeps, GoOnOrder
<1>5. CASE \E m \in Messages : produceEvent(m)
    <2>1. PICK m \in Messages : produceEvent(m)
        BY <1>5
    <2>2. overtook' = overtook \cup {<<m, called[i]>> : i \in At("connected")}
        BY <2>1 DEF produceEvent
    <2>3. CASE producerConnected
        <3>1. /\ called' = Append(called, m) /\ step' = [step EXCEPT ![m] = "ready"]
              /\ sending' = Append(sending, m) /\ UNCHANGED <<log, buffer>> /\ step[m] = "idle"
            BY <2>1, <2>3 DEF produceEvent
        <3>2. May \subseteq May' /\ Elems(called) \X {m} \subseteq May'
            BY <1>0, <2>2, <3>1, MayBegins
        <3>3. Later' = Later
            BY <1>0, <3>1 DEF Later, Types
        <3>4. ASSUME NEW d \in Later PROVE <<m, d>> \in May'
            <4>1. step[d] = "connected"
                BY <2>3, <3>4 DEF Later, OneAttempt
            <4>2. PICK i \in DOMAIN called : called[i] = d
                BY <3>4, <4>1 DEF CalledOnce, Elems, Later
            <4>3. i \in At("connected")
                BY <4>1, <4>2 DEF At
            <4>. QED
                BY <2>2, <4>2, <4>3 DEF May
        <3>5. Order(May', log, buffer, sending, Later)
            BY <3>2, OrderSub DEF InOrder
        <3>6. (Elems(log) \cup Elems(buffer) \cup Elems(sending)) \X {m} \subseteq May'
            BY <3>2 DEF CalledOnce
        <3>7. Order(May', log, buffer, Append(sending, m), Later)
            <4>1. sending \in Seq(Calls) /\ m \in Calls
                BY <1>0 DEF Types
            <4>2. {m} \X Later \subseteq May'
                BY <3>4
            <4>. QED
                BY <3>5, <3>6, <4>1, <4>2, OrderSerialised
        <3>. QED
            BY <3>1, <3>3, <3>7 DEF InOrder
    <2>4. CASE ~producerConnected
        <3>1. Begins(m, "starting") /\ sending' = sending
            BY <2>1, <2>4 DEF produceEvent, _start, Begins
        <3>. QED
            BY <1>0, <2>2, <3>1, StartOrder
    <2>. QED
        BY <2>3, <2>4
<1>6. CASE Sent \/ NotSent
    <2>1. PICK c \in Calls : c = Head(sending)
        BY <1>6, Behind DEF Sent, NotSent, Types
    <2>2. /\ step' = [step EXCEPT ![c] = "done"] \/ step' = [step EXCEPT ![c] = "failed"]
          /\ buffer' = buffer \/ buffer' = Append(buffer, Head(sending))
          /\ UNCHANGED <<called, overtook, log>> /\ sending # << >> /\ sending' = Tail(sending)
        BY <1>6, <2>1 DEF Sent, NotSent, SendFails
    <2>3. Later' \subseteq Later
        BY <2>2 DEF Later, Types
    <2>4. Order(May, log, buffer', Tail(sending), Later)
        <3>1. buffer \in Seq(Calls) /\ sending \in Seq(Calls)
            BY DEF Types
        <3>2. /\ Order(May, log, buffer, Tail(sending), Later)
              /\ Order(May, log, Append(buffer, Head(sending)), Tail(sending), Later)
            BY <2>2, <3>1, OrderSent DEF InOrder
        <3>. QED
            BY <2>2, <3>2
    <2>5. Order(May, log, buffer', Tail(sending), Later')
        BY <2>3, <2>4, OrderSub
    <2>. QED
        BY <2>2, <2>5, MayKeeps DEF InOrder
<1>7. CASE Deliver \/ NotDelivered
    <2>1. /\ buffer # << >> /\ buffer' = Tail(buffer) /\ UNCHANGED <<called, overtook, step, sending>>
          /\ log' = log \/ log' = Append(log, Head(buffer))
        BY <1>7 DEF Deliver, NotDelivered
    <2>2. Order(May, log', Tail(buffer), sending, Later)
        BY <2>1, OrderLeaves DEF InOrder, Types
    <2>3. Later' = Later
        BY <2>1 DEF Later
    <2>. QED
        BY <2>1, <2>2, <2>3, MayKeeps DEF InOrder
<1>8. CASE Disconnected
    <2>1. buffer' = << >> /\ UNCHANGED <<log, sending, overtook>>
        BY <1>8 DEF Disconnected
    <2>2. UNCHANGED <<called, step>> \/ Begins(Starter, "starting")
        BY <1>8, <2>1 DEF Disconnected, onDisconnected, Begins
    <2>3. CASE UNCHANGED <<called, step>>
        BY <2>1, <2>3, MayKeeps, GoOnOrder DEF Later
    <2>4. CASE Begins(Starter, "starting")
        BY <1>0, <2>1, <2>4, StartOrder
    <2>. QED
        BY <2>2, <2>3, <2>4
<1>. QED
    BY <1>1, <1>2, <1>3, <1>4, <1>5, <1>6, <1>7, <1>8 DEF Next

-----------------------------------------------------------------------------
IInv == Types /\ CalledOnce /\ Confirmed /\ ConnectedIsUp /\ OneAttempt /\ InOrder

LEMMA InitIInv == Init => IInv
<1> SUFFICES ASSUME Init PROVE IInv
    OBVIOUS
<1>1. Types
    BY InitTypes
<1>2. DOMAIN called = {} /\ DOMAIN log = {} /\ DOMAIN buffer = {} /\ DOMAIN sending = {} /\ DOMAIN reports = {}
    BY DEF Init
<1>3. CalledOnce
    BY <1>2 DEF Init, CalledOnce, Elems
<1>4. Confirmed /\ ConnectedIsUp
    BY <1>2 DEF Init, Confirmed, ReportsTrue, ConfirmedIsInTopic, ConnectedIsUp, Calls
<1>5. OneAttempt
    BY DEF Init, OneAttempt
<1>6. InOrder
    BY <1>2 DEF InOrder, Order, Sorted, Elems
<1>. QED
    BY <1>1, <1>3, <1>4, <1>5, <1>6 DEF IInv

LEMMA NextIInv == IInv /\ [Next]_vars => IInv'
BY NextTypes, NextCalledOnce, NextConfirmed, NextUp, NextOneAttempt, NextOrder DEF IInv

LEMMA SpecIInv == Spec => []IInv
BY InitIInv, NextIInv, PTL DEF Spec

\* The types; a call awaits the promise of an attempt that was made.
THEOREM KafkaProducerTypeOK == Spec => []TypeOK
<1>1. IInv => TypeOK
    BY DEF IInv, Types
<1>. QED
    BY <1>1, SpecIInv, PTL

\* A confirmed message of SynchronousProducer is in the topic.
THEOREM KafkaProducerConfirms == Spec => []ConfirmedIsInTopic
<1>1. IInv => ConfirmedIsInTopic
    BY DEF IInv, Confirmed
<1>. QED
    BY <1>1, SpecIInv, PTL

\* producerConnected is set only while the client is connected.
THEOREM KafkaProducerConnected == Spec => []ConnectedIsUp
<1>1. IInv => ConnectedIsUp
    BY DEF IInv
<1>. QED
    BY <1>1, SpecIInv, PTL

\* The topic has the messages in the order of the calls of produceEvent, but
\* for those that the owner called as its start() returned, which come before
\* earlier ones that waited for the same connection.
THEOREM KafkaProducerOrder == Spec => []TakenInOrder
<1>1. IInv => TakenInOrder
    <2>1. SUFFICES ASSUME IInv, NEW i \in DOMAIN log, NEW j \in DOMAIN log, i < j,
                          <<log[i], log[j]>> \notin overtook
                   PROVE  place(log[i]) < place(log[j])
        BY DEF TakenInOrder
    <2>2. <<log[i], log[j]>> \in May
        BY <2>1 DEF IInv, InOrder, Order, Sorted
    <2>3. PICK k \in DOMAIN called, l \in DOMAIN called : k < l /\ called[k] = log[i] /\ called[l] = log[j]
        BY <2>1, <2>2 DEF May, Before
    <2>4. \A k1, l1 \in DOMAIN called : called[k1] = called[l1] => k1 = l1
        BY <2>1 DEF IInv, CalledOnce
    <2>5. place(log[i]) = k /\ place(log[j]) = l
        BY <2>3, <2>4 DEF place
    <2>. QED
        BY <2>3, <2>5
<1>. QED
    BY <1>1, SpecIInv, PTL
==============================================================================
