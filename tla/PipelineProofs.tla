--------------------------- MODULE PipelineProofs ---------------------------
(***************************************************************************)
(* Proofs about Pipeline, for any chain, faults and blocks: its type       *)
(* invariant, that the transformer drops no block, and that the service's  *)
(* collection is in step with the chain.                                   *)
(*                                                                         *)
(* The argument for the second: the queue of the consumer holds blocks     *)
(* that follow one another, the first of them committed last or right      *)
(* behind, and so is what processQueue awaits though the queue was cleared *)
(* under it; what is done in the queue has been produced.                  *)
(*                                                                         *)
(* The argument for the third: behind the last place of a block in what    *)
(* was or will be sent comes all that the chain did after it.  So when the *)
(* service has saved a block, the chain and the branch of the block agree  *)
(* up to any number below which nothing is left to handle, and up to such  *)
(* a number the collection holds the chain's transfers; and a token that   *)
(* nothing left to handle transfers has the owner it should have.          *)
(***************************************************************************)
EXTENDS Pipeline, SequenceTheorems, WellFoundedInduction, TLAPS

Labels == [fork : Nat, tokens : Seq(Tokens)]
Blocks == Seq(Labels) \ {<< >>}
Entries == [at : Nat, state : {"fresh", "retried", "done", "failed"}]
Harms == {"empty", "overtaken", "skipped", "undelivered", "lost"}
States == {"running", "draining", "stopping", "fatal"}

Types ==
    /\ harm \subseteq Harms
    /\ head \in Seq(Labels) /\ forks \in Nat
    /\ {raw, buffer, out} \subseteq Seq(Blocks)
    /\ queue \in Seq(Entries)
    /\ {position, committed, element, offset, resume} \subseteq Nat
    /\ stuck \in BOOLEAN
    /\ state \in States
    /\ step \in {"idle", "last", "delete", "add", "closed"}

\* The offset at the front of the queue, or to be received there.
FrontOffset == position - Len(queue)

\* The consumer has blocks that follow one another.
QueueInv ==
    /\ Len(queue) <= QueueLimit
    /\ 1 <= FrontOffset /\ position <= Len(raw) + 1
    /\ \A k \in 1..Len(queue) : queue[k].at = FrontOffset + k - 1
    /\ ~Accepts => queue = << >>
    /\ committed <= Len(raw) /\ element <= Len(raw)
    /\ BagToSet(strays) \subseteq 1..Len(raw)

\* Nothing lies between the block committed last and the queue; the element
\* awaited is one of the two.
OrderInv ==
    "skipped" \notin harm =>
        /\ committed <= position
        /\ queue # << >> \/ state = "running" => FrontOffset \in {committed, committed + 1}
        /\ element # 0 =>
               /\ element \in {committed, committed + 1} /\ committed < position
               /\ queue # << >> \/ state = "running" => FrontOffset = committed + 1

\* What was given to the producer's client in this or an earlier process.
Sent == ToSet(out) \cup ToSet(buffer)

\* What is committed, or done and to be committed, was produced.
Covered(i) == map(raw[i]) # << >> => raw[i] \in Sent
DoneCovered == \A k \in 1..Len(queue) : queue[k].state = "done" => Covered(queue[k].at)
Produced ==
    harm \cap {"lost", "undelivered", "skipped"} = {} =>
        DoneCovered /\ \A i \in 1..committed : Covered(i)

\* The service saves a block that has a transfer to add.
ServiceInv ==
    /\ \A b \in Sent : map(b) # << >>
    /\ 1 <= resume /\ resume <= offset /\ offset <= Len(out) + 1
    /\ step \in {"last", "delete", "add"} =>
           offset <= Len(out) /\ row \in 1..Len(map(block))

Inv == Types /\ QueueInv /\ OrderInv /\ Produced /\ ServiceInv

\* The scenario is chosen once and for all.
InScenario == scenario \in Scenarios

LEMMA SpecInScenario == Spec => []InScenario
<1>1. Init => InScenario
    BY DEF Init, InScenario
<1>2. [Next]_vars => UNCHANGED scenario
    <2> SUFFICES ASSUME [Next]_vars PROVE UNCHANGED scenario
        OBVIOUS
    <2>1. CASE Mine \/ Reorganise \/ Receive \/ onData \/ onDataFails \/ Commit \/ GivesUp
        BY <2>1 DEF Mine, Reorganise, Receive, onData, onDataFails, Commit, GivesUp, bounds
    <2>2. CASE elementResolves \/ elementRejects \/ strayResolves \/ onError
        BY <2>2 DEF elementResolves, elementRejects, strayResolves, onError, bounds
    <2>3. CASE Deliver \/ DeliveryFails \/ Disconnects \/ Disconnected \/ start
        BY <2>3 DEF Deliver, DeliveryFails, Disconnects, Disconnected, closed, start, bounds
    <2>4. CASE fatalError \/ TransformerDies
        BY <2>4 DEF fatalError, TransformerDies, NewProcess
    <2>5. CASE next \/ save \/ deleteTxsForReorg \/ add \/ commit
        BY <2>5 DEF next, save, deleteTxsForReorg, add, commit, bounds
    <2>6. CASE saveFails \/ ServiceDies \/ ServiceStarts \/ UNCHANGED vars
        BY <2>6 DEF saveFails, ServiceDies, ServiceStarts, vars, bounds
    <2>. QED
        BY <2>1, <2>2, <2>3, <2>4, <2>5, <2>6 DEF Next
<1>3. InScenario /\ [Next]_vars => InScenario'
    BY <1>2 DEF InScenario
<1>. QED
    BY <1>1, <1>3, PTL DEF Spec

-----------------------------------------------------------------------------
LEMMA Lengths ==
    ASSUME Types
    PROVE  /\ committed \in Nat /\ position \in Nat /\ offset \in Nat /\ resume \in Nat
           /\ element \in Nat
           /\ Len(raw) \in Nat /\ Len(queue) \in Nat /\ Len(buffer) \in Nat /\ Len(out) \in Nat
<1>1. /\ committed \in Nat /\ position \in Nat /\ offset \in Nat /\ resume \in Nat
      /\ element \in Nat
    BY DEF Types
<1>2. raw \in Seq(Blocks) /\ buffer \in Seq(Blocks) /\ out \in Seq(Blocks) /\ queue \in Seq(Entries)
    BY DEF Types
<1>. QED
    BY <1>1, <1>2

LEMMA EntriesInTopic ==
    ASSUME Types, QueueInv
    PROVE  \A k \in 1..Len(queue) : queue[k].at \in 1..Len(raw)
<1> SUFFICES ASSUME NEW k \in 1..Len(queue) PROVE queue[k].at \in 1..Len(raw)
    OBVIOUS
<1>1. position \in Nat /\ Len(queue) \in Nat /\ Len(raw) \in Nat
    BY Lengths
<1>2. queue[k].at = position - Len(queue) + k - 1
    BY DEF QueueInv, FrontOffset
<1>3. 1 <= position - Len(queue) /\ position <= Len(raw) + 1
    BY DEF QueueInv, FrontOffset
<1>. QED
    BY <1>1, <1>2, <1>3

LEMMA MapLength ==
    ASSUME NEW b \in Blocks
    PROVE  Len(map(b)) \in Nat /\ (map(b) # << >> => 1 \in 1..Len(map(b)))
<1>1. Last(b) \in Labels
    BY DEF Blocks, Last
<1>2. Len(Last(b).tokens) \in Nat
    BY <1>1 DEF Labels
<1> DEFINE T == {map(b)[i] : i \in 1..Len(Last(b).tokens)}
<1>3. map(b) \in [1..Len(Last(b).tokens) -> T]
    BY DEF map
<1> HIDE DEF T
<1>4. map(b) \in Seq(T)
    BY <1>2, <1>3, SeqDef
<1>5. Len(map(b)) \in Nat /\ (map(b) # << >> => Len(map(b)) \in Nat \ {0})
    BY <1>4, EmptySeq, LenProperties
<1>. QED
    BY <1>5

LEMMA AppendedSet ==
    ASSUME NEW S, NEW s \in Seq(S), NEW e \in S
    PROVE  ToSet(Append(s, e)) = ToSet(s) \cup {e}
<1> DEFINE t == Append(s, e)
<1>1. /\ DOMAIN t = 1..(Len(s) + 1) /\ t[Len(s) + 1] = e
      /\ DOMAIN s = 1..Len(s) /\ \A i \in 1..Len(s) : t[i] = s[i]
    OBVIOUS
<1>2. 1..(Len(s) + 1) = 1..Len(s) \cup {Len(s) + 1}
    OBVIOUS
<1> HIDE DEF t
<1>3. ToSet(t) = {t[i] : i \in 1..Len(s)} \cup {e}
    BY <1>1, <1>2, Zenon DEF ToSet
<1>4. {t[i] : i \in 1..Len(s)} = ToSet(s)
    BY <1>1 DEF ToSet
<1>. QED
    BY <1>3, <1>4 DEF t

LEMMA HeadAndTail ==
    ASSUME NEW S, NEW s \in Seq(S), s # << >>
    PROVE  /\ ToSet(s) = {Head(s)} \cup ToSet(Tail(s))
           /\ Head(s) \in S /\ Tail(s) \in Seq(S)
           /\ Len(Tail(s)) = Len(s) - 1
           /\ \A i \in 1..(Len(s) - 1) : Tail(s)[i] = s[i + 1]
<1>1. /\ Head(s) \in S /\ Tail(s) \in Seq(S)
      /\ Len(Tail(s)) = Len(s) - 1
      /\ \A i \in 1..(Len(s) - 1) : Tail(s)[i] = s[i + 1]
    BY HeadTailProperties
<1>2. ToSet(s) \subseteq {Head(s)} \cup ToSet(Tail(s))
    <2> SUFFICES ASSUME NEW i \in 1..Len(s), i # 1 PROVE s[i] \in ToSet(Tail(s))
        BY DEF ToSet
    <2>1. i - 1 \in DOMAIN Tail(s) /\ Tail(s)[i - 1] = s[i]
        BY <1>1
    <2>. QED
        BY <2>1 DEF ToSet
<1>3. {Head(s)} \cup ToSet(Tail(s)) \subseteq ToSet(s)
    BY <1>1 DEF ToSet
<1>. QED
    BY <1>1, <1>2, <1>3

\* The last element of a queue is new.
LEMMA Appended ==
    ASSUME NEW S, NEW s \in Seq(S), NEW e \in S
    PROVE  /\ Append(s, e) \in Seq(S) /\ Len(Append(s, e)) = Len(s) + 1
           /\ \A k \in 1..Len(s) : Append(s, e)[k] = s[k]
           /\ Append(s, e)[Len(s) + 1] = e
OBVIOUS

LEMMA BagSum ==
    ASSUME NEW A, NEW B, NEW S, BagToSet(A) \subseteq S, B \subseteq S
    PROVE  BagToSet(A (+) SetToBag(B)) \subseteq S
BY DEF BagToSet, SetToBag, (+)

LEMMA BagDifference ==
    ASSUME NEW A, NEW B
    PROVE  BagToSet(A (-) B) \subseteq BagToSet(A)
BY DEF BagToSet, (-)

LEMMA InitInv == Init => Inv
<1> SUFFICES ASSUME Init PROVE Inv
    OBVIOUS
<1>1. Types
    <2>1. << >> \in Seq(Blocks) /\ << >> \in Seq(Labels) /\ << >> \in Seq(Entries)
        OBVIOUS
    <2>2. stuck \in BOOLEAN
        BY Zenon DEF Init
    <2>3. state \in States /\ step \in {"idle", "last", "delete", "add", "closed"}
        BY DEF Init, States
    <2>4. harm \subseteq Harms /\ forks \in Nat
          /\ {position, committed, element, offset, resume} \subseteq Nat
        BY DEF Init
    <2>5. head \in Seq(Labels) /\ {raw, buffer, out} \subseteq Seq(Blocks) /\ queue \in Seq(Entries)
        BY <2>1 DEF Init
    <2>. QED
        BY <2>2, <2>3, <2>4, <2>5 DEF Types
<1>2. QueueInv /\ OrderInv
    <2>1. BagToSet(strays) = {}
        BY DEF Init, BagToSet, EmptyBag, SetToBag
    <2>2. Len(queue) = 0 /\ Len(raw) = 0 /\ QueueLimit \in Nat
        BY PipelineAssumption DEF Init
    <2>. QED
        BY <2>1, <2>2 DEF Init, QueueInv, OrderInv, FrontOffset, Accepts
<1>3. Produced
    BY DEF Init, Produced, DoneCovered
<1>4. ServiceInv
    BY DEF Init, ServiceInv, Sent, ToSet
<1>. QED
    BY <1>1, <1>2, <1>3, <1>4 DEF Inv

-----------------------------------------------------------------------------
LEMMA ProduceInv ==
    ASSUME Inv, NEW b \in Blocks, Produce(b),
           harm \subseteq harm', harm' \subseteq harm \cup {"empty"}, forks' \in Nat,
           UNCHANGED <<scenario, transformer, out, service>>
    PROVE  Inv'
<1>. USE DEF Inv, transformer, service, Produce, consumer
<1>1. raw' \in Seq(Blocks) /\ Len(raw') = Len(raw) + 1
      /\ \A i \in 1..Len(raw) : raw'[i] = raw[i]
    BY DEF Types
<1>2. Types'
    BY <1>1 DEF Types, Blocks, Harms
<1>3. QueueInv'
    <2>1. 1..Len(raw) \subseteq 1..Len(raw')
        BY <1>1, Lengths
    <2>. QED
        BY <1>1, <2>1, Lengths DEF QueueInv, FrontOffset, Accepts
<1>4. OrderInv'
    BY DEF OrderInv, FrontOffset
<1>5. \A i \in 1..Len(raw) : Covered(i) => Covered(i)'
    BY <1>1 DEF Covered, map, Sent
<1>6. \A i \in 1..committed : i \in 1..Len(raw)
    BY Lengths DEF QueueInv
<1>7. \A k \in 1..Len(queue) : queue[k].at \in 1..Len(raw)
    BY EntriesInTopic
<1>8. Produced'
    BY <1>5, <1>6, <1>7 DEF Produced, DoneCovered
<1>9. ServiceInv'
    BY DEF ServiceInv, Sent, map, block
<1>. QED
    BY <1>2, <1>3, <1>4, <1>8, <1>9

\* What a block may transfer is a sequence of tokens.
LEMMA ContentsType == ASSUME InScenario PROVE \A c \in scenario.contents : c \in Seq(Tokens)
<1>1. scenario.contents \in SUBSET Seq(Tokens)
    BY PipelineAssumption DEF InScenario
<1>. QED
    BY <1>1

LEMMA MineInv == ASSUME Inv, InScenario, Mine PROVE Inv'
<1>1. PICK c \in scenario.contents : Produce(Append(head, Label(forks, c)))
    BY DEF Mine
<1>2. Label(forks, c) \in Labels
    BY <1>1, ContentsType DEF Inv, Types, Label, Labels
<1>3. Append(head, Label(forks, c)) \in Blocks
    <2>1. head \in Seq(Labels)
        BY DEF Inv, Types
    <2>2. Append(head, Label(forks, c)) \in Seq(Labels) /\ Len(Append(head, Label(forks, c))) > 0
        BY <1>2, <2>1
    <2>. QED
        BY <2>2 DEF Blocks
<1>. QED
    BY <1>1, <1>3, ProduceInv DEF Mine, bounds, Inv, Types

LEMMA ReorganiseInv == ASSUME Inv, InScenario, Reorganise PROVE Inv'
<1>1. PICK d \in 1..Len(head), c \in scenario.contents :
          /\ Produce(Append(Ancestor(head, Len(head) - d), Label(forks + 1, c)))
          /\ harm' = IF c = << >> THEN harm \cup {"empty"} ELSE harm
    BY DEF Reorganise
<1>2. Ancestor(head, Len(head) - d) \in Seq(Labels)
    BY <1>1 DEF Inv, Types, Ancestor
<1>3. Label(forks + 1, c) \in Labels
    BY <1>1, ContentsType DEF Inv, Types, Label, Labels
<1>4. Append(Ancestor(head, Len(head) - d), Label(forks + 1, c)) \in Blocks
    BY <1>2, <1>3 DEF Blocks
<1>5. harm \subseteq harm' /\ harm' \subseteq harm \cup {"empty"}
    BY <1>1
<1>. QED
    BY <1>1, <1>4, <1>5, ProduceInv DEF Reorganise, Inv, Types

-----------------------------------------------------------------------------
\* The transformer goes on; what it sends has a transfer.
LEMMA TransformerGoesOn ==
    ASSUME Inv, UNCHANGED <<scenario, chain, out, service>>,
           harm' \subseteq Harms, queue' \in Seq(Entries),
           position' \in Nat, committed' \in Nat, element' \in Nat,
           stuck' \in BOOLEAN, state' \in States,
           buffer' \in Seq(Blocks), \A b \in ToSet(buffer') : b \in Sent \/ map(b) # << >>,
           QueueInv', OrderInv', Produced'
    PROVE  Inv'
<1>. USE DEF Inv, chain, service
<1>1. Types'
    BY DEF Types
<1>2. ServiceInv'
    BY DEF ServiceInv, Sent, map, block
<1>. QED
    BY <1>1, <1>2

\* What was covered is.
LEMMA StaysProduced ==
    ASSUME Inv, raw' = raw, harm \subseteq harm',
           \/ Sent \subseteq Sent'
           \/ harm' \cap {"lost", "undelivered"} # {},
           \A k \in 1..Len(queue') : queue'[k].state = "done" =>
               \/ \E j \in 1..Len(queue) :
                      queue[j].state = "done" /\ queue[j].at = queue'[k].at
               \/ \E i : i = queue'[k].at /\ Covered(i)',
           harm' \cap {"lost", "undelivered", "skipped"} = {} => \A i \in 1..committed' :
               \/ i \in 1..committed
               \/ \E j \in 1..Len(queue) : queue[j].state = "done" /\ queue[j].at = i
               \/ Covered(i)'
    PROVE  Produced'
<1>1. SUFFICES ASSUME harm' \cap {"lost", "undelivered", "skipped"} = {}
               PROVE  DoneCovered' /\ \A i \in 1..committed' : Covered(i)'
    BY DEF Produced
<1>2. DoneCovered /\ \A i \in 1..committed : Covered(i)
    BY <1>1 DEF Inv, Produced
<1>3. \A i : Covered(i) => Covered(i)'
    BY <1>1 DEF Covered, map
<1>4. DoneCovered'
    <2> SUFFICES ASSUME NEW k \in 1..Len(queue'), queue'[k].state = "done"
                 PROVE  Covered(queue[k].at)'
        BY DEF DoneCovered
    <2>1. PICK i : i = queue'[k].at
        OBVIOUS
    <2>2. Covered(i)'
        BY <1>2, <1>3, <2>1 DEF DoneCovered
    <2>. QED
        BY <2>1, <2>2 DEF Covered, map
<1>5. ASSUME NEW i \in 1..committed' PROVE Covered(i)'
    <2>1. CASE i \in 1..committed
        BY <1>2, <1>3, <2>1
    <2>2. ASSUME NEW j \in 1..Len(queue), queue[j].state = "done", queue[j].at = i
          PROVE  Covered(i)'
        <3>1. Covered(i)
            BY <1>2, <2>2 DEF DoneCovered
        <3>. QED
            BY <1>3, <3>1
    <2>. QED
        BY <1>1, <2>1, <2>2
<1>. QED
    BY <1>4, <1>5

LEMMA ReceiveInv == ASSUME Inv, Receive PROVE Inv'
<1>. USE DEF Inv
<1> DEFINE e == [at |-> position, state |-> "fresh"]
<1>1. e \in Entries /\ e.at = position /\ e.state = "fresh"
    BY DEF Entries, Types
<1>2. /\ queue \in Seq(Entries) /\ Len(queue) \in Nat /\ position \in Nat
      /\ committed \in Nat /\ element \in Nat /\ Len(raw) \in Nat
    BY Lengths DEF Types
<1>3. /\ Accepts /\ position <= Len(raw) /\ Len(queue) < QueueLimit
      /\ queue' = Append(queue, e) /\ position' = position + 1
      /\ harm' = IF state = "draining" /\ queue = << >> /\ position > committed + 1
                 THEN harm \cup {"skipped"} ELSE harm
      /\ UNCHANGED <<scenario, chain, committed, element, stuck, strays, state, buffer, out,
                     service, raw>>
    BY DEF Receive, chain
<1> HIDE DEF e
<1>4. /\ queue' \in Seq(Entries) /\ Len(queue') = Len(queue) + 1
      /\ \A k \in 1..Len(queue) : queue'[k] = queue[k]
      /\ queue'[Len(queue) + 1] = e
    BY <1>1, <1>2, <1>3, Appended
<1>5. FrontOffset' = FrontOffset /\ FrontOffset \in Int /\ FrontOffset + Len(queue) = position
    <2>. HIDE DEF Inv
    <2>. QED
        BY <1>2, <1>3, <1>4 DEF FrontOffset
<1>6. QueueInv'
    <2>1. QueueLimit \in Nat
        BY PipelineAssumption
    <2>2. \A k \in 1..(Len(queue) + 1) : queue'[k].at = FrontOffset + k - 1
        <3>1. \A k \in 1..Len(queue) : queue[k].at = FrontOffset + k - 1
            BY DEF QueueInv
        <3>2. queue'[Len(queue) + 1].at = FrontOffset + (Len(queue) + 1) - 1
            BY <1>1, <1>4, <1>5, Lengths
        <3>3. 1..(Len(queue) + 1) = 1..Len(queue) \cup {Len(queue) + 1}
            BY Lengths
        <3>4. ASSUME NEW k \in 1..(Len(queue) + 1) PROVE queue'[k].at = FrontOffset + k - 1
            <4>1. CASE k \in 1..Len(queue)
                BY <1>4, <3>1, <4>1
            <4>2. CASE k = Len(queue) + 1
                BY <3>2, <4>2
            <4>. QED
                BY <3>3, <4>1, <4>2
        <3>. QED
            BY <3>4
    <2>3. QueueInv
        OBVIOUS
    <2>. HIDE DEF Inv
    <2>. QED
        BY <1>2, <1>3, <1>4, <1>5, <2>1, <2>2, <2>3 DEF QueueInv, Accepts
<1>7. OrderInv'
    <2> SUFFICES ASSUME "skipped" \notin harm'
                 PROVE  /\ committed <= position'
                        /\ FrontOffset \in {committed, committed + 1}
                        /\ element # 0 =>
                               /\ element \in {committed, committed + 1}
                               /\ committed < position' /\ FrontOffset = committed + 1
        BY <1>3, <1>5 DEF OrderInv
    <2>1. "skipped" \notin harm
        BY <1>3
    <2>2. CASE queue # << >> \/ state = "running"
        BY <1>3, <2>1, <2>2, Lengths DEF OrderInv
    <2>3. CASE queue = << >> /\ state # "running"
        <3>1. state = "draining" /\ position <= committed + 1
            BY <1>3, <2>3, Lengths DEF Accepts
        <3>2. FrontOffset = position
            BY <2>3, Lengths DEF FrontOffset
        <3>. QED
            BY <1>3, <2>1, <3>1, <3>2, Lengths DEF OrderInv
    <2>. QED
        BY <2>2, <2>3
<1>8. Produced'
    <2>1. Sent' = Sent /\ harm \subseteq harm'
        BY <1>3 DEF Sent
    <2>2. \A k \in 1..Len(queue') : queue'[k].state = "done" =>
              \E j \in 1..Len(queue) : queue[j].state = "done" /\ queue[j].at = queue'[k].at
        <3>1. ASSUME NEW k \in 1..Len(queue'), queue'[k].state = "done"
              PROVE  k \in 1..Len(queue) /\ queue'[k] = queue[k]
            <4>1. k # Len(queue) + 1
                BY <1>1, <1>4, <3>1
            <4>. QED
                BY <1>4, <4>1, Lengths
        <3>. QED
            BY <3>1
    <2>. QED
        BY <1>3, <2>1, <2>2, StaysProduced
<1>9. \A b \in ToSet(buffer') : b \in Sent
    BY <1>3 DEF Sent
<1>10. /\ harm' \subseteq Harms /\ position' \in Nat /\ committed' \in Nat /\ element' \in Nat
       /\ stuck' \in BOOLEAN /\ state' \in States /\ buffer' \in Seq(Blocks)
    BY <1>2, <1>3 DEF Types, Harms
<1>. HIDE DEF Inv
<1>. QED
    BY <1>3, <1>4, <1>6, <1>7, <1>8, <1>9, <1>10, TransformerGoesOn

-----------------------------------------------------------------------------
\* What onData gives to the client.
LEMMA Produces ==
    ASSUME Inv, NEW p \in 1..Len(raw), produceEvent(p), UNCHANGED <<raw, out>>
    PROVE  /\ buffer' \in Seq(Blocks) /\ Sent \subseteq Sent' /\ Covered(p)'
           /\ \A b \in ToSet(buffer') : b \in Sent \/ map(b) # << >>
<1>1. raw \in Seq(Blocks) /\ buffer \in Seq(Blocks)
    BY DEF Inv, Types
<1>2. raw[p] \in Blocks
    BY <1>1
<1>3. CASE map(raw[p]) = << >>
    BY <1>1, <1>3 DEF produceEvent, Sent, Covered, map
<1>4. CASE map(raw[p]) # << >>
    <2>1. buffer' = Append(buffer, raw[p])
        BY <1>4 DEF produceEvent
    <2>2. ToSet(buffer') = ToSet(buffer) \cup {raw[p]}
        BY <1>1, <1>2, <2>1, AppendedSet
    <2>3. buffer' \in Seq(Blocks)
        BY <1>1, <1>2, <2>1
    <2>. QED
        BY <1>4, <2>2, <2>3 DEF Sent, Covered, map
<1>. QED
    BY <1>3, <1>4

LEMMA EntryDone ==
    ASSUME Inv, NEW k \in DOMAIN queue, NEW s \in {"retried", "done", "failed"},
           queue' = [queue EXCEPT ![k].state = s]
    PROVE  /\ queue' \in Seq(Entries) /\ Len(queue') = Len(queue)
           /\ \A j \in 1..Len(queue) : queue'[j].at = queue[j].at
           /\ \A j \in 1..Len(queue) : queue'[j].state = IF j = k THEN s ELSE queue[j].state
<1>. USE DEF Inv, Types
<1>1. k \in 1..Len(queue) /\ queue[k] \in Entries
    OBVIOUS
<1> DEFINE e == [queue[k] EXCEPT !.state = s]
<1>2. e \in Entries /\ e.at = queue[k].at /\ e.state = s
    BY <1>1 DEF Entries
<1>3. queue' = [queue EXCEPT ![k] = e]
    OBVIOUS
<1> HIDE DEF e
<1>. QED
    <2>. queue \in Seq(Entries)
        OBVIOUS
    <2>. HIDE DEF Inv, Types
    <2>1. /\ queue' \in Seq(Entries) /\ Len(queue') = Len(queue)
          /\ \A j \in 1..Len(queue) : queue'[j] = IF j = k THEN e ELSE queue[j]
        BY <1>1, <1>2, <1>3, ExceptSeq
    <2>. QED
        BY <1>2, <2>1

\* The offsets in the queue are those they were.
LEMMA OffsetsKept ==
    ASSUME Inv, Len(queue') = Len(queue), queue' \in Seq(Entries),
           \A j \in 1..Len(queue) : queue'[j].at = queue[j].at,
           UNCHANGED <<raw, position, committed, element, state>>,
           "skipped" \in harm => "skipped" \in harm',
           BagToSet(strays') \subseteq 1..Len(raw)
    PROVE  QueueInv' /\ OrderInv'
<1>1. QueueInv /\ OrderInv
    BY DEF Inv
<1>2. /\ Len(queue) \in Nat /\ queue \in Seq(Entries) /\ FrontOffset' = FrontOffset
      /\ (queue' = << >> <=> queue = << >>)
    BY Lengths, EmptySeq DEF FrontOffset, Inv, Types
<1>. QED
    BY <1>1, <1>2 DEF QueueInv, OrderInv, Accepts

LEMMA onDataInv == ASSUME Inv, onData PROVE Inv'
<1>1. PICK k \in Running :
          /\ queue' = [queue EXCEPT ![k].state = "done"]
          /\ produceEvent(queue[k].at)
          /\ harm' = IF \E j \in 1..(k - 1) : queue[j].state # "done"
                     THEN harm \cup {"overtaken"} ELSE harm
    BY DEF onData
<1>2. k \in DOMAIN queue
    BY <1>1 DEF Running
<1>3. UNCHANGED <<scenario, chain, position, committed, element, stuck, strays, state, out,
                  service, raw>>
    BY DEF onData, chain
<1>4. /\ queue' \in Seq(Entries) /\ Len(queue') = Len(queue)
      /\ \A j \in 1..Len(queue) : queue'[j].at = queue[j].at
      /\ \A j \in 1..Len(queue) : queue'[j].state = IF j = k THEN "done" ELSE queue[j].state
    BY <1>1, <1>2, EntryDone
<1>5. PICK p : p = queue[k].at
    OBVIOUS
<1>6. p \in 1..Len(raw) /\ k \in 1..Len(queue)
    <2>1. k \in 1..Len(queue) /\ Types /\ QueueInv
        BY <1>2 DEF Inv, Types
    <2>. QED
        BY <1>5, <2>1, EntriesInTopic
<1>7. /\ buffer' \in Seq(Blocks) /\ Sent \subseteq Sent' /\ Covered(p)'
      /\ \A b \in ToSet(buffer') : b \in Sent \/ map(b) # << >>
    BY <1>1, <1>3, <1>5, <1>6, Produces
<1>8. harm \subseteq harm' /\ harm' \subseteq Harms /\ ("skipped" \in harm => "skipped" \in harm')
    BY <1>1 DEF Inv, Types, Harms
<1>9. QueueInv' /\ OrderInv'
    <2>1. BagToSet(strays') \subseteq 1..Len(raw)
        BY <1>3 DEF Inv, QueueInv
    <2>. QED
        BY <1>3, <1>4, <1>8, <2>1, OffsetsKept
<1>10. Produced'
    <2>1. \A j \in 1..Len(queue') : queue'[j].state = "done" =>
              \/ \E i \in 1..Len(queue) : queue[i].state = "done" /\ queue[i].at = queue'[j].at
              \/ \E i : i = queue'[j].at /\ Covered(i)'
        BY <1>4, <1>5, <1>6, <1>7
    <2>2. committed' = committed /\ raw' = raw
        BY <1>3
    <2>. QED
        BY <1>7, <1>8, <2>1, <2>2, StaysProduced
<1>11. /\ position' \in Nat /\ committed' \in Nat /\ element' \in Nat
       /\ stuck' \in BOOLEAN /\ state' \in States
    BY <1>3 DEF Inv, Types
<1>. QED
    BY <1>3, <1>4, <1>7, <1>8, <1>9, <1>10, <1>11, TransformerGoesOn

\* An entry changes that is not done after that.
LEMMA EntryNotDone ==
    ASSUME Inv, NEW k \in DOMAIN queue, NEW s \in {"retried", "failed"},
           queue' = [queue EXCEPT ![k].state = s],
           UNCHANGED <<scenario, harm, chain, position, committed, strays, state, buffer, out, service>>,
           element' = element, stuck' \in BOOLEAN
    PROVE  Inv'
<1>1. /\ queue' \in Seq(Entries) /\ Len(queue') = Len(queue)
      /\ \A j \in 1..Len(queue) : queue'[j].at = queue[j].at
      /\ \A j \in 1..Len(queue) : queue'[j].state = IF j = k THEN s ELSE queue[j].state
    <2>1. s \in {"retried", "done", "failed"}
        OBVIOUS
    <2>. QED
        BY <2>1, EntryDone
<1>2. raw' = raw /\ Sent' = Sent
    BY DEF chain, Sent
<1>3. QueueInv' /\ OrderInv'
    <2>1. BagToSet(strays') \subseteq 1..Len(raw)
        BY DEF Inv, QueueInv
    <2>. QED
        BY <1>1, <1>2, <2>1, OffsetsKept
<1>4. Produced'
    <2>1. \A j \in 1..Len(queue') : queue'[j].state = "done" =>
              \E i \in 1..Len(queue) : queue[i].state = "done" /\ queue[i].at = queue'[j].at
        BY <1>1
    <2>. QED
        BY <1>2, <2>1, StaysProduced
<1>5. /\ position' \in Nat /\ committed' \in Nat /\ element' \in Nat /\ state' \in States
      /\ harm' \subseteq Harms /\ buffer' \in Seq(Blocks)
    BY DEF Inv, Types
<1>6. \A b \in ToSet(buffer') : b \in Sent
    BY DEF Sent
<1>. QED
    BY <1>1, <1>3, <1>4, <1>5, <1>6, TransformerGoesOn

LEMMA onDataFailsInv == ASSUME Inv, onDataFails PROVE Inv'
<1>1. PICK k \in Running : queue' = [queue EXCEPT ![k].state = "retried"]
    BY DEF onDataFails
<1>2. k \in DOMAIN queue
    BY <1>1 DEF Running
<1>3. stuck' \in BOOLEAN
    BY DEF onDataFails, Inv, Types
<1>. QED
    BY <1>1, <1>2, <1>3, EntryNotDone DEF onDataFails

\* The front of the queue is shifted, at or behind the block committed.
LEMMA FrontShifted ==
    ASSUME Inv, queue # << >>, queue' = Tail(queue), Accepts,
           UNCHANGED <<raw, position, state>>, element' = 0,
           committed' \in 1..Len(raw),
           BagToSet(strays') \subseteq 1..Len(raw),
           "skipped" \notin harm' => "skipped" \notin harm /\ committed' = FrontOffset
    PROVE  /\ queue' \in Seq(Entries) /\ Len(queue') = Len(queue) - 1
           /\ \A j \in 1..(Len(queue) - 1) : queue'[j] = queue[j + 1]
           /\ QueueInv' /\ OrderInv'
<1>1. QueueInv /\ queue \in Seq(Entries) /\ Types
    BY DEF Inv, Types
<1>2. /\ queue' \in Seq(Entries) /\ Len(queue') = Len(queue) - 1
      /\ \A j \in 1..(Len(queue) - 1) : queue'[j] = queue[j + 1]
    BY <1>1, HeadAndTail
<1>3. /\ FrontOffset' = FrontOffset + 1 /\ FrontOffset \in Int
      /\ FrontOffset + Len(queue) = position /\ Len(queue) \in Nat \ {0}
      /\ position \in Nat /\ Len(raw) \in Nat
    BY <1>1, <1>2, Lengths, EmptySeq DEF FrontOffset
<1>4. \A j \in 1..(Len(queue) - 1) : queue'[j].at = FrontOffset + 1 + j - 1
    <2> SUFFICES ASSUME NEW j \in 1..(Len(queue) - 1)
                 PROVE  queue'[j].at = FrontOffset + 1 + j - 1
        OBVIOUS
    <2>1. j + 1 \in 1..Len(queue) /\ queue'[j] = queue[j + 1]
        BY <1>2, <1>3
    <2>2. queue[j + 1].at = FrontOffset + (j + 1) - 1
        BY <1>1, <2>1 DEF QueueInv
    <2>. QED
        BY <1>3, <2>1, <2>2
<1>5. QueueInv'
    <2>1. QueueLimit \in Nat
        BY PipelineAssumption
    <2>. QED
        BY <1>1, <1>2, <1>3, <1>4, <2>1 DEF QueueInv, Accepts
<1>6. OrderInv'
    BY <1>3 DEF OrderInv
<1>. QED
    BY <1>2, <1>5, <1>6

\* What is done behind the front was.
LEMMA TailDone ==
    ASSUME Inv, queue # << >>, queue' = Tail(queue)
    PROVE  \A j \in 1..Len(queue') : queue'[j].state = "done" =>
               \E i \in 1..Len(queue) : queue[i].state = "done" /\ queue[i].at = queue'[j].at
<1>1. queue \in Seq(Entries) /\ Len(queue) \in Nat
    BY DEF Inv, Types
<1>2. /\ Len(queue') = Len(queue) - 1
      /\ \A j \in 1..(Len(queue) - 1) : queue'[j] = queue[j + 1]
    BY <1>1, HeadAndTail
<1>3. \A j \in 1..Len(queue') : j + 1 \in 1..Len(queue) /\ queue'[j] = queue[j + 1]
    BY <1>1, <1>2
<1>. QED
    BY <1>3

LEMMA CommitInv == ASSUME Inv, Commit PROVE Inv'
<1>1. /\ Accepts /\ element = 0 /\ queue # << >> /\ queue[1].state = "done"
      /\ committed' = queue[1].at /\ queue' = Tail(queue)
      /\ UNCHANGED <<scenario, harm, chain, position, element, stuck, strays, state, buffer, out,
                     service, raw>>
    BY DEF Commit, CommitDue, AtFront, bounds, chain
<1>2. 1 \in 1..Len(queue) /\ queue[1].at = FrontOffset /\ FrontOffset \in 1..Len(raw)
    <2>1. queue \in Seq(Entries) /\ Types /\ QueueInv
        BY DEF Inv, Types
    <2>2. 1 \in 1..Len(queue)
        BY <1>1, <2>1
    <2>. QED
        BY <2>1, <2>2, Lengths DEF QueueInv, FrontOffset
<1>3. BagToSet(strays') \subseteq 1..Len(raw)
    BY <1>1 DEF Inv, QueueInv
<1>4. queue' \in Seq(Entries) /\ QueueInv' /\ OrderInv'
    BY <1>1, <1>2, <1>3, FrontShifted
<1>5. Produced'
    <2>1. "skipped" \notin harm => \A i \in 1..committed' : i \in 1..committed \/ i = queue[1].at
        BY <1>1, <1>2, Lengths DEF Inv, OrderInv
    <2>2. Sent' = Sent
        BY <1>1 DEF Sent
    <2>3. harm' \cap {"lost", "undelivered", "skipped"} = {} => \A i \in 1..committed' :
              \/ i \in 1..committed
              \/ \E j \in 1..Len(queue) : queue[j].state = "done" /\ queue[j].at = i
        BY <1>1, <1>2, <2>1
    <2>4. \A j \in 1..Len(queue') : queue'[j].state = "done" =>
              \E i \in 1..Len(queue) : queue[i].state = "done" /\ queue[i].at = queue'[j].at
        BY <1>1, TailDone
    <2>. QED
        BY <1>1, <2>2, <2>3, <2>4, StaysProduced
<1>6. /\ position' \in Nat /\ committed' \in Nat /\ element' \in Nat /\ state' \in States
      /\ harm' \subseteq Harms /\ buffer' \in Seq(Blocks) /\ stuck' \in BOOLEAN
    BY <1>1, <1>2 DEF Inv, Types
<1>7. \A b \in ToSet(buffer') : b \in Sent
    BY <1>1 DEF Sent
<1>. QED
    BY <1>1, <1>4, <1>5, <1>6, <1>7, TransformerGoesOn

-----------------------------------------------------------------------------
\* The queue is cleared; what processQueue awaits may be what was at its front.
LEMMA Cleared ==
    ASSUME Inv, clear, UNCHANGED <<scenario, harm, chain, position, committed, buffer, out, service>>,
           element' \in {0, element} \/ (queue # << >> /\ element' = queue[1].at),
           stuck' \in BOOLEAN, state' \in States \ {"running"}
    PROVE  Inv'
<1>1. queue' = << >> /\ strays' = strays (+) SetToBag(Handled) /\ raw' = raw
    BY DEF clear, chain
<1>2. QueueInv /\ OrderInv /\ queue \in Seq(Entries) /\ Types
    BY DEF Inv, Types
<1>3. BagToSet(strays') \subseteq 1..Len(raw)
    <2>1. \A k \in 1..Len(queue) : queue[k].at \in 1..Len(raw)
        BY <1>2, EntriesInTopic
    <2>2. Handled \subseteq {queue[k].at : k \in 1..Len(queue)}
        BY <1>2 DEF Handled
    <2>3. Handled \subseteq 1..Len(raw)
        BY <2>1, <2>2
    <2>4. BagToSet(strays) \subseteq 1..Len(raw)
        BY <1>2 DEF QueueInv
    <2>. HIDE DEF Handled
    <2>. QED
        BY <1>1, <2>3, <2>4, BagSum
<1>4. queue # << >> => /\ queue[1].at = FrontOffset /\ FrontOffset \in 1..Len(raw)
                       /\ FrontOffset < position
    <2>1. queue # << >> => 1 \in 1..Len(queue)
        BY <1>2, EmptySeq
    <2>. QED
        BY <1>2, <2>1, Lengths DEF QueueInv, FrontOffset
<1>5. /\ Len(queue') = 0 /\ queue' \in Seq(Entries) /\ FrontOffset' = position /\ QueueLimit \in Nat
      /\ 1 <= position /\ element' \in Nat /\ element' <= Len(raw)
    <2>1. Len(queue') = 0 /\ queue' \in Seq(Entries) /\ QueueLimit \in Nat
        BY <1>1, PipelineAssumption
    <2>2. FrontOffset' = position
        BY <2>1, <1>2, Lengths DEF FrontOffset
    <2>3. 1 <= position
        BY <1>2, Lengths DEF QueueInv, FrontOffset
    <2>4. element' \in Nat /\ element' <= Len(raw)
        BY <1>2, <1>4, Lengths DEF QueueInv
    <2>. QED
        BY <2>1, <2>2, <2>3, <2>4
<1>6. QueueInv'
    BY <1>1, <1>2, <1>3, <1>5, Lengths DEF QueueInv
<1>7. OrderInv'
    <2> SUFFICES ASSUME "skipped" \notin harm
                 PROVE  /\ committed <= position
                        /\ element' # 0 =>
                               element' \in {committed, committed + 1} /\ committed < position
        BY <1>1 DEF OrderInv
    <2>. QED
        BY <1>2, <1>4, Lengths DEF OrderInv
<1>8. Produced'
    <2>1. Sent' = Sent /\ committed' = committed /\ harm' = harm
        BY DEF Sent
    <2>. QED
        BY <1>1, <1>5, <2>1, StaysProduced
<1>9. /\ position' \in Nat /\ committed' \in Nat /\ state' \in States
      /\ harm' \subseteq Harms /\ buffer' \in Seq(Blocks)
    BY DEF Inv, Types
<1>10. \A b \in ToSet(buffer') : b \in Sent
    BY DEF Sent
<1>. QED
    BY <1>5, <1>6, <1>7, <1>8, <1>9, <1>10, TransformerGoesOn

\* What processQueue awaits, or that it gave up, is all that changes.
LEMMA ElementDropped ==
    ASSUME Inv, element' = 0, stuck' \in BOOLEAN,
           UNCHANGED <<scenario, harm, chain, queue, position, committed, strays, state, buffer,
                       out, service>>
    PROVE  Inv'
<1>1. QueueInv' /\ OrderInv'
    BY Lengths DEF Inv, QueueInv, OrderInv, FrontOffset, Accepts, chain
<1>2. Produced'
    BY DEF Inv, Produced, DoneCovered, Covered, Sent, map, chain
<1>3. /\ position' \in Nat /\ committed' \in Nat /\ state' \in States /\ queue' \in Seq(Entries)
      /\ harm' \subseteq Harms /\ buffer' \in Seq(Blocks) /\ element' \in Nat
    BY DEF Inv, Types
<1>4. \A b \in ToSet(buffer') : b \in Sent
    BY DEF Sent
<1>. QED
    BY <1>1, <1>2, <1>3, <1>4, TransformerGoesOn

LEMMA GiveUpInv ==
    ASSUME Inv, GiveUp, AtFront => queue # << >>,
           UNCHANGED <<scenario, harm, chain, position, committed, buffer, out, service>>
    PROVE  Inv'
<1>1. element' = 0 /\ stuck' \in BOOLEAN
    BY DEF GiveUp
<1>2. CASE UNCHANGED <<strays, state>> /\ queue' = IF AtFront THEN [queue EXCEPT ![1].state = "failed"]
                                                   ELSE queue
    <2>1. CASE AtFront
        <3>1. 1 \in DOMAIN queue /\ element' = element
            <4>1. queue \in Seq(Entries)
                BY DEF Inv, Types
            <4>. QED
                BY <1>1, <2>1, <4>1, EmptySeq DEF AtFront
        <3>. QED
            BY <1>1, <1>2, <2>1, <3>1, EntryNotDone
    <2>2. CASE ~AtFront
        BY <1>1, <1>2, <2>2, ElementDropped
    <2>. QED
        BY <2>1, <2>2
<1>3. CASE clear /\ state' = IF Accepts THEN "draining" ELSE state
    <2>1. state' \in States \ {"running"}
        BY <1>3 DEF Accepts, States, Inv, Types
    <2>. QED
        BY <1>1, <1>3, <2>1, Cleared
<1>. QED
    BY <1>2, <1>3 DEF GiveUp

LEMMA GivesUpInv == ASSUME Inv, GivesUp PROVE Inv'
<1>1. queue # << >>
    BY DEF GivesUp, Running
<1>. QED
    BY <1>1, GiveUpInv DEF GivesUp

LEMMA onErrorInv == ASSUME Inv, onError PROVE Inv'
<1>1. element' \in {0, element} \/ (queue # << >> /\ element' = queue[1].at)
    BY DEF onError
<1>2. stuck' \in BOOLEAN /\ state' \in States \ {"running"}
    BY DEF onError, Inv, Types, States
<1>. QED
    BY <1>1, <1>2, Cleared DEF onError

LEMMA closedInv == ASSUME Inv, closed PROVE Inv'
<1>1. element' \in {0, element} \/ (queue # << >> /\ element' = queue[1].at)
    BY DEF closed
<1>2. stuck' \in BOOLEAN /\ state' \in States \ {"running"}
    BY DEF closed, Inv, Types, States
<1>. QED
    BY <1>1, <1>2, Cleared DEF closed

LEMMA elementRejectsInv == ASSUME Inv, elementRejects PROVE Inv'
<1>1. element # 0
    BY DEF elementRejects
<1>2. CASE GiveUp
    BY <1>1, <1>2, GiveUpInv DEF elementRejects, AtFront
<1>3. CASE element' = 0 /\ UNCHANGED <<queue, stuck, strays, state>>
    <2>1. stuck' \in BOOLEAN
        BY <1>3 DEF Inv, Types
    <2>. QED
        BY <1>3, <2>1, ElementDropped DEF elementRejects
<1>. QED
    BY <1>2, <1>3 DEF elementRejects

LEMMA elementResolvesInv == ASSUME Inv, elementResolves PROVE Inv'
<1>1. /\ element # 0 /\ element' = 0 /\ produceEvent(element)
      /\ UNCHANGED <<scenario, chain, position, state, out, service, raw>>
    BY DEF elementResolves, chain
<1>2. element \in 1..Len(raw) /\ Types /\ QueueInv /\ OrderInv /\ queue \in Seq(Entries)
    BY <1>1, Lengths DEF Inv, QueueInv, Types
<1>3. PICK p \in 1..Len(raw) : p = element
    BY <1>2
<1>4. /\ buffer' \in Seq(Blocks) /\ Sent \subseteq Sent' /\ Covered(p)'
      /\ \A b \in ToSet(buffer') : b \in Sent \/ map(b) # << >>
    BY <1>1, <1>3, Produces
<1>5. position' \in Nat /\ element' \in Nat /\ state' \in States
    BY <1>1, <1>2 DEF Types
<1>6. CASE /\ Accepts /\ committed' = element
           /\ queue' = IF queue = << >> THEN queue ELSE Tail(queue)
           /\ strays' = strays (+) SetToBag(Shifted)
           /\ harm' = harm \cup (IF Overtakes(element) THEN {"overtaken"} ELSE {})
                           \cup (IF queue # << >> /\ queue[1].at # element THEN {"skipped"} ELSE {})
           /\ UNCHANGED stuck
    <2>1. harm \subseteq harm' /\ harm' \subseteq Harms /\ committed' = p /\ committed' \in Nat
          /\ stuck' \in BOOLEAN
        BY <1>2, <1>3, <1>6 DEF Harms, Types
    <2>2. "skipped" \notin harm' => "skipped" \notin harm /\ (queue # << >> => queue[1].at = p)
        BY <1>3, <1>6
    <2>3. queue # << >> => queue[1].at = FrontOffset /\ FrontOffset \in 1..Len(raw)
        <3>1. queue # << >> => 1 \in 1..Len(queue)
            BY <1>2, EmptySeq
        <3>. QED
            BY <1>2, <3>1, Lengths DEF QueueInv, FrontOffset
    <2>4. BagToSet(strays') \subseteq 1..Len(raw)
        <3>1. Shifted \subseteq 1..Len(raw)
            BY <2>3 DEF Shifted
        <3>2. BagToSet(strays) \subseteq 1..Len(raw)
            BY <1>2 DEF QueueInv
        <3>. QED
            BY <1>6, <3>1, <3>2, BagSum
    <2>5. "skipped" \notin harm => p \in {committed, committed + 1}
        BY <1>1, <1>2, <1>3 DEF OrderInv
    <2>6. harm' \cap {"lost", "undelivered", "skipped"} = {} => \A i \in 1..committed' :
              i \in 1..committed \/ Covered(i)'
        <3>1. SUFFICES ASSUME "skipped" \notin harm, NEW i \in 1..p
                       PROVE  i \in 1..committed \/ Covered(i)'
            BY <2>1, <2>2
        <3>2. i \in 1..committed \/ i = p
            BY <1>2, <2>5, <3>1, Lengths
        <3>. QED
            BY <1>4, <3>2
    <2>7. CASE queue = << >>
        <3>1. queue' = << >> /\ Len(queue') = 0 /\ Len(queue) = 0 /\ QueueLimit \in Nat
            BY <1>6, <2>7, PipelineAssumption
        <3>2. FrontOffset' = position /\ FrontOffset = position
            BY <1>1, <1>2, <3>1, Lengths DEF FrontOffset
        <3>3. QueueInv'
            BY <1>1, <1>2, <2>1, <2>4, <3>1, <3>2, Lengths DEF QueueInv
        <3>4. OrderInv'
            <4> SUFFICES ASSUME "skipped" \notin harm
                         PROVE  /\ p <= position
                                /\ state = "running" => position \in {p, p + 1}
                BY <1>1, <2>1, <2>2, <3>1, <3>2 DEF OrderInv
            <4>1. /\ committed < position
                  /\ state = "running" => position = committed + 1
                BY <1>1, <1>2, <3>2 DEF OrderInv
            <4>. QED
                BY <1>2, <2>5, <4>1, Lengths
        <3>5. Produced'
            BY <1>1, <1>4, <2>1, <2>6, <3>1, StaysProduced
        <3>6. queue' \in Seq(Entries)
            BY <3>1
        <3>. QED
            BY <1>1, <1>4, <1>5, <2>1, <3>3, <3>4, <3>5, <3>6, TransformerGoesOn
    <2>8. CASE queue # << >>
        <3>1. queue' = Tail(queue)
            BY <1>6, <2>8
        <3>2. queue' \in Seq(Entries) /\ QueueInv' /\ OrderInv'
            BY <1>1, <1>6, <2>1, <2>2, <2>3, <2>4, <2>8, <3>1, FrontShifted
        <3>3. Produced'
            BY <1>1, <1>4, <2>1, <2>6, <2>8, <3>1, TailDone, StaysProduced
        <3>. QED
            BY <1>1, <1>4, <1>5, <2>1, <3>2, <3>3, TransformerGoesOn
    <2>. QED
        BY <2>7, <2>8
<1>7. CASE /\ ~Accepts /\ stuck' \in BOOLEAN
           /\ harm' = IF Overtakes(element) THEN harm \cup {"overtaken"} ELSE harm
           /\ UNCHANGED <<queue, committed, strays>>
    <2>1. /\ harm \subseteq harm' /\ harm' \subseteq Harms /\ committed' \in Nat
          /\ ("skipped" \in harm => "skipped" \in harm') /\ queue' \in Seq(Entries)
        BY <1>2, <1>7 DEF Harms, Types
    <2>2. queue' = << >> /\ state # "running"
        BY <1>2, <1>7 DEF QueueInv, Accepts
    <2>3. QueueInv'
        BY <1>1, <1>2, <1>7 DEF QueueInv, FrontOffset, Accepts
    <2>4. OrderInv'
        BY <1>1, <1>2, <1>7, <2>1, <2>2 DEF OrderInv, FrontOffset
    <2>5. Produced'
        <3>1. Len(queue') = 0
            BY <2>2
        <3>. QED
            BY <1>1, <1>4, <1>7, <2>1, <3>1, StaysProduced
    <2>. QED
        BY <1>1, <1>4, <1>5, <1>7, <2>1, <2>3, <2>4, <2>5, TransformerGoesOn
<1>. QED
    BY <1>6, <1>7 DEF elementResolves

LEMMA strayResolvesInv == ASSUME Inv, strayResolves PROVE Inv'
<1>1. PICK p \in BagToSet(strays) :
          /\ strays' = strays (-) SetToBag({p})
          /\ produceEvent(p)
          /\ harm' = IF Overtakes(p) THEN harm \cup {"overtaken"} ELSE harm
    BY DEF strayResolves
<1>2. UNCHANGED <<scenario, chain, queue, position, committed, element, stuck, state, out,
                  service, raw>>
    BY DEF strayResolves, chain
<1>3. p \in 1..Len(raw) /\ queue \in Seq(Entries) /\ Types
    BY DEF Inv, QueueInv, Types
<1>4. /\ buffer' \in Seq(Blocks) /\ Sent \subseteq Sent'
      /\ \A b \in ToSet(buffer') : b \in Sent \/ map(b) # << >>
    BY <1>1, <1>2, <1>3, Produces
<1>5. harm \subseteq harm' /\ harm' \subseteq Harms /\ ("skipped" \in harm => "skipped" \in harm')
    BY <1>1, <1>3 DEF Types, Harms
<1>6. QueueInv' /\ OrderInv'
    <2>1. BagToSet(strays') \subseteq 1..Len(raw)
        BY <1>1, BagDifference DEF Inv, QueueInv
    <2>. QED
        BY <1>2, <1>3, <1>5, <2>1, OffsetsKept
<1>7. Produced'
    BY <1>2, <1>4, <1>5, StaysProduced
<1>8. /\ position' \in Nat /\ committed' \in Nat /\ element' \in Nat /\ stuck' \in BOOLEAN
      /\ state' \in States /\ queue' \in Seq(Entries)
    BY <1>2, <1>3 DEF Types
<1>. QED
    BY <1>2, <1>4, <1>5, <1>6, <1>7, <1>8, TransformerGoesOn

-----------------------------------------------------------------------------
LEMMA DeliverInv == ASSUME Inv, Deliver PROVE Inv'
<1>. USE DEF Inv, Deliver, bounds, chain, service, consumer
<1>1. out \in Seq(Blocks) /\ buffer \in Seq(Blocks)
    BY DEF Types
<1>2. /\ ToSet(buffer) = {Head(buffer)} \cup ToSet(buffer')
      /\ Head(buffer) \in Blocks /\ buffer' \in Seq(Blocks)
    BY <1>1, HeadAndTail
<1>3. /\ ToSet(out') = ToSet(out) \cup {Head(buffer)}
      /\ out' \in Seq(Blocks) /\ Len(out') = Len(out) + 1
      /\ \A i \in 1..Len(out) : out'[i] = out[i]
    BY <1>1, <1>2, AppendedSet
<1>4. Sent' = Sent
    BY <1>2, <1>3 DEF Sent
<1>5. Types'
    BY <1>2, <1>3 DEF Types
<1>6. QueueInv' /\ OrderInv'
    BY DEF QueueInv, OrderInv, FrontOffset, Accepts
<1>7. \A i : Covered(i)' = Covered(i)
    BY <1>4 DEF Covered, map
<1>8. Produced'
    BY <1>7 DEF Produced, DoneCovered
<1>9. ServiceInv'
    <2>1. offset \in Nat /\ Len(out) \in Nat /\ offset' = offset
        BY <1>1 DEF Types
    <2>2. CASE step \in {"last", "delete", "add"}
        <3>1. offset \in 1..Len(out) /\ row \in 1..Len(map(block))
            BY <2>1, <2>2 DEF ServiceInv, Types
        <3>2. block' = block
            BY <1>3, <2>1, <3>1 DEF block
        <3>3. map(block)' = map(block)
            BY <3>2 DEF map
        <3>4. row' \in 1..Len(map(block))'
            BY <3>1, <3>3
        <3>5. (\A b \in Sent : map(b) # << >>)'
            BY <1>4 DEF ServiceInv, map
        <3>. QED
            BY <1>3, <2>1, <3>1, <3>4, <3>5 DEF ServiceInv, Types
    <2>3. CASE step \notin {"last", "delete", "add"}
        <3>1. (\A b \in Sent : map(b) # << >>)'
            BY <1>4 DEF ServiceInv, map
        <3>. QED
            BY <1>3, <2>1, <2>3, <3>1 DEF ServiceInv
    <2>. QED
        BY <2>2, <2>3
<1>. QED
    BY <1>5, <1>6, <1>8, <1>9

LEMMA DeliveryFailsInv == ASSUME Inv, DeliveryFails PROVE Inv'
<1>1. /\ buffer # << >> /\ buffer' = Tail(buffer) /\ harm' = harm \cup {"undelivered"}
      /\ UNCHANGED <<scenario, chain, consumer, state, out, service>>
    BY DEF DeliveryFails
<1>2. Types /\ buffer \in Seq(Blocks)
    BY DEF Inv, Types
<1>3. ToSet(buffer) = {Head(buffer)} \cup ToSet(buffer') /\ buffer' \in Seq(Blocks)
    BY <1>1, <1>2, HeadAndTail
<1>4. QueueInv' /\ OrderInv'
    BY <1>1 DEF Inv, QueueInv, OrderInv, FrontOffset, Accepts, consumer, chain
<1>5. Produced'
    BY <1>1 DEF Produced
<1>6. /\ position' \in Nat /\ committed' \in Nat /\ element' \in Nat /\ stuck' \in BOOLEAN
      /\ state' \in States /\ queue' \in Seq(Entries) /\ harm' \subseteq Harms
    BY <1>1, <1>2 DEF Types, consumer, Harms
<1>7. \A b \in ToSet(buffer') : b \in Sent
    BY <1>3 DEF Sent
<1>. QED
    BY <1>1, <1>3, <1>4, <1>5, <1>6, <1>7, TransformerGoesOn

\* The consumer has nothing and asks for what lies behind the block committed.
LEMMA SessionStarts ==
    ASSUME Inv, queue' = << >>, position' = committed + 1, state' = "running",
           UNCHANGED <<scenario, chain, committed, out, service>>,
           \/ UNCHANGED <<harm, element, stuck, strays, buffer>>
           \/ /\ element' = 0 /\ stuck' = FALSE /\ strays' = EmptyBag /\ buffer' = << >>
              /\ harm' = IF buffer = << >> THEN harm ELSE harm \cup {"lost"}
    PROVE  Inv'
<1>1. Types /\ QueueInv /\ OrderInv
    BY DEF Inv
<1>2. Len(queue') = 0 /\ queue' \in Seq(Entries) /\ QueueLimit \in Nat /\ raw' = raw
    BY PipelineAssumption DEF chain
<1>3. FrontOffset' = committed + 1 /\ position' \in Nat
    BY <1>1, <1>2, Lengths DEF FrontOffset
<1>4. BagToSet(strays') \subseteq 1..Len(raw)
    <2>1. BagToSet(EmptyBag) = {}
        BY DEF BagToSet, EmptyBag, SetToBag
    <2>. QED
        BY <1>1, <2>1 DEF QueueInv
<1>5. element' \in {0, element} /\ element' \in Nat
    BY <1>1, Lengths
<1>6. QueueInv'
    BY <1>1, <1>2, <1>3, <1>4, <1>5, Lengths DEF QueueInv
<1>7. harm \subseteq harm' /\ harm' \subseteq Harms
    BY <1>1 DEF Types, Harms
<1>8. OrderInv'
    <2> SUFFICES ASSUME "skipped" \notin harm, element' # 0
                 PROVE  element \in {committed, committed + 1}
        BY <1>1, <1>2, <1>3, <1>5, <1>7, Lengths DEF OrderInv
    <2>. QED
        BY <1>1, <1>5 DEF OrderInv
<1>9. Sent' \subseteq Sent /\ ("lost" \in harm' \/ Sent' = Sent) /\ buffer' \in Seq(Blocks)
    <2>1. CASE buffer' = buffer
        BY <1>1, <2>1 DEF Sent, Types
    <2>2. CASE buffer' = << >> /\ harm' = IF buffer = << >> THEN harm ELSE harm \cup {"lost"}
        <3>1. ToSet(buffer') = {} /\ buffer' \in Seq(Blocks)
            BY <2>2 DEF ToSet
        <3>2. buffer = << >> => buffer' = buffer
            BY <2>2
        <3>. QED
            BY <2>2, <3>1, <3>2 DEF Sent
    <2>. QED
        BY <2>1, <2>2
<1>10. Produced'
    <2>1. Sent \subseteq Sent' \/ harm' \cap {"lost", "undelivered"} # {}
        BY <1>9
    <2>. QED
        BY <1>2, <1>7, <2>1, StaysProduced
<1>11. /\ committed' \in Nat /\ state' \in States
       /\ \A b \in ToSet(buffer') : b \in Sent
    BY <1>1, <1>9 DEF Types, States, Sent
<1>12. stuck' \in BOOLEAN
    <2>1. stuck \in BOOLEAN
        BY <1>1 DEF Types
    <2>. QED
        BY <2>1, Zenon
<1>. QED
    BY <1>2, <1>3, <1>5, <1>6, <1>7, <1>8, <1>9, <1>10, <1>11, <1>12, TransformerGoesOn

LEMMA startInv == ASSUME Inv, start PROVE Inv'
<1>1. queue = << >>
    BY DEF Inv, QueueInv, start, Accepts
<1>. QED
    BY <1>1, SessionStarts DEF start, bounds

LEMMA NewProcessInv == ASSUME Inv, NewProcess PROVE Inv'
BY SessionStarts DEF NewProcess

-----------------------------------------------------------------------------
\* The service goes on; what it saves has a transfer to add.
LEMMA ServiceGoesOn ==
    ASSUME Inv, UNCHANGED <<harm, chain, transformer, out>>,
           step' \in {"idle", "last", "delete", "add", "closed"},
           offset' \in Nat, resume' \in Nat, ServiceInv'
    PROVE  Inv'
<1>. USE DEF Inv, chain, transformer, consumer
<1>1. Types'
    BY DEF Types
<1>2. QueueInv' /\ OrderInv'
    BY DEF QueueInv, OrderInv, FrontOffset, Accepts
<1>3. Produced'
    BY DEF Produced, DoneCovered, Covered, Sent, map
<1>. QED
    BY <1>1, <1>2, <1>3

\* What is saved next has a first transfer.
LEMMA BlockHasTransfer ==
    ASSUME Inv, offset <= Len(out)
    PROVE  Len(map(block)) \in Nat /\ 1 \in 1..Len(map(block))
<1>1. offset \in 1..Len(out) /\ out \in Seq(Blocks)
    BY DEF Inv, Types, ServiceInv
<1>2. block \in Blocks /\ block \in Sent
    BY <1>1 DEF block, Sent, ToSet
<1>. QED
    BY <1>2, MapLength DEF Inv, ServiceInv

LEMMA nextInv == ASSUME Inv, next PROVE Inv'
<1>. USE DEF Inv, next, First
<1>1. ServiceInv'
    BY BlockHasTransfer DEF ServiceInv, Sent, map, block, transformer, bounds
<1>2. offset \in Nat /\ resume \in Nat
    BY DEF Types
<1>. QED
    BY <1>1, <1>2, ServiceGoesOn DEF bounds

LEMMA saveInv == ASSUME Inv, save PROVE Inv'
<1>. USE DEF Inv, save
<1>1. ServiceInv'
    BY DEF ServiceInv, Sent, map, block, transformer, bounds
<1>2. offset \in Nat /\ resume \in Nat
    BY DEF Types
<1>. QED
    BY <1>1, <1>2, ServiceGoesOn DEF bounds

LEMMA deleteInv == ASSUME Inv, deleteTxsForReorg PROVE Inv'
<1>. USE DEF Inv, deleteTxsForReorg
<1>1. ServiceInv'
    BY DEF ServiceInv, Sent, map, block, transformer, bounds
<1>2. offset \in Nat /\ resume \in Nat
    BY DEF Types
<1>. QED
    BY <1>1, <1>2, ServiceGoesOn DEF bounds

LEMMA addInv == ASSUME Inv, add PROVE Inv'
<1>. USE DEF Inv
<1>1. offset \in Nat /\ resume \in Nat /\ Len(out) \in Nat
    BY DEF Types
<1>2. offset <= Len(out) /\ row \in 1..Len(map(block))
    BY DEF add, ServiceInv
<1>3. Len(map(block)) \in Nat
    BY <1>2, BlockHasTransfer
<1>4. UNCHANGED <<harm, chain, transformer, out, resume>>
    BY DEF add, bounds
<1>5. CASE row < Len(map(block))
    <2>1. row' = row + 1 /\ step' = "add" /\ offset' = offset
        BY <1>5 DEF add
    <2>2. ServiceInv'
        <3>1. map(block)' = map(block) /\ Sent' = Sent
            BY <1>4, <2>1 DEF block, map, Sent, transformer
        <3>2. row' \in 1..Len(map(block))
            BY <1>2, <1>3, <1>5, <2>1
        <3>. QED
            BY <1>1, <1>2, <1>4, <2>1, <3>1, <3>2 DEF ServiceInv, map
    <2>. QED
        BY <1>1, <1>4, <2>1, <2>2, ServiceGoesOn
<1>6. CASE ~(row < Len(map(block)))
    <2>1. step' = "idle" /\ offset' = offset + 1
        BY <1>6 DEF add
    <2>2. ServiceInv'
        BY <1>1, <1>2, <1>4, <2>1 DEF ServiceInv, Sent, map, transformer
    <2>. QED
        BY <1>1, <1>4, <2>1, <2>2, ServiceGoesOn
<1>. QED
    BY <1>5, <1>6

LEMMA commitInv == ASSUME Inv, commit PROVE Inv'
<1>. USE DEF Inv, commit
<1>1. offset \in Nat /\ resume \in Nat
    BY DEF Types
<1>2. ServiceInv'
    <2>1. map(block)' = map(block) /\ Sent' = Sent
        BY DEF block, map, Sent, transformer
    <2>. QED
        <3>1. (\A b \in Sent : map(b) # << >>)'
            BY <2>1 DEF ServiceInv, map
        <3>2. row' = row /\ step' = step /\ out' = out
            BY DEF bounds
        <3>3. step \in {"last", "delete", "add"} => row' \in 1..Len(map(block))'
            BY <2>1, <3>2 DEF ServiceInv
        <3>4. 1 <= resume' /\ resume' <= offset' /\ offset' <= Len(out') + 1
            BY <1>1, <3>2 DEF ServiceInv
        <3>. QED
            BY <1>1, <3>1, <3>2, <3>3, <3>4 DEF ServiceInv
<1>3. step' \in {"idle", "last", "delete", "add", "closed"}
    BY DEF Types
<1>. QED
    BY <1>1, <1>2, <1>3, ServiceGoesOn DEF bounds

LEMMA saveFailsInv == ASSUME Inv, saveFails PROVE Inv'
<1>. USE DEF Inv, saveFails, First
<1>1. offset \in Nat /\ resume \in Nat
    BY DEF Types
<1>2. offset <= Len(out)
    BY DEF ServiceInv
<1>3. ServiceInv'
    BY <1>2, BlockHasTransfer DEF ServiceInv, Sent, map, block, transformer
<1>. QED
    BY <1>1, <1>3, ServiceGoesOn

LEMMA ServiceDiesInv == ASSUME Inv, ServiceDies PROVE Inv'
<1>. USE DEF Inv, ServiceDies
<1>1. offset \in Nat /\ resume \in Nat
    BY DEF Types
<1>2. ServiceInv'
    BY DEF ServiceInv, Sent, map, block, transformer
<1>. QED
    BY <1>1, <1>2, ServiceGoesOn

LEMMA ServiceStartsInv == ASSUME Inv, ServiceStarts PROVE Inv'
<1>. USE DEF Inv, ServiceStarts
<1>1. offset \in Nat /\ resume \in Nat /\ Len(out) \in Nat
    BY DEF Types
<1>2. ServiceInv'
    BY <1>1 DEF ServiceInv, Sent, map, transformer, bounds
<1>. QED
    BY <1>1, <1>2, ServiceGoesOn DEF bounds

-----------------------------------------------------------------------------
LEMMA NextInv == Inv /\ InScenario /\ [Next]_vars => Inv'
<1> SUFFICES ASSUME Inv, InScenario, [Next]_vars PROVE Inv'
    OBVIOUS
<1>1. CASE Mine
    BY <1>1, MineInv
<1>2. CASE Reorganise
    BY <1>2, ReorganiseInv
<1>3. CASE Receive
    BY <1>3, ReceiveInv
<1>4. CASE onData
    BY <1>4, onDataInv
<1>5. CASE onDataFails
    BY <1>5, onDataFailsInv
<1>6. CASE Commit
    BY <1>6, CommitInv
<1>7. CASE GivesUp
    BY <1>7, GivesUpInv
<1>8. CASE elementResolves
    BY <1>8, elementResolvesInv
<1>9. CASE elementRejects
    BY <1>9, elementRejectsInv
<1>10. CASE strayResolves
    BY <1>10, strayResolvesInv
<1>11. CASE onError
    BY <1>11, onErrorInv
<1>12. CASE Deliver
    BY <1>12, DeliverInv
<1>13. CASE DeliveryFails
    BY <1>13, DeliveryFailsInv
<1>14. CASE Disconnects
    BY <1>14, closedInv DEF Disconnects
<1>15. CASE Disconnected
    BY <1>15, closedInv DEF Disconnected
<1>16. CASE start
    BY <1>16, startInv
<1>17. CASE fatalError
    BY <1>17, NewProcessInv DEF fatalError
<1>18. CASE TransformerDies
    BY <1>18, NewProcessInv DEF TransformerDies
<1>19. CASE next
    BY <1>19, nextInv
<1>20. CASE save
    BY <1>20, saveInv
<1>21. CASE deleteTxsForReorg
    BY <1>21, deleteInv
<1>22. CASE add
    BY <1>22, addInv
<1>23. CASE commit
    BY <1>23, commitInv
<1>24. CASE saveFails
    BY <1>24, saveFailsInv
<1>25. CASE ServiceDies
    BY <1>25, ServiceDiesInv
<1>26. CASE ServiceStarts
    BY <1>26, ServiceStartsInv
<1>27. CASE UNCHANGED vars
    <2>1. UNCHANGED <<scenario, harm, chain, transformer, out, step, row, offset, resume>>
        BY <1>27 DEF vars, bounds, service
    <2>2. ServiceInv'
        BY <2>1 DEF Inv, ServiceInv, Sent, map, block, transformer
    <2>3. step' \in {"idle", "last", "delete", "add", "closed"} /\ offset' \in Nat /\ resume' \in Nat
        BY <2>1 DEF Inv, Types
    <2>. QED
        BY <2>1, <2>2, <2>3, ServiceGoesOn
<1>. QED
    BY <1>1, <1>2, <1>3, <1>4, <1>5, <1>6, <1>7, <1>8, <1>9, <1>10, <1>11, <1>12, <1>13, <1>14,
       <1>15, <1>16, <1>17, <1>18, <1>19, <1>20, <1>21, <1>22, <1>23, <1>24, <1>25, <1>26,
       <1>27 DEF Next

LEMMA InvTypeOK == Inv => TypeOK
<1> SUFFICES ASSUME Inv PROVE TypeOK
    OBVIOUS
<1>1. Types /\ QueueInv /\ ServiceInv
    BY DEF Inv
<1>2. element \in 0..Len(raw)
    BY <1>1, Lengths DEF QueueInv
<1>. QED
    BY <1>1, <1>2 DEF Types, Harms, States, QueueInv, ServiceInv, TypeOK

LEMMA InvDropped == Inv => NothingDropped
BY DEF Inv, Produced, Covered, Sent, NothingDropped

(***************************************************************************)
(* The type invariant: the transformer's offsets and the service's stay    *)
(* within their topics, what the transformer awaits or lost hold of too,   *)
(* its buffer within its limit, and a save has a transfer to add.          *)
(***************************************************************************)
THEOREM PipelineTypeOK == Spec => []TypeOK
BY InitInv, NextInv, SpecInScenario, InvTypeOK, PTL DEF Spec

(***************************************************************************)
(* Whatever fails in the transformer and however often it is closed, the   *)
(* same object started again, its old handlers still running, a block      *)
(* whose offset it committed was produced - unless a process died with the *)
(* messages of its client, the broker did not take one, or processQueue    *)
(* went past messages that were cleared under it.                          *)
(***************************************************************************)
THEOREM PipelineDropsNothing == Spec => []NothingDropped
BY InitInv, NextInv, SpecInScenario, InvDropped, PTL DEF Spec

-----------------------------------------------------------------------------
(***************************************************************************)
(* The collection.  A transfer is in a branch when the block of its number *)
(* there is of its fork and has its index.                                 *)
(***************************************************************************)
Transfers == [blockNumber : Nat, fork : Nat, index : Nat, token : Tokens]

LEMMA MapFacts ==
    ASSUME NEW b \in Blocks
    PROVE  /\ Len(b) \in Nat \ {0} /\ Last(b) \in Labels /\ Last(b) = b[Len(b)]
           /\ map(b) \in Seq(Transfers) /\ Len(map(b)) = Len(Last(b).tokens)
           /\ DOMAIN map(b) = 1..Len(Last(b).tokens)
           /\ map(b) = << >> <=> Len(Last(b).tokens) = 0
           /\ \A i \in 1..Len(Last(b).tokens) :
                  /\ map(b)[i] \in Transfers
                  /\ map(b)[i].blockNumber = Len(b) /\ map(b)[i].index = i
                  /\ map(b)[i].fork = Last(b).fork /\ map(b)[i].token = Last(b).tokens[i]
<1>1. Len(b) \in Nat \ {0} /\ Last(b) \in Labels /\ Last(b) = b[Len(b)]
    BY DEF Blocks, Last
<1>2. /\ Len(Last(b).tokens) \in Nat /\ Last(b).fork \in Nat
      /\ \A i \in 1..Len(Last(b).tokens) : Last(b).tokens[i] \in Tokens
    BY <1>1 DEF Labels
<1>3. \A i \in 1..Len(Last(b).tokens) :
          /\ map(b)[i] \in Transfers
          /\ map(b)[i].blockNumber = Len(b) /\ map(b)[i].index = i
          /\ map(b)[i].fork = Last(b).fork /\ map(b)[i].token = Last(b).tokens[i]
    BY <1>1, <1>2 DEF map, Transfers
<1>4. map(b) \in [1..Len(Last(b).tokens) -> Transfers]
    BY <1>1, <1>2 DEF map, Transfers
<1>5. map(b) \in Seq(Transfers) /\ Len(map(b)) = Len(Last(b).tokens)
    BY <1>2, <1>4, LenProperties, SeqDef
<1>6. map(b) = << >> <=> Len(Last(b).tokens) = 0
    BY <1>5, EmptySeq
<1>7. DOMAIN map(b) = 1..Len(Last(b).tokens)
    BY DEF map
<1>. QED
    BY <1>1, <1>3, <1>5, <1>6, <1>7

InBranch(t, b) ==
    /\ t.blockNumber \in 1..Len(b)
    /\ t.fork = b[t.blockNumber].fork /\ t.index \in 1..Len(b[t.blockNumber].tokens)
    /\ t.token = b[t.blockNumber].tokens[t.index]

LEMMA BranchFacts ==
    ASSUME NEW b \in Seq(Labels)
    PROVE  Branch(b) = {t \in Transfers : InBranch(t, b)}
<1>1. \A n \in 1..Len(b) :
          Ancestor(b, n) \in Blocks /\ Len(Ancestor(b, n)) = n /\ Last(Ancestor(b, n)) = b[n]
    BY DEF Ancestor, Blocks, Last
<1>2. \A n \in 1..Len(b) : b[n] \in Labels
    OBVIOUS
<1>3. ASSUME NEW t \in Branch(b) PROVE t \in Transfers /\ InBranch(t, b)
    <2>1. PICK n \in 1..Len(b) : t \in ToSet(map(Ancestor(b, n)))
        BY <1>3 DEF Branch
    <2>2. PICK i \in DOMAIN map(Ancestor(b, n)) : t = map(Ancestor(b, n))[i]
        BY <2>1 DEF ToSet
    <2>3. i \in 1..Len(b[n].tokens)
        BY <1>1, <2>2 DEF map
    <2>. QED
        BY <1>1, <2>2, <2>3, MapFacts DEF InBranch
<1>4. ASSUME NEW t \in Transfers, InBranch(t, b) PROVE t \in Branch(b)
    <2>1. PICK n \in 1..Len(b) : n = t.blockNumber
        BY <1>4 DEF InBranch
    <2> DEFINE m == map(Ancestor(b, n))
    <2>2. t.index \in 1..Len(Last(Ancestor(b, n)).tokens)
        BY <1>1, <1>4, <2>1 DEF InBranch
    <2>3. t.index \in DOMAIN m
        BY <2>2 DEF map
    <2>4. m[t.index] = t
        <3>1. /\ m[t.index] \in Transfers
              /\ m[t.index].blockNumber = t.blockNumber /\ m[t.index].index = t.index
              /\ m[t.index].fork = t.fork /\ m[t.index].token = t.token
            BY <1>1, <1>4, <2>1, <2>2, MapFacts DEF InBranch
        <3>. QED
            BY <1>4, <3>1 DEF Transfers
    <2>5. t \in ToSet(m)
        BY <2>3, <2>4 DEF ToSet
    <2>. QED
        BY <2>1, <2>5 DEF Branch
<1>. QED
    BY <1>3, <1>4

\* The transfers of b are the last ones of its branch.
LEMMA BranchOfBlock ==
    ASSUME NEW b \in Blocks, NEW t \in Transfers, t.blockNumber >= Len(b)
    PROVE  t \in Branch(b) <=> \E i \in 1..Len(map(b)) : t = map(b)[i]
<1>1. b \in Seq(Labels) /\ Len(b) \in Nat \ {0} /\ b[Len(b)] = Last(b)
    BY MapFacts DEF Blocks
<1>2. t \in Branch(b) <=> InBranch(t, b)
    BY <1>1, BranchFacts
<1>3. ASSUME InBranch(t, b) PROVE \E i \in 1..Len(map(b)) : t = map(b)[i]
    <2>1. t.blockNumber = Len(b)
        BY <1>1, <1>3 DEF InBranch
    <2>2. /\ t.fork = Last(b).fork /\ t.index \in 1..Len(Last(b).tokens)
          /\ t.token = Last(b).tokens[t.index]
        BY <1>1, <1>3, <2>1 DEF InBranch
    <2>3. /\ map(b)[t.index] \in Transfers
          /\ map(b)[t.index].blockNumber = t.blockNumber /\ map(b)[t.index].index = t.index
          /\ map(b)[t.index].fork = t.fork /\ map(b)[t.index].token = t.token
        BY <2>1, <2>2, MapFacts
    <2>4. map(b)[t.index] = t
        BY <2>3 DEF Transfers
    <2>. QED
        BY <2>2, <2>4, MapFacts
<1>4. ASSUME NEW i \in 1..Len(map(b)), t = map(b)[i] PROVE InBranch(t, b)
    BY <1>1, <1>4, MapFacts DEF InBranch
<1>. QED
    BY <1>2, <1>3, <1>4

\* S and T hold the same transfers of the blocks up to number n.
Same(S, T, n) == \A t \in Transfers : t.blockNumber <= n => (t \in S <=> t \in T)

\* A block on top of the first l blocks of h.
LEMMA BranchOfChild ==
    ASSUME NEW h \in Seq(Labels), NEW l \in 0..Len(h), NEW x \in Labels
    PROVE  LET b == Append(Ancestor(h, l), x)
           IN  /\ b \in Blocks /\ Len(b) = l + 1 /\ Last(b) = x
               /\ Same(Branch(b), Branch(h), l)
               /\ x.tokens = << >> /\ l = Len(h) => Branch(b) = Branch(h)
<1> DEFINE b == Append(Ancestor(h, l), x)
<1>1. Ancestor(h, l) \in Seq(Labels) /\ Len(Ancestor(h, l)) = l
      /\ \A i \in 1..l : Ancestor(h, l)[i] = h[i]
    BY DEF Ancestor
<1>2. /\ b \in Seq(Labels) /\ Len(b) = l + 1 /\ b[l + 1] = x
      /\ \A i \in 1..l : b[i] = h[i]
    BY <1>1
<1> HIDE DEF b
<1>3. b \in Blocks /\ Last(b) = x
    BY <1>2, EmptySeq DEF Blocks, Last
<1>4. \A t \in Transfers : t.blockNumber <= l => (InBranch(t, b) <=> InBranch(t, h))
    BY <1>2 DEF InBranch, Transfers
<1>5. Same(Branch(b), Branch(h), l)
    BY <1>2, <1>4, BranchFacts DEF Same
<1>6. ASSUME x.tokens = << >>, l = Len(h), NEW t \in Transfers
      PROVE  InBranch(t, b) <=> InBranch(t, h)
    <2>1. CASE t.blockNumber <= l
        BY <1>4, <2>1
    <2>2. CASE t.blockNumber > l
        BY <1>2, <1>6, <2>2 DEF InBranch, Transfers
    <2>. QED
        BY <2>1, <2>2 DEF Transfers
<1>7. x.tokens = << >> /\ l = Len(h) => Branch(b) = Branch(h)
    BY <1>2, <1>6, BranchFacts
<1>. QED
    BY <1>2, <1>3, <1>5, <1>7 DEF b

-----------------------------------------------------------------------------
(***************************************************************************)
(* The invariant behind DatabaseInStep.  It speaks of what the service has *)
(* still to handle: up to a number below which nothing of that is, the     *)
(* collection is already as the chain wants it.                            *)
(***************************************************************************)
Sending == out \o buffer

\* The transformer will produce the block of offset j, perhaps once more.
IsTodo(j) ==
    /\ j \in 1..Len(raw) /\ j > committed
    /\ \A k \in 1..Len(queue) : queue[k].at = j => queue[k].state # "done"

\* The service will handle b, at offset or behind it.
IsLeft(b) ==
    \/ \E i \in offset..Len(Sending) : Sending[i] = b
    \/ \E j \in 1..Len(raw) : IsTodo(j) /\ raw[j] = b /\ map(b) # << >>

NoneLeft(n) == \A b \in Blocks : IsLeft(b) => Len(b) > n

\* A later block of the topic is one of the first n of its branch.
Newer(i, n) == \E j \in (i + 1)..Len(raw) : map(raw[j]) # << >> /\ Len(raw[j]) <= n

ChainInv ==
    \A i \in 1..Len(raw) : \A n \in Nat :
        n >= Len(raw[i]) => Newer(i, n) \/ Same(Branch(head), Branch(raw[i]), n)

DonePrefix ==
    \A k \in 1..Len(queue) : \A j \in 1..k :
        queue[k].state = "done" => queue[j].state = "done"

\* Whatever of the topic of blocks comes after a block that was produced is
\* behind it in the second topic, or will be.
FollowedUp(i, k) ==
    \A j \in (k + 1)..Len(raw) :
        map(raw[j]) # << >> =>
            IsTodo(j) \/ \E l \in (i + 1)..Len(Sending) : Sending[l] = raw[j]
Follow ==
    \A i \in 1..Len(Sending) :
        \E k \in 1..Len(raw) : raw[k] = Sending[i] /\ FollowedUp(i, k)

\* The collection holds the transfers of S up to number n, each once.
Holds(S, n) ==
    \A t \in Transfers : t.blockNumber <= n =>
        /\ t \in BagToSet(db) <=> t \in S
        /\ t \in BagToSet(db) => db[t] = 1

\* A block that is left has token x, and the collection its owner.
LeftMoves(x) == \E b \in Blocks : IsLeft(b) /\ Moves(b, x)
OwnersHeld(x) ==
    \A t \in Transfers : t.token = x =>
        /\ t \in BagToSet(db) <=> t \in Owners
        /\ t \in BagToSet(db) => db[t] = 1

DbInv ==
    IF Matic THEN \A n \in Nat : NoneLeft(n) => Holds(Branch(head), n)
    ELSE \A x \in Tokens : LeftMoves(x) \/ OwnersHeld(x)

\* Of the first n transfers of b, t is the last one of its token.
LastOf(b, n, t) ==
    \E i \in 1..n : t = map(b)[i] /\ \A k \in (i + 1)..n : map(b)[k].token # t.token

\* The transfers of the block that is saved: those added so far.
AddInv ==
    /\ step \in {"last", "delete"} => row = 1 /\ Matic
    /\ step = "add" /\ Matic =>
           \A t \in Transfers : t.blockNumber >= Len(block) =>
               /\ t \in BagToSet(db) <=> \E i \in 1..(row - 1) : t = map(block)[i]
               /\ t \in BagToSet(db) => db[t] = 1
    /\ step = "add" /\ ~Matic =>
           \A t \in Transfers : (\E i \in 1..(row - 1) : map(block)[i].token = t.token) =>
               /\ t \in BagToSet(db) <=> LastOf(block, row - 1, t)
               /\ t \in BagToSet(db) => db[t] = 1

IsTable(d) ==
    /\ d \in [BagToSet(d) -> Nat \ {0}]
    /\ BagToSet(d) \subseteq Transfers
    /\ \E n \in Nat : \A t \in BagToSet(d) : t.blockNumber <= n
DbTypes == IsTable(db)

StepInv == DbTypes /\ (harm = {} => ChainInv /\ DonePrefix /\ Follow /\ DbInv /\ AddInv)

\* What the service saves.
LEMMA BlockSaved ==
    ASSUME Inv, step \in {"last", "delete", "add"}
    PROVE  /\ offset \in 1..Len(out) /\ Len(out) \in Nat
           /\ block \in Blocks /\ block = out[offset] /\ map(block) # << >>
           /\ row \in 1..Len(map(block))
<1>1. out \in Seq(Blocks) /\ offset \in Nat /\ resume \in Nat
    BY DEF Inv, Types
<1>2. 1 <= resume /\ resume <= offset /\ offset <= Len(out) /\ row \in 1..Len(map(block))
    BY DEF Inv, ServiceInv
<1>3. offset \in 1..Len(out)
    BY <1>1, <1>2
<1>4. block = out[offset] /\ block \in Blocks
    BY <1>1, <1>3 DEF block
<1>5. block \in Sent
    BY <1>1, <1>3, <1>4 DEF Sent, ToSet
<1>. QED
    BY <1>1, <1>2, <1>3, <1>4, <1>5 DEF Inv, ServiceInv

LEMMA SendingFacts ==
    ASSUME Types
    PROVE  /\ Sending \in Seq(Blocks) /\ Len(Sending) = Len(out) + Len(buffer)
           /\ \A i \in 1..Len(out) : Sending[i] = out[i]
           /\ \A i \in 1..Len(buffer) : Sending[Len(out) + i] = buffer[i]
BY ConcatProperties DEF Types, Sending

LEMMA InitStep == Init => StepInv
<1> SUFFICES ASSUME Init PROVE StepInv
    OBVIOUS
<1>1. Types /\ QueueInv /\ ServiceInv
    BY InitInv DEF Inv
<1>2. BagToSet(db) = {} /\ db = [e \in {} |-> 1]
    BY DEF Init, BagToSet, EmptyBag, SetToBag
<1>3. DbTypes
    BY <1>2 DEF DbTypes, IsTable
<1>4. Len(Sending) = 0 /\ Len(raw) = 0 /\ Len(queue) = 0
    BY <1>1, SendingFacts DEF Init
<1>5. ChainInv /\ DonePrefix /\ Follow
    BY <1>4 DEF ChainInv, DonePrefix, Follow
<1>6. Branch(head) = {}
    <2>1. head \in Seq(Labels) /\ Len(head) = 0
        BY <1>1 DEF Init, Types
    <2>2. \A t : ~InBranch(t, head)
        BY <2>1 DEF InBranch
    <2>. QED
        BY <2>1, <2>2, BranchFacts
<1>7. DbInv
    <2>1. \A n \in Nat : Holds(Branch(head), n)
        BY <1>2, <1>6 DEF Holds
    <2>2. \A t : t \notin Owners
        BY <1>4 DEF Owners, Init
    <2>3. \A x \in Tokens : OwnersHeld(x)
        BY <1>2, <2>2 DEF OwnersHeld
    <2>. QED
        BY <2>1, <2>3 DEF DbInv
<1>8. AddInv
    BY DEF Init, AddInv
<1>. QED
    BY <1>3, <1>5, <1>7, <1>8 DEF StepInv

-----------------------------------------------------------------------------
\* What remains to be handled may become more.
LEMMA LeftGrows ==
    ASSUME Inv, Inv', UNCHANGED <<raw, Sending>>, offset' <= offset,
           \A j \in 1..Len(raw) : IsTodo(j) => IsTodo(j)'
    PROVE  /\ \A b : IsLeft(b) => IsLeft(b)'
           /\ Follow => Follow'
<1>1. offset \in Nat /\ offset' \in Nat /\ Len(Sending) \in Nat
    BY SendingFacts DEF Inv, Types
<1>2. \A b : map(b)' = map(b)
    BY DEF map
<1>3. \A b : IsLeft(b) => IsLeft(b)'
    BY <1>1, <1>2 DEF IsLeft
<1>4. \A i, k : k \in 1..Len(raw) /\ FollowedUp(i, k) => FollowedUp(i, k)'
    <2> SUFFICES ASSUME NEW i, NEW k \in 1..Len(raw), FollowedUp(i, k),
                        NEW j \in (k + 1)..Len(raw), map(raw[j]) # << >>
                 PROVE  IsTodo(j)' \/ \E l \in (i + 1)..Len(Sending) : Sending[l] = raw[j]
        BY <1>2 DEF FollowedUp
    <2>1. j \in 1..Len(raw)
        BY DEF Inv, Types
    <2>. QED
        BY <2>1 DEF FollowedUp
<1>5. Follow => Follow'
    BY <1>4 DEF Follow
<1>. QED
    BY <1>3, <1>5

LEMMA StepGoesOn ==
    ASSUME Inv, StepInv, UNCHANGED <<head, raw, db, scenario>>, harm \subseteq harm',
           harm' = {} /\ DonePrefix => \A b \in Blocks : IsLeft(b) => IsLeft(b)',
           harm' = {} /\ DonePrefix /\ Follow /\ AddInv => DonePrefix' /\ Follow' /\ AddInv'
    PROVE  StepInv'
<1>1. DbTypes'
    BY DEF StepInv, DbTypes
<1>2. SUFFICES ASSUME harm' = {} PROVE (ChainInv /\ DonePrefix /\ Follow /\ DbInv /\ AddInv)'
    BY <1>1 DEF StepInv
<1>3. harm = {} /\ ChainInv /\ DonePrefix /\ Follow /\ DbInv /\ AddInv
    BY <1>2 DEF StepInv
<1>4. ChainInv'
    BY <1>3 DEF ChainInv, Newer, Same, map
<1>5. DbInv'
    <2>0. \A b \in Blocks : IsLeft(b) => IsLeft(b)'
        BY <1>2, <1>3
    <2>1. \A n : NoneLeft(n)' => NoneLeft(n)
        BY <2>0 DEF NoneLeft
    <2>2. Matic' = Matic /\ Owners' = Owners
          /\ \A n : Holds(Branch(head), n)' = Holds(Branch(head), n)
        BY DEF Matic, Owners, LastMove, Moves, map, Holds
    <2>3. \A x : (LeftMoves(x) => LeftMoves(x)') /\ (OwnersHeld(x) => OwnersHeld(x)')
        BY <2>0, <2>2 DEF LeftMoves, OwnersHeld, Moves, map
    <2>. QED
        BY <1>3, <2>1, <2>2, <2>3 DEF DbInv
<1>. QED
    BY <1>2, <1>3, <1>4, <1>5

LEMMA StepKept ==
    ASSUME Inv, Inv', StepInv, UNCHANGED <<head, raw, Sending, db, scenario>>,
           harm \subseteq harm', offset' <= offset,
           \A j \in 1..Len(raw) : IsTodo(j) => IsTodo(j)',
           DonePrefix => DonePrefix',
           AddInv => AddInv'
    PROVE  StepInv'
BY LeftGrows, StepGoesOn

\* The service does nothing, and the transformer nothing it has to redo.
LEMMA AddKept ==
    ASSUME Inv, AddInv, UNCHANGED <<scenario, step, row, offset, db>>,
           \A i \in 1..Len(out) : out'[i] = out[i]
    PROVE  AddInv'
<1>1. step = "add" => offset \in 1..Len(out)
    BY DEF Inv, ServiceInv, Types
<1>2. step = "add" => block' = block /\ map(block)' = map(block)
    BY <1>1 DEF block, map
<1>. QED
    <2>1. CASE step # "add"
        BY <2>1 DEF AddInv, Matic
    <2>2. CASE step = "add"
        <3>1. \A n, t : LastOf(block, n, t)' <=> LastOf(block, n, t)
            BY <1>2, <2>2 DEF LastOf
        <3>. QED
            BY <1>2, <2>2, <3>1 DEF AddInv, Matic
    <2>. QED
        BY <2>1, <2>2

-----------------------------------------------------------------------------
\* A block that has no transfer of a token does not change its owner.
LEMMA OwnersOfOneMore ==
    ASSUME raw \in Seq(Blocks), NEW b \in Blocks, raw' = Append(raw, b),
           NEW t, ~Moves(b, t.token)
    PROVE  t \in Owners' <=> t \in Owners
<1>1. /\ Len(raw) \in Nat /\ DOMAIN raw = 1..Len(raw) /\ DOMAIN raw' = 1..(Len(raw) + 1)
      /\ Len(raw') = Len(raw) + 1 /\ raw'[Len(raw) + 1] = b
      /\ \A i \in 1..Len(raw) : raw'[i] = raw[i]
    OBVIOUS
<1>2. \A c, u : LastMove(c, u) => u \in ToSet(map(c)) /\ Moves(c, u.token)
    BY DEF LastMove, Moves, ToSet
<1>3. t \in Owners <=> \E j \in 1..Len(raw) :
          LastMove(raw[j], t) /\ \A k \in (j + 1)..Len(raw) : ~Moves(raw[k], t.token)
    BY <1>1, <1>2 DEF Owners
<1>4. t \in Owners' <=> \E j \in 1..(Len(raw) + 1) :
          LastMove(raw'[j], t) /\ \A k \in (j + 1)..(Len(raw) + 1) : ~Moves(raw'[k], t.token)
    BY <1>1, <1>2 DEF Owners
<1>5. ~LastMove(b, t)
    BY <1>2
<1>6. \A j \in 1..Len(raw) :
          (\A k \in (j + 1)..Len(raw) : ~Moves(raw[k], t.token))
          <=> (\A k \in (j + 1)..(Len(raw) + 1) : ~Moves(raw'[k], t.token))
    <2> SUFFICES ASSUME NEW j \in 1..Len(raw)
                 PROVE  (\A k \in (j + 1)..Len(raw) : ~Moves(raw[k], t.token))
                        <=> (\A k \in (j + 1)..(Len(raw) + 1) : ~Moves(raw'[k], t.token))
        OBVIOUS
    <2>1. \A k \in (j + 1)..Len(raw) : k \in 1..Len(raw) /\ k \in (j + 1)..(Len(raw) + 1)
        BY <1>1
    <2>2. \A k \in (j + 1)..(Len(raw) + 1) : k \in (j + 1)..Len(raw) \/ k = Len(raw) + 1
        BY <1>1
    <2>. QED
        BY <1>1, <2>1, <2>2
<1>7. \A j \in 1..(Len(raw) + 1) : j \in 1..Len(raw) \/ j = Len(raw) + 1
    BY <1>1
<1>8. \A j \in 1..Len(raw) : j \in 1..(Len(raw) + 1)
    BY <1>1
<1>9. ASSUME NEW j \in 1..Len(raw)
      PROVE  /\ LastMove(raw'[j], t) <=> LastMove(raw[j], t)
             /\ (\A k \in (j + 1)..(Len(raw) + 1) : ~Moves(raw'[k], t.token))
                <=> \A k \in (j + 1)..Len(raw) : ~Moves(raw[k], t.token)
    BY <1>1, <1>6
<1>10. ~LastMove(raw'[Len(raw) + 1], t)
    BY <1>1, <1>5
<1>11. t \in Owners' => t \in Owners
    BY <1>3, <1>4, <1>7, <1>9, <1>10
<1>12. t \in Owners => t \in Owners'
    BY <1>3, <1>4, <1>8, <1>9
<1>. QED
    BY <1>11, <1>12

\* A block on top of one of the branch of head is produced; when it has no
\* transfers that is head itself, or there is harm.
LEMMA ProduceStep ==
    ASSUME Inv, Inv', StepInv, NEW l \in 0..Len(head), NEW x \in Labels,
           Produce(Append(Ancestor(head, l), x)),
           harm' = {} /\ x.tokens = << >> => l = Len(head),
           harm \subseteq harm', UNCHANGED <<scenario, transformer, out, service>>
    PROVE  StepInv'
<1>0. PICK b : b = Append(Ancestor(head, l), x)
    OBVIOUS
<1>1. head \in Seq(Labels) /\ raw \in Seq(Blocks) /\ Len(head) \in Nat
    BY DEF Inv, Types
<1>2. /\ b \in Blocks /\ Len(b) = l + 1 /\ Last(b) = x
      /\ Same(Branch(b), Branch(head), l)
      /\ x.tokens = << >> /\ l = Len(head) => Branch(b) = Branch(head)
    BY <1>0, <1>1, BranchOfChild
<1>3. head' = b /\ raw' = Append(raw, b)
    BY <1>0 DEF Produce
<1>4. /\ Len(raw') = Len(raw) + 1 /\ raw'[Len(raw) + 1] = b
      /\ \A i \in 1..Len(raw) : raw'[i] = raw[i]
    BY <1>1, <1>2, <1>3
<1>5. map(b) = << >> <=> x.tokens = << >>
    <2>1. x.tokens \in Seq(Tokens)
        BY DEF Labels
    <2>2. x.tokens = << >> <=> Len(x.tokens) = 0
        BY <2>1, EmptySeq
    <2>. QED
        BY <1>2, <2>2, MapFacts
<1>6. \A c : map(c)' = map(c)
    BY DEF map
<1>7. UNCHANGED <<queue, position, committed, buffer, out, step, row, offset, db, Sending, scenario>>
    BY DEF transformer, consumer, service, Sending
<1>8. DbTypes'
    BY <1>7 DEF StepInv, DbTypes
<1>9. SUFFICES ASSUME harm' = {} PROVE (ChainInv /\ DonePrefix /\ Follow /\ DbInv /\ AddInv)'
    BY <1>8 DEF StepInv
<1>10. harm = {} /\ ChainInv /\ DonePrefix /\ Follow /\ DbInv /\ AddInv
    BY <1>9 DEF StepInv
<1>11. ASSUME NEW n \in Nat, map(b) # << >> => n < Len(b)
       PROVE  Same(Branch(b), Branch(head), n)
    <2>1. CASE map(b) = << >>
        BY <1>2, <1>5, <1>9, <2>1 DEF Same
    <2>2. CASE n < Len(b)
        BY <1>2, <2>2 DEF Same, Transfers
    <2>. QED
        BY <1>11, <2>1, <2>2
<1>12. ChainInv'
    <2> SUFFICES ASSUME NEW i \in 1..Len(raw'), NEW n \in Nat, n >= Len(raw'[i]),
                        ~Newer(i, n)'
                 PROVE  Same(Branch(b), Branch(raw'[i]), n)
        BY <1>3 DEF ChainInv, Same
    <2>1. CASE i = Len(raw) + 1
        BY <1>4, <2>1 DEF Same
    <2>2. CASE i \in 1..Len(raw)
        <3>1. raw'[i] = raw[i]
            BY <1>4, <2>2
        <3>2. \A j \in (i + 1)..Len(raw) : raw'[j] = raw[j] /\ j \in (i + 1)..Len(raw')
            BY <1>1, <1>4, <2>2
        <3>3. ~Newer(i, n)
            BY <1>6, <3>2 DEF Newer
        <3>4. Same(Branch(head), Branch(raw[i]), n)
            BY <1>10, <2>2, <3>1, <3>3 DEF ChainInv
        <3>5. Len(raw) + 1 \in (i + 1)..Len(raw')
            BY <1>1, <1>4, <2>2
        <3>6. map(b) # << >> => n < Len(b)
            BY <1>2, <1>4, <1>6, <3>5 DEF Newer
        <3>7. Same(Branch(b), Branch(head), n)
            BY <1>11, <3>6
        <3>. QED
            BY <3>1, <3>4, <3>7 DEF Same
    <2>. QED
        BY <1>1, <1>4, <2>1, <2>2
<1>13. DonePrefix' /\ AddInv'
    <2>1. AddInv'
        BY <1>7, <1>10, AddKept
    <2>. QED
        BY <1>7, <1>10, <2>1 DEF DonePrefix
<1>14. \A j \in 1..Len(raw) : IsTodo(j) => IsTodo(j)'
    BY <1>4, <1>7 DEF IsTodo
<1>15. \A j : j = Len(raw) + 1 => IsTodo(j)'
    <2>1. committed \in Nat /\ Len(raw) \in Nat /\ Len(queue) \in Nat /\ position \in Nat
        BY Lengths DEF Inv
    <2>2. committed <= Len(raw) /\ \A k \in 1..Len(queue) : queue[k].at <= Len(raw)
        BY <2>1 DEF Inv, QueueInv, FrontOffset
    <2>3. \A k \in 1..Len(queue) : queue[k].at # Len(raw) + 1
        BY <2>1, <2>2 DEF Inv, QueueInv, FrontOffset
    <2>. QED
        BY <1>4, <1>7, <2>1, <2>2, <2>3 DEF IsTodo
<1>16. \A c : IsLeft(c) => IsLeft(c)'
    BY <1>4, <1>6, <1>7, <1>14 DEF IsLeft
<1>17. map(b) # << >> => IsLeft(b)'
    <2>1. Len(raw) + 1 \in 1..Len(raw')
        BY <1>1, <1>4
    <2>. QED
        BY <1>4, <1>6, <1>15, <2>1 DEF IsLeft
<1>18. Follow'
    <2> SUFFICES ASSUME NEW i \in 1..Len(Sending)
                 PROVE  \E k \in 1..Len(raw') : raw'[k] = Sending[i] /\ FollowedUp(i, k)'
        BY <1>7 DEF Follow
    <2>1. PICK k \in 1..Len(raw) : raw[k] = Sending[i] /\ FollowedUp(i, k)
        BY <1>10 DEF Follow
    <2>2. k \in 1..Len(raw') /\ raw'[k] = Sending[i]
        BY <1>1, <1>4, <2>1
    <2>3. FollowedUp(i, k)'
        <3> SUFFICES ASSUME NEW j \in (k + 1)..Len(raw'), map(raw'[j]) # << >>
                     PROVE  IsTodo(j)' \/ \E m \in (i + 1)..Len(Sending) : Sending[m] = raw'[j]
            BY <1>6, <1>7 DEF FollowedUp
        <3>1. CASE j = Len(raw) + 1
            BY <1>15, <3>1
        <3>2. CASE j \in (k + 1)..Len(raw)
            <4>1. j \in 1..Len(raw) /\ raw'[j] = raw[j]
                BY <1>1, <1>4, <3>2
            <4>2. map(raw[j]) # << >>
                BY <4>1
            <4>3. IsTodo(j) \/ \E m \in (i + 1)..Len(Sending) : Sending[m] = raw[j]
                BY <2>1, <3>2, <4>2 DEF FollowedUp
            <4>. QED
                BY <1>14, <4>1, <4>3
        <3>3. j = Len(raw) + 1 \/ j \in (k + 1)..Len(raw)
            BY <1>1, <1>4
        <3>. QED
            BY <3>1, <3>2, <3>3
    <2>. QED
        BY <2>2, <2>3
<1>19. DbInv'
    <2>1. ASSUME Matic, NEW n \in Nat, NoneLeft(n)' PROVE Holds(Branch(head), n)'
        <3>1. NoneLeft(n)
            BY <1>16, <2>1 DEF NoneLeft
        <3>2. Holds(Branch(head), n)
            BY <1>10, <2>1, <3>1 DEF DbInv
        <3>3. Same(Branch(b), Branch(head), n)
            BY <1>2, <1>11, <1>17, <2>1 DEF NoneLeft
        <3>. QED
            BY <1>3, <1>7, <3>2, <3>3 DEF Holds, Same
    <2>2. ASSUME ~Matic, NEW z \in Tokens, ~LeftMoves(z)' PROVE OwnersHeld(z)'
        <3>1. ~LeftMoves(z)
            BY <1>6, <1>16, <2>2 DEF LeftMoves, Moves
        <3>2. OwnersHeld(z)
            BY <1>10, <2>2, <3>1 DEF DbInv
        <3>3. ~Moves(b, z)
            <4>1. Moves(b, z) => map(b) # << >>
                BY DEF Moves
            <4>. QED
                BY <1>2, <1>6, <1>17, <2>2, <4>1 DEF LeftMoves, Moves
        <3>4. \A t \in Transfers : t.token = z => (t \in Owners' <=> t \in Owners)
            BY <1>1, <1>2, <1>3, <3>3, OwnersOfOneMore
        <3>. QED
            BY <1>7, <3>2, <3>4 DEF OwnersHeld
    <2>3. Matic' = Matic
        BY <1>7 DEF Matic
    <2>. QED
        BY <2>1, <2>2, <2>3 DEF DbInv
<1>. QED
    BY <1>10, <1>12, <1>13, <1>18, <1>19

LEMMA MineStep == ASSUME Inv, Inv', InScenario, StepInv, Mine PROVE StepInv'
<1>1. PICK c \in scenario.contents : Produce(Append(head, Label(forks, c)))
    BY DEF Mine
<1>2. Label(forks, c) \in Labels
    BY <1>1, ContentsType DEF Inv, Types, Label, Labels
<1>3. head \in Seq(Labels) /\ Len(head) \in 0..Len(head) /\ Ancestor(head, Len(head)) = head
    BY DEF Inv, Types, Ancestor
<1>. QED
    BY <1>1, <1>2, <1>3, ProduceStep DEF Mine, bounds

LEMMA ReorganiseStep ==
    ASSUME Inv, Inv', InScenario, StepInv, Reorganise PROVE StepInv'
<1>1. PICK d \in 1..Len(head), c \in scenario.contents :
          /\ Produce(Append(Ancestor(head, Len(head) - d), Label(forks + 1, c)))
          /\ harm' = IF c = << >> THEN harm \cup {"empty"} ELSE harm
    BY DEF Reorganise
<1>2. Label(forks + 1, c) \in Labels /\ Label(forks + 1, c).tokens = c
    <2>1. c \in Seq(Tokens)
        BY <1>1, ContentsType
    <2>2. forks \in Nat
        BY DEF Inv, Types
    <2>. QED
        BY <2>1, <2>2 DEF Label, Labels
<1>3. Len(head) - d \in 0..Len(head)
    <2>1. Len(head) \in Nat
        BY DEF Inv, Types
    <2>. QED
        BY <1>1, <2>1
<1>4. harm \subseteq harm' /\ (harm' = {} => c # << >>)
    BY <1>1
<1>. QED
    BY <1>1, <1>2, <1>3, <1>4, ProduceStep DEF Reorganise

-----------------------------------------------------------------------------
LEMMA ReceiveStep == ASSUME Inv, Inv', StepInv, Receive PROVE StepInv'
<1>1. queue \in Seq(Entries) /\ Len(queue) \in Nat
    BY DEF Inv, Types
<1> DEFINE e == [at |-> position, state |-> "fresh"]
<1>2. /\ queue' = Append(queue, e) /\ harm \subseteq harm'
      /\ UNCHANGED <<scenario, head, raw, committed, buffer, out, step, row, offset, db>>
    BY DEF Receive, chain, service
<1>3. e \in Entries /\ e.state = "fresh"
    BY DEF Entries, Inv, Types
<1> HIDE DEF e
<1>4. /\ Len(queue') = Len(queue) + 1
      /\ \A k \in 1..Len(queue) : queue'[k] = queue[k]
      /\ queue'[Len(queue) + 1].state = "fresh"
    BY <1>1, <1>2, <1>3, Appended
<1>5. \A k \in 1..Len(queue') : k \in 1..Len(queue) \/ queue'[k].state = "fresh"
    BY <1>1, <1>4
<1>6. \A j \in 1..Len(raw) : IsTodo(j) => IsTodo(j)'
    <2> SUFFICES ASSUME NEW j \in 1..Len(raw), IsTodo(j), NEW k \in 1..Len(queue'),
                        queue'[k].at = j
                 PROVE  queue'[k].state # "done"
        BY <1>2 DEF IsTodo
    <2>. QED
        BY <1>4, <1>5 DEF IsTodo
<1>7. DonePrefix => DonePrefix'
    <2> SUFFICES ASSUME DonePrefix, NEW k \in 1..Len(queue'), NEW j \in 1..k,
                        queue'[k].state = "done"
                 PROVE  queue'[j].state = "done"
        BY DEF DonePrefix
    <2>1. k \in 1..Len(queue) /\ j \in 1..Len(queue)
        BY <1>1, <1>5
    <2>. QED
        BY <1>4, <2>1 DEF DonePrefix
<1>8. AddInv => AddInv'
    BY <1>2, AddKept
<1>9. Sending' = Sending /\ offset' <= offset
    BY <1>2, Lengths DEF Sending, Inv
<1>. QED
    BY <1>2, <1>6, <1>7, <1>8, <1>9, StepKept

\* Nothing is produced or done, or something fails for good.
LEMMA TransformerKept ==
    ASSUME Inv, Inv', StepInv, harm \subseteq harm', harm' = {} => buffer' = buffer,
           UNCHANGED <<scenario, chain, committed, out, service>>,
           \A j \in 1..Len(raw) : IsTodo(j) => IsTodo(j)', DonePrefix => DonePrefix'
    PROVE  StepInv'
<1>. USE DEF chain, service
<1>1. CASE harm' # {}
    BY <1>1 DEF StepInv, DbTypes
<1>2. CASE harm' = {}
    <2>1. AddInv => AddInv'
        BY AddKept
    <2>2. Sending' = Sending /\ offset' <= offset
        BY <1>2, Lengths DEF Sending, Inv
    <2>. QED
        BY <1>2, <2>1, <2>2, StepKept
<1>. QED
    BY <1>1, <1>2

LEMMA QueueKept ==
    ASSUME Inv, Inv', StepInv, harm \subseteq harm', harm' = {} => buffer' = buffer,
           UNCHANGED <<scenario, chain, queue, committed, out, service>>
    PROVE  StepInv'
<1>1. \A j \in 1..Len(raw) : IsTodo(j) => IsTodo(j)'
    BY DEF IsTodo, chain
<1>2. DonePrefix => DonePrefix'
    BY DEF DonePrefix
<1>. QED
    BY <1>1, <1>2, TransformerKept

LEMMA DroppedStep ==
    ASSUME Inv, Inv', StepInv, queue' = << >>, harm \subseteq harm', harm' = {} => buffer' = buffer,
           UNCHANGED <<scenario, chain, committed, out, service>>
    PROVE  StepInv'
<1>1. Len(queue') = 0
    OBVIOUS
<1>2. \A j \in 1..Len(raw) : IsTodo(j) => IsTodo(j)'
    BY <1>1 DEF IsTodo, chain
<1>3. DonePrefix'
    BY <1>1 DEF DonePrefix
<1>. QED
    BY <1>2, <1>3, TransformerKept

LEMMA EntryNotDoneStep ==
    ASSUME Inv, Inv', StepInv, NEW k \in DOMAIN queue, NEW s \in {"retried", "failed"},
           queue[k].state # "done", queue' = [queue EXCEPT ![k].state = s],
           UNCHANGED <<scenario, harm, chain, committed, buffer, out, service>>
    PROVE  StepInv'
<1>1. s \in {"retried", "done", "failed"} /\ k \in 1..Len(queue) /\ Len(queue) \in Nat
    <2>1. queue \in Seq(Entries)
        BY DEF Inv, Types
    <2>2. s \in {"retried", "done", "failed"}
        OBVIOUS
    <2>. QED
        BY <2>1, <2>2
<1>2. /\ Len(queue') = Len(queue)
      /\ \A j \in 1..Len(queue) : queue'[j].at = queue[j].at
      /\ \A j \in 1..Len(queue) : queue'[j].state = IF j = k THEN s ELSE queue[j].state
    BY <1>1, EntryDone
<1>3. \A j \in 1..Len(raw) : IsTodo(j) => IsTodo(j)'
    BY <1>2 DEF IsTodo, chain
<1>4. DonePrefix => DonePrefix'
    <2> SUFFICES ASSUME DonePrefix, NEW m \in 1..Len(queue'), NEW j \in 1..m,
                        queue'[m].state = "done"
                 PROVE  queue'[j].state = "done"
        BY DEF DonePrefix
    <2>1. m \in 1..Len(queue) /\ j \in 1..Len(queue) /\ queue[m].state = "done"
        BY <1>1, <1>2
    <2>2. queue[j].state = "done"
        BY <2>1 DEF DonePrefix
    <2>. QED
        BY <1>2, <2>1, <2>2
<1>. QED
    BY <1>3, <1>4, TransformerKept

LEMMA onDataFailsStep == ASSUME Inv, Inv', StepInv, onDataFails PROVE StepInv'
<1>1. PICK k \in Running :
          queue[k].state = "fresh" /\ queue' = [queue EXCEPT ![k].state = "retried"]
    BY DEF onDataFails
<1>2. k \in DOMAIN queue
    BY <1>1 DEF Running
<1>. QED
    BY <1>1, <1>2, EntryNotDoneStep DEF onDataFails

LEMMA GiveUpStep ==
    ASSUME Inv, Inv', StepInv, GiveUp, AtFront => 1 \in DOMAIN queue /\ queue[1].state # "done",
           UNCHANGED <<scenario, harm, chain, committed, buffer, out, service>>
    PROVE  StepInv'
<1>1. CASE AtFront /\ queue' = [queue EXCEPT ![1].state = "failed"]
    BY <1>1, EntryNotDoneStep
<1>2. CASE queue' = queue
    BY <1>2, QueueKept
<1>3. CASE queue' = << >>
    BY <1>3, DroppedStep
<1>. QED
    BY <1>1, <1>2, <1>3 DEF GiveUp, clear

LEMMA GivesUpStep == ASSUME Inv, Inv', StepInv, GivesUp PROVE StepInv'
<1>1. 1 \in DOMAIN queue /\ queue[1].state # "done"
    BY DEF GivesUp, Running
<1>. QED
    BY <1>1, GiveUpStep DEF GivesUp

LEMMA elementRejectsStep == ASSUME Inv, Inv', StepInv, elementRejects PROVE StepInv'
<1>1. CASE GiveUp
    BY <1>1, GiveUpStep DEF elementRejects, AtFront
<1>2. CASE queue' = queue
    BY <1>2, QueueKept DEF elementRejects
<1>. QED
    BY <1>1, <1>2 DEF elementRejects

LEMMA onErrorStep == ASSUME Inv, Inv', StepInv, onError PROVE StepInv'
BY DroppedStep DEF onError, clear

LEMMA closedStep == ASSUME Inv, Inv', StepInv, closed PROVE StepInv'
BY DroppedStep DEF closed, clear

LEMMA startStep == ASSUME Inv, Inv', StepInv, start PROVE StepInv'
BY QueueKept DEF start, bounds

LEMMA NewProcessStep == ASSUME Inv, Inv', StepInv, NewProcess PROVE StepInv'
<1>1. harm \subseteq harm' /\ (harm' = {} => buffer' = buffer)
    BY DEF NewProcess
<1>. QED
    BY <1>1, DroppedStep DEF NewProcess

LEMMA DeliveryFailsStep == ASSUME Inv, Inv', StepInv, DeliveryFails PROVE StepInv'
<1>1. harm' # {}
    BY DEF DeliveryFails
<1>. QED
    BY <1>1 DEF DeliveryFails, service, StepInv, DbTypes

\* The front of the queue is one that was todo no more.
LEMMA ShiftedKept ==
    ASSUME Inv, queue # << >>, queue' = Tail(queue)
    PROVE  /\ \A k \in 1..Len(queue') : k + 1 \in 1..Len(queue) /\ queue'[k] = queue[k + 1]
           /\ DonePrefix => DonePrefix'
<1>1. queue \in Seq(Entries) /\ Len(queue) \in Nat
    BY DEF Inv, Types
<1>2. /\ Len(queue') = Len(queue) - 1
      /\ \A j \in 1..(Len(queue) - 1) : queue'[j] = queue[j + 1]
    BY <1>1, HeadAndTail
<1>3. \A k \in 1..Len(queue') : k + 1 \in 1..Len(queue) /\ queue'[k] = queue[k + 1]
    BY <1>1, <1>2
<1>4. DonePrefix => DonePrefix'
    <2> SUFFICES ASSUME DonePrefix, NEW k \in 1..Len(queue'), NEW j \in 1..k,
                        queue'[k].state = "done"
                 PROVE  queue'[j].state = "done"
        BY DEF DonePrefix
    <2>1. j \in 1..Len(queue') /\ j + 1 \in 1..(k + 1)
        BY <1>1, <1>2
    <2>. QED
        BY <1>3, <2>1 DEF DonePrefix
<1>. QED
    BY <1>3, <1>4

LEMMA CommitStep == ASSUME Inv, Inv', StepInv, Commit PROVE StepInv'
<1>1. /\ queue # << >> /\ queue[1].state = "done" /\ committed' = queue[1].at
      /\ queue' = Tail(queue)
      /\ UNCHANGED <<scenario, harm, head, raw, buffer, out, step, row, offset, db, service>>
    BY DEF Commit, CommitDue, bounds, chain, service
<1>2. /\ queue \in Seq(Entries) /\ 1 \in 1..Len(queue) /\ Types
    <2>1. queue \in Seq(Entries) /\ Types
        BY DEF Inv, Types
    <2>. QED
        BY <1>1, <2>1, EmptySeq
<1>3. CASE harm' # {}
    BY <1>1, <1>3 DEF StepInv, DbTypes
<1>4. CASE harm' = {}
    <2>1. committed' \in {committed, committed + 1} /\ committed \in Nat
        BY <1>1, <1>2, <1>4, Lengths DEF Inv, QueueInv, OrderInv, FrontOffset
    <2>2. \A j \in 1..Len(raw) : IsTodo(j) => IsTodo(j)'
        <3> SUFFICES ASSUME NEW j \in 1..Len(raw), IsTodo(j) PROVE IsTodo(j)'
            OBVIOUS
        <3>1. j > committed /\ j # committed'
            BY <1>1, <1>2 DEF IsTodo
        <3>2. j > committed'
            BY <2>1, <3>1
        <3>3. \A k \in 1..Len(queue') : queue'[k].at = j => queue'[k].state # "done"
            BY <1>1, ShiftedKept DEF IsTodo
        <3>. QED
            BY <1>1, <3>2, <3>3 DEF IsTodo
    <2>3. DonePrefix => DonePrefix'
        BY <1>1, ShiftedKept
    <2>4. AddInv => AddInv'
        BY <1>1, AddKept
    <2>5. Sending' = Sending /\ offset' <= offset
        BY <1>1, <1>2, Lengths DEF Sending
    <2>. QED
        BY <1>1, <2>2, <2>3, <2>4, <2>5, StepKept
<1>. QED
    BY <1>3, <1>4

\* The first element of b goes to the end of a.
LEMMA HeadMoves ==
    ASSUME NEW S, NEW a \in Seq(S), NEW b \in Seq(S), b # << >>
    PROVE  Append(a, Head(b)) \o Tail(b) = a \o b
<1> DEFINE c == Append(a, Head(b))
<1>1. /\ Len(a) \in Nat /\ Len(b) \in Nat \ {0} /\ Head(b) \in S /\ Head(b) = b[1]
      /\ Tail(b) \in Seq(S) /\ Len(Tail(b)) = Len(b) - 1
      /\ \A i \in 1..(Len(b) - 1) : Tail(b)[i] = b[i + 1]
    BY HeadTailProperties
<1>2. /\ c \in Seq(S) /\ Len(c) = Len(a) + 1 /\ c[Len(a) + 1] = b[1]
      /\ \A i \in 1..Len(a) : c[i] = a[i]
    BY <1>1
<1> HIDE DEF c
<1>3. /\ a \o b \in Seq(S) /\ Len(a \o b) = Len(a) + Len(b)
      /\ \A i \in 1..(Len(a) + Len(b)) :
             (a \o b)[i] = IF i <= Len(a) THEN a[i] ELSE b[i - Len(a)]
    BY ConcatProperties
<1>4. /\ c \o Tail(b) \in Seq(S) /\ Len(c \o Tail(b)) = Len(c) + Len(Tail(b))
      /\ \A i \in 1..(Len(c) + Len(Tail(b))) :
             (c \o Tail(b))[i] = IF i <= Len(c) THEN c[i] ELSE Tail(b)[i - Len(c)]
    BY <1>1, <1>2, ConcatProperties
<1>5. ASSUME NEW i \in 1..Len(a \o b) PROVE (c \o Tail(b))[i] = (a \o b)[i]
    <2>1. CASE i <= Len(a)
        BY <1>1, <1>2, <1>3, <1>4, <2>1
    <2>2. CASE i = Len(a) + 1
        BY <1>1, <1>2, <1>3, <1>4, <2>2
    <2>3. CASE i > Len(a) + 1
        <3>1. /\ i - Len(c) \in 1..(Len(b) - 1) /\ i - Len(c) + 1 = i - Len(a)
              /\ ~(i <= Len(a)) /\ ~(i <= Len(c))
            BY <1>1, <1>2, <1>3, <2>3
        <3>2. Tail(b)[i - Len(c)] = b[i - Len(a)]
            BY <1>1, <3>1
        <3>3. i \in 1..(Len(a) + Len(b)) /\ i \in 1..(Len(c) + Len(Tail(b)))
            BY <1>1, <1>2, <1>3
        <3>4. (a \o b)[i] = b[i - Len(a)]
            BY <1>3, <3>1, <3>3
        <3>5. (c \o Tail(b))[i] = Tail(b)[i - Len(c)]
            BY <1>4, <3>1, <3>3
        <3>. QED
            BY <3>2, <3>4, <3>5
    <2>4. i <= Len(a) \/ i = Len(a) + 1 \/ i > Len(a) + 1
        BY <1>1, <1>3
    <2>. QED
        BY <2>1, <2>2, <2>3, <2>4
<1>6. Len(c \o Tail(b)) = Len(a \o b)
    BY <1>1, <1>2, <1>3, <1>4
<1>. QED
    BY <1>3, <1>4, <1>5, <1>6, SeqEqual DEF c

LEMMA DeliverStep == ASSUME Inv, Inv', StepInv, Deliver PROVE StepInv'
<1>1. out \in Seq(Blocks) /\ buffer \in Seq(Blocks)
    BY DEF Inv, Types
<1>2. /\ buffer # << >> /\ out' = Append(out, Head(buffer)) /\ buffer' = Tail(buffer)
      /\ UNCHANGED <<scenario, harm, head, raw, queue, committed, step, row, offset, db>>
    BY DEF Deliver, bounds, chain, consumer, service
<1>3. Sending' = Sending
    BY <1>1, <1>2, HeadMoves DEF Sending
<1>4. AddInv => AddInv'
    <2>1. Head(buffer) \in Blocks
        BY <1>1, <1>2, HeadAndTail
    <2>2. \A i \in 1..Len(out) : out'[i] = out[i]
        BY <1>1, <1>2, <2>1
    <2>. QED
        BY <1>2, <2>2, AddKept
<1>5. \A j \in 1..Len(raw) : IsTodo(j) => IsTodo(j)'
    BY <1>2 DEF IsTodo
<1>6. DonePrefix => DonePrefix'
    BY <1>2 DEF DonePrefix
<1>7. offset' <= offset
    BY <1>2, Lengths DEF Inv
<1>. QED
    BY <1>2, <1>3, <1>4, <1>5, <1>6, <1>7, StepKept

\* An element at the end of b is one at the end of both.
LEMMA AppendMoves ==
    ASSUME NEW S, NEW a \in Seq(S), NEW b \in Seq(S), NEW e \in S
    PROVE  /\ Len(a \o Append(b, e)) = Len(a \o b) + 1
           /\ (a \o Append(b, e))[Len(a \o b) + 1] = e
           /\ \A i \in 1..Len(a \o b) : (a \o Append(b, e))[i] = (a \o b)[i]
<1>1. /\ Len(a) \in Nat /\ Len(b) \in Nat
      /\ Append(b, e) \in Seq(S) /\ Len(Append(b, e)) = Len(b) + 1
      /\ Append(b, e)[Len(b) + 1] = e /\ \A i \in 1..Len(b) : Append(b, e)[i] = b[i]
    OBVIOUS
<1>2. /\ Len(a \o b) = Len(a) + Len(b)
      /\ \A i \in 1..(Len(a) + Len(b)) :
             (a \o b)[i] = IF i <= Len(a) THEN a[i] ELSE b[i - Len(a)]
    BY ConcatProperties
<1> DEFINE c == Append(b, e)
<1> HIDE DEF c
<1>3. /\ Len(a \o c) = Len(a) + Len(c)
      /\ \A i \in 1..(Len(a) + Len(c)) :
             (a \o c)[i] = IF i <= Len(a) THEN a[i] ELSE c[i - Len(a)]
    BY <1>1, ConcatProperties DEF c
<1>4. Len(a \o c) = Len(a \o b) + 1 /\ (a \o c)[Len(a \o b) + 1] = e
    <2>1. LET n == Len(a) + Len(b) + 1
          IN  n \in 1..(Len(a) + Len(c)) /\ ~(n <= Len(a)) /\ n - Len(a) = Len(b) + 1
        BY <1>1 DEF c
    <2>. QED
        BY <1>1, <1>2, <1>3, <2>1 DEF c
<1>5. ASSUME NEW i \in 1..Len(a \o b) PROVE (a \o c)[i] = (a \o b)[i]
    <2>1. i \in 1..(Len(a) + Len(c)) /\ i \in 1..(Len(a) + Len(b))
        BY <1>1, <1>2 DEF c
    <2>2. CASE i <= Len(a)
        BY <1>2, <1>3, <2>1, <2>2
    <2>3. CASE ~(i <= Len(a))
        <3>1. i - Len(a) \in 1..Len(b)
            BY <1>1, <2>1, <2>3
        <3>2. c[i - Len(a)] = b[i - Len(a)]
            BY <1>1, <3>1 DEF c
        <3>. QED
            BY <1>2, <1>3, <2>1, <2>3, <3>2
    <2>. QED
        BY <2>2, <2>3
<1>. QED
    BY <1>4, <1>5 DEF c

\* Block p of the topic is produced, and with that every block behind it has
\* still to be.
LEMMA ProducedStep ==
    ASSUME Inv, Inv', StepInv, NEW p \in 1..Len(raw), produceEvent(p),
           UNCHANGED <<scenario, chain, out, service>>, harm \subseteq harm',
           harm' = {} /\ DonePrefix =>
               /\ DonePrefix'
               /\ \A j \in 1..Len(raw) : IsTodo(j) => IsTodo(j)' \/ j = p
               /\ \A j \in (p + 1)..Len(raw) : IsTodo(j)'
    PROVE  StepInv'
<1>1. /\ raw \in Seq(Blocks) /\ out \in Seq(Blocks) /\ buffer \in Seq(Blocks) /\ Len(raw) \in Nat
      /\ offset \in Nat \ {0} /\ offset <= Len(out) + 1
    <2>1. raw \in Seq(Blocks) /\ out \in Seq(Blocks) /\ buffer \in Seq(Blocks) /\ Types
        BY DEF Inv, Types
    <2>2. 1 <= resume /\ resume <= offset /\ offset <= Len(out) + 1
        BY DEF Inv, ServiceInv
    <2>. QED
        BY <2>1, <2>2, Lengths
<1>2. UNCHANGED <<scenario, head, raw, out, step, row, offset, db>>
    BY DEF chain, service
<1>3. PICK b \in Blocks : b = raw[p]
    BY <1>1
<1>4. buffer' = IF map(b) = << >> THEN buffer ELSE Append(buffer, b)
    BY <1>3 DEF produceEvent
<1>5. /\ Len(Sending) \in Nat /\ Len(out) <= Len(Sending)
      /\ \A i \in 1..Len(Sending) : i \in 1..Len(Sending') /\ Sending'[i] = Sending[i]
      /\ map(b) = << >> => Sending' = Sending
      /\ map(b) # << >> =>
             Len(Sending') = Len(Sending) + 1 /\ Sending'[Len(Sending) + 1] = b
    <2>1. Len(Sending) \in Nat /\ Len(out) <= Len(Sending)
        BY <1>1, SendingFacts DEF Inv
    <2>2. CASE map(b) = << >>
        BY <1>4, <1>2, <1>3, <1>3, <2>1, <2>2 DEF Sending
    <2>3. CASE map(b) # << >>
        <3>1. buffer' = Append(buffer, b) /\ out' = out
            BY <1>4, <1>2, <1>3, <1>3, <2>3
        <3>2. /\ Len(Sending') = Len(Sending) + 1 /\ Sending'[Len(Sending) + 1] = b
              /\ \A i \in 1..Len(Sending) : Sending'[i] = Sending[i]
            <4>1. Sending' = out \o Append(buffer, b) /\ Sending = out \o buffer
                BY <3>1 DEF Sending
            <4>2. /\ Len(out \o Append(buffer, b)) = Len(out \o buffer) + 1
                  /\ (out \o Append(buffer, b))[Len(out \o buffer) + 1] = b
                  /\ \A i \in 1..Len(out \o buffer) : (out \o Append(buffer, b))[i] = (out \o buffer)[i]
                BY <1>1, <1>3, AppendMoves
            <4>. QED
                BY <4>1, <4>2
        <3>. QED
            BY <2>1, <2>3, <3>2
    <2>. QED
        BY <2>2, <2>3
<1>6. \A c : map(c)' = map(c)
    BY DEF map
<1>7. ASSUME harm' = {}, DonePrefix
      PROVE  \A c : IsLeft(c) => IsLeft(c)'
    <2>1. ASSUME NEW i \in offset..Len(Sending), NEW c, Sending[i] = c PROVE IsLeft(c)'
        <3>1. i \in offset..Len(Sending') /\ Sending'[i] = c /\ offset' = offset
            <4>1. i \in offset..Len(Sending')
                BY <1>5, <1>1, <2>1
            <4>2. i \in 1..Len(Sending)
                BY <1>1, <1>5
            <4>. QED
                BY <1>2, <1>5, <2>1, <4>1, <4>2
        <3>. QED
            BY <3>1 DEF IsLeft
    <2>2. ASSUME NEW j \in 1..Len(raw), NEW c, c = raw[j], IsTodo(j), map(c) # << >>
          PROVE  IsLeft(c)'
        <3>1. CASE IsTodo(j)'
            BY <1>2, <1>6, <2>2, <3>1 DEF IsLeft
        <3>2. CASE j = p
            <4>1. Len(Sending) + 1 \in offset..Len(Sending') /\ Sending'[Len(Sending) + 1] = c
                BY <1>1, <1>3, <1>5, <2>2, <3>2
            <4>. QED
                BY <1>2, <4>1 DEF IsLeft
        <3>. QED
            BY <1>7, <2>2, <3>1, <3>2
    <2>3. ASSUME NEW c, IsLeft(c) PROVE IsLeft(c)'
        <3>1. \/ \E i \in offset..Len(Sending) : Sending[i] = c
              \/ \E j \in 1..Len(raw) : IsTodo(j) /\ raw[j] = c /\ map(c) # << >>
            BY <2>3 DEF IsLeft
        <3>. QED
            BY <2>1, <2>2, <3>1
    <2>. QED
        BY <2>3
<1>8. ASSUME harm' = {}, DonePrefix, Follow PROVE Follow'
    <2>1. raw' = raw
        BY <1>2
    <2>2. ASSUME NEW i \in 1..Len(Sending)
          PROVE  \E m \in 1..Len(raw) : raw[m] = Sending'[i] /\ FollowedUp(i, m)'
        <3>1. PICK m \in 1..Len(raw) : raw[m] = Sending[i] /\ FollowedUp(i, m)
            BY <1>8 DEF Follow
        <3>2. ASSUME NEW j \in (m + 1)..Len(raw), map(raw[j]) # << >>
              PROVE  IsTodo(j)' \/ \E l \in (i + 1)..Len(Sending') : Sending'[l] = raw[j]
            <4>1. j \in 1..Len(raw)
                BY <1>1
            <4>2. IsTodo(j) \/ \E l \in (i + 1)..Len(Sending) : Sending[l] = raw[j]
                BY <3>1, <3>2 DEF FollowedUp
            <4>3. CASE IsTodo(j) /\ j = p
                <5>1. Len(Sending) + 1 \in (i + 1)..Len(Sending') /\ Sending'[Len(Sending) + 1] = raw[j]
                    BY <1>3, <1>5, <3>2, <4>3
                <5>. QED
                    BY <5>1
            <4>4. ASSUME NEW l \in (i + 1)..Len(Sending), Sending[l] = raw[j]
                  PROVE  l \in (i + 1)..Len(Sending') /\ Sending'[l] = raw[j]
                <5>1. l \in 1..Len(Sending)
                    BY <1>5
                <5>. QED
                    BY <1>5, <4>4, <5>1
            <4>. QED
                BY <1>8, <4>1, <4>2, <4>3, <4>4
        <3>3. FollowedUp(i, m)'
            BY <1>6, <2>1, <3>2 DEF FollowedUp
        <3>. QED
            BY <1>5, <3>1, <3>3
    <2>3. ASSUME NEW i \in 1..Len(Sending')
          PROVE  \E m \in 1..Len(raw) : raw[m] = Sending'[i] /\ FollowedUp(i, m)'
        <3>1. CASE i \in 1..Len(Sending)
            BY <2>2, <3>1
        <3>2. CASE i \notin 1..Len(Sending)
            <4>1. map(b) # << >> /\ i = Len(Sending) + 1
                BY <1>5, <3>2
            <4>2. raw[p] = Sending'[i] /\ FollowedUp(i, p)'
                <5>1. \A ii : FollowedUp(ii, p)'
                    BY <1>8, <1>8, <2>1 DEF FollowedUp
                <5>. QED
                    BY <1>3, <1>5, <4>1, <5>1
            <4>. QED
                BY <1>3, <4>2
        <3>. QED
            BY <3>1, <3>2
    <2>. QED
        BY <2>1, <2>3 DEF Follow
<1>9. AddInv => AddInv'
    BY <1>2, AddKept
<1>. QED
    BY <1>2, <1>7, <1>8, <1>9, StepGoesOn

LEMMA onDataStep == ASSUME Inv, Inv', StepInv, onData PROVE StepInv'
<1>1. PICK k \in Running :
          /\ queue[k].state # "done"
          /\ queue' = [queue EXCEPT ![k].state = "done"]
          /\ produceEvent(queue[k].at)
          /\ harm' = IF \E j \in 1..(k - 1) : queue[j].state # "done"
                     THEN harm \cup {"overtaken"} ELSE harm
    BY DEF onData, Running
<1>2. UNCHANGED <<scenario, chain, committed, out, service, raw>> /\ harm \subseteq harm'
    BY <1>1 DEF onData, chain
<1>3. /\ k \in DOMAIN queue /\ k \in 1..Len(queue) /\ Len(queue) \in Nat /\ queue # << >>
      /\ Types /\ QueueInv /\ OrderInv
    <2>1. k \in DOMAIN queue
        BY <1>1 DEF Running
    <2>2. queue \in Seq(Entries)
        BY DEF Inv, Types
    <2>. QED
        BY <2>1, <2>2 DEF Inv
<1>4. /\ Len(queue') = Len(queue)
      /\ \A j \in 1..Len(queue) : queue'[j].at = queue[j].at
      /\ \A j \in 1..Len(queue) : queue'[j].state = IF j = k THEN "done" ELSE queue[j].state
    BY <1>1, <1>3, EntryDone
<1>5. PICK p \in 1..Len(raw) : p = queue[k].at
    <2>1. queue[k].at \in 1..Len(raw)
        BY <1>3, EntriesInTopic
    <2>. QED
        BY <2>1
<1>6. ASSUME harm' = {}, DonePrefix
      PROVE  /\ DonePrefix'
             /\ \A j \in 1..Len(raw) : IsTodo(j) => IsTodo(j)' \/ j = p
             /\ \A j \in (p + 1)..Len(raw) : IsTodo(j)'
    <2>1. \A j \in 1..(k - 1) : queue[j].state = "done"
        BY <1>1, <1>6
    <2>2. \A m \in 1..Len(queue) : m > k => queue[m].state # "done"
        BY <1>1, <1>3, <1>6 DEF DonePrefix
    <2>3. DonePrefix'
        <3> SUFFICES ASSUME NEW m \in 1..Len(queue), NEW j \in 1..m, queue'[m].state = "done"
                     PROVE  queue'[j].state = "done"
            BY <1>4 DEF DonePrefix
        <3>1. j \in 1..Len(queue)
            BY <1>3
        <3>2. ~(m > k)
            <4>1. m # k => queue[m].state = "done"
                BY <1>4
            <4>. QED
                BY <1>3, <2>2, <4>1
        <3>3. j = k \/ j \in 1..(k - 1)
            BY <1>3, <3>2
        <3>. QED
            BY <1>4, <2>1, <3>1, <3>3
    <2>4. ASSUME NEW j \in 1..Len(raw), IsTodo(j), j # p PROVE IsTodo(j)'
        <3>1. \A m \in 1..Len(queue') : queue'[m].at = j => queue'[m].state # "done"
            BY <1>4, <1>5, <2>4 DEF IsTodo
        <3>. QED
            BY <1>2, <2>4, <3>1 DEF IsTodo
    <2>5. ASSUME NEW j \in (p + 1)..Len(raw) PROVE IsTodo(j)'
        <3>1. "skipped" \notin harm
            BY <1>2, <1>6
        <3>2. FrontOffset \in {committed, committed + 1} /\ p = FrontOffset + k - 1
            BY <1>3, <1>5, <3>1 DEF OrderInv, QueueInv
        <3>3. committed \in Nat /\ Len(raw) \in Nat /\ FrontOffset \in Int
            BY <1>3, Lengths DEF FrontOffset
        <3>4. j \in 1..Len(raw) /\ j > committed
            BY <1>3, <3>2, <3>3
        <3>5. ASSUME NEW m \in 1..Len(queue), queue[m].at = j PROVE m > k
            <4>1. queue[m].at = FrontOffset + m - 1
                BY <1>3 DEF QueueInv
            <4>. QED
                BY <1>3, <3>2, <3>3, <3>5, <4>1
        <3>6. \A m \in 1..Len(queue') : queue'[m].at = j => queue'[m].state # "done"
            BY <1>3, <1>4, <2>2, <3>5
        <3>. QED
            BY <1>2, <3>4, <3>6 DEF IsTodo
    <2>. QED
        BY <2>3, <2>4, <2>5
<1>7. produceEvent(p)
    BY <1>1, <1>5
<1>. QED
    BY <1>2, <1>6, <1>7, ProducedStep

\* A block is produced that overtakes none: all behind it is to be.
LEMMA NotOvertaken ==
    ASSUME Inv, NEW p \in 1..Len(raw), ~Overtakes(p)
    PROVE  \A j \in (p + 1)..Len(raw) : IsTodo(j)
<1>1. committed \in Nat /\ Len(raw) \in Nat /\ p >= committed /\ queue \in Seq(Entries)
    BY Lengths DEF Inv, Types, Overtakes
<1>2. \A k \in 1..Len(queue) : queue[k].at > p => queue[k].state # "done"
    BY <1>1 DEF Overtakes
<1>. QED
    BY <1>1, <1>2 DEF IsTodo

LEMMA strayResolvesStep == ASSUME Inv, Inv', StepInv, strayResolves PROVE StepInv'
<1>1. PICK p \in BagToSet(strays) :
          /\ produceEvent(p)
          /\ harm' = IF Overtakes(p) THEN harm \cup {"overtaken"} ELSE harm
    BY DEF strayResolves
<1>2. UNCHANGED <<scenario, chain, queue, committed, out, service, raw>> /\ harm \subseteq harm'
    BY <1>1 DEF strayResolves, chain
<1>3. p \in 1..Len(raw)
    BY DEF Inv, QueueInv
<1>4. \A j : IsTodo(j)' = IsTodo(j)
    BY <1>2 DEF IsTodo
<1>5. DonePrefix => DonePrefix'
    BY <1>2 DEF DonePrefix
<1>6. harm' = {} => \A j \in (p + 1)..Len(raw) : IsTodo(j)
    <2>1. harm' = {} => ~Overtakes(p)
        BY <1>1
    <2>. QED
        BY <1>3, <2>1, NotOvertaken
<1>. QED
    BY <1>1, <1>2, <1>3, <1>4, <1>5, <1>6, ProducedStep

LEMMA elementResolvesStep == ASSUME Inv, Inv', StepInv, elementResolves PROVE StepInv'
<1>1. /\ element # 0 /\ produceEvent(element)
      /\ UNCHANGED <<scenario, chain, out, service, raw>>
    BY DEF elementResolves, chain
<1>2. /\ harm \subseteq harm' /\ (harm' = {} => ~Overtakes(element))
      /\ \/ committed' = committed /\ queue' = queue
         \/ committed' = element /\ queue = << >> /\ queue' = queue
         \/ /\ committed' = element /\ queue # << >> /\ queue' = Tail(queue)
            /\ harm' = {} => queue[1].at = element
    BY DEF elementResolves
<1>3. PICK p \in 1..Len(raw) : p = element
    BY <1>1, Lengths DEF Inv, QueueInv
<1>4. ASSUME harm' = {}, DonePrefix
      PROVE  /\ DonePrefix'
             /\ \A j \in 1..Len(raw) : IsTodo(j) => IsTodo(j)' \/ j = p
             /\ \A j \in (p + 1)..Len(raw) : IsTodo(j)'
    <2>1. \A j \in (p + 1)..Len(raw) : IsTodo(j)
        BY <1>2, <1>3, <1>4, NotOvertaken
    <2>2. p \in {committed, committed + 1} /\ committed \in Nat
        <3>1. "skipped" \notin harm
            BY <1>2, <1>4
        <3>. QED
            BY <1>1, <1>3, <3>1, Lengths DEF Inv, OrderInv
    <2>3. committed' \in {committed, p}
        BY <1>2, <1>3
    <2>4. DonePrefix'
        <3>1. CASE queue' = queue
            BY <1>4, <3>1 DEF DonePrefix
        <3>2. CASE queue # << >> /\ queue' = Tail(queue)
            BY <1>4, <3>2, ShiftedKept
        <3>. QED
            BY <1>2, <3>1, <3>2
    <2>5. ASSUME NEW j \in 1..Len(raw), IsTodo(j), j # p PROVE IsTodo(j)'
        <3>1. j > committed'
            BY <2>2, <2>3, <2>5 DEF IsTodo
        <3>2. \A k \in 1..Len(queue') : queue'[k].at = j => queue'[k].state # "done"
            <4>1. CASE queue' = queue
                BY <2>5, <4>1 DEF IsTodo
            <4>2. CASE queue # << >> /\ queue' = Tail(queue)
                BY <2>5, <4>2, ShiftedKept DEF IsTodo
            <4>. QED
                BY <1>2, <4>1, <4>2
        <3>. QED
            BY <1>1, <3>1, <3>2 DEF IsTodo
    <2>6. \A j \in (p + 1)..Len(raw) : j \in 1..Len(raw) /\ j # p
        BY Lengths DEF Inv
    <2>. QED
        BY <2>1, <2>4, <2>5, <2>6
<1>5. produceEvent(p)
    BY <1>1, <1>3
<1>. QED
    BY <1>1, <1>2, <1>4, <1>5, ProducedStep

-----------------------------------------------------------------------------
\* The service: what does not change the collection.
LEMMA ServiceStep ==
    ASSUME Inv, Inv', StepInv, UNCHANGED <<scenario, harm, chain, transformer, out, db>>,
           offset' = offset \/ offset' <= offset, AddInv => AddInv'
    PROVE  StepInv'
<1>1. \A j \in 1..Len(raw) : IsTodo(j) => IsTodo(j)'
    BY DEF IsTodo, chain, transformer, consumer
<1>2. DonePrefix => DonePrefix'
    BY DEF DonePrefix, transformer, consumer
<1>3. offset' <= offset
    BY Lengths DEF Inv
<1>. QED
    BY <1>1, <1>2, <1>3, StepKept DEF Sending, chain, transformer, consumer

LEMMA nextStep == ASSUME Inv, Inv', StepInv, next PROVE StepInv'
<1>1. AddInv'
    BY DEF next, First, AddInv, Matic, bounds
<1>. QED
    BY <1>1, ServiceStep DEF next, bounds

\* The number that save compares with is that of the highest block.
LEMMA HighestBlock ==
    ASSUME DbTypes
    PROVE  /\ getLastTransferBlock \in Nat
           /\ \A t \in BagToSet(db) : t.blockNumber <= getLastTransferBlock
<1>. DEFINE N == {0} \cup {t.blockNumber : t \in BagToSet(db)}
            U == {u \in Nat : \A y \in N : y <= u}
<1>1. N \subseteq Nat
    BY DEF DbTypes, IsTable, Transfers
<1>2. U # {}
    <2>1. PICK n \in Nat : \A t \in BagToSet(db) : t.blockNumber <= n
        BY DEF DbTypes, IsTable
    <2>2. n \in U
        BY <2>1
    <2>. QED
        BY <2>2
<1>3. U \subseteq Nat
    OBVIOUS
<1>4. PICK u \in U : \A v \in U : ~(<<v, u>> \in OpToRel(<, Nat))
    <2> HIDE DEF U
    <2>. QED
        BY <1>2, <1>3, WFMin, NatLessThanWellFounded
<1>5. \A v \in U : u <= v
    <2>1. OpToRel(<, Nat) = {ss \in Nat \X Nat : ss[1] < ss[2]}
        BY DEF OpToRel
    <2>2. SUFFICES ASSUME NEW v \in U PROVE ~(v < u)
        BY <1>3
    <2>3. u \in Nat /\ v \in Nat
        BY <1>3
    <2>4. <<v, u>> \in OpToRel(<, Nat) <=> v < u
        BY <2>1, <2>3
    <2>. QED
        BY <1>4, <2>4
<1>6. u \in N
    <2> SUFFICES ASSUME u \notin N PROVE FALSE
        OBVIOUS
    <2>1. u \in Nat /\ \A y \in N : y \in Nat /\ y < u
        BY <1>1
    <2>2. u # 0
        BY <2>1
    <2>3. u - 1 \in U
        BY <2>1, <2>2
    <2>. QED
        BY <1>5, <2>1, <2>3
<1>7. \A y \in N : y <= u
    OBVIOUS
<1>8. \E x \in N : \A y \in N : x >= y
    BY <1>1, <1>6, <1>7
<1> HIDE DEF N
<1>9. Max(N) \in N /\ \A y \in N : Max(N) >= y
    BY <1>8, Zenon DEF Max
<1>10. getLastTransferBlock = Max(N)
    BY DEF getLastTransferBlock, N
<1>11. \A t \in BagToSet(db) : t.blockNumber \in N
    BY DEF N
<1>. QED
    BY <1>1, <1>9, <1>10, <1>11

LEMMA saveStep == ASSUME Inv, Inv', StepInv, save PROVE StepInv'
<1>1. ASSUME AddInv PROVE AddInv'
    <2>1. row = 1 /\ Matic /\ UNCHANGED <<scenario, row, offset, out, db>>
        BY <1>1 DEF save, AddInv, bounds
    <2>2. block' = block /\ Matic' = Matic
        BY <2>1 DEF block, Matic
    <2>3. CASE getLastTransferBlock >= Len(block)
        BY <2>1, <2>2, <2>3 DEF save, AddInv
    <2>4. CASE ~(getLastTransferBlock >= Len(block))
        <3>1. step' = "add"
            BY <2>4 DEF save
        <3>2. Len(block) \in Nat
            <4>1. block \in Blocks
                BY BlockSaved DEF save
            <4>. QED
                BY <4>1, MapFacts
        <3>3. getLastTransferBlock \in Nat
            BY HighestBlock DEF StepInv
        <3>4. \A t \in BagToSet(db) : ~(t.blockNumber >= Len(block))
            BY <2>4, <3>2, <3>3, HighestBlock DEF StepInv, DbTypes, IsTable, Transfers
        <3>. QED
            BY <2>1, <2>2, <3>1, <3>4 DEF AddInv
    <2>. QED
        BY <2>3, <2>4
<1>. QED
    BY <1>1, ServiceStep DEF save, bounds

LEMMA commitStep == ASSUME Inv, Inv', StepInv, commit PROVE StepInv'
<1>1. AddInv => AddInv'
    BY AddKept DEF commit, bounds
<1>. QED
    BY <1>1, ServiceStep DEF commit, bounds

LEMMA saveFailsStep == ASSUME Inv, Inv', StepInv, saveFails PROVE StepInv'
<1>1. AddInv'
    BY DEF saveFails, First, AddInv, Matic
<1>. QED
    BY <1>1, ServiceStep DEF saveFails

LEMMA ServiceDiesStep == ASSUME Inv, Inv', StepInv, ServiceDies PROVE StepInv'
<1>1. AddInv'
    BY DEF ServiceDies, AddInv
<1>. QED
    BY <1>1, ServiceStep DEF ServiceDies

LEMMA ServiceStartsStep == ASSUME Inv, Inv', StepInv, ServiceStarts PROVE StepInv'
<1>1. AddInv'
    BY DEF ServiceStarts, AddInv
<1>. QED
    BY <1>1, ServiceStep DEF ServiceStarts, bounds, Inv, ServiceInv

-----------------------------------------------------------------------------
\* The service: what changes the collection.  The block that is saved is
\* among those left, so that the invariant says nothing of it and the blocks
\* behind.
LEMMA SavedIsLeft ==
    ASSUME Inv, step \in {"last", "delete", "add"}
    PROVE  IsLeft(block)
<1>1. offset \in offset..Len(Sending) /\ Sending[offset] = out[offset]
    <2>1. Types /\ Len(buffer) \in Nat
        BY Lengths DEF Inv
    <2>. QED
        BY <2>1, BlockSaved, SendingFacts
<1>. QED
    BY <1>1, BlockSaved DEF IsLeft

LEMMA TransformerWaits ==
    ASSUME UNCHANGED <<chain, transformer, out>>
    PROVE  /\ Sending' = Sending /\ \A j : IsTodo(j)' = IsTodo(j)
           /\ ChainInv /\ DonePrefix /\ Follow => ChainInv' /\ DonePrefix' /\ Follow'
<1>. USE DEF chain, transformer, consumer
<1>1. Sending' = Sending /\ \A j : IsTodo(j)' = IsTodo(j)
    BY DEF Sending, IsTodo
<1>2. \A b : map(b)' = map(b)
    BY DEF map
<1>3. ChainInv => ChainInv'
    BY <1>2 DEF ChainInv, Newer, Same
<1>4. DonePrefix => DonePrefix'
    BY DEF DonePrefix
<1>5. \A i, k : FollowedUp(i, k)' = FollowedUp(i, k)
    BY <1>1, <1>2 DEF FollowedUp
<1>6. Follow => Follow'
    BY <1>1, <1>5 DEF Follow
<1>. QED
    BY <1>1, <1>3, <1>4, <1>6

\* Some documents are kept.
LEMMA Restricted ==
    ASSUME NEW d, IsTable(d), NEW S \in SUBSET BagToSet(d), NEW e, e = [u \in S |-> d[u]]
    PROVE  /\ IsTable(e) /\ BagToSet(e) = S
           /\ \A u \in S : e[u] = d[u]
<1>1. BagToSet(e) = S /\ \A u \in S : e[u] = d[u]
    BY DEF BagToSet
<1>2. \A u \in S : d[u] \in Nat \ {0} /\ u \in Transfers
    BY DEF IsTable
<1>3. PICK n \in Nat : \A u \in BagToSet(d) : u.blockNumber <= n
    BY DEF IsTable
<1>4. \A u \in S : u.blockNumber <= n
    BY <1>3
<1>. QED
    BY <1>1, <1>2, <1>4 DEF IsTable

\* One more document.
LEMMA Added ==
    ASSUME NEW d, IsTable(d), NEW t \in Transfers, NEW e, e = d (+) SetToBag({t})
    PROVE  /\ IsTable(e) /\ BagToSet(e) = BagToSet(d) \cup {t}
           /\ \A u \in BagToSet(d) : u # t => e[u] = d[u]
           /\ t \notin BagToSet(d) => e[t] = 1
<1>. DEFINE one == SetToBag({t})
<1>1. DOMAIN one = {t} /\ one \in [{t} -> Nat \ {0}] /\ one[t] = 1
    BY DEF SetToBag
<1>2. t.blockNumber \in Nat
    BY DEF Transfers
<1>3. e = d (+) one
    OBVIOUS
<1>. HIDE DEF one
<1>4. PICK n \in Nat : \A u \in BagToSet(d) : u.blockNumber <= n
    BY DEF IsTable
<1>5. /\ e = [u \in BagToSet(d) \cup {t} |->
                 (IF u \in BagToSet(d) THEN d[u] ELSE 0) + (IF u \in {t} THEN one[u] ELSE 0)]
      /\ BagToSet(e) = BagToSet(d) \cup {t}
    BY <1>1, <1>3 DEF (+), BagToSet
<1>6. \A u \in BagToSet(d) : d[u] \in Nat \ {0}
    BY DEF IsTable
<1>7. \A u \in BagToSet(d) : u # t => e[u] = d[u]
    <2> SUFFICES ASSUME NEW u \in BagToSet(d), u # t PROVE e[u] = d[u]
        OBVIOUS
    <2>1. e[u] = d[u] + 0
        BY <1>5
    <2>. QED
        BY <1>6, <2>1
<1>8. t \notin BagToSet(d) => e[t] = 1
    BY <1>1, <1>5
<1>9. \A u \in BagToSet(e) : e[u] \in Nat \ {0}
    <2>1. t \in BagToSet(d) => e[t] = d[t] + 1
        BY <1>1, <1>5
    <2>2. e[t] \in Nat \ {0}
        BY <1>6, <1>8, <2>1
    <2>. QED
        BY <1>5, <1>6, <1>7, <2>2
<1>10. e \in [BagToSet(e) -> Nat \ {0}]
    BY <1>5, <1>9
<1>11. BagToSet(e) \subseteq Transfers
    BY <1>5 DEF IsTable
<1>12. \E k \in Nat : \A u \in BagToSet(e) : u.blockNumber <= k
    <2>1. PICK k \in Nat : k >= n /\ k >= t.blockNumber
        BY <1>2, <1>4
    <2>2. \A u \in BagToSet(d) : u.blockNumber <= k
        BY <1>4, <2>1 DEF IsTable, Transfers
    <2>. QED
        BY <1>2, <1>5, <2>1, <2>2
<1>. QED
    BY <1>5, <1>7, <1>8, <1>10, <1>11, <1>12 DEF IsTable

\* One document of a token for all that it had.
LEMMA TokenUpdated ==
    ASSUME IsTable(db), NEW t \in Transfers, NEW e, e = updateTokens(t)
    PROVE  /\ IsTable(e)
           /\ \A u \in Transfers :
                  IF u.token = t.token
                  THEN (u \in BagToSet(e) <=> u = t) /\ (u \in BagToSet(e) => e[u] = 1)
                  ELSE (u \in BagToSet(e) <=> u \in BagToSet(db)) /\ (u \in BagToSet(e) => e[u] = db[u])
<1>. DEFINE S == {u \in BagToSet(db) : u.token # t.token}
<1>1. PICK r : r = [u \in S |-> db[u]]
    OBVIOUS
<1>2. e = r (+) SetToBag({t})
    BY <1>1 DEF updateTokens, RestrictDomain, Restrict, BagToSet
<1>3. S \in SUBSET BagToSet(db)
    OBVIOUS
<1>4. t \notin S /\ \A u \in BagToSet(db) : u \in S <=> u.token # t.token
    OBVIOUS
<1>5. \A u \in S : u \in BagToSet(db) /\ u.token # t.token
    OBVIOUS
<1>. HIDE DEF S
<1>6. IsTable(r) /\ BagToSet(r) = S /\ \A u \in S : r[u] = db[u]
    BY <1>1, <1>3, Restricted
<1>7. /\ IsTable(e) /\ BagToSet(e) = BagToSet(r) \cup {t}
      /\ \A u \in BagToSet(r) : u # t => e[u] = r[u]
      /\ t \notin BagToSet(r) => e[t] = 1
    <2>1. IsTable(r)
        BY <1>6
    <2>. QED
        BY <1>2, <2>1, Added
<1>8. /\ BagToSet(e) = S \cup {t} /\ e[t] = 1
      /\ \A u \in S : e[u] = db[u]
    BY <1>4, <1>6, <1>7
<1>. QED
    BY <1>4, <1>5, <1>7, <1>8

LEMMA deleteStep == ASSUME Inv, Inv', StepInv, deleteTxsForReorg PROVE StepInv'
<1>1. UNCHANGED <<bounds, chain, transformer, out, row, offset, resume>> /\ step' = "add"
    BY DEF deleteTxsForReorg
<1>2. PICK m : m = Len(block) /\ m \in Nat
    BY BlockSaved, MapFacts DEF deleteTxsForReorg
<1>3. /\ BagToSet(db') = {t \in BagToSet(db) : t.blockNumber < m}
      /\ \A t \in BagToSet(db') : db'[t] = db[t]
      /\ IsTable(db')
    <2>. DEFINE S == {t \in BagToSet(db) : t.blockNumber < m}
    <2>1. db' = [t \in S |-> db[t]]
        BY <1>2 DEF deleteTxsForReorg, RestrictDomain, Restrict, BagToSet
    <2>2. S \in SUBSET BagToSet(db) /\ IsTable(db)
        BY DEF StepInv, DbTypes
    <2>3. IsTable(db') /\ BagToSet(db') = S /\ \A t \in S : db'[t] = db[t]
        <3>. HIDE DEF S
        <3>. QED
            BY <2>1, <2>2, Restricted
    <2>. QED
        BY <2>3
<1>4. DbTypes'
    BY <1>3 DEF DbTypes, IsTable
<1>5. SUFFICES ASSUME harm' = {} PROVE (ChainInv /\ DonePrefix /\ Follow /\ DbInv /\ AddInv)'
    BY <1>4 DEF StepInv
<1>6. ChainInv /\ DonePrefix /\ Follow /\ DbInv /\ AddInv
    BY <1>1, <1>5 DEF StepInv, bounds
<1>7. row = 1 /\ Matic /\ Matic' = Matic
    BY <1>1, <1>6 DEF AddInv, deleteTxsForReorg, Matic, bounds
<1>8. \A j : IsTodo(j)' = IsTodo(j)
    BY <1>1, TransformerWaits
<1>9. Sending' = Sending /\ \A c : IsLeft(c)' = IsLeft(c)
    BY <1>1, <1>8 DEF IsLeft, Sending, transformer, chain, map
<1>10. ChainInv' /\ DonePrefix' /\ Follow'
    BY <1>1, <1>6, TransformerWaits
<1>11. AddInv'
    <2>1. block' = block /\ Len(block)' = m
        BY <1>1, <1>2 DEF block
    <2>2. \A t \in Transfers : t.blockNumber >= m => t \notin BagToSet(db')
        BY <1>2, <1>3 DEF Transfers
    <2>. QED
        BY <1>1, <1>7, <2>1, <2>2 DEF AddInv
<1>12. DbInv'
    <2>1. ASSUME NEW n \in Nat, NoneLeft(n)' PROVE Holds(Branch(head), n)'
        <3>1. NoneLeft(n)
            BY <1>9, <2>1 DEF NoneLeft
        <3>2. n < m
            BY <1>2, <3>1, SavedIsLeft, BlockSaved DEF NoneLeft, deleteTxsForReorg
        <3>3. Holds(Branch(head), n)
            BY <1>6, <1>7, <2>1, <3>1 DEF DbInv
        <3>4. head' = head
            BY <1>1 DEF chain
        <3>. QED
            BY <1>2, <1>3, <3>2, <3>3, <3>4 DEF Holds, Transfers
    <2>. QED
        BY <1>7, <2>1 DEF DbInv
<1>. QED
    BY <1>10, <1>11, <1>12

LEMMA HoldsBelow ==
    ASSUME IsTable(db), NEW t \in Transfers, db' = db (+) SetToBag({t}), UNCHANGED head,
           NEW n \in Nat, n < t.blockNumber, Holds(Branch(head), n)
    PROVE  Holds(Branch(head), n)'
<1>1. /\ BagToSet(db') = BagToSet(db) \cup {t}
      /\ \A u \in BagToSet(db) : u # t => db'[u] = db[u]
    BY Added
<1>2. \A u \in Transfers : u.blockNumber <= n => u # t
    BY DEF Transfers
<1>. QED
    BY <1>1, <1>2 DEF Holds

\* What add does in either case.
LEMMA addFacts ==
    ASSUME Inv, StepInv, add
    PROVE  /\ UNCHANGED <<scenario, harm, chain, transformer, out>>
           /\ block \in Blocks /\ Len(block) \in Nat \ {0} /\ row \in 1..Len(map(block))
           /\ Len(map(block)) \in Nat /\ DOMAIN map(block) = 1..Len(map(block))
           /\ block = out[offset] /\ offset \in 1..Len(out) /\ Len(out) \in Nat
           /\ map(block)[row] \in Transfers /\ map(block)[row].blockNumber = Len(block)
           /\ db' = IF Matic THEN db (+) SetToBag({map(block)[row]}) ELSE updateTokens(map(block)[row])
           /\ IsLeft(block) /\ IsTable(db)
<1>1. step = "add" /\ UNCHANGED <<scenario, harm, chain, transformer, out>>
    BY DEF add, bounds
<1>2. /\ block \in Blocks /\ row \in 1..Len(map(block))
      /\ block = out[offset] /\ offset \in 1..Len(out) /\ Len(out) \in Nat /\ IsLeft(block)
    BY <1>1, BlockSaved, SavedIsLeft
<1>3. /\ Len(block) \in Nat \ {0} /\ Last(block) \in Labels
      /\ Len(map(block)) = Len(Last(block).tokens)
      /\ DOMAIN map(block) = 1..Len(Last(block).tokens)
    BY <1>2, MapFacts
<1>4. Len(Last(block).tokens) \in Nat
    BY <1>3 DEF Labels
<1>5. map(block)[row] \in Transfers /\ map(block)[row].blockNumber = Len(block)
    BY <1>2, <1>3, MapFacts
<1>6. db' = IF Matic THEN db (+) SetToBag({map(block)[row]}) ELSE updateTokens(map(block)[row])
    BY DEF add, addAllTransfers
<1>7. IsTable(db)
    BY DEF StepInv, DbTypes
<1>. QED
    BY <1>1, <1>2, <1>3, <1>4, <1>5, <1>6, <1>7

LEMMA AddTypes == ASSUME Inv, StepInv, add PROVE DbTypes'
<1>1. PICK t \in Transfers : t = map(block)[row]
    BY addFacts
<1>2. db' = (IF Matic THEN db (+) SetToBag({t}) ELSE updateTokens(t)) /\ IsTable(db)
    BY <1>1, addFacts
<1>3. IsTable(db')
    BY <1>2, Added, TokenUpdated
<1>. QED
    BY <1>3 DEF DbTypes, IsTable

\* In a save that goes well the transfers of the block are those added so far.
LEMMA RowAdded ==
    ASSUME Inv, StepInv, AddInv, Matic, add, NEW b \in Blocks, b = block
    PROVE  \A u \in Transfers : u.blockNumber >= Len(b) =>
               /\ u \in BagToSet(db') <=> \E i \in 1..row : u = map(b)[i]
               /\ u \in BagToSet(db') => db'[u] = 1
<1>1. PICK t \in Transfers : t = map(b)[row]
    BY addFacts
<1>2. /\ Len(b) \in Nat \ {0} /\ row \in 1..Len(map(b)) /\ Len(map(b)) \in Nat
      /\ t.blockNumber = Len(b) /\ db' = db (+) SetToBag({t}) /\ IsTable(db)
    BY <1>1, addFacts
<1>3. \A u \in Transfers : u.blockNumber >= Len(b) =>
          /\ u \in BagToSet(db) <=> \E i \in 1..(row - 1) : u = map(b)[i]
          /\ u \in BagToSet(db) => db[u] = 1
    BY DEF AddInv, add
<1>4. \A i \in 1..(row - 1) : map(b)[i] # t
    BY <1>1, <1>2, MapFacts
<1>5. t \notin BagToSet(db)
    BY <1>2, <1>3, <1>4
<1>6. BagToSet(db') = BagToSet(db) \cup {t} /\ db'[t] = 1
      /\ \A u \in BagToSet(db) : u # t => db'[u] = db[u]
    BY <1>2, <1>5, Added
<1>7. 1..row = (1..(row - 1)) \cup {row}
    BY <1>2
<1>. QED
    BY <1>1, <1>3, <1>6, <1>7

\* ... and the tokens of the block that were moved so far are with whom the
\* last of these transfers gave them to; the others are not touched.
LEMMA RowMoved ==
    ASSUME Inv, StepInv, AddInv, ~Matic, add, NEW b \in Blocks, b = block
    PROVE  \A u \in Transfers :
               IF \E i \in 1..row : map(b)[i].token = u.token
               THEN /\ u \in BagToSet(db') <=> LastOf(b, row, u)
                    /\ u \in BagToSet(db') => db'[u] = 1
               ELSE /\ u \in BagToSet(db') <=> u \in BagToSet(db)
                    /\ u \in BagToSet(db') => db'[u] = db[u]
<1>1. PICK t \in Transfers : t = map(b)[row]
    BY addFacts
<1>2. /\ row \in 1..Len(map(b)) /\ Len(map(b)) \in Nat
      /\ db' = updateTokens(t) /\ IsTable(db)
    BY <1>1, addFacts
<1>3. \A u \in Transfers : (\E i \in 1..(row - 1) : map(b)[i].token = u.token) =>
          /\ u \in BagToSet(db) <=> LastOf(b, row - 1, u)
          /\ u \in BagToSet(db) => db[u] = 1
    BY DEF AddInv, add
<1>4. \A u \in Transfers :
          IF u.token = t.token
          THEN (u \in BagToSet(db') <=> u = t) /\ (u \in BagToSet(db') => db'[u] = 1)
          ELSE (u \in BagToSet(db') <=> u \in BagToSet(db)) /\ (u \in BagToSet(db') => db'[u] = db[u])
    BY <1>2, TokenUpdated
<1>5. /\ 1..row = (1..(row - 1)) \cup {row}
      /\ \A i \in 1..(row - 1) : row \in (i + 1)..row /\ (i + 1)..row = ((i + 1)..(row - 1)) \cup {row}
      /\ (row + 1)..row = {}
    BY <1>2
<1> SUFFICES ASSUME NEW u \in Transfers
             PROVE  IF \E i \in 1..row : map(b)[i].token = u.token
                    THEN /\ u \in BagToSet(db') <=> LastOf(b, row, u)
                         /\ u \in BagToSet(db') => db'[u] = 1
                    ELSE /\ u \in BagToSet(db') <=> u \in BagToSet(db)
                         /\ u \in BagToSet(db') => db'[u] = db[u]
    OBVIOUS
<1>6. CASE u.token = t.token
    <2>1. LastOf(b, row, u) <=> u = t
        BY <1>1, <1>5, <1>6 DEF LastOf
    <2>2. \E i \in 1..row : map(b)[i].token = u.token
        BY <1>1, <1>5, <1>6
    <2>. QED
        BY <1>4, <1>6, <2>1, <2>2
<1>7. CASE u.token # t.token
    <2>1. LastOf(b, row, u) <=> LastOf(b, row - 1, u)
        BY <1>1, <1>5, <1>7 DEF LastOf
    <2>2. (\E i \in 1..row : map(b)[i].token = u.token)
          <=> \E i \in 1..(row - 1) : map(b)[i].token = u.token
        BY <1>1, <1>5, <1>7
    <2>. QED
        BY <1>3, <1>4, <1>7, <2>1, <2>2
<1>. QED
    BY <1>6, <1>7

LEMMA addOneStep ==
    ASSUME Inv, Inv', StepInv, add, row < Len(map(block))
    PROVE  StepInv'
<1>1. UNCHANGED <<scenario, harm, chain, transformer, out, step, offset>> /\ row' = row + 1
    BY addFacts DEF add
<1>2. PICK b \in Blocks : b = block
    BY addFacts
<1>3. PICK t \in Transfers : t = map(b)[row]
    BY <1>2, addFacts
<1>4. /\ Len(b) \in Nat \ {0} /\ row \in 1..Len(map(b)) /\ Len(map(b)) \in Nat
      /\ DOMAIN map(b) = 1..Len(map(b))
      /\ t.blockNumber = Len(b) /\ IsLeft(b) /\ IsTable(db)
      /\ Matic => db' = db (+) SetToBag({t})
    BY <1>2, <1>3, addFacts
<1>5. block' = b /\ Matic' = Matic
    BY <1>1, <1>2 DEF block, Matic
<1>6. SUFFICES ASSUME harm' = {} PROVE (ChainInv /\ DonePrefix /\ Follow /\ DbInv /\ AddInv)'
    BY AddTypes DEF StepInv
<1>7. ChainInv /\ DonePrefix /\ Follow /\ DbInv /\ AddInv
    BY <1>1, <1>6 DEF StepInv
<1>8. (ChainInv /\ DonePrefix /\ Follow)'
    BY <1>1, <1>7, TransformerWaits
<1>9. \A c : map(c)' = map(c) /\ IsLeft(c)' = IsLeft(c)
    <2>1. \A c : map(c)' = map(c)
        BY DEF map
    <2>. QED
        BY <1>1, <2>1, TransformerWaits DEF IsLeft, chain
<1>10. UNCHANGED <<head, raw>>
    BY <1>1 DEF chain
<1>11. ASSUME Matic PROVE DbInv' /\ AddInv'
    <2>1. ASSUME NEW n \in Nat, NoneLeft(n)' PROVE Holds(Branch(head), n)'
        <3>1. NoneLeft(n)
            BY <1>9, <2>1 DEF NoneLeft
        <3>2. n < t.blockNumber /\ Holds(Branch(head), n)
            BY <1>4, <1>7, <1>11, <3>1 DEF NoneLeft, DbInv
        <3>. QED
            BY <1>4, <1>10, <1>11, <2>1, <3>2, HoldsBelow
    <2>2. \A u \in Transfers : u.blockNumber >= Len(b) =>
              /\ u \in BagToSet(db') <=> \E i \in 1..(row' - 1) : u = map(b)[i]
              /\ u \in BagToSet(db') => db'[u] = 1
        <3>1. row' - 1 = row
            BY <1>1, <1>4
        <3>. QED
            BY <1>2, <1>7, <1>11, <3>1, RowAdded
    <2>3. DbInv'
        BY <1>5, <1>11, <2>1 DEF DbInv
    <2>4. AddInv'
        BY <1>1, <1>5, <1>9, <1>11, <2>2 DEF AddInv, add
    <2>. QED
        BY <2>3, <2>4
<1>12. ASSUME ~Matic PROVE DbInv' /\ AddInv'
    <2>1. \A u \in Transfers :
              IF \E i \in 1..row : map(b)[i].token = u.token
              THEN /\ u \in BagToSet(db') <=> LastOf(b, row, u)
                   /\ u \in BagToSet(db') => db'[u] = 1
              ELSE /\ u \in BagToSet(db') <=> u \in BagToSet(db)
                   /\ u \in BagToSet(db') => db'[u] = db[u]
        BY <1>2, <1>7, <1>12, RowMoved
    <2>2. ASSUME NEW z \in Tokens, ~LeftMoves(z)' PROVE OwnersHeld(z)'
        <3>1. ~LeftMoves(z)
            BY <1>9, <2>2 DEF LeftMoves, Moves
        <3>2. OwnersHeld(z)
            BY <1>7, <1>12, <3>1 DEF DbInv
        <3>3. \A i \in 1..row : map(b)[i].token # z
            <4>1. \A i \in 1..row : i \in DOMAIN map(b)
                BY <1>4
            <4>. QED
                BY <1>4, <3>1, <4>1 DEF LeftMoves, Moves
        <3>4. \A u : u \in Owners' <=> u \in Owners
            BY <1>9, <1>10 DEF Owners, LastMove, Moves
        <3>. QED
            BY <2>1, <3>2, <3>3, <3>4 DEF OwnersHeld
    <2>3. AddInv'
        <3>1. row' - 1 = row /\ step' = "add" /\ ~Matic'
            BY <1>1, <1>4, <1>5, <1>12 DEF add
        <3>2. \A u : LastOf(block, row - 1, u)' <=> LastOf(b, row, u)
            BY <1>5, <1>9, <3>1 DEF LastOf
        <3>. QED
            BY <1>5, <1>9, <2>1, <3>1, <3>2 DEF AddInv
    <2>4. DbInv'
        BY <1>5, <1>12, <2>2 DEF DbInv
    <2>. QED
        BY <2>3, <2>4
<1>. QED
    BY <1>8, <1>11, <1>12

\* A token that a block moves, and no later one, is as that block leaves it.
LEMMA OwnerOfBlock ==
    ASSUME raw \in Seq(Blocks), NEW k \in 1..Len(raw), NEW u, Moves(raw[k], u.token),
           \A j \in (k + 1)..Len(raw) : ~Moves(raw[j], u.token)
    PROVE  u \in Owners <=> LastMove(raw[k], u)
<1>1. Len(raw) \in Nat /\ DOMAIN raw = 1..Len(raw)
    OBVIOUS
<1>2. \A c : LastMove(c, u) => u \in ToSet(map(c)) /\ Moves(c, u.token)
    BY DEF LastMove, Moves, ToSet
<1>3. u \in Owners <=> \E j \in 1..Len(raw) :
          LastMove(raw[j], u) /\ \A m \in (j + 1)..Len(raw) : ~Moves(raw[m], u.token)
    BY <1>1, <1>2 DEF Owners
<1>4. ASSUME NEW j \in 1..Len(raw), LastMove(raw[j], u),
             \A m \in (j + 1)..Len(raw) : ~Moves(raw[m], u.token)
      PROVE  j = k
    <2>1. Moves(raw[j], u.token)
        BY <1>2, <1>4
    <2>2. j \notin (k + 1)..Len(raw) /\ k \notin (j + 1)..Len(raw)
        BY <1>4, <2>1
    <2>. QED
        BY <1>1, <2>2
<1>. QED
    BY <1>3, <1>4

LEMMA addLastStep ==
    ASSUME Inv, Inv', StepInv, add, ~(row < Len(map(block)))
    PROVE  StepInv'
<1>1. UNCHANGED <<scenario, harm, chain, transformer, out>> /\ step' = "idle"
      /\ offset' = offset + 1
    BY addFacts DEF add
<1>2. PICK b \in Blocks : b = block
    BY addFacts
<1>3. PICK t \in Transfers : t = map(b)[row]
    BY <1>2, addFacts
<1>4. /\ Len(b) \in Nat \ {0} /\ row = Len(map(b))
      /\ DOMAIN map(b) = 1..Len(map(b))
      /\ t.blockNumber = Len(b) /\ IsLeft(b) /\ IsTable(db)
      /\ Matic => db' = db (+) SetToBag({t})
      /\ offset \in 1..Len(out) /\ Len(out) \in Nat /\ out[offset] = b
    BY <1>2, <1>3, addFacts
<1>5. Matic' = Matic /\ UNCHANGED <<head, raw, committed, queue, Sending>>
    BY <1>1, TransformerWaits DEF Matic, chain, transformer, consumer
<1>6. SUFFICES ASSUME harm' = {} PROVE (ChainInv /\ DonePrefix /\ Follow /\ DbInv /\ AddInv)'
    BY AddTypes DEF StepInv
<1>7. ChainInv /\ DonePrefix /\ Follow /\ DbInv /\ AddInv
    BY <1>1, <1>6 DEF StepInv
<1>8. (ChainInv /\ DonePrefix /\ Follow)'
    BY <1>1, <1>7, TransformerWaits
<1>9. AddInv'
    BY <1>1 DEF AddInv
<1>10. raw \in Seq(Blocks) /\ head \in Seq(Labels) /\ Len(Sending) \in Nat
       /\ offset \in 1..Len(Sending) /\ Sending[offset] = b
    <2>1. Types /\ raw \in Seq(Blocks) /\ buffer \in Seq(Blocks) /\ head \in Seq(Labels)
        BY DEF Inv, Types
    <2>2. Len(buffer) \in Nat
        BY <2>1
    <2>. QED
        BY <1>4, <2>1, <2>2, SendingFacts
<1>11. \A c : map(c)' = map(c) /\ (IsLeft(c) => c = b \/ IsLeft(c)')
    <2>1. \A c : map(c)' = map(c)
        BY DEF map
    <2>2. \A i \in offset..Len(Sending) : i = offset \/ i \in (offset + 1)..Len(Sending)
        BY <1>10
    <2>3. \A j : IsTodo(j)' = IsTodo(j)
        BY <1>1, TransformerWaits
    <2>. QED
        BY <1>1, <1>5, <1>10, <2>1, <2>2, <2>3 DEF IsLeft
<1>12. PICK k \in 1..Len(raw) : raw[k] = b /\ FollowedUp(offset, k)
    BY <1>7, <1>10 DEF Follow
<1>13. \A j \in (k + 1)..Len(raw) :
           raw[j] \in Blocks /\ (map(raw[j]) # << >> => IsLeft(raw[j])')
    <2> SUFFICES ASSUME NEW j \in (k + 1)..Len(raw)
                 PROVE  raw[j] \in Blocks /\ (map(raw[j]) # << >> => IsLeft(raw[j])')
        OBVIOUS
    <2>1. j \in 1..Len(raw)
        BY <1>10
    <2>2. PICK c \in Blocks : c = raw[j]
        BY <1>10, <2>1
    <2>3. map(c) # << >> => IsTodo(j) \/ \E l \in (offset + 1)..Len(Sending) : Sending[l] = c
        BY <1>12, <2>2 DEF FollowedUp
    <2>4. map(c)' = map(c) /\ IsTodo(j)' = IsTodo(j)
        BY <1>1, TransformerWaits DEF map
    <2>5. map(c) # << >> => IsLeft(c)'
        BY <1>1, <1>5, <2>1, <2>2, <2>3, <2>4 DEF IsLeft
    <2>6. c = raw[j] => (IsLeft(c)' <=> IsLeft(raw[j])')
        BY <1>5, <2>2
    <2>. QED
        BY <2>2, <2>5, <2>6
<1>14. ASSUME NEW n \in Nat, NoneLeft(n)' PROVE ~Newer(k, n)
    <2> SUFFICES ASSUME NEW j \in (k + 1)..Len(raw), map(raw[j]) # << >>
                 PROVE  ~(Len(raw[j]) <= n)
        BY DEF Newer
    <2>1. Len(raw[j]) > n
        BY <1>5, <1>13, <1>14 DEF NoneLeft
    <2>. QED
        BY <1>13, <2>1, MapFacts
<1>15. ASSUME NEW n \in Nat, n >= Len(b), NoneLeft(n)'
       PROVE  Same(Branch(head), Branch(b), n)
    BY <1>7, <1>12, <1>14, <1>15 DEF ChainInv
<1>16. ASSUME Matic, NEW n \in Nat, NoneLeft(n)' PROVE Holds(Branch(head), n)'
    <2>1. ASSUME NEW m \in Nat, m < Len(b), m <= n PROVE Holds(Branch(head), m)'
        <3>1. NoneLeft(m)
            <4> SUFFICES ASSUME NEW c \in Blocks, IsLeft(c) PROVE Len(c) > m
                BY DEF NoneLeft
            <4>1. c = b \/ Len(c) > n
                BY <1>11, <1>16 DEF NoneLeft
            <4>. QED
                BY <2>1, <4>1, MapFacts
        <3>2. Holds(Branch(head), m)
            BY <1>7, <1>16, <3>1 DEF DbInv
        <3>. QED
            BY <1>4, <1>5, <1>16, <2>1, <3>2, HoldsBelow
    <2>2. CASE n < Len(b)
        BY <2>1, <2>2
    <2>3. CASE n >= Len(b)
        <3>1. Same(Branch(head), Branch(b), n)
            BY <1>15, <1>16, <2>3
        <3>2. Holds(Branch(head), Len(b) - 1)'
            BY <1>4, <2>1, <2>3
        <3>3. ASSUME NEW u \in Transfers, u.blockNumber <= n
              PROVE  /\ u \in BagToSet(db') <=> u \in Branch(head)
                     /\ u \in BagToSet(db') => db'[u] = 1
            <4>1. CASE u.blockNumber < Len(b)
                <5>1. u.blockNumber <= Len(b) - 1
                    BY <1>4, <4>1 DEF Transfers
                <5>. QED
                    BY <1>5, <3>2, <5>1 DEF Holds
            <4>2. CASE u.blockNumber >= Len(b)
                <5>1. /\ u \in BagToSet(db') <=> \E i \in 1..Len(map(b)) : u = map(b)[i]
                      /\ u \in BagToSet(db') => db'[u] = 1
                    BY <1>2, <1>4, <1>7, <1>16, <4>2, RowAdded
                <5>2. u \in Branch(b) <=> \E i \in 1..Len(map(b)) : u = map(b)[i]
                    BY <4>2, BranchOfBlock
                <5>3. u \in Branch(head) <=> u \in Branch(b)
                    BY <3>1, <3>3 DEF Same
                <5>. QED
                    BY <5>1, <5>2, <5>3
            <4>. QED
                BY <1>4, <4>1, <4>2 DEF Transfers
        <3>. QED
            BY <1>5, <3>3 DEF Holds
    <2>. QED
        BY <1>4, <2>2, <2>3
<1>17. ASSUME ~Matic, NEW z \in Tokens, ~LeftMoves(z)' PROVE OwnersHeld(z)'
    <2>1. \A u \in Transfers :
              IF \E i \in 1..row : map(b)[i].token = u.token
              THEN /\ u \in BagToSet(db') <=> LastOf(b, row, u)
                   /\ u \in BagToSet(db') => db'[u] = 1
              ELSE /\ u \in BagToSet(db') <=> u \in BagToSet(db)
                   /\ u \in BagToSet(db') => db'[u] = db[u]
        BY <1>2, <1>7, <1>17, RowMoved
    <2>2. \A u : u \in Owners' <=> u \in Owners
        BY <1>5, <1>11 DEF Owners, LastMove, Moves
    <2>3. Moves(b, z) <=> \E i \in 1..row : map(b)[i].token = z
        BY <1>4 DEF Moves
    <2>4. CASE ~Moves(b, z)
        <3>1. ~LeftMoves(z)
            BY <1>11, <1>17, <2>4 DEF LeftMoves, Moves
        <3>2. OwnersHeld(z)
            BY <1>7, <1>17, <3>1 DEF DbInv
        <3>. QED
            BY <2>1, <2>2, <2>3, <2>4, <3>2 DEF OwnersHeld
    <2>5. CASE Moves(b, z)
        <3>1. \A j \in (k + 1)..Len(raw) : ~Moves(raw[j], z)
            <4>1. \A c : Moves(c, z) => map(c) # << >> /\ Moves(c, z)'
                BY <1>11 DEF Moves
            <4> SUFFICES ASSUME NEW j \in (k + 1)..Len(raw), Moves(raw[j], z) PROVE FALSE
                OBVIOUS
            <4>2. PICK c \in Blocks : c = raw[j]
                BY <1>13
            <4>3. IsLeft(raw[j])'
                BY <1>13, <4>1
            <4>4. IsLeft(c)'
                BY <1>5, <4>2, <4>3
            <4>5. Moves(c, z)'
                BY <4>1, <4>2
            <4>. QED
                BY <1>17, <4>4, <4>5 DEF LeftMoves
        <3>2. \A u \in Transfers : u.token = z => (u \in Owners <=> LastMove(b, u))
            BY <1>10, <1>12, <2>5, <3>1, OwnerOfBlock
        <3>3. \A u : LastMove(b, u) <=> LastOf(b, row, u)
            BY <1>4 DEF LastMove, LastOf
        <3>. QED
            BY <2>1, <2>2, <2>3, <2>5, <3>2, <3>3 DEF OwnersHeld
    <2>. QED
        BY <2>4, <2>5
<1>18. DbInv'
    BY <1>5, <1>16, <1>17 DEF DbInv
<1>. QED
    BY <1>8, <1>9, <1>18

LEMMA addStep == ASSUME Inv, Inv', StepInv, add PROVE StepInv'
BY addOneStep, addLastStep

-----------------------------------------------------------------------------
LEMMA NextStep == Inv /\ InScenario /\ StepInv /\ [Next]_vars => StepInv'
<1> SUFFICES ASSUME Inv, InScenario, StepInv, [Next]_vars PROVE StepInv'
    OBVIOUS
<1>. Inv'
    BY NextInv
<1>1. CASE Mine
    BY <1>1, MineStep
<1>2. CASE Reorganise
    BY <1>2, ReorganiseStep
<1>3. CASE Receive
    BY <1>3, ReceiveStep
<1>4. CASE onData
    BY <1>4, onDataStep
<1>5. CASE onDataFails
    BY <1>5, onDataFailsStep
<1>6. CASE Commit
    BY <1>6, CommitStep
<1>7. CASE GivesUp
    BY <1>7, GivesUpStep
<1>8. CASE elementResolves
    BY <1>8, elementResolvesStep
<1>9. CASE elementRejects
    BY <1>9, elementRejectsStep
<1>10. CASE strayResolves
    BY <1>10, strayResolvesStep
<1>11. CASE onError
    BY <1>11, onErrorStep
<1>12. CASE Deliver
    BY <1>12, DeliverStep
<1>13. CASE DeliveryFails
    BY <1>13, DeliveryFailsStep
<1>14. CASE Disconnects
    BY <1>14, closedStep DEF Disconnects
<1>15. CASE Disconnected
    BY <1>15, closedStep DEF Disconnected
<1>16. CASE start
    BY <1>16, startStep
<1>17. CASE fatalError
    BY <1>17, NewProcessStep DEF fatalError
<1>18. CASE TransformerDies
    BY <1>18, NewProcessStep DEF TransformerDies
<1>19. CASE next
    BY <1>19, nextStep
<1>20. CASE save
    BY <1>20, saveStep
<1>21. CASE deleteTxsForReorg
    BY <1>21, deleteStep
<1>22. CASE add
    BY <1>22, addStep
<1>23. CASE commit
    BY <1>23, commitStep
<1>24. CASE saveFails
    BY <1>24, saveFailsStep
<1>25. CASE ServiceDies
    BY <1>25, ServiceDiesStep
<1>26. CASE ServiceStarts
    BY <1>26, ServiceStartsStep
<1>27. CASE UNCHANGED vars
    <2>1. UNCHANGED <<scenario, harm, chain, transformer, out, db, step, row, offset>>
        BY <1>27 DEF vars, bounds, service
    <2>2. AddInv => AddInv'
        BY <2>1, AddKept
    <2>. QED
        BY <2>1, <2>2, ServiceStep
<1>. QED
    BY <1>1, <1>2, <1>3, <1>4, <1>5, <1>6, <1>7, <1>8, <1>9, <1>10, <1>11, <1>12, <1>13,
       <1>14, <1>15, <1>16, <1>17, <1>18, <1>19, <1>20, <1>21, <1>22, <1>23, <1>24, <1>25,
       <1>26, <1>27 DEF Next

LEMMA StepInvInStep == Inv /\ StepInv => DatabaseInStep
<1> SUFFICES ASSUME Inv, StepInv, committed = Len(raw), buffer = << >>,
                    offset = Len(out) + 1, step = "idle", harm = {}
             PROVE  db = Table
    BY DEF DatabaseInStep, CaughtUp, InStep
<1>1. DbInv /\ IsTable(db)
    BY DEF StepInv, DbTypes
<1>2. Types /\ Len(out) \in Nat /\ head \in Seq(Labels) /\ raw \in Seq(Blocks)
    BY DEF Inv, Types
<1>3. Len(Sending) = Len(out)
    BY <1>2, SendingFacts
<1>4. \A j : ~IsTodo(j)
    BY <1>2 DEF IsTodo
<1>5. \A c : ~IsLeft(c)
    BY <1>2, <1>3, <1>4 DEF IsLeft
<1>6. PICK S : S = IF Matic THEN Branch(head) ELSE Owners
    OBVIOUS
<1>7. /\ S \subseteq Transfers
      /\ \A u \in Transfers : (u \in BagToSet(db) <=> u \in S) /\ (u \in BagToSet(db) => db[u] = 1)
    <2>1. CASE Matic
        <3>1. \A n \in Nat : Holds(Branch(head), n)
            BY <1>1, <1>5, <2>1 DEF DbInv, NoneLeft
        <3>2. \A u \in Transfers : u.blockNumber \in Nat
            BY DEF Transfers
        <3>3. \A u \in Transfers : (u \in BagToSet(db) <=> u \in S) /\ (u \in BagToSet(db) => db[u] = 1)
            BY <1>6, <2>1, <3>1, <3>2 DEF Holds
        <3>. QED
            BY <1>2, <1>6, <2>1, <3>3, BranchFacts
    <2>2. CASE ~Matic
        <3>1. \A z \in Tokens : OwnersHeld(z)
            BY <1>1, <1>5, <2>2 DEF DbInv, LeftMoves
        <3>2. \A u \in Transfers : u.token \in Tokens
            BY DEF Transfers
        <3>3. Owners \subseteq Transfers
            <4> SUFFICES ASSUME NEW j \in DOMAIN raw, NEW u \in ToSet(map(raw[j]))
                         PROVE  u \in Transfers
                BY DEF Owners
            <4>1. raw[j] \in Blocks
                BY <1>2
            <4>2. PICK i \in DOMAIN map(raw[j]) : u = map(raw[j])[i]
                BY DEF ToSet
            <4>. QED
                BY <4>1, <4>2, MapFacts
        <3>. QED
            BY <1>6, <2>2, <3>1, <3>2, <3>3 DEF OwnersHeld
    <2>. QED
        BY <2>1, <2>2
<1>8. BagToSet(db) = S /\ \A u \in S : db[u] = 1
    BY <1>1, <1>7 DEF IsTable
<1>9. db = [u \in S |-> 1]
    BY <1>1, <1>8 DEF IsTable
<1>. QED
    BY <1>6, <1>9 DEF Table, SetToBag

(***************************************************************************)
(* When all that was produced has been handled, the collection of the      *)
(* service is what it should be: the transfers of the chain, or each token *)
(* with the owner that the newest block gave it - whatever reorganised the *)
(* chain, restarted either program, outlived the session it was called in, *)
(* failed half way through a save or came twice - unless what harm names   *)
(* happened: a reorganisation to an empty block, a block that a later one  *)
(* overtook, was skipped for one of a new session, was refused by the      *)
(* broker, or was with the client of a process that ended.                 *)
(***************************************************************************)
THEOREM PipelineDatabaseInStep == Spec => []DatabaseInStep
<1>1. Init => Inv /\ StepInv
    BY InitInv, InitStep
<1>2. Inv /\ StepInv /\ InScenario /\ [Next]_vars => (Inv /\ StepInv)'
    BY NextInv, NextStep
<1>3. Inv /\ StepInv => DatabaseInStep
    BY StepInvInStep
<1>. QED
    BY <1>1, <1>2, <1>3, SpecInScenario, PTL DEF Spec
=============================================================================
