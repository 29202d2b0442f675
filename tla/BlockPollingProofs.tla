------------------------- MODULE BlockPollingProofs -------------------------
(***************************************************************************)
(* Proofs about BlockPolling, for any workers, queues, chains and faults:  *)
(* its type invariant, the order of BlockPoller, and that both pollers     *)
(* implement BlockStream.                                                  *)
(*                                                                         *)
(* The argument for the last: a block that processQueue compares has its   *)
(* parent given, for lastSavedBlockHash is the hash of a block given.  A   *)
(* block that it cannot compare is the first of what the subscription      *)
(* asked for, and the owner asked for the block after one it has; nothing  *)
(* is left in the queue from before, because what clears                   *)
(* lastSavedBlockHash clears the queue too.                                *)
(***************************************************************************)
EXTENDS BlockPolling, SequenceTheorems, TLAPS

Requests == [n : Nat, state : {"pending", "done", "failed"}, block : Seq(Nat)]
Polls == [current : BOOLEAN, step : {"latest", "pause", "room", "fetch"}, last : Nat, latest : Nat]

Types ==
    /\ scenario \in Scenarios /\ forks \in Nat /\ faults \in Nat
    /\ head \in Seq(Nat) /\ StartBlock <= Len(head)
    /\ polls \subseteq Polls
    /\ queue \in Seq(Requests) /\ loop \in Seq(Requests)
    /\ saved \in Seq(Nat) /\ given \subseteq Seq(Nat)

\* What a poll asks for is on the chain; one poll is the current one.
PollOK(p) ==
    /\ StartBlock - 1 <= p.last /\ p.last <= Len(head) /\ p.latest <= Len(head)
    /\ p.step \in {"room", "fetch"} => p.last < p.latest
    /\ p.step = "room" => Erigon
    /\ p.step = "fetch" => ~Erigon
    /\ p.current => owner = "running" /\ ~fatalError

PollsOK ==
    /\ \A p \in polls : PollOK(p)
    /\ \A p, q \in polls : p.current /\ q.current => p = q

RequestOK(r) ==
    /\ StartBlock <= r.n /\ r.n <= Len(head)
    /\ r.state = "done" => Len(r.block) = r.n

QueueOK ==
    /\ Len(queue) <= Limit /\ Len(loop) <= 1
    /\ \A i \in DOMAIN queue : RequestOK(queue[i])
    /\ \A i \in DOMAIN loop : RequestOK(loop[i])
    /\ ~Erigon => queue = << >> /\ loop = << >> /\ saved = NoBlock
    /\ loop # << >> => ~fatalError

\* The parent of block n of the chain is given, or not asked for.
Anchored(n) == n = StartBlock \/ BlockAt(n - 1) \in given

\* Request r is answered with such a block, or will be.
AnchoredRequest(r) ==
    /\ Anchored(r.n) /\ r.state # "failed"
    /\ r.state = "done" => Len(r.block) = StartBlock \/ Parent(r.block) \in given

Known ==
    /\ saved # NoBlock => saved \in given
    /\ saved = NoBlock /\ loop = << >> => queue = << >>
    /\ saved = NoBlock /\ loop # << >> => AnchoredRequest(loop[1])
    /\ saved = NoBlock /\ loop = << >> => \A p \in polls : p.current => Anchored(p.last + 1)

Inv == Types /\ PollsOK /\ QueueOK

-----------------------------------------------------------------------------
(***************************************************************************)
(* The branches of the chain.                                              *)
(***************************************************************************)
LEMMA AncestorType ==
    ASSUME NEW b \in Seq(Nat), NEW n \in 0..Len(b)
    PROVE  Ancestor(b, n) \in Seq(Nat) /\ Len(Ancestor(b, n)) = n
<1>1. \A i \in 1..n : b[i] \in Nat
    OBVIOUS
<1>2. n \in Int /\ (1 <= n \/ n = 0)
    OBVIOUS
<1>. QED
    BY <1>1, <1>2, SubSeqProperties DEF Ancestor

LEMMA AncestorOfLonger ==
    ASSUME NEW b \in Seq(Nat), NEW x \in Nat, NEW n \in 0..Len(b)
    PROVE  Ancestor(Append(b, x), n) = Ancestor(b, n)
<1>1. Append(b, x) \in Seq(Nat) /\ n \in 0..Len(Append(b, x))
    OBVIOUS
<1>2. \A i \in 1..n : Append(b, x)[i] = b[i]
    OBVIOUS
<1>. QED
    BY <1>1, <1>2, SMT DEF Ancestor

LEMMA ParentOfAncestor ==
    ASSUME NEW b \in Seq(Nat), NEW n \in 1..Len(b)
    PROVE  Parent(Ancestor(b, n)) = Ancestor(b, n - 1)
<1>1. Ancestor(b, n) \in Seq(Nat) /\ Len(Ancestor(b, n)) = n
    BY AncestorType
<1>2. CASE n = 1
    BY <1>1, <1>2 DEF Parent, Ancestor
<1>3. CASE n > 1
    <2>1. SubSeq(SubSeq(b, 1, n), 1, n - 1) = SubSeq(b, 1 + 1 - 1, 1 + (n - 1) - 1)
        BY <1>3, SubSeqOfSubSeq
    <2>. QED
        BY <1>1, <1>3, <2>1 DEF Parent, Ancestor
<1>. QED
    BY <1>2, <1>3

LEMMA RequestFacts ==
    ASSUME NEW q \in Seq(Requests), q # << >>
    PROVE  Head(q) \in Requests /\ q[1] \in Requests /\ Tail(q) \in Seq(Requests)
           /\ Len(Tail(q)) = Len(q) - 1 /\ \A i \in DOMAIN Tail(q) : i + 1 \in DOMAIN q /\ Tail(q)[i] = q[i + 1]
BY HeadTailProperties

-----------------------------------------------------------------------------
(***************************************************************************)
(* Types, polls and queue.                                                 *)
(***************************************************************************)
LEMMA InitInv == Init => Inv
<1> SUFFICES ASSUME Init PROVE Inv
    OBVIOUS
<1>1. head \in Seq(Nat) /\ Len(head) = StartBlock
    BY PollingAssumption DEF Init
<1>2. Types
    BY <1>1, PollingAssumption DEF Init, Types, NoBlock
<1>3. PollsOK
    BY DEF Init, PollsOK
<1>4. QueueOK
    <2>1. Len(queue) <= Limit /\ Len(loop) <= 1 /\ DOMAIN queue = {} /\ DOMAIN loop = {}
        BY PollingAssumption DEF Init
    <2>. QED
        BY <2>1 DEF Init, QueueOK
<1>. QED
    BY <1>2, <1>3, <1>4 DEF Inv

\* A step that changes polls and queue in no other way than the chain grows.
LEMMA ChainGrows ==
    ASSUME Inv, head' \in Seq(Nat), Len(head') = Len(head) + 1, forks' \in Nat,
           UNCHANGED <<faults, scenario, polls, work, owner, hist>>
    PROVE  Inv'
<1>. USE DEF work, hist
<1>1. Types'
    <2>1. StartBlock \in Nat /\ Types
        BY PollingAssumption DEF Inv
    <2>2. Len(head) \in Nat
        BY <2>1 DEF Types
    <2>3. StartBlock <= Len(head')
        BY <2>1, <2>2 DEF Types
    <2>. QED
        BY <2>1, <2>3 DEF Types
<1>2. PollsOK'
    <2>1. Len(head) \in Nat
        BY DEF Inv, Types
    <2>2. ASSUME NEW p \in polls PROVE PollOK(p)'
        <3>1. p \in Polls /\ PollOK(p)
            BY DEF Inv, Types, PollsOK
        <3>. QED
            BY <2>1, <3>1 DEF PollOK, Polls, Erigon
    <2>. QED
        BY <2>2 DEF Inv, PollsOK
<1>3. QueueOK'
    <2>1. Len(head) \in Nat
        BY DEF Inv, Types
    <2>2. ASSUME NEW r \in Requests, RequestOK(r) PROVE RequestOK(r)'
        BY <2>1, <2>2 DEF RequestOK, Requests
    <2>3. \A i \in DOMAIN queue : queue[i] \in Requests /\ RequestOK(queue[i])
        BY DEF Inv, Types, QueueOK
    <2>4. \A i \in DOMAIN loop : loop[i] \in Requests /\ RequestOK(loop[i])
        BY DEF Inv, Types, QueueOK
    <2>. QED
        BY <2>2, <2>3, <2>4 DEF Inv, QueueOK, Erigon, RequestOK
<1>. QED
    BY <1>1, <1>2, <1>3 DEF Inv

\* A reorganisation replaces the chain by a longer one.
LEMMA Reorganised ==
    ASSUME Types, Reorganise
    PROVE  head' \in Seq(Nat) /\ Len(head') = Len(head) + 1
<1>1. PICK d \in 1..Len(head) :
        head' = Ancestor(head, Len(head) - d) \o [i \in 1..(d + 1) |-> forks + 1]
    BY DEF Reorganise
<1>2. Ancestor(head, Len(head) - d) \in Seq(Nat) /\ Len(Ancestor(head, Len(head) - d)) = Len(head) - d
    BY AncestorType DEF Types
<1>3. [i \in 1..(d + 1) |-> forks + 1] \in Seq(Nat) /\ Len([i \in 1..(d + 1) |-> forks + 1]) = d + 1
    BY DEF Types
<1>4. Len(head) \in Nat
    BY DEF Types
<1>. DEFINE s == Ancestor(head, Len(head) - d)
            t == [i \in 1..(d + 1) |-> forks + 1]
<1>5. s \in Seq(Nat) /\ t \in Seq(Nat) /\ Len(s) = Len(head) - d /\ Len(t) = d + 1
    BY <1>2, <1>3
<1>. HIDE DEF s, t
<1>6. s \o t \in Seq(Nat) /\ Len(s \o t) = Len(s) + Len(t)
    BY <1>5, ConcatProperties
<1>7. Len(s \o t) = Len(head) + 1
    BY <1>4, <1>5, <1>6
<1>. QED
    BY <1>1, <1>6, <1>7 DEF s, t

\* The polls when the owner heard an error: the ones left, all forgotten.
LEMMA ForgottenPolls ==
    ASSUME Inv, NEW ps \in SUBSET polls, error(ps), head' = head, scenario' = scenario
    PROVE  polls' \subseteq Polls /\ PollsOK' /\ \A p \in polls' : ~p.current
<1>1. ASSUME NEW p \in polls'
      PROVE  p \in Polls /\ ~p.current /\ PollOK(p)'
    <2>1. PICK q \in ps : p = Poll(FALSE, q.step, q.last, q.latest)
        BY DEF error, Forgotten
    <2>2. q \in Polls /\ PollOK(q)
        BY DEF Inv, Types, PollsOK
    <2>. QED
        BY <2>1, <2>2 DEF Polls, PollOK, Poll, Erigon
<1>. QED
    BY <1>1 DEF PollsOK

\* A poll that goes on, or ends.
LEMMA PollGoesOn ==
    ASSUME Inv, NEW p \in polls, NEW step, NEW last \in Nat, NEW latest \in Nat, GoOn(p, step, last, latest),
           step \in {"latest", "pause", "room", "fetch"},
           PollOK(p) => PollOK(Poll(p.current, step, last, latest)),
           head' = head, scenario' = scenario, owner' = owner, fatalError' = fatalError
    PROVE  /\ polls' \subseteq Polls /\ PollsOK'
           /\ \A q \in polls' : q.current => q \in polls \/ (p.current /\ q = Poll(TRUE, step, last, latest))
<1>. DEFINE q == Poll(p.current, step, last, latest)
<1>1. p \in Polls /\ PollOK(p)
    BY DEF Inv, Types, PollsOK
<1>2. q \in Polls /\ PollOK(q) /\ q.current = p.current /\ (p.current => q = Poll(TRUE, step, last, latest))
    BY <1>1 DEF Polls, Poll
<1>3. polls' \subseteq (polls \ {p}) \cup {q} /\ (q \in polls' /\ q \notin polls \ {p} => p.current)
    BY <1>2 DEF GoOn
<1>. HIDE DEF q
<1>4. polls' \subseteq Polls
    BY <1>2, <1>3 DEF Inv, Types
<1>5. \A r \in polls' : PollOK(r)
    BY <1>2, <1>3 DEF Inv, PollsOK
<1>6. \A r \in polls' : PollOK(r)'
    BY <1>5 DEF PollOK, Erigon
<1>7. ASSUME NEW r \in polls', NEW s \in polls', r.current, s.current
      PROVE  r = s
    <2>1. \A x, y \in polls : x.current /\ y.current => x = y
        BY DEF Inv, PollsOK
    <2>. QED
        BY <1>2, <1>3, <1>7, <2>1
<1>. QED
    BY <1>2, <1>3, <1>4, <1>6, <1>7 DEF PollsOK

\* processQueue takes a request of a queue that is good.
LEMMA Takes ==
    ASSUME NEW q \in Seq(Requests), \A i \in DOMAIN q : RequestOK(q[i]), NEW f, Take(q, f)
    PROVE  /\ queue' \in Seq(Requests) /\ loop' \in Seq(Requests) /\ Len(loop') <= 1
           /\ \A i \in DOMAIN queue' : RequestOK(queue'[i])
           /\ \A i \in DOMAIN loop' : RequestOK(loop'[i])
           /\ Len(queue') <= Len(q)
           /\ q # << >> /\ ~f => Len(queue') = Len(q) - 1
           /\ loop' # << >> => ~f
           /\ q = << >> => queue' = << >> /\ loop' = << >>
<1>1. CASE q = << >> \/ f
    <2>1. loop' = << >> /\ queue' = q
        BY <1>1 DEF Take
    <2>2. loop' \in Seq(Requests) /\ Len(loop') = 0 /\ DOMAIN loop' = {}
        BY <2>1
    <2>. QED
        BY <1>1, <2>1, <2>2
<1>2. CASE q # << >> /\ ~f
    <2>1. loop' = <<q[1]>> /\ queue' = Tail(q)
        BY <1>2 DEF Take
    <2>2. /\ q[1] \in Requests /\ Tail(q) \in Seq(Requests) /\ Len(Tail(q)) = Len(q) - 1
          /\ \A i \in DOMAIN Tail(q) : i + 1 \in DOMAIN q /\ Tail(q)[i] = q[i + 1]
        BY <1>2, RequestFacts
    <2>3. 1 \in DOMAIN q
        BY <1>2
    <2>. QED
        BY <1>2, <2>1, <2>2, <2>3
<1>. QED
    BY <1>1, <1>2

\* What a worker makes of a request.
LEMMA Answered ==
    ASSUME Inv, NEW r \in Requests, RequestOK(r), NEW a \in Answers(r)
    PROVE  /\ a[1] \in Requests /\ RequestOK(a[1]) /\ a[1].n = r.n /\ a[2] \in Nat
           /\ a[1].state \in {"done", "failed"}
<1>1. BlockAt(r.n) \in Seq(Nat) /\ Len(BlockAt(r.n)) = r.n
    BY AncestorType DEF Inv, Types, RequestOK, BlockAt, Requests
<1>2. \/ r.state # "pending" /\ a = <<r, 0>>
      \/ r.state = "pending" /\ a = <<Request(r.n, "done", BlockAt(r.n)), 0>>
      \/ r.state = "pending" /\ a = <<Request(r.n, "failed", NoBlock), 1>>
    BY DEF Answers
<1>3. NoBlock \in Seq(Nat)
    BY DEF NoBlock
<1>4. CASE r.state # "pending" /\ a = <<r, 0>>
    BY <1>4 DEF Requests
<1>5. CASE r.state = "pending" /\ a = <<Request(r.n, "done", BlockAt(r.n)), 0>>
    BY <1>1, <1>5 DEF Requests, Request, RequestOK
<1>6. CASE r.state = "pending" /\ a = <<Request(r.n, "failed", NoBlock), 1>>
    BY <1>3, <1>6 DEF Requests, Request, RequestOK
<1>. QED
    BY <1>2, <1>4, <1>5, <1>6

\* A step that leaves the queue as it is.
LEMMA QueueKept ==
    ASSUME Inv, UNCHANGED <<queue, loop>>, head' = head, scenario' = scenario,
           saved' = saved, fatalError' = fatalError \/ ~fatalError'
    PROVE  queue' \in Seq(Requests) /\ loop' \in Seq(Requests) /\ QueueOK'
BY DEF Inv, Types, QueueOK, RequestOK, Erigon

\* What Enqueue adds to the queue, k requests from the one after p.last.
LEMMA EnqueueInv == ASSUME Inv, Enqueue PROVE Inv'
<1>. USE DEF chain, work, hist
<1>t. Types /\ PollsOK /\ QueueOK /\ StartBlock \in Nat /\ Limit \in Nat \ {0}
    BY PollingAssumption DEF Inv
<1>. DEFINE w(p) == p.latest - p.last
            k(p) == IF w(p) < Room THEN w(p) ELSE Room
            more(p) == [i \in 1..k(p) |-> Request(p.last + i, "pending", NoBlock)]
            s(p) == IF k(p) < w(p) THEN "room" ELSE "latest"
<1>1. PICK p \in polls :
        /\ p.step = "room" /\ Len(queue) < Limit
        /\ GoOn(p, s(p), p.last + k(p), p.latest)
        /\ IF ~p.current THEN UNCHANGED <<queue, loop>>
           ELSE IF loop = << >> THEN Take(queue \o more(p), fatalError)
           ELSE queue' = queue \o more(p) /\ UNCHANGED loop
        /\ UNCHANGED <<chain, saved, fatalError, owner, hist>>
    BY DEF Enqueue
<1>2. p \in Polls /\ PollOK(p) /\ Len(head) \in Nat /\ Len(queue) \in Nat
    BY <1>t DEF Types, PollsOK
<1>3. w(p) \in Nat \ {0} /\ p.last \in Nat /\ p.latest \in Nat
    BY <1>1, <1>2 DEF Polls, PollOK
<1>4. Room \in Nat \ {0} /\ Room <= Limit - Len(queue) + 1
      /\ (loop # << >> \/ fatalError => Room = Limit - Len(queue))
    BY <1>t, <1>1, <1>2 DEF Room
<1>5. k(p) \in Nat \ {0} /\ k(p) <= w(p) /\ k(p) <= Room
    BY <1>3, <1>4
<1>. DEFINE kp == k(p)
            r == more(p)
<1>6. r \in Seq(Requests) /\ Len(r) = kp /\ \A i \in 1..kp : r[i] \in Requests /\ RequestOK(r[i])
    <2>1. NoBlock \in Seq(Nat)
        BY DEF NoBlock
    <2>2. \A i \in 1..kp : Request(p.last + i, "pending", NoBlock) \in Requests
        BY <1>3, <1>5, <2>1 DEF Request, Requests
    <2>3. \A i \in 1..kp : RequestOK(Request(p.last + i, "pending", NoBlock))
        BY <1>2, <1>3, <1>5, <1>t DEF Request, RequestOK, PollOK, Polls
    <2>. QED
        BY <1>5, <2>2, <2>3
<1>7. PollOK(Poll(p.current, s(p), p.last + kp, p.latest)) /\ p.last + kp \in Nat
      /\ s(p) \in {"latest", "pause", "room", "fetch"}
    BY <1>1, <1>2, <1>3, <1>5, <1>t DEF PollOK, Poll, Polls
<1>8. PollsOK' /\ polls' \subseteq Polls
    <2>. HIDE DEF s, k
    <2>. QED
        BY <1>1, <1>3, <1>7, PollGoesOn
<1>9. kp \in Nat \ {0} /\ kp <= Room
    BY <1>5
<1>. HIDE DEF kp, r
<1>. DEFINE q == queue \o r
<1>10. q \in Seq(Requests) /\ Len(q) = Len(queue) + kp /\ q # << >>
       /\ \A i \in DOMAIN q : RequestOK(q[i])
    <2>1. q \in Seq(Requests) /\ Len(q) = Len(queue) + Len(r)
          /\ \A i \in 1..(Len(queue) + Len(r)) : q[i] = IF i <= Len(queue) THEN queue[i] ELSE r[i - Len(queue)]
        BY <1>6, <1>t, ConcatProperties DEF Types
    <2>2. \A i \in 1..Len(queue) : RequestOK(queue[i])
        BY <1>t DEF QueueOK, Types
    <2>3. ASSUME NEW i \in 1..(Len(queue) + Len(r)) PROVE RequestOK(q[i])
        <3>1. CASE i <= Len(queue)
            BY <1>2, <1>6, <1>9, <2>1, <2>2, <3>1
        <3>2. CASE i > Len(queue)
            <4>1. i - Len(queue) \in 1..kp
                BY <1>2, <1>6, <1>9, <3>2
            <4>. QED
                BY <1>2, <1>6, <2>1, <3>2, <4>1
        <3>. QED
            BY <1>2, <1>6, <1>9, <3>1, <3>2
    <2>. HIDE DEF q
    <2>. QED
        BY <1>2, <1>6, <1>9, <2>1, <2>3
<1>11. IF ~p.current THEN UNCHANGED <<queue, loop>>
       ELSE IF loop = << >> THEN Take(q, fatalError) ELSE queue' = q /\ UNCHANGED loop
    BY <1>1 DEF r
<1>. HIDE DEF q
<1>12. queue' \in Seq(Requests) /\ loop' \in Seq(Requests) /\ QueueOK'
    <2>1. CASE ~p.current
        BY <1>1, <1>11, <2>1, QueueKept
    <2>2. CASE p.current /\ loop = << >>
        <3>1. Take(q, fatalError) /\ ~fatalError /\ Erigon
            BY <1>1, <1>2, <1>11, <2>2 DEF PollOK
        <3>2. /\ queue' \in Seq(Requests) /\ loop' \in Seq(Requests) /\ Len(loop') <= 1
              /\ \A i \in DOMAIN queue' : RequestOK(queue'[i])
              /\ \A i \in DOMAIN loop' : RequestOK(loop'[i])
              /\ Len(queue') = Len(q) - 1
            BY <1>10, <3>1, Takes
        <3>3. Len(queue') <= Limit
            BY <1>t, <1>2, <1>4, <1>9, <1>10, <3>2
        <3>. QED
            BY <1>1, <3>1, <3>2, <3>3 DEF QueueOK, RequestOK, Erigon
    <2>3. CASE p.current /\ loop # << >>
        <3>1. queue' = q /\ loop' = loop /\ Len(q) <= Limit /\ Erigon
            BY <1>t, <1>1, <1>2, <1>4, <1>9, <1>10, <1>11, <2>3 DEF PollOK
        <3>. QED
            BY <1>t, <1>1, <1>10, <3>1 DEF QueueOK, RequestOK, Erigon, Types
    <2>. QED
        BY <2>1, <2>2, <2>3
<1>. QED
    BY <1>1, <1>t, <1>8, <1>12 DEF Inv, Types

LEMMA AnswerQueuedInv == ASSUME Inv, AnswerQueued PROVE Inv'
<1>. USE DEF chain, work, hist
<1>t. Types /\ PollsOK /\ QueueOK
    BY DEF Inv
<1>1. PICK i \in 1..Len(queue) : \E a \in Answers(queue[i]) :
        /\ queue[i].state = "pending" /\ queue' = [queue EXCEPT ![i] = a[1]] /\ faults' = faults + a[2]
        /\ UNCHANGED <<head, forks, scenario, polls, loop, saved, fatalError, owner, hist>>
    BY DEF AnswerQueued
<1>2. PICK a \in Answers(queue[i]) :
        /\ queue[i].state = "pending" /\ queue' = [queue EXCEPT ![i] = a[1]] /\ faults' = faults + a[2]
        /\ UNCHANGED <<head, forks, scenario, polls, loop, saved, fatalError, owner, hist>>
    BY <1>1
<1>3. queue[i] \in Requests /\ RequestOK(queue[i])
    BY <1>t DEF Types, QueueOK
<1>4. a[1] \in Requests /\ RequestOK(a[1]) /\ a[2] \in Nat
    BY <1>3, Answered
<1>5. queue' \in Seq(Requests) /\ Len(queue') = Len(queue) /\ DOMAIN queue' = DOMAIN queue
    BY <1>2, <1>4, <1>t DEF Types
<1>6. \A j \in DOMAIN queue' : RequestOK(queue'[j])
    BY <1>2, <1>4, <1>5, <1>t DEF QueueOK, Types
<1>7. Erigon
    BY <1>t DEF QueueOK
<1>8. QueueOK'
    BY <1>2, <1>5, <1>6, <1>7, <1>t DEF QueueOK, RequestOK, Erigon
<1>9. PollsOK'
    BY <1>2, <1>t DEF PollsOK, PollOK, Erigon
<1>10. faults' \in Nat
    BY <1>2, <1>4, <1>t DEF Types
<1>. QED
    BY <1>2, <1>5, <1>8, <1>9, <1>10, <1>t DEF Inv, Types

LEMMA ExitedRequests ==
    ASSUME NEW rs \in Seq(Requests), \A i \in DOMAIN rs : RequestOK(rs[i]), NEW w
    PROVE  /\ Exited(w, rs) \in Seq(Requests) /\ Len(Exited(w, rs)) = Len(rs)
           /\ DOMAIN Exited(w, rs) = DOMAIN rs
           /\ \A i \in DOMAIN rs : RequestOK(Exited(w, rs)[i])
           /\ \A i \in DOMAIN rs : Exited(w, rs)[i] = rs[i] \/ Exited(w, rs)[i].state = "failed"
<1>1. NoBlock \in Seq(Nat)
    BY DEF NoBlock
<1>2. ASSUME NEW i \in DOMAIN rs
      PROVE  /\ Request(rs[i].n, "failed", NoBlock) \in Requests
             /\ RequestOK(Request(rs[i].n, "failed", NoBlock))
             /\ Request(rs[i].n, "failed", NoBlock).state = "failed"
    <2>1. rs[i] \in Requests /\ RequestOK(rs[i])
        OBVIOUS
    <2>. QED
        BY <1>1, <2>1 DEF Request, Requests, RequestOK
<1>3. ASSUME NEW i \in DOMAIN rs
      PROVE  /\ Exited(w, rs)[i] \in Requests /\ RequestOK(Exited(w, rs)[i])
             /\ Exited(w, rs)[i] = rs[i] \/ Exited(w, rs)[i].state = "failed"
    <2>1. Exited(w, rs)[i] = rs[i] \/ Exited(w, rs)[i] = Request(rs[i].n, "failed", NoBlock)
        BY DEF Exited
    <2>2. rs[i] \in Requests
        OBVIOUS
    <2>. QED
        BY <1>2, <2>1, <2>2
<1>4. Exited(w, rs) = [i \in 1..Len(rs) |-> Exited(w, rs)[i]]
    BY DEF Exited
<1>5. Len(rs) \in Nat /\ \A i \in 1..Len(rs) : Exited(w, rs)[i] \in Requests
    BY <1>3
<1>6. Exited(w, rs) \in Seq(Requests) /\ Len(Exited(w, rs)) = Len(rs) /\ DOMAIN Exited(w, rs) = DOMAIN rs
    BY <1>4, <1>5
<1>. QED
    BY <1>3, <1>6

LEMMA WorkerExitsInv == ASSUME Inv, WorkerExits PROVE Inv'
<1>. USE DEF chain, work, hist
<1>t. Types /\ PollsOK /\ QueueOK
    BY DEF Inv
<1>1. PICK w \in 0..(Workers - 1) : queue' = Exited(w, queue) /\ loop' = Exited(w, loop)
    BY DEF WorkerExits
<1>2. UNCHANGED <<head, forks, scenario, polls, saved, fatalError, owner, hist>> /\ Erigon /\ faults' = faults + 1
    BY DEF WorkerExits
<1>3. queue' \in Seq(Requests) /\ Len(queue') = Len(queue) /\ \A i \in DOMAIN queue' : RequestOK(queue'[i])
    BY <1>1, <1>t, ExitedRequests DEF Types, QueueOK
<1>4. loop' \in Seq(Requests) /\ Len(loop') = Len(loop) /\ \A i \in DOMAIN loop' : RequestOK(loop'[i])
    BY <1>1, <1>t, ExitedRequests DEF Types, QueueOK
<1>5. loop = << >> => loop' = << >>
    BY <1>4, <1>t DEF Types
<1>6. QueueOK'
    BY <1>2, <1>3, <1>4, <1>5, <1>t DEF QueueOK, RequestOK, Erigon
<1>7. PollsOK'
    BY <1>2, <1>t DEF PollsOK, PollOK, Erigon
<1>. QED
    BY <1>2, <1>3, <1>4, <1>6, <1>7, <1>t DEF Inv, Types

\* The step of processQueue, with the request answered.
LEMMA ProcessAnswer ==
    ASSUME Inv, processQueue
    PROVE  \E a \in Answers(loop[1]) :
             /\ a[1] \in Requests /\ RequestOK(a[1]) /\ a[1].n = loop[1].n
             /\ faults' = faults + a[2] /\ a[2] \in Nat
             /\ UNCHANGED <<head, forks, scenario>>
             /\ \/ a[1].state = "done" /\ ProcessBlock(a[1].block)
                \/ a[1].state = "done" /\ ProcessReorg(a[1].block)
                \/ a[1].state = "failed" /\ ProcessError
<1>1. loop[1] \in Requests /\ RequestOK(loop[1])
    BY DEF Inv, Types, QueueOK, processQueue
<1>2. \A a \in Answers(loop[1]) : a[1] \in Requests /\ RequestOK(a[1]) /\ a[1].n = loop[1].n
                                  /\ a[2] \in Nat /\ a[1].state \in {"done", "failed"}
    BY <1>1, Answered
<1>. QED
    BY <1>2 DEF processQueue

LEMMA processQueueInv == ASSUME Inv, processQueue PROVE Inv'
<1>. USE DEF chain, work, hist
<1>t. Types /\ PollsOK /\ QueueOK /\ StartBlock \in Nat /\ Limit \in Nat
    BY PollingAssumption DEF Inv
<1>1. PICK a \in Answers(loop[1]) :
             /\ a[1] \in Requests /\ RequestOK(a[1]) /\ a[1].n = loop[1].n
             /\ faults' = faults + a[2] /\ a[2] \in Nat
             /\ UNCHANGED <<head, forks, scenario>>
             /\ \/ a[1].state = "done" /\ ProcessBlock(a[1].block)
                \/ a[1].state = "done" /\ ProcessReorg(a[1].block)
                \/ a[1].state = "failed" /\ ProcessError
    BY ProcessAnswer
<1>2. loop # << >> /\ ~fatalError /\ Erigon
    BY <1>t DEF processQueue, QueueOK
<1>3. faults' \in Nat /\ a[1].block \in Seq(Nat)
    BY <1>1, <1>t DEF Types, Requests
<1>4. CASE ProcessBlock(a[1].block)
    <2>1. Take(queue, fatalError) /\ saved' = a[1].block /\ given' = given \cup {a[1].block}
          /\ UNCHANGED <<fatalError, owner, polls>>
        BY <1>4 DEF ProcessBlock, next
    <2>2. /\ queue' \in Seq(Requests) /\ loop' \in Seq(Requests) /\ Len(loop') <= 1
          /\ \A i \in DOMAIN queue' : RequestOK(queue'[i])
          /\ \A i \in DOMAIN loop' : RequestOK(loop'[i])
          /\ Len(queue') <= Len(queue)
        BY <2>1, <1>t, Takes DEF Types, QueueOK
    <2>3. Len(queue') <= Limit
        BY <2>2, <1>t DEF QueueOK, Types
    <2>4. QueueOK'
        BY <1>1, <1>2, <2>1, <2>2, <2>3 DEF QueueOK, RequestOK, Erigon
    <2>5. PollsOK'
        BY <1>1, <2>1, <1>t DEF PollsOK, PollOK, Erigon
    <2>. QED
        BY <1>1, <1>3, <1>t, <2>1, <2>2, <2>4, <2>5 DEF Inv, Types
<1>5. CASE ProcessReorg(a[1].block)
    <2>1. /\ saved' = NoBlock /\ queue' = << >> /\ loop' = << >> /\ error(polls) /\ UNCHANGED hist
        BY <1>5 DEF ProcessReorg
    <2>2. PollsOK' /\ polls' \subseteq Polls
        BY <1>1, <2>1, ForgottenPolls
    <2>3. queue' \in Seq(Requests) /\ loop' \in Seq(Requests) /\ Len(queue') = 0 /\ Len(loop') = 0
          /\ DOMAIN queue' = {} /\ DOMAIN loop' = {} /\ saved' \in Seq(Nat)
        BY <2>1 DEF NoBlock
    <2>4. QueueOK'
        BY <1>t, <2>1, <2>3 DEF QueueOK
    <2>. QED
        BY <1>1, <1>3, <1>t, <2>1, <2>2, <2>3, <2>4 DEF Inv, Types
<1>6. CASE ProcessError
    <2>1. /\ queue' = queue /\ saved' = saved /\ loop' = << >> /\ error(polls) /\ UNCHANGED hist
        BY <1>6 DEF ProcessError
    <2>2. PollsOK' /\ polls' \subseteq Polls
        BY <1>1, <2>1, ForgottenPolls
    <2>3. loop' \in Seq(Requests) /\ Len(loop') = 0 /\ DOMAIN loop' = {}
        BY <2>1
    <2>4. QueueOK'
        BY <1>1, <1>2, <1>t, <2>1, <2>3 DEF QueueOK, RequestOK, Erigon
    <2>. QED
        BY <1>1, <1>3, <1>t, <2>1, <2>2, <2>3, <2>4 DEF Inv, Types
<1>. QED
    BY <1>1, <1>4, <1>5, <1>6

LEMMA NextInv == Inv /\ [Next]_vars => Inv'
<1> SUFFICES ASSUME Inv, [Next]_vars PROVE Inv'
    OBVIOUS
<1>. USE DEF chain, work, hist
<1>t. Types /\ PollsOK /\ QueueOK /\ StartBlock \in Nat /\ Limit \in Nat \ {0}
    BY PollingAssumption DEF Inv
<1>1. CASE Mine
    <2>1. head' \in Seq(Nat) /\ Len(head') = Len(head) + 1
        BY <1>1, <1>t DEF Mine, Types
    <2>. QED
        BY <1>1, <1>t, <2>1, ChainGrows DEF Mine, Types
<1>2. CASE Reorganise
    <2>1. head' \in Seq(Nat) /\ Len(head') = Len(head) + 1
        BY <1>2, <1>t, Reorganised
    <2>2. forks' = forks + 1 /\ UNCHANGED <<faults, scenario, polls, work, owner, hist>>
        BY <1>2 DEF Reorganise
    <2>3. forks' \in Nat
        BY <2>2, <1>t DEF Types
    <2>. QED
        BY <2>1, <2>2, <2>3, ChainGrows
<1>3. CASE OwnerStops
    <2>1. PollsOK' /\ polls' \subseteq Polls
        BY <1>3, ForgottenPolls DEF OwnerStops
    <2>2. QueueOK'
        BY <1>3, QueueKept DEF OwnerStops
    <2>. QED
        BY <1>3, <1>t, <2>1, <2>2 DEF OwnerStops, Inv, Types
<1>4. CASE subscribe
    <2>1. PICK n \in StartBlock..(Len(head) + 1) : polls' = polls \cup {Poll(TRUE, "latest", n - 1, 0)}
        BY <1>4 DEF subscribe
    <2>2. Len(head) \in Nat /\ n - 1 \in Nat
        BY <1>t, <2>1, PollingAssumption DEF Types
    <2>3. \A p \in polls : ~p.current
        BY <1>4, <1>t DEF subscribe, PollsOK, PollOK
    <2>. DEFINE new == Poll(TRUE, "latest", n - 1, 0)
    <2>4. new \in Polls /\ PollOK(new)'
        BY <1>4, <2>1, <2>2, <1>t DEF subscribe, Poll, Polls, PollOK
    <2>. HIDE DEF new
    <2>5. polls' = polls \cup {new}
        BY <2>1 DEF new
    <2>6. \A p \in polls : PollOK(p)'
        BY <1>4, <1>t, <2>3 DEF subscribe, PollsOK, PollOK, Erigon
    <2>7. PollsOK' /\ polls' \subseteq Polls
        BY <1>t, <2>3, <2>4, <2>5, <2>6 DEF PollsOK, Types
    <2>8. QueueOK'
        BY <1>4, QueueKept DEF subscribe
    <2>. QED
        BY <1>4, <1>t, <2>7, <2>8 DEF subscribe, Inv, Types
<1>5. CASE PollFails
    <2>1. PICK p \in polls : error(polls \ {p})
        BY <1>5 DEF PollFails
    <2>2. PollsOK' /\ polls' \subseteq Polls
        BY <1>5, <2>1, ForgottenPolls DEF PollFails
    <2>3. QueueOK'
        BY <1>5, QueueKept DEF PollFails
    <2>. QED
        BY <1>5, <1>t, <2>2, <2>3 DEF PollFails, Inv, Types
<1>6. CASE Latest
    <2>. DEFINE s(p) == IF Len(head) <= p.last THEN "pause" ELSE IF Erigon THEN "room" ELSE "fetch"
    <2>1. PICK p \in polls : p.step = "latest" /\ GoOn(p, s(p), p.last, Len(head))
        BY <1>6 DEF Latest
    <2>2. p \in Polls /\ PollOK(p) /\ Len(head) \in Nat
        BY <1>t DEF Types, PollsOK
    <2>3. /\ s(p) \in {"latest", "pause", "room", "fetch"} /\ p.last \in Nat
          /\ PollOK(Poll(p.current, s(p), p.last, Len(head)))
        BY <2>2, <1>t DEF Polls, Poll, PollOK
    <2>4. PollsOK' /\ polls' \subseteq Polls
        <3>. HIDE DEF s
        <3>. QED
            BY <1>6, <2>1, <2>2, <2>3, PollGoesOn DEF Latest
    <2>5. QueueOK'
        BY <1>6, QueueKept DEF Latest
    <2>. QED
        BY <1>6, <1>t, <2>4, <2>5 DEF Latest, Inv, Types
<1>7. CASE Paused
    <2>1. PICK p \in polls : p.step = "pause" /\ GoOn(p, "latest", p.last, p.latest)
        BY <1>7 DEF Paused
    <2>2. p \in Polls /\ PollOK(p)
        BY <1>t DEF Types, PollsOK
    <2>3. p.last \in Nat /\ p.latest \in Nat /\ PollOK(Poll(p.current, "latest", p.last, p.latest))
        BY <2>2 DEF Polls, Poll, PollOK
    <2>4. PollsOK' /\ polls' \subseteq Polls
        BY <1>7, <2>1, <2>3, PollGoesOn DEF Paused
    <2>5. QueueOK'
        BY <1>7, QueueKept DEF Paused
    <2>. QED
        BY <1>7, <1>t, <2>4, <2>5 DEF Paused, Inv, Types
<1>8. CASE Fetched
    <2>. DEFINE s(p) == IF p.last + 1 < p.latest THEN "fetch" ELSE "latest"
    <2>1. PICK p \in polls : /\ p.step = "fetch"
                             /\ GoOn(p, s(p), p.last + 1, p.latest)
                             /\ IF p.current THEN next(BlockAt(p.last + 1)) ELSE UNCHANGED hist
                             /\ UNCHANGED <<chain, work, owner>>
        BY <1>8 DEF Fetched
    <2>2. p \in Polls /\ PollOK(p) /\ Len(head) \in Nat
        BY <1>t DEF Types, PollsOK
    <2>3. /\ s(p) \in {"latest", "pause", "room", "fetch"} /\ p.last + 1 \in Nat /\ p.latest \in Nat
          /\ PollOK(Poll(p.current, s(p), p.last + 1, p.latest))
        BY <2>1, <2>2, <1>t DEF Polls, Poll, PollOK
    <2>4. PollsOK' /\ polls' \subseteq Polls
        <3>. HIDE DEF s
        <3>. QED
            BY <2>1, <2>3, PollGoesOn
    <2>5. QueueOK'
        BY <2>1, QueueKept
    <2>6. given' \subseteq Seq(Nat)
        <3>1. p.last + 1 \in 0..Len(head)
            BY <2>1, <2>2 DEF PollOK, Polls
        <3>2. BlockAt(p.last + 1) \in Seq(Nat)
            BY <1>t, <3>1, AncestorType DEF Types, BlockAt
        <3>. QED
            BY <1>t, <2>1, <3>2 DEF next, Types
    <2>. QED
        BY <1>t, <2>1, <2>4, <2>5, <2>6 DEF Inv, Types
<1>9. CASE Enqueue
    BY <1>9, EnqueueInv
<1>10. CASE AnswerQueued
    BY <1>10, AnswerQueuedInv
<1>11. CASE WorkerExits
    BY <1>11, WorkerExitsInv
<1>12. CASE processQueue
    BY <1>12, processQueueInv
<1>13. CASE UNCHANGED vars
    BY <1>13, <1>t, QueueKept DEF vars, Inv, Types, PollsOK, PollOK, Erigon
<1>. QED
    BY <1>1, <1>2, <1>3, <1>4, <1>5, <1>6, <1>7, <1>8, <1>9, <1>10, <1>11, <1>12, <1>13 DEF Next

(***************************************************************************)
(* The type invariant: at most one poll is the current one, and that of an *)
(* owner that wants it, whatever stale polls there are; and the queue of   *)
(* an ErigonBlockPoller is within its limit, although each of them may put *)
(* requests into it.                                                       *)
(***************************************************************************)
LEMMA InvTypeOK == Inv => TypeOK
BY DEF Inv, Types, PollsOK, PollOK, QueueOK, TypeOK, Polls

THEOREM BlockPollingTypeOK == Spec => []TypeOK
<1>. QED
    BY InitInv, NextInv, InvTypeOK, PTL DEF Spec

-----------------------------------------------------------------------------
(***************************************************************************)
(* BlockPoller: the current poll stands at the last block given.           *)
(***************************************************************************)
AtOut == ~Erigon => \A p \in polls : p.current => out = p.last

LEMMA InitAtOut == Init => AtOut
BY DEF Init, AtOut

LEMMA NextAtOut == Inv /\ AtOut /\ [Next]_vars => AtOut'
<1> SUFFICES ASSUME Inv, AtOut, [Next]_vars, ~Erigon PROVE (\A p \in polls : p.current => out = p.last)'
    BY DEF AtOut, Erigon, Next, vars, chain, Mine, Reorganise, OwnerStops, subscribe, PollFails, Latest,
           Paused, Fetched, Enqueue, AnswerQueued, WorkerExits, processQueue
<1>. USE DEF chain, work, hist
<1>t. /\ \A p \in polls : p.current => out = p.last
      /\ \A p \in polls : p \in Polls /\ PollOK(p)
      /\ \A p, q \in polls : p.current /\ q.current => p = q
      /\ loop = << >> /\ queue = << >>
    BY DEF AtOut, Inv, Types, PollsOK, QueueOK
<1>1. CASE Mine \/ Reorganise
    BY <1>1, <1>t DEF Mine, Reorganise
<1>2. CASE OwnerStops \/ PollFails
    BY <1>2 DEF OwnerStops, PollFails, error, Forgotten, Poll
<1>3. CASE subscribe
    <2>1. PICK n \in StartBlock..(Len(head) + 1) :
            polls' = polls \cup {Poll(TRUE, "latest", n - 1, 0)} /\ out' = n - 1
        BY <1>3 DEF subscribe
    <2>2. \A p \in polls : ~p.current
        BY <1>3, <1>t DEF subscribe, PollOK
    <2>. QED
        BY <2>1, <2>2 DEF Poll
<1>4. CASE Latest
    BY <1>4, <1>t DEF Latest, GoOn, Poll
<1>5. CASE Paused
    BY <1>5, <1>t DEF Paused, GoOn, Poll
<1>6. CASE Fetched
    <2>1. PICK p \in polls : /\ p.step = "fetch"
                             /\ GoOn(p, IF p.last + 1 < p.latest THEN "fetch" ELSE "latest", p.last + 1, p.latest)
                             /\ IF p.current THEN next(BlockAt(p.last + 1)) ELSE UNCHANGED hist
        BY <1>6 DEF Fetched
    <2>2. p.last + 1 \in 0..Len(head)
        BY <2>1, <1>t DEF PollOK, Polls, Inv, Types
    <2>3. Len(BlockAt(p.last + 1)) = p.last + 1
        BY <2>2, AncestorType DEF Inv, Types, BlockAt
    <2>4. CASE p.current
        <3>1. out' = p.last + 1
            BY <2>1, <2>3, <2>4 DEF next
        <3>2. \A q \in polls \ {p} : ~q.current
            BY <2>4, <1>t
        <3>. QED
            BY <2>1, <2>4, <3>1, <3>2 DEF GoOn, Poll
    <2>5. CASE ~p.current
        BY <2>1, <2>5, <1>t DEF GoOn
    <2>. QED
        BY <2>4, <2>5
<1>7. CASE Enqueue
    BY <1>7, <1>t DEF Enqueue, PollOK
<1>8. CASE AnswerQueued
    BY <1>8, <1>t DEF AnswerQueued
<1>9. CASE WorkerExits \/ processQueue
    BY <1>9, <1>t DEF WorkerExits, processQueue
<1>10. CASE UNCHANGED vars
    BY <1>10, <1>t DEF vars
<1>. QED
    BY <1>1, <1>2, <1>3, <1>4, <1>5, <1>6, <1>7, <1>8, <1>9, <1>10 DEF Next

LEMMA StepInOrder ==
    ASSUME Inv, AtOut, [Next]_vars
    PROVE  [Erigon \/ out' = out \/ out' = out + 1 \/ owner' # owner]_vars
<1> SUFFICES ASSUME Next, ~Erigon PROVE out' = out \/ out' = out + 1 \/ owner' # owner
    OBVIOUS
<1>. USE DEF chain, work, hist
<1>1. CASE Fetched
    <2>1. PICK p \in polls : /\ p.step = "fetch"
                             /\ IF p.current THEN next(BlockAt(p.last + 1)) ELSE UNCHANGED hist
        BY <1>1 DEF Fetched
    <2>2. p.last + 1 \in 0..Len(head)
        BY <2>1 DEF PollOK, PollsOK, Polls, Inv, Types
    <2>3. Len(BlockAt(p.last + 1)) = p.last + 1
        BY <2>2, AncestorType DEF Inv, Types, BlockAt
    <2>4. p.current => out = p.last
        BY DEF AtOut
    <2>. QED
        BY <2>1, <2>3, <2>4 DEF next
<1>2. CASE subscribe
    BY <1>2 DEF subscribe
<1>3. CASE processQueue \/ WorkerExits
    BY <1>3 DEF processQueue, WorkerExits, Inv, QueueOK
<1>4. CASE Mine \/ Reorganise \/ OwnerStops \/ PollFails \/ Latest \/ Paused \/ Enqueue \/ AnswerQueued
    BY <1>4 DEF Mine, Reorganise, OwnerStops, PollFails, Latest, Paused, Enqueue, AnswerQueued
<1>. QED
    BY <1>1, <1>2, <1>3, <1>4 DEF Next

(***************************************************************************)
(* Between two restarts the blocks of BlockPoller come one by one in their *)
(* order: a loop that was forgotten while it awaited a block emits none.   *)
(***************************************************************************)
THEOREM BlockPollingInOrder == Spec => InOrder
<1>. QED
    BY InitInv, NextInv, InitAtOut, NextAtOut, StepInOrder, PTL DEF Spec, InOrder

-----------------------------------------------------------------------------
(***************************************************************************)
(* The stream.                                                             *)
(***************************************************************************)
\* The hazards of the known divergences are left out: that a worker fails to
\* get the first block after a reorganisation, and that the chain reorganises
\* under BlockPoller, which compares nothing.
ParentsKnown ==
    \A c \in Scenarios : "first" \notin c.hazards /\ (c.kind = "BlockPoller" => c.forks = 0)

LEMMA InitKnown == Init => Known
BY DEF Init, Known

LEMMA NoBlockIsEmpty == \A b \in Seq(Nat) : b # NoBlock <=> Len(b) > 0
BY DEF NoBlock

\* A step that leaves the queue, and does not change where the poll stands.
LEMMA KnownKept ==
    ASSUME Inv, Known, UNCHANGED <<head, queue, loop, saved>>, given' = given,
           \A q \in polls' : q.current => \E p \in polls : p.current /\ p.last = q.last
    PROVE  Known'
BY DEF Known, Anchored, AnchoredRequest, BlockAt

\* Blocks of the chain stay where they are when it grows at its end.
LEMMA KnownMined ==
    ASSUME Inv, Known, Mine
    PROVE  Known'
<1>. USE DEF work, hist
<1>t. Types /\ StartBlock \in Nat /\ forks \in Nat /\ head \in Seq(Nat) /\ Len(head) \in Nat
    BY PollingAssumption DEF Inv, Types
<1>1. head' = Append(head, forks) /\ UNCHANGED <<polls, work, owner, hist>>
    BY DEF Mine
<1>2. ASSUME NEW n \in Nat, StartBlock <= n, n <= Len(head) + 1, Anchored(n)
      PROVE  Anchored(n)'
    <2>1. CASE n = StartBlock
        BY <2>1 DEF Anchored
    <2>2. CASE n # StartBlock
        <3>1. n - 1 \in 0..Len(head) /\ BlockAt(n - 1) \in given
            BY <1>2, <1>t, <2>2 DEF Anchored
        <3>2. Ancestor(Append(head, forks), n - 1) = Ancestor(head, n - 1)
            BY <1>t, <3>1, AncestorOfLonger
        <3>. QED
            BY <1>1, <3>1, <3>2 DEF Anchored, BlockAt
    <2>. QED
        BY <2>1, <2>2
<1>3. ASSUME saved = NoBlock, loop # << >>
      PROVE  AnchoredRequest(loop[1])'
    <2>1. loop[1] \in Requests /\ RequestOK(loop[1]) /\ AnchoredRequest(loop[1])
        BY <1>3, <1>t DEF Inv, Types, QueueOK, Known
    <2>2. loop[1].n \in Nat /\ StartBlock <= loop[1].n /\ loop[1].n <= Len(head) + 1
        BY <2>1, <1>t DEF Requests, RequestOK
    <2>3. Anchored(loop[1].n)'
        <3>1. PICK n \in Nat : n = loop[1].n
            BY <2>2
        <3>2. Anchored(n)'
            BY <1>2, <2>1, <2>2, <3>1 DEF AnchoredRequest
        <3>. QED
            BY <1>1, <3>1, <3>2 DEF Anchored
    <2>. QED
        BY <1>1, <2>1, <2>3 DEF AnchoredRequest
<1>4. ASSUME saved = NoBlock, loop = << >>, NEW p \in polls, p.current
      PROVE  Anchored(p.last + 1)'
    <2>1. p \in Polls /\ PollOK(p) /\ Anchored(p.last + 1)
        BY <1>4 DEF Inv, Types, PollsOK, Known
    <2>2. p.last + 1 \in Nat /\ StartBlock <= p.last + 1 /\ p.last + 1 <= Len(head) + 1
        BY <2>1, <1>t DEF Polls, PollOK
    <2>. QED
        BY <1>2, <2>1, <2>2
<1>. QED
    BY <1>1, <1>3, <1>4 DEF Known

LEMMA KnownReorganised ==
    ASSUME ParentsKnown, Inv, Known, Reorganise
    PROVE  Known'
<1>. USE DEF work, hist
<1>1. UNCHANGED <<polls, work, owner, hist>> /\ (given = {} \/ saved # NoBlock)
    BY DEF Reorganise
<1>2. CASE saved # NoBlock
    BY <1>1, <1>2 DEF Known
<1>3. CASE given = {}
    BY <1>1, <1>3 DEF Known, Anchored, AnchoredRequest
<1>. QED
    BY <1>1, <1>2, <1>3

LEMMA KnownSubscribed ==
    ASSUME Inv, Known, subscribe
    PROVE  Known'
<1>. USE DEF chain, work
<1>1. PICK n \in StartBlock..(Len(head) + 1) :
        /\ n = StartBlock \/ BlockAt(n - 1) \in given
        /\ polls' = polls \cup {Poll(TRUE, "latest", n - 1, 0)}
    BY DEF subscribe
<1>2. UNCHANGED <<head, queue, loop, saved, given>>
    BY DEF subscribe
<1>3. n \in Int /\ (n - 1) + 1 = n
    BY <1>1, PollingAssumption DEF Inv, Types
<1>4. \A p \in polls : ~p.current
    BY DEF subscribe, Inv, PollsOK, PollOK
<1>5. ASSUME NEW p \in polls', p.current PROVE Anchored(p.last + 1)'
    <2>1. p = Poll(TRUE, "latest", n - 1, 0)
        BY <1>1, <1>4, <1>5
    <2>2. p.last + 1 = n
        BY <1>3, <2>1 DEF Poll
    <2>. QED
        BY <1>1, <1>2, <2>2 DEF Anchored, BlockAt
<1>. QED
    BY <1>2, <1>5 DEF Known, AnchoredRequest, Anchored, BlockAt

\* BlockPoller gives the block after the one where its current poll stands.
LEMMA FetchedGives ==
    ASSUME Inv, Known, Fetched
    PROVE  /\ Known'
           /\ \/ given' = given
              \/ \E b \in Seq(Nat) : /\ given' = given \cup {b} /\ Len(b) >= StartBlock
                                     /\ Len(b) = StartBlock \/ Parent(b) \in given
<1>. USE DEF chain, work, hist
<1>t. Types /\ PollsOK /\ QueueOK /\ StartBlock \in Nat /\ head \in Seq(Nat) /\ Len(head) \in Nat
    BY PollingAssumption DEF Inv, Types
<1>1. PICK p \in polls : /\ p.step = "fetch"
                         /\ GoOn(p, IF p.last + 1 < p.latest THEN "fetch" ELSE "latest", p.last + 1, p.latest)
                         /\ IF p.current THEN next(BlockAt(p.last + 1)) ELSE UNCHANGED hist
                         /\ UNCHANGED <<chain, work, owner>>
    BY DEF Fetched
<1>2. p \in Polls /\ PollOK(p) /\ ~Erigon
    BY <1>1, <1>t DEF Types, PollsOK, PollOK
<1>3. p.last \in Nat /\ p.last + 1 \in 1..Len(head) /\ StartBlock <= p.last + 1
    BY <1>1, <1>2, <1>t DEF PollOK, Polls
<1>4. queue = << >> /\ loop = << >> /\ saved = NoBlock
    BY <1>2, <1>t DEF QueueOK
<1>. DEFINE b == BlockAt(p.last + 1)
<1>5. b \in Seq(Nat) /\ Len(b) = p.last + 1 /\ Parent(b) = BlockAt(p.last)
    <2>1. b \in Seq(Nat) /\ Len(b) = p.last + 1
        BY <1>3, <1>t, AncestorType DEF BlockAt
    <2>2. Parent(Ancestor(head, p.last + 1)) = Ancestor(head, (p.last + 1) - 1)
        BY <1>3, <1>t, ParentOfAncestor
    <2>3. (p.last + 1) - 1 = p.last
        BY <1>3
    <2>. QED
        BY <2>1, <2>2, <2>3 DEF BlockAt
<1>6. CASE p.current
    <2>1. given' = given \cup {b}
        BY <1>1, <1>6 DEF next
    <2>2. p.last + 1 = StartBlock \/ BlockAt(p.last) \in given
        BY <1>3, <1>4, <1>6 DEF Known, Anchored
    <2>3. ASSUME NEW q \in polls', q.current PROVE Anchored(q.last + 1)'
        <3>1. q.last = p.last + 1
            BY <1>1, <1>6, <1>t, <2>3 DEF GoOn, Poll, PollsOK
        <3>2. (q.last + 1) - 1 = p.last + 1
            BY <1>3, <3>1
        <3>. QED
            BY <1>1, <2>1, <3>2 DEF Anchored, BlockAt
    <2>4. Known'
        BY <1>1, <1>4, <2>3 DEF Known
    <2>. QED
        BY <1>3, <1>5, <2>1, <2>2, <2>4
<1>7. CASE ~p.current
    <2>1. polls' \subseteq polls /\ given' = given
        BY <1>1, <1>7 DEF GoOn
    <2>2. Known'
        BY <1>1, <2>1, KnownKept
    <2>. QED
        BY <2>1, <2>2
<1>. QED
    BY <1>6, <1>7

LEMMA KnownEnqueued ==
    ASSUME Inv, Known, Enqueue
    PROVE  Known'
<1>. USE DEF chain, work, hist
<1>t. Types /\ PollsOK /\ QueueOK /\ StartBlock \in Nat /\ Limit \in Nat \ {0}
    BY PollingAssumption DEF Inv
<1>. DEFINE w(p) == p.latest - p.last
            k(p) == IF w(p) < Room THEN w(p) ELSE Room
            more(p) == [i \in 1..k(p) |-> Request(p.last + i, "pending", NoBlock)]
            s(p) == IF k(p) < w(p) THEN "room" ELSE "latest"
<1>1. PICK p \in polls :
        /\ p.step = "room" /\ Len(queue) < Limit
        /\ GoOn(p, s(p), p.last + k(p), p.latest)
        /\ IF ~p.current THEN UNCHANGED <<queue, loop>>
           ELSE IF loop = << >> THEN Take(queue \o more(p), fatalError)
           ELSE queue' = queue \o more(p) /\ UNCHANGED loop
        /\ UNCHANGED <<chain, saved, fatalError, owner, hist>>
    BY DEF Enqueue
<1>2. CASE saved # NoBlock
    BY <1>1, <1>2 DEF Known
<1>3. CASE ~p.current
    <2>1. polls' \subseteq polls
        BY <1>1, <1>3 DEF GoOn
    <2>. QED
        BY <1>1, <1>3, <2>1, KnownKept
<1>4. CASE saved = NoBlock /\ p.current /\ loop # << >>
    BY <1>1, <1>4 DEF Known, AnchoredRequest, Anchored, BlockAt
<1>5. CASE saved = NoBlock /\ p.current /\ loop = << >>
    <2>1. queue = << >> /\ Anchored(p.last + 1)
        BY <1>5 DEF Known
    <2>2. p \in Polls /\ PollOK(p) /\ Len(head) \in Nat
        BY <1>t DEF Types, PollsOK
    <2>3. w(p) \in Nat \ {0} /\ Room \in Nat \ {0} /\ ~fatalError
        BY <1>1, <1>5, <1>t, <2>1, <2>2 DEF Room, PollOK, Polls
    <2>4. k(p) \in Nat \ {0}
        BY <2>3
    <2>. DEFINE r == more(p)
    <2>5. Len(r) = k(p) /\ r[1] = Request(p.last + 1, "pending", NoBlock) /\ r \in Seq({r[i] : i \in 1..k(p)})
        BY <2>4
    <2>6. queue \o r = r /\ r # << >>
        <3>. HIDE DEF r, k
        <3>. QED
            BY <2>1, <2>4, <2>5
    <2>7. loop' = <<Request(p.last + 1, "pending", NoBlock)>>
        <3>1. Take(queue \o r, fatalError)
            BY <1>1, <1>5
        <3>. HIDE DEF r
        <3>. QED
            BY <2>3, <2>5, <2>6, <3>1 DEF Take
    <2>8. AnchoredRequest(Request(p.last + 1, "pending", NoBlock))
        BY <2>1 DEF AnchoredRequest, Request
    <2>9. loop' # << >> /\ AnchoredRequest(loop'[1])
        BY <2>7, <2>8
    <2>. QED
        BY <1>1, <1>5, <2>9 DEF Known, AnchoredRequest, Anchored, BlockAt
<1>. QED
    BY <1>2, <1>3, <1>4, <1>5

LEMMA KnownAnswered ==
    ASSUME ParentsKnown, Inv, Known, AnswerQueued
    PROVE  Known'
<1>1. /\ UNCHANGED <<head, polls, loop, saved, given>> /\ queue # << >>
    BY DEF AnswerQueued, Inv, Types, hist
<1>. QED
    BY <1>1 DEF Known, AnchoredRequest, Anchored, BlockAt

\* Where the parent of the first block is unknown, no worker fails.
LEMMA FirstAnswers ==
    ASSUME ParentsKnown, Inv, saved = NoBlock
    PROVE  /\ ~mayFail("first")
           /\ ~WorkerExits
           /\ \A r : r.state # "failed" => \A a \in Answers(r) :
                a = <<r, 0>> \/ (r.state = "pending" /\ a[1] = Request(r.n, "done", BlockAt(r.n)))
<1>1. scenario \in Scenarios
    BY DEF Inv, Types
<1>2. ~mayFail("first")
    BY <1>1 DEF ParentsKnown, mayFail
<1>. QED
    BY <1>2 DEF WorkerExits, Answers

LEMMA KnownExits ==
    ASSUME ParentsKnown, Inv, Known, WorkerExits
    PROVE  Known'
<1>1. saved # NoBlock
    BY FirstAnswers
<1>2. UNCHANGED <<saved, given>>
    BY DEF WorkerExits, hist
<1>. QED
    BY <1>1, <1>2 DEF Known

\* processQueue gives the block that it awaited, or none.
LEMMA ProcessGives ==
    ASSUME ParentsKnown, Inv, Known, processQueue
    PROVE  /\ Known'
           /\ \/ given' = given
              \/ \E b \in Seq(Nat) : /\ given' = given \cup {b} /\ Len(b) >= StartBlock
                                     /\ Len(b) = StartBlock \/ Parent(b) \in given
<1>. USE DEF hist
<1>t. Types /\ PollsOK /\ QueueOK /\ StartBlock \in Nat \ {0} /\ head \in Seq(Nat) /\ Len(head) \in Nat
    BY PollingAssumption DEF Inv, Types
<1>1. PICK a \in Answers(loop[1]) :
             /\ a[1] \in Requests /\ RequestOK(a[1]) /\ a[1].n = loop[1].n
             /\ faults' = faults + a[2] /\ a[2] \in Nat
             /\ UNCHANGED <<head, forks, scenario>>
             /\ \/ a[1].state = "done" /\ ProcessBlock(a[1].block)
                \/ a[1].state = "done" /\ ProcessReorg(a[1].block)
                \/ a[1].state = "failed" /\ ProcessError
    BY ProcessAnswer
<1>2. loop # << >> /\ loop[1] \in Requests /\ RequestOK(loop[1])
    BY <1>t DEF processQueue, Types, QueueOK
<1>3. CASE a[1].state = "done" /\ ProcessBlock(a[1].block)
    <2>. DEFINE b == a[1].block
    <2>1. b \in Seq(Nat) /\ Len(b) = a[1].n /\ a[1].n \in Nat /\ StartBlock <= a[1].n
        BY <1>1, <1>3 DEF Requests, RequestOK
    <2>2. b # NoBlock
        BY <1>t, <2>1, NoBlockIsEmpty
    <2>3. saved' = b /\ given' = given \cup {b} /\ ~isReOrged(b)
        BY <1>3 DEF ProcessBlock, next
    <2>4. Known'
        BY <2>2, <2>3, <1>t DEF Known, NoBlock
    <2>5. Len(b) = StartBlock \/ Parent(b) \in given
        <3>1. CASE saved # NoBlock
            BY <2>3, <3>1 DEF isReOrged, Known
        <3>2. CASE saved = NoBlock
            <4>1. AnchoredRequest(loop[1])
                BY <1>2, <3>2 DEF Known
            <4>2. CASE a = <<loop[1], 0>>
                BY <1>3, <2>1, <4>1, <4>2 DEF AnchoredRequest
            <4>3. CASE a[1] = Request(loop[1].n, "done", BlockAt(loop[1].n))
                <5>1. b = BlockAt(loop[1].n) /\ loop[1].n \in 1..Len(head)
                    BY <1>2, <1>t, <4>3 DEF Request, Requests, RequestOK
                <5>2. Parent(b) = BlockAt(loop[1].n - 1)
                    BY <1>t, <5>1, ParentOfAncestor DEF BlockAt
                <5>. QED
                    BY <1>1, <2>1, <4>1, <5>2 DEF AnchoredRequest, Anchored
            <4>. QED
                BY <3>2, <4>1, <4>2, <4>3, FirstAnswers DEF AnchoredRequest
        <3>. QED
            BY <3>1, <3>2
    <2>. QED
        BY <1>t, <2>1, <2>3, <2>4, <2>5
<1>4. CASE ProcessReorg(a[1].block)
    <2>1. saved' = NoBlock /\ loop' = << >> /\ queue' = << >> /\ given' = given /\ error(polls)
        BY <1>4 DEF ProcessReorg
    <2>2. \A p \in polls' : ~p.current
        BY <2>1 DEF error, Forgotten, Poll
    <2>. QED
        BY <2>1, <2>2 DEF Known
<1>5. CASE a[1].state = "failed" /\ ProcessError
    <2>1. saved' = saved /\ given' = given
        BY <1>5 DEF ProcessError
    <2>2. saved # NoBlock
        <3> SUFFICES ASSUME saved = NoBlock PROVE FALSE
            OBVIOUS
        <3>1. loop[1].state # "failed"
            BY <1>2 DEF Known, AnchoredRequest
        <3>. QED
            <4>1. \/ a = <<loop[1], 0>>
                  \/ a[1] = Request(loop[1].n, "done", BlockAt(loop[1].n))
                BY <3>1, FirstAnswers
            <4>2. a[1].state # "failed"
                BY <3>1, <4>1 DEF Request
            <4>. QED
                BY <1>5, <4>2
    <2>. QED
        BY <2>1, <2>2 DEF Known
<1>. QED
    BY <1>1, <1>3, <1>4, <1>5

LEMMA Gives ==
    ASSUME NEW b \in Seq(Nat), given' = given \cup {b}, Len(b) >= StartBlock,
           Len(b) = StartBlock \/ Parent(b) \in given
    PROVE  Stream!Next
<1>1. Stream!Parent(b) = Parent(b)
    BY DEF Stream!Parent, Parent, Ancestor
<1>. QED
    BY <1>1 DEF Stream!Next, Stream!Give

LEMMA NextStream ==
    ASSUME ParentsKnown, Inv, Known, [Next]_vars
    PROVE  Known' /\ [Stream!Next]_given
<1>. USE DEF chain, work, hist
<1>1. CASE Mine
    BY <1>1, KnownMined DEF Mine
<1>2. CASE Reorganise
    BY <1>2, KnownReorganised DEF Reorganise
<1>3. CASE OwnerStops
    <2>1. \A q \in polls' : ~q.current
        BY <1>3 DEF OwnerStops, error, Forgotten, Poll
    <2>. QED
        BY <1>3, <2>1, KnownKept DEF OwnerStops
<1>4. CASE subscribe
    BY <1>4, KnownSubscribed DEF subscribe
<1>5. CASE PollFails
    <2>1. \A q \in polls' : ~q.current
        BY <1>5 DEF PollFails, error, Forgotten, Poll
    <2>. QED
        BY <1>5, <2>1, KnownKept DEF PollFails
<1>6. CASE Latest
    <2>1. \A q \in polls' : q.current => \E p \in polls : p.current /\ p.last = q.last
        BY <1>6 DEF Latest, GoOn, Poll
    <2>. QED
        BY <1>6, <2>1, KnownKept DEF Latest
<1>7. CASE Paused
    <2>1. \A q \in polls' : q.current => \E p \in polls : p.current /\ p.last = q.last
        BY <1>7 DEF Paused, GoOn, Poll
    <2>. QED
        BY <1>7, <2>1, KnownKept DEF Paused
<1>8. CASE Fetched
    BY <1>8, FetchedGives, Gives
<1>9. CASE Enqueue
    BY <1>9, KnownEnqueued DEF Enqueue
<1>10. CASE AnswerQueued
    BY <1>10, KnownAnswered DEF AnswerQueued
<1>11. CASE WorkerExits
    BY <1>11, KnownExits DEF WorkerExits
<1>12. CASE processQueue
    BY <1>12, ProcessGives, Gives
<1>13. CASE UNCHANGED vars
    BY <1>13, KnownKept DEF vars
<1>. QED
    BY <1>1, <1>2, <1>3, <1>4, <1>5, <1>6, <1>7, <1>8, <1>9, <1>10, <1>11, <1>12, <1>13 DEF Next

LEMMA InitStream == Init => Stream!Init
BY DEF Init, Stream!Init

(***************************************************************************)
(* Both pollers implement BlockStream: a block is given only after its     *)
(* parent, over reorganisations, failures of the node and of workers,      *)
(* restarts of the subscription and all that its stale loops still emit,   *)
(* but for the two known divergences.                                      *)
(***************************************************************************)
THEOREM BlockPollingIsStream ==
    ASSUME ParentsKnown
    PROVE  Spec => IsStream
<1>1. ParentsKnown
    OBVIOUS
<1>2. Inv /\ Known /\ [Next]_vars => Inv' /\ Known' /\ [Stream!Next]_given
    BY <1>1, NextInv, NextStream
<1>. QED
    BY <1>2, InitInv, InitKnown, InitStream, PTL DEF Spec, IsStream, Stream!Spec
=============================================================================
