-------------------------- MODULE BlockGetterProofs --------------------------
(***************************************************************************)
(* What a worker gives, for every number of transactions and branches and  *)
(* every maxRetries: the whole block, each transaction with its receipt,   *)
(* those receipts from the branch of the block.  The invariant follows an  *)
(* attempt from its first answer to the block it puts together.            *)
(***************************************************************************)
EXTENDS BlockGetter, SequenceTheorems, TLAPS

InProgress == state \in {"block", "receipts", "receiptsAgain", "transactions"}
Assembled == state \in {"transactions", "given"}

Transaction ==
    [hash : Hashes, receipt : ReceiptType, transactionIndex : [as : {"unsigned"}, n : Nat],
     maxFeePerGas : {Absent} \cup [as : {"hex"}, n : Nat]]

\* A receipt as a worker gives it, of the transaction h.
IsReceiptOf(r, h) ==
    /\ r.transactionHash = h
    /\ Reads(r.effectiveGasPrice) = optional
    /\ (r.status = TRUE) <=> (optional = Quantity("number", 1))

\* The i-th transaction of the branch f as a worker gives it.
IsTransactionAt(t, f, i) ==
    /\ t.hash = Blocks[f][i]
    /\ Reads(t.transactionIndex) = Quantity("number", i - 1)
    /\ Reads(t.maxFeePerGas) = optional
    /\ IsReceiptOf(t.receipt, t.hash)

Types ==
    /\ TypeOK
    /\ scenario \in Scenarios /\ optional \in Optionals
    /\ transactions \in Seq(Transaction)

\* An attempt starts with nothing.
Fresh ==
    /\ state = "block" => block = NoBlock
    /\ state \in {"block", "receipts", "receiptsAgain"} => receipts = Absent /\ transactions = <<>>
    /\ InProgress /\ block = NoBlock => transactions = <<>>
    /\ state = "given" => block # NoBlock

\* As long as strayed is not set, the node holds the branch of the block.
NotStrayed == InProgress /\ block # NoBlock => strayed \/ view["eth"] = block

\* The receipts that came together are as one branch has them.
ReceiptsSent ==
    state = "transactions" /\ receipts # Absent =>
        \A i \in DOMAIN receipts :
            \E g \in Branches : \E h \in HashesOf(g) :
                receipts[i] = RawReceipt(g, h) /\ (block = NoBlock \/ strayed \/ g = block)

OwnSoFar ==
    Assembled => \A i \in DOMAIN transactions : strayed \/ transactions[i].receipt.fork = block

CompleteSoFar ==
    Assembled /\ block # NoBlock =>
        /\ Len(transactions) <= Len(Blocks[block])
        /\ \A i \in DOMAIN transactions : IsTransactionAt(transactions[i], block, i)

AnswerIsWhole ==
    state = "given" =>
        /\ answer = formatBlockWithTransactions(block, transactions)
        /\ Len(transactions) = Len(Blocks[block])

IInv ==
    /\ Types /\ Fresh /\ NotStrayed /\ ReceiptsSent /\ OwnSoFar /\ CompleteSoFar
    /\ AnswerIsWhole

-----------------------------------------------------------------------------
(***************************************************************************)
(* What formatting makes of a receipt and a transaction.                   *)
(***************************************************************************)
LEMMA Chain ==
    /\ Branches = DOMAIN Blocks
    /\ \A f \in Branches : Blocks[f] \in Seq(Hashes) /\ f # NoBlock
    /\ \A f \in Branches : HashesOf(f) \subseteq Hashes
<1>1. Blocks \in Seq(Seq(Hashes))
    BY GetterAssumption
<1>2. Branches = DOMAIN Blocks /\ \A f \in Branches : Blocks[f] \in Seq(Hashes)
    BY <1>1, LenProperties, ElementOfSeq DEF Branches
<1>3. \A f \in Branches : \A i \in DOMAIN Blocks[f] : Blocks[f][i] \in Hashes
    BY <1>2, LenProperties, ElementOfSeq
<1>. QED
    BY <1>1, <1>2, <1>3, LenProperties DEF HashesOf, NoBlock, Branches

LEMMA IndexIsPlace ==
    ASSUME NEW f \in Branches, NEW i \in DOMAIN Blocks[f]
    PROVE  Index(f, Blocks[f][i]) = i - 1
<1>. DEFINE P(j) == j \in DOMAIN Blocks[f] /\ Blocks[f][j] = Blocks[f][i]
<1>1. \A j : P(j) => j = i
    BY Chain, GetterAssumption
<1>2. (CHOOSE j \in DOMAIN Blocks[f] : Blocks[f][j] = Blocks[f][i]) = i
    BY <1>1
<1>. QED
    BY <1>2 DEF Index

LEMMA IndexIsNat ==
    ASSUME NEW f \in Branches, NEW h \in HashesOf(f)
    PROVE  Index(f, h) \in Nat
<1>1. PICK i \in DOMAIN Blocks[f] : Blocks[f][i] = h
    BY DEF HashesOf
<1>2. Index(f, h) = i - 1
    BY <1>1, IndexIsPlace
<1>3. i \in Nat \ {0}
    BY Chain, LenProperties
<1>. QED
    BY <1>2, <1>3

LEMMA QuantityIsGiven ==
    ASSUME NEW n \in Nat, NEW as \in {"number", "hex", "unsigned"}
    PROVE  /\ Quantity(as, n) # Absent
           /\ AsKind(as, Quantity(as, n)) = Quantity(as, n)
           /\ isGiven(Quantity(as, n))
<1>1. Quantity(as, n) \in [as : {"number", "hex", "unsigned"}, n : Nat]
    BY DEF Quantity
<1>2. Quantity(as, n) # Absent
    BY <1>1, GetterAssumption
<1>. QED
    BY <1>2 DEF Quantity, AsKind, isGiven, Truthy

LEMMA AbsentIsLeftOut ==
    /\ Absent # TRUE /\ ~isGiven(Absent)
    /\ \A as : AsKind(as, Absent) = Absent
<1>1. Absent # TRUE
    BY GetterAssumption
<1>2. Quantity("number", 0) # Absent
    BY QuantityIsGiven
<1>. QED
    BY <1>1, <1>2 DEF isGiven, Truthy, AsKind

\* An optional quantity reads the same after it was sent and formatted.
LEMMA OptionalReads ==
    ASSUME optional \in Optionals
    PROVE  /\ Reads(optionalHex(optional)) = optional
           /\ Reads(optionalHex(toHex(optional))) = optional
           /\ Reads(optionalHex(AsKind("number", toHex(optional)))) = optional
           /\ {optionalHex(optional), optionalHex(toHex(optional)),
               optionalHex(AsKind("number", toHex(optional)))}
                  \subseteq {Absent} \cup [as : {"hex"}, n : Nat]
<1>1. CASE optional = Absent
    BY <1>1, AbsentIsLeftOut DEF Reads, optionalHex, toHex
<1>2. CASE \E n \in 0..1 : optional = Quantity("number", n)
    <2>1. PICK n \in 0..1 : optional = Quantity("number", n)
        BY <1>2
    <2>2. n \in Nat
        BY <2>1
    <2>3. \A as \in {"number", "hex"} : Quantity(as, n) # Absent /\ isGiven(Quantity(as, n))
        BY <2>2, QuantityIsGiven
    <2>4. \A as, b \in {"number", "hex"} : AsKind(b, Quantity(as, n)) = Quantity(b, n)
        BY <2>3 DEF AsKind, Quantity
    <2>5. \A as \in {"number", "hex"} : optionalHex(Quantity(as, n)) = Quantity("hex", n)
        BY <2>3, <2>4 DEF optionalHex, toHex
    <2>6. Reads(Quantity("hex", n)) = Quantity("number", n)
        BY <2>3 DEF Reads, Quantity
    <2>7. Quantity("hex", n) \in [as : {"hex"}, n : Nat]
        BY <2>2 DEF Quantity
    <2>8. toHex(optional) = Quantity("hex", n) /\ AsKind("number", Quantity("hex", n)) = optional
        BY <2>1, <2>4 DEF toHex
    <2>. QED
        BY <2>1, <2>5, <2>6, <2>7, <2>8
<1>. QED
    BY <1>1, <1>2 DEF Optionals

\* A node reports success as one, however the receipt is fetched.
LEMMA StatusReads ==
    ASSUME optional \in Optionals
    PROVE  LET v == toHex(optional) IN
           /\ (v # Absent /\ v.n # 0) <=> (optional = Quantity("number", 1))
           /\ (v # Absent /\ v.n # 0) \in BOOLEAN
<1>1. CASE optional = Absent
    <2>1. Quantity("number", 1) # Absent
        BY QuantityIsGiven
    <2>. QED
        BY <1>1, <2>1, AbsentIsLeftOut DEF toHex
<1>2. CASE \E n \in 0..1 : optional = Quantity("number", n)
    <2>1. PICK n \in 0..1 : optional = Quantity("number", n)
        BY <1>2
    <2>2. Quantity("number", n) # Absent /\ Quantity("hex", n) # Absent
        BY QuantityIsGiven
    <2>3. toHex(optional) = Quantity("hex", n)
        BY <2>1, <2>2 DEF toHex, AsKind, Quantity
    <2>4. Quantity("hex", n).n = n /\ (Quantity("number", n) = Quantity("number", 1) <=> n = 1)
        BY DEF Quantity
    <2>. QED
        BY <2>1, <2>2, <2>3, <2>4
<1>. QED
    BY <1>1, <1>2 DEF Optionals

\* A receipt that came with others.
LEMMA FormattedRaw ==
    ASSUME optional \in Optionals, NEW g \in Branches, NEW h \in HashesOf(g)
    PROVE  LET r == formatRawReceipt(RawReceipt(g, h)) IN
           r \in ReceiptType /\ IsReceiptOf(r, h) /\ r.fork = g
<1>. DEFINE v == toHex(optional)
            r == formatRawReceipt(RawReceipt(g, h))
<1>1. Index(g, h) \in Nat /\ h \in Hashes
    BY IndexIsNat, Chain
<1>2. fromValue(AsKind("number", Quantity("hex", Index(g, h)))) = Quantity("unsigned", Index(g, h))
    BY <1>1, QuantityIsGiven DEF fromValue, AsKind, Quantity
<1>3. r = [transactionHash |-> h, fork |-> g,
           transactionIndex |-> Quantity("unsigned", Index(g, h)),
           status |-> v # Absent /\ v.n # 0, effectiveGasPrice |-> optionalHex(v)]
    BY <1>2 DEF formatRawReceipt, formatTransactionReceipt, RawReceipt, Receipt
<1>4. v # Absent /\ v.n # 0 <=> optional = Quantity("number", 1)
    BY StatusReads
<1>5. (v # Absent /\ v.n # 0) \in BOOLEAN
    BY StatusReads
<1>6. Reads(optionalHex(v)) = optional /\ optionalHex(v) \in {Absent} \cup [as : {"hex"}, n : Nat]
    BY OptionalReads
<1>7. Quantity("unsigned", Index(g, h)) \in [as : {"unsigned"}, n : Nat]
    BY <1>1 DEF Quantity
<1>. HIDE DEF v, r
<1>8. r \in ReceiptType
    BY <1>1, <1>3, <1>5, <1>6, <1>7 DEF ReceiptType
<1>9. r.transactionHash = h /\ r.effectiveGasPrice = optionalHex(v) /\ r.fork = g
    BY <1>3
<1>10. (r.status = TRUE) <=> (optional = Quantity("number", 1))
    BY <1>3, <1>4, <1>5
<1>. QED
    BY <1>6, <1>8, <1>9, <1>10 DEF IsReceiptOf, r

\* A receipt that was fetched by its hash.
LEMMA FormattedSingle ==
    ASSUME optional \in Optionals, NEW g \in Branches, NEW h \in HashesOf(g)
    PROVE  LET r == formatTransactionReceipt(outputReceipt(RawReceipt(g, h))) IN
           r \in ReceiptType /\ IsReceiptOf(r, h) /\ r.fork = g
<1>. DEFINE v == toHex(optional)
            fees == optionalHex(AsKind("number", v))
            status == IF v = Absent THEN Absent ELSE v.n # 0
            r == formatTransactionReceipt(outputReceipt(RawReceipt(g, h)))
<1>1. Index(g, h) \in Nat /\ h \in Hashes
    BY IndexIsNat, Chain
<1>2. fromValue(AsKind("number", Quantity("hex", Index(g, h)))) = Quantity("unsigned", Index(g, h))
    BY <1>1, QuantityIsGiven DEF fromValue, AsKind, Quantity
<1>3. r = [transactionHash |-> h, fork |-> g,
           transactionIndex |-> Quantity("unsigned", Index(g, h)),
           status |-> status, effectiveGasPrice |-> fees]
    BY <1>2 DEF formatTransactionReceipt, outputReceipt, RawReceipt, Receipt
<1>4. v # Absent /\ v.n # 0 <=> optional = Quantity("number", 1)
    BY StatusReads
<1>5. (status = TRUE) <=> (optional = Quantity("number", 1))
    <2>. HIDE DEF v
    <2>1. CASE v = Absent
        BY <1>4, <2>1, AbsentIsLeftOut
    <2>2. CASE v # Absent
        BY <1>4, <2>2
    <2>. QED
        BY <2>1, <2>2
<1>6. status \in BOOLEAN \cup {Absent}
    <2>. HIDE DEF v
    <2>. QED
        OBVIOUS
<1>7. Reads(fees) = optional /\ fees \in {Absent} \cup [as : {"hex"}, n : Nat]
    BY OptionalReads
<1>8. Quantity("unsigned", Index(g, h)) \in [as : {"unsigned"}, n : Nat]
    BY <1>1 DEF Quantity
<1>. HIDE DEF fees, status
<1>9. r \in ReceiptType
    BY <1>1, <1>3, <1>6, <1>7, <1>8 DEF ReceiptType
<1>10. IsReceiptOf(r, h) /\ r.fork = g
    BY <1>3, <1>5, <1>7 DEF IsReceiptOf
<1>. QED
    BY <1>9, <1>10

\* A transaction, with a receipt of it.
LEMMA FormattedTransaction ==
    ASSUME optional \in Optionals, NEW f \in Branches, NEW i \in DOMAIN Blocks[f],
           NEW r \in ReceiptType, IsReceiptOf(r, Blocks[f][i])
    PROVE  LET t == formatTransactionObject(outputTransaction(f, Blocks[f][i]), r) IN
           t \in Transaction /\ IsTransactionAt(t, f, i) /\ t.receipt = r
<1>. DEFINE h == Blocks[f][i]
            place == optionalLong(Quantity("number", Index(f, h)))
            fees == optionalHex(optional)
            t == formatTransactionObject(outputTransaction(f, h), r)
<1>1. Index(f, h) = i - 1 /\ Index(f, h) \in Nat /\ h \in Hashes
    BY IndexIsPlace, IndexIsNat, Chain DEF HashesOf
<1>2. place = Quantity("unsigned", Index(f, h))
    BY <1>1, QuantityIsGiven DEF optionalLong, fromValue, AsKind, Quantity
<1>3. Reads(place) = Quantity("number", i - 1)
    <2>1. place # Absent
        BY <1>1, <1>2, QuantityIsGiven
    <2>2. place.n = i - 1
        BY <1>1, <1>2 DEF Quantity
    <2>. QED
        BY <2>1, <2>2 DEF Reads
<1>4. place \in [as : {"unsigned"}, n : Nat]
    BY <1>1, <1>2 DEF Quantity
<1>5. t = [hash |-> h, receipt |-> r, transactionIndex |-> place, maxFeePerGas |-> fees]
    BY DEF formatTransactionObject, outputTransaction
<1>6. Reads(fees) = optional /\ fees \in {Absent} \cup [as : {"hex"}, n : Nat]
    BY OptionalReads
<1>. HIDE DEF place, fees, h
<1>7. t \in Transaction
    BY <1>1, <1>4, <1>5, <1>6 DEF Transaction
<1>8. t.receipt = r /\ t.hash = h /\ t.transactionIndex = place /\ t.maxFeePerGas = fees
    BY <1>5
<1>9. IsTransactionAt(t, f, i)
    BY <1>3, <1>6, <1>8 DEF IsTransactionAt, h
<1>. QED
    BY <1>7, <1>8, <1>9 DEF h

-----------------------------------------------------------------------------
(***************************************************************************)
(* The invariant.                                                          *)
(***************************************************************************)
LEMMA InitIInv == Init => IInv
<1> SUFFICES ASSUME Init PROVE IInv
    OBVIOUS
<1>1. <<>> \in Seq(Transaction) /\ DOMAIN <<>> = {}
    OBVIOUS
<1>2. 0 \in 0..(MaxRetries + 1) /\ 0 \in 0..MaxRetries
    BY GetterAssumption
<1>3. TypeOK
    BY <1>1, <1>2 DEF Init, TypeOK
<1>. QED
    BY <1>1, <1>3 DEF Init, IInv, Types, Fresh, NotStrayed, ReceiptsSent, OwnSoFar,
                      CompleteSoFar, AnswerIsWhole, InProgress, Assembled

Bound == IF Under("block") THEN MaxRetries + 1 ELSE MaxRetries

LEMMA StartIInv ==
    ASSUME IInv, NEW n \in 0..Bound, Start(n)
    PROVE  IInv'
<1>1. /\ state' = "block" /\ errorCount' = n /\ receiptErrors' = 0 /\ strayed' = FALSE
      /\ block' = NoBlock /\ receipts' = Absent /\ transactions' = <<>>
      /\ scenario' = scenario /\ optional' = optional /\ view' = view
    BY DEF Start, environment
<1>2. <<>> \in Seq(Transaction) /\ DOMAIN <<>> = {}
    OBVIOUS
<1>3. 0 \in 0..(MaxRetries + 1)
    BY GetterAssumption
<1>4. errorCount' \in 0..(IF Under("block") THEN MaxRetries + 1 ELSE MaxRetries)'
    BY <1>1 DEF Bound, Under
<1>5. TypeOK'
    BY <1>1, <1>2, <1>3, <1>4 DEF IInv, Types, TypeOK
<1>6. Types'
    BY <1>1, <1>2, <1>5 DEF IInv, Types
<1>. QED
    BY <1>1, <1>2, <1>6 DEF IInv, Fresh, NotStrayed, ReceiptsSent, OwnSoFar,
                            CompleteSoFar, AnswerIsWhole, InProgress, Assembled

LEMMA ThrowIInv ==
    ASSUME IInv, Throw
    PROVE  IInv'
<1>1. /\ state' = "thrown" /\ UNCHANGED <<errorCount, receiptErrors, strayed, block, receipts>>
      /\ UNCHANGED <<transactions, scenario, optional, view>>
    BY DEF Throw, environment, fetched
<1>2. Types'
    BY <1>1 DEF IInv, Types, TypeOK, Under, ReceiptType
<1>. QED
    BY <1>1, <1>2 DEF IInv, Fresh, NotStrayed, ReceiptsSent, OwnSoFar,
                      CompleteSoFar, AnswerIsWhole, InProgress, Assembled

LEMMA RetryIInv ==
    ASSUME IInv, Retry
    PROVE  IInv'
<1>1. CASE Exhausted(errorCount)
    BY <1>1, ThrowIInv DEF Retry
<1>2. CASE ~Exhausted(errorCount)
    <2>1. Start(errorCount + 1)
        BY <1>2 DEF Retry
    <2>2. errorCount \in 0..Bound
        BY DEF IInv, Types, TypeOK, Bound
    <2>3. errorCount + 1 \in 0..Bound
        BY <1>2, <2>2, GetterAssumption DEF Exhausted, Bound
    <2>. QED
        BY <2>1, <2>3, StartIInv
<1>. QED
    BY <1>1, <1>2

LEMMA RetryUnlessForeignIInv ==
    ASSUME IInv, RetryUnlessForeign
    PROVE  IInv'
BY RetryIInv, ThrowIInv DEF RetryUnlessForeign

\* A step that only goes on to another call, or fetches the block.
LEMMA FetchIInv ==
    ASSUME IInv, state' \in {"receipts", "receiptsAgain", "transactions"},
           transactions = <<>>, block' \in Branches \cup {NoBlock},
           strayed' \in BOOLEAN, block' # NoBlock => strayed' \/ view["eth"] = block',
           state' # "transactions" => receipts' = Absent,
           ReceiptsSent',
           UNCHANGED <<environment, errorCount, receiptErrors, transactions, answer>>
    PROVE  IInv'
<1>1. transactions' = <<>> /\ DOMAIN transactions' = {} /\ Len(transactions') = 0
    OBVIOUS
<1>2. Types'
    BY <1>1 DEF IInv, Types, TypeOK, Under, environment
<1>3. block' # NoBlock => 0 <= Len(Blocks[block'])
    BY Chain, LenProperties
<1>. QED
    BY <1>1, <1>2, <1>3 DEF IInv, Fresh, NotStrayed, OwnSoFar, CompleteSoFar, AnswerIsWhole,
                            InProgress, Assembled, environment

LEMMA SentIInv ==
    ASSUME NEW g \in Branches, NEW rs \in Receipts(g)
    PROVE  \A i \in DOMAIN rs : \E h \in HashesOf(g) : rs[i] = RawReceipt(g, h)
BY DEF Receipts

LEMMA PushIInv ==
    ASSUME IInv, state = "transactions", More, NEW r \in ReceiptType, IsReceiptOf(r, Hash),
           strayed \/ r.fork = block, Push(r)
    PROVE  IInv'
<1>. DEFINE n == Len(transactions)
            t == formatTransactionObject(outputTransaction(block, Hash), r)
<1>1. /\ transactions' = Append(transactions, t) /\ receiptErrors' = 0
      /\ UNCHANGED <<scenario, optional, view, state, errorCount, block, receipts, strayed>>
    BY DEF Push, environment, fetched
<1>2. block \in Branches /\ Blocks[block] \in Seq(Hashes) /\ n < Len(Blocks[block])
    BY Chain DEF IInv, Types, TypeOK, More
<1>3. transactions \in Seq(Transaction) /\ n \in Nat
    BY LenProperties DEF IInv, Types
<1>4. n + 1 \in DOMAIN Blocks[block]
    BY <1>2, <1>3, LenProperties
<1>5. optional \in Optionals
    BY DEF IInv, Types
<1>6. t \in Transaction /\ IsTransactionAt(t, block, n + 1) /\ t.receipt = r
    BY <1>2, <1>4, <1>5, FormattedTransaction DEF Hash
<1>. HIDE DEF t
<1>7. /\ transactions' \in Seq(Transaction) /\ Len(transactions') = n + 1
      /\ \A i \in 1..n : transactions'[i] = transactions[i]
      /\ transactions'[n + 1] = t
      /\ DOMAIN transactions' = 1..(n + 1) /\ DOMAIN transactions = 1..n
    BY <1>1, <1>3, <1>6, AppendProperties, LenProperties
<1>8. \A i \in DOMAIN transactions' : transactions'[i] \in Transaction
    BY <1>7, ElementOfSeq
<1>9. \A i \in DOMAIN transactions' : transactions'[i].receipt \in ReceiptType
    BY <1>8 DEF Transaction
<1>10. TypeOK'
    BY <1>1, <1>9, GetterAssumption DEF IInv, Types, TypeOK, Under, ReceiptType
<1>11. Types'
    BY <1>1, <1>7, <1>10 DEF IInv, Types
<1>12. OwnSoFar'
    BY <1>1, <1>3, <1>6, <1>7 DEF IInv, OwnSoFar, Assembled
<1>13. CompleteSoFar'
    <2>1. \A i \in 1..n : IsTransactionAt(transactions[i], block, i)
        BY <1>2, <1>7, Chain DEF IInv, CompleteSoFar, Assembled
    <2>2. \A i \in 1..(n + 1) : IsTransactionAt(transactions'[i], block, i)
        BY <1>3, <1>6, <1>7, <2>1
    <2>3. \A i \in 1..(n + 1) : IsTransactionAt(transactions[i], block, i)'
        BY <1>1, <2>2 DEF IsTransactionAt, IsReceiptOf, Reads
    <2>. QED
        BY <1>1, <1>2, <1>3, <1>7, <2>3, LenProperties DEF CompleteSoFar
<1>. QED
    BY <1>1, <1>2, <1>11, <1>12, <1>13, Chain
       DEF IInv, Fresh, NotStrayed, ReceiptsSent, AnswerIsWhole, InProgress, RawReceipt

LEMMA NextIInv == IInv /\ [Next]_vars => IInv'
<1> SUFFICES ASSUME IInv, [Next]_vars PROVE IInv'
    OBVIOUS
<1>. DEFINE Kept == UNCHANGED <<errorCount, receiptErrors, block, receipts, transactions>>
<1>0. /\ optional \in Optionals /\ view \in [{"eth", "alternate"} -> Branches \cup {NoBlock}]
      /\ strayed \in BOOLEAN /\ block \in Branches \cup {NoBlock}
    BY DEF IInv, Types, TypeOK
<1>1. CASE Message
    <2>1. 0 \in 0..Bound
        BY GetterAssumption DEF Bound
    <2>. QED
        BY <1>1, <2>1, StartIInv DEF Message
<1>2. CASE Reply
    <2>1. state' = "idle" /\ Kept /\ UNCHANGED <<scenario, optional, view, strayed>>
        BY <1>2 DEF Reply, environment, fetched
    <2>2. Types'
        BY <2>1 DEF IInv, Types, TypeOK, Under, ReceiptType
    <2>. QED
        BY <2>1, <2>2 DEF IInv, Fresh, NotStrayed, ReceiptsSent, OwnSoFar, CompleteSoFar,
                          AnswerIsWhole, InProgress, Assembled
<1>3. CASE GetBlock
    <2>1. state = "block" /\ transactions = <<>> /\ receipts = Absent
        BY <1>3 DEF GetBlock, IInv, Fresh
    <2>2. CASE Retry
        BY <2>2, RetryIInv
    <2>3. CASE /\ block' = view["eth"]
               /\ state' = IF Under("erigon") THEN "receipts" ELSE "transactions"
               /\ UNCHANGED <<environment, errorCount, receiptErrors, receipts, strayed, transactions, answer>>
        <3>1. ReceiptsSent'
            BY <2>1, <2>3 DEF ReceiptsSent
        <3>. QED
            BY <1>0, <2>1, <2>3, <3>1, FetchIInv
    <2>. QED
        BY <1>3, <2>2, <2>3 DEF GetBlock
<1>4. CASE CallFails
    BY <1>4, RetryUnlessForeignIInv DEF CallFails
<1>5. CASE GetBlockWithReceipts
    <2>. DEFINE g == view[Endpoint]
    <2>1. state = "block" /\ transactions = <<>>
        BY <1>5 DEF GetBlockWithReceipts, IInv, Fresh
    <2>2. CASE g = NoBlock
        BY <1>5, <2>2, RetryIInv DEF GetBlockWithReceipts
    <2>3. CASE g # NoBlock
        <3>1. /\ block' = g /\ receipts' \in Receipts(g) /\ state' = "transactions"
              /\ strayed' = (view["eth"] # g)
              /\ UNCHANGED <<environment, errorCount, receiptErrors, transactions, answer>>
            BY <1>5, <2>3 DEF GetBlockWithReceipts
        <3>2. PICK f \in Branches : f = g
            BY <1>0, <2>3 DEF Endpoint
        <3>3. \A i \in DOMAIN receipts' : \E h \in HashesOf(f) : receipts'[i] = RawReceipt(f, h)
            BY <3>1, <3>2, SentIInv
        <3>4. ReceiptsSent'
            BY <3>1, <3>2, <3>3 DEF ReceiptsSent, RawReceipt, toHex, environment
        <3>5. block' \in Branches \cup {NoBlock} /\ strayed' \in BOOLEAN
            BY <3>1, <3>2
        <3>6. strayed' \/ view["eth"] = block'
            BY <3>1
        <3>. QED
            BY <2>1, <3>1, <3>4, <3>5, <3>6, FetchIInv
    <2>. QED
        BY <2>2, <2>3
<1>6. CASE GetReceipts
    <2>1. /\ view["eth"] # NoBlock /\ receipts' \in Receipts(view["eth"])
          /\ state' = "transactions" /\ block' = block /\ strayed' = strayed
          /\ UNCHANGED <<environment, errorCount, receiptErrors, transactions, answer>>
        BY <1>6 DEF GetReceipts
    <2>2. transactions = <<>> /\ (block # NoBlock => strayed \/ view["eth"] = block)
        BY <1>6 DEF GetReceipts, IInv, Fresh, NotStrayed, InProgress
    <2>3. PICK f \in Branches : f = view["eth"]
        BY <1>0, <2>1
    <2>4. \A i \in DOMAIN receipts' : \E h \in HashesOf(f) : receipts'[i] = RawReceipt(f, h)
        BY <2>1, <2>3, SentIInv
    <2>5. ReceiptsSent'
        BY <2>1, <2>2, <2>3, <2>4 DEF ReceiptsSent, RawReceipt, toHex, environment
    <2>. QED
        BY <1>0, <2>1, <2>2, <2>5, FetchIInv
<1>7. CASE NoReceipts
    <2>1. /\ state' \in {"receiptsAgain", "transactions"}
          /\ UNCHANGED <<environment, errorCount, receiptErrors, fetched, transactions, answer>>
        BY <1>7 DEF NoReceipts
    <2>2. /\ transactions = <<>> /\ receipts = Absent
          /\ block # NoBlock => strayed \/ view["eth"] = block
        BY <1>7 DEF NoReceipts, IInv, Fresh, NotStrayed, InProgress
    <2>3. ReceiptsSent'
        BY <2>1, <2>2 DEF ReceiptsSent, fetched
    <2>. QED
        BY <1>0, <2>1, <2>2, <2>3, FetchIInv DEF fetched
<1>8. CASE PushFound
    <2>1. PICK r \in Found : Push(formatRawReceipt(r))
        BY <1>8 DEF PushFound
    <2>2. state = "transactions" /\ More /\ block # NoBlock
        BY <1>8 DEF PushFound, More
    <2>3. receipts # Absent /\ r.transactionHash = Hash
          /\ \E i \in DOMAIN receipts : r = receipts[i]
        BY <2>1 DEF Found
    <2>4. PICK g \in Branches : \E h \in HashesOf(g) : r = RawReceipt(g, h) /\ (strayed \/ g = block)
        BY <2>2, <2>3 DEF IInv, ReceiptsSent
    <2>5. PICK h \in HashesOf(g) : r = RawReceipt(g, h) /\ (strayed \/ g = block)
        BY <2>4
    <2>6. h = Hash
        BY <2>3, <2>5 DEF RawReceipt, Receipt
    <2>7. /\ formatRawReceipt(r) \in ReceiptType /\ IsReceiptOf(formatRawReceipt(r), Hash)
          /\ formatRawReceipt(r).fork = g
        BY <1>0, <2>5, <2>6, FormattedRaw
    <2>8. strayed \/ formatRawReceipt(r).fork = block
        BY <2>5, <2>7
    <2>. QED
        BY <2>1, <2>2, <2>7, <2>8, PushIInv
<1>9. CASE GetTransactionReceipt
    <2>. DEFINE g == view["eth"]
                r == formatTransactionReceipt(outputReceipt(RawReceipt(g, Hash)))
    <2>1. /\ state = "transactions" /\ More /\ block # NoBlock /\ Push(r)
          /\ g \in Branches /\ Hash \in HashesOf(g)
        BY <1>0, <1>9 DEF GetTransactionReceipt, Missing, More
    <2>2. strayed \/ g = block
        BY <2>1 DEF IInv, NotStrayed, InProgress
    <2>3. r \in ReceiptType /\ IsReceiptOf(r, Hash) /\ r.fork = g
        BY <1>0, <2>1, FormattedSingle
    <2>. HIDE DEF r, g
    <2>. QED
        BY <2>1, <2>2, <2>3, PushIInv
<1>10. CASE RetryReceipt
    <2>1. CASE receiptErrors > MaxRetries
        BY <1>10, <2>1, RetryIInv DEF RetryReceipt
    <2>2. CASE ~(receiptErrors > MaxRetries)
        <3>1. /\ receiptErrors' = receiptErrors + 1
              /\ UNCHANGED <<environment, state, errorCount, fetched, transactions, answer>>
            BY <1>10, <2>2 DEF RetryReceipt
        <3>2. receiptErrors' \in 0..(MaxRetries + 1)
            BY <2>2, <3>1, GetterAssumption DEF IInv, Types, TypeOK
        <3>3. Types'
            BY <3>1, <3>2 DEF IInv, Types, TypeOK, Under, ReceiptType, environment, fetched
        <3>. QED
            BY <3>1, <3>3 DEF IInv, Fresh, NotStrayed, ReceiptsSent, OwnSoFar, CompleteSoFar,
                AnswerIsWhole, InProgress, Assembled, IsTransactionAt, IsReceiptOf, Reads,
                RawReceipt, toHex, environment, fetched, formatBlockWithTransactions, optionalHex
    <2>. QED
        BY <2>1, <2>2
<1>11. CASE ReceiptFails
    BY <1>11, RetryIInv DEF ReceiptFails
<1>12. CASE BlockIsNull
    BY <1>12, RetryIInv DEF BlockIsNull
<1>13. CASE Return
    <2>1. /\ state = "transactions" /\ block # NoBlock /\ ~More /\ state' = "given"
          /\ answer' = formatBlockWithTransactions(block, transactions)
          /\ Kept /\ UNCHANGED <<scenario, optional, view, strayed>>
        BY <1>13 DEF Return, environment, fetched
    <2>2. Types'
        BY <2>1 DEF IInv, Types, TypeOK, Under, ReceiptType
    <2>3. OwnSoFar'
        BY <2>1 DEF IInv, OwnSoFar, Assembled
    <2>4. CompleteSoFar'
        BY <2>1 DEF IInv, CompleteSoFar, Assembled, IsTransactionAt, IsReceiptOf, Reads
    <2>5. Len(transactions) = Len(Blocks[block])
        <3>1. Len(transactions) <= Len(Blocks[block]) /\ ~(Len(transactions) < Len(Blocks[block]))
            BY <2>1 DEF IInv, CompleteSoFar, Assembled, More
        <3>2. Len(transactions) \in Nat /\ Len(Blocks[block]) \in Nat
            BY <1>0, <2>1, Chain, LenProperties DEF IInv, Types
        <3>. QED
            BY <3>1, <3>2
    <2>6. AnswerIsWhole'
        BY <2>1, <2>5 DEF AnswerIsWhole, formatBlockWithTransactions, optionalHex, toHex
    <2>. QED
        BY <2>1, <2>2, <2>3, <2>4, <2>6
           DEF IInv, Fresh, NotStrayed, ReceiptsSent, InProgress
<1>14. CASE ViewChanges
    <2>1. PICK e \in DOMAIN view, f \in Branches \cup {NoBlock} : view' = [view EXCEPT ![e] = f]
        BY <1>14 DEF ViewChanges
    <2>2. /\ strayed' = (strayed \/ (block # NoBlock /\ ~Settled /\ view'["eth"] # block))
          /\ state' = state /\ answer' = answer /\ Kept /\ UNCHANGED <<scenario, optional>>
        BY <1>14 DEF ViewChanges
    <2>3. view' \in [{"eth", "alternate"} -> Branches \cup {NoBlock}]
        BY <1>0, <2>1
    <2>4. strayed' \in BOOLEAN /\ (strayed => strayed')
        BY <1>0, <2>2, Zenon
    <2>5. Types'
        BY <2>2, <2>3, <2>4 DEF IInv, Types, TypeOK, Under, ReceiptType
    <2>6. NotStrayed'
        BY <2>2, Zenon DEF NotStrayed, InProgress, Settled
    <2>7. ReceiptsSent' /\ OwnSoFar'
        BY <2>2, <2>4 DEF IInv, ReceiptsSent, OwnSoFar, Assembled, RawReceipt, toHex
    <2>8. CompleteSoFar'
        BY <2>2 DEF IInv, CompleteSoFar, Assembled, IsTransactionAt, IsReceiptOf, Reads
    <2>. QED
        BY <2>2, <2>5, <2>6, <2>7, <2>8
           DEF IInv, Fresh, AnswerIsWhole, InProgress, formatBlockWithTransactions, optionalHex, toHex
<1>15. CASE UNCHANGED vars
    <2>1. state' = state /\ answer' = answer /\ Kept /\ UNCHANGED <<scenario, optional, view, strayed>>
        BY <1>15 DEF vars, environment, fetched
    <2>2. Types'
        BY <2>1 DEF IInv, Types, TypeOK, Under, ReceiptType
    <2>. QED
        BY <2>1, <2>2 DEF IInv, Fresh, NotStrayed, ReceiptsSent, OwnSoFar, CompleteSoFar,
            AnswerIsWhole, InProgress, Assembled, IsTransactionAt, IsReceiptOf, Reads,
            RawReceipt, toHex, formatBlockWithTransactions, optionalHex
<1>. QED
    BY <1>1, <1>2, <1>3, <1>4, <1>5, <1>6, <1>7, <1>8, <1>9, <1>10, <1>11, <1>12, <1>13,
       <1>14, <1>15 DEF Next, Step

-----------------------------------------------------------------------------
LEMMA SpecIInv == Spec => []IInv
BY InitIInv, NextIInv, PTL DEF Spec

\* Attempts and retries stay within their bounds, and every transaction put
\* together has a receipt in which no field is missing.
THEOREM GetterTypeOK == Spec => []TypeOK
<1>1. IInv => TypeOK
    BY DEF IInv, Types
<1>. QED
    BY <1>1, SpecIInv, PTL

\* Whatever failed before, the receipts in a block are of its own branch, as
\* long as the node holds that branch while the block is put together.
THEOREM GetterOwnBlock == Spec => []OwnBlock
<1>1. IInv => OwnBlock
    <2>1. SUFFICES ASSUME IInv, state = "given", ~strayed,
                          NEW i \in DOMAIN answer.transactions
                   PROVE  answer.transactions[i].receipt.fork = answer.fork
        BY DEF OwnBlock
    <2>2. answer.transactions = transactions /\ answer.fork = block
        BY <2>1 DEF IInv, AnswerIsWhole, formatBlockWithTransactions
    <2>. QED
        BY <2>1, <2>2 DEF IInv, OwnSoFar, Assembled
<1>. QED
    BY <1>1, SpecIInv, PTL

\* The block that a worker gives is whole, in order, and reads as the node
\* reported it.
THEOREM GetterComplete == Spec => []Complete
<1>1. IInv => Complete
    <2>1. SUFFICES ASSUME IInv, state = "given" PROVE Complete
        BY DEF Complete
    <2>2. /\ answer.transactions = transactions /\ answer.fork = block
          /\ answer.baseFeePerGas = optionalHex(optional)
        BY <2>1 DEF IInv, AnswerIsWhole, formatBlockWithTransactions
    <2>3. Reads(answer.baseFeePerGas) = optional
        BY <2>1, <2>2, OptionalReads DEF IInv, Types
    <2>4. Len(transactions) = Len(Blocks[block])
        BY <2>1 DEF IInv, AnswerIsWhole
    <2>5. \A i \in DOMAIN transactions : IsTransactionAt(transactions[i], block, i)
        BY <2>1 DEF IInv, CompleteSoFar, Assembled, Fresh
    <2>. QED
        BY <2>2, <2>3, <2>4, <2>5 DEF Complete, IsTransactionAt, IsReceiptOf
<1>. QED
    BY <1>1, SpecIInv, PTL
==============================================================================
