----------------------------- MODULE BlockGetter ----------------------------
(***************************************************************************)
(* A worker of internal/block_getters answers a request for one block with *)
(* its transactions and their receipts: BlockGetter fetches each receipt   *)
(* by its hash, ErigonBlockGetter all receipts by the number of the block  *)
(* in a second call, QuickNodeBlockGetter block and receipts in one; what  *)
(* is missing then is fetched by its hash.  Calls fail, time out or find   *)
(* nothing, and are made again, at two levels.                             *)
(*                                                                         *)
(* A node answers from the branch that it holds at the time, and nothing   *)
(* compares the hash of the block with those in its receipts: the variable *)
(* strayed keeps whether the node left the branch since the block came.    *)
(***************************************************************************)
EXTENDS Integers, Sequences

CONSTANTS
    Scenarios,      \* the class of the getter, whether it has an alternateEth
    MaxRetries,     \* maxRetries
    Hashes,         \* the transactions
    Blocks,         \* the block asked for on each branch: its transactions
    Absent          \* undefined, or null

ASSUME GetterAssumption ==
    /\ Scenarios \subseteq [class : {"block", "erigon", "quicknode"}, alternate : BOOLEAN]
    /\ MaxRetries \in Nat
    /\ Blocks \in Seq(Seq(Hashes))
    /\ \A f \in DOMAIN Blocks : \A i, j \in DOMAIN Blocks[f] :
           Blocks[f][i] = Blocks[f][j] => i = j
    /\ Absent \notin [as : {"number", "hex", "unsigned"}, n : Nat] \cup BOOLEAN

VARIABLES
    scenario,
    optional,   \* a quantity that a node may leave out, as it reports it
    view,       \* the branch that each endpoint holds, NoBlock: not so far
    state, errorCount, receiptErrors,
    block, receipts,        \* what the attempt fetched so far
    transactions, answer,   \* what it formatted; the block it returns
    strayed

environment == <<scenario, optional, view>>
fetched == <<block, receipts, strayed>>
vars == <<environment, state, errorCount, receiptErrors, fetched, transactions, answer>>

NoBlock == 0
Branches == 1..Len(Blocks)
Under(c) == scenario.class = c
Settled == state \in {"given", "thrown"}

-----------------------------------------------------------------------------
(***************************************************************************)
(* Quantities are numbers in the objects of web3, hexadecimal strings in   *)
(* those of a node, and unsigned Longs or hexadecimal strings in a block   *)
(* that was formatted.  None here passes the 53 bits of a number.          *)
(***************************************************************************)
Quantity(as, n) == [as |-> as, n |-> n]
AsKind(as, v) == IF v = Absent THEN Absent ELSE Quantity(as, v.n)
Truthy(v) == v # Absent /\ v # Quantity("number", 0)

Optionals == {Absent} \cup {Quantity("number", n) : n \in 0..1}

toHex(v) == AsKind("hex", v)
fromValue(v) == AsKind("unsigned", v)

\* The test of the formatter for a quantity that is not left out.
isGiven(v) == Truthy(v) \/ v = Quantity("number", 0)
optionalHex(v) == IF isGiven(v) THEN toHex(v) ELSE Absent
optionalLong(v) == IF isGiven(v) THEN fromValue(v) ELSE Absent

\* What a node sends, and what the formatters of web3 make of it.  An old
\* receipt has no status, an old block and transaction no fees.
Index(f, h) == (CHOOSE i \in DOMAIN Blocks[f] : Blocks[f][i] = h) - 1
HashesOf(f) == {Blocks[f][i] : i \in DOMAIN Blocks[f]}

Receipt(h, f, index, status, price) ==
    [transactionHash |-> h, fork |-> f, transactionIndex |-> index, status |-> status,
     effectiveGasPrice |-> price]

RawReceipt(f, h) == Receipt(h, f, Quantity("hex", Index(f, h)), toHex(optional), toHex(optional))

outputReceipt(r) ==
    Receipt(r.transactionHash, r.fork, AsKind("number", r.transactionIndex),
            IF r.status = Absent THEN Absent ELSE r.status.n # 0,
            AsKind("number", r.effectiveGasPrice))

outputTransaction(f, h) ==
    [hash |-> h, transactionIndex |-> Quantity("number", Index(f, h)), maxFeePerGas |-> optional]

\* BlockFormatter
formatTransactionReceipt(r) ==
    Receipt(r.transactionHash, r.fork, fromValue(r.transactionIndex), r.status,
            optionalHex(r.effectiveGasPrice))

formatRawReceipt(r) ==
    formatTransactionReceipt(
        Receipt(r.transactionHash, r.fork, AsKind("number", r.transactionIndex),
                r.status # Absent /\ r.status.n # 0, r.effectiveGasPrice))

formatTransactionObject(t, r) ==
    [hash |-> t.hash, receipt |-> r, transactionIndex |-> optionalLong(t.transactionIndex),
     maxFeePerGas |-> optionalHex(t.maxFeePerGas)]

formatBlockWithTransactions(f, ts) ==
    [fork |-> f, baseFeePerGas |-> optionalHex(optional), transactions |-> ts]

-----------------------------------------------------------------------------
(***************************************************************************)
(* A request, and its attempts.                                            *)
(***************************************************************************)
Init ==
    /\ scenario \in Scenarios
    /\ optional \in Optionals
    /\ view \in [{"eth", "alternate"} -> Branches \cup {NoBlock}]
    /\ state = "idle" /\ errorCount = 0 /\ receiptErrors = 0
    /\ block = NoBlock /\ receipts = Absent /\ transactions = <<>> /\ answer = Absent
    /\ strayed = FALSE

\* Mutant of Start: what an earlier attempt fetched is kept.
StartKeeps(n) ==
    /\ state' = "block" /\ errorCount' = n
    /\ receiptErrors' = 0 /\ strayed' = FALSE /\ block' = NoBlock
    /\ UNCHANGED <<environment, receipts, transactions, answer>>

\* getBlockWithTransactionReceipts, with its second argument.
Start(n) ==
    /\ state' = "block" /\ errorCount' = n
    /\ receiptErrors' = 0 /\ strayed' = FALSE
    /\ block' = NoBlock /\ receipts' = Absent /\ transactions' = <<>>
    /\ UNCHANGED <<environment, answer>>

\* The worker's listener for "message", and its reply.
Message == state = "idle" /\ Start(0)

Reply ==
    /\ Settled /\ state' = "idle" /\ answer' = Absent
    /\ UNCHANGED <<environment, errorCount, receiptErrors, fetched, transactions>>

Throw == state' = "thrown" /\ UNCHANGED <<environment, errorCount, receiptErrors, fetched, transactions, answer>>

\* Mutant of Exhausted: the count is compared once too late.
ExhaustedLate(n) ==
    IF Under("block") THEN n > MaxRetries + 1 ELSE n > MaxRetries

\* After maxRetries retries; BlockGetter makes one more of them.
Exhausted(n) == IF Under("block") THEN n > MaxRetries ELSE n >= MaxRetries

\* Mutant of Retry: the next attempt does not count.
RetryUncounted == IF Exhausted(errorCount) THEN Throw ELSE Start(errorCount)

\* The catch clause, for an error that may pass.
Retry == IF Exhausted(errorCount) THEN Throw ELSE Start(errorCount + 1)

\* BlockGetter gives up at once unless the error is a BlockProducerError.
RetryUnlessForeign == IF Under("block") THEN Throw ELSE Retry

-----------------------------------------------------------------------------
(***************************************************************************)
(* The calls.  A timer of 30 s, 45 s or rpcTimeout rejects those of the    *)
(* classes for erigon and quicknode, the timeout of the provider that of   *)
(* BlockGetter; a late answer is ignored.                                  *)
(***************************************************************************)
\* The node answers a call, with no more than it knows, in any order.
Receipts(f) ==
    UNION {[1..n -> {RawReceipt(f, h) : h \in HashesOf(f)}] : n \in 0..Len(Blocks[f])}

\* eth.getBlock.  A block that is null fails ErigonBlockGetter later.
GetBlock ==
    /\ state = "block" /\ ~Under("quicknode")
    /\ IF Under("block") /\ view["eth"] = NoBlock
       THEN Retry
       ELSE /\ block' = view["eth"]
            /\ state' = IF Under("erigon") THEN "receipts" ELSE "transactions"
            /\ UNCHANGED <<environment, errorCount, receiptErrors, receipts, strayed, transactions, answer>>

CallFails == state \in {"block", "receipts", "receiptsAgain"} /\ RetryUnlessForeign

\* qn_getBlockWithReceipts, of the alternate endpoint after the first failure.
Endpoint == IF errorCount > 0 /\ scenario.alternate THEN "alternate" ELSE "eth"

GetBlockWithReceipts ==
    /\ state = "block" /\ Under("quicknode")
    /\ IF view[Endpoint] = NoBlock
       THEN Retry
       ELSE /\ block' = view[Endpoint] /\ receipts' \in Receipts(view[Endpoint])
            /\ state' = "transactions"
            /\ strayed' = (view["eth"] # view[Endpoint])
            /\ UNCHANGED <<environment, errorCount, receiptErrors, transactions, answer>>

\* eth_getBlockReceipts; sendTransactionReceiptsCall asks once more when the
\* result is empty, and then goes on without.
GetReceipts ==
    /\ state \in {"receipts", "receiptsAgain"} /\ view["eth"] # NoBlock
    /\ receipts' \in Receipts(view["eth"]) /\ state' = "transactions"
    /\ UNCHANGED <<environment, errorCount, receiptErrors, block, strayed, transactions, answer>>

NoReceipts ==
    /\ state \in {"receipts", "receiptsAgain"}
    /\ state' = IF state = "receipts" THEN "receiptsAgain" ELSE "transactions"
    /\ UNCHANGED <<environment, errorCount, receiptErrors, fetched, transactions, answer>>

-----------------------------------------------------------------------------
(***************************************************************************)
(* The loop over the transactions of the block.                            *)
(***************************************************************************)
Hash == Blocks[block][Len(transactions) + 1]
More == block # NoBlock /\ Len(transactions) < Len(Blocks[block])

\* Mutant of Found: receipts are taken to be in the order of the block.
FoundInOrder == IF receipts # Absent /\ Len(receipts) > Len(transactions)
                THEN {receipts[Len(transactions) + 1]} ELSE {}

\* receipts.find: two with the same hash are equal.
Found == IF receipts = Absent THEN {}
         ELSE {r \in {receipts[i] : i \in DOMAIN receipts} : r.transactionHash = Hash}

Push(r) ==
    /\ transactions' = Append(transactions, formatTransactionObject(outputTransaction(block, Hash), r))
    /\ receiptErrors' = 0
    /\ UNCHANGED <<environment, state, errorCount, fetched, answer>>

PushFound ==
    /\ state = "transactions" /\ More
    /\ \E r \in Found : Push(formatRawReceipt(r))

\* getTransactionReceipt, always of the first endpoint.
Missing == state = "transactions" /\ More /\ Found = {}

GetTransactionReceipt ==
    /\ Missing /\ view["eth"] # NoBlock /\ Hash \in HashesOf(view["eth"])
    /\ Push(formatTransactionReceipt(outputReceipt(RawReceipt(view["eth"], Hash))))

\* It found nothing, or its timer of 30 s was first.
RetryReceipt ==
    /\ Missing
    /\ IF receiptErrors > MaxRetries
       THEN Retry
       ELSE /\ receiptErrors' = receiptErrors + 1
            /\ UNCHANGED <<environment, state, errorCount, fetched, transactions, answer>>

\* Any other error ends it at once, as a BlockProducerError.
ReceiptFails == Missing /\ Retry

\* ErigonBlockGetter finds that block is null.
BlockIsNull == state = "transactions" /\ block = NoBlock /\ Retry

Return ==
    /\ state = "transactions" /\ block # NoBlock /\ ~More
    /\ answer' = formatBlockWithTransactions(block, transactions)
    /\ state' = "given"
    /\ UNCHANGED <<environment, errorCount, receiptErrors, fetched, transactions>>

\* The chain is reorganised, grows as far as the block, or falls behind it.
ViewChanges ==
    /\ \E e \in DOMAIN view, f \in Branches \cup {NoBlock} : view' = [view EXCEPT ![e] = f]
    /\ view' # view
    /\ strayed' = (strayed \/ (block # NoBlock /\ ~Settled /\ view'["eth"] # block))
    /\ UNCHANGED <<scenario, optional, state, errorCount, receiptErrors, block, receipts,
                   transactions, answer>>

Step ==
    \/ GetBlock \/ CallFails \/ GetBlockWithReceipts
    \/ GetReceipts \/ NoReceipts
    \/ PushFound \/ GetTransactionReceipt \/ RetryReceipt \/ ReceiptFails
    \/ BlockIsNull \/ Return

Next == Message \/ Reply \/ Step \/ ViewChanges

Spec == Init /\ [][Next]_vars

\* Every call is answered, or a timer rejects it.
FairSpec == Spec /\ WF_vars(Step)

-----------------------------------------------------------------------------
ReceiptType ==
    [transactionHash : Hashes, fork : Branches, transactionIndex : [as : {"unsigned"}, n : Nat],
     status : BOOLEAN \cup {Absent}, effectiveGasPrice : {Absent} \cup [as : {"hex"}, n : Nat]]

\* Attempts and the retries of a receipt stay within maxRetries, or the one
\* more that BlockGetter allows itself; every transaction has its receipt.
TypeOK ==
    /\ state \in {"idle", "block", "receipts", "receiptsAgain", "transactions", "given", "thrown"}
    /\ view \in [{"eth", "alternate"} -> Branches \cup {NoBlock}]
    /\ errorCount \in 0..(IF Under("block") THEN MaxRetries + 1 ELSE MaxRetries)
    /\ receiptErrors \in 0..(MaxRetries + 1)
    /\ block \in Branches \cup {NoBlock} /\ strayed \in BOOLEAN
    /\ \A i \in DOMAIN transactions : transactions[i].receipt \in ReceiptType

\* What a reader makes of a quantity or status that was formatted.
Reads(v) == IF v = Absent THEN Absent ELSE Quantity("number", v.n)

\* The block that a worker gives has each of its transactions, in order, with
\* the receipt of that transaction, wherever it was fetched and however often
\* the attempt before failed; a quantity reads as the node reported it, and
\* zero is not taken for one that the node left out.
Complete ==
    state = "given" =>
        /\ Reads(answer.baseFeePerGas) = optional
        /\ Len(answer.transactions) = Len(Blocks[answer.fork])
        /\ \A i \in DOMAIN answer.transactions :
            LET t == answer.transactions[i] IN
            /\ t.hash = Blocks[answer.fork][i] /\ t.receipt.transactionHash = t.hash
            /\ Reads(t.transactionIndex) = Quantity("number", i - 1)
            /\ Reads(t.maxFeePerGas) = optional
            /\ Reads(t.receipt.effectiveGasPrice) = optional
            /\ (t.receipt.status = TRUE) <=> (optional = Quantity("number", 1))

\* All receipts in a block that a worker gives are those of this very block,
\* unless the node left the branch while the block was put together: an
\* attempt takes over nothing from the one before it.
OwnBlock ==
    (state = "given" /\ ~strayed) =>
        \A i \in DOMAIN answer.transactions : answer.transactions[i].receipt.fork = answer.fork

\* A worker ends every request, with a block or an error, though the node
\* may never find the block or its receipts.
Settles == state \notin {"idle", "given", "thrown"} ~> Settled
=============================================================================
