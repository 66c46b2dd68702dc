------------------------------- MODULE TxFinalizer -------------------------------
(***************************************************************************)
(* TonTxFinalizer.trackTransactionTree (sdk/TxFinalizer.ts): a             *)
(* breadth-first walk that asks an HTTP indexer for the transactions       *)
(* adjacent to a hash, checks each of them, and goes on from those that    *)
(* sent messages.  Unlike the walk of BaseContractOpener it checks the     *)
(* answers only, never the hash it asks about, and an indexer that does    *)
(* not answer counts as one that knows of no adjacent transaction.         *)
(***************************************************************************)
EXTENDS Naturals, Sequences, FiniteSets, SequencesExt

CONSTANTS
    Tx,         \* transactions
    Root,       \* the hash the caller passes
    Trees,      \* possible out messages: functions [Tx -> SUBSET Tx]
    Outcomes,   \* possible transactions: functions [Tx -> Transactions]
    Depths,     \* values of maxDepth
    Retries,    \* retries of fetchAdjacentTransactions
    Directions  \* what urlBuilder asks for: "out" or "both"

\* In message, and phases: an exit code that is not zero is told from a phase
\* that is not successful.
Transactions == [msg : {"call", "nano", "noOpcode", "ignored"}, aborted : BOOLEAN,
                 compute : {"ok", "missing", "failed", "exitCode"},
                 action : {"ok", "missing", "failed"}]

ASSUME FinalizerAssumption ==
    /\ Root \in Tx /\ IsFiniteSet(Tx) /\ Trees \subseteq [Tx -> SUBSET Tx]
    /\ Outcomes \subseteq [Tx -> Transactions]
    /\ Depths \subseteq Nat /\ Retries \in Nat
    /\ Directions \subseteq {"out", "both"}

VARIABLES
    outs,       \* outs[t]: the transactions that receive t's messages
    txs,        \* txs[t]: t's in message and phases
    indexed,    \* transactions the indexer knows
    params,     \* maxDepth, and the direction of the url
    pc,         \* "next", "fetch", "check" or "done"
    queue,      \* hashes to ask about: [hash, depth]
    current,    \* the hash being asked about
    retriesLeft,    \* i, the retries left for it
    transactions,   \* the rest of the answer
    visitedHashes,
    result,
    requests,   \* requests[h]: requests made for h, counted up to one too many
    gaps        \* hashes about which the walk was not told everything

chain == <<outs, txs>>
finalizerVars == <<chain, indexed, params, pc, queue, current, retriesLeft, transactions,
          visitedHashes, result, requests, gaps>>

RootItem == [hash |-> Root, depth |-> 0]
Pending == [verdict |-> "pending"]

FinalizerInit ==
    /\ outs \in Trees
    /\ txs \in Outcomes
    /\ indexed \in {{}, Tx}
    /\ params \in [maxDepth : Depths, direction : Directions]
    /\ pc = "next"
    /\ queue = <<RootItem>>
    /\ current = RootItem
    /\ retriesLeft = Retries
    /\ transactions = <<>>
    /\ visitedHashes = {}
    /\ result = Pending
    /\ requests = [t \in Tx |-> 0]
    /\ gaps = {}

Index(t) ==
    /\ t \notin indexed
    /\ pc # "done"
    /\ indexed' = indexed \cup {t}
    /\ UNCHANGED <<chain, params, pc, queue, current, retriesLeft, transactions, visitedHashes,
                   result, requests, gaps>>

Return(r) == result' = r /\ pc' = "done"

Visited_Never(h) == FALSE                                               \* mutant
Visited(h) == h \in visitedHashes

\* The head of the loop.
NextHash ==
    /\ pc = "next"
    /\ IF queue = <<>>
       THEN /\ Return([verdict |-> "success"])
            /\ UNCHANGED <<queue, current, retriesLeft, visitedHashes>>
       ELSE /\ queue' = Tail(queue)
            /\ IF Visited(Head(queue).hash)
               THEN UNCHANGED <<pc, current, retriesLeft, visitedHashes>>
               ELSE /\ visitedHashes' = visitedHashes \cup {Head(queue).hash}
                    /\ current' = Head(queue)
                    /\ retriesLeft' = Retries
                    /\ pc' = "fetch"
            /\ UNCHANGED result
    /\ UNCHANGED <<chain, indexed, params, transactions, requests, gaps>>

(***************************************************************************)
(* fetchAdjacentTransactions.  The indexer answers with the adjacent       *)
(* transactions it knows, in an order of its own.                          *)
(***************************************************************************)
Adjacent(t) ==
    IF params.direction = "both" THEN outs[t] \cup {p \in Tx : t \in outs[p]} ELSE outs[t]

Request == requests' = [requests EXCEPT ![current.hash] = Min({@ + 1, Retries + 2})]

Answered ==
    /\ pc = "fetch"
    /\ Request
    /\ \E answer \in SetToSeqs(Adjacent(current.hash) \cap indexed) : transactions' = answer
    /\ gaps' = IF Adjacent(current.hash) \subseteq indexed THEN gaps
                                                          ELSE gaps \cup {current.hash}
    /\ pc' = "check"
    /\ UNCHANGED <<chain, indexed, params, queue, current, retriesLeft, visitedHashes, result>>

\* 429, 404 and everything else alike: the request is repeated until no retry
\* is left, and then the answer is the empty list.
NoRetryLeft_StartsAgain ==                                              \* mutant
    retriesLeft' = Retries /\ UNCHANGED <<pc, transactions, gaps>>
NoRetryLeft ==
    /\ transactions' = <<>>
    /\ gaps' = gaps \cup {current.hash}
    /\ pc' = "check"
    /\ UNCHANGED retriesLeft

RequestFails ==
    /\ pc = "fetch"
    /\ Request
    /\ IF retriesLeft > 0
       THEN retriesLeft' = retriesLeft - 1 /\ UNCHANGED <<pc, transactions, gaps>>
       ELSE NoRetryLeft
    /\ UNCHANGED <<chain, indexed, params, queue, current, visitedHashes, result>>

(***************************************************************************)
(* The loop over the answer.  Messages of one nanoton are notifications,   *)
(* messages without an opcode or with an ignored one (excesses) are        *)
(* skipped, and so is everything that follows from them.                   *)
(***************************************************************************)
Skipped(t) == txs[t].msg \in {"nano", "noOpcode", "ignored"}

FailureCase_NoAction(t) ==                                              \* mutant
    IF txs[t].aborted THEN "aborted" ELSE IF txs[t].compute # "ok" THEN "compute" ELSE "none"
FailureCase(t) ==
    IF txs[t].aborted THEN "aborted"
    ELSE IF txs[t].compute # "ok" THEN "compute"      \* missing, not successful, exit code
    ELSE IF txs[t].action \notin {"missing", "ok"} THEN "action"
    ELSE "none"

MayDescend == current.depth + 1 < params.maxDepth

Check ==
    /\ pc = "check"
    /\ IF transactions = <<>>
       THEN pc' = "next" /\ UNCHANGED <<transactions, queue, result>>
       ELSE LET tx == Head(transactions) IN
            /\ transactions' = Tail(transactions)
            /\ IF ~Skipped(tx) /\ FailureCase(tx) # "none"
               THEN /\ Return([verdict |-> "failed", tx |-> tx])
                    /\ UNCHANGED queue
               ELSE /\ queue' = IF ~Skipped(tx) /\ MayDescend /\ outs[tx] # {}
                                THEN Append(queue, [hash |-> tx, depth |-> current.depth + 1])
                                ELSE queue
                    /\ UNCHANGED <<pc, result>>
    /\ UNCHANGED <<chain, indexed, params, current, retriesLeft, visitedHashes, requests, gaps>>

Walk == NextHash \/ Answered \/ RequestFails \/ Check

FinalizerNext == Walk \/ \E t \in Tx : Index(t)

\* What the walk does by itself goes on.  Requests are sent without a timeout
\* and may hang; indexing is up to the network.
FinalizerSpec ==
    FinalizerInit /\ [][FinalizerNext]_finalizerVars /\ WF_finalizerVars(NextHash \/ Check)

-------------------------------------------------------------------------------
(* Properties *)

\* The calls next to a transaction of S.
Calls(S) == {t \in UNION {Adjacent(s) : s \in S} : txs[t].msg = "call"}

\* Those from which the walk goes on: the calls that sent messages themselves.
Near(t) == {u \in Calls({t}) : outs[u] # {}}

\* What the root reaches in n steps, each of which may stay where it is.
Within(n) ==
    {t \in Tx : \E p \in [0..n -> Tx] :
        /\ p[0] = Root /\ p[n] = t
        /\ \A k \in 1..n : p[k] = p[k - 1] \/ p[k] \in Near(p[k - 1])}

\* How far from the root the walk asks: maxDepth, of which the answers take one.
Reach == Max({1, params.maxDepth}) - 1

\* What the walk is told of: the calls next to those it asks about.
Covered == Calls(Within(Reach))

FinalizerTypeOK ==
    /\ indexed \subseteq Tx /\ visitedHashes \subseteq Tx /\ gaps \subseteq visitedHashes
    /\ pc \in {"next", "fetch", "check", "done"}
    /\ \A k \in 1..Len(queue) :
           queue[k].hash \in Tx /\ queue[k].depth <= Reach
    /\ current.hash \in Tx
    /\ retriesLeft \in 0..Retries
    /\ transactions \in Seq(Tx)
    /\ result.verdict \in {"pending", "success", "failed"}

WentWell(t) ==
    /\ ~txs[t].aborted
    /\ txs[t].compute = "ok"
    /\ txs[t].action \in {"ok", "missing"}

\* If the indexer told the walk everything it asked for, success means that
\* the tree below the root went well down to maxDepth, whatever the order of
\* the answers and however often a request had to be repeated.
SuccessCoversTree ==
    result.verdict = "success" /\ gaps = {} => \A t \in Covered : WentWell(t)

\* A failure is one of a transaction within the depth asked for that is not to
\* be skipped, also when the indexer is late or the parent is among the answers.
FailureIsReal ==
    result.verdict = "failed" => result.tx \in Covered /\ ~WentWell(result.tx)

\* What a verdict of the walk says is so, of success as of failure.
VerdictIsRight == SuccessCoversTree /\ FailureIsReal

\* A hash is asked about once, with its retries, although transactions name
\* each other as neighbours.
AskedOnce == \A t \in Tx : requests[t] <= Retries + 1

\* The shape of the walk: types, and each hash asked about once.
WalkInv == FinalizerTypeOK /\ AskedOnce

\* Every walk ends, if the requests it sends do.
WalkEnds == WF_finalizerVars(Answered \/ RequestFails) => <>(pc = "done")

\* docs/sdks/utilities.md: "Throws an error if any transaction in the tree is
\* not successful or if a hash is not found".
MissingHashReported == result.verdict = "success" => gaps = {}
===============================================================================
