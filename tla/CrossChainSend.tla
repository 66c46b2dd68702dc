----------------------------- MODULE CrossChainSend -----------------------------
(***************************************************************************)
(* TONTransactionManager from the prepared messages on                     *)
(* (sendCrossChainTransaction, sendCrossChainTransactions,                 *)
(* waitForOperationIds), with the senders as far as the manager sees them: *)
(* chunks of messages that are accepted or not, and a list of results.     *)
(* Calls run concurrently; the sequencer puts an operation together when   *)
(* all its shards are on the network.                                      *)
(***************************************************************************)
EXTENDS Naturals, Sequences, FiniteSets, SequencesExt, FiniteSetsExt

CONSTANTS
    Calls,          \* calls of the manager
    Requests,       \* what a call may ask for: records [kind, sender, shards, keys,
                    \* waits, ensures]; shards[i] is the number of messages of its
                    \* i-th transaction, keys[i] its shards key
    ChunkSize,      \* messages a sender hands over at a time
    KeyChunk,       \* chunkSize of getOperationIdsByShardsKeys
    SameObject      \* whether the calls are given one waitOptions object

\* Messages of transactions with these numbers of them.
Messages(shards) == FoldLeft(LAMBDA n, k : n + k, 0, shards)

ASSUME SendAssumption ==
    /\ ChunkSize \in Nat \ {0} /\ KeyChunk \in Nat \ {0} /\ SameObject \in BOOLEAN
    /\ \A r \in Requests :
          /\ r.kind \in {"single", "batch"} /\ r.sender \in {"wallet", "tonConnect"}
          /\ r.shards \in Seq(Nat \ {0}) /\ r.shards # <<>>
          /\ Len(r.keys) = Len(r.shards)
          /\ Messages(r.shards) \in Nat
          /\ r.kind = "single" => Len(r.shards) = 1

VARIABLES
    request,    \* per call
    pc,         \* per call: "send", "judge", "track", "wait", "returned" or "threw"
    sent,       \* per call: how many of its messages are on the network
    results,    \* per call: success of the SendResults
    successCheck,   \* per waitOptions object: the call whose closure it holds
    known,      \* operations the sequencer knows: [call, tx]
    ids         \* per call: operation ids it returns, one per transaction, or none

vars == <<request, pc, sent, results, successCheck, known, ids>>

\* The waitOptions object of a call; without waitOptions a fresh one.
ObjectOf(c) == IF SameObject THEN "shared" ELSE c
Objects == {ObjectOf(c) : c \in Calls}
NoCall == "none"

Init ==
    /\ request \in [Calls -> Requests]
    /\ pc = [c \in Calls |-> "send"]
    /\ sent = [c \in Calls |-> 0]
    /\ results = [c \in Calls |-> <<>>]
    /\ successCheck = [o \in Objects |-> NoCall]
    /\ known = {}
    /\ ids = [c \in Calls |-> <<>>]

Linkers(c) == 1..Len(request[c].shards)

\* Messages of the first i transactions; all transactions' messages are one list.
MessagesUpTo(c, i) == Messages(SubSeq(request[c].shards, 1, i))
Total(c) == Messages(request[c].shards)

-------------------------------------------------------------------------------
(* The senders *)

Batch(c) == request[c].kind = "batch"
TonConnect(c) == request[c].sender = "tonConnect"

\* A wallet sends a single transaction as one group; TonConnect cuts it too.
NextChunk(c) ==
    IF Batch(c) \/ TonConnect(c) THEN Min({ChunkSize, Total(c) - sent[c]}) ELSE Total(c)

SendChunk(c) ==
    /\ pc[c] = "send"
    /\ sent' = [sent EXCEPT ![c] = @ + NextChunk(c)]
    /\ results' = [results EXCEPT ![c] = Append(@, TRUE)]
    /\ pc' = [pc EXCEPT ![c] = IF sent'[c] = Total(c) THEN "judge" ELSE "send"]
    /\ UNCHANGED <<request, successCheck, known, ids>>

\* The sender reports an error for a chunk, which may be on the network all
\* the same, and stops.
SendFails(c) ==
    /\ pc[c] = "send"
    /\ sent' \in {sent, [sent EXCEPT ![c] = @ + NextChunk(c)]}
    /\ results' = [results EXCEPT ![c] = Append(@, FALSE)]
    /\ pc' = [pc EXCEPT ![c] = "judge"]
    /\ UNCHANGED <<request, successCheck, known, ids>>

-------------------------------------------------------------------------------
(* The manager *)

\* A batch wants every result to be a success; a single transaction gets one
\* result, the first.
Succeeded_Any(c) == \E k \in 1..Len(results[c]) : results[c][k]         \* mutant
Succeeded(c) ==
    IF Batch(c) THEN \A k \in 1..Len(results[c]) : results[c][k] ELSE results[c][1]

\* The check is left on the object of the caller's waitOptions.
CheckAfter(c) ==
    [successCheck EXCEPT ![ObjectOf(c)] = IF @ = NoCall THEN c ELSE @]

EnterWait(c) ==
    /\ pc' = [pc EXCEPT ![c] = "wait"]
    /\ successCheck' = CheckAfter(c)

Judge(c) ==
    /\ pc[c] = "judge"
    /\ IF ~Succeeded(c)
       THEN pc' = [pc EXCEPT ![c] = "threw"] /\ UNCHANGED successCheck
       ELSE IF ~request[c].waits
       THEN pc' = [pc EXCEPT ![c] = "returned"] /\ UNCHANGED successCheck
       ELSE IF ~Batch(c) /\ request[c].ensures
       THEN pc' = [pc EXCEPT ![c] = "track"] /\ UNCHANGED successCheck
       ELSE EnterWait(c)
    /\ UNCHANGED <<request, sent, results, known, ids>>

\* trackTransactionTree for the external message of the result.
Track(c) ==
    /\ pc[c] = "track"
    /\ \/ EnterWait(c)
       \/ pc' = [pc EXCEPT ![c] = "threw"] /\ UNCHANGED successCheck
    /\ UNCHANGED <<request, sent, results, known, ids>>

-------------------------------------------------------------------------------
(* The sequencer (external) and the wait for operation ids *)

Operation(c, i) == [call |-> c, tx |-> i]

Complete(c, i) == MessagesUpTo(c, i) <= sent[c]

Learn(c, i) ==
    /\ Operation(c, i) \notin known
    /\ Complete(c, i)
    /\ known' = known \cup {Operation(c, i)}
    /\ UNCHANGED <<request, pc, sent, results, successCheck, ids>>

\* A shards key is a timestamp plus a random number: linkers of one batch,
\* made in the same second, may draw the same.  Those of different calls are
\* taken to differ.
Key(c, i) == <<c, request[c].keys[i]>>
Keys(c) == {Key(c, i) : i \in Linkers(c)}

\* The operations the sequencer finds under a key.
Found(k) == {op \in known : Key(op.call, op.tx) = k}

\* The list of keys is sent in chunks, and the answer to the last one is the only
\* one that is kept.
LastKeys(c) ==
    LET n == Len(request[c].shards)
        before == ((n - 1) \div KeyChunk) * KeyChunk
    IN  {Key(c, i) : i \in (before + 1)..n}

\* The answer to a batch: the keys under which something is found.
Answered(c) == {k \in LastKeys(c) : Found(k) # {}}

\* waitForOperationIds expects a key for each of the linkers of the call that
\* set the check; sendCrossChainTransaction a non-empty id of its linker.
Expected(c) == Len(request[successCheck[ObjectOf(c)]].shards)
Passes_AllKeys(c) ==                                                    \* mutant
    IF Batch(c) THEN Answered(c) = Keys(c) ELSE Operation(c, 1) \in known
Passes_OneMore(c) ==                                                    \* mutant
    IF Batch(c) THEN Cardinality(Answered(c)) > Expected(c) ELSE Operation(c, 1) \in known
Passes(c) ==
    IF Batch(c)
    THEN Cardinality(Answered(c)) = Expected(c)
    ELSE Operation(c, 1) \in known

\* operationIds[0] for each linker; if one of them is missing, what that
\* throws is caught and there are no ids.
Assignments(c) ==
    IF ~Batch(c) THEN {<<Operation(c, 1)>>}
    ELSE IF Answered(c) # Keys(c) THEN {<<>>}
    ELSE {f \in [Linkers(c) -> known] : \A i \in Linkers(c) : f[i] \in Found(Key(c, i))}

Resolve(c) ==
    /\ pc[c] = "wait"
    /\ Passes(c)
    /\ \E f \in Assignments(c) : ids' = [ids EXCEPT ![c] = f]
    /\ pc' = [pc EXCEPT ![c] = "returned"]
    /\ UNCHANGED <<request, sent, results, successCheck, known>>

\* The attempts are used up: the error is logged, and the linkers returned.
GiveUp_IfSingle(c) ==                                                   \* mutant
    /\ pc[c] = "wait" /\ ~Batch(c)
    /\ pc' = [pc EXCEPT ![c] = "returned"]
    /\ UNCHANGED <<request, sent, results, successCheck, known, ids>>
GiveUp(c) ==
    /\ pc[c] = "wait"
    /\ pc' = [pc EXCEPT ![c] = "returned"]
    /\ UNCHANGED <<request, sent, results, successCheck, known, ids>>

SendSettles(c) == SendChunk(c) \/ SendFails(c)

\* The wait for the ids ends: its attempts are bounded.
WaitSettles(c) == Resolve(c) \/ GiveUp(c)

CallStep(c) == SendSettles(c) \/ Judge(c) \/ Track(c) \/ WaitSettles(c)

Next == \E c \in Calls : CallStep(c) \/ \E i \in Linkers(c) : Learn(c, i)

\* Lookups by a contract opener have timeouts and retries, so tracking ends.  A
\* send may wait for the user of the wallet, and a request to the sequencer, which
\* has no timeout, may hang.
Spec == Init /\ [][Next]_vars /\ \A c \in Calls : WF_vars(Judge(c) \/ Track(c))

-------------------------------------------------------------------------------
(* Properties *)

TypeOK ==
    /\ pc \in [Calls -> {"send", "judge", "track", "wait", "returned", "threw"}]
    /\ \A c \in Calls :
          /\ sent[c] \in 0..Total(c)
          /\ results[c] \in Seq(BOOLEAN)
          /\ Len(ids[c]) \in {0, Len(request[c].shards)}
          /\ pc[c] = "wait" => successCheck[ObjectOf(c)] \in Calls
    /\ \A op \in known : op.call \in Calls /\ op.tx \in Linkers(op.call)

(***************************************************************************)
(* A call that returns has put all its messages on the network: no         *)
(* operation of it lacks a shard, which would lock the assets of the       *)
(* shards that were sent.  docs/sdks/ton_transaction_manager.md:           *)
(* "`WalletError`: Thrown when the transaction fails to send to the        *)
(* blockchain".                                                            *)
(***************************************************************************)
ReturnedMeansSent == \A c \in Calls : pc[c] = "returned" => sent[c] = Total(c)

(***************************************************************************)
(* The id in a linker is the id of that linker's operation, even when      *)
(* linkers of the batch drew the same shards key, or a part of the answer  *)
(* is missing.                                                             *)
(***************************************************************************)
IdsBelongToLinkers ==
    \A c \in Calls : ids[c] # <<>> => \A i \in Linkers(c) : ids[c][i] = Operation(c, i)

\* The types of the calls, and whose ids they hold.
CallInv == TypeOK /\ IdsBelongToLinkers

(***************************************************************************)
(* When the sequencer knows all operations of a waiting call, and their    *)
(* keys differ, the call takes the answer, whatever other calls wait for.  *)
(* This is so of calls whose keys fit in one chunk: of the answer to a     *)
(* longer list only the last chunk is kept, which never passes.            *)
(* docs/models/structs.md on successCheck: "If not provided, any non-error *)
(* result is considered successful".                                       *)
(***************************************************************************)
CompleteAnswerPasses ==
    \A c \in Calls :
        (/\ pc[c] = "wait"
         /\ \A i \in Linkers(c) : Operation(c, i) \in known
         /\ Cardinality(Keys(c)) = Len(request[c].shards)
         /\ Len(request[c].shards) <= KeyChunk) => Passes(c)

\* Every call returns or throws, if what it sends and what it asks the sequencer
\* for settles, whatever becomes of the other calls.
CallsEnd ==
    \A c \in Calls :
        WF_vars(SendSettles(c)) /\ WF_vars(WaitSettles(c)) => <>(pc[c] \in {"returned", "threw"})
===============================================================================
