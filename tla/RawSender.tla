-------------------------------- MODULE RawSender --------------------------------
(***************************************************************************)
(* sender/RawSender.ts over a standard wallet: the messages of a call are  *)
(* cut into groups of maxBatchSize, and for each group the wallet's        *)
(* sequence number is read, an external message with it is signed and      *)
(* broadcast.  The wallet contract executes a message that carries its     *)
(* current sequence number, which then grows by one.  The sender does not  *)
(* wait for that between two groups.                                       *)
(***************************************************************************)
EXTENDS Naturals, Sequences, FiniteSetsExt

CONSTANTS
    Calls,      \* calls that may be made on the wallet
    Sizes,      \* numbers of messages a call may have
    BatchSize,  \* maxBatchSize, which is also what the wallet takes in one message
    MaxLag      \* how far behind an endpoint's sequence number may be

ASSUME RawSenderAssumption ==
    Sizes \subseteq Nat /\ BatchSize \in Nat \ {0} /\ MaxLag \in Nat

VARIABLES
    pc,         \* per call: "idle", "seqno", "send", "returned", "threw"
    kind,       \* per call: "batch" (sendShardTransactions) or "single"
    total,      \* per call: its messages
    index,      \* per call: currentMessageIndex
    seqno,      \* per call: the sequence number read for the group at hand
    results,    \* per call: the SendResults
    pool,       \* external messages that have reached the network
    executed    \* what the wallet has executed, one entry per sequence number

callVars == <<pc, kind, total, index, seqno, results>>
vars == <<callVars, pool, executed>>

Init ==
    /\ pc = [c \in Calls |-> "idle"]
    /\ kind = [c \in Calls |-> "batch"]
    /\ total = [c \in Calls |-> 0]
    /\ index = [c \in Calls |-> 0]
    /\ seqno = [c \in Calls |-> 0]
    /\ results = [c \in Calls |-> <<>>]
    /\ pool = {}
    /\ executed = <<>>

Submit(c) ==
    /\ pc[c] = "idle"
    /\ \E n \in Sizes, k \in {"batch", "single"} :
           /\ total' = [total EXCEPT ![c] = n]
           /\ kind' = [kind EXCEPT ![c] = k]
           /\ pc' = [pc EXCEPT ![c] = IF n = 0 /\ k = "batch" THEN "returned" ELSE "seqno"]
    /\ UNCHANGED <<index, seqno, results, pool, executed>>

\* The wallet's current sequence number; an endpoint may be behind.
WalletSeqno == Len(executed)

GetSeqno(c) ==
    /\ pc[c] = "seqno"
    /\ \E s \in 0..WalletSeqno :
           /\ WalletSeqno - s <= MaxLag
           /\ seqno' = [seqno EXCEPT ![c] = s]
    /\ pc' = [pc EXCEPT ![c] = "send"]
    /\ UNCHANGED <<kind, total, index, results, pool, executed>>

\* prepareBatches; a single transaction is one group whatever its size.
GroupSize(c) ==
    IF kind[c] = "single" THEN total[c] ELSE Min({BatchSize, total[c] - index[c]})

\* The next group of the call, as an external message.  A group is named by
\* the index of its first message.
External(c) == [call |-> c, group |-> index[c], seqno |-> seqno[c]]

SuccessIndex_First(c) == index[c]                                       \* mutant
SuccessIndex(c) == index[c] + GroupSize(c) - 1

\* lastMessageIndex counts from 0 and is -1 before the first message; here it
\* is the number of messages instead.
Result(success, last) == [success |-> success, messages |-> last]

AfterSuccess(c) ==
    IF kind[c] = "batch" /\ index[c] + GroupSize(c) < total[c] THEN "seqno" ELSE "returned"

Send(c) ==
    /\ pc[c] = "send"
    /\ GroupSize(c) <= BatchSize
    /\ pool' = pool \cup {External(c)}
    /\ results' = [results EXCEPT ![c] = Append(@, Result(TRUE, SuccessIndex(c) + 1))]
    /\ index' = [index EXCEPT ![c] = @ + GroupSize(c)]
    /\ pc' = [pc EXCEPT ![c] = AfterSuccess(c)]
    /\ UNCHANGED <<kind, total, seqno, executed>>

\* A batch records the failure and stops; a single transaction is rejected.
AfterFailure_GoesOn(c) == "seqno"                                       \* mutant
AfterFailure(c) == IF kind[c] = "batch" THEN "returned" ELSE "threw"

Fail(c) ==
    /\ pc' = [pc EXCEPT ![c] = AfterFailure(c)]
    /\ results' = IF kind[c] = "batch"
                  THEN [results EXCEPT ![c] = Append(@, Result(FALSE, index[c]))]
                  ELSE results
    /\ UNCHANGED <<kind, total, index, seqno, executed>>


\* getSeqno fails; createTransfer (which refuses too many messages) or
\* getContractState throws.
PreparationFails(c) ==
    /\ pc[c] \in {"seqno", "send"}
    /\ Fail(c)
    /\ UNCHANGED pool

\* The endpoint reports an error for a message that it has broadcast or not.
SendFails(c) ==
    /\ pc[c] = "send"
    /\ GroupSize(c) <= BatchSize
    /\ Fail(c)
    /\ pool' \in {pool, pool \cup {External(c)}}

\* The wallet contract (external).
Accepts(m) == m.seqno = WalletSeqno

Execute(m) ==
    /\ Accepts(m)
    /\ executed' = Append(executed, [call |-> m.call, group |-> m.group])
    /\ UNCHANGED <<callVars, pool>>

CallStep(c) == GetSeqno(c) \/ Send(c) \/ PreparationFails(c) \/ SendFails(c)

Next ==
    \/ \E c \in Calls : Submit(c) \/ CallStep(c)
    \/ \E m \in pool : Execute(m)

Spec == Init /\ [][Next]_vars

-------------------------------------------------------------------------------
(* Properties *)

Statuses == {"idle", "seqno", "send", "returned", "threw"}

Externals == [call : Calls, group : Nat, seqno : Nat]

Execution == [call : Calls, group : Nat]

TypeOK ==
    /\ pc \in [Calls -> Statuses]
    /\ kind \in [Calls -> {"batch", "single"}]
    /\ total \in [Calls -> Nat]
    /\ index \in [Calls -> Nat] /\ \A c \in Calls : index[c] <= total[c]
    /\ seqno \in [Calls -> Nat]
    /\ results \in [Calls -> Seq([success : BOOLEAN, messages : Nat])]
    /\ pool \subseteq Externals
    /\ executed \in Seq(Execution)

(***************************************************************************)
(* However the reads of the sequence number and the executions interleave, *)
(* with stale reads, several calls and errors for messages that were       *)
(* broadcast: no group is executed twice, and none after a later one of    *)
(* its call.                                                               *)
(***************************************************************************)
OnceAndInOrder ==
    \A i, j \in 1..Len(executed) :
        i < j /\ executed[i].call = executed[j].call => executed[i].group < executed[j].group

Successes(c) == {k \in 1..Len(results[c]) : results[c][k].success}

(***************************************************************************)
(* A caller can tell from the results how far a batch got: the groups of   *)
(* the successful results are on the network, at most one more is, the     *)
(* last result says how many messages they hold, and a batch without a     *)
(* failure is complete.                                                    *)
(***************************************************************************)
ResultsAccountForMessages ==
    \A c \in Calls :
        LET ok == Cardinality(Successes(c))
            reached == {m.group : m \in {x \in pool : x.call = c}}
            first(k) == {i * BatchSize : i \in 0..(k - 1)}     \* names of k groups
        IN  (kind[c] = "batch" /\ pc[c] # "idle") =>
            /\ first(ok) \subseteq reached /\ reached \subseteq first(ok + 1)
            /\ \A k \in 1..Len(results[c]) :
                   /\ results[c][k].messages = Min({total[c], Min({k, ok}) * BatchSize})
                   /\ k < Len(results[c]) => k \in Successes(c)
            /\ pc[c] = "returned" /\ ok = Len(results[c]) =>
                   ok * BatchSize >= total[c]

\* The groups that have reached the network.
HandedOver == {[call |-> m.call, group |-> m.group] : m \in pool}

Delivery == INSTANCE GroupDelivery WITH sent <- HandedOver, log <- executed

\* The sender and the wallet together deliver groups as GroupDelivery says.
ImplementsDelivery == Delivery!Spec
===============================================================================
