------------------------------ MODULE BatchSender ------------------------------
(***************************************************************************)
(* sender/BatchSender.ts over wrappers/HighloadWalletV3.ts: batches of     *)
(* messages are cut into groups, each group is one external message to a   *)
(* highload wallet, and the wallet contract tells messages apart by a      *)
(* query id that the sender derives from the second the message is stamped *)
(* with.  Several calls may run on one sender: stamping is synchronous,    *)
(* the transfer that follows is not.                                       *)
(***************************************************************************)
EXTENDS Integers, Sequences, FiniteSetsExt

CONSTANTS
    Calls,        \* calls that may be made on the sender
    Batches,      \* what a call may submit: sequences of message sizes
    MaxGroup,     \* MAX_HIGHLOAD_GROUP_MSG_NUM
    MaxSize,      \* what fits into one external message
    Lag,          \* the 40 s that generateCreatedAt subtracts
    BitNumbers,   \* 2^10 values of the low bits; the last one is no bit number
    IdSpace,      \* 2^23 query ids
    Timeout,      \* the wallet's timeout
    StartTime,    \* first second of the clock
    MaxTime,      \* bound of the clock
    MaxRestarts   \* bound on how often the process restarts

ASSUME BatchAssumption ==
    /\ MaxGroup \in Nat \ {0} /\ MaxSize \in Nat /\ Lag \in Nat
    /\ BitNumbers \in Nat \ {0} /\ Timeout \in Nat
    /\ IdSpace \in Nat \ {0} /\ Timeout < IdSpace
    /\ StartTime \in Nat /\ Lag < StartTime /\ MaxTime \in Nat /\ MaxRestarts \in Nat

\* HighloadWalletV3.getQueryIdFromCreatedAt; fromQueryId throws when the low
\* bits of the id are all ones.
QueryId(createdAt) == createdAt % IdSpace
IsQueryId(q) == q % BitNumbers # BitNumbers - 1

generateCreatedAt(time) == time - Lag

(***************************************************************************)
(* prepareGroups: from each position the group size starts at what is left *)
(* (at most MaxGroup) and is halved until the group fits; a position where *)
(* not even one message fits throws, shown by a group of size 0.           *)
(***************************************************************************)
Fits(batch, left, size) ==
    FoldSet(LAMBDA i, sum : sum + batch[i], 0, (left + 1)..(left + size)) <= MaxSize

GroupSizes(batch, left) ==
    LET first == Min({Len(batch) - left, MaxGroup})
    IN  {size \in {first \div 2^h : h \in 0..first} : size > 0 /\ Fits(batch, left, size)}

prepareGroups(batch) ==
    LET from[left \in 0..Len(batch)] ==
            IF left = Len(batch) THEN <<>>
            ELSE IF GroupSizes(batch, left) = {} THEN <<0>>
            ELSE LET size == Max(GroupSizes(batch, left))
                 IN  <<size>> \o from[left + size]
    IN  from[0]

Throws(cut) == \E i \in 1..Len(cut) : cut[i] = 0

ASSUME BatchesAssumption ==
    \A batch \in Batches : batch \in Seq(Nat) /\ prepareGroups(batch) \in Seq(Nat)

-------------------------------------------------------------------------------

VARIABLES
    now,            \* the clock, in seconds
    lastCreatedAt,  \* this.lastCreatedAt
    pc,             \* per call: "idle", "ready", "transfer", "returned", "threw", "lost"
    kind,           \* per call: "batch" (sendShardTransactions) or "single"
    groups,         \* per call: sizes of the groups still to be sent
    index,          \* per call: currentMessageIndex
    stamp,          \* per call: createdAt of the group being transferred
    results,        \* per call: the SendResults
    sent,           \* external messages that have reached the network
    executed,       \* executions of them by the wallet contract
    restarts

callVars == <<pc, kind, groups, index, stamp, results>>
vars == <<now, lastCreatedAt, callVars, sent, executed, restarts>>

Init ==
    /\ now = StartTime
    /\ lastCreatedAt = 0
    /\ pc = [c \in Calls |-> "idle"]
    /\ kind = [c \in Calls |-> "batch"]
    /\ groups = [c \in Calls |-> <<>>]
    /\ index = [c \in Calls |-> 0]
    /\ stamp = [c \in Calls |-> 0]
    /\ results = [c \in Calls |-> <<>>]
    /\ sent = {}
    /\ executed = {}
    /\ restarts = 0

(***************************************************************************)
(* sendShardTransactions groups its messages before anything is sent, with *)
(* a query id of the current second that must already be valid; the whole  *)
(* call is rejected otherwise.  Messages of all shard transactions are one *)
(* list.  An empty list has no groups and returns no results.              *)
(***************************************************************************)
SubmitBatch(c) ==
    /\ pc[c] = "idle"
    /\ \E batch \in Batches :
           LET cut == prepareGroups(batch)
               rejected == \/ Throws(cut)
                           \/ cut # <<>> /\ ~IsQueryId(QueryId(generateCreatedAt(now)))
           IN  IF rejected
               THEN pc' = [pc EXCEPT ![c] = "threw"] /\ UNCHANGED groups
               ELSE /\ pc' = [pc EXCEPT ![c] = IF cut = <<>> THEN "returned" ELSE "ready"]
                    /\ groups' = [groups EXCEPT ![c] = cut]
    /\ UNCHANGED <<now, lastCreatedAt, kind, index, stamp, results, sent, executed, restarts>>

\* sendShardTransaction sends its messages as one group, unchecked.
SubmitSingle(c) ==
    /\ pc[c] = "idle"
    /\ \E batch \in Batches \ {<<>>} : groups' = [groups EXCEPT ![c] = <<Len(batch)>>]
    /\ pc' = [pc EXCEPT ![c] = "ready"]
    /\ kind' = [kind EXCEPT ![c] = "single"]
    /\ UNCHANGED <<now, lastCreatedAt, index, stamp, results, sent, executed, restarts>>

\* The synchronous start of sendGroup: the stamp is taken and remembered.
NextCreatedAt_EqualAllowed ==                                           \* mutant
    IF generateCreatedAt(now) < lastCreatedAt THEN lastCreatedAt + 1
                                              ELSE generateCreatedAt(now)
NextCreatedAt ==
    IF generateCreatedAt(now) <= lastCreatedAt THEN lastCreatedAt + 1
                                               ELSE generateCreatedAt(now)

Stamp(c) ==
    /\ pc[c] = "ready"
    /\ stamp' = [stamp EXCEPT ![c] = NextCreatedAt]
    /\ lastCreatedAt' = NextCreatedAt
    /\ pc' = [pc EXCEPT ![c] = "transfer"]
    /\ UNCHANGED <<now, kind, groups, index, results, sent, executed, restarts>>

Message(c) == [call |-> c, first |-> index[c], createdAt |-> stamp[c]]

Success_OffByOne(c) == [success |-> TRUE, lastMessageIndex |-> index[c] + Head(groups[c])]  \* mutant
Success(c) == [success |-> TRUE, lastMessageIndex |-> index[c] + Head(groups[c]) - 1]
Failure(c) == [success |-> FALSE, lastMessageIndex |-> index[c] - 1]

\* sendTransfer resolves: the external message was handed over.
TransferSucceeds(c) ==
    /\ pc[c] = "transfer"
    /\ IsQueryId(QueryId(stamp[c]))
    /\ sent' = sent \cup {Message(c)}
    /\ results' = [results EXCEPT ![c] = Append(@, Success(c))]
    /\ index' = [index EXCEPT ![c] = @ + Head(groups[c])]
    /\ groups' = [groups EXCEPT ![c] = Tail(@)]
    /\ pc' = [pc EXCEPT ![c] = IF Tail(groups[c]) = <<>> THEN "returned" ELSE "ready"]
    /\ UNCHANGED <<now, lastCreatedAt, kind, stamp, executed, restarts>>

\* A batch records the failure and stops; a single send passes it on.
AfterFailure_SendAgain(c) ==                                            \* mutant
    pc' = [pc EXCEPT ![c] = "ready"] /\ UNCHANGED results
AfterFailure(c) ==
    \/ /\ kind[c] = "batch"
       /\ results' = [results EXCEPT ![c] = Append(@, Failure(c))]
       /\ pc' = [pc EXCEPT ![c] = "returned"]
    \/ /\ kind[c] = "single"
       /\ pc' = [pc EXCEPT ![c] = "threw"]
       /\ UNCHANGED results

(***************************************************************************)
(* sendTransfer rejects: the state could not be read, the query id is      *)
(* invalid (nothing is sent then), or the endpoint reported an error for a *)
(* message it may nevertheless have broadcast.                             *)
(***************************************************************************)

TransferFails(c) ==
    /\ pc[c] = "transfer"
    /\ \/ UNCHANGED sent
       \/ IsQueryId(QueryId(stamp[c])) /\ sent' = sent \cup {Message(c)}
    /\ AfterFailure(c)
    /\ UNCHANGED <<now, lastCreatedAt, kind, groups, index, stamp, executed, restarts>>

(***************************************************************************)
(* The wallet contract (external).  A message is executed when its stamp   *)
(* is neither expired nor in the future and its query id is not among the  *)
(* ones it remembers: those of the last Timeout seconds at least, possibly *)
(* twice that, because it forgets in two generations.                      *)
(***************************************************************************)
InTime(m) == m.createdAt > now - Timeout /\ m.createdAt <= now

Remembered(age) == {QueryId(e.msg.createdAt) : e \in {x \in executed : x.at > now - age}}

Deliver(m) ==
    /\ InTime(m)
    /\ \E age \in {Timeout, 2 * Timeout} : QueryId(m.createdAt) \notin Remembered(age)
    /\ executed' = executed \cup {[msg |-> m, at |-> now]}
    /\ UNCHANGED <<now, lastCreatedAt, callVars, sent, restarts>>

Tick ==
    /\ now < MaxTime
    /\ now' = now + 1
    /\ UNCHANGED <<lastCreatedAt, callVars, sent, executed, restarts>>

\* lastCreatedAt lives in memory: a restart loses it with the calls in progress.
Restart ==
    /\ restarts < MaxRestarts
    /\ restarts' = restarts + 1
    /\ lastCreatedAt' = 0
    /\ pc' = [c \in Calls |-> IF pc[c] \in {"ready", "transfer"} THEN "lost" ELSE pc[c]]
    /\ UNCHANGED <<now, kind, groups, index, stamp, results, sent, executed>>

CallStep(c) ==
    \/ SubmitBatch(c) \/ SubmitSingle(c) \/ Stamp(c)
    \/ TransferSucceeds(c) \/ TransferFails(c)

Next ==
    \/ \E c \in Calls : CallStep(c)
    \/ \E m \in sent : Deliver(m)
    \/ Tick
    \/ Restart

Spec == Init /\ [][Next]_vars

-------------------------------------------------------------------------------
(* Properties *)

TypeOK ==
    /\ now \in Nat
    /\ lastCreatedAt \in Nat
    /\ pc \in [Calls -> {"idle", "ready", "transfer", "returned", "threw", "lost"}]
    /\ kind \in [Calls -> {"batch", "single"}]
    /\ stamp \in [Calls -> Nat]
    /\ groups \in [Calls -> Seq(Nat \ {0})]
    /\ \A c \in Calls : pc[c] \in {"ready", "transfer"} => groups[c] # <<>>
    /\ index \in [Calls -> Nat]
    /\ sent \subseteq [call : Calls, first : Nat, createdAt : Nat]
    /\ executed \subseteq [msg : sent, at : Nat]
    /\ restarts \in Nat

SameGroup(m1, m2) == m1.call = m2.call /\ m1.first = m2.first

(***************************************************************************)
(* BatchSender.sendGroup bumps the stamp so that no two groups of one      *)
(* sender, from the same call or from concurrent ones, reach the contract  *)
(* with the same query id while both are acceptable: none of them can be   *)
(* refused as already executed because of another one.  A restart ends the *)
(* sender's life and with it the promise.                                  *)
(***************************************************************************)
DistinctQueryIds ==
    restarts = 0 => \A m1, m2 \in sent :
        /\ InTime(m1) /\ InTime(m2)
        /\ QueryId(m1.createdAt) = QueryId(m2.createdAt)
        => SameGroup(m1, m2)

(***************************************************************************)
(* No group is executed twice, although endpoints may broadcast a message  *)
(* any number of times and at any time, also after a restart.              *)
(***************************************************************************)
ExecutedAtMostOnce ==
    \A e1, e2 \in executed : SameGroup(e1.msg, e2.msg) => e1 = e2

(***************************************************************************)
(* The SendResults of sendShardTransactions account for every message:     *)
(* only the last result can be a failure, every reported success has       *)
(* reached the network as one group that begins where the previous result  *)
(* ends, and nothing beyond the failed group has been sent.                *)
(***************************************************************************)
FirstOf(c, i) == IF i = 1 THEN 0 ELSE results[c][i - 1].lastMessageIndex + 1

ResultsAccountForMessages ==
    \A c \in Calls :
        /\ \A i \in 1..Len(results[c]) :
               IF results[c][i].success
               THEN \E m \in sent : m.call = c /\ m.first = FirstOf(c, i)
               ELSE i = Len(results[c]) /\ results[c][i].lastMessageIndex = FirstOf(c, i) - 1
        /\ \A m \in sent :
               m.call = c /\ m.first > 0 =>
                   \E i \in 1..Len(results[c]) :
                       results[c][i].success /\ results[c][i].lastMessageIndex = m.first - 1
===============================================================================
