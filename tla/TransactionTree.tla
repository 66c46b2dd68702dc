---------------------------- MODULE TransactionTree ----------------------------
(***************************************************************************)
(* BaseContractOpener.trackTransactionTreeWithResult: a breadth-first walk *)
(* over the transactions that a message caused (forward), was caused by    *)
(* (backward), or both, which looks every transaction up by the hash of a  *)
(* message, retries while it is not indexed yet, and validates the phases  *)
(* of each one.  The walk runs while the chain is still being indexed.     *)
(***************************************************************************)
EXTENDS Naturals, Sequences, FiniteSets, SequencesExt

CONSTANTS
    Tx,         \* transactions
    Root,       \* the transaction whose hash the caller passes
    Nobody,     \* a message to an external address: no transaction receives it
    Trees,      \* possible out messages: functions [Tx -> Seq(Tx \cup {Nobody})];
                \* an internal message is named by the transaction that receives it
    Outcomes,   \* possible phase results: functions [Tx -> Phases]
    Depths,     \* values of maxDepth
    Retries,    \* values of retries
    MaxErrors,  \* bound on failing lookups
    MaxBuried   \* bound on transactions that fall behind the scan limit

Phases == [generic : BOOLEAN, aborted : BOOLEAN, compute : {"ok", "skipped", "missing", "failed"},
           action : {"ok", "missing", "failed"}]

\* The messages of a list that have a receiver.
Internal(messages) == SelectSeq(messages, LAMBDA m : m # Nobody)

\* A message has one sender.
ASSUME TreeAssumption ==
    /\ Root \in Tx /\ Nobody \notin Tx
    /\ Trees \subseteq [Tx -> Seq(Tx \cup {Nobody})]
    /\ \A tree \in Trees : \A t, u \in Tx :
          t # u => ToSet(tree[t]) \cap ToSet(tree[u]) \subseteq {Nobody}
    /\ \A tree \in Trees : \A t \in Tx :
          /\ Internal(tree[t]) \in Seq(Tx)
          /\ ToSet(Internal(tree[t])) = ToSet(tree[t]) \ {Nobody}
    /\ Outcomes \subseteq [Tx -> Phases]
    /\ Depths \subseteq Nat /\ Retries \subseteq Nat /\ MaxErrors \in Nat
    /\ MaxBuried \in Nat

Direction == {"forward", "backward", "both"}

\* validateTransactionWithResult: the first failing phase names the reason.
Reason(p) ==
    IF ~p.generic THEN "none"
    ELSE IF p.aborted THEN "aborted"
    ELSE IF p.compute = "missing" THEN "compute_phase_missing"
    ELSE IF p.compute = "failed" THEN "compute_phase_failed"
    ELSE IF p.action = "failed" THEN "action_phase_failed"
    ELSE "none"

VARIABLES
    outs,            \* outs[t]: the messages t sends (the chain itself)
    phases,          \* phases[t]: how t went
    visible,         \* transactions the opener has indexed
    beyondLimit,     \* those with maxScannedTransactions newer ones on their account
    params,          \* maxDepth, direction, retryOnNotFound, retries
    pc,              \* "next", "find", "sleep" or "done"
    queue,           \* searches to make: [msg, type, depth]
    current,         \* the search being made
    attempt,         \* findTransactionWithRetry's attempt
    visitedSearchKeys, processedTxHashes, checkedCount,
    result,          \* what the caller gets
    errors           \* lookups that have failed

chain == <<outs, phases>>
walk == <<queue, current, visitedSearchKeys, processedTxHashes, checkedCount>>
vars == <<chain, visible, beyondLimit, params, pc, walk, attempt, result, errors>>

Sends(t, m) == \E i \in 1..Len(outs[t]) : outs[t][i] = m
Parents(t) == {p \in Tx : Sends(p, t)}

RootSearch == [msg |-> Root, type |-> "unknown", depth |-> 0]
Pending == [verdict |-> "pending"]

Init ==
    /\ outs \in Trees
    /\ phases \in Outcomes
    /\ visible = {}
    /\ beyondLimit = {}
    /\ params \in [maxDepth : Depths, direction : Direction,
                   retryOnNotFound : BOOLEAN, retries : Retries]
    /\ pc = "next"
    /\ queue = <<RootSearch>>
    /\ current = RootSearch
    /\ attempt = 0
    /\ visitedSearchKeys = {}
    /\ processedTxHashes = {}
    /\ checkedCount = 0
    /\ result = Pending
    /\ errors = 0

\* The opener indexes one more transaction.
Index(t) ==
    /\ t \notin visible
    /\ pc # "done"
    /\ visible' = visible \cup {t}
    /\ UNCHANGED <<chain, beyondLimit, params, pc, walk, attempt, result, errors>>

(***************************************************************************)
(* The account of an indexed transaction goes on to make others: the scan  *)
(* of its history, newest first, stops at maxScannedTransactions and from  *)
(* now on ends before it reaches t.                                        *)
(***************************************************************************)
Bury(t) ==
    /\ t \in visible \ beyondLimit
    /\ Cardinality(beyondLimit) < MaxBuried
    /\ pc # "done"
    /\ beyondLimit' = beyondLimit \cup {t}
    /\ UNCHANGED <<chain, visible, params, pc, walk, attempt, result, errors>>

Key_NoType(s) == [msg |-> s.msg, type |-> "in"]                         \* mutant
Key(s) == [msg |-> s.msg, type |-> s.type]

Return(r) == result' = r /\ pc' = "done"

\* The head of the loop: the walk is over, or the next search begins unless
\* the same search was made before.
NextSearch ==
    /\ pc = "next"
    /\ IF queue = <<>>
       THEN /\ Return([verdict |-> "success"])
            /\ UNCHANGED <<queue, current, visitedSearchKeys, attempt>>
       ELSE /\ queue' = Tail(queue)
            /\ IF Key(Head(queue)) \in visitedSearchKeys
               THEN UNCHANGED <<pc, current, visitedSearchKeys, attempt>>
               ELSE /\ visitedSearchKeys' = visitedSearchKeys \cup {Key(Head(queue))}
                    /\ current' = Head(queue)
                    /\ attempt' = 0
                    /\ pc' = "find"
            /\ UNCHANGED result
    /\ UNCHANGED <<chain, visible, beyondLimit, params, processedTxHashes, checkedCount, errors>>

(***************************************************************************)
(* findTransactionByHashType: a message hash finds the transaction that    *)
(* received it ("in"; the root's own hash is "unknown") or the one that    *)
(* sent it ("out"), if the opener has indexed that one and the scan of its *)
(* account reaches it.                                                     *)
(***************************************************************************)
Target(s) == IF s.type = "out" THEN Parents(s.msg) ELSE {s.msg}
Matches(s) == Target(s) \cap (visible \ beyondLimit)

Search(m, type) == [msg |-> m, type |-> type, depth |-> current.depth + 1]

Children(t) ==
    IF params.direction \in {"forward", "both"}
    THEN LET internal == Internal(outs[t])
         IN  [i \in 1..Len(internal) |-> Search(internal[i], "in")]
    ELSE <<>>

\* The root of the chain came in by an external message and has no parent.
Parent(t) ==
    IF params.direction \in {"backward", "both"} /\ Parents(t) # {}
    THEN <<Search(t, "out")>>
    ELSE <<>>

Seen_Never(t) == FALSE                                                  \* mutant
Seen(t) == t \in processedTxHashes

MayDescend == current.depth < params.maxDepth

Enqueue(new) == queue \o new

\* The search finds a transaction: validate it once, then go on to its
\* neighbours unless it is at the depth limit.
Found ==
    /\ pc = "find"
    /\ \E t \in Matches(current) :
           IF Seen(t)
           THEN pc' = "next" /\ UNCHANGED <<queue, processedTxHashes, checkedCount, result>>
           ELSE /\ processedTxHashes' = processedTxHashes \cup {t}
                /\ checkedCount' = checkedCount + 1
                /\ IF Reason(phases[t]) # "none"
                   THEN /\ Return([verdict |-> "invalid", tx |-> t,
                                   reason |-> Reason(phases[t])])
                        /\ UNCHANGED queue
                   ELSE /\ pc' = "next"
                        /\ queue' = IF MayDescend THEN Enqueue(Children(t) \o Parent(t))
                                                  ELSE queue
                        /\ UNCHANGED result
    /\ UNCHANGED <<chain, visible, beyondLimit, params, current, attempt, visitedSearchKeys, errors>>

(***************************************************************************)
(* The search does not find it: not indexed, beyond the scan limit, or the *)
(* lookup threw.  With retryOnNotFound they all count alike and are        *)
(* repeated; without it an exception leaves the walk and a miss ends it at *)
(* once.                                                                   *)
(***************************************************************************)
LookupThrows == errors < MaxErrors /\ errors' = errors + 1
Misses == Matches(current) = {} /\ UNCHANGED errors

NotFound == [verdict |-> "not_found", search |-> current]

MayRetry_OneLess == attempt + 1 < params.retries                        \* mutant
MayRetry == attempt < params.retries

CountAttempt_Forgotten == attempt' = attempt                            \* mutant
CountAttempt == attempt' = attempt + 1

RetryLater ==
    /\ pc = "find"
    /\ params.retryOnNotFound
    /\ MayRetry
    /\ LookupThrows \/ Misses
    /\ CountAttempt
    /\ pc' = "sleep"
    /\ UNCHANGED <<chain, visible, beyondLimit, params, walk, result>>

GiveUp ==
    /\ pc = "find"
    /\ \/ /\ params.retryOnNotFound
          /\ ~MayRetry
          /\ LookupThrows \/ Misses
          /\ Return(NotFound)
       \/ /\ ~params.retryOnNotFound
          /\ Misses
          /\ Return(NotFound)
       \/ /\ ~params.retryOnNotFound
          /\ LookupThrows
          /\ Return([verdict |-> "threw"])
    /\ UNCHANGED <<chain, visible, beyondLimit, params, walk, attempt>>

WakeUp ==
    /\ pc = "sleep"
    /\ pc' = "find"
    /\ UNCHANGED <<chain, visible, beyondLimit, params, walk, attempt, result, errors>>

Walk == NextSearch \/ Found \/ RetryLater \/ GiveUp \/ WakeUp

Next == Walk \/ \E t \in Tx : Index(t) \/ Bury(t)

\* Lookups settle and timers fire; indexing and other traffic are the network's.
Spec == Init /\ [][Next]_vars /\ WF_vars(Walk)

-------------------------------------------------------------------------------
(* Properties *)

SearchType == [msg : Tx, type : {"unknown", "in", "out"}, depth : Nat]

TypeOK ==
    /\ beyondLimit \subseteq visible /\ visible \subseteq Tx
    /\ pc \in {"next", "find", "sleep", "done"}
    /\ \A i \in 1..Len(queue) : queue[i] \in SearchType /\ queue[i].depth <= params.maxDepth
    /\ current \in SearchType
    /\ attempt \in 0..params.retries
    /\ visitedSearchKeys \subseteq [msg : Tx, type : {"unknown", "in", "out"}]
    /\ processedTxHashes \subseteq visible
    /\ result.verdict \in {"pending", "success", "invalid", "not_found", "threw"}

\* The transactions at most d steps of next away from the root.
Reachable(next, d) ==
    LET ball[n \in Nat] ==
            IF n = 0 THEN {Root}
            ELSE ball[n - 1] \cup UNION {next[t] : t \in ball[n - 1]}
    IN  ball[d]

\* Those at most d messages away, in the direction asked for.
Neighbours(t) ==
    (IF params.direction # "backward" THEN {u \in Tx : Sends(t, u)} ELSE {})
        \cup (IF params.direction # "forward" THEN Parents(t) ELSE {})

Within(d) == Reachable([t \in Tx |-> Neighbours(t)], d)

\* What a transaction that went well looks like on chain.
WentWell(t) ==
    \/ ~phases[t].generic
    \/ /\ ~phases[t].aborted
       /\ phases[t].compute \in {"ok", "skipped"}
       /\ phases[t].action \in {"ok", "missing"}

(***************************************************************************)
(* Success means what trackTransactionTree is called for: every            *)
(* transaction at most maxDepth messages from the root was found and went  *)
(* well - in all directions, whatever was indexed late or looked up twice. *)
(***************************************************************************)
SuccessCoversTree ==
    result.verdict = "success" =>
        /\ processedTxHashes = Within(params.maxDepth)
        /\ \A t \in Within(params.maxDepth) : WentWell(t)

(***************************************************************************)
(* A reported failure is a real one, of the first bad transaction that the *)
(* walk met: it lies within the depth asked for, it did not go well, and   *)
(* everything validated before it did.  A not_found, unless a lookup       *)
(* threw, is about a transaction of the tree; it is about one that was     *)
(* found and validated before (the parent is looked up again from its      *)
(* child) only if that one has since fallen behind the scan limit.         *)
(***************************************************************************)
FailureIsReal ==
    /\ result.verdict = "invalid" =>
          /\ result.tx \in Within(params.maxDepth)
          /\ ~WentWell(result.tx)
          /\ \A t \in processedTxHashes \ {result.tx} : WentWell(t)
    /\ result.verdict = "not_found" /\ errors = 0 =>
          \E t \in Within(params.maxDepth) :
              t \in Target(result.search) /\ (t \in processedTxHashes => t \in beyondLimit)

\* What a verdict of the walk says is so, of success as of failure.
VerdictIsRight == SuccessCoversTree /\ FailureIsReal

\* Each transaction is validated and counted once, although it is reached
\* from its parent, from its children and as the root.
ValidatedOnce == checkedCount = Cardinality(processedTxHashes)

\* The queue is in breadth-first order: depths never decrease and differ by
\* at most one; a transaction is first met at its smallest depth.
BreadthFirst ==
    \A i, j \in 1..Len(queue) : i < j =>
        queue[i].depth <= queue[j].depth /\ queue[j].depth <= queue[i].depth + 1

\* The shape of the walk: types, one validation for each transaction, and the
\* order in which the messages are followed.
WalkInv == TypeOK /\ ValidatedOnce /\ BreadthFirst

\* Every walk ends.
WalkEnds == <>(pc = "done")

(***************************************************************************)
(* A tree that is indexed, within the scan limit and well when the walk    *)
(* starts, and whose lookups do not throw more often than one search may   *)
(* retry, is accepted, unless it is refused for a transaction that has     *)
(* fallen behind the scan limit in the meantime.                           *)
(***************************************************************************)
GoodTreeAccepted ==
    (/\ visible = Tx /\ beyondLimit = {}
     /\ current = RootSearch /\ processedTxHashes = {} /\ pc = "next"
     /\ params.retryOnNotFound /\ params.retries >= MaxErrors
     /\ \A t \in Tx : WentWell(t))
        ~> (\/ result.verdict = "success"
            \/ result.verdict = "not_found" /\ Target(result.search) \subseteq beyondLimit)
===============================================================================
