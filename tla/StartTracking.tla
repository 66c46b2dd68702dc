------------------------------ MODULE StartTracking ------------------------------
(***************************************************************************)
(* startTracking and startTrackingMultiple (sdk/StartTracking.ts): poll    *)
(* the sequencers for the id of an operation, then for its type until it   *)
(* is final, fetch its profile, and check the transactions that it         *)
(* executed in TON.  The operations move on, and the sequencers learn of   *)
(* it at their own pace, while the polling runs.  A caller who does not    *)
(* want to wait asks getSimplifiedOperationStatus (OperationTracker.ts)    *)
(* once instead, whose two requests may reach different sequencers too.    *)
(***************************************************************************)
EXTENDS Naturals, Sequences, FiniteSets, FiniteSetsExt

CONSTANTS
    Linkers,      \* transaction linkers
    N,            \* number of lite sequencers
    Executions,   \* possible outcomes of the transactions of an operation in TON:
                  \* sequences of BOOLEAN, TRUE for one that went well
    Limits,       \* values of maxIterationCount
    MaxErrors     \* bound on requests that fail

ASSUME StartTrackingAssumption ==
    /\ N \in Nat \ {0} /\ Limits \subseteq Nat /\ MaxErrors \in Nat
    /\ Executions \subseteq Seq(BOOLEAN)

Sequencers == 1..N

\* A call: startTracking has one linker; startTrackingMultiple calls it for
\* each of its linkers, always with returnValue set.  verifies: a finalizer (or
\* a contract opener) and the address of the cross-chain layer were passed.
\* asks: what is called, startTracking or getSimplifiedOperationStatus, which has
\* one linker and no options.
Options ==
    {o \in [asks : {"track", "status"}, linkers : SUBSET Linkers \ {{}},
            returnValue : BOOLEAN, verifies : BOOLEAN, maxIterationCount : Limits] :
        /\ Cardinality(o.linkers) > 1 => o.returnValue
        /\ o.asks = "status" => /\ Cardinality(o.linkers) = 1 /\ o.returnValue /\ ~o.verifies
                                /\ o.maxIterationCount = Max(Limits)}

VARIABLES
    executed,   \* executed[l]: l's transactions in TON, once it is final
    rolledBack, \* operations that end in a rollback, of interest to the status only
    stage,      \* stage[s][l]: what sequencer s knows of l: 0 nothing, 1 its id, 2 its end
    options,
    track,      \* track[l]: the call of startTracking for l
    outcome,    \* of the call: "pending", "resolved" or "rejected"
    errors      \* calls of the tracker or the finalizer that have failed

vars == <<executed, rolledBack, stage, options, track, outcome, errors>>

NoProfile == [final |-> FALSE, transactions |-> <<>>]

\* Only startTracking may be told the id.
Start(known) ==
    [pc |-> IF options.asks = "track" THEN "poll" ELSE "id", status |-> "none",
     operationId |-> known, operationType |-> "none", iteration |-> 0,
     profile |-> NoProfile, transactions |-> <<>>]

Init ==
    /\ executed \in [Linkers -> Executions]
    /\ stage \in {[s \in Sequencers |-> [l \in Linkers |-> k]] : k \in {0, 2}}
    /\ options \in Options
    /\ rolledBack \in SUBSET (IF options.asks = "status" THEN options.linkers ELSE {})
    /\ \E known \in {FALSE, options.asks = "track"} : \* linker.operationId is set
           track = [l \in Linkers |-> Start(known)]
    /\ outcome = "pending"
    /\ errors = 0

\* Sequencer s learns of l's id, or of its end.
Learn(s, l) ==
    /\ stage[s][l] < 2
    /\ l \in options.linkers
    /\ \E k \in (stage[s][l] + 1)..2 : stage' = [stage EXCEPT ![s][l] = k]
    /\ UNCHANGED <<executed, rolledBack, options, track, outcome, errors>>

-------------------------------------------------------------------------------
(* startTracking *)

\* Promise.all, or the promise of the one call.
Outcome(t) ==
    IF outcome # "pending" THEN outcome
    ELSE IF \E l \in options.linkers : t[l].pc = "rejected" THEN "rejected"
    ELSE IF \A l \in options.linkers : t[l].pc = "resolved" THEN "resolved"
    ELSE "pending"

Continue(l, next) ==
    /\ track' = [track EXCEPT ![l] = next]
    /\ outcome' = Outcome(track')
    /\ UNCHANGED <<executed, rolledBack, stage, options>>

Fails == errors < MaxErrors /\ errors' = errors + 1

\* The body of the loop is entered with one iteration more; the limit is
\* checked first, so that maxIterationCount - 1 bodies are completed.
MayPoll_OneLess(l) == track[l].iteration + 2 < options.maxIterationCount  \* mutant
MayPoll(l) == track[l].iteration + 1 < options.maxIterationCount

Polls(l) == track[l].pc = "poll" /\ MayPoll(l)
Polled_NotCounted(l) == track[l]                                        \* mutant
Polled(l) == [track[l] EXCEPT !.iteration = @ + 1]

\* OperationTracker takes the answer of the first sequencer whose request does
\* not fail; here, of any.  One that does not know the transaction answers ''.
\* What is thrown when every request fails is ignored.
AskOperationId(l) ==
    /\ Polls(l) /\ ~track[l].operationId
    /\ \/ \E s \in Sequencers :
              Continue(l, [Polled(l) EXCEPT !.operationId = stage[s][l] > 0])
          /\ UNCHANGED errors
       \/ Fails /\ Continue(l, Polled(l))

TypeKnownTo(s, l) == CASE stage[s][l] = 0 -> "UNKNOWN"
                       [] stage[s][l] = 1 -> "PENDING"
                       [] stage[s][l] = 2 -> "FINAL"

IsFinal(type) == type \notin {"PENDING", "UNKNOWN"}

AskOperationType(l) ==
    /\ Polls(l) /\ track[l].operationId
    /\ \/ \E s \in Sequencers :
              LET type == TypeKnownTo(s, l) IN
              Continue(l, [Polled(l) EXCEPT !.operationType = type,
                                            !.pc = IF IsFinal(type) THEN "profile" ELSE "poll"])
          /\ UNCHANGED errors
       \/ Fails /\ Continue(l, Polled(l))

\* Only a caller who wants the value is told.
AfterLimit == IF options.returnValue THEN "rejected" ELSE "profile"

LimitReached(l) ==
    /\ track[l].pc = "poll" /\ ~MayPoll(l)
    /\ Continue(l, [Polled(l) EXCEPT !.pc = AfterLimit])
    /\ UNCHANGED errors

\* A profile comes from any sequencer that knows the operation id; without
\* one, and with an empty id, the request is refused.
FetchProfile(l) ==
    /\ track[l].pc = "profile"
    /\ \/ \E s \in Sequencers :
              LET final == stage[s][l] = 2
                  txs == IF final THEN executed[l] ELSE <<>>
              IN  /\ track[l].operationId /\ stage[s][l] > 0
                  /\ Continue(l, [track[l] EXCEPT
                         !.profile = [final |-> final, transactions |-> txs],
                         !.transactions = IF options.verifies THEN txs ELSE <<>>,
                         !.pc = "verify"])
          /\ UNCHANGED errors
       \/ /\ ~track[l].operationId \/ \A s \in Sequencers : stage[s][l] = 0
          /\ Continue(l, [track[l] EXCEPT !.pc = "rejected"])
          /\ UNCHANGED errors
       \/ Fails /\ Continue(l, [track[l] EXCEPT !.pc = "rejected"])

\* The finalizer rejects a transaction, or cannot look it up.
AfterBadTransaction_Continues(l) ==                                     \* mutant
    [track[l] EXCEPT !.transactions = Tail(@)]
AfterBadTransaction(l) ==
    IF options.returnValue THEN [track[l] EXCEPT !.pc = "rejected"]
                    ELSE [track[l] EXCEPT !.transactions = Tail(@)]

Verify(l) ==
    /\ track[l].pc = "verify" /\ track[l].transactions # <<>>
    /\ \/ /\ Head(track[l].transactions)
          /\ Continue(l, [track[l] EXCEPT !.transactions = Tail(@)])
          /\ UNCHANGED errors
       \/ /\ ~Head(track[l].transactions)
          /\ Continue(l, AfterBadTransaction(l))
          /\ UNCHANGED errors
       \/ Fails /\ Continue(l, AfterBadTransaction(l))

Finish(l) ==
    /\ track[l].pc = "verify" /\ track[l].transactions = <<>>
    /\ Continue(l, [track[l] EXCEPT !.pc = "resolved"])
    /\ UNCHANGED errors

-------------------------------------------------------------------------------
(* getSimplifiedOperationStatus *)

Answer(l, status) == Continue(l, [track[l] EXCEPT !.pc = "resolved", !.status = status])

\* The first request, for the id.  Retries are those of waitUntilSuccess
\* (OperationTracking); what is still thrown after them rejects the call.
StatusOfId(l) ==
    /\ track[l].pc = "id"
    /\ \/ /\ \E s \in Sequencers :
                 IF stage[s][l] = 0
                 THEN Answer(l, "OPERATION_ID_NOT_FOUND")
                 ELSE Continue(l, [track[l] EXCEPT !.pc = "type", !.operationId = TRUE])
          /\ UNCHANGED errors
       \/ Fails /\ Continue(l, [track[l] EXCEPT !.pc = "rejected"])

\* The second, for the type of the operation, to whichever sequencer answers it.
StatusOfType(l, type) ==
    IF ~IsFinal(type) THEN "PENDING"
    ELSE IF l \in rolledBack THEN "FAILED" ELSE "SUCCESSFUL"

AskStatusOfType(l) ==
    /\ track[l].pc = "type"
    /\ \/ \E s \in Sequencers : Answer(l, StatusOfType(l, TypeKnownTo(s, l)))
          /\ UNCHANGED errors
       \/ Fails /\ Continue(l, [track[l] EXCEPT !.pc = "rejected"])

-------------------------------------------------------------------------------

\* A call of the tracker or the finalizer settles.
RequestSettles(l) ==
    /\ l \in options.linkers
    /\ \/ AskOperationId(l) \/ AskOperationType(l) \/ FetchProfile(l) \/ Verify(l)
       \/ StatusOfId(l) \/ AskStatusOfType(l)

\* What a call does without asking anybody.
Proceeds(l) == l \in options.linkers /\ (LimitReached(l) \/ Finish(l))

Step(l) == RequestSettles(l) \/ Proceeds(l)

Next ==
    \/ \E l \in Linkers : Step(l)
    \/ \E s \in Sequencers, l \in Linkers : Learn(s, l)

\* Requests are sent without a timeout and may hang; nothing is assumed of
\* the sequencers.
Spec == Init /\ [][Next]_vars /\ \A l \in Linkers : WF_vars(Proceeds(l))

-------------------------------------------------------------------------------
(* Properties *)

TypeOK ==
    /\ stage \in [Sequencers -> [Linkers -> 0..2]]
    /\ options \in Options
    /\ \A l \in Linkers :
          /\ track[l].pc \in {"poll", "profile", "verify", "id", "type", "resolved", "rejected"}
          /\ track[l].operationId \in BOOLEAN
          /\ track[l].iteration \in 0..Max({1, options.maxIterationCount})
          /\ track[l].operationType \in {"none", "UNKNOWN", "PENDING", "FINAL"}
    /\ outcome \in {"pending", "resolved", "rejected"}
    /\ errors \in 0..MaxErrors

\* A caller who gets a value learns of operations that have ended, all of
\* them if he asked for several, whatever each sequencer knew when it was asked.
ReturnMeansEnded ==
    outcome = "resolved" /\ options.returnValue /\ options.asks = "track" =>
        \A l \in options.linkers : \E s \in Sequencers : stage[s][l] = 2

\* And no profile he gets holds a transaction that failed in TON, unless
\* there was nobody to check it.
ReturnMeansVerified ==
    outcome = "resolved" /\ options.returnValue /\ options.verifies =>
        \A l \in options.linkers :
            \A k \in 1..Len(track[l].profile.transactions) : track[l].profile.transactions[k]

\* Without a failing request, a rejected call had a reason: polling came to
\* its limit, or a transaction failed and there was somebody to check it.
RejectionJustified ==
    outcome = "rejected" /\ errors = 0 =>
        \E l \in options.linkers :
            \/ track[l].iteration >= options.maxIterationCount
            \/ options.verifies /\ \E k \in 1..Len(executed[l]) : ~executed[l][k]

\* The types of a call, and why it was rejected.
CallInv == TypeOK /\ RejectionJustified

\* A status that is final is that of an operation that has ended, and the right
\* one, although the sequencer that told the id may be ahead of the one that told
\* the type or behind it.
StatusIsRight ==
    \A l \in Linkers : track[l].status \in {"SUCCESSFUL", "FAILED"} =>
        /\ \E s \in Sequencers : stage[s][l] = 2
        /\ (track[l].status = "FAILED") = (l \in rolledBack)

\* What a caller who gets an answer may conclude from it.
ReturnMeansEndedAndVerified == ReturnMeansEnded /\ ReturnMeansVerified /\ StatusIsRight

\* Every call settles if the requests it sends do, and so do the calls that
\* Promise.all has given up on.
TrackingEnds ==
    (\A l \in Linkers : WF_vars(RequestSettles(l))) =>
        <>(outcome # "pending"
            /\ \A l \in options.linkers : track[l].pc \in {"resolved", "rejected"})

\* An operation that has ended everywhere is noticed and returned if the requests
\* for it settle, whatever becomes of the others: by a status that is asked for
\* then, and by tracking that has enough iterations left to ask for its id and its
\* type.
EndIsNoticed ==
    \A l \in Linkers : WF_vars(RequestSettles(l)) =>
        ((/\ l \in options.linkers
          /\ \/ track[l].pc = "id"
             \/ track[l].pc = "poll" /\ track[l].iteration + 3 <= options.maxIterationCount
          /\ errors = MaxErrors
          /\ \A s \in Sequencers : stage[s][l] = 2
          /\ \A k \in 1..Len(executed[l]) : executed[l][k])
             ~> (/\ track[l].pc = "resolved"
                 /\ track[l].profile.final \/ track[l].status \in {"SUCCESSFUL", "FAILED"}))
===============================================================================
