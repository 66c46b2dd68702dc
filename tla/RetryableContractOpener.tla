------------------------ MODULE RetryableContractOpener ------------------------
(***************************************************************************)
(* One call through RetryableContractOpener (adapters/                     *)
(* RetryableContractOpener.ts): executeWithFallback walks the configured   *)
(* openers in order and tryWithRetries gives each of them retries + 1      *)
(* attempts.  Every attempt is one remote operation, whose outcome is      *)
(* chosen here; the wrapper keeps no state across calls, so one call of    *)
(* each method class is the whole behaviour.                               *)
(***************************************************************************)
EXTENDS Naturals

CONSTANTS
    N,         \* number of configured openers
    Retries,   \* Retries[i]: repeated attempts granted to opener i
    NoError,   \* lastError is undefined
    AllFailed  \* the error thrown when there is no lastError to throw

ASSUME OpenersAssumption == N \in Nat \ {0} /\ Retries \in [1..N -> Nat]

(***************************************************************************)
(* Errors, as far as the wrapper looks into them: whether it is a          *)
(* TransactionError, carries an exit code, which HTTP status it carries    *)
(* (0: none), and whether its code or its message names a network failure. *)
(***************************************************************************)
Error == [tx : BOOLEAN, exit : BOOLEAN, status : {0, 404, 429, 503}, net : BOOLEAN]

ASSUME NoErrorAssumption == NoError \notin Error /\ AllFailed \notin Error

isContractExecutionError(e) == e.exit

isTransportError(e) ==
    /\ ~e.tx
    /\ \/ e.status \in {429, 503}
       \/ e.status = 0 /\ e.net

\* No further attempt can help: the retry loop and the fallback both stop.
Final_ExitCodesRetried(e) == e.tx                                 \* mutant
Final(e) == e.tx \/ isContractExecutionError(e)

(***************************************************************************)
(* The public methods differ in what they make of the outcome: "get" needs *)
(* a defined value, "find" and proxied contract methods pass any value on, *)
(* and the two "track" methods fall back on transport errors only.         *)
(***************************************************************************)
Method == {"get", "find", "track"}
Answer == {"value", "undefined"}

StopsFallback_EveryMethod(m, e) == Final(e) \/ ~isTransportError(e)    \* mutant
StopsFallback(m, e) == Final(e) \/ (m = "track" /\ ~isTransportError(e))

VARIABLES
    method,      \* class of the method that was called
    pc,          \* "attempt", "sleep" or "done"
    index,       \* opener of the current attempt; N + 1 when the loop is over
    attempt,     \* attempts already failed at this opener
    lastError,   \* error of the most recent failed attempt
    outcome,     \* what the caller gets: "none", "resolved" or "rejected"
    thrown,      \* the error of a rejected call
    tried        \* tried[i]: attempts made at opener i, over the whole call

vars == <<method, pc, index, attempt, lastError, outcome, thrown, tried>>

Init ==
    /\ method \in Method
    /\ pc = "attempt"
    /\ index = 1
    /\ attempt = 0
    /\ lastError = NoError
    /\ outcome = "none"
    /\ thrown = NoError
    /\ tried = [i \in 1..N |-> 0]

Resolve == outcome' = "resolved" /\ thrown' = NoError /\ pc' = "done"
Reject(e) == outcome' = "rejected" /\ thrown' = e /\ pc' = "done"

CountAttempt == tried' = [tried EXCEPT ![index] = @ + 1]

MayRetry_OnceMore == attempt <= Retries[index]                          \* mutant
MayRetry == attempt < Retries[index]

NextOpener_SkipsOne == index + 2                                        \* mutant
NextOpener == index + 1

\* The operation answers.  A "get" method rejects an undefined answer with
\* the generic error: errors of the attempts before it are dropped.
Succeed ==
    /\ pc = "attempt"
    /\ CountAttempt
    /\ \E a \in Answer :
           IF method = "get" /\ a = "undefined" THEN Reject(AllFailed) ELSE Resolve
    /\ UNCHANGED <<method, index, attempt, lastError>>

\* An error the retry loop does not retry ends the whole call.
FailFinally ==
    /\ pc = "attempt"
    /\ CountAttempt
    /\ \E e \in Error : Final(e) /\ lastError' = e /\ Reject(e)
    /\ UNCHANGED <<method, index, attempt>>

\* Any other error is retried at the same opener while it has retries left.
FailAndRetry ==
    /\ pc = "attempt"
    /\ MayRetry
    /\ CountAttempt
    /\ \E e \in Error : ~Final(e) /\ lastError' = e
    /\ attempt' = attempt + 1
    /\ pc' = "sleep"
    /\ UNCHANGED <<method, index, outcome, thrown>>

\* The last attempt at an opener: only its error decides about falling back.
ExhaustOpener ==
    /\ pc = "attempt"
    /\ ~MayRetry
    /\ CountAttempt
    /\ \E e \in Error :
           /\ ~Final(e)
           /\ lastError' = e
           /\ \/ /\ StopsFallback(method, e)
                 /\ Reject(e)
                 /\ UNCHANGED <<index, attempt>>
              \/ /\ ~StopsFallback(method, e)
                 /\ index' = NextOpener
                 /\ attempt' = 0
                 /\ IF index >= N THEN Reject(e) ELSE UNCHANGED <<pc, outcome, thrown>>
    /\ UNCHANGED method

\* sleep(config.retryDelay) between two attempts at one opener.
WakeUp_NotBeforeLastRetry ==                                            \* mutant
    /\ pc = "sleep"
    /\ MayRetry
    /\ pc' = "attempt"
    /\ UNCHANGED <<method, index, attempt, lastError, outcome, thrown, tried>>

WakeUp ==
    /\ pc = "sleep"
    /\ pc' = "attempt"
    /\ UNCHANGED <<method, index, attempt, lastError, outcome, thrown, tried>>

Next == Succeed \/ FailFinally \/ FailAndRetry \/ ExhaustOpener \/ WakeUp

\* Every remote operation settles (the HTTP clients time out) and timers fire.
Spec == Init /\ [][Next]_vars /\ WF_vars(Next)

-------------------------------------------------------------------------------
(* Properties *)

TypeOK ==
    /\ method \in Method
    /\ pc \in {"attempt", "sleep", "done"}
    /\ index \in 1..(N + 1)
    /\ attempt \in Nat
    /\ lastError \in Error \cup {NoError}
    /\ outcome \in {"none", "resolved", "rejected"}
    /\ thrown \in Error \cup {NoError, AllFailed}
    /\ tried \in [1..N -> Nat]

(***************************************************************************)
(* executeWithFallback never leaves an opener before its retries are used  *)
(* up, never turns to a later opener first, and never exceeds the budget   *)
(* of the one it is at, whatever mix of errors the attempts met.           *)
(***************************************************************************)
BudgetSpentInOrder ==
    /\ \A i \in 1..N : i < index => tried[i] = Retries[i] + 1
    /\ \A i \in 1..N : i > index => tried[i] = 0
    /\ index \in 1..N => tried[index] <= Retries[index] + 1

(***************************************************************************)
(* A rejected call is justified: either the error it throws is one that    *)
(* stops the fallback and it is the newest one, or an undefined answer was *)
(* refused, or every opener failed retries + 1 times.                      *)
(***************************************************************************)
RejectionJustified ==
    outcome = "rejected" =>
        \/ thrown = AllFailed /\ method = "get"
        \/ /\ thrown = lastError
           /\ thrown \in Error
           /\ \/ thrown.tx \/ thrown.exit
              \/ method = "track" /\ ~isTransportError(thrown)
              \/ \A i \in 1..N : tried[i] = Retries[i] + 1

(***************************************************************************)
(* No attempt follows a TransactionError or a contract execution error,    *)
(* and a tracking call reaches another opener only over a transport error. *)
(***************************************************************************)
NoAttemptAfterFinalError ==
    [][ /\ (lastError \in Error /\ (lastError.tx \/ lastError.exit)) => tried' = tried
        /\ (method = "track" /\ index' # index) => isTransportError(lastError') ]_vars

\* Every call settles.
CallSettles == <>(pc = "done")

(***************************************************************************)
(* The retry loop implements one pass over the endpoints in order.         *)
(***************************************************************************)
Verdict ==
    IF pc # "done" THEN "pending"
    ELSE IF outcome = "resolved" THEN "answered"
    ELSE IF index = N + 1 THEN "exhausted" ELSE "refused"

Failover == INSTANCE FailoverCall WITH givenUp <- index - 1, verdict <- Verdict

ImplementsFailover == Failover!Spec
===============================================================================
