------------------------- MODULE ContractOpener_proofs -------------------------
(***************************************************************************)
(* What reads TON.  RetryableContractOpener for any number of openers and  *)
(* any retry counts: its budget and rejection invariants, the action       *)
(* property on final errors, and the refinement of FailoverCall.           *)
(* HistoryScan for any history, range, limits and predicate: what a scan   *)
(* shows of an account that gets transactions meanwhile.                   *)
(***************************************************************************)
EXTENDS RetryableContractOpener, HistoryScan,
        SequenceTheorems, FiniteSetTheorems, WellFoundedInduction, TLAPS

-------------------------------------------------------------------------------
(* RetryableContractOpener *)

\* While the loops run, attempt counts what was tried at the current opener,
\* nothing has been reported yet, and the last error was a curable one.
Running ==
    pc # "done" =>
        /\ index \in 1..N
        /\ tried[index] = attempt
        /\ attempt <= Retries[index]
        /\ outcome = "none"
        /\ thrown = NoError
        /\ lastError = NoError \/ ~Final(lastError)

\* The for loop runs off its end only when the call is over.
LoopOver == index = N + 1 => pc = "done" /\ outcome = "rejected"

IInv == TypeOK /\ BudgetSpentInOrder /\ RejectionJustified /\ Running /\ LoopOver

USE OpenersAssumption, NoErrorAssumption DEF OpenersAssumption, NoErrorAssumption,
    MayRetry, NextOpener

-------------------------------------------------------------------------------

LEMMA InitIInv == Init => IInv
  BY DEF Init, IInv, TypeOK, BudgetSpentInOrder, RejectionJustified, Running, LoopOver

\* An attempt touches the counter of the current opener only.
LEMMA CountedAttempt ==
  ASSUME IInv, pc = "attempt", CountAttempt
  PROVE  /\ tried' \in [1..N -> Nat]
         /\ index \in 1..N
         /\ tried'[index] = attempt + 1
         /\ tried'[index] <= Retries[index] + 1
         /\ \A i \in 1..N : i # index => tried'[i] = tried[i]
  BY DEF IInv, TypeOK, Running, CountAttempt

LEMMA SucceedKeeps == IInv /\ Succeed => IInv'
  <1> SUFFICES ASSUME IInv, Succeed PROVE IInv'
    OBVIOUS
  <1>1. /\ tried' \in [1..N -> Nat]
        /\ index \in 1..N
        /\ tried'[index] <= Retries[index] + 1
        /\ \A i \in 1..N : i # index => tried'[i] = tried[i]
    BY CountedAttempt DEF Succeed
  <1>2. /\ pc' = "done"
        /\ \/ outcome' = "resolved" /\ thrown' = NoError
           \/ outcome' = "rejected" /\ thrown' = AllFailed /\ method = "get"
    BY DEF Succeed, Resolve, Reject
  <1>3. UNCHANGED <<method, index, attempt, lastError>>
    BY DEF Succeed
  <1>4. TypeOK'
    BY <1>1, <1>2, <1>3 DEF IInv, TypeOK
  <1>5. BudgetSpentInOrder'
    BY <1>1, <1>3 DEF IInv, BudgetSpentInOrder, TypeOK
  <1>6. RejectionJustified'
    BY <1>2, <1>3 DEF RejectionJustified
  <1>7. Running' /\ LoopOver'
    BY <1>1, <1>2, <1>3 DEF Running, LoopOver
  <1> QED
    BY <1>4, <1>5, <1>6, <1>7 DEF IInv

LEMMA FailFinallyKeeps == IInv /\ FailFinally => IInv'
  <1> SUFFICES ASSUME IInv, FailFinally PROVE IInv'
    OBVIOUS
  <1>1. /\ tried' \in [1..N -> Nat]
        /\ index \in 1..N
        /\ tried'[index] <= Retries[index] + 1
        /\ \A i \in 1..N : i # index => tried'[i] = tried[i]
    BY CountedAttempt DEF FailFinally
  <1>2. /\ pc' = "done" /\ outcome' = "rejected"
        /\ thrown' \in Error /\ thrown' = lastError' /\ Final(thrown')
        /\ UNCHANGED <<method, index, attempt>>
    BY DEF FailFinally, Reject
  <1>3. TypeOK'
    BY <1>1, <1>2 DEF IInv, TypeOK
  <1>4. BudgetSpentInOrder'
    BY <1>1, <1>2 DEF IInv, BudgetSpentInOrder, TypeOK
  <1>5. RejectionJustified'
    BY <1>2 DEF RejectionJustified, Final, isContractExecutionError
  <1>6. Running' /\ LoopOver'
    BY <1>1, <1>2 DEF Running, LoopOver
  <1> QED
    BY <1>3, <1>4, <1>5, <1>6 DEF IInv

LEMMA FailAndRetryKeeps == IInv /\ FailAndRetry => IInv'
  <1> SUFFICES ASSUME IInv, FailAndRetry PROVE IInv'
    OBVIOUS
  <1>1. /\ tried' \in [1..N -> Nat]
        /\ index \in 1..N
        /\ tried'[index] = attempt + 1
        /\ tried'[index] <= Retries[index] + 1
        /\ \A i \in 1..N : i # index => tried'[i] = tried[i]
    BY CountedAttempt DEF FailAndRetry
  <1>2. /\ pc' = "sleep" /\ attempt' = attempt + 1 /\ attempt < Retries[index]
        /\ lastError' \in Error /\ ~Final(lastError')
        /\ UNCHANGED <<method, index, outcome, thrown>>
    BY DEF FailAndRetry
  <1>3. outcome = "none" /\ thrown = NoError /\ attempt \in Nat
    BY DEF IInv, Running, FailAndRetry, TypeOK
  <1>4. TypeOK'
    BY <1>1, <1>2, <1>3 DEF IInv, TypeOK
  <1>5. BudgetSpentInOrder'
    BY <1>1, <1>2 DEF IInv, BudgetSpentInOrder, TypeOK
  <1>6. RejectionJustified'
    BY <1>2, <1>3 DEF RejectionJustified
  <1>7. Retries[index] \in Nat /\ attempt + 1 <= Retries[index]
    BY <1>1, <1>2, <1>3
  <1>8. Running' /\ LoopOver'
    BY <1>1, <1>2, <1>3, <1>7 DEF Running, LoopOver
  <1> QED
    BY <1>4, <1>5, <1>6, <1>8 DEF IInv

LEMMA ExhaustOpenerKeeps == IInv /\ ExhaustOpener => IInv'
  <1> SUFFICES ASSUME IInv, ExhaustOpener PROVE IInv'
    OBVIOUS
  <1>1. /\ tried' \in [1..N -> Nat]
        /\ index \in 1..N
        /\ tried'[index] = Retries[index] + 1
        /\ \A i \in 1..N : i # index => tried'[i] = tried[i]
    <2>1. pc = "attempt" /\ CountAttempt /\ ~(attempt < Retries[index])
      BY DEF ExhaustOpener
    <2>2. index \in 1..N /\ attempt \in Nat /\ attempt <= Retries[index]
      BY <2>1 DEF IInv, Running, TypeOK
    <2>3. Retries[index] \in Nat
      BY <2>2
    <2>4. attempt = Retries[index]
      BY <2>1, <2>2, <2>3
    <2> QED
      BY <2>1, <2>4, CountedAttempt
  <1>2. PICK e \in Error :
           /\ ~Final(e)
           /\ lastError' = e
           /\ \/ /\ StopsFallback(method, e)
                 /\ Reject(e)
                 /\ UNCHANGED <<index, attempt>>
              \/ /\ ~StopsFallback(method, e)
                 /\ index' = index + 1
                 /\ attempt' = 0
                 /\ IF index >= N THEN Reject(e) ELSE UNCHANGED <<pc, outcome, thrown>>
    BY DEF ExhaustOpener
  <1>3. method' = method /\ pc = "attempt" /\ outcome = "none" /\ thrown = NoError
    BY DEF ExhaustOpener, IInv, Running
  <1>4. \A i \in 1..N : i < index => tried'[i] = Retries[i] + 1
    BY <1>1 DEF IInv, BudgetSpentInOrder, TypeOK
  <1>5. \A i \in 1..N : i > index => tried'[i] = 0
    BY <1>1 DEF IInv, BudgetSpentInOrder, TypeOK
  <1>6. CASE StopsFallback(method, e) /\ Reject(e) /\ UNCHANGED <<index, attempt>>
    <2>1. TypeOK'
      BY <1>1, <1>2, <1>3, <1>6 DEF IInv, TypeOK, Reject
    <2>2. BudgetSpentInOrder'
      BY <1>1, <1>4, <1>5, <1>6 DEF BudgetSpentInOrder
    <2>3. RejectionJustified'
      BY <1>2, <1>3, <1>6 DEF RejectionJustified, Reject, StopsFallback
    <2>4. Running' /\ LoopOver'
      BY <1>1, <1>6 DEF Running, LoopOver, Reject
    <2> QED
      BY <2>1, <2>2, <2>3, <2>4 DEF IInv
  <1>7. CASE /\ index' = index + 1
             /\ attempt' = 0
             /\ IF index >= N THEN Reject(e) ELSE UNCHANGED <<pc, outcome, thrown>>
    <2>1. TypeOK'
      BY <1>1, <1>2, <1>3, <1>7 DEF IInv, TypeOK, Reject
    <2>2. \A i \in 1..N : i < index' => tried'[i] = Retries[i] + 1
      BY <1>1, <1>4, <1>7
    <2>3. \A i \in 1..N : i >= index' => tried'[i] = 0
      BY <1>1, <1>5, <1>7
    <2>4. BudgetSpentInOrder'
      BY <2>2, <2>3, <1>1, <1>7 DEF BudgetSpentInOrder
    <2>5. CASE index = N
      <3>1. \A i \in 1..N : tried'[i] = Retries[i] + 1
        BY <2>2, <2>5, <1>7
      <3>2. /\ pc' = "done" /\ outcome' = "rejected"
            /\ thrown' = lastError' /\ thrown' \in Error
        BY <1>2, <1>7, <2>5 DEF Reject
      <3>3. RejectionJustified'
        BY <3>1, <3>2 DEF RejectionJustified
      <3> QED
        BY <2>1, <2>4, <3>2, <3>3 DEF IInv, Running, LoopOver
    <2>6. CASE index # N
      <3>1. /\ index' \in 1..N /\ index' # N + 1
            /\ UNCHANGED <<pc, outcome, thrown>>
        BY <1>1, <1>7, <2>6
      <3>2. Running' /\ LoopOver'
        BY <1>2, <1>3, <1>7, <2>3, <3>1 DEF Running, LoopOver
      <3>3. RejectionJustified'
        BY <1>3, <3>1 DEF RejectionJustified
      <3> QED
        BY <2>1, <2>4, <3>2, <3>3 DEF IInv
    <2> QED
      BY <2>5, <2>6
  <1> QED
    BY <1>2, <1>6, <1>7

LEMMA WakeUpKeeps == IInv /\ WakeUp => IInv'
  BY DEF IInv, WakeUp, TypeOK, BudgetSpentInOrder, RejectionJustified, Running, LoopOver

LEMMA NextKeepsIInv == IInv /\ [Next]_vars => IInv'
  <1>1. IInv /\ UNCHANGED vars => IInv'
    BY DEF IInv, vars, TypeOK, BudgetSpentInOrder, RejectionJustified, Running, LoopOver
  <1> QED
    BY <1>1, SucceedKeeps, FailFinallyKeeps, FailAndRetryKeeps, ExhaustOpenerKeeps,
       WakeUpKeeps DEF Next

LEMMA IInvAlways == Spec => []IInv
  BY InitIInv, NextKeepsIInv, PTL DEF Spec

-------------------------------------------------------------------------------

(***************************************************************************)
(* The variables keep their types: in particular the opener index never    *)
(* leaves the configured list while the loop runs.                         *)
(***************************************************************************)
THEOREM TypeCorrect == Spec => []TypeOK
  <1>1. IInv => TypeOK
    BY DEF IInv
  <1> QED
    BY <1>1, IInvAlways, PTL

(***************************************************************************)
(* executeWithFallback spends the whole budget of an opener before the     *)
(* next one is contacted, and never more than it.                          *)
(***************************************************************************)
THEOREM BudgetTheorem == Spec => []BudgetSpentInOrder
  <1>1. IInv => BudgetSpentInOrder
    BY DEF IInv
  <1> QED
    BY <1>1, IInvAlways, PTL

(***************************************************************************)
(* The wrapper rejects a call only with an error that stops the fallback,  *)
(* or when all openers have used all their attempts.                       *)
(***************************************************************************)
THEOREM RejectionTheorem == Spec => []RejectionJustified
  <1>1. IInv => RejectionJustified
    BY DEF IInv
  <1> QED
    BY <1>1, IInvAlways, PTL

(***************************************************************************)
(* After a TransactionError or a contract execution error nothing is sent  *)
(* any more; tracking changes the opener on transport errors only.         *)
(***************************************************************************)
THEOREM FinalErrorTheorem == Spec => NoAttemptAfterFinalError
  <1> DEFINE Step == /\ (lastError \in Error /\ (lastError.tx \/ lastError.exit))
                           => tried' = tried
                     /\ (method = "track" /\ index' # index) => isTransportError(lastError')
  <1>1. IInv /\ [Next]_vars => [Step]_vars
    <2> SUFFICES ASSUME IInv, Next PROVE Step
      OBVIOUS
    <2>1. pc # "done" => ~(lastError \in Error /\ (lastError.tx \/ lastError.exit))
      BY DEF IInv, Running, Final, isContractExecutionError
    <2>2. CASE Succeed \/ FailFinally \/ FailAndRetry \/ WakeUp
      BY <2>1, <2>2 DEF Succeed, FailFinally, FailAndRetry, WakeUp
    <2>3. CASE ExhaustOpener
      BY <2>1, <2>3 DEF ExhaustOpener, StopsFallback, IInv, TypeOK
    <2> QED
      BY <2>2, <2>3 DEF Next
  <1> QED
    BY <1>1, IInvAlways, PTL DEF Spec, NoAttemptAfterFinalError

(***************************************************************************)
(* The retry loops implement the abstract failover: openers are given up   *)
(* in order, one at a time, and the call fails as exhausted only at the    *)
(* last one.                                                               *)
(***************************************************************************)
THEOREM FailoverTheorem == Spec => ImplementsFailover
  <1>1. Init => Failover!Init
    BY DEF Init, Failover!Init, Verdict
  <1>2. IInv /\ [Next]_vars => [Failover!Next]_(Failover!vars)
    <2> SUFFICES ASSUME IInv, [Next]_vars
                 PROVE  Failover!Next \/ UNCHANGED Failover!vars
      OBVIOUS
    <2>1. index \in Nat /\ N \in Nat /\ pc \in {"attempt", "sleep", "done"}
      BY DEF IInv, TypeOK
    <2>2. pc # "done" => index # N + 1 /\ index \in 1..N
      BY <2>1 DEF IInv, LoopOver, Running
    <2>3. CASE Succeed
      <3>1. /\ pc = "attempt" /\ pc' = "done" /\ index' = index
            /\ outcome' \in {"resolved", "rejected"}
        BY <2>3 DEF Succeed, Resolve, Reject
      <3>2. Verdict = "pending" /\ Verdict' \in {"answered", "refused"}
        BY <2>2, <3>1 DEF Verdict
      <3> QED
        BY <3>1, <3>2 DEF Failover!Next, Failover!Settle
    <2>4. CASE FailFinally
      <3>1. pc = "attempt" /\ pc' = "done" /\ index' = index /\ outcome' = "rejected"
        BY <2>4 DEF FailFinally, Reject
      <3>2. Verdict = "pending" /\ Verdict' = "refused"
        BY <2>2, <3>1 DEF Verdict
      <3> QED
        BY <3>1, <3>2 DEF Failover!Next, Failover!Settle
    <2>5. CASE FailAndRetry
      <3>1. Verdict = "pending" /\ Verdict' = "pending" /\ index' = index
        BY <2>5 DEF FailAndRetry, Verdict
      <3> QED
        BY <3>1 DEF Failover!vars
    <2>6. CASE ExhaustOpener
      <3>1. PICK e \in Error :
               \/ /\ Reject(e)
                  /\ UNCHANGED <<index, attempt>>
               \/ /\ index' = index + 1
                  /\ IF index >= N THEN Reject(e) ELSE UNCHANGED <<pc, outcome, thrown>>
        BY <2>6 DEF ExhaustOpener
      <3>2. pc = "attempt"
        BY <2>6 DEF ExhaustOpener
      <3>3. CASE Reject(e) /\ UNCHANGED <<index, attempt>>
        <4>1. Verdict = "pending" /\ Verdict' = "refused"
          BY <2>2, <3>2, <3>3 DEF Reject, Verdict
        <4> QED
          BY <3>3, <4>1 DEF Failover!Next, Failover!Settle
      <3>4. CASE index' = index + 1 /\ index >= N /\ Reject(e)
        <4>1. index = N
          BY <2>1, <2>2, <3>2, <3>4
        <4>2. Verdict = "pending" /\ Verdict' = "exhausted"
          BY <2>1, <3>2, <3>4, <4>1 DEF Reject, Verdict
        <4> QED
          BY <2>1, <3>4, <4>1, <4>2 DEF Failover!Next, Failover!GiveUp
      <3>5. CASE index' = index + 1 /\ ~(index >= N) /\ UNCHANGED <<pc, outcome, thrown>>
        <4>1. Verdict = "pending" /\ Verdict' = "pending"
          BY <3>2, <3>5 DEF Verdict
        <4> QED
          BY <2>1, <2>2, <3>2, <3>5, <4>1 DEF Failover!Next, Failover!GiveUp
      <3> QED
        BY <3>1, <3>3, <3>4, <3>5
    <2>7. CASE WakeUp
      BY <2>7 DEF WakeUp, Failover!vars, Verdict
    <2>8. CASE UNCHANGED vars
      BY <2>8 DEF vars, Failover!vars, Verdict
    <2> QED
      BY <2>3, <2>4, <2>5, <2>6, <2>7, <2>8 DEF Next
  <1> QED
    BY <1>1, <1>2, IInvAlways, PTL DEF Spec, ImplementsFailover, Failover!Spec

-------------------------------------------------------------------------------
(* HistoryScan: sets of logical times and their pages *)

\* The least of a set of natural numbers.
LEMMA Least ==
  ASSUME NEW T, T \subseteq Nat, T # {}
  PROVE  Min(T) \in T /\ \A y \in T : Min(T) <= y
  <1> DEFINE R == OpToRel(<, Nat)
  <1>1. IsWellFoundedOn(R, Nat)
    BY NatLessThanWellFounded, Zenon
  <1>2. \A x, y \in Nat : y < x => <<y, x>> \in R
    BY DEF OpToRel
  <1> HIDE DEF R
  <1>3. PICK x \in T : \A y \in T : ~ (<<y, x>> \in R)
    BY <1>1, WFMin
  <1>4. \A y \in T : x <= y
    <2> SUFFICES ASSUME NEW y \in T PROVE x <= y
      OBVIOUS
    <2>1. x \in Nat /\ y \in Nat /\ ~ (y < x)
      BY <1>2, <1>3
    <2> QED
      BY <2>1
  <1> QED
    BY <1>3, <1>4 DEF Min

\* Induction over the natural numbers, for a set.
LEMMA ScanInduction ==
  ASSUME NEW S, 0 \in S, \A n \in Nat : n \in S => n + 1 \in S
  PROVE  \A n \in Nat : n \in S
  <1> DEFINE T == Nat \ S
  <1> SUFFICES ASSUME T # {} PROVE FALSE
    OBVIOUS
  <1>1. PICK m \in T : \A y \in T : m <= y
    BY Least
  <1>2. m \in Nat /\ m # 0
    BY <1>1
  <1>3. m - 1 \in Nat /\ ~ (m <= m - 1) /\ m - 1 + 1 = m
    BY <1>2
  <1>4. m - 1 \in S
    BY <1>1, <1>3
  <1> QED
    BY <1>1, <1>3, <1>4

\* The greatest of a set that is bounded.
LEMMA Greatest ==
  ASSUME NEW S, S \subseteq 0..MaxLt, S # {}
  PROVE  Max(S) \in S /\ \A y \in S : Max(S) >= y
  <1> DEFINE U == {n \in Nat : \A y \in S : n >= y}
  <1>1. MaxLt \in U
    BY ScanAssumption
  <1>2. Min(U) \in U /\ \A y \in U : Min(U) <= y
    BY <1>1, Least
  <1>3. Min(U) \in S
    <2> SUFFICES ASSUME Min(U) \notin S PROVE FALSE
      OBVIOUS
    <2>1. \A y \in S : y \in Nat /\ Min(U) > y /\ Min(U) - 1 >= y
      BY <1>2
    <2>2. Min(U) - 1 \in Nat
      <3>1. PICK y \in S : TRUE
        OBVIOUS
      <3>2. Min(U) \in Nat /\ y \in Nat /\ Min(U) > y
        BY <1>2, <2>1
      <3> QED
        BY <3>2
    <2>3. Min(U) - 1 \in U
      BY <2>1, <2>2
    <2> QED
      BY <1>2, <2>2, <2>3
  <1> QED
    BY <1>2, <1>3 DEF Max

LEMMA Counted ==
  ASSUME NEW S, S \subseteq Lt
  PROVE  IsFiniteSet(S) /\ Cardinality(S) \in Nat
  <1>1. IsFiniteSet(Lt)
    BY ScanAssumption, FS_Interval DEF Lt
  <1> QED
    BY <1>1, FS_Subset, FS_CardinalityType

IsListed(page, S) ==
    /\ page \in [1..Cardinality(S) -> S]
    /\ \A i, j \in 1..Cardinality(S) : i < j => page[i] > page[j]
    /\ \A lt \in S : \E i \in 1..Cardinality(S) : page[i] = lt

ListedUpTo(n) == \A T \in SUBSET (1..n) : T \subseteq Lt => \E page : IsListed(page, T)

\* Every set of transactions can be listed, newest first.
LEMMA ListedIs ==
  ASSUME NEW S, S \subseteq Lt
  PROVE  IsListed(Listed(S), S)
  <1> DEFINE P == {n \in Nat : ListedUpTo(n)}
  <1>1. 0 \in P
    <2>1. ASSUME NEW T \in SUBSET (1..0) PROVE IsListed(<<>>, T)
      <3>1. T = {} /\ Cardinality({}) = 0
        BY FS_EmptySet
      <3> QED
        BY <3>1 DEF IsListed
    <2> QED
      BY <2>1 DEF ListedUpTo
  <1>2. ASSUME NEW n \in Nat, n \in P PROVE n + 1 \in P
    <2>0. n + 1 \in Nat /\ ListedUpTo(n)
      BY <1>2
    <2> SUFFICES ASSUME NEW T \in SUBSET (1..(n + 1)), T \subseteq Lt
                 PROVE  \E page : IsListed(page, T)
      BY <2>0 DEF ListedUpTo
    <2>1. CASE n + 1 \notin T
      <3>1. T \in SUBSET (1..n)
        BY <2>1
      <3> QED
        BY <2>0, <3>1 DEF ListedUpTo
    <2>2. CASE n + 1 \in T
      <3> DEFINE U == T \ {n + 1}
                 c == Cardinality(U)
      <3>1. U \in SUBSET (1..n) /\ U \subseteq Lt /\ \A lt \in U : lt \in Nat /\ lt < n + 1
        OBVIOUS
      <3>2. c \in Nat /\ Cardinality(T) = c + 1
        <4>1. IsFiniteSet(U) /\ Cardinality(U) \in Nat
          BY <3>1, Counted
        <4>2. T = U \cup {n + 1} /\ n + 1 \notin U
          BY <2>2
        <4> HIDE DEF U
        <4> QED
          BY <4>1, <4>2, FS_AddElement
      <3>3. PICK rest : IsListed(rest, U)
        BY <2>0, <3>1 DEF ListedUpTo
      <3>4. /\ rest \in [1..c -> U]
            /\ \A i, j \in 1..c : i < j => rest[i] > rest[j]
            /\ \A lt \in U : \E i \in 1..c : rest[i] = lt
        BY <3>3 DEF IsListed
      <3> DEFINE page == [i \in 1..(c + 1) |-> IF i = 1 THEN n + 1 ELSE rest[i - 1]]
      <3> HIDE DEF c
      <3>5. \A i \in 1..(c + 1) : i = 1 \/ i - 1 \in 1..c
        BY <3>2
      <3>6. page \in [1..(c + 1) -> T]
        BY <2>2, <3>2, <3>4, <3>5
      <3>7. ASSUME NEW i \in 1..(c + 1), NEW j \in 1..(c + 1), i < j PROVE page[i] > page[j]
        <4>1. j - 1 \in 1..c /\ page[j] = rest[j - 1] /\ rest[j - 1] \in U
          BY <3>2, <3>4, <3>7
        <4>2. CASE i = 1
          BY <3>1, <4>1, <4>2
        <4>3. CASE i # 1
          <5>1. i - 1 \in 1..c /\ i - 1 < j - 1 /\ page[i] = rest[i - 1]
            BY <3>2, <3>7, <4>3
          <5> QED
            BY <3>4, <4>1, <5>1
        <4> QED
          BY <4>2, <4>3
      <3>8. ASSUME NEW lt \in T PROVE \E i \in 1..(c + 1) : page[i] = lt
        <4>1. CASE lt = n + 1
          BY <3>2, <4>1
        <4>2. CASE lt # n + 1
          <5>1. PICK i \in 1..c : rest[i] = lt
            BY <3>4, <4>2
          <5>2. i + 1 \in 1..(c + 1) /\ i + 1 # 1 /\ i + 1 - 1 = i
            BY <3>2
          <5>3. page[i + 1] = lt
            BY <5>1, <5>2
          <5> QED
            BY <5>2, <5>3
        <4> QED
          BY <4>1, <4>2
      <3> HIDE DEF page
      <3>9. IsListed(page, T)
        BY <3>2, <3>6, <3>7, <3>8 DEF IsListed
      <3> QED
        BY <3>9
    <2> QED
      BY <2>1, <2>2
  <1>3. \A n \in Nat : n \in P
    <2> HIDE DEF P
    <2> QED
      BY <1>1, <1>2, ScanInduction
  <1>4. MaxLt \in P
    BY <1>3, ScanAssumption
  <1>5. \E page : IsListed(page, S)
    BY <1>4 DEF Lt, ListedUpTo
  <1>6. \E page \in [1..Cardinality(S) -> S] :
           /\ \A i, j \in 1..Cardinality(S) : i < j => page[i] > page[j]
           /\ \A lt \in S : \E i \in 1..Cardinality(S) : page[i] = lt
    BY <1>5 DEF IsListed
  <1> QED
    BY <1>6 DEF IsListed, Listed

\* What is left out is older than what is not, of which there are two at least.
LEMMA NewestIs ==
  ASSUME NEW S, S \subseteq Lt, NEW n \in Nat, n > 1, NEW lt \in S \ Newest(S, n)
  PROVE  /\ \A x \in Newest(S, n) : x > lt
         /\ \E a, b \in Newest(S, n) : a # b
  <1> DEFINE Later(x) == {later \in S : later > x}
  <1>0. \A x \in S : Later(x) \subseteq Lt /\ Later(x) \subseteq S
    OBVIOUS
  <1>1. \A x \in S : IsFiniteSet(Later(x)) /\ Cardinality(Later(x)) \in Nat
    BY <1>0, Counted
  <1>2. \A x \in S : x \in Newest(S, n) <=> Cardinality(Later(x)) < n
    BY DEF Newest
  <1>3. Cardinality(Later(lt)) >= n
    <2>1. Cardinality(Later(lt)) \in Nat /\ ~ (Cardinality(Later(lt)) < n)
      BY <1>1, <1>2, Zenon
    <2> HIDE DEF Later
    <2> QED
      BY <2>1
  <1>4. \A x \in S : x \in Nat
    BY ScanAssumption DEF Lt
  <1>5. ASSUME NEW x \in Newest(S, n) PROVE x > lt
    <2> SUFFICES ASSUME ~ (x > lt) PROVE FALSE
      OBVIOUS
    <2>1. x \in S
      BY DEF Newest
    <2>2. Later(lt) \subseteq Later(x)
      BY <1>4, <2>1
    <2>3. Cardinality(Later(lt)) <= Cardinality(Later(x))
      BY <1>1, <2>1, <2>2, FS_Subset
    <2> QED
      <3>1. Cardinality(Later(x)) < n
        BY <1>2, <2>1
      <3>2. Cardinality(Later(x)) \in Nat /\ Cardinality(Later(lt)) \in Nat
        BY <1>1, <2>1
      <3> HIDE DEF Later
      <3> QED
        BY <1>3, <2>3, <3>1, <3>2
  <1> DEFINE a == Max(S)
             others == S \ {a}
             b == Max(others)
  <1>6. a \in S /\ \A y \in S : a >= y
    <2>1. S \subseteq 0..MaxLt /\ S # {}
      BY ScanAssumption DEF Lt
    <2> QED
      BY <2>1, Greatest
  <1>7. others # {}
    <2> SUFFICES ASSUME S \subseteq {a} PROVE FALSE
      OBVIOUS
    <2>1. Later(lt) = {}
      BY <1>4, <1>6
    <2>2. Cardinality(Later(lt)) = 0
      BY <2>1, FS_EmptySet
    <2> QED
      BY <1>3, <2>2
  <1>8. b \in others /\ \A y \in others : b >= y
    <2>1. others \subseteq 0..MaxLt
      <3>1. S \subseteq 0..MaxLt
        BY ScanAssumption DEF Lt
      <3> QED
        BY <3>1
    <2> HIDE DEF others
    <2> QED
      BY <1>7, <2>1, Greatest
  <1>9. Cardinality(Later(a)) = 0
    <2>1. Later(a) = {}
      BY <1>4, <1>6
    <2> QED
      BY <2>1, FS_EmptySet
  <1>10. Cardinality(Later(b)) <= 1
    <2>1. Later(b) \subseteq {a}
      <3> SUFFICES ASSUME NEW y \in S, y > b, y # a PROVE FALSE
        OBVIOUS
      <3>1. y \in others /\ y \in Nat /\ b \in Nat
        BY <1>4, <1>8
      <3>2. b >= y
        BY <1>8, <3>1
      <3> HIDE DEF a, b, others
      <3> QED
        BY <3>1, <3>2
    <2>2. IsFiniteSet({a}) /\ Cardinality({a}) = 1
      BY FS_Singleton
    <2> QED
      BY <2>1, <2>2, FS_Subset
  <1>11. a \in Newest(S, n) /\ b \in Newest(S, n) /\ a # b
    <2>1. b \in S /\ a # b
      BY <1>8
    <2> HIDE DEF a, b, others, Later
    <2> QED
      BY <1>1, <1>2, <1>6, <1>9, <1>10, <2>1
  <1> QED
    BY <1>5, <1>11

Params ==
    /\ params.api \in {"ton", "lite"} /\ params.inclusive \in BOOLEAN
    /\ params.limit \in Nat /\ params.limit > 1
    /\ params.start \in {None} \cup Lt /\ params.to_lt \in {None} \cup Lt
    /\ params.maxScanned \in Nat

\* A page holds transactions up to the cursor, newest first, and if one that is
\* in the range is not on it, it is older than two that are.
LEMMA PageIs ==
  ASSUME history \subseteq Lt, Params, currentLt \in {None} \cup Lt
  PROVE  /\ Page \in Seq(history)
         /\ \A i \in 1..Len(Page) : currentLt = None \/ Page[i] <= currentLt
         /\ \A i, j \in 1..Len(Page) : i < j => Page[i] > Page[j]
         /\ \A lt \in history : lt > params.to_lt /\ (currentLt = None \/ lt < currentLt) =>
                \/ \E i \in 1..Len(Page) : Page[i] = lt
                \/ Len(Page) > 1 /\ \A i \in 1..Len(Page) : Page[i] > lt
  <1> DEFINE from == {lt \in history : currentLt = None \/ lt <= currentLt}
             asked == {lt \in from : lt > params.to_lt /\ (params.inclusive \/ lt # currentLt)}
             n == params.limit
             kept == IF params.api = "ton" THEN Newest(asked, n)
                     ELSE {lt \in Newest(from, n) :
                              lt > params.to_lt \/ (params.inclusive /\ lt = params.to_lt)}
  <1>1. Page = Listed(kept)
    BY DEF Page
  <1>2. n \in Nat /\ n > 1 /\ from \subseteq Lt /\ asked \subseteq Lt
    BY DEF Params
  <1>3. kept \subseteq from
    BY DEF Newest
  <1>4. ASSUME NEW lt \in history, lt > params.to_lt, currentLt = None \/ lt < currentLt,
               lt \notin kept
        PROVE  (\A x \in kept : x > lt) /\ \E a, b \in kept : a # b
    <2>1. lt \in Nat /\ params.to_lt \in Nat /\ (currentLt = None \/ lt # currentLt)
      <3>1. lt \in Nat /\ params.to_lt \in Nat
        BY ScanAssumption DEF Params, Lt, None
      <3> QED
        BY <1>4, <3>1
    <2>2. lt # currentLt /\ lt \in from /\ lt \in asked
      <3>1. lt # None
        BY <1>4, ScanAssumption DEF Lt, None
      <3>2. currentLt = None \/ lt <= currentLt
        <4>1. currentLt \in Nat /\ lt \in Nat
          BY ScanAssumption DEF Lt, None
        <4> QED
          BY <1>4, <4>1
      <3> QED
        BY <1>4, <2>1, <3>1, <3>2
    <2>3. CASE params.api = "ton"
      <3>1. kept = Newest(asked, n)
        BY <2>3
      <3> HIDE DEF kept, asked, n
      <3> QED
        BY <1>2, <1>4, <2>2, <3>1, NewestIs
    <2>4. CASE params.api # "ton"
      <3> DEFINE newest == Newest(from, n)
      <3>1. kept = {x \in newest :
                       x > params.to_lt \/ (params.inclusive /\ x = params.to_lt)}
        BY <2>4
      <3>2. lt \notin newest
        BY <1>4, <3>1
      <3>3. (\A x \in newest : x > lt) /\ \E a, b \in newest : a # b
        <4> HIDE DEF from, n
        <4> QED
          BY <1>2, <2>2, <3>2, NewestIs
      <3>4. \A x \in newest : x \in Nat
        BY ScanAssumption DEF Newest, Lt
      <3>5. \A x \in newest : x > params.to_lt
        <4> SUFFICES ASSUME NEW x \in newest PROVE x > params.to_lt
          OBVIOUS
        <4>1. x \in Nat /\ x > lt
          BY <3>3, <3>4
        <4> QED
          BY <1>4, <2>1, <4>1
      <3> HIDE DEF kept, newest
      <3> QED
        BY <3>1, <3>3, <3>5
    <2> QED
      BY <2>3, <2>4
  <1> DEFINE c == Cardinality(kept)
  <1>5. /\ Page \in [1..c -> kept] /\ c \in Nat
        /\ \A i, j \in 1..c : i < j => Page[i] > Page[j]
        /\ \A lt \in kept : \E i \in 1..c : Page[i] = lt
    <2>1. kept \subseteq Lt
      BY <1>2, <1>3
    <2> HIDE DEF kept
    <2> QED
      BY <1>1, <2>1, ListedIs, Counted DEF IsListed
  <1>6. Len(Page) = c /\ Page \in Seq(history)
    <2>1. kept \subseteq history
      BY <1>3
    <2> HIDE DEF kept, c
    <2>2. Page \in [1..c -> history]
      BY <1>5, <2>1
    <2> QED
      <3>1. Page \in Seq(history)
        BY <1>5, <2>2, SeqDef
      <3>2. Len(Page) \in Nat /\ DOMAIN Page = 1..Len(Page) /\ DOMAIN Page = 1..c
        BY <2>2, <3>1, LenProperties
      <3> HIDE DEF c
      <3> QED
        BY <1>5, <3>1, <3>2
  <1>7. \A i \in 1..c : currentLt = None \/ Page[i] <= currentLt
    BY <1>3, <1>5
  <1>8. ASSUME NEW lt \in history, lt > params.to_lt, currentLt = None \/ lt < currentLt
        PROVE  \/ \E i \in 1..c : Page[i] = lt
               \/ c > 1 /\ \A i \in 1..c : Page[i] > lt
    <2> HIDE DEF kept, c
    <2>1. CASE lt \in kept
      BY <1>5, <2>1
    <2>2. CASE lt \notin kept
      <3>1. PICK a \in kept, b \in kept : a # b
        BY <1>4, <1>8, <2>2
      <3>2. PICK i \in 1..c, j \in 1..c : Page[i] = a /\ Page[j] = b
        BY <1>5, <3>1
      <3>3. c > 1
        BY <1>5, <3>1, <3>2
      <3> QED
        BY <1>4, <1>5, <1>8, <2>2, <3>3
    <2> QED
      BY <2>1, <2>2
  <1> HIDE DEF kept, c
  <1> QED
    BY <1>5, <1>6, <1>7, <1>8

-------------------------------------------------------------------------------
(* The invariant *)

Seen(lt) == \E i \in 1..Len(inspected) : inspected[i] = lt

\* While the scan goes on, what is asked for from the cursor on has been seen, what
\* has been seen is not older than the cursor, and none of it matches.
Going ==
    scanPc = "scan" =>
        /\ scannedTransactions = Len(inspected) /\ scannedTransactions <= params.maxScanned
        /\ horizon = None => inspected = <<>> /\ currentLt = params.start
        /\ currentLt = None => horizon = None
        /\ \A c \in seenCursors : currentLt # None /\ c >= currentLt
        /\ \A i \in 1..Len(inspected) :
               currentLt # None /\ inspected[i] >= currentLt /\ inspected[i] \notin params.matches
        /\ currentLt # None => \A lt \in Asked : lt >= currentLt => Seen(lt)

ScanIInv ==
    /\ Params /\ horizon \in {None} \cup history
    /\ ScanInv /\ AnswerIsComplete /\ Going

LEMMA SeenIs ==
  ASSUME inspected \in Seq(Lt), NEW lt
  PROVE  lt \in ToSet(inspected) <=> Seen(lt)
  <1>1. DOMAIN inspected = 1..Len(inspected)
    BY LenProperties
  <1> QED
    BY <1>1 DEF ToSet, Seen

\* What is asked for once the newest transaction is known.
LEMMA ReadPageIs ==
  ASSUME ScanIInv, ReadPage
  PROVE  /\ scanPc = "scan" /\ UNCHANGED <<history, params>> /\ inspected \in Seq(Lt)
         /\ horizon' \in {None} \cup history /\ (history # {} => horizon' # None)
         /\ \A lt \in Asked' :
                /\ lt \in history /\ lt \in Nat /\ lt > params.to_lt
                /\ currentLt # None /\ lt >= currentLt => Seen(lt)
                /\ \A i \in 1..Len(inspected) : lt > inspected[i] => Seen(lt)
  <1>1. /\ scanPc = "scan" /\ UNCHANGED <<history, params>> /\ inspected \in Seq(Lt)
        /\ horizon' = IF horizon = None THEN Max({None} \cup history) ELSE horizon
        /\ history \subseteq Lt /\ horizon \in {None} \cup history
    BY DEF ReadPage, ScanIInv, ScanInv, ScanTypeOK
  <1> DEFINE newest == Max({None} \cup history)
  <1>2. newest \in {None} \cup history /\ \A y \in {None} \cup history : newest >= y
    <2>1. {None} \cup history \subseteq 0..MaxLt
      BY <1>1, ScanAssumption DEF Lt, None
    <2> QED
      BY <2>1, Greatest
  <1>3. horizon' \in {None} \cup history /\ (history # {} => horizon' # None)
    <2>1. history # {} => newest # None
      <3> SUFFICES ASSUME NEW y \in history PROVE newest # None
        OBVIOUS
      <3>1. y \in Nat /\ y > 0 /\ newest >= y
        <4>1. y \in Nat /\ y > 0
          BY <1>1, ScanAssumption DEF Lt
        <4> HIDE DEF newest
        <4> QED
          BY <1>2, <4>1
      <3> HIDE DEF newest
      <3> QED
        BY <3>1 DEF None
    <2> QED
      BY <1>1, <1>2, <2>1
  <1>4. ASSUME NEW lt \in Asked'
        PROVE  /\ lt \in history /\ lt \in Nat /\ lt > params.to_lt
               /\ params.start # None => lt < params.start
               /\ horizon # None => lt \in Asked
    BY <1>1, ScanAssumption DEF Asked, Lt
  <1>5. ASSUME NEW lt \in Asked', horizon = None
        PROVE  /\ ~ (currentLt # None /\ lt >= currentLt)
               /\ ~ \E i \in 1..Len(inspected) : lt > inspected[i]
    <2>1. inspected = <<>> /\ currentLt = params.start
      BY <1>1, <1>5 DEF ScanIInv, Going
    <2>2. params.start \in Nat /\ lt \in Nat
      BY <1>4, ScanAssumption DEF ScanIInv, Params, Lt, None
    <2> QED
      BY <1>4, <2>1, <2>2, EmptySeq
  <1>6. ASSUME NEW lt \in Asked', horizon # None
        PROVE  /\ currentLt # None /\ lt >= currentLt => Seen(lt)
               /\ \A i \in 1..Len(inspected) : lt > inspected[i] => Seen(lt)
    <2>1. lt \in Asked
      BY <1>4, <1>6
    <2> QED
      BY <1>1, <2>1, SeenIs DEF ScanIInv, ScanInv, Going, NoGapNoRepeat
  <1> QED
    BY <1>1, <1>3, <1>4, <1>5, <1>6

\* A page that does not show only the cursor: what is new on it.
Skipped == IF FirstTxMatchesCursor THEN 1 ELSE 0

LEMMA NewOnPage ==
  ASSUME ScanIInv, ReadPage, Page # <<>>
  PROVE  /\ Page \in Seq(history) /\ Len(Page) \in Nat \ {0}
         /\ \A i \in 1..Len(Page) : Page[i] \in history /\ Page[i] \in Nat
         /\ \A i, j \in 1..Len(Page) : i < j => Page[i] > Page[j]
         /\ \A i \in (Skipped + 1)..Len(Page) : currentLt = None \/ Page[i] < currentLt
         /\ \A lt \in Asked' :
                \/ Seen(lt)
                \/ \E i \in (Skipped + 1)..Len(Page) : Page[i] = lt
                \/ Len(Page) > 1 /\ \A i \in 1..Len(Page) : Page[i] > lt
  <1>1. history \subseteq Lt /\ Params /\ currentLt \in {None} \cup Lt /\ currentLt \in Nat
    BY ScanAssumption DEF ScanIInv, ScanInv, ScanTypeOK, Lt, None
  <1>2. /\ Page \in Seq(history)
        /\ \A i \in 1..Len(Page) : currentLt = None \/ Page[i] <= currentLt
        /\ \A i, j \in 1..Len(Page) : i < j => Page[i] > Page[j]
        /\ \A lt \in history : lt > params.to_lt /\ (currentLt = None \/ lt < currentLt) =>
               \/ \E i \in 1..Len(Page) : Page[i] = lt
               \/ Len(Page) > 1 /\ \A i \in 1..Len(Page) : Page[i] > lt
    BY <1>1, PageIs
  <1>3. Len(Page) \in Nat \ {0} /\ \A i \in 1..Len(Page) : Page[i] \in history /\ Page[i] \in Nat
    <2>1. Len(Page) \in Nat \ {0} /\ \A i \in 1..Len(Page) : Page[i] \in history
      BY <1>2, LenProperties, EmptySeq, ElementOfSeq
    <2>2. \A lt \in history : lt \in Nat
      BY <1>1, ScanAssumption DEF Lt
    <2> QED
      BY <2>1, <2>2
  <1>4. Skipped \in {0, 1} /\ (Skipped = 1 => currentLt # None /\ Page[1] = currentLt)
        /\ (Skipped = 0 => currentLt = None \/ Page[1] # currentLt)
    BY DEF Skipped, FirstTxMatchesCursor
  <1>5. \A i \in (Skipped + 1)..Len(Page) : currentLt = None \/ Page[i] < currentLt
    <2> SUFFICES ASSUME NEW i \in (Skipped + 1)..Len(Page), currentLt # None
                 PROVE  Page[i] < currentLt
      OBVIOUS
    <2>1. i \in 1..Len(Page) /\ 1 \in 1..Len(Page) /\ Page[i] <= currentLt /\ Page[1] <= currentLt
      BY <1>2, <1>3, <1>4
    <2>2. i = 1 \/ Page[1] > Page[i]
      BY <1>2, <2>1
    <2>3. i = 1 => Page[i] # currentLt
      BY <1>4
    <2> QED
      BY <1>1, <1>3, <2>1, <2>2, <2>3
  <1>6. ASSUME NEW lt \in Asked', ~Seen(lt)
        PROVE  \/ \E i \in (Skipped + 1)..Len(Page) : Page[i] = lt
               \/ Len(Page) > 1 /\ \A i \in 1..Len(Page) : Page[i] > lt
    <2>1. lt \in history /\ lt \in Nat /\ lt > params.to_lt /\ (currentLt = None \/ lt < currentLt)
      <3>1. /\ lt \in history /\ lt \in Nat /\ lt > params.to_lt
            /\ ~ (currentLt # None /\ lt >= currentLt)
        BY <1>6, ReadPageIs
      <3> QED
        BY <1>1, <3>1
    <2>2. ASSUME NEW i \in 1..Len(Page), Page[i] = lt
          PROVE  i \in (Skipped + 1)..Len(Page)
      <3>1. ~ (Skipped = 1 /\ i = 1)
        BY <1>1, <1>4, <2>1, <2>2
      <3> QED
        BY <1>3, <1>4, <3>1
    <2> QED
      BY <1>2, <2>1, <2>2
  <1> QED
    BY <1>2, <1>3, <1>5, <1>6

New == SubSeq(Page, IF FirstTxMatchesCursor THEN 2 ELSE 1, Len(Page))

LEMMA NewIs ==
  ASSUME ScanIInv, ReadPage, Page # <<>>
  PROVE  /\ New \in Seq(Lt) /\ Skipped \in {0, 1} /\ Len(New) = Len(Page) - Skipped
         /\ \A i \in 1..Len(New) : New[i] = Page[Skipped + i]
  <1>1. /\ Page \in Seq(history) /\ Len(Page) \in Nat \ {0}
        /\ \A i \in 1..Len(Page) : Page[i] \in history
    BY NewOnPage
  <1>2. history \subseteq Lt
    BY DEF ScanIInv, ScanInv, ScanTypeOK
  <1> DEFINE m == Skipped + 1
             n == Len(Page)
  <1>3. Skipped \in {0, 1} /\ New = SubSeq(Page, m, n)
    BY DEF Skipped, New
  <1>4. m \in 1..2 /\ n \in Nat \ {0} /\ \A i \in m..n : Page[i] \in Lt
    BY <1>1, <1>2, <1>3
  <1> HIDE DEF m, n
  <1>5. /\ New \in Seq(Lt) /\ Len(New) = IF m <= n THEN n - m + 1 ELSE 0
        /\ \A i \in 1..(n - m + 1) : New[i] = Page[m + i - 1]
    BY <1>3, <1>4, SubSeqProperties
  <1>6. Len(New) = n - m + 1
    BY <1>4, <1>5
  <1>7. \A i \in Nat : m + i - 1 = Skipped + i
    BY <1>3 DEF m
  <1> QED
    BY <1>3, <1>5, <1>6, <1>7 DEF m, n

\* What the second of two sequences adds.
LEMMA ConcatRight ==
  ASSUME NEW S, NEW s1 \in Seq(S), NEW s2 \in Seq(S), NEW i \in 1..Len(s2)
  PROVE  (s1 \o s2)[Len(s1) + i] = s2[i]
  <1>1. Len(s1) \in Nat /\ Len(s2) \in Nat
    BY LenProperties
  <1>2. /\ Len(s1) + i \in 1..(Len(s1) + Len(s2)) /\ ~ (Len(s1) + i <= Len(s1))
        /\ Len(s1) + i - Len(s1) = i
    BY <1>1
  <1> QED
    BY <1>1, <1>2, ConcatProperties

\* Some of what is new, from its beginning, has been inspected too.
LEMMA GrownIs ==
  ASSUME ScanIInv, ReadPage, Page # <<>>, NEW last \in 0..Len(New),
         inspected' = inspected \o SubSeq(New, 1, last)
  PROVE  /\ inspected' \in Seq(Lt) /\ Len(inspected) \in Nat
         /\ Len(inspected') = Len(inspected) + last
         /\ \A i \in 1..Len(inspected) : inspected'[i] = inspected[i]
         /\ \A i \in 1..last : inspected'[Len(inspected) + i] = New[i]
         /\ NoGapNoRepeat'
         /\ last = Len(New) => \A lt \in Asked' : lt >= Page[Len(Page)] => Seen(lt)'
         /\ \A i \in 1..Len(inspected') :
                \/ i \in 1..Len(inspected)
                \/ i - Len(inspected) \in 1..last
  <1> DEFINE n == Len(inspected)
             part == SubSeq(New, 1, last)
             k == Skipped
  <1>1. /\ New \in Seq(Lt) /\ k \in {0, 1} /\ Len(New) = Len(Page) - k
        /\ \A i \in 1..Len(New) : New[i] = Page[k + i]
    BY NewIs
  <1>2. /\ Page \in Seq(history) /\ Len(Page) \in Nat \ {0}
        /\ \A i \in 1..Len(Page) : Page[i] \in history /\ Page[i] \in Nat
        /\ \A i, j \in 1..Len(Page) : i < j => Page[i] > Page[j]
        /\ \A i \in (k + 1)..Len(Page) : currentLt = None \/ Page[i] < currentLt
        /\ \A lt \in Asked' :
               \/ Seen(lt)
               \/ \E i \in (k + 1)..Len(Page) : Page[i] = lt
               \/ Len(Page) > 1 /\ \A i \in 1..Len(Page) : Page[i] > lt
    BY NewOnPage
  <1>3. /\ inspected \in Seq(Lt) /\ scanPc = "scan"
        /\ \A lt \in Asked' : lt \in Nat
        /\ \A lt \in Asked' : \A i \in 1..n : lt > inspected[i] => Seen(lt)
    BY ReadPageIs
  <1>4. n \in Nat /\ \A i \in 1..n : inspected[i] \in Nat
    <2>1. \A x \in Lt : x \in Nat
      BY ScanAssumption DEF Lt
    <2> QED
      BY <1>3, <2>1, LenProperties, ElementOfSeq
  <1>5. last \in Nat /\ last <= Len(New) /\ Len(New) \in Nat
    BY <1>1, LenProperties
  <1>6. /\ part \in Seq(Lt) /\ Len(part) = last
        /\ \A i \in 1..last : part[i] = New[i]
    <2>1. \A i \in 1..last : New[i] \in Lt
      BY <1>1, <1>5, ElementOfSeq
    <2>2. /\ part \in Seq(Lt) /\ Len(part) = IF 1 <= last THEN last - 1 + 1 ELSE 0
          /\ \A i \in 1..(last - 1 + 1) : part[i] = New[1 + i - 1]
      BY <1>5, <2>1, SubSeqProperties
    <2>3. last - 1 + 1 = last /\ \A i \in 1..last : 1 + i - 1 = i
      BY <1>5
    <2> HIDE DEF part
    <2> QED
      BY <1>5, <2>2, <2>3
  <1> HIDE DEF part, n, k
  <1>7. /\ inspected' \in Seq(Lt) /\ Len(inspected') = n + last
        /\ \A i \in 1..(n + last) : inspected'[i] = IF i <= n THEN inspected[i] ELSE part[i - n]
    <2>1. inspected' = inspected \o part
      BY DEF part
    <2> QED
      BY <1>3, <1>6, <2>1, ConcatProperties DEF n
  <1>8. \A i \in 1..n : inspected'[i] = inspected[i]
    BY <1>4, <1>5, <1>7
  <1>9. \A i \in 1..last : n + i \in 1..(n + last) /\ inspected'[n + i] = New[i]
    <2> SUFFICES ASSUME NEW i \in 1..last
                 PROVE  n + i \in 1..(n + last) /\ inspected'[n + i] = New[i]
      OBVIOUS
    <2>1. n + i \in 1..(n + last) /\ ~ (n + i <= n) /\ n + i - n = i
      BY <1>4, <1>5
    <2>2. inspected'[n + i] = part[i]
      BY <1>3, <1>6, ConcatRight DEF n, part
    <2> QED
      BY <1>6, <2>1, <2>2
  <1>10. \A i \in 1..(n + last) : i \in 1..n \/ (i - n \in 1..last /\ n + (i - n) = i)
    BY <1>4, <1>5
  <1>11. \A i \in 1..last : /\ k + i \in (k + 1)..Len(Page) /\ k + i \in 1..Len(Page)
                            /\ New[i] = Page[k + i]
    BY <1>1, <1>2, <1>5
  <1>12. \A i \in (k + 1)..Len(Page) : i \in 1..Len(Page) /\ i - k \in 1..Len(New) /\ k + (i - k) = i
    BY <1>1, <1>2
  <1>13. \A i, j \in 1..(n + last) : i < j => inspected'[i] > inspected'[j]
    <2> SUFFICES ASSUME NEW i \in 1..(n + last), NEW j \in 1..(n + last), i < j
                 PROVE  inspected'[i] > inspected'[j]
      OBVIOUS
    <2>1. CASE i \in 1..n /\ j \in 1..n
      BY <1>8, <2>1 DEF ScanIInv, ScanInv, NoGapNoRepeat, n
    <2>2. CASE i \in 1..n /\ j \notin 1..n
      <3>1. currentLt # None /\ inspected[i] >= currentLt
        BY <1>3, <2>2 DEF ScanIInv, Going, n
      <3>2. j - n \in 1..last /\ n + (j - n) = j
        BY <1>10, <2>2
      <3> DEFINE h == j - n
      <3>3. inspected'[j] = Page[k + h] /\ Page[k + h] < currentLt /\ Page[k + h] \in Nat
        <4>1. k + h \in (k + 1)..Len(Page) /\ k + h \in 1..Len(Page) /\ New[h] = Page[k + h]
          BY <1>11, <3>2
        <4>2. inspected'[n + h] = New[h]
          BY <1>9, <3>2
        <4> QED
          BY <1>2, <3>1, <3>2, <4>1, <4>2
      <3>4. currentLt \in Nat
        BY ScanAssumption DEF ScanIInv, ScanInv, ScanTypeOK, Lt, None
      <3> HIDE DEF h
      <3> QED
        <4>1. inspected'[i] = inspected[i] /\ inspected[i] \in Nat
          BY <1>4, <1>8, <2>2
        <4>2. inspected[i] > Page[k + h]
          BY <3>1, <3>3, <3>4, <4>1
        <4> QED
          BY <3>3, <4>1, <4>2, Zenon
    <2>3. CASE i \notin 1..n
      <3>1. i - n \in 1..last /\ n + (i - n) = i /\ j - n \in 1..last /\ n + (j - n) = j
        BY <1>4, <1>10, <2>3
      <3> DEFINE g == i - n
                 h == j - n
      <3>2. g \in 1..last /\ h \in 1..last /\ n + g = i /\ n + h = j /\ k + g < k + h
        BY <1>1, <1>4, <3>1
      <3> HIDE DEF g, h
      <3>3. inspected'[i] = Page[k + g] /\ inspected'[j] = Page[k + h]
        BY <1>9, <1>11, <3>2
      <3> QED
        BY <1>2, <1>11, <3>2, <3>3
    <2> QED
      BY <2>1, <2>2, <2>3
  <1>14. \A lt : Seen(lt) => \E i \in 1..(n + last) : inspected'[i] = lt
    <2> SUFFICES ASSUME NEW lt, NEW i \in 1..n, inspected[i] = lt
                 PROVE  \E j \in 1..(n + last) : inspected'[j] = lt
      BY DEF Seen, n
    <2>1. i \in 1..(n + last)
      BY <1>4, <1>5
    <2> QED
      BY <1>8, <2>1
  <1>15. ASSUME NEW lt \in Asked', NEW b \in 0..last, b # 0, lt >= New[b]
         PROVE  \E i \in 1..(n + last) : inspected'[i] = lt
    <2>1. b \in 1..last /\ k + b \in 1..Len(Page) /\ New[b] = Page[k + b]
      BY <1>11, <1>15
    <2>2. CASE \E i \in (k + 1)..Len(Page) : Page[i] = lt
      <3>1. PICK i \in (k + 1)..Len(Page) : Page[i] = lt
        BY <2>2
      <3>2. i \in 1..Len(Page) /\ i - k \in 1..Len(New) /\ k + (i - k) = i
        BY <1>12, <3>1
      <3>3. ~ (k + b < i)
        <4> SUFFICES ASSUME k + b < i PROVE FALSE
          OBVIOUS
        <4>1. Page[k + b] > Page[i]
          BY <1>2, <2>1, <3>2
        <4> QED
          BY <1>2, <1>3, <1>15, <2>1, <3>1, <3>2, <4>1
      <3>4. i - k \in 1..last
        BY <1>1, <1>5, <2>1, <3>2, <3>3
      <3>5. inspected'[n + (i - k)] = lt /\ n + (i - k) \in 1..(n + last)
        BY <1>9, <1>11, <3>1, <3>2, <3>4
      <3> QED
        BY <3>5
    <2>3. CASE \A i \in 1..Len(Page) : Page[i] > lt
      BY <1>2, <1>3, <1>15, <2>1, <2>3
    <2> QED
      BY <1>2, <1>14, <2>2, <2>3
  <1>16. \A lt : lt \in ToSet(inspected)' <=> \E i \in 1..(n + last) : inspected'[i] = lt
    BY <1>7, LenProperties DEF ToSet
  <1>17. ASSUME NEW i \in 1..(n + last), NEW lt \in Asked', lt > inspected'[i]
         PROVE  \E j \in 1..(n + last) : inspected'[j] = lt
    <2>1. CASE i \in 1..n
      BY <1>3, <1>8, <1>14, <1>17, <2>1
    <2>2. CASE i \notin 1..n
      <3>1. i - n \in 1..last /\ n + (i - n) = i
        BY <1>10, <2>2
      <3> DEFINE b == i - n
      <3>2. inspected'[i] = New[b] /\ b \in 1..last /\ New[b] \in Nat
        BY <1>2, <1>9, <1>11, <3>1
      <3> HIDE DEF b
      <3>3. b \in 0..last /\ b # 0
        BY <1>5, <3>2
      <3>4. lt >= New[b]
        <4>1. lt \in Nat /\ lt > New[b] /\ New[b] \in Nat
          BY <1>3, <1>17, <3>2
        <4> QED
          BY <4>1
      <3> QED
        BY <1>15, <3>3, <3>4
    <2> QED
      BY <2>1, <2>2
  <1>18. NoGapNoRepeat'
    BY <1>7, <1>13, <1>16, <1>17 DEF NoGapNoRepeat
  <1>19. ASSUME last = Len(New), NEW lt \in Asked', lt >= Page[Len(Page)]
         PROVE  Seen(lt)'
    <2>1. CASE last = 0
      <3>1. Len(Page) = 1
        BY <1>1, <1>2, <1>19, <2>1
      <3>2. ~ (\E i \in (k + 1)..Len(Page) : Page[i] = lt)
        BY <1>1, <1>2, <1>19, <2>1
      <3> QED
        BY <1>2, <1>7, <1>14, <3>1, <3>2 DEF Seen
    <2>2. CASE last # 0
      <3>1. last \in 0..last /\ k + last = Len(Page)
        BY <1>1, <1>2, <1>5, <1>19
      <3>2. last \in 1..last
        BY <1>5, <2>2
      <3>3. New[last] = Page[Len(Page)]
        BY <1>11, <3>1, <3>2
      <3> QED
        BY <1>7, <1>15, <1>19, <2>2, <3>1, <3>3 DEF Seen
    <2> QED
      BY <2>1, <2>2
  <1> QED
    BY <1>4, <1>7, <1>8, <1>9, <1>10, <1>18, <1>19 DEF n

Budget == params.maxScanned - scannedTransactions

LastOfRange(lt) ==
    \/ Previous(lt) = None
    \/ /\ params.to_lt # None
       /\ IF params.inclusive THEN lt <= params.to_lt ELSE lt < params.to_lt

LEMMA InspectIs ==
  ASSUME ScanIInv, InspectPage
  PROVE  /\ ReadPage /\ Page # <<>> /\ ~ (FirstTxMatchesCursor /\ Len(Page) = 1)
         /\ \E last \in 0..Len(New) :
                /\ inspected' = inspected \o SubSeq(New, 1, last) /\ last <= Budget
                /\ \A i \in 1..(last - 1) : New[i] \notin params.matches
                /\ \/ /\ last # 0 /\ New[last] \in params.matches /\ scanPc' = "found"
                      /\ scannedTransactions' = scannedTransactions + last
                   \/ /\ last # 0 => New[last] \notin params.matches
                      /\ last = Budget /\ scanPc' = "null"
                      /\ scannedTransactions' = params.maxScanned + 1
                   \/ /\ last # 0 => New[last] \notin params.matches
                      /\ last = Len(New)
                      /\ scannedTransactions' = scannedTransactions + last
                      /\ \/ LastOfRange(Last(Page)) /\ scanPc' = "null"
                         \/ MoveCursor(Last(Page))
                /\ UNCHANGED <<currentLt, seenCursors>> \/ MoveCursor(Last(Page))
  <1> DEFINE hits == {i \in 1..Len(New) : New[i] \in params.matches}
             last == IF hits # {} /\ Min(hits) <= Budget THEN Min(hits)
                     ELSE IF Budget < Len(New) THEN Budget ELSE Len(New)
  <1>1. /\ ReadPage /\ Page # <<>> /\ ~ (FirstTxMatchesCursor /\ Len(Page) = 1)
        /\ inspected' = inspected \o SubSeq(New, 1, last)
        /\ IF hits # {} /\ Min(hits) <= Budget
           THEN /\ scanPc' = "found" /\ scannedTransactions' = scannedTransactions + last
                /\ UNCHANGED <<currentLt, seenCursors>>
           ELSE IF Budget < Len(New)
           THEN /\ scanPc' = "null" /\ scannedTransactions' = params.maxScanned + 1
                /\ UNCHANGED <<currentLt, seenCursors>>
           ELSE /\ scannedTransactions' = scannedTransactions + last
                /\ IF LastOfRange(Last(Page))
                   THEN scanPc' = "null" /\ UNCHANGED <<currentLt, seenCursors>>
                   ELSE MoveCursor(Last(Page))
    BY Zenon DEF InspectPage, New, Budget, ScanBudget, LastOfRange, NextCursor
  <1>2. Len(New) \in Nat /\ Budget \in Nat
    <2>1. Len(New) \in Nat
      BY <1>1, NewIs, LenProperties
    <2>2. /\ scannedTransactions = Len(inspected) /\ scannedTransactions <= params.maxScanned
          /\ params.maxScanned \in Nat /\ inspected \in Seq(Lt)
      BY <1>1 DEF ReadPage, ScanIInv, Going, Params, ScanInv, ScanTypeOK
    <2> QED
      BY <2>1, <2>2, LenProperties DEF Budget
  <1>3. hits # {} => /\ Min(hits) \in hits /\ \A i \in hits : Min(hits) <= i
    <2>1. hits \subseteq Nat
      BY <1>2
    <2> HIDE DEF hits
    <2> QED
      BY <2>1, Least
  <1>4. /\ Min(hits) \in 1..Len(New) /\ New[Min(hits)] \in params.matches
        /\ \A i \in 1..(Min(hits) - 1) : New[i] \notin params.matches
        \/ hits = {}
    <2> SUFFICES ASSUME hits # {}
                 PROVE  /\ Min(hits) \in 1..Len(New) /\ New[Min(hits)] \in params.matches
                        /\ \A i \in 1..(Min(hits) - 1) : New[i] \notin params.matches
      OBVIOUS
    <2> DEFINE h == Min(hits)
    <2>1. h \in 1..Len(New) /\ New[h] \in params.matches
      BY <1>3
    <2>2. ASSUME NEW i \in 1..(h - 1) PROVE i \notin hits /\ i \in 1..Len(New)
      <3>1. \A j \in hits : h <= j
        BY <1>3
      <3> HIDE DEF hits, h
      <3> QED
        BY <1>2, <2>1, <3>1
    <2> QED
      BY <2>1, <2>2
  <1>5. \A i \in 1..Len(New) : hits = {} \/ ~ (Min(hits) <= i) => New[i] \notin params.matches
    BY <1>3
  <1> HIDE DEF hits
  <1>6. CASE hits # {} /\ Min(hits) <= Budget
    <2>1. last = Min(hits) /\ last \in 0..Len(New) /\ last # 0
      BY <1>2, <1>4, <1>6
    <2> HIDE DEF last
    <2> QED
      BY <1>1, <1>4, <1>6, <2>1
  <1>7. CASE ~ (hits # {} /\ Min(hits) <= Budget) /\ Budget < Len(New)
    <2>1. last = Budget /\ last \in 0..Len(New) /\ last <= Budget
      BY <1>2, <1>7
    <2>2. \A i \in 1..Budget : i \in 1..Len(New) /\ (hits = {} \/ ~ (Min(hits) <= i))
      BY <1>2, <1>4, <1>7
    <2>3. /\ \A i \in 1..(last - 1) : i \in 1..Budget
          /\ last # 0 => last \in 1..Budget
      BY <1>2, <2>1
    <2> HIDE DEF last
    <2> QED
      BY <1>1, <1>5, <1>7, <2>1, <2>2, <2>3
  <1>8. CASE ~ (hits # {} /\ Min(hits) <= Budget) /\ ~ (Budget < Len(New))
    <2>1. last = Len(New) /\ last \in 0..Len(New) /\ last <= Budget
      BY <1>2, <1>8
    <2>2. hits = {}
      BY <1>2, <1>4, <1>8
    <2>3. /\ \A i \in 1..(last - 1) : i \in 1..Len(New)
          /\ last # 0 => last \in 1..Len(New)
      BY <1>2, <2>1
    <2> HIDE DEF last
    <2>4. UNCHANGED <<currentLt, seenCursors>> \/ MoveCursor(Last(Page))
      BY <1>1, <1>8, Zenon
    <2>5. (LastOfRange(Last(Page)) /\ scanPc' = "null") \/ MoveCursor(Last(Page))
      BY <1>1, <1>8, Zenon
    <2>6. scannedTransactions' = scannedTransactions + last
      BY <1>1, <1>8, Zenon
    <2> QED
      BY <1>1, <1>5, <2>1, <2>2, <2>3, <2>4, <2>5, <2>6
  <1> QED
    BY <1>6, <1>7, <1>8

\* The cursor moves back, to a transaction that is older and not seen before.
LEMMA MoveIs ==
  ASSUME ScanIInv, scanPc = "scan", NEW next \in Lt, currentLt = None \/ next < currentLt,
         MoveCursor(next)
  PROVE  seenCursors' = seenCursors \cup {next} /\ currentLt' = next /\ UNCHANGED scanPc
  <1>1. currentLt \in Nat /\ next \in Nat /\ next # None
    BY ScanAssumption DEF ScanIInv, ScanInv, ScanTypeOK, Lt, None
  <1>2. next \notin seenCursors
    BY <1>1 DEF ScanIInv, Going
  <1>3. ~ (currentLt # None /\ next >= currentLt)
    BY <1>1
  <1> QED
    BY <1>2, <1>3 DEF MoveCursor

\* There is something before lt unless Previous says otherwise.
LEMMA PreviousIs ==
  ASSUME history \subseteq Lt, NEW lt \in Nat
  PROVE  /\ Previous(lt) \in {None} \cup history
         /\ \A l \in history : l < lt => Previous(lt) >= l
         /\ Previous(lt) # None => Previous(lt) < lt
  <1> DEFINE S == {None} \cup {l \in history : l < lt}
  <1>1. S \subseteq 0..MaxLt /\ S # {}
    <2>1. history \subseteq 0..MaxLt /\ None \in 0..MaxLt
      BY ScanAssumption DEF Lt, None
    <2> QED
      BY <2>1
  <1>2. Max(S) \in S /\ \A y \in S : Max(S) >= y
    <2> HIDE DEF S
    <2> QED
      BY <1>1, Greatest
  <1>3. Previous(lt) = Max(S)
    BY DEF Previous
  <1> QED
    BY <1>2, <1>3

LEMMA InspectKeeps ==
  ASSUME ScanIInv, InspectPage
  PROVE  ScanIInv'
  <1> DEFINE n == Len(inspected)
             oldest == Last(Page)
  <1>1. /\ ReadPage /\ Page # <<>> /\ ~ (FirstTxMatchesCursor /\ Len(Page) = 1)
        /\ UNCHANGED <<history, params>> /\ scanPc = "scan"
    BY InspectIs, ReadPageIs
  <1>2. PICK last \in 0..Len(New) :
            /\ inspected' = inspected \o SubSeq(New, 1, last) /\ last <= Budget
            /\ \A i \in 1..(last - 1) : New[i] \notin params.matches
            /\ \/ /\ last # 0 /\ New[last] \in params.matches /\ scanPc' = "found"
                  /\ scannedTransactions' = scannedTransactions + last
               \/ /\ last # 0 => New[last] \notin params.matches
                  /\ last = Budget /\ scanPc' = "null"
                  /\ scannedTransactions' = params.maxScanned + 1
               \/ /\ last # 0 => New[last] \notin params.matches
                  /\ last = Len(New)
                  /\ scannedTransactions' = scannedTransactions + last
                  /\ \/ LastOfRange(Last(Page)) /\ scanPc' = "null"
                     \/ MoveCursor(Last(Page))
            /\ UNCHANGED <<currentLt, seenCursors>> \/ MoveCursor(Last(Page))
    BY InspectIs
  <1>3. /\ inspected' \in Seq(Lt) /\ n \in Nat /\ Len(inspected') = n + last
        /\ \A i \in 1..n : inspected'[i] = inspected[i]
        /\ \A i \in 1..last : inspected'[n + i] = New[i]
        /\ NoGapNoRepeat'
        /\ last = Len(New) => \A lt \in Asked' : lt >= Page[Len(Page)] => Seen(lt)'
        /\ \A i \in 1..Len(inspected') : i \in 1..n \/ i - n \in 1..last
    BY <1>1, <1>2, GrownIs
  <1>4. /\ Page \in Seq(history) /\ Len(Page) \in Nat \ {0}
        /\ \A i \in 1..Len(Page) : Page[i] \in history /\ Page[i] \in Nat
        /\ \A i, j \in 1..Len(Page) : i < j => Page[i] > Page[j]
        /\ \A i \in (Skipped + 1)..Len(Page) : currentLt = None \/ Page[i] < currentLt
    BY <1>1, NewOnPage
  <1>5. /\ New \in Seq(Lt) /\ Skipped \in {0, 1} /\ Len(New) = Len(Page) - Skipped
        /\ Len(New) \in Nat
        /\ \A i \in 1..Len(New) : New[i] = Page[Skipped + i]
    BY <1>1, NewIs, LenProperties
  <1>6. /\ Params /\ ScanTypeOK /\ scannedTransactions = n /\ n <= params.maxScanned
        /\ params.maxScanned \in Nat /\ Budget = params.maxScanned - n
        /\ \A c \in seenCursors : currentLt # None /\ c >= currentLt
        /\ \A i \in 1..n :
               currentLt # None /\ inspected[i] >= currentLt /\ inspected[i] \notin params.matches
    BY <1>1 DEF ScanIInv, ScanInv, Going, Params, Budget
  <1>7. /\ oldest = Page[Len(Page)] /\ oldest \in history /\ oldest \in Lt /\ oldest \in Nat
        /\ oldest # None /\ (currentLt = None \/ oldest < currentLt)
    <2>1. oldest = Page[Len(Page)] /\ Len(Page) \in (Skipped + 1)..Len(Page) /\ Len(Page) \in 1..Len(Page)
      <3>1. Skipped \in {0, 1} /\ (Skipped = 1 => FirstTxMatchesCursor)
        BY DEF Skipped
      <3>2. Skipped = 1 => Len(Page) # 1
        BY <1>1, <3>1, Zenon
      <3>3. Skipped + 1 <= Len(Page)
        <4>1. Len(Page) \in Nat /\ Len(Page) # 0
          BY <1>4
        <4>2. Skipped = 0 \/ (Skipped = 1 /\ Len(Page) # 1)
          BY <3>1, <3>2
        <4>3. CASE Skipped = 0
          BY <4>1, <4>3
        <4>4. CASE Skipped = 1
          <5>1. Len(Page) # 1
            BY <4>2, <4>4
          <5> QED
            BY <4>1, <4>4, <5>1
        <4> QED
          BY <4>2, <4>3, <4>4
      <3> QED
        BY <1>4, <3>1, <3>3 DEF Last
    <2>2. oldest \in history /\ history \subseteq Lt
      BY <1>4, <1>6, <2>1 DEF ScanTypeOK
    <2>3. \A lt \in Lt : lt \in Nat /\ lt # None
      BY ScanAssumption DEF Lt, None
    <2> QED
      BY <1>4, <2>1, <2>2, <2>3
  <1>8. /\ horizon' \in {None} \cup history /\ horizon' # None
        /\ \A lt \in Asked' : lt \in history /\ lt \in Nat /\ lt > params.to_lt
    BY <1>1, <1>7, ReadPageIs
  <1>9. last \in Nat /\ last <= params.maxScanned - n
    BY <1>2, <1>5, <1>6
  <1> HIDE DEF n, oldest
  <1>10. /\ currentLt' \in {None} \cup Lt /\ seenCursors' \subseteq Lt
         /\ MoveCursor(oldest) => /\ seenCursors' = seenCursors \cup {oldest}
                                  /\ currentLt' = oldest /\ UNCHANGED scanPc
    <2>1. MoveCursor(oldest) => /\ seenCursors' = seenCursors \cup {oldest}
                                /\ currentLt' = oldest /\ UNCHANGED scanPc
      BY <1>1, <1>7, MoveIs
    <2>2. UNCHANGED <<currentLt, seenCursors>> \/ MoveCursor(oldest)
      BY <1>2 DEF oldest
    <2> QED
      BY <1>6, <1>7, <2>1, <2>2 DEF ScanTypeOK
  <1>11. /\ scannedTransactions' \in 0..(params.maxScanned + 1)
         /\ Len(inspected') <= params.maxScanned
         /\ scannedTransactions' > params.maxScanned => Len(inspected') = params.maxScanned
    <2>1. \/ scannedTransactions' = n + last
          \/ scannedTransactions' = params.maxScanned + 1 /\ last = params.maxScanned - n
      BY <1>2, <1>6
    <2>2. /\ n \in Nat /\ params.maxScanned \in Nat /\ n <= params.maxScanned
          /\ Len(inspected') = n + last
      BY <1>3, <1>6
    <2>3. CASE scannedTransactions' = n + last
      BY <1>9, <2>2, <2>3
    <2>4. CASE scannedTransactions' = params.maxScanned + 1 /\ last = params.maxScanned - n
      BY <2>2, <2>4, SMTT(30)
    <2> QED
      BY <2>1, <2>3, <2>4
  <1>12. scanPc' \in {"scan", "found", "null"}
    BY <1>1, <1>2, <1>10 DEF oldest
  <1>13. ScanInv'
    <2>1. ScanTypeOK'
      BY <1>1, <1>3, <1>6, <1>10, <1>11, <1>12 DEF ScanTypeOK
    <2>2. ScanLimitExact'
      BY <1>1, <1>11 DEF ScanLimitExact
    <2> QED
      BY <1>3, <2>1, <2>2 DEF ScanInv
  <1>14. \A i \in 1..Len(inspected') :
             inspected'[i] \in params.matches => i = n + last /\ last # 0 /\ New[last] \in params.matches
    <2> SUFFICES ASSUME NEW i \in 1..Len(inspected'), inspected'[i] \in params.matches
                 PROVE  i = n + last /\ last # 0 /\ New[last] \in params.matches
      OBVIOUS
    <2>1. i - n \in 1..last /\ n + (i - n) = i
      <3>1. i \notin 1..n
        BY <1>3, <1>6
      <3> QED
        BY <1>3, <3>1
    <2>2. New[i - n] \in params.matches
      BY <1>3, <2>1
    <2>3. i - n = last
      BY <1>2, <1>9, <2>1, <2>2
    <2> QED
      BY <1>9, <2>1, <2>2, <2>3
  <1>15. \A lt : lt \in ToSet(inspected)' <=> Seen(lt)'
    <2> TAKE lt
    <2>1. DOMAIN inspected' = 1..Len(inspected')
      BY <1>3, LenProperties
    <2> QED
      BY <2>1 DEF ToSet, Seen
  <1>16. CASE /\ last # 0 /\ New[last] \in params.matches /\ scanPc' = "found"
              /\ scannedTransactions' = scannedTransactions + last
    <2> DEFINE newest == Last(inspected)'
    <2>1. /\ newest = New[last] /\ newest = inspected'[n + last] /\ n + last \in 1..Len(inspected')
          /\ newest \in Nat
      <3>1. newest = inspected'[n + last] /\ last \in 1..last /\ last \in 1..Len(New)
        BY <1>3, <1>5, <1>9, <1>16 DEF Last
      <3>2. newest = New[last] /\ New[last] \in Lt
        BY <1>3, <1>5, <3>1, ElementOfSeq
      <3>3. New[last] \in Nat
        BY <3>2, ScanAssumption DEF Lt
      <3>4. n + last \in 1..Len(inspected')
        BY <1>3, <1>9, <1>16
      <3> QED
        BY <3>1, <3>2, <3>3, <3>4
    <2>2. ASSUME NEW lt \in Asked', lt \in params.matches, ~ (lt <= newest) PROVE FALSE
      <3>1. lt > newest
        BY <1>8, <2>1, <2>2
      <3>2. Seen(lt)'
        BY <1>3, <1>15, <2>1, <3>1 DEF NoGapNoRepeat
      <3>3. PICK i \in 1..Len(inspected') : inspected'[i] = lt
        BY <3>2 DEF Seen
      <3>4. i = n + last
        BY <1>14, <2>2, <3>3
      <3> QED
        BY <2>1, <2>2, <3>1, <3>3, <3>4
    <2>3. AnswerIsComplete'
      BY <1>1, <1>16, <2>1, <2>2 DEF AnswerIsComplete
    <2> QED
      BY <1>1, <1>6, <1>8, <1>13, <1>16, <2>3 DEF ScanIInv, Params, Going
  <1>17. CASE /\ last = Budget /\ scanPc' = "null"
              /\ scannedTransactions' = params.maxScanned + 1
    <2>1. AnswerIsComplete'
      BY <1>1, <1>6, <1>17 DEF AnswerIsComplete
    <2> QED
      BY <1>1, <1>6, <1>8, <1>13, <1>17, <2>1 DEF ScanIInv, Params, Going
  <1>18. CASE /\ last # 0 => New[last] \notin params.matches
              /\ last = Len(New)
              /\ scannedTransactions' = scannedTransactions + last
              /\ LastOfRange(oldest) /\ scanPc' = "null"
    <2>1. ASSUME NEW lt \in Asked', lt \in params.matches PROVE FALSE
      <3>1. CASE lt >= oldest
        <4>1. Seen(lt)'
          BY <1>3, <1>7, <1>18, <3>1
        <4>2. PICK i \in 1..Len(inspected') : inspected'[i] = lt
          BY <4>1 DEF Seen
        <4> QED
          BY <1>14, <1>18, <2>1, <4>2
      <3>2. CASE ~ (lt >= oldest)
        <4>1. lt \in history /\ lt \in Nat /\ lt > params.to_lt /\ lt < oldest /\ lt # None
          BY <1>6, <1>7, <1>8, <3>2, ScanAssumption DEF ScanTypeOK, Lt, None
        <4>2. Previous(oldest) # None
          <5>1. Previous(oldest) >= lt
            BY <1>6, <1>7, <4>1, PreviousIs DEF ScanTypeOK
          <5> QED
            BY <4>1, <5>1 DEF None
        <4>3. params.to_lt \in Nat
          BY <1>6, ScanAssumption DEF Params, Lt, None
        <4>4. ~ (oldest <= params.to_lt) /\ ~ (oldest < params.to_lt)
          BY <1>7, <4>1, <4>3
        <4> QED
          BY <1>18, <4>2, <4>4 DEF LastOfRange
      <3> QED
        BY <3>1, <3>2
    <2>2. AnswerIsComplete'
      BY <1>1, <1>18, <2>1 DEF AnswerIsComplete
    <2> QED
      BY <1>1, <1>6, <1>8, <1>13, <1>18, <2>2 DEF ScanIInv, Params, Going
  <1>19. CASE /\ last # 0 => New[last] \notin params.matches
              /\ last = Len(New)
              /\ scannedTransactions' = scannedTransactions + last
              /\ MoveCursor(oldest)
    <2>1. seenCursors' = seenCursors \cup {oldest} /\ currentLt' = oldest /\ scanPc' = "scan"
      BY <1>1, <1>10, <1>19
    <2>2. currentLt \in Nat
      BY <1>6, ScanAssumption DEF ScanTypeOK, Lt, None
    <2>3. \A c \in seenCursors' : c >= oldest
      <3> SUFFICES ASSUME NEW c \in seenCursors' PROVE c >= oldest
        OBVIOUS
      <3>1. c \in Nat
        BY <1>10, ScanAssumption DEF Lt
      <3> QED
        BY <1>6, <1>7, <2>1, <2>2, <3>1
    <2>4. ASSUME NEW i \in 1..Len(inspected')
          PROVE  inspected'[i] >= oldest /\ inspected'[i] \notin params.matches
      <3>1. CASE i \in 1..n
        <4>1. inspected'[i] = inspected[i] /\ currentLt # None /\ inspected[i] >= currentLt
          BY <1>3, <1>6, <3>1
        <4>2. inspected'[i] \in Nat
          <5>1. inspected'[i] \in Lt
            BY <1>3, ElementOfSeq
          <5> QED
            BY <5>1, ScanAssumption DEF Lt
        <4>3. inspected'[i] >= oldest
          BY <1>7, <2>2, <4>1, <4>2
        <4> QED
          BY <1>14, <1>19, <4>3
      <3>2. CASE i \notin 1..n
        <4>1. i - n \in 1..last /\ n + (i - n) = i
          BY <1>3, <3>2
        <4> DEFINE k == i - n
        <4>2. inspected'[i] = New[k] /\ New[k] = Page[Skipped + k] /\ Skipped + k \in 1..Len(Page)
          <5>1. inspected'[n + k] = New[k]
            BY <1>3, <4>1
          <5>2. New[k] = Page[Skipped + k] /\ Skipped + k \in 1..Len(Page)
            <6>1. k \in 1..Len(New)
              BY <1>19, <4>1
            <6>2. New[k] = Page[Skipped + k]
              BY <1>5, <6>1
            <6> HIDE DEF k
            <6> QED
              BY <1>4, <1>5, <6>1, <6>2
          <5> QED
            BY <4>1, <5>1, <5>2
        <4> HIDE DEF k
        <4>3. Page[Skipped + k] >= oldest
          <5>1. Skipped + k = Len(Page) \/ Page[Skipped + k] > Page[Len(Page)]
            BY <1>4, <4>2
          <5> QED
            BY <1>4, <1>7, <4>2, <5>1
        <4> QED
          BY <1>14, <1>19, <4>2, <4>3
      <3> QED
        BY <3>1, <3>2
    <2>5. \A lt \in Asked' : lt >= oldest => Seen(lt)'
      BY <1>3, <1>7, <1>19
    <2>6. Going'
      BY <1>1, <1>3, <1>6, <1>7, <1>8, <1>9, <1>11, <1>19, <2>1, <2>3, <2>4, <2>5 DEF Going
    <2>7. AnswerIsComplete'
      BY <2>1 DEF AnswerIsComplete
    <2> QED
      BY <1>1, <1>6, <1>8, <1>13, <2>6, <2>7 DEF ScanIInv, Params
  <1> QED
    BY <1>2, <1>16, <1>17, <1>18, <1>19 DEF oldest

LEMMA EmptyKeeps ==
  ASSUME ScanIInv, EmptyPage
  PROVE  ScanIInv'
  <1>1. /\ ReadPage /\ Page = <<>> /\ scanPc' = "null" /\ scanPc = "scan"
        /\ UNCHANGED <<history, params, currentLt, seenCursors, scannedTransactions, inspected>>
    BY DEF EmptyPage, ReadPage
  <1>2. /\ horizon' \in {None} \cup history /\ inspected \in Seq(Lt)
        /\ \A lt \in Asked' :
               /\ lt \in history /\ lt \in Nat /\ lt > params.to_lt
               /\ currentLt # None /\ lt >= currentLt => Seen(lt)
               /\ \A i \in 1..Len(inspected) : lt > inspected[i] => Seen(lt)
    BY <1>1, ReadPageIs
  <1>3. Params /\ ScanInv /\ ScanTypeOK /\ Going
    BY DEF ScanIInv, ScanInv
  <1>4. ASSUME NEW lt \in Asked' PROVE Seen(lt)
    <2>1. CASE currentLt # None /\ lt >= currentLt
      BY <1>2, <2>1
    <2>2. CASE ~ (currentLt # None /\ lt >= currentLt)
      <3>1. currentLt \in Nat /\ (currentLt = None \/ lt < currentLt)
        BY <1>2, <1>3, <2>2, ScanAssumption DEF ScanTypeOK, Lt, None
      <3>2. history \subseteq Lt /\ currentLt \in {None} \cup Lt
        BY <1>3 DEF ScanTypeOK
      <3>3. \E i \in 1..Len(Page) : TRUE
        BY <1>2, <1>3, <3>1, <3>2, PageIs, SMTT(30)
      <3> QED
        BY <1>1, <3>3, EmptySeq
    <2> QED
      BY <2>1, <2>2
  <1>5. NoGapNoRepeat'
    <2>1. \A lt : lt \in ToSet(inspected) <=> Seen(lt)
      BY <1>2, SeenIs
    <2> QED
      BY <1>1, <1>2, <1>3, <2>1 DEF ScanInv, NoGapNoRepeat
  <1>6. AnswerIsComplete'
    <2>1. \A lt \in Asked' : lt \notin params.matches
      BY <1>1, <1>3, <1>4 DEF Going, Seen
    <2> QED
      BY <1>1, <2>1 DEF AnswerIsComplete
  <1>7. ScanInv'
    BY <1>1, <1>3, <1>5 DEF ScanInv, ScanTypeOK, ScanLimitExact
  <1> QED
    BY <1>1, <1>2, <1>3, <1>6, <1>7 DEF ScanIInv, Params, Going

\* A page that shows the cursor only: nothing in the range is older.
LEMMA OnlyCursorKeeps ==
  ASSUME ScanIInv, OnlyCursor
  PROVE  ScanIInv'
  <1>1. /\ ReadPage /\ scanPc = "scan" /\ currentLt # None /\ Page # <<>> /\ Len(Page) = 1
        /\ Skipped = 1
        /\ UNCHANGED <<history, params, scannedTransactions, inspected>>
        /\ \/ scanPc' = "null" /\ UNCHANGED <<currentLt, seenCursors>>
           \/ Previous(currentLt) # None /\ MoveCursor(Previous(currentLt))
    BY DEF OnlyCursor, ReadPage, FirstTxMatchesCursor, Skipped
  <1>2. /\ horizon' \in {None} \cup history /\ inspected \in Seq(Lt)
        /\ history # {} => horizon' # None
        /\ \A lt \in Asked' :
               /\ lt \in history /\ lt \in Nat /\ lt > params.to_lt
               /\ currentLt # None /\ lt >= currentLt => Seen(lt)
               /\ \A i \in 1..Len(inspected) : lt > inspected[i] => Seen(lt)
    BY <1>1, ReadPageIs
  <1>3. Params /\ ScanInv /\ ScanTypeOK /\ Going /\ history \subseteq Lt
        /\ currentLt \in Nat /\ currentLt \in {None} \cup Lt
    BY ScanAssumption DEF ScanIInv, ScanInv, ScanTypeOK, Lt, None
  <1>4. \A lt \in Asked' : Seen(lt)
    <2> SUFFICES ASSUME NEW lt \in Asked' PROVE Seen(lt)
      OBVIOUS
    <2>1. \/ Seen(lt)
          \/ \E i \in (Skipped + 1)..Len(Page) : Page[i] = lt
          \/ Len(Page) > 1 /\ \A i \in 1..Len(Page) : Page[i] > lt
      BY <1>1, NewOnPage
    <2> QED
      BY <1>1, <2>1
  <1>5. NoGapNoRepeat'
    <2>1. \A lt : lt \in ToSet(inspected) <=> Seen(lt)
      BY <1>2, SeenIs
    <2> QED
      BY <1>1, <1>2, <1>3, <2>1 DEF ScanInv, NoGapNoRepeat
  <1>6. scanPc' = "null" => AnswerIsComplete'
    <2>1. \A lt \in Asked' : lt \notin params.matches
      BY <1>1, <1>3, <1>4 DEF Going, Seen
    <2> QED
      BY <1>1, <2>1 DEF AnswerIsComplete
  <1>7. CASE scanPc' = "null" /\ UNCHANGED <<currentLt, seenCursors>>
    <2>1. ScanInv'
      BY <1>1, <1>3, <1>5, <1>7 DEF ScanInv, ScanTypeOK, ScanLimitExact
    <2> QED
      BY <1>1, <1>2, <1>3, <1>6, <1>7, <2>1 DEF ScanIInv, Params, Going
  <1>8. CASE Previous(currentLt) # None /\ MoveCursor(Previous(currentLt))
    <2> DEFINE next == Previous(currentLt)
    <2>1. next \in history /\ next < currentLt /\ next \in Lt
      BY <1>3, <1>8, PreviousIs
    <2>2. next \in Nat /\ next # None
      BY <2>1, ScanAssumption DEF Lt, None
    <2>3. seenCursors' = seenCursors \cup {next} /\ currentLt' = next /\ scanPc' = "scan"
      BY <1>1, <1>8, <2>1, MoveIs
    <2> HIDE DEF next
    <2>4. ScanInv'
      BY <1>1, <1>3, <1>5, <2>1, <2>3 DEF ScanInv, ScanTypeOK, ScanLimitExact
    <2>5. horizon' # None
      BY <1>2, <2>1
    <2>6. \A c \in seenCursors' : c >= next
      <3> SUFFICES ASSUME NEW c \in seenCursors' PROVE c >= next
        OBVIOUS
      <3>1. c = next \/ (c \in Lt /\ c >= currentLt)
        BY <1>1, <1>3, <2>3 DEF Going, ScanTypeOK
      <3> QED
        BY <1>3, <2>1, <2>2, <3>1, ScanAssumption DEF Lt
    <2>7. \A i \in 1..Len(inspected) : inspected[i] >= next /\ inspected[i] \notin params.matches
      <3> SUFFICES ASSUME NEW i \in 1..Len(inspected)
                   PROVE  inspected[i] >= next /\ inspected[i] \notin params.matches
        OBVIOUS
      <3>1. inspected[i] \in Lt /\ inspected[i] >= currentLt /\ inspected[i] \notin params.matches
        BY <1>1, <1>2, <1>3, ElementOfSeq DEF Going
      <3> QED
        BY <1>3, <2>1, <2>2, <3>1, ScanAssumption DEF Lt
    <2>8. \A lt \in Asked' : Seen(lt)'
      BY <1>1, <1>4 DEF Seen
    <2>9. Going'
      BY <1>1, <1>3, <2>2, <2>3, <2>5, <2>6, <2>7, <2>8 DEF Going
    <2>10. AnswerIsComplete'
      BY <2>3 DEF AnswerIsComplete
    <2> QED
      BY <1>1, <1>2, <1>3, <2>4, <2>9, <2>10 DEF ScanIInv, Params
  <1> QED
    BY <1>1, <1>7, <1>8

\* What arrives during the scan is not asked for.
LEMMA NewTransactionKeeps ==
  ASSUME ScanIInv, NewTransaction
  PROVE  ScanIInv'
  <1>1. PICK new \in Lt : new > Max({None} \cup history) /\ history' = history \cup {new}
    BY DEF NewTransaction
  <1>2. /\ scanPc = "scan"
        /\ UNCHANGED <<params, scanPc, currentLt, seenCursors, scannedTransactions, inspected, horizon>>
    BY DEF NewTransaction
  <1>3. Params /\ ScanInv /\ ScanTypeOK /\ Going /\ history \subseteq Lt
        /\ horizon \in {None} \cup history
    BY DEF ScanIInv, ScanInv, ScanTypeOK
  <1>4. new > horizon
    <2>1. {None} \cup history \subseteq 0..MaxLt
      BY <1>3, ScanAssumption DEF Lt, None
    <2>2. Max({None} \cup history) \in 0..MaxLt /\ Max({None} \cup history) >= horizon
          /\ horizon \in 0..MaxLt /\ new \in Nat
      BY <1>3, <2>1, Greatest, ScanAssumption, SMTT(30) DEF Lt
    <2> QED
      BY <1>1, <2>2
  <1>5. Asked' = Asked
    <2>1. new \notin {lt \in history' : lt <= horizon}
      <3>1. new \in Nat /\ horizon \in Nat
        BY <1>3, ScanAssumption DEF Lt, None
      <3> QED
        BY <1>4, <3>1
    <2> QED
      BY <1>1, <1>2, <2>1 DEF Asked
  <1>6. ScanInv'
    BY <1>1, <1>2, <1>3, <1>5 DEF ScanInv, ScanTypeOK, NoGapNoRepeat, ScanLimitExact
  <1> QED
    BY <1>1, <1>2, <1>3, <1>5, <1>6 DEF ScanIInv, Params, Going, AnswerIsComplete, Seen

LEMMA ScanInitIs == (\A n \in Limits : n > 1) /\ ScanInit => ScanIInv
  <1> SUFFICES ASSUME \A n \in Limits : n > 1, ScanInit PROVE ScanIInv
    OBVIOUS
  <1>1. Params /\ history \subseteq Lt /\ params.start \in {None} \cup Lt
    BY ScanAssumption DEF ScanInit, Params
  <1>2. /\ scanPc = "scan" /\ currentLt = params.start /\ seenCursors = {}
        /\ scannedTransactions = 0 /\ inspected = <<>> /\ horizon = None
    BY DEF ScanInit
  <1>3. inspected \in Seq(Lt) /\ Len(inspected) = 0
    BY <1>2, EmptySeq
  <1>4. Asked = {}
    <2>1. \A lt \in history : ~ (lt <= 0)
      <3>1. \A lt \in history : lt \in Nat /\ lt > 0
        BY <1>1, ScanAssumption DEF Lt
      <3> QED
        BY <3>1
    <2> QED
      BY <1>2, <2>1 DEF Asked, None
  <1>5. ScanInv
    BY <1>1, <1>2, <1>3 DEF ScanInv, ScanTypeOK, NoGapNoRepeat, ScanLimitExact, Params
  <1>6. Going /\ AnswerIsComplete
    BY <1>1, <1>2, <1>3, <1>4 DEF Going, AnswerIsComplete, Params
  <1> QED
    BY <1>1, <1>2, <1>5, <1>6 DEF ScanIInv

LEMMA ScanNextKeeps == ScanIInv /\ [ScanNext]_scanVars => ScanIInv'
  <1> SUFFICES ASSUME ScanIInv, [ScanNext]_scanVars PROVE ScanIInv'
    OBVIOUS
  <1>1. CASE Scan
    BY <1>1, EmptyKeeps, OnlyCursorKeeps, InspectKeeps DEF Scan
  <1>2. CASE NewTransaction
    BY <1>2, NewTransactionKeeps
  <1>3. CASE PageThrows
    BY <1>3 DEF PageThrows, ScanIInv, Params, ScanInv, ScanTypeOK, NoGapNoRepeat, ScanLimitExact,
                AnswerIsComplete, Going, Asked
  <1>4. CASE UNCHANGED scanVars
    BY <1>4 DEF scanVars, ScanIInv, Params, ScanInv, ScanTypeOK, NoGapNoRepeat, ScanLimitExact,
                AnswerIsComplete, Going, Asked, Seen
  <1> QED
    BY <1>1, <1>2, <1>3, <1>4 DEF ScanNext

LEMMA ScanIInvAlways == (\A n \in Limits : n > 1) => (ScanSpec => []ScanIInv)
  <1> SUFFICES ASSUME \A n \in Limits : n > 1 PROVE ScanSpec => []ScanIInv
    OBVIOUS
  <1>1. ScanInit => ScanIInv
    BY ScanInitIs
  <1> QED
    BY <1>1, ScanNextKeeps, PTL DEF ScanSpec

(***************************************************************************)
(* With pages of two transactions or more, the overlap of pages hides no   *)
(* transaction and shows none twice, whatever arrives during the scan, and *)
(* the scan limit is kept and reported when it is reached.                 *)
(***************************************************************************)
THEOREM ScanTheorem == (\A n \in Limits : n > 1) => (ScanSpec => []ScanInv)
  <1> SUFFICES ASSUME \A n \in Limits : n > 1 PROVE ScanSpec => []ScanInv
    OBVIOUS
  <1>1. ScanIInv => ScanInv
    BY DEF ScanIInv
  <1> QED
    BY <1>1, ScanIInvAlways, PTL

(***************************************************************************)
(* And what is found is the newest match, while null without the limit     *)
(* means that no transaction asked for matches.                            *)
(***************************************************************************)
THEOREM ScanAnswerTheorem == (\A n \in Limits : n > 1) => (ScanSpec => []AnswerIsComplete)
  <1> SUFFICES ASSUME \A n \in Limits : n > 1 PROVE ScanSpec => []AnswerIsComplete
    OBVIOUS
  <1>1. ScanIInv => AnswerIsComplete
    BY DEF ScanIInv
  <1> QED
    BY <1>1, ScanIInvAlways, PTL

================================================================================
