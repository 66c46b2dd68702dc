------------------------------ MODULE HistoryScan ------------------------------
(***************************************************************************)
(* BaseContractOpener.scanTransactionHistory: the search of one account's  *)
(* history, newest first, page by page, for a transaction that matches a   *)
(* predicate.  The cursor of a page is the oldest transaction of the page  *)
(* before, which the endpoint may return again.  A transaction is named by *)
(* its logical time; the account may get new ones during the scan.         *)
(***************************************************************************)
EXTENDS Naturals, Sequences, SequencesExt

CONSTANTS
    MaxLt,         \* bound on logical times
    Limits,        \* values of limit
    MaxScanned,    \* values of maxScannedTransactions
    MaxMatches     \* bound on how many transactions match the predicate

Lt == 1..MaxLt
None == 0          \* no cursor, no previous transaction, no to_lt

ASSUME ScanAssumption ==
    /\ MaxLt \in Nat /\ Limits \subseteq Nat \ {0}
    /\ MaxScanned \subseteq Nat /\ MaxMatches \in Nat

VARIABLES
    history,      \* logical times of the account's transactions
    params,       \* what the caller asked for; api: the opener in use
    scanPc,       \* "scan", "found", "null" or "threw"
    currentLt,    \* the cursor (lt and hash)
    seenCursors,
    scannedTransactions,
    inspected,    \* the transactions the predicate was applied to, in order
    horizon       \* newest transaction when the first page was read

scanVars == <<history, params, scanPc, currentLt, seenCursors, scannedTransactions,
          inspected, horizon>>

(***************************************************************************)
(* getTransactions of the openers.  "ton": the toncenter client, where     *)
(* inclusive says whether the cursor itself is returned and to_lt is       *)
(* excluded.  "lite": the lite client, which always returns the cursor and *)
(* filters a page by to_lt afterwards, with inclusive deciding about       *)
(* to_lt itself.                                                           *)
(***************************************************************************)
\* The n newest of S.
Newest(S, n) == {lt \in S : Cardinality({later \in S : later > lt}) < n}

\* S as a page, newest first.
Listed(S) == CHOOSE page \in [1..Cardinality(S) -> S] :
                 /\ \A i, j \in 1..Cardinality(S) : i < j => page[i] > page[j]
                 /\ \A lt \in S : \E i \in 1..Cardinality(S) : page[i] = lt

Page ==
    LET from == {lt \in history : currentLt = None \/ lt <= currentLt}
    IN  Listed(IF params.api = "ton"
               THEN Newest({lt \in from : /\ lt > params.to_lt
                                          /\ params.inclusive \/ lt # currentLt}, params.limit)
               ELSE {lt \in Newest(from, params.limit) :
                        lt > params.to_lt \/ (params.inclusive /\ lt = params.to_lt)})

Previous(lt) == Max({None} \cup {l \in history : l < lt})

ScanInit ==
    /\ history \in SUBSET Lt
    /\ params \in [api : {"ton", "lite"}, limit : Limits, inclusive : BOOLEAN,
                   start : {None} \cup history, to_lt : {None} \cup Lt,
                   maxScanned : MaxScanned,
                   matches : {S \in SUBSET Lt : Cardinality(S) <= MaxMatches}]
    /\ scanPc = "scan"
    /\ currentLt = params.start
    /\ seenCursors = {}
    /\ scannedTransactions = 0
    /\ inspected = <<>>
    /\ horizon = None

\* The account gets a transaction while the scan goes on.
NewTransaction ==
    /\ scanPc = "scan"
    /\ \E lt \in Lt : lt > Max({None} \cup history) /\ history' = history \cup {lt}
    /\ UNCHANGED <<params, scanPc, currentLt, seenCursors, scannedTransactions, inspected, horizon>>

\* The checks before the cursor moves on: it must move back, to a new place.
MoveCursor(next) ==
    IF (currentLt # None /\ next >= currentLt) \/ next \in seenCursors
    THEN scanPc' = "null" /\ UNCHANGED <<currentLt, seenCursors>>
    ELSE /\ seenCursors' = seenCursors \cup {next}
         /\ currentLt' = next
         /\ UNCHANGED scanPc

FirstTxMatchesCursor_Never == FALSE                                     \* mutant
FirstTxMatchesCursor == currentLt # None /\ Page # <<>> /\ Page[1] = currentLt

ReadPage ==
    /\ scanPc = "scan"
    /\ horizon' = IF horizon = None THEN Max({None} \cup history) ELSE horizon
    /\ UNCHANGED <<history, params>>

EmptyPage ==
    /\ ReadPage
    /\ Page = <<>>
    /\ scanPc' = "null"
    /\ UNCHANGED <<currentLt, seenCursors, scannedTransactions, inspected>>

\* A page that holds nothing but the cursor: go to the transaction before it.
OnlyCursor_Stays ==                                                     \* mutant
    /\ ReadPage
    /\ FirstTxMatchesCursor
    /\ Len(Page) = 1
    /\ IF Previous(currentLt) = None THEN scanPc' = "null" ELSE UNCHANGED scanPc
    /\ UNCHANGED <<currentLt, seenCursors, scannedTransactions, inspected>>

OnlyCursor ==
    /\ ReadPage
    /\ FirstTxMatchesCursor
    /\ Len(Page) = 1
    /\ IF Previous(currentLt) = None
       THEN scanPc' = "null" /\ UNCHANGED <<currentLt, seenCursors>>
       ELSE MoveCursor(Previous(currentLt))
    /\ UNCHANGED <<scannedTransactions, inspected>>

ScanBudget == params.maxScanned - scannedTransactions

NextCursor_BeforeOldest == Previous(Last(Page))                         \* mutant
NextCursor == Last(Page)

\* Any other page: apply the predicate to what is new in it, up to the scan
\* limit, then stop at the end of the range or take the oldest as the cursor.
InspectPage ==
    /\ ReadPage
    /\ Page # <<>>
    /\ ~(FirstTxMatchesCursor /\ Len(Page) = 1)
    /\ LET new == SubSeq(Page, IF FirstTxMatchesCursor THEN 2 ELSE 1, Len(Page))
           hits == {i \in 1..Len(new) : new[i] \in params.matches}
           left == ScanBudget
           oldest == Last(Page)
           last == IF hits # {} /\ Min(hits) <= left THEN Min(hits)
                   ELSE IF left < Len(new) THEN left ELSE Len(new)
       IN  /\ inspected' = inspected \o SubSeq(new, 1, last)
           /\ IF hits # {} /\ Min(hits) <= left
              THEN /\ scanPc' = "found"
                   /\ scannedTransactions' = scannedTransactions + last
                   /\ UNCHANGED <<currentLt, seenCursors>>
              ELSE IF left < Len(new)
              THEN /\ scanPc' = "null"
                   /\ scannedTransactions' = params.maxScanned + 1
                   /\ UNCHANGED <<currentLt, seenCursors>>
              ELSE /\ scannedTransactions' = scannedTransactions + last
                   /\ IF \/ Previous(oldest) = None
                         \/ /\ params.to_lt # None
                            /\ IF params.inclusive THEN oldest <= params.to_lt
                                                   ELSE oldest < params.to_lt
                      THEN scanPc' = "null" /\ UNCHANGED <<currentLt, seenCursors>>
                      ELSE MoveCursor(NextCursor)

PageThrows ==
    /\ scanPc = "scan"
    /\ scanPc' = "threw"
    /\ UNCHANGED <<history, params, currentLt, seenCursors, scannedTransactions, inspected, horizon>>

Scan == EmptyPage \/ OnlyCursor \/ InspectPage

ScanNext == Scan \/ PageThrows \/ NewTransaction

\* A page that is not refused arrives, and the loop runs on.
ScanSpec == ScanInit /\ [][ScanNext]_scanVars /\ WF_scanVars(Scan)

-------------------------------------------------------------------------------
(* Properties *)

ScanTypeOK ==
    /\ history \subseteq Lt
    /\ scanPc \in {"scan", "found", "null", "threw"}
    /\ currentLt \in {None} \cup Lt
    /\ seenCursors \subseteq Lt
    /\ scannedTransactions \in 0..(params.maxScanned + 1)
    /\ inspected \in Seq(Lt)

\* What the caller asked to search: strictly between to_lt and the start,
\* among the transactions that existed when the first page was read.
Asked ==
    {lt \in history : /\ lt <= horizon
                      /\ lt > params.to_lt
                      /\ params.start # None => lt < params.start}

(***************************************************************************)
(* The overlap of consecutive pages hides no transaction and shows none    *)
(* twice: transactions are inspected once each, from new to old, without   *)
(* a gap among those asked for, whatever arrives during the scan.          *)
(***************************************************************************)
NoGapNoRepeat ==
    /\ \A i, j \in 1..Len(inspected) : i < j => inspected[i] > inspected[j]
    /\ \A i \in 1..Len(inspected) : \A lt \in Asked :
           lt > inspected[i] => lt \in ToSet(inspected)

(***************************************************************************)
(* A found transaction is the newest match, and null without reaching the  *)
(* scan limit means that no transaction asked for matches.                 *)
(***************************************************************************)
AnswerIsComplete ==
    /\ scanPc = "found" =>
          /\ Last(inspected) \in params.matches
          /\ \A lt \in Asked \cap params.matches : lt <= Last(inspected)
    /\ scanPc = "null" /\ scannedTransactions <= params.maxScanned =>
          Asked \cap params.matches = {}

\* The scan limit: never more than maxScannedTransactions are inspected, and
\* it is reported as reached only when that many were.
ScanLimitExact ==
    /\ Len(inspected) <= params.maxScanned
    /\ scannedTransactions > params.maxScanned => Len(inspected) = params.maxScanned

\* The shape of the scan: types, no gap, no repeat, and the limit.
ScanInv == ScanTypeOK /\ NoGapNoRepeat /\ ScanLimitExact

\* Every scan ends, even while the account keeps getting transactions.
ScanEnds == <>(scanPc # "scan")
===============================================================================
