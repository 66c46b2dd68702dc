------------------------------ MODULE Finality_proofs ------------------------------
(***************************************************************************)
(* When an operation counts as final, and the transactions behind it as    *)
(* good: the walk of TxFinalizer, and StartTracking, which asks for such   *)
(* walks before it answers.                                                *)
(*                                                                         *)
(* TxFinalizer for any tree, any outcome, depth, direction, order of the   *)
(* answers and order of indexing.  The invariant says of every hash that   *)
(* was asked about that the calls next to it went well and, within the     *)
(* depth asked for, were asked about in turn or are in the queue; the      *)
(* queue goes by depth, so that what is nearer than its head is done.      *)
(*                                                                         *)
(* StartTracking for any set of linkers, any number of sequencers that     *)
(* learn at their own pace, any limit and any outcome of the transactions: *)
(* what a caller who gets an answer may conclude from it.  The invariant   *)
(* says it of each call of startTracking on its way, and that the outcome  *)
(* is resolved only when all of them are.                                  *)
(***************************************************************************)
EXTENDS StartTracking, TxFinalizer, SequenceTheorems, FiniteSetTheorems,
        WellFoundedInduction, TLAPS

-------------------------------------------------------------------------------
(* The finalizer: what the root reaches *)

LEMMA WithinStart == Within(0) = {Root}
  <1> DEFINE p == [k \in 0..0 |-> Root]
  <1>1. Root \in Tx /\ 0 \in 0..0 /\ \A k \in 1..0 : FALSE
    BY FinalizerAssumption
  <1>2. Root \in Within(0)
    <2>1. p \in [0..0 -> Tx] /\ p[0] = Root
      BY <1>1
    <2> HIDE DEF p
    <2> QED
      BY <1>1, <2>1 DEF Within
  <1>3. \A t \in Within(0) : t = Root
    BY DEF Within
  <1> QED
    BY <1>2, <1>3

\* One step farther, to a call that sent messages.
LEMMA WithinStep ==
  ASSUME NEW n \in Nat, NEW t \in Within(n), NEW u \in Near(t), u \in Tx
  PROVE  u \in Within(n + 1)
  <1>1. PICK p \in [0..n -> Tx] :
            /\ p[0] = Root /\ p[n] = t
            /\ \A k \in 1..n : p[k] = p[k - 1] \/ p[k] \in Near(p[k - 1])
    BY DEF Within
  <1> DEFINE q == [k \in 0..(n + 1) |-> IF k = n + 1 THEN u ELSE p[k]]
  <1>2. \A k \in 0..(n + 1) : k = n + 1 \/ k \in 0..n
    OBVIOUS
  <1>3. q \in [0..(n + 1) -> Tx] /\ q[0] = Root /\ q[n + 1] = u
    BY <1>1, <1>2
  <1>4. ASSUME NEW k \in 1..(n + 1) PROVE q[k] = q[k - 1] \/ q[k] \in Near(q[k - 1])
    <2>1. CASE k = n + 1
      <3>1. q[k] = u /\ q[k - 1] = p[n]
        BY <2>1
      <3> QED
        BY <1>1, <3>1
    <2>2. CASE k # n + 1
      <3>1. k \in 1..n
        BY <2>2
      <3>2. q[k] = p[k] /\ q[k - 1] = p[k - 1]
        BY <3>1
      <3> QED
        BY <1>1, <3>1, <3>2
    <2> QED
      BY <2>1, <2>2
  <1> HIDE DEF q
  <1> QED
    BY <1>3, <1>4 DEF Within

\* What needs one step more is the last one's doing.
LEMMA WithinCameFrom ==
  ASSUME NEW n \in Nat, NEW u \in Within(n + 1)
  PROVE  u \in Within(n) \/ \E t \in Within(n) : u \in Near(t)
  <1>1. PICK p \in [0..(n + 1) -> Tx] :
            /\ p[0] = Root /\ p[n + 1] = u
            /\ \A k \in 1..(n + 1) : p[k] = p[k - 1] \/ p[k] \in Near(p[k - 1])
    BY DEF Within
  <1> DEFINE q == [k \in 0..n |-> p[k]]
  <1>2. n \in 0..(n + 1) /\ n + 1 \in 1..(n + 1) /\ (n + 1) - 1 = n
    OBVIOUS
  <1>3. \A k \in 0..n : k \in 0..(n + 1)
    OBVIOUS
  <1>4. q \in [0..n -> Tx] /\ q[0] = Root /\ q[n] = p[n]
    BY <1>1, <1>3
  <1>5. \A k \in 1..n : k \in 1..(n + 1) /\ k - 1 \in 0..n /\ k \in 0..n
    OBVIOUS
  <1>6. \A k \in 1..n : q[k] = q[k - 1] \/ q[k] \in Near(q[k - 1])
    BY <1>1, <1>5
  <1> HIDE DEF q
  <1>7. p[n] \in Within(n)
    BY <1>1, <1>2, <1>4, <1>6 DEF Within
  <1>8. u = p[n] \/ u \in Near(p[n])
    BY <1>1, <1>2
  <1> QED
    BY <1>7, <1>8

\* What is near is in reach of more steps.
LEMMA WithinGrows ==
  ASSUME NEW n \in Nat, NEW m \in Nat, n <= m
  PROVE  Within(n) \subseteq Within(m)
  <1> SUFFICES ASSUME NEW t \in Within(n) PROVE t \in Within(m)
    OBVIOUS
  <1>1. PICK p \in [0..n -> Tx] :
            /\ p[0] = Root /\ p[n] = t
            /\ \A k \in 1..n : p[k] = p[k - 1] \/ p[k] \in Near(p[k - 1])
    BY DEF Within
  <1> DEFINE q == [k \in 0..m |-> IF k <= n THEN p[k] ELSE t]
  <1>2. t \in Tx
    BY DEF Within
  <1>3. \A k \in 0..m : k <= n => k \in 0..n
    OBVIOUS
  <1>4. q \in [0..m -> Tx]
    BY <1>1, <1>2, <1>3
  <1>5. 0 \in 0..m /\ 0 <= n /\ m \in 0..m /\ (m <= n => m = n)
    OBVIOUS
  <1>6. q[0] = Root /\ q[m] = t
    BY <1>1, <1>5
  <1>7. ASSUME NEW k \in 1..m PROVE q[k] = q[k - 1] \/ q[k] \in Near(q[k - 1])
    <2>1. k \in 0..m /\ k - 1 \in 0..m
      OBVIOUS
    <2>2. CASE k <= n
      <3>1. k \in 1..n /\ k - 1 <= n
        BY <2>2
      <3>2. q[k] = p[k] /\ q[k - 1] = p[k - 1]
        BY <2>1, <2>2, <3>1
      <3> QED
        BY <1>1, <3>1, <3>2
    <2>3. CASE k = n + 1
      <3>1. ~(k <= n) /\ k - 1 = n /\ n <= n
        BY <2>3
      <3>2. q[k] = t /\ q[k - 1] = p[n]
        BY <2>1, <3>1
      <3> QED
        BY <1>1, <3>2
    <2>4. CASE k > n + 1
      <3>1. ~(k <= n) /\ ~(k - 1 <= n)
        BY <2>4
      <3>2. q[k] = t /\ q[k - 1] = t
        BY <2>1, <3>1
      <3> QED
        BY <3>2
    <2> QED
      BY <2>2, <2>3, <2>4
  <1> HIDE DEF q
  <1> QED
    BY <1>2, <1>4, <1>6, <1>7 DEF Within

\* The depth up to which the walk goes on.
LEMMA ReachIs ==
  ASSUME params.maxDepth \in Nat
  PROVE  /\ Reach \in Nat
         /\ \A d \in Nat : d + 1 < params.maxDepth <=> d < Reach
  <1> DEFINE m == params.maxDepth
             S == {1, m}
             M == Max(S)
  <1>1. \E x \in S : \A y \in S : x >= y
    <2>1. CASE m >= 1
      BY <2>1
    <2>2. CASE ~(m >= 1)
      BY <2>2
    <2> QED
      BY <2>1, <2>2
  <1>2. M \in S /\ \A y \in S : M >= y
    BY <1>1, Zenon DEF Max
  <1>3. Reach = M - 1
    BY DEF Reach
  <1> HIDE DEF M
  <1>4. (M = 1 \/ M = m) /\ M >= 1 /\ M >= m
    BY <1>2
  <1> QED
    BY <1>3, <1>4

LEMMA LeastIs ==
  ASSUME NEW a \in Nat, NEW b \in Nat
  PROVE  Min({a, b}) = IF a <= b THEN a ELSE b
  <1> DEFINE S == {a, b}
             M == Min(S)
  <1>1. \E x \in S : \A y \in S : x =< y
    <2>1. CASE a <= b
      BY <2>1
    <2>2. CASE ~(a <= b)
      BY <2>2
    <2> QED
      BY <2>1, <2>2
  <1>2. M \in S /\ \A y \in S : M =< y
    BY <1>1, Zenon DEF Min
  <1> HIDE DEF M
  <1>3. (M = a \/ M = b) /\ M <= a /\ M <= b
    BY <1>2
  <1>4. M = IF a <= b THEN a ELSE b
    BY <1>3
  <1> QED
    BY <1>4 DEF M

\* A listing of a finite set has its elements.
LEMMA ListingIs ==
  ASSUME NEW S \in SUBSET Tx, NEW list \in SetToSeqs(S)
  PROVE  list \in Seq(Tx) /\ ToSet(list) = S
  <1> DEFINE n == Cardinality(S)
             D == 1..n
  <1>1. IsFiniteSet(S) /\ n \in Nat
    BY FinalizerAssumption, FS_Subset, FS_CardinalityType
  <1>2. list \in [D -> S] /\ \A i, j \in D : i # j => list[i] # list[j]
    BY DEF SetToSeqs
  <1>3. IsFiniteSet(D) /\ Cardinality(D) = n
    <2> HIDE DEF n
    <2>1. IsFiniteSet(1..n) /\ Cardinality(1..n) = IF 1 > n THEN 0 ELSE n - 1 + 1
      BY <1>1, FS_Interval
    <2> QED
      BY <1>1, <2>1
  <1>4. list \in Injection(D, S)
    BY <1>2, Zenon DEF Injection, IsInjective
  <1>5. list \in Surjection(D, S)
    BY <1>1, <1>3, <1>4, FS_Injection
  <1> HIDE DEF D
  <1>6. ToSet(list) = S
    <2>1. DOMAIN list = D /\ \A i \in D : list[i] \in S
      BY <1>2
    <2>2. \A t \in S : \E i \in D : list[i] = t
      BY <1>5 DEF Surjection
    <2> QED
      BY <2>1, <2>2 DEF ToSet
  <1>7. list \in Seq(Tx)
    <2>1. list \in [1..n -> Tx]
      BY <1>2 DEF D
    <2> QED
      BY <1>1, <2>1, SeqDef
  <1> QED
    BY <1>6, <1>7

-------------------------------------------------------------------------------
(* The finalizer: the invariant of its walk *)

Item == [hash : Tx, depth : Nat]

WalkTypes ==
    /\ outs \in Trees /\ txs \in Outcomes /\ indexed \subseteq Tx
    /\ params \in [maxDepth : Depths, direction : Directions]
    /\ pc \in {"next", "fetch", "check", "done"}
    /\ queue \in Seq(Item) /\ current \in Item /\ retriesLeft \in 0..Retries
    /\ transactions \in Seq(Tx)
    /\ visitedHashes \subseteq Tx /\ gaps \subseteq visitedHashes
    /\ pc \in {"fetch", "check"} => current.hash \in visitedHashes
    /\ result.verdict \in {"pending", "success", "failed"}
    /\ pc = "done" <=> result.verdict # "pending"

\* A hash is asked about at no smaller depth than the one it lies at.
Placed(s) == s.depth <= Reach /\ s.hash \in Within(s.depth)

\* Depths never decrease, and lie between d and d + 1.
InOrder(q, d) ==
    /\ \A j, k \in 1..Len(q) : j < k => q[j].depth <= q[k].depth
    /\ \A k \in 1..Len(q) : d <= q[k].depth /\ q[k].depth <= d + 1

Places ==
    /\ Placed(current) /\ \A s \in ToSet(queue) : Placed(s)
    /\ InOrder(queue, current.depth)
    /\ pc = "check" => ToSet(transactions) \subseteq Adjacent(current.hash)

\* The requests made for a hash, and those that are left, are the retries.
Counts ==
    /\ requests \in [Tx -> Nat]
    /\ \A t \in Tx : requests[t] <= Retries + 1 /\ (t \notin visitedHashes => requests[t] = 0)
    /\ pc = "fetch" => requests[current.hash] + retriesLeft = Retries

Awaited(t, n) == \E s \in ToSet(queue) : s.hash = t /\ s.depth <= n

\* The walk that was told of t when it asked about h has drawn its conclusions.
Settled(t, h) ==
    /\ WentWell(t)
    /\ outs[t] # {} => \A n \in Nat : h \in Within(n) /\ n < Reach =>
                           t \in visitedHashes \/ Awaited(t, n + 1)

Progress ==
    /\ Root \in visitedHashes \/ Awaited(Root, 0)
    /\ \A h \in visitedHashes : \A t \in Calls({h}) :
           \/ Settled(t, h)
           \/ pc = "fetch" /\ h = current.hash
           \/ pc = "check" /\ h = current.hash /\ t \in ToSet(transactions)
    /\ pc \in {"fetch", "check"} =>
           \A n \in Nat : current.hash \in Within(n) => current.depth <= n

FinalizerInv ==
    /\ WalkTypes /\ Places /\ Counts
    /\ pc # "done" /\ gaps = {} => Progress
    /\ VerdictIsRight

-------------------------------------------------------------------------------
(* The finalizer: lemmas about the walk *)

LEMMA CallsAre ==
  ASSUME WalkTypes
  PROVE  /\ \A t \in Tx : Adjacent(t) \subseteq Tx /\ Near(t) \subseteq Tx
         /\ \A t, h : t \in Calls({h}) <=> t \in Adjacent(h) /\ txs[t].msg = "call"
         /\ \A S, t : t \in Calls(S) <=> \E h \in S : t \in Calls({h})
         /\ params.maxDepth \in Nat /\ Reach \in Nat
  <1>1. outs \in [Tx -> SUBSET Tx] /\ params.maxDepth \in Nat
    BY FinalizerAssumption DEF WalkTypes
  <1>2. \A t \in Tx : Adjacent(t) \subseteq Tx
    BY <1>1 DEF Adjacent
  <1>3. \A t, h : t \in Calls({h}) <=> t \in Adjacent(h) /\ txs[t].msg = "call"
    BY DEF Calls
  <1>4. \A S, t : t \in Calls(S) <=> \E h \in S : t \in Calls({h})
    BY DEF Calls
  <1>5. \A t \in Tx : Near(t) \subseteq Tx
    BY <1>2, <1>3 DEF Near
  <1> QED
    BY <1>1, <1>2, <1>3, <1>4, <1>5, ReachIs

\* A transaction that is not to be skipped is a call, and is checked for going well.
LEMMA CheckedIs ==
  ASSUME WalkTypes, NEW t \in Tx
  PROVE  /\ Skipped(t) <=> txs[t].msg # "call"
         /\ FailureCase(t) = "none" <=> WentWell(t)
  <1>1. txs[t] \in Transactions
    BY FinalizerAssumption DEF WalkTypes
  <1>2. Skipped(t) <=> txs[t].msg # "call"
    BY <1>1 DEF Skipped, Transactions
  <1>3. CASE txs[t].aborted = TRUE
    BY <1>3, <1>2 DEF FailureCase, WentWell
  <1>4. CASE txs[t].aborted = FALSE
    BY <1>4, <1>2 DEF FailureCase, WentWell
  <1>5. txs[t].aborted \in BOOLEAN
    BY <1>1 DEF Transactions
  <1> QED
    BY <1>3, <1>4, <1>5

LEMMA ChainKept ==
  ASSUME UNCHANGED <<chain, params>>
  PROVE  /\ UNCHANGED <<outs, txs, params>>
         /\ \A t : Adjacent(t)' = Adjacent(t) /\ Near(t)' = Near(t)
         /\ \A S : Calls(S)' = Calls(S)
         /\ \A n : Within(n)' = Within(n)
         /\ \A t : WentWell(t)' <=> WentWell(t)
         /\ \A s : Placed(s)' <=> Placed(s)
         /\ Reach' = Reach /\ Covered' = Covered
  <1>1. UNCHANGED <<outs, txs, params>>
    BY DEF chain
  <1>2. \A t : Adjacent(t)' = Adjacent(t)
    BY <1>1 DEF Adjacent
  <1>3. \A S : Calls(S)' = Calls(S)
    BY <1>1, <1>2 DEF Calls
  <1>4. \A t : Near(t)' = Near(t)
    BY <1>1, <1>3 DEF Near
  <1>5. \A n : Within(n)' = Within(n)
    BY <1>4 DEF Within
  <1>6. Reach' = Reach
    BY <1>1 DEF Reach
  <1>7. \A t : WentWell(t)' <=> WentWell(t)
    BY <1>1 DEF WentWell
  <1>8. \A s : Placed(s)' <=> Placed(s)
    BY <1>5, <1>6 DEF Placed
  <1>9. Covered' = Covered
    BY <1>3, <1>5, <1>6 DEF Covered
  <1> QED
    BY <1>1, <1>2, <1>3, <1>4, <1>5, <1>6, <1>7, <1>8, <1>9

LEMMA SettledKept ==
  ASSUME UNCHANGED <<chain, params>>, visitedHashes \subseteq visitedHashes',
         \A s \in ToSet(queue) : s \in ToSet(queue') \/ s.hash \in visitedHashes'
  PROVE  /\ \A t, h : Settled(t, h) => Settled(t, h)'
         /\ \A t, n : Awaited(t, n) => t \in visitedHashes' \/ Awaited(t, n)'
  <1>1. \A t, n : Awaited(t, n) => t \in visitedHashes' \/ Awaited(t, n)'
    BY DEF Awaited
  <1> QED
    BY <1>1, ChainKept DEF Settled

\* If everything in the queue is at least d deep, what is nearer was asked about.
LEMMA Asked ==
  ASSUME WalkTypes, Progress, pc = "next", NEW d \in Nat, d <= Reach + 1,
         \A s \in ToSet(queue) : s.depth \in Nat /\ d <= s.depth
  PROVE  \A n \in Nat : n < d => Within(n) \subseteq visitedHashes
  <1> DEFINE S == {n \in Nat : n < d => Within(n) \subseteq visitedHashes}
  <1>1. Reach \in Nat
    BY CallsAre
  <1>2. ASSUME NEW n \in Nat, NEW t, n < d, Awaited(t, n) PROVE FALSE
    BY <1>2 DEF Awaited
  <1>3. 0 \in S
    BY <1>2, WithinStart DEF Progress
  <1>4. ASSUME NEW n \in Nat, n \in S PROVE n + 1 \in S
    <2> SUFFICES ASSUME n + 1 < d, NEW u \in Within(n + 1) PROVE u \in visitedHashes
      OBVIOUS
    <2>1. n < d /\ n < Reach /\ n + 1 \in Nat
      BY <1>1
    <2>2. Within(n) \subseteq visitedHashes
      BY <1>4, <2>1
    <2>3. CASE u \in Within(n)
      BY <2>2, <2>3
    <2>4. ASSUME NEW t \in Within(n), u \in Near(t) PROVE u \in visitedHashes
      <3>1. u \in Calls({t}) /\ outs[u] # {}
        BY <2>4 DEF Near
      <3>2. Settled(u, t)
        BY <2>2, <3>1 DEF Progress
      <3> QED
        BY <1>2, <2>1, <3>1, <3>2 DEF Settled
    <2> QED
      BY <2>3, <2>4, WithinCameFrom
  <1> HIDE DEF S
  <1>5. \A n \in Nat : n \in S
    <2>1. IsWellFoundedOn(OpToRel(<, Nat), Nat)
      BY NatLessThanWellFounded, Zenon
    <2> DEFINE R == OpToRel(<, Nat)
               T == Nat \ S
    <2>2. \A x, y \in Nat : y < x => <<y, x>> \in R
      BY DEF OpToRel
    <2> HIDE DEF R
    <2>3. SUFFICES ASSUME T # {} PROVE FALSE
      OBVIOUS
    <2>4. IsWellFoundedOn(R, Nat)
      BY <2>1 DEF R
    <2>5. PICK x \in T : \A y \in T : ~ (<<y, x>> \in R)
      BY <2>3, <2>4, WFMin
    <2>6. x \in Nat /\ x # 0
      BY <1>3, <2>5
    <2>7. x - 1 \in Nat /\ x - 1 < x /\ x - 1 + 1 = x
      BY <2>6
    <2>8. x - 1 \notin T
      BY <2>2, <2>5, <2>6, <2>7
    <2> QED
      BY <1>4, <2>5, <2>7, <2>8
  <1> QED
    BY <1>5 DEF S

-------------------------------------------------------------------------------
(* The finalizer: the queue *)

LEMMA HeadOf ==
  ASSUME NEW S, NEW q \in Seq(S), q # <<>>
  PROVE  /\ Head(q) \in S /\ Tail(q) \in Seq(S) /\ ToSet(q) = {Head(q)} \cup ToSet(Tail(q))
         /\ Len(q) \in Nat \ {0} /\ Len(Tail(q)) = Len(q) - 1
         /\ Head(q) = q[1] /\ \A i \in 1..(Len(q) - 1) : Tail(q)[i] = q[i + 1]
  <1> DEFINE n == Len(q)
             r == Tail(q)
  <1>1. /\ Head(q) \in S /\ Head(q) = q[1] /\ r \in Seq(S) /\ n \in Nat \ {0} /\ Len(r) = n - 1
        /\ \A i \in 1..Len(r) : r[i] = q[i + 1]
    BY HeadTailProperties, LenProperties, EmptySeq
  <1>2. DOMAIN q = 1..n /\ DOMAIN r = 1..(n - 1)
    BY <1>1, LenProperties
  <1> HIDE DEF n, r
  <1>3. ASSUME NEW i \in 1..n PROVE q[i] \in {q[1]} \cup ToSet(r)
    <2>1. CASE i = 1
      BY <2>1
    <2>2. CASE i # 1
      <3>1. i - 1 \in 1..(n - 1) /\ (i - 1) + 1 = i
        BY <1>1, <2>2
      <3> QED
        BY <1>1, <1>2, <3>1 DEF ToSet
    <2> QED
      BY <2>1, <2>2
  <1>4. \A i \in 1..(n - 1) : i + 1 \in 1..n /\ r[i] = q[i + 1]
    BY <1>1
  <1>5. ToSet(q) = {q[1]} \cup ToSet(r)
    <2>1. ToSet(q) \subseteq {q[1]} \cup ToSet(r)
      BY <1>2, <1>3 DEF ToSet
    <2>2. 1 \in 1..n
      BY <1>1
    <2> QED
      BY <1>2, <1>4, <2>1, <2>2 DEF ToSet
  <1> QED
    BY <1>1, <1>4, <1>5 DEF n, r

LEMMA AppendIs ==
  ASSUME NEW S, NEW q \in Seq(S), NEW x \in S
  PROVE  /\ Append(q, x) \in Seq(S) /\ ToSet(Append(q, x)) = ToSet(q) \cup {x}
         /\ Len(q) \in Nat /\ Len(Append(q, x)) = Len(q) + 1
         /\ \A i \in 1..Len(q) : Append(q, x)[i] = q[i]
         /\ Append(q, x)[Len(q) + 1] = x
  <1> DEFINE n == Len(q)
             r == Append(q, x)
  <1>1. /\ r \in Seq(S) /\ n \in Nat /\ Len(r) = n + 1
        /\ \A i \in 1..n : r[i] = q[i]
        /\ r[n + 1] = x
    BY AppendProperties, LenProperties
  <1>2. DOMAIN q = 1..n /\ DOMAIN r = 1..(n + 1)
    BY <1>1, LenProperties
  <1> HIDE DEF n, r
  <1>3. \A i \in 1..(n + 1) : i \in 1..n \/ i = n + 1
    BY <1>1
  <1>4. (\A i \in 1..n : i \in 1..(n + 1)) /\ n + 1 \in 1..(n + 1)
    BY <1>1
  <1>5. ToSet(r) = ToSet(q) \cup {x}
    BY <1>1, <1>2, <1>3, <1>4 DEF ToSet
  <1> QED
    BY <1>1, <1>5 DEF n, r

\* The head is nearest, and those after it are at most one step farther.
LEMMA InOrderTail ==
  ASSUME NEW q \in Seq(Item), NEW d \in Nat, InOrder(q, d), q # <<>>
  PROVE  InOrder(Tail(q), d) /\ InOrder(Tail(q), Head(q).depth)
         /\ d <= Head(q).depth /\ \A s \in ToSet(q) : Head(q).depth <= s.depth
  <1> DEFINE n == Len(q)
             r == Tail(q)
  <1>1. /\ n \in Nat \ {0} /\ Len(r) = n - 1 /\ Head(q) = q[1] /\ DOMAIN q = 1..n
        /\ \A i \in 1..(n - 1) : r[i] = q[i + 1]
    BY HeadOf, LenProperties
  <1>2. /\ \A i, j \in 1..n : i < j => q[i].depth <= q[j].depth
        /\ \A i \in 1..n : d <= q[i].depth /\ q[i].depth <= d + 1
    BY DEF InOrder
  <1>3. \A i \in 1..n : q[i].depth \in Nat
    <2>1. \A i \in 1..n : q[i] \in Item
      BY ElementOfSeq
    <2> QED
      BY <2>1 DEF Item
  <1> HIDE DEF n, r
  <1>4. \A i \in 1..(n - 1) : i + 1 \in 1..n /\ 1 < i + 1
    BY <1>1
  <1>5. 1 \in 1..n
    BY <1>1
  <1>6. \A i, j \in 1..(n - 1) : i < j => r[i].depth <= r[j].depth
    BY <1>1, <1>2, <1>4
  <1>7. \A i \in 1..(n - 1) : d <= r[i].depth /\ r[i].depth <= d + 1
    BY <1>1, <1>2, <1>4
  <1>8. \A i \in 1..(n - 1) : q[1].depth <= r[i].depth /\ r[i].depth <= q[1].depth + 1
    <2> TAKE i \in 1..(n - 1)
    <2>1. q[1].depth <= q[i + 1].depth /\ q[i + 1].depth <= d + 1 /\ d <= q[1].depth
      BY <1>2, <1>4, <1>5
    <2> QED
      BY <1>1, <1>3, <1>4, <1>5, <2>1
  <1>9. \A i \in 1..n : q[1].depth <= q[i].depth
    <2> TAKE i \in 1..n
    <2>1. CASE i = 1
      BY <1>3, <1>5, <2>1
    <2>2. CASE i # 1
      <3>1. 1 < i
        BY <2>2
      <3> QED
        BY <1>2, <1>5, <3>1
    <2> QED
      BY <2>1, <2>2
  <1>10. \A s \in ToSet(q) : q[1].depth <= s.depth
    BY <1>1, <1>9 DEF ToSet
  <1> QED
    BY <1>1, <1>2, <1>5, <1>6, <1>7, <1>8, <1>10 DEF InOrder, r

LEMMA InOrderAppend ==
  ASSUME NEW q \in Seq(Item), NEW d \in Nat, InOrder(q, d), NEW x \in Item, x.depth = d + 1
  PROVE  InOrder(Append(q, x), d)
  <1> DEFINE n == Len(q)
             r == Append(q, x)
  <1>1. /\ n \in Nat /\ Len(r) = n + 1
        /\ \A i \in 1..n : r[i] = q[i]
        /\ r[n + 1] = x
    BY AppendIs
  <1>2. /\ \A i, j \in 1..n : i < j => q[i].depth <= q[j].depth
        /\ \A i \in 1..n : d <= q[i].depth /\ q[i].depth <= d + 1
    BY DEF InOrder
  <1> HIDE DEF n, r
  <1>3. \A i \in 1..(n + 1) : i \in 1..n \/ i = n + 1
    BY <1>1
  <1>4. ASSUME NEW i \in 1..(n + 1), NEW j \in 1..(n + 1), i < j
        PROVE  r[i].depth <= r[j].depth
    <2>1. i \in 1..n
      BY <1>1, <1>4
    <2>2. CASE j \in 1..n
      BY <1>1, <1>2, <1>4, <2>1, <2>2
    <2>3. CASE j = n + 1
      BY <1>1, <1>2, <2>1, <2>3
    <2> QED
      BY <1>3, <2>2, <2>3
  <1>5. \A i \in 1..(n + 1) : d <= r[i].depth /\ r[i].depth <= d + 1
    BY <1>1, <1>2, <1>3
  <1> QED
    BY <1>1, <1>4, <1>5 DEF InOrder, r

-------------------------------------------------------------------------------
(* The finalizer: the steps *)

LEMMA FinalizerStarts == FinalizerInit => FinalizerInv
  <1> SUFFICES ASSUME FinalizerInit PROVE FinalizerInv
    OBVIOUS
  <1>1. RootItem \in Item /\ RootItem.hash = Root /\ RootItem.depth = 0
    BY FinalizerAssumption DEF RootItem, Item
  <1>2. queue \in Seq(Item) /\ ToSet(queue) = {RootItem} /\ Len(queue) = 1 /\ queue[1] = RootItem
    BY <1>1 DEF FinalizerInit, ToSet
  <1>3. transactions \in Seq(Tx) /\ Retries \in 0..Retries
    BY FinalizerAssumption DEF FinalizerInit
  <1>4. indexed \subseteq Tx /\ result.verdict = "pending" /\ pc = "next"
    BY DEF FinalizerInit, Pending
  <1>5. WalkTypes
    BY <1>1, <1>2, <1>3, <1>4 DEF FinalizerInit, WalkTypes
  <1>6. Reach \in Nat
    BY <1>5, CallsAre
  <1>7. Placed(RootItem)
    BY <1>1, <1>6, WithinStart DEF Placed
  <1>8. InOrder(queue, 0)
    BY <1>1, <1>2 DEF InOrder
  <1>9. Places
    BY <1>1, <1>2, <1>4, <1>7, <1>8 DEF FinalizerInit, Places
  <1>10. Counts
    BY <1>4, FinalizerAssumption DEF FinalizerInit, Counts
  <1>11. Progress
    BY <1>1, <1>2, <1>4 DEF FinalizerInit, Progress, Awaited
  <1>12. VerdictIsRight
    BY <1>4 DEF VerdictIsRight, SuccessCoversTree, FailureIsReal
  <1> QED
    BY <1>5, <1>9, <1>10, <1>11, <1>12 DEF FinalizerInv

\* Indexing changes the answers to come and nothing of the walk.
LEMMA IndexKeeps ==
  ASSUME FinalizerInv, NEW t \in Tx, Index(t) \/ UNCHANGED finalizerVars
  PROVE  FinalizerInv'
  <1>1. /\ UNCHANGED <<chain, params>> /\ indexed' \subseteq Tx
        /\ UNCHANGED <<outs, txs, params, pc, queue, current, retriesLeft, transactions,
                       visitedHashes, result, requests, gaps>>
    BY DEF Index, finalizerVars, chain, FinalizerInv, WalkTypes
  <1>2. WalkTypes'
    BY <1>1 DEF FinalizerInv, WalkTypes
  <1>3. Places'
    BY <1>1, ChainKept DEF FinalizerInv, Places, InOrder
  <1>4. Counts'
    BY <1>1 DEF FinalizerInv, Counts
  <1>5. Progress => Progress'
    BY <1>1, ChainKept, SettledKept DEF Progress
  <1>6. VerdictIsRight'
    BY <1>1, ChainKept DEF FinalizerInv, VerdictIsRight, SuccessCoversTree, FailureIsReal
  <1> QED
    BY <1>1, <1>2, <1>3, <1>4, <1>5, <1>6 DEF FinalizerInv

\* Nothing is left to ask about: everything within reach was asked about, and
\* what the walk was told went well.
LEMMA SucceedKeeps ==
  ASSUME FinalizerInv, NextHash, queue = <<>>
  PROVE  FinalizerInv'
  <1>1. /\ UNCHANGED <<chain, params>> /\ pc = "next" /\ pc' = "done"
        /\ UNCHANGED <<outs, txs, params, indexed, queue, current, retriesLeft, transactions,
                       visitedHashes, requests, gaps>>
        /\ result' = [verdict |-> "success"]
    BY DEF NextHash, Return, chain
  <1>2. WalkTypes /\ Places /\ Counts
    BY DEF FinalizerInv
  <1>3. result'.verdict = "success"
    BY <1>1
  <1>4. WalkTypes'
    BY <1>1, <1>2, <1>3 DEF WalkTypes
  <1>5. Places'
    BY <1>1, <1>2, ChainKept DEF Places, InOrder
  <1>6. Counts'
    BY <1>1, <1>2 DEF Counts
  <1>7. ASSUME gaps = {}, NEW t \in Covered PROVE WentWell(t)
    <2>1. Progress
      BY <1>1, <1>7 DEF FinalizerInv
    <2>2. ToSet(queue) = {}
      BY DEF ToSet
    <2>3. Reach \in Nat
      BY <1>2, CallsAre
    <2>4. Within(Reach) \subseteq visitedHashes
      <3>1. Reach + 1 \in Nat /\ Reach < Reach + 1 /\ Reach + 1 <= Reach + 1
        BY <2>3
      <3> QED
        BY <1>1, <1>2, <2>1, <2>2, <2>3, <3>1, Asked
    <2>5. PICK h \in Within(Reach) : t \in Calls({h})
      BY <1>2, <1>7, CallsAre DEF Covered
    <2>6. Settled(t, h)
      BY <1>1, <2>1, <2>4, <2>5 DEF Progress
    <2> QED
      BY <2>6 DEF Settled
  <1>8. VerdictIsRight'
    BY <1>1, <1>3, <1>7, ChainKept DEF VerdictIsRight, SuccessCoversTree, FailureIsReal
  <1> QED
    BY <1>1, <1>4, <1>5, <1>6, <1>8 DEF FinalizerInv

\* The head of the queue was asked about before.
LEMMA SkipKeeps ==
  ASSUME FinalizerInv, NextHash, queue # <<>>, Head(queue).hash \in visitedHashes
  PROVE  FinalizerInv'
  <1> DEFINE s == Head(queue)
  <1>1. /\ UNCHANGED <<chain, params>> /\ pc = "next" /\ queue' = Tail(queue)
        /\ UNCHANGED <<outs, txs, params, indexed, pc, current, retriesLeft, transactions,
                       visitedHashes, requests, gaps, result>>
    BY DEF NextHash, Visited, chain
  <1>2. WalkTypes /\ Places /\ Counts /\ VerdictIsRight
    BY DEF FinalizerInv
  <1>3. /\ queue' \in Seq(Item) /\ ToSet(queue) = {s} \cup ToSet(queue')
    BY <1>1, <1>2, HeadOf DEF WalkTypes
  <1>4. WalkTypes'
    BY <1>1, <1>2, <1>3 DEF WalkTypes
  <1>5. Places'
    <2>1. InOrder(queue', current.depth)
      BY <1>1, <1>2, InOrderTail DEF WalkTypes, Places, Item
    <2>2. InOrder(queue, current.depth)'
      BY <1>1, <2>1 DEF InOrder
    <2> QED
      BY <1>1, <1>2, <1>3, <2>2, ChainKept DEF Places
  <1>6. Counts'
    BY <1>1, <1>2 DEF Counts
  <1>7. ASSUME Progress PROVE Progress'
    <2>1. \A x \in ToSet(queue) : x \in ToSet(queue') \/ x.hash \in visitedHashes'
      BY <1>1, <1>3
    <2> QED
      BY <1>1, <1>7, <2>1, ChainKept, SettledKept DEF Progress
  <1>8. VerdictIsRight'
    BY <1>1, <1>2, ChainKept DEF VerdictIsRight, SuccessCoversTree, FailureIsReal
  <1> QED
    BY <1>1, <1>4, <1>5, <1>6, <1>7, <1>8 DEF FinalizerInv

\* A hash that was not asked about: it lies no nearer than its place in the queue.
LEMMA BeginKeeps ==
  ASSUME FinalizerInv, NextHash, queue # <<>>, Head(queue).hash \notin visitedHashes
  PROVE  FinalizerInv'
  <1> DEFINE s == Head(queue)
  <1>1. /\ UNCHANGED <<chain, params>> /\ pc = "next" /\ pc' = "fetch" /\ queue' = Tail(queue)
        /\ UNCHANGED <<outs, txs, params, indexed, transactions, requests, gaps, result>>
        /\ visitedHashes' = visitedHashes \cup {s.hash} /\ current' = s /\ retriesLeft' = Retries
    BY DEF NextHash, Visited, chain
  <1>2. WalkTypes /\ Places /\ Counts /\ VerdictIsRight
    BY DEF FinalizerInv
  <1>3. /\ s \in Item /\ queue' \in Seq(Item) /\ ToSet(queue) = {s} \cup ToSet(queue')
    BY <1>1, <1>2, HeadOf DEF WalkTypes
  <1>4. s.hash \in Tx /\ s.depth \in Nat /\ Retries \in 0..Retries
    BY <1>3, FinalizerAssumption DEF Item
  <1> HIDE DEF s
  <1>5. WalkTypes'
    BY <1>1, <1>2, <1>3, <1>4 DEF WalkTypes
  <1>6. /\ InOrder(queue', s.depth) /\ \A x \in ToSet(queue) : s.depth <= x.depth /\ x.depth \in Nat
    <2>1. /\ InOrder(Tail(queue), s.depth) /\ \A x \in ToSet(queue) : s.depth <= x.depth
      BY <1>2, InOrderTail DEF WalkTypes, Places, Item, s
    <2>2. \A x \in ToSet(queue) : x.depth \in Nat
      <3>1. queue \in Seq(Item)
        BY <1>2 DEF WalkTypes
      <3>2. \A k \in DOMAIN queue : queue[k] \in Item
        BY <3>1, LenProperties, ElementOfSeq
      <3> QED
        BY <3>2 DEF ToSet, Item
    <2> QED
      BY <1>1, <2>1, <2>2
  <1>7. Placed(s) /\ \A x \in ToSet(queue') : Placed(x)
    BY <1>2, <1>3 DEF Places
  <1>8. Places'
    <2>1. InOrder(queue, current.depth)'
      BY <1>1, <1>6 DEF InOrder
    <2>2. Placed(current)'
      BY <1>1, <1>7, ChainKept DEF Placed
    <2> QED
      BY <1>1, <1>7, <2>1, <2>2, ChainKept DEF Places
  <1>9. Counts'
    <2>1. requests[s.hash] = 0
      BY <1>2, <1>4 DEF Counts, s
    <2> QED
      BY <1>1, <1>2, <1>4, <2>1, FinalizerAssumption DEF Counts
  <1>10. ASSUME Progress PROVE Progress'
    <2>1. \A x \in ToSet(queue) : x \in ToSet(queue') \/ x.hash \in visitedHashes'
      BY <1>1, <1>3
    <2>2. Root \in visitedHashes' \/ Awaited(Root, 0)'
      BY <1>1, <1>10, <2>1, SettledKept DEF Progress
    <2>3. ASSUME NEW h \in visitedHashes', NEW t \in Calls({h})
          PROVE  Settled(t, h)' \/ (pc' = "fetch" /\ h = current'.hash)
      <3>1. CASE h = s.hash
        BY <1>1, <3>1
      <3>2. CASE h \in visitedHashes
        <4>1. Settled(t, h)
          BY <1>1, <1>10, <2>3, <3>2 DEF Progress
        <4> QED
          BY <1>1, <2>1, <4>1, SettledKept
      <3> QED
        BY <1>1, <3>1, <3>2
    <2>4. ASSUME NEW n \in Nat, s.hash \in Within(n) PROVE s.depth <= n
      <3>1. Reach \in Nat /\ s.depth <= Reach
        BY <1>2, <1>7, CallsAre DEF Placed
      <3>2. s.depth <= Reach + 1
        BY <1>4, <3>1
      <3>3. n < s.depth => Within(n) \subseteq visitedHashes
        BY <1>1, <1>2, <1>4, <1>6, <1>10, <3>2, Asked
      <3>4. s.hash \notin visitedHashes
        BY DEF s
      <3> QED
        BY <1>4, <2>4, <3>3, <3>4
    <2> QED
      BY <1>1, <2>2, <2>3, <2>4, ChainKept DEF Progress
  <1>11. VerdictIsRight'
    BY <1>1, <1>2, ChainKept DEF VerdictIsRight, SuccessCoversTree, FailureIsReal
  <1> QED
    BY <1>1, <1>5, <1>8, <1>9, <1>10, <1>11 DEF FinalizerInv

\* One more request for the hash at hand.
LEMMA RequestIs ==
  ASSUME FinalizerInv, pc = "fetch", Request
  PROVE  /\ current.hash \in Tx /\ requests \in [Tx -> Nat] /\ retriesLeft \in 0..Retries
         /\ requests' = [requests EXCEPT ![current.hash] = requests[current.hash] + 1]
         /\ requests[current.hash] + retriesLeft = Retries
  <1>1. /\ current.hash \in Tx /\ requests \in [Tx -> Nat] /\ retriesLeft \in 0..Retries
        /\ requests[current.hash] + retriesLeft = Retries /\ requests[current.hash] \in Nat
    BY DEF FinalizerInv, WalkTypes, Counts, Item
  <1> DEFINE a == requests[current.hash] + 1
             b == Retries + 2
  <1>2. a \in Nat /\ b \in Nat /\ a <= b
    BY <1>1, FinalizerAssumption
  <1>3. Min({a, b}) = a
    <2> HIDE DEF a, b
    <2> QED
      BY <1>2, LeastIs
  <1> QED
    BY <1>1, <1>3 DEF Request

LEMMA CountsKept ==
  ASSUME FinalizerInv, pc = "fetch", Request, UNCHANGED <<current, visitedHashes>>,
         \/ pc' = "check"
         \/ pc' = "fetch" /\ retriesLeft > 0 /\ retriesLeft' = retriesLeft - 1
  PROVE  Counts'
  <1>1. /\ current.hash \in Tx /\ requests \in [Tx -> Nat] /\ retriesLeft \in 0..Retries
        /\ requests' = [requests EXCEPT ![current.hash] = requests[current.hash] + 1]
        /\ requests[current.hash] + retriesLeft = Retries
    BY RequestIs
  <1>2. requests[current.hash] \in Nat /\ current.hash \in visitedHashes /\ Retries \in Nat
    BY <1>1, FinalizerAssumption DEF FinalizerInv, WalkTypes
  <1>3. requests[current.hash] + 1 <= Retries + 1 /\ requests[current.hash] + 1 \in Nat
    BY <1>1, <1>2
  <1>4. requests' \in [Tx -> Nat] /\ requests'[current.hash] = requests[current.hash] + 1
    BY <1>1, <1>3
  <1>5. ASSUME NEW t \in Tx
        PROVE  requests'[t] <= Retries + 1 /\ (t \notin visitedHashes' => requests'[t] = 0)
    <2>1. CASE t = current.hash
      BY <1>2, <1>3, <1>4, <2>1
    <2>2. CASE t # current.hash
      <3>1. requests'[t] = requests[t]
        BY <1>1, <2>2
      <3> QED
        BY <3>1 DEF FinalizerInv, Counts
    <2> QED
      BY <2>1, <2>2
  <1>6. pc' = "fetch" => requests'[current'.hash] + retriesLeft' = Retries
    BY <1>1, <1>2, <1>4
  <1> QED
    BY <1>4, <1>5, <1>6 DEF Counts

\* The answer has all the neighbours, or leaves a gap.
LEMMA AnsweredKeeps ==
  ASSUME FinalizerInv, Answered
  PROVE  FinalizerInv'
  <1>1. /\ UNCHANGED <<chain, params>> /\ pc = "fetch" /\ pc' = "check" /\ Request
        /\ UNCHANGED <<outs, txs, params, indexed, queue, current, retriesLeft, visitedHashes, result>>
        /\ gaps' = IF Adjacent(current.hash) \subseteq indexed THEN gaps
                                                          ELSE gaps \cup {current.hash}
        /\ transactions' \in SetToSeqs(Adjacent(current.hash) \cap indexed)
    BY DEF Answered, chain
  <1>2. WalkTypes /\ Places /\ Counts /\ VerdictIsRight
    BY DEF FinalizerInv
  <1>3. /\ transactions' \in Seq(Tx) /\ ToSet(transactions') = Adjacent(current.hash) \cap indexed
    <2>1. Adjacent(current.hash) \cap indexed \in SUBSET Tx
      BY <1>2 DEF WalkTypes
    <2> QED
      BY <1>1, <2>1, ListingIs
  <1>4. WalkTypes'
    BY <1>1, <1>2, <1>3 DEF WalkTypes
  <1>5. Places'
    BY <1>1, <1>2, <1>3, ChainKept DEF Places, InOrder
  <1>6. Counts'
    BY <1>1, CountsKept
  <1>7. ASSUME gaps' = {} PROVE Progress'
    <2>1. gaps = {} /\ ToSet(transactions') = Adjacent(current.hash)
      BY <1>1, <1>3, <1>7
    <2>2. Progress
      BY <1>1, <2>1 DEF FinalizerInv
    <2>3. \A t \in Calls({current.hash}) : t \in ToSet(transactions')
      BY <1>2, <2>1, CallsAre
    <2>4. ASSUME NEW h \in visitedHashes, NEW t \in Calls({h})
          PROVE  Settled(t, h)' \/ (h = current.hash /\ t \in ToSet(transactions'))
      BY <1>1, <2>2, <2>3, SettledKept DEF Progress
    <2>5. Root \in visitedHashes' \/ Awaited(Root, 0)'
      BY <1>1, <2>2, SettledKept DEF Progress
    <2>6. \A n \in Nat : current.hash \in Within(n) => current.depth <= n
      BY <1>1, <2>2 DEF Progress
    <2> QED
      BY <1>1, <2>4, <2>5, <2>6, ChainKept DEF Progress
  <1>8. VerdictIsRight'
    <2>1. result.verdict = "pending"
      BY <1>1, <1>2 DEF WalkTypes
    <2> QED
      BY <1>1, <2>1 DEF VerdictIsRight, SuccessCoversTree, FailureIsReal
  <1> QED
    BY <1>1, <1>4, <1>5, <1>6, <1>7, <1>8 DEF FinalizerInv

\* A request fails: one retry less, or an empty answer that leaves a gap.
LEMMA FailsKeeps ==
  ASSUME FinalizerInv, RequestFails
  PROVE  FinalizerInv'
  <1>1. /\ UNCHANGED <<chain, params>> /\ pc = "fetch" /\ Request
        /\ UNCHANGED <<outs, txs, params, indexed, queue, current, visitedHashes, result>>
    BY DEF RequestFails, chain
  <1>2. \/ /\ retriesLeft > 0 /\ retriesLeft' = retriesLeft - 1
           /\ UNCHANGED <<pc, transactions, gaps>>
        \/ /\ pc' = "check" /\ transactions' = <<>> /\ gaps' = gaps \cup {current.hash}
           /\ UNCHANGED retriesLeft
    BY DEF RequestFails, NoRetryLeft
  <1>3. WalkTypes /\ Places /\ Counts /\ VerdictIsRight /\ result.verdict = "pending"
    BY <1>1 DEF FinalizerInv, WalkTypes
  <1>4. WalkTypes'
    <2>1. <<>> \in Seq(Tx)
      OBVIOUS
    <2>2. retriesLeft' \in 0..Retries
      BY <1>2, <1>3, FinalizerAssumption DEF WalkTypes
    <2> QED
      BY <1>1, <1>2, <1>3, <2>1, <2>2 DEF WalkTypes
  <1>5. Places'
    <2>1. ToSet(<<>>) = {}
      BY DEF ToSet
    <2> QED
      BY <1>1, <1>2, <1>3, <2>1, ChainKept DEF Places, InOrder
  <1>6. Counts'
    BY <1>1, <1>2, CountsKept
  <1>7. ASSUME gaps' = {} PROVE Progress'
    <2>1. pc' = pc /\ gaps = {} /\ transactions' = transactions
      BY <1>2, <1>7
    <2>2. Progress
      BY <1>1, <2>1 DEF FinalizerInv
    <2> QED
      BY <1>1, <2>1, <2>2, ChainKept, SettledKept DEF Progress
  <1>8. VerdictIsRight'
    BY <1>1, <1>3 DEF VerdictIsRight, SuccessCoversTree, FailureIsReal
  <1> QED
    BY <1>1, <1>4, <1>5, <1>6, <1>7, <1>8 DEF FinalizerInv

\* The answer is used up.
LEMMA EndKeeps ==
  ASSUME FinalizerInv, Check, transactions = <<>>
  PROVE  FinalizerInv'
  <1>1. /\ UNCHANGED <<chain, params>> /\ pc = "check" /\ pc' = "next"
        /\ UNCHANGED <<outs, txs, params, indexed, queue, current, retriesLeft, transactions,
                       visitedHashes, requests, gaps, result>>
    BY DEF Check, chain
  <1>2. WalkTypes'
    BY <1>1 DEF FinalizerInv, WalkTypes
  <1>3. Places'
    BY <1>1, ChainKept DEF FinalizerInv, Places, InOrder
  <1>4. Counts'
    BY <1>1 DEF FinalizerInv, Counts
  <1>5. ASSUME Progress PROVE Progress'
    <2>1. ToSet(transactions) = {}
      BY DEF ToSet
    <2> QED
      BY <1>1, <1>5, <2>1, ChainKept, SettledKept DEF Progress
  <1>6. VerdictIsRight'
    BY <1>1, ChainKept DEF FinalizerInv, VerdictIsRight, SuccessCoversTree, FailureIsReal
  <1> QED
    BY <1>1, <1>2, <1>3, <1>4, <1>5, <1>6 DEF FinalizerInv

\* A call that failed lies within the depth asked for.
LEMMA FailedKeeps ==
  ASSUME FinalizerInv, Check, transactions # <<>>,
         ~Skipped(Head(transactions)), FailureCase(Head(transactions)) # "none"
  PROVE  FinalizerInv'
  <1> DEFINE t == Head(transactions)
  <1>1. /\ UNCHANGED <<chain, params>> /\ pc = "check" /\ pc' = "done"
        /\ UNCHANGED <<outs, txs, params, indexed, queue, current, retriesLeft,
                       visitedHashes, requests, gaps>>
        /\ transactions' = Tail(transactions) /\ result' = [verdict |-> "failed", tx |-> t]
    BY DEF Check, Return, chain
  <1>2. WalkTypes /\ Places /\ Counts
    BY DEF FinalizerInv
  <1>3. t \in Tx /\ Tail(transactions) \in Seq(Tx) /\ t \in ToSet(transactions)
    BY <1>2, HeadOf DEF WalkTypes
  <1>4. result'.verdict = "failed" /\ result'.tx = t
    BY <1>1
  <1> HIDE DEF t
  <1>5. WalkTypes'
    BY <1>1, <1>2, <1>3, <1>4 DEF WalkTypes
  <1>6. Places'
    BY <1>1, <1>2, ChainKept DEF Places, InOrder
  <1>7. Counts'
    BY <1>1, <1>2 DEF Counts
  <1>8. t \in Covered /\ ~WentWell(t)
    <2>1. txs[t].msg = "call" /\ ~WentWell(t)
      BY <1>2, <1>3, CheckedIs DEF t
    <2>2. t \in Calls({current.hash})
      BY <1>1, <1>2, <1>3, <2>1, CallsAre DEF Places
    <2>3. current.hash \in Within(Reach)
      BY <1>2, CallsAre, WithinGrows DEF Places, Placed, WalkTypes, Item
    <2> QED
      BY <1>2, <2>1, <2>2, <2>3, CallsAre DEF Covered
  <1>9. VerdictIsRight'
    BY <1>1, <1>4, <1>8, ChainKept DEF VerdictIsRight, SuccessCoversTree, FailureIsReal
  <1> QED
    BY <1>1, <1>5, <1>6, <1>7, <1>9 DEF FinalizerInv

\* A call that went well is asked about later, if it sent messages and is not
\* too far away; one that is skipped is of no interest.
LEMMA PassedKeeps ==
  ASSUME FinalizerInv, Check, transactions # <<>>,
         Skipped(Head(transactions)) \/ FailureCase(Head(transactions)) = "none"
  PROVE  FinalizerInv'
  <1>0. PICK t, d, x : /\ t = Head(transactions) /\ d = current.depth
                       /\ x = [hash |-> t, depth |-> d + 1]
    OBVIOUS
  <1>1. /\ UNCHANGED <<chain, params>> /\ pc = "check"
        /\ UNCHANGED <<outs, txs, params, pc, indexed, current, retriesLeft,
                       visitedHashes, requests, gaps, result>>
        /\ transactions' = Tail(transactions)
        /\ queue' = IF ~Skipped(t) /\ MayDescend /\ outs[t] # {} THEN Append(queue, x) ELSE queue
    BY <1>0 DEF Check, chain
  <1>2. WalkTypes /\ Places /\ Counts /\ VerdictIsRight
    BY DEF FinalizerInv
  <1>3. t \in Tx /\ transactions' \in Seq(Tx) /\ ToSet(transactions) = {t} \cup ToSet(transactions')
    BY <1>0, <1>1, <1>2, HeadOf DEF WalkTypes
  <1>4. Reach \in Nat /\ d \in Nat /\ current.hash \in Tx /\ (MayDescend <=> d < Reach)
    BY <1>0, <1>2, CallsAre, ReachIs DEF WalkTypes, Item, MayDescend
  <1>5. t \in Adjacent(current.hash)
    BY <1>1, <1>2, <1>3 DEF Places
  <1>6. ~Skipped(t) => t \in Calls({current.hash}) /\ WentWell(t)
    BY <1>0, <1>2, <1>3, <1>5, CallsAre, CheckedIs
  <1>7. x \in Item /\ x.hash = t /\ x.depth = d + 1
    BY <1>0, <1>3, <1>4 DEF Item
  <1>8. CASE ~Skipped(t) /\ MayDescend /\ outs[t] # {}
    <2>1. queue' = Append(queue, x)
      BY <1>1, <1>8
    <2>2. queue' \in Seq(Item) /\ ToSet(queue') = ToSet(queue) \cup {x} /\ InOrder(queue', d)
      BY <1>0, <1>2, <1>4, <1>7, <2>1, AppendIs, InOrderAppend DEF WalkTypes, Places
    <2>3. WalkTypes'
      BY <1>1, <1>2, <1>3, <2>2 DEF WalkTypes
    <2>4. Placed(x)
      <3>1. current.hash \in Within(d)
        BY <1>0, <1>2 DEF Places, Placed
      <3>2. t \in Near(current.hash)
        BY <1>6, <1>8 DEF Near
      <3>3. t \in Within(d + 1)
        BY <1>3, <1>4, <3>1, <3>2, WithinStep
      <3> QED
        BY <1>4, <1>7, <1>8, <3>3 DEF Placed
    <2>5. Places'
      <3>1. InOrder(queue, current.depth)'
        BY <1>0, <1>1, <2>2 DEF InOrder
      <3> QED
        BY <1>1, <1>2, <1>3, <2>2, <2>4, <3>1, ChainKept DEF Places
    <2>6. ASSUME Progress PROVE Progress'
      <3>1. \A s \in ToSet(queue) : s \in ToSet(queue')
        BY <2>2
      <3>2. Settled(t, current.hash)'
        <4>1. \A n \in Nat : current.hash \in Within(n) => x.depth <= n + 1
          BY <1>0, <1>1, <1>4, <1>7, <2>6 DEF Progress
        <4>2. x \in ToSet(queue') /\ x.hash = t
          BY <1>7, <2>2
        <4>3. \A n \in Nat : current.hash \in Within(n) => Awaited(t, n + 1)'
          BY <4>1, <4>2 DEF Awaited
        <4>4. WentWell(t)'
          BY <1>1, <1>6, <1>8, ChainKept
        <4>5. \A h, n : h \in Within(n)' <=> h \in Within(n)
          BY <1>1, ChainKept
        <4> QED
          BY <1>1, <4>3, <4>4, <4>5 DEF Settled
      <3>3. ASSUME NEW h \in visitedHashes, NEW u \in Calls({h})
            PROVE  Settled(u, h)' \/ (h = current.hash /\ u \in ToSet(transactions'))
        <4>1. CASE Settled(u, h)
          BY <1>1, <3>1, <4>1, SettledKept
        <4>2. CASE h = current.hash /\ u \in ToSet(transactions)
          <5>1. CASE u = t
            BY <1>1, <3>2, <4>2, <5>1
          <5>2. CASE u # t
            BY <1>3, <4>2, <5>2
          <5> QED
            BY <5>1, <5>2
        <4> QED
          BY <1>1, <2>6, <4>1, <4>2 DEF Progress
      <3>4. Root \in visitedHashes' \/ Awaited(Root, 0)'
        BY <1>1, <2>6, <3>1, SettledKept DEF Progress
      <3> QED
        BY <1>1, <2>6, <3>3, <3>4, ChainKept DEF Progress
    <2>7. Counts'
      BY <1>1, <1>2 DEF Counts
    <2>8. VerdictIsRight'
      BY <1>1, <1>2, ChainKept DEF VerdictIsRight, SuccessCoversTree, FailureIsReal
    <2> QED
      BY <1>1, <2>3, <2>5, <2>6, <2>7, <2>8 DEF FinalizerInv
  <1>9. CASE Skipped(t) \/ ~MayDescend \/ outs[t] = {}
    <2>1. queue' = queue
      BY <1>1, <1>9
    <2>2. WalkTypes'
      BY <1>1, <1>2, <1>3, <2>1 DEF WalkTypes
    <2>3. Places'
      BY <1>1, <1>2, <1>3, <2>1, ChainKept DEF Places, InOrder
    <2>4. ASSUME Progress PROVE Progress'
      <3>1. ASSUME t \in Calls({current.hash}) PROVE Settled(t, current.hash)
        <4>1. ~Skipped(t)
          BY <1>2, <1>3, <3>1, CallsAre, CheckedIs
        <4>2. \A n \in Nat : current.hash \in Within(n) => d <= n
          BY <1>0, <1>1, <2>4 DEF Progress
        <4>3. outs[t] # {} => \A n \in Nat : ~(current.hash \in Within(n) /\ n < Reach)
          BY <1>4, <1>9, <4>1, <4>2
        <4> QED
          BY <1>6, <4>1, <4>3 DEF Settled
      <3>2. ASSUME NEW h \in visitedHashes, NEW u \in Calls({h})
            PROVE  Settled(u, h)' \/ (h = current.hash /\ u \in ToSet(transactions'))
        <4>1. CASE Settled(u, h)
          BY <1>1, <2>1, <4>1, SettledKept
        <4>2. CASE h = current.hash /\ u \in ToSet(transactions) /\ u # t
          BY <1>3, <4>2
        <4>3. CASE h = current.hash /\ u = t
          BY <1>1, <2>1, <3>1, <3>2, <4>3, SettledKept
        <4> QED
          BY <1>1, <2>4, <4>1, <4>2, <4>3 DEF Progress
      <3>3. Root \in visitedHashes' \/ Awaited(Root, 0)'
        BY <1>1, <2>1, <2>4, SettledKept DEF Progress
      <3> QED
        BY <1>1, <2>4, <3>2, <3>3, ChainKept DEF Progress
    <2>5. Counts'
      BY <1>1, <1>2 DEF Counts
    <2>6. VerdictIsRight'
      BY <1>1, <1>2, ChainKept DEF VerdictIsRight, SuccessCoversTree, FailureIsReal
    <2> QED
      BY <1>1, <2>2, <2>3, <2>4, <2>5, <2>6 DEF FinalizerInv
  <1> QED
    BY <1>8, <1>9

-------------------------------------------------------------------------------
(* The finalizer: the theorems *)

LEMMA FinalizerNextKeeps == FinalizerInv /\ [FinalizerNext]_finalizerVars => FinalizerInv'
  <1> SUFFICES ASSUME FinalizerInv, [FinalizerNext]_finalizerVars PROVE FinalizerInv'
    OBVIOUS
  <1>1. CASE NextHash
    BY <1>1, SucceedKeeps, SkipKeeps, BeginKeeps
  <1>2. CASE Answered
    BY <1>2, AnsweredKeeps
  <1>3. CASE RequestFails
    BY <1>3, FailsKeeps
  <1>4. CASE Check
    BY <1>4, EndKeeps, FailedKeeps, PassedKeeps
  <1>5. ASSUME NEW t \in Tx, Index(t) PROVE FinalizerInv'
    BY <1>5, IndexKeeps
  <1>6. CASE UNCHANGED finalizerVars
    BY <1>6, IndexKeeps, FinalizerAssumption
  <1> QED
    BY <1>1, <1>2, <1>3, <1>4, <1>5, <1>6 DEF FinalizerNext, Walk

LEMMA FinalizerInvAlways == FinalizerSpec => []FinalizerInv
  <1> QED
    BY FinalizerStarts, FinalizerNextKeeps, PTL DEF FinalizerSpec

\* What the finalizer says is so: of success, if the indexer told it everything
\* it asked for, that every call within the depth asked for went well; of a
\* failure, always, that it is one of such a call.
THEOREM FinalizerTheorem == FinalizerSpec => []VerdictIsRight
  <1>1. FinalizerInv => VerdictIsRight
    BY DEF FinalizerInv
  <1> QED
    BY <1>1, FinalizerInvAlways, PTL

\* A hash is asked about once, with its retries and no more, however the
\* transactions name each other and in whatever order they are indexed.
THEOREM AskedOnceTheorem == FinalizerSpec => []WalkInv
  <1>1. FinalizerInv => WalkInv
    <2> SUFFICES ASSUME FinalizerInv PROVE WalkInv
      OBVIOUS
    <2>1. \A k \in 1..Len(queue) : queue[k] \in Item /\ queue[k] \in ToSet(queue)
      BY LenProperties, ElementOfSeq DEF FinalizerInv, WalkTypes, ToSet
    <2>2. \A k \in 1..Len(queue) : queue[k].hash \in Tx /\ queue[k].depth <= Reach
      BY <2>1 DEF FinalizerInv, Places, Placed, Item
    <2>3. FinalizerTypeOK
      BY <2>2 DEF FinalizerInv, WalkTypes, FinalizerTypeOK, Item
    <2>4. AskedOnce
      BY DEF FinalizerInv, Counts, AskedOnce
    <2> QED
      BY <2>3, <2>4 DEF WalkInv
  <1> QED
    BY <1>1, FinalizerInvAlways, PTL

-------------------------------------------------------------------------------
(* startTracking: the invariant *)

USE StartTrackingAssumption

Ended(l) == \E s \in Sequencers : stage[s][l] = 2

Track == [pc : {"poll", "profile", "verify", "id", "type", "resolved", "rejected"},
          status : {"none", "OPERATION_ID_NOT_FOUND", "PENDING", "SUCCESSFUL", "FAILED"},
          operationId : BOOLEAN, operationType : {"none", "UNKNOWN", "PENDING", "FINAL"},
          iteration : Nat, profile : [final : BOOLEAN, transactions : Seq(BOOLEAN)],
          transactions : Seq(BOOLEAN)]

\* How a transaction should have gone.
Well == {TRUE}

\* The transactions that are still to be checked are the last ones of the profile,
\* and those before them went well.
Checked(all, rest) ==
    /\ Len(rest) <= Len(all)
    /\ \A i \in 1..Len(rest) : rest[i] = all[Len(all) - Len(rest) + i]
    /\ \A i \in 1..(Len(all) - Len(rest)) : all[i] \in Well

\* What is so of t, the state of the call for l.
Sound(l, t) ==
    /\ t.operationType = "FINAL" => Ended(l)
    /\ options.asks = "track" /\ options.returnValue /\ t.pc \in {"profile", "verify", "resolved"} =>
           t.operationType = "FINAL"
    /\ t.pc \in {"id", "type"} => options.asks = "status"
    /\ options.returnValue /\ options.verifies /\ t.pc \in {"verify", "resolved"} =>
           Checked(t.profile.transactions, t.transactions)
    /\ options.verifies /\ t.pc = "resolved" => t.transactions = <<>>
    /\ t.status \in {"SUCCESSFUL", "FAILED"} =>
           Ended(l) /\ (t.status = "FAILED" <=> l \in rolledBack)

OptionsOK ==
    /\ options.linkers \subseteq Linkers
    /\ options.asks \in {"track", "status"} /\ options.returnValue \in BOOLEAN
    /\ options.asks = "status" => ~options.verifies

IInv ==
    /\ track \in [Linkers -> Track]
    /\ executed \in [Linkers -> Seq(BOOLEAN)]
    /\ stage \in [Sequencers -> [Linkers -> 0..2]]
    /\ OptionsOK
    /\ \A l \in Linkers : Sound(l, track[l])
    /\ outcome = "resolved" => \A l \in options.linkers : l \in Linkers /\ track[l].pc = "resolved"

-------------------------------------------------------------------------------
(* startTracking: lemmas *)

\* One transaction more has gone well.
LEMMA CheckedTail ==
  ASSUME NEW S, NEW all \in Seq(S), NEW rest \in Seq(S), Checked(all, rest),
         rest # <<>>, Head(rest) \in Well
  PROVE  Tail(rest) \in Seq(S) /\ Checked(all, Tail(rest))
  <1> DEFINE n == Len(all)
             m == Len(rest)
             tail == Tail(rest)
  <1>1. n \in Nat /\ m \in Nat /\ m > 0
    BY HeadTailProperties, LenProperties, EmptySeq
  <1>2. /\ tail \in Seq(S) /\ Len(tail) = m - 1
        /\ \A i \in 1..(m - 1) : tail[i] = rest[i + 1]
    BY HeadTailProperties
  <1>3. rest[1] \in Well
    BY HeadTailProperties
  <1>4. /\ m <= n
        /\ \A i \in 1..m : rest[i] = all[n - m + i]
        /\ \A i \in 1..(n - m) : all[i] \in Well
    BY DEF Checked
  <1> HIDE DEF n, m, tail
  <1>5. \A i \in 1..(m - 1) : tail[i] = all[n - (m - 1) + i]
    <2> TAKE i \in 1..(m - 1)
    <2>1. i + 1 \in 1..m /\ n - m + (i + 1) = n - (m - 1) + i
      BY <1>1
    <2> QED
      BY <1>2, <1>4, <2>1
  <1>6. \A i \in 1..(n - (m - 1)) : all[i] \in Well
    <2> TAKE i \in 1..(n - (m - 1))
    <2>1. 1 \in 1..m /\ (i \in 1..(n - m) \/ i = n - m + 1)
      BY <1>1, <1>4
    <2> QED
      BY <1>3, <1>4, <2>1
  <1>7. Len(tail) <= n /\ n - Len(tail) = n - (m - 1)
    BY <1>1, <1>2, <1>4
  <1> QED
    BY <1>2, <1>5, <1>6, <1>7 DEF Checked, n, tail

\* At first, none has been checked.
LEMMA CheckedNone ==
  ASSUME NEW S, NEW all \in Seq(S)
  PROVE  Checked(all, all)
  BY LenProperties DEF Checked

\* A step of the call for l that leads to a sound state of it.
LEMMA StepKeeps ==
  ASSUME IInv, NEW l \in Linkers, NEW next \in Track, Continue(l, next), Sound(l, next),
         track[l].pc # "resolved"
  PROVE  IInv'
  <1>1. /\ track' = [track EXCEPT ![l] = next] /\ track' \in [Linkers -> Track]
        /\ outcome' = Outcome(track')
        /\ UNCHANGED <<executed, rolledBack, stage, options>>
    BY DEF Continue, IInv
  <1>2. \A m \in Linkers : Sound(m, track'[m])
    BY <1>1 DEF IInv
  <1>3. \A m \in Linkers : Sound(m, track[m])'
    BY <1>1, <1>2 DEF Sound, Ended
  <1>4. outcome' = "resolved" =>
           \A m \in options'.linkers : m \in Linkers /\ track'[m].pc = "resolved"
    <2> SUFFICES ASSUME outcome' = "resolved"
                 PROVE  \A m \in options.linkers : m \in Linkers /\ track'[m].pc = "resolved"
      BY <1>1
    <2>1. CASE outcome = "resolved"
      BY <1>1, <2>1 DEF IInv
    <2>2. CASE outcome # "resolved"
      BY <1>1, <2>2 DEF Outcome, IInv, OptionsOK
    <2> QED
      BY <2>1, <2>2
  <1> QED
    BY <1>1, <1>3, <1>4 DEF IInv, OptionsOK

LEMMA InitIInv == Init => IInv
  <1> SUFFICES ASSUME Init PROVE IInv
    OBVIOUS
  <1>1. OptionsOK
    BY DEF Init, Options, OptionsOK
  <1>2. PICK known \in {FALSE, options.asks = "track"} : track = [l \in Linkers |-> Start(known)]
    BY DEF Init
  <1>3. known \in BOOLEAN
    OBVIOUS
  <1>4. Start(known) \in Track /\ Start(known).operationType = "none"
        /\ Start(known).pc \in {"poll", "id"} /\ Start(known).status = "none"
        /\ (Start(known).pc = "id" => options.asks = "status")
    BY <1>1, <1>3 DEF Start, Track, NoProfile, OptionsOK
  <1>5. \A l \in Linkers : Sound(l, Start(known))
    BY <1>4 DEF Sound
  <1>6. executed \in [Linkers -> Seq(BOOLEAN)]
    BY DEF Init, StartTrackingAssumption
  <1>7. stage \in [Sequencers -> [Linkers -> 0..2]]
    BY DEF Init
  <1> QED
    BY <1>1, <1>2, <1>4, <1>5, <1>6, <1>7 DEF Init, IInv

\* A sequencer learns more: what has ended has ended.
LEMMA LearnKeeps ==
  ASSUME IInv, NEW s \in Sequencers, NEW l \in Linkers, Learn(s, l)
  PROVE  IInv'
  <1>1. PICK k \in (stage[s][l] + 1)..2 : stage' = [stage EXCEPT ![s][l] = k]
    BY DEF Learn
  <1>2. stage[s][l] \in 0..2 /\ stage[s][l] < 2 /\ k \in 0..2
    BY <1>1 DEF IInv, Learn
  <1>3. stage' \in [Sequencers -> [Linkers -> 0..2]]
    BY <1>1, <1>2 DEF IInv
  <1>4. \A m \in Linkers : Ended(m) => Ended(m)'
    <2> SUFFICES ASSUME NEW m \in Linkers, NEW r \in Sequencers, stage[r][m] = 2
                 PROVE  stage'[r][m] = 2
      BY DEF Ended
    <2> QED
      BY <1>1, <1>2 DEF IInv
  <1>5. UNCHANGED <<executed, rolledBack, options, track, outcome>>
    BY DEF Learn
  <1>6. \A m \in Linkers : Sound(m, track[m])'
    BY <1>4, <1>5 DEF IInv, Sound
  <1> QED
    BY <1>3, <1>5, <1>6 DEF IInv, OptionsOK

\* An answer to the question for the id.
LEMMA WithOperationId ==
  ASSUME NEW t \in Track, NEW known \in BOOLEAN
  PROVE  LET next == [t EXCEPT !.operationId = known]
         IN  /\ next \in Track /\ next.pc = t.pc /\ next.status = t.status
             /\ next.operationType = t.operationType
  BY DEF Track

\* Polling and the limit.
LEMMA PollKeeps ==
  ASSUME IInv, NEW l \in Linkers, AskOperationId(l) \/ AskOperationType(l) \/ LimitReached(l)
  PROVE  IInv'
  <1> DEFINE t == track[l]
  <1>1. t \in Track /\ Sound(l, t) /\ t.pc = "poll" /\ t.iteration + 1 \in Nat
    <2>1. t.pc = "poll"
      BY DEF AskOperationId, AskOperationType, LimitReached, Polls
    <2>2. t \in Track /\ Sound(l, t)
      BY DEF IInv
    <2>3. t.iteration \in Nat
      BY <2>2 DEF Track
    <2> QED
      BY <2>1, <2>2, <2>3
  <1>2. Polled(l) \in Track /\ Sound(l, Polled(l)) /\ Polled(l).pc = "poll"
    BY <1>1 DEF Polled, Track, Sound
  <1>3. CASE AskOperationId(l)
    <2>1. CASE Continue(l, Polled(l))
      BY <1>1, <1>2, <2>1, StepKeeps
    <2>2. ASSUME NEW s \in Sequencers,
                 Continue(l, [Polled(l) EXCEPT !.operationId = stage[s][l] > 0])
          PROVE  IInv'
      <3> DEFINE knows == stage[s][l] > 0
                 next == [Polled(l) EXCEPT !.operationId = knows]
      <3>1. knows \in BOOLEAN
        OBVIOUS
      <3>2. Continue(l, next)
        BY <2>2
      <3> HIDE DEF knows
      <3>3. next \in Track /\ next.pc = "poll" /\ next.status = Polled(l).status
            /\ next.operationType = Polled(l).operationType
        BY <1>2, <3>1, WithOperationId
      <3>4. Sound(l, next)
        BY <1>2, <3>3 DEF Sound
      <3> QED
        BY <1>1, <3>2, <3>3, <3>4, StepKeeps
    <2> QED
      BY <1>3, <2>1, <2>2 DEF AskOperationId
  <1>4. CASE AskOperationType(l)
    <2>1. CASE Continue(l, Polled(l))
      BY <1>1, <1>2, <2>1, StepKeeps
    <2>2. ASSUME NEW s \in Sequencers,
                 Continue(l, [Polled(l) EXCEPT !.operationType = TypeKnownTo(s, l),
                              !.pc = IF IsFinal(TypeKnownTo(s, l)) THEN "profile" ELSE "poll"])
          PROVE  IInv'
      <3> DEFINE type == TypeKnownTo(s, l)
                 goes == IF IsFinal(type) THEN "profile" ELSE "poll"
                 next == [Polled(l) EXCEPT !.operationType = type, !.pc = goes]
      <3>1. stage[s][l] \in 0..2
        BY DEF IInv
      <3>2. type \in {"UNKNOWN", "PENDING", "FINAL"} /\ (type = "FINAL" => Ended(l))
        BY <3>1 DEF TypeKnownTo, Ended
      <3>3. goes \in {"profile", "poll"} /\ (goes = "profile" => type = "FINAL")
        BY <3>2 DEF IsFinal
      <3> HIDE DEF type, goes
      <3>4. next \in Track /\ next.pc = goes /\ next.operationType = type
            /\ next.status = Polled(l).status
        BY <1>2, <3>2, <3>3 DEF Track
      <3>5. Sound(l, next)
        BY <1>2, <3>2, <3>3, <3>4 DEF Sound
      <3>6. Continue(l, next)
        BY <2>2 DEF type, goes
      <3> QED
        BY <1>1, <3>4, <3>5, <3>6, StepKeeps
    <2> QED
      BY <1>4, <2>1, <2>2 DEF AskOperationType
  <1>5. CASE LimitReached(l)
    <2> DEFINE next == [Polled(l) EXCEPT !.pc = AfterLimit]
    <2>1. /\ AfterLimit \in {"rejected", "profile"}
          /\ AfterLimit = "profile" => ~options.returnValue
      BY DEF AfterLimit
    <2>2. next \in Track /\ next.pc = AfterLimit /\ next.status = Polled(l).status
          /\ next.operationType = Polled(l).operationType
      BY <1>2, <2>1 DEF Track
    <2>3. Sound(l, next)
      BY <1>2, <2>1, <2>2 DEF Sound
    <2> QED
      BY <1>1, <1>5, <2>2, <2>3, StepKeeps DEF LimitReached
  <1> QED
    BY <1>3, <1>4, <1>5

\* A state of which nothing is claimed but what is so of t already.
LEMMA Rejected ==
  ASSUME IInv, NEW l \in Linkers, track[l].pc # "resolved",
         Continue(l, [track[l] EXCEPT !.pc = "rejected"])
  PROVE  IInv'
  <1> DEFINE next == [track[l] EXCEPT !.pc = "rejected"]
  <1>1. next \in Track /\ next.pc = "rejected" /\ next.status = track[l].status
        /\ next.operationType = track[l].operationType
    BY ZenonT(30) DEF IInv, Track
  <1>2. Sound(l, next)
    BY <1>1 DEF IInv, Sound
  <1> QED
    BY <1>1, <1>2, StepKeeps

LEMMA ProfileKeeps ==
  ASSUME IInv, NEW l \in Linkers, FetchProfile(l)
  PROVE  IInv'
  <1>1. track[l] \in Track /\ Sound(l, track[l]) /\ track[l].pc = "profile"
        /\ executed[l] \in Seq(BOOLEAN)
    BY DEF IInv, FetchProfile
  <1>2. CASE Continue(l, [track[l] EXCEPT !.pc = "rejected"])
    BY <1>1, <1>2, Rejected
  <1>3. ASSUME NEW final \in BOOLEAN, NEW profiled \in Seq(BOOLEAN), NEW rest,
               rest = IF options.verifies THEN profiled ELSE <<>>,
               Continue(l, [track[l] EXCEPT
                   !.profile = [final |-> final, transactions |-> profiled],
                   !.transactions = rest, !.pc = "verify"])
        PROVE  IInv'
    <2> DEFINE next == [track[l] EXCEPT !.profile = [final |-> final, transactions |-> profiled],
                                        !.transactions = rest, !.pc = "verify"]
    <2>1. rest \in Seq(BOOLEAN)
      BY <1>3, EmptySeq
    <2>2. next \in Track /\ next.pc = "verify" /\ next.status = track[l].status
          /\ next.operationType = track[l].operationType
          /\ next.profile.transactions = profiled /\ next.transactions = rest
      BY <1>1, <2>1 DEF Track
    <2> HIDE DEF next
    <2>3. options.verifies => Checked(profiled, rest)
      BY <1>3, CheckedNone
    <2>4. Sound(l, next)
      BY <1>1, <2>2, <2>3 DEF Sound
    <2> QED
      BY <1>1, <1>3, <2>2, <2>4, StepKeeps DEF next
  <1>4. ASSUME NEW s \in Sequencers,
               LET final == stage[s][l] = 2
                   profiled == IF final THEN executed[l] ELSE <<>>
               IN  Continue(l, [track[l] EXCEPT
                       !.profile = [final |-> final, transactions |-> profiled],
                       !.transactions = IF options.verifies THEN profiled ELSE <<>>,
                       !.pc = "verify"])
        PROVE  IInv'
    <2> DEFINE final == stage[s][l] = 2
               profiled == IF final THEN executed[l] ELSE <<>>
    <2>1. final \in BOOLEAN /\ profiled \in Seq(BOOLEAN)
      BY <1>1, EmptySeq
    <2>2. Continue(l, [track[l] EXCEPT
              !.profile = [final |-> final, transactions |-> profiled],
              !.transactions = IF options.verifies THEN profiled ELSE <<>>, !.pc = "verify"])
      BY <1>4
    <2> HIDE DEF final, profiled
    <2> QED
      BY <1>3, <2>1, <2>2
  <1> QED
    BY <1>2, <1>4 DEF FetchProfile

LEMMA VerifyKeeps ==
  ASSUME IInv, NEW l \in Linkers, Verify(l) \/ Finish(l)
  PROVE  IInv'
  <1> DEFINE t == track[l]
             all == t.profile.transactions
  <1>1. t \in Track /\ Sound(l, t) /\ t.pc = "verify"
        /\ t.transactions \in Seq(BOOLEAN) /\ all \in Seq(BOOLEAN)
    BY DEF IInv, Verify, Finish, Track
  <1>2. ASSUME Continue(l, [t EXCEPT !.transactions = Tail(@)]), t.transactions # <<>>,
               options.returnValue => Head(t.transactions) \in Well
        PROVE  IInv'
    <2> DEFINE next == [t EXCEPT !.transactions = Tail(t.transactions)]
    <2>1. Tail(t.transactions) \in Seq(BOOLEAN)
      BY <1>1, <1>2, HeadTailProperties
    <2>2. next \in Track /\ next.pc = "verify" /\ next.status = t.status
          /\ next.operationType = t.operationType
          /\ next.profile.transactions = all /\ next.transactions = Tail(t.transactions)
      BY <1>1, <2>1 DEF Track
    <2>3. options.returnValue /\ options.verifies => Checked(all, Tail(t.transactions))
      <3> SUFFICES ASSUME options.returnValue, options.verifies
                   PROVE  Checked(all, Tail(t.transactions))
        OBVIOUS
      <3>1. Checked(all, t.transactions)
        BY <1>1 DEF Sound
      <3> QED
        BY <1>1, <1>2, <3>1, CheckedTail
    <2>4. Continue(l, next) /\ t.pc # "resolved"
      BY <1>1, <1>2
    <2> HIDE DEF next
    <2>5. Sound(l, next)
      BY <1>1, <2>2, <2>3 DEF Sound
    <2> QED
      BY <2>2, <2>4, <2>5, StepKeeps
  <1>3. CASE Verify(l)
    <2>1. t.transactions # <<>>
      BY <1>3 DEF Verify
    <2>2. CASE Head(t.transactions) /\ Continue(l, [t EXCEPT !.transactions = Tail(@)])
      <3>1. Head(t.transactions) \in BOOLEAN
        BY <1>1, <2>1, HeadTailProperties
      <3>2. Head(t.transactions) \in Well
        BY <2>2, <3>1, Zenon DEF Well
      <3> QED
        BY <1>2, <2>1, <2>2, <3>2
    <2>3. CASE Continue(l, AfterBadTransaction(l))
      <3>1. CASE options.returnValue
        BY <1>1, <2>3, <3>1, Rejected DEF AfterBadTransaction
      <3>2. CASE ~options.returnValue
        BY <1>2, <2>1, <2>3, <3>2 DEF AfterBadTransaction
      <3> QED
        BY <3>1, <3>2
    <2> QED
      BY <1>3, <2>2, <2>3 DEF Verify
  <1>4. CASE Finish(l)
    <2> DEFINE next == [t EXCEPT !.pc = "resolved"]
    <2>1. t.transactions = <<>> /\ Continue(l, next)
      BY <1>4 DEF Finish
    <2>2. next \in Track /\ next.pc = "resolved" /\ next.status = t.status
          /\ next.operationType = t.operationType
          /\ next.profile = t.profile /\ next.transactions = t.transactions
      BY <1>1 DEF Track
    <2> HIDE DEF next
    <2>3. Sound(l, next)
      BY <1>1, <2>1, <2>2 DEF Sound
    <2> QED
      BY <1>1, <2>1, <2>2, <2>3, StepKeeps
  <1> QED
    BY <1>3, <1>4

\* The status: two requests, of which the second alone decides.
LEMMA StatusKeeps ==
  ASSUME IInv, NEW l \in Linkers, StatusOfId(l) \/ AskStatusOfType(l)
  PROVE  IInv'
  <1> DEFINE t == track[l]
  <1>1. t \in Track /\ Sound(l, t) /\ t.pc \in {"id", "type"}
        /\ options.asks = "status" /\ ~options.verifies
    BY DEF IInv, StatusOfId, AskStatusOfType, Sound, OptionsOK
  <1>2. CASE Continue(l, [t EXCEPT !.pc = "rejected"])
    BY <1>1, <1>2, Rejected
  <1>3. CASE Continue(l, [t EXCEPT !.pc = "type", !.operationId = TRUE])
    <2> DEFINE next == [t EXCEPT !.pc = "type", !.operationId = TRUE]
    <2>1. next \in Track /\ next.pc = "type" /\ next.status = t.status
          /\ next.operationType = t.operationType
      BY <1>1 DEF Track
    <2>2. Sound(l, next)
      BY <1>1, <2>1 DEF Sound
    <2> QED
      BY <1>1, <1>3, <2>1, <2>2, StepKeeps
  <1>4. ASSUME NEW status \in {"OPERATION_ID_NOT_FOUND", "PENDING", "SUCCESSFUL", "FAILED"},
               Answer(l, status),
               status \in {"SUCCESSFUL", "FAILED"} =>
                   Ended(l) /\ (status = "FAILED" <=> l \in rolledBack)
        PROVE  IInv'
    <2> DEFINE next == [t EXCEPT !.pc = "resolved", !.status = status]
    <2>1. next \in Track /\ next.pc = "resolved" /\ next.status = status
          /\ next.operationType = t.operationType
      BY <1>1, <1>4 DEF Track
    <2> HIDE DEF next
    <2>2. Sound(l, next)
      BY <1>1, <1>4, <2>1 DEF Sound
    <2>3. Continue(l, next)
      BY <1>4 DEF Answer, next
    <2> QED
      BY <1>1, <2>1, <2>2, <2>3, StepKeeps
  <1>5. CASE StatusOfId(l)
    BY <1>2, <1>3, <1>4, <1>5 DEF StatusOfId
  <1>6. CASE AskStatusOfType(l)
    <2>1. ASSUME NEW s \in Sequencers, Answer(l, StatusOfType(l, TypeKnownTo(s, l)))
          PROVE  IInv'
      <3>1. stage[s][l] \in 0..2
        BY DEF IInv
      <3>2. /\ TypeKnownTo(s, l) \in {"UNKNOWN", "PENDING", "FINAL"}
            /\ TypeKnownTo(s, l) = "FINAL" => Ended(l)
        BY <3>1 DEF TypeKnownTo, Ended
      <3> DEFINE status == StatusOfType(l, TypeKnownTo(s, l))
      <3>3. status \in {"PENDING", "SUCCESSFUL", "FAILED"}
        BY DEF StatusOfType
      <3>4. status \in {"SUCCESSFUL", "FAILED"} =>
                Ended(l) /\ (status = "FAILED" <=> l \in rolledBack)
        BY <3>2 DEF StatusOfType, IsFinal
      <3>5. Answer(l, status)
        BY <2>1
      <3> HIDE DEF status
      <3> QED
        BY <1>4, <3>3, <3>4, <3>5
    <2> QED
      BY <1>2, <1>6, <2>1 DEF AskStatusOfType
  <1> QED
    BY <1>5, <1>6

LEMMA NextKeepsIInv == IInv /\ [Next]_vars => IInv'
  <1> SUFFICES ASSUME IInv, [Next]_vars PROVE IInv'
    OBVIOUS
  <1>1. CASE UNCHANGED vars
    BY <1>1 DEF vars, IInv, OptionsOK, Sound, Ended
  <1>2. ASSUME NEW l \in Linkers, Step(l) PROVE IInv'
    BY <1>2, PollKeeps, ProfileKeeps, VerifyKeeps, StatusKeeps DEF Step, RequestSettles, Proceeds
  <1>3. ASSUME NEW s \in Sequencers, NEW l \in Linkers, Learn(s, l) PROVE IInv'
    BY <1>3, LearnKeeps
  <1> QED
    BY <1>1, <1>2, <1>3 DEF Next

LEMMA IInvAlways == Spec => []IInv
  BY InitIInv, NextKeepsIInv, PTL DEF Spec

-------------------------------------------------------------------------------
(* startTracking: the theorem *)

(***************************************************************************)
(* A caller of startTracking who gets a value learns of operations that    *)
(* have ended, all of them if he asked for several, and no profile holds a *)
(* transaction that failed and could be checked; a final status is that of *)
(* an operation that has ended - whatever the sequencers know when.        *)
(***************************************************************************)
THEOREM ReturnTheorem == Spec => []ReturnMeansEndedAndVerified
  <1>1. ASSUME IInv PROVE ReturnMeansEnded
    BY <1>1 DEF IInv, ReturnMeansEnded, Sound, Ended
  <1>2. ASSUME IInv PROVE ReturnMeansVerified
    <2> SUFFICES ASSUME outcome = "resolved", options.returnValue, options.verifies,
                        NEW l \in options.linkers,
                        NEW k \in 1..Len(track[l].profile.transactions)
                 PROVE  track[l].profile.transactions[k]
      BY DEF ReturnMeansVerified
    <2> DEFINE all == track[l].profile.transactions
    <2>1. l \in Linkers /\ track[l].pc = "resolved" /\ track[l] \in Track /\ Sound(l, track[l])
      BY <1>2 DEF IInv
    <2>2. all \in Seq(BOOLEAN) /\ Checked(all, <<>>)
      BY <2>1 DEF Track, Sound
    <2> HIDE DEF all
    <2>3. Len(all) \in Nat /\ Len(<<>>) = 0 /\ k \in 1..Len(all)
      BY <2>2, LenProperties DEF all
    <2>4. all[k] \in Well
      BY <2>2, <2>3 DEF Checked
    <2> QED
      BY <2>4, Zenon DEF Well, all
  <1>3. ASSUME IInv PROVE StatusIsRight
    BY <1>3 DEF IInv, StatusIsRight, Sound, Ended
  <1>4. IInv => ReturnMeansEndedAndVerified
    BY <1>1, <1>2, <1>3 DEF ReturnMeansEndedAndVerified
  <1> QED
    BY <1>4, IInvAlways, PTL

-------------------------------------------------------------------------------
(* startTracking: why a call is rejected *)

Most == Max({1, options.maxIterationCount})

\* Everything in list happened to l's transactions.
Happened(l, list) ==
    \A k \in 1..Len(list) : \E j \in 1..Len(executed[l]) : executed[l][j] = list[k]

\* A transaction of l failed where there was somebody to check it.
Failed(l) == options.verifies /\ \E k \in 1..Len(executed[l]) : ~executed[l][k]

AtLimit(t) == t.iteration >= options.maxIterationCount

\* How t, the state of the call for l, comes to be rejected if no request fails.
Accounted(l, t) ==
    /\ t.iteration \in 0..Most /\ (t.pc = "poll" => t.iteration < Most)
    /\ t.operationType = "FINAL" => t.operationId = TRUE
    /\ errors = 0 /\ t.pc = "profile" => t.operationType = "FINAL" \/ AtLimit(t)
    /\ Happened(l, t.transactions) /\ (~options.verifies => t.transactions = <<>>)
    /\ errors = 0 /\ t.pc = "rejected" => AtLimit(t) \/ Failed(l)

RejectInv ==
    /\ options \in Options /\ errors \in 0..MaxErrors
    /\ outcome \in {"pending", "resolved", "rejected"}
    /\ \A l \in Linkers : Accounted(l, track[l])
    /\ outcome = "rejected" => \E l \in options.linkers : track[l].pc = "rejected"

LEMMA MostIs ==
  ASSUME RejectInv
  PROVE  /\ options.maxIterationCount \in Nat /\ Most \in Nat \ {0}
         /\ options.maxIterationCount <= Most
         /\ options.maxIterationCount # 0 => Most = options.maxIterationCount
         /\ options.maxIterationCount = 0 => Most = 1
  <1> DEFINE n == options.maxIterationCount
  <1>1. n \in Nat
    BY StartTrackingAssumption DEF RejectInv, Options
  <1> HIDE DEF n
  <1>2. Max({1, n}) = IF n > 1 THEN n ELSE 1
    BY <1>1 DEF Max
  <1> QED
    BY <1>1, <1>2 DEF n, Most

\* A step of the call for l that accounts for where it leads.
LEMMA StepAccounts ==
  ASSUME IInv, RejectInv, NEW l \in Linkers, l \in options.linkers, NEW next,
         Continue(l, next), track[l].pc # "rejected",
         errors' \in {errors, errors + 1}, errors' \in 0..MaxErrors, Accounted(l, next)'
  PROVE  RejectInv'
  <1>1. /\ track' = [track EXCEPT ![l] = next] /\ outcome' = Outcome(track')
        /\ UNCHANGED <<executed, rolledBack, stage, options>>
        /\ track'[l] = next /\ \A m \in Linkers : m # l => track'[m] = track[m]
    BY DEF Continue, IInv
  <1>2. errors' = 0 => errors = 0
    BY DEF RejectInv
  <1>3. \A m \in Linkers : Accounted(m, track[m])'
    <2> SUFFICES ASSUME NEW m \in Linkers PROVE Accounted(m, track[m])'
      OBVIOUS
    <2>1. CASE m = l
      BY <1>1, <2>1
    <2>2. CASE m # l
      <3>1. track'[m] = track[m] /\ Accounted(m, track[m])
        BY <1>1, <2>2 DEF RejectInv
      <3> QED
        BY <1>1, <1>2, <3>1 DEF Accounted, Most, Happened, Failed, AtLimit
    <2> QED
      BY <2>1, <2>2
  <1>4. outcome' \in {"pending", "resolved", "rejected"}
    BY <1>1 DEF Outcome, RejectInv
  <1>5. outcome' = "rejected" => \E m \in options'.linkers : track'[m].pc = "rejected"
    <2> SUFFICES ASSUME outcome' = "rejected"
                 PROVE  \E m \in options.linkers : track'[m].pc = "rejected"
      BY <1>1
    <2>1. CASE outcome = "rejected"
      <3>1. PICK m \in options.linkers : track[m].pc = "rejected"
        BY <2>1 DEF RejectInv
      <3>2. m \in Linkers /\ m # l
        BY <3>1 DEF IInv, OptionsOK
      <3> QED
        BY <1>1, <3>1, <3>2
    <2>2. CASE outcome # "rejected"
      BY <1>1, <2>2 DEF Outcome
    <2> QED
      BY <2>1, <2>2
  <1> QED
    BY <1>1, <1>3, <1>4, <1>5 DEF RejectInv

LEMMA InitAccounts == Init => RejectInv
  <1> SUFFICES ASSUME Init PROVE RejectInv
    OBVIOUS
  <1>1. PICK known \in {FALSE, options.asks = "track"} : track = [l \in Linkers |-> Start(known)]
    BY DEF Init
  <1>2. /\ Start(known).operationType = "none" /\ Start(known).pc \in {"poll", "id"}
        /\ Start(known).iteration = 0 /\ Start(known).transactions = <<>>
    BY DEF Start, NoProfile
  <1>3. options.maxIterationCount \in Nat /\ errors = 0 /\ outcome = "pending" /\ options \in Options
    BY DEF Init, Options, StartTrackingAssumption
  <1>4. Most \in Nat \ {0}
    <2> DEFINE n == options.maxIterationCount
    <2> HIDE DEF n
    <2>1. Max({1, n}) = IF n > 1 THEN n ELSE 1
      BY <1>3 DEF Max, n
    <2> QED
      BY <1>3, <2>1 DEF Most, n
  <1>5. \A l \in Linkers : Happened(l, <<>>)
    BY DEF Happened
  <1> QED
    BY <1>1, <1>2, <1>3, <1>4, <1>5 DEF RejectInv, Accounted

LEMMA PollAccounts ==
  ASSUME IInv, RejectInv, NEW l \in Linkers, l \in options.linkers,
         AskOperationId(l) \/ AskOperationType(l) \/ LimitReached(l)
  PROVE  RejectInv'
  <1> DEFINE t == track[l]
  <1>1. t \in Track /\ t.pc = "poll" /\ Accounted(l, t)
    <2>1. t.pc = "poll"
      BY Zenon DEF AskOperationId, AskOperationType, LimitReached, Polls
    <2> QED
      BY <2>1 DEF IInv, RejectInv
  <1>2. /\ t.iteration \in Nat /\ Polled(l).iteration = t.iteration + 1
        /\ Polled(l).pc = "poll" /\ Polled(l).operationType = t.operationType
        /\ Polled(l).operationId = t.operationId /\ Polled(l).transactions = t.transactions
        /\ Polled(l) \in Track
    BY <1>1 DEF Polled, Track
  <1>3. /\ UNCHANGED errors \/ Fails
        /\ errors \in 0..MaxErrors /\ MaxErrors \in Nat
    <2>1. UNCHANGED errors \/ Fails
      BY Zenon DEF AskOperationId, AskOperationType, LimitReached
    <2> QED
      BY <2>1, StartTrackingAssumption DEF RejectInv
  <1>4. errors' \in {errors, errors + 1} /\ errors' \in 0..MaxErrors /\ (errors' = 0 => errors = 0)
    BY <1>3 DEF Fails
  <1>5. ASSUME Polls(l), NEW next, Continue(l, next),
               next.iteration = t.iteration + 1 /\ next.transactions = t.transactions,
               next.operationType = "FINAL" => next.operationId = TRUE,
               next.pc = "poll" \/ (next.pc = "profile" /\ next.operationType = "FINAL")
        PROVE  RejectInv'
    <2>1. t.iteration + 1 < Most
      BY <1>1, <1>2, <1>5, MostIs DEF Polls, MayPoll
    <2>2. UNCHANGED <<executed, options>>
      BY <1>5 DEF Continue
    <2>3. Accounted(l, next)'
      BY <1>1, <1>2, <1>4, <1>5, <2>1, <2>2, MostIs DEF Accounted, Most, Happened
    <2> QED
      BY <1>1, <1>4, <1>5, <2>3, StepAccounts
  <1>6. CASE AskOperationId(l)
    <2>1. Polls(l) /\ ~t.operationId
      BY <1>6, Zenon DEF AskOperationId
    <2>2. t.operationType # "FINAL"
      <3>1. t.operationType = "FINAL" => t.operationId = TRUE
        BY <1>1 DEF Accounted
      <3> QED
        BY <2>1, <3>1, Zenon
    <2>3. CASE Continue(l, Polled(l))
      BY <1>2, <1>5, <2>1, <2>2, <2>3
    <2>4. ASSUME NEW s \in Sequencers,
                 Continue(l, [Polled(l) EXCEPT !.operationId = stage[s][l] > 0])
          PROVE  RejectInv'
      <3> DEFINE knows == stage[s][l] > 0
                 next == [Polled(l) EXCEPT !.operationId = knows]
      <3>1. Continue(l, next)
        BY <2>4, Zenon
      <3> HIDE DEF knows
      <3>2. /\ next.iteration = Polled(l).iteration /\ next.pc = "poll"
            /\ next.operationType = t.operationType /\ next.transactions = t.transactions
        BY <1>2 DEF Track
      <3> HIDE DEF next
      <3> QED
        BY <1>2, <1>5, <2>1, <2>2, <3>1, <3>2
    <2> QED
      BY <1>6, <2>3, <2>4, Zenon DEF AskOperationId
  <1>7. CASE AskOperationType(l)
    <2>1. Polls(l) /\ t.operationId = TRUE
      <3>1. Polls(l) /\ t.operationId
        BY <1>7, Zenon DEF AskOperationType
      <3>2. t.operationId \in BOOLEAN
        BY <1>1 DEF Track
      <3> QED
        BY <3>1, <3>2, Zenon
    <2>2. CASE Continue(l, Polled(l))
      BY <1>2, <1>5, <2>1, <2>2
    <2>3. ASSUME NEW s \in Sequencers,
                 Continue(l, [Polled(l) EXCEPT !.operationType = TypeKnownTo(s, l),
                              !.pc = IF IsFinal(TypeKnownTo(s, l)) THEN "profile" ELSE "poll"])
          PROVE  RejectInv'
      <3> DEFINE type == TypeKnownTo(s, l)
                 goes == IF IsFinal(type) THEN "profile" ELSE "poll"
                 next == [Polled(l) EXCEPT !.operationType = type, !.pc = goes]
      <3>1. type \in {"UNKNOWN", "PENDING", "FINAL"}
        BY DEF TypeKnownTo, IInv
      <3>2. goes = "poll" \/ (goes = "profile" /\ type = "FINAL")
        BY <3>1 DEF IsFinal
      <3>3. Continue(l, next)
        BY <2>3
      <3> HIDE DEF type, goes
      <3>4. /\ next.iteration = Polled(l).iteration /\ next.pc = goes
            /\ next.operationType = type /\ next.operationId = t.operationId
            /\ next.transactions = t.transactions
        BY <1>2 DEF Track
      <3> HIDE DEF next
      <3> QED
        BY <1>2, <1>5, <2>1, <3>2, <3>3, <3>4
    <2> QED
      BY <1>7, <2>2, <2>3, Zenon DEF AskOperationType
  <1>8. CASE LimitReached(l)
    <2> PICK next : next = [Polled(l) EXCEPT !.pc = AfterLimit]
      OBVIOUS
    <2>1. Continue(l, next) /\ t.iteration + 1 >= options.maxIterationCount
      BY <1>2, <1>8, MostIs DEF LimitReached, MayPoll
    <2>2. AfterLimit \in {"rejected", "profile"}
      BY DEF AfterLimit
    <2>3. /\ next.iteration = t.iteration + 1 /\ next.pc = AfterLimit
          /\ next.operationType = t.operationType /\ next.operationId = t.operationId
          /\ next.transactions = t.transactions
      BY <1>2 DEF Track
    <2>4. t.iteration < Most /\ t.iteration + 1 \in 0..Most
      BY <1>1, <1>2, MostIs DEF Accounted
    <2>5. UNCHANGED <<executed, options>>
      BY <2>1 DEF Continue
    <2>6. AtLimit(next) /\ next.iteration \in 0..Most /\ next.pc # "poll"
      BY <1>2, <2>1, <2>2, <2>3, <2>4 DEF AtLimit
    <2>7. /\ next.operationType = "FINAL" => next.operationId = TRUE
          /\ Happened(l, next.transactions) /\ (~options.verifies => next.transactions = <<>>)
      BY <1>1, <2>3 DEF Accounted
    <2>8. Accounted(l, next)'
      BY <2>5, <2>6, <2>7 DEF Accounted, Most, Happened, AtLimit
    <2>9. track[l].pc # "rejected"
      BY <1>1
    <2> HIDE DEF t
    <2> QED
      BY <1>4, <2>1, <2>8, <2>9, StepAccounts
  <1> QED
    BY <1>6, <1>7, <1>8

LEMMA LearnAccounts ==
  ASSUME IInv, RejectInv, NEW s \in Sequencers, NEW l \in Linkers, Learn(s, l)
  PROVE  RejectInv'
  <1>1. UNCHANGED <<executed, rolledBack, options, track, outcome, errors>>
    BY DEF Learn
  <1> QED
    BY <1>1, ZenonT(30) DEF RejectInv, Accounted, Most, Happened, Failed, AtLimit

\* A call is rejected: because of a failing request, or for a reason.
LEMMA RejectAccounts ==
  ASSUME IInv, RejectInv, NEW l \in Linkers, l \in options.linkers,
         track[l].pc \notin {"resolved", "rejected"},
         Continue(l, [track[l] EXCEPT !.pc = "rejected"]),
         Fails \/ (UNCHANGED errors /\ (errors = 0 => AtLimit(track[l]) \/ Failed(l)))
  PROVE  RejectInv'
  <1> DEFINE t == track[l]
  <1> PICK next : next = [t EXCEPT !.pc = "rejected"]
    OBVIOUS
  <1>1. t \in Track /\ Accounted(l, t)
    BY DEF IInv, RejectInv
  <1>2. /\ next.iteration = t.iteration /\ next.pc = "rejected"
        /\ next.operationType = t.operationType /\ next.operationId = t.operationId
        /\ next.transactions = t.transactions
    BY <1>1 DEF Track
  <1>3. errors' \in {errors, errors + 1} /\ errors' \in 0..MaxErrors
        /\ (errors' = 0 => errors = 0 /\ ~Fails)
    BY StartTrackingAssumption DEF RejectInv, Fails
  <1>4. Continue(l, next) /\ UNCHANGED <<executed, options>>
    BY DEF Continue
  <1>5. Accounted(l, next)'
    BY <1>1, <1>2, <1>3, <1>4 DEF Accounted, Most, Happened, Failed, AtLimit
  <1> QED
    BY <1>3, <1>4, <1>5, StepAccounts

\* The call goes on, and not to a profile.
LEMMA GoOnAccounts ==
  ASSUME IInv, RejectInv, NEW l \in Linkers, l \in options.linkers, NEW next,
         track[l].pc # "rejected", Continue(l, next), UNCHANGED errors \/ Fails,
         next.iteration = track[l].iteration,
         next.operationType = track[l].operationType,
         next.operationId = track[l].operationId \/ next.operationId = TRUE,
         next.pc \notin {"poll", "profile", "rejected"},
         Happened(l, next.transactions), ~options.verifies => next.transactions = <<>>
  PROVE  RejectInv'
  <1>1. Accounted(l, track[l]) /\ UNCHANGED <<executed, options>> /\ errors \in 0..MaxErrors
    BY DEF RejectInv, Continue
  <1>2. Accounted(l, next)'
    BY <1>1 DEF Accounted, Most, Happened, Failed, AtLimit
  <1>3. errors' \in {errors, errors + 1} /\ errors' \in 0..MaxErrors
    BY <1>1, StartTrackingAssumption DEF Fails
  <1> QED
    BY <1>2, <1>3, StepAccounts

LEMMA ProfileAccounts ==
  ASSUME IInv, RejectInv, NEW l \in Linkers, l \in options.linkers, FetchProfile(l)
  PROVE  RejectInv'
  <1> DEFINE t == track[l]
  <1>1. t \in Track /\ t.pc = "profile" /\ Accounted(l, t) /\ Sound(l, t)
        /\ executed[l] \in Seq(BOOLEAN)
    BY Zenon DEF IInv, RejectInv, FetchProfile
  <1>2. CASE Continue(l, [track[l] EXCEPT !.pc = "rejected"]) /\ Fails
    BY <1>1, <1>2, RejectAccounts
  <1>3. CASE /\ ~t.operationId \/ \A s \in Sequencers : stage[s][l] = 0
             /\ Continue(l, [t EXCEPT !.pc = "rejected"]) /\ UNCHANGED errors
    <2>1. t.operationType # "FINAL"
      <3>1. CASE ~t.operationId
        <4>1. t.operationId # TRUE
          BY <3>1
        <4> QED
          BY <1>1, <4>1, Zenon DEF Accounted
      <3>2. CASE \A s \in Sequencers : stage[s][l] = 0
        BY <1>1, <3>2 DEF Sound, Ended
      <3> QED
        BY <1>3, <3>1, <3>2, Zenon
    <2>2. errors = 0 => AtLimit(track[l])
      BY <1>1, <2>1 DEF Accounted
    <2> QED
      BY <1>1, <1>3, <2>2, RejectAccounts
  <1>4. ASSUME NEW s \in Sequencers,
               LET final == stage[s][l] = 2
                   profiled == IF final THEN executed[l] ELSE <<>>
               IN  Continue(l, [track[l] EXCEPT
                       !.profile = [final |-> final, transactions |-> profiled],
                       !.transactions = IF options.verifies THEN profiled ELSE <<>>,
                       !.pc = "verify"]),
               UNCHANGED errors
        PROVE  RejectInv'
    <2> DEFINE final == stage[s][l] = 2
               profiled == IF final THEN executed[l] ELSE <<>>
               rest == IF options.verifies THEN profiled ELSE <<>>
               next == [t EXCEPT !.profile = [final |-> final, transactions |-> profiled],
                                 !.transactions = rest, !.pc = "verify"]
    <2>1. Happened(l, <<>>) /\ Happened(l, executed[l])
      BY <1>1 DEF Happened
    <2>2. Happened(l, rest) /\ (~options.verifies => rest = <<>>)
      BY <2>1
    <2>3. Continue(l, next)
      BY <1>4, Zenon
    <2> HIDE DEF final, profiled, rest
    <2>4. /\ next.iteration = t.iteration /\ next.pc = "verify"
          /\ next.operationType = t.operationType /\ next.operationId = t.operationId
          /\ next.transactions = rest
      BY <1>1 DEF Track
    <2> HIDE DEF next
    <2> QED
      BY <1>1, <1>4, <2>2, <2>3, <2>4, GoOnAccounts
  <1> QED
    BY <1>2, <1>3, <1>4, Zenon DEF FetchProfile

\* One transaction less is to be checked.
LEMMA HappenedTail ==
  ASSUME NEW l, NEW list \in Seq(BOOLEAN), list # <<>>, Happened(l, list)
  PROVE  /\ Happened(l, Tail(list))
         /\ \E j \in 1..Len(executed[l]) : executed[l][j] = Head(list)
  <1>1. /\ Len(list) \in Nat /\ Len(list) > 0 /\ Head(list) = list[1]
        /\ Len(Tail(list)) = Len(list) - 1
        /\ \A k \in 1..(Len(list) - 1) : Tail(list)[k] = list[k + 1]
    BY HeadTailProperties, LenProperties, EmptySeq
  <1>2. \A k \in 1..(Len(list) - 1) : k + 1 \in 1..Len(list)
    BY <1>1
  <1>3. 1 \in 1..Len(list)
    BY <1>1
  <1> QED
    BY <1>1, <1>2, <1>3, Zenon DEF Happened

LEMMA VerifyAccounts ==
  ASSUME IInv, RejectInv, NEW l \in Linkers, l \in options.linkers, Verify(l) \/ Finish(l)
  PROVE  RejectInv'
  <1> DEFINE t == track[l]
  <1>1. t \in Track /\ t.pc = "verify" /\ Accounted(l, t)
    BY Zenon DEF IInv, RejectInv, Verify, Finish
  <1>2. t.transactions \in Seq(BOOLEAN) /\ Happened(l, t.transactions)
        /\ (~options.verifies => t.transactions = <<>>)
    BY <1>1 DEF Track, Accounted
  <1>3. ASSUME Continue(l, [t EXCEPT !.transactions = Tail(@)]), t.transactions # <<>>,
               UNCHANGED errors \/ Fails
        PROVE  RejectInv'
    <2> PICK next : next = [t EXCEPT !.transactions = Tail(@)]
      OBVIOUS
    <2>1. /\ next.iteration = t.iteration /\ next.pc = "verify"
          /\ next.operationType = t.operationType /\ next.operationId = t.operationId
          /\ next.transactions = Tail(t.transactions)
      BY <1>1 DEF Track
    <2>2. Happened(l, Tail(t.transactions))
      BY <1>2, <1>3, HappenedTail
    <2>3. options.verifies
      BY <1>2, <1>3, Zenon
    <2>4. Continue(l, next)
      BY <1>3
    <2> QED
      BY <1>1, <1>3, <2>1, <2>2, <2>3, <2>4, GoOnAccounts
  <1>4. CASE Verify(l)
    <2>1. t.transactions # <<>>
      BY <1>4, Zenon DEF Verify
    <2>2. ASSUME Continue(l, AfterBadTransaction(l)),
                 Fails \/ (UNCHANGED errors /\ Failed(l))
          PROVE  RejectInv'
      <3>1. CASE options.returnValue
        BY <1>1, <2>2, <3>1, RejectAccounts DEF AfterBadTransaction
      <3>2. CASE ~options.returnValue
        BY <1>3, <2>1, <2>2, <3>2 DEF AfterBadTransaction
      <3> QED
        BY <3>1, <3>2, Zenon
    <2>3. CASE ~Head(t.transactions) /\ Continue(l, AfterBadTransaction(l)) /\ UNCHANGED errors
      <3>1. PICK j \in 1..Len(executed[l]) : executed[l][j] = Head(t.transactions)
        BY <1>2, <2>1, HappenedTail
      <3>2. ~executed[l][j]
        BY <2>3, <3>1, Zenon
      <3>3. options.verifies
        BY <1>2, <2>1, Zenon
      <3>4. Failed(l)
        BY <3>2, <3>3, Zenon DEF Failed
      <3> QED
        BY <2>2, <2>3, <3>4, Zenon
    <2>4. CASE Continue(l, AfterBadTransaction(l)) /\ Fails
      BY <2>2, <2>4, Zenon
    <2>5. CASE Continue(l, [t EXCEPT !.transactions = Tail(@)]) /\ UNCHANGED errors
      BY <1>3, <2>1, <2>5, Zenon
    <2> QED
      BY <1>4, <2>3, <2>4, <2>5, Zenon DEF Verify
  <1>5. CASE Finish(l)
    <2> PICK next : next = [t EXCEPT !.pc = "resolved"]
      OBVIOUS
    <2>1. /\ next.iteration = t.iteration /\ next.pc = "resolved"
          /\ next.operationType = t.operationType /\ next.operationId = t.operationId
          /\ next.transactions = t.transactions
      BY <1>1 DEF Track
    <2>2. Continue(l, next) /\ UNCHANGED errors
      BY <1>5 DEF Finish
    <2> QED
      BY <1>1, <1>2, <2>1, <2>2, GoOnAccounts
  <1> QED
    BY <1>4, <1>5

LEMMA StatusAccounts ==
  ASSUME IInv, RejectInv, NEW l \in Linkers, l \in options.linkers,
         StatusOfId(l) \/ AskStatusOfType(l)
  PROVE  RejectInv'
  <1> DEFINE t == track[l]
  <1>1. t \in Track /\ t.pc \in {"id", "type"} /\ Accounted(l, t)
    <2>1. t.pc \in {"id", "type"}
      BY Zenon DEF StatusOfId, AskStatusOfType
    <2> QED
      BY <2>1 DEF IInv, RejectInv
  <1>2. Happened(l, t.transactions) /\ (~options.verifies => t.transactions = <<>>)
    BY <1>1 DEF Accounted
  <1>3. CASE Continue(l, [t EXCEPT !.pc = "rejected"]) /\ Fails
    BY <1>1, <1>3, RejectAccounts
  <1>4. CASE Continue(l, [t EXCEPT !.pc = "type", !.operationId = TRUE]) /\ UNCHANGED errors
    <2> PICK next : next = [t EXCEPT !.pc = "type", !.operationId = TRUE]
      OBVIOUS
    <2>1. /\ next.iteration = t.iteration /\ next.pc = "type"
          /\ next.operationType = t.operationType /\ next.operationId = TRUE
          /\ next.transactions = t.transactions
      BY <1>1 DEF Track
    <2>2. Continue(l, next)
      BY <1>4
    <2> QED
      BY <1>1, <1>2, <1>4, <2>1, <2>2, GoOnAccounts
  <1>5. ASSUME NEW status, Answer(l, status), UNCHANGED errors
        PROVE  RejectInv'
    <2> PICK next : next = [t EXCEPT !.pc = "resolved", !.status = status]
      OBVIOUS
    <2>1. /\ next.iteration = t.iteration /\ next.pc = "resolved"
          /\ next.operationType = t.operationType /\ next.operationId = t.operationId
          /\ next.transactions = t.transactions
      BY <1>1 DEF Track
    <2>2. Continue(l, next)
      BY <1>5 DEF Answer
    <2> QED
      BY <1>1, <1>2, <1>5, <2>1, <2>2, GoOnAccounts
  <1>6. CASE StatusOfId(l)
    <2>1. ASSUME NEW s \in Sequencers, UNCHANGED errors,
                 IF stage[s][l] = 0 THEN Answer(l, "OPERATION_ID_NOT_FOUND")
                 ELSE Continue(l, [track[l] EXCEPT !.pc = "type", !.operationId = TRUE])
          PROVE  RejectInv'
      <3>1. CASE stage[s][l] = 0
        BY <1>5, <2>1, <3>1, Zenon
      <3>2. CASE stage[s][l] # 0
        BY <1>4, <2>1, <3>2, Zenon
      <3> QED
        BY <3>1, <3>2
    <2> QED
      BY <1>3, <1>6, <2>1, Zenon DEF StatusOfId
  <1>7. CASE AskStatusOfType(l)
    BY <1>3, <1>5, <1>7, Zenon DEF AskStatusOfType
  <1> QED
    BY <1>6, <1>7

LEMMA NextKeepsRejectInv == IInv /\ RejectInv /\ [Next]_vars => RejectInv'
  <1> SUFFICES ASSUME IInv, RejectInv, [Next]_vars PROVE RejectInv'
    OBVIOUS
  <1>1. CASE UNCHANGED vars
    BY <1>1, ZenonT(30) DEF vars, RejectInv, Accounted, Most, Happened, Failed, AtLimit
  <1>2. ASSUME NEW l \in Linkers, Step(l) PROVE RejectInv'
    BY <1>2, PollAccounts, ProfileAccounts, VerifyAccounts, StatusAccounts, Zenon DEF Step, RequestSettles, Proceeds
  <1>3. ASSUME NEW s \in Sequencers, NEW l \in Linkers, Learn(s, l) PROVE RejectInv'
    BY <1>3, LearnAccounts
  <1> QED
    BY <1>1, <1>2, <1>3 DEF Next

LEMMA RejectInvAlways == Spec => []RejectInv
  <1>1. Init => RejectInv
    BY InitAccounts
  <1>2. IInv /\ RejectInv /\ [Next]_vars => RejectInv'
    BY NextKeepsRejectInv
  <1> QED
    BY <1>1, <1>2, IInvAlways, PTL DEF Spec

(***************************************************************************)
(* Without a failing request, a call that is rejected had a reason: its    *)
(* polling came to the limit, or a transaction of the operation failed in  *)
(* TON and there was somebody to check it.  In particular the profile of a *)
(* final operation is never refused, whichever sequencer is asked for it.  *)
(***************************************************************************)
THEOREM RejectionTheorem == Spec => []CallInv
  <1>1. ASSUME IInv, RejectInv PROVE TypeOK
    <2>1. \A l \in Linkers : track[l] \in Track /\ Accounted(l, track[l])
      BY <1>1 DEF IInv, RejectInv
    <2> QED
      BY <1>1, <2>1 DEF TypeOK, IInv, RejectInv, Track, Accounted, Most
  <1>2. ASSUME IInv, RejectInv, outcome = "rejected", errors = 0
        PROVE  \E l \in options.linkers :
                   \/ track[l].iteration >= options.maxIterationCount
                   \/ options.verifies /\ \E k \in 1..Len(executed[l]) : ~executed[l][k]
    <2>1. PICK l \in options.linkers : track[l].pc = "rejected"
      BY <1>2 DEF RejectInv
    <2>2. l \in Linkers
      BY <1>2 DEF IInv, OptionsOK
    <2>3. AtLimit(track[l]) \/ Failed(l)
      BY <1>2, <2>1, <2>2, Zenon DEF RejectInv, Accounted
    <2> QED
      BY <2>1, <2>3, Zenon DEF AtLimit, Failed
  <1>3. IInv /\ RejectInv => CallInv
    BY <1>1, <1>2, Zenon DEF CallInv, RejectionJustified
  <1> QED
    BY <1>3, IInvAlways, RejectInvAlways, PTL

=============================================================================
