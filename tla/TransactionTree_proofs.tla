------------------------- MODULE TransactionTree_proofs -------------------------
(***************************************************************************)
(* TransactionTree for any tree, any phases, depth, direction and order of *)
(* indexing: what a verdict means.  The invariant says of every            *)
(* transaction that was processed that its neighbours are processed too or *)
(* have a search that is still to be made; that the searches are made in   *)
(* the order of their depths turns this into: everything nearer than the   *)
(* search at hand has been processed.                                      *)
(***************************************************************************)
EXTENDS TransactionTree, SequenceTheorems, FiniteSetTheorems, WellFoundedInduction, TLAPS

USE TreeAssumption

-------------------------------------------------------------------------------
(* Induction, and the transactions within a distance *)

\* Induction over the natural numbers, for a set.
LEMMA Induction ==
  ASSUME NEW S, 0 \in S, \A n \in Nat : n \in S => n + 1 \in S
  PROVE  \A n \in Nat : n \in S
  <1> DEFINE R == OpToRel(<, Nat)
             T == Nat \ S
  <1>1. IsWellFoundedOn(R, Nat)
    BY NatLessThanWellFounded, Zenon
  <1>2. \A x, y \in Nat : y < x => <<y, x>> \in R
    BY DEF OpToRel
  <1> HIDE DEF R
  <1>3. SUFFICES ASSUME T # {} PROVE FALSE
    OBVIOUS
  <1>4. PICK x \in T : \A y \in T : ~ (<<y, x>> \in R)
    BY <1>1, <1>3, WFMin
  <1>5. x \in Nat /\ x # 0
    BY <1>4
  <1>6. x - 1 \in Nat /\ x - 1 < x /\ x - 1 + 1 = x
    BY <1>5
  <1>7. x - 1 \notin T
    BY <1>2, <1>4, <1>5, <1>6
  <1> QED
    BY <1>4, <1>6, <1>7

\* One step more.
Wider(next, X) == X \cup UNION {next[t] : t \in X}

\* A walk of n steps, each of which may stay, from the root to u.
IsPath(next, n, u, p) ==
    /\ p \in [0..n -> Tx] /\ p[0] = Root /\ p[n] = u
    /\ \A k \in 1..n : p[k] = p[k - 1] \/ p[k] \in next[p[k - 1]]

Paths(next) == [n \in Nat |-> {u \in Tx : \E p \in [0..n -> Tx] : IsPath(next, n, u, p)}]

LEMMA PathsStart ==
  ASSUME NEW next \in [Tx -> SUBSET Tx]
  PROVE  Paths(next)[0] = {Root}
  <1>1. Paths(next)[0] = {u \in Tx : \E p \in [0..0 -> Tx] : IsPath(next, 0, u, p)}
    BY DEF Paths
  <1>2. [k \in 0..0 |-> Root] \in [0..0 -> Tx] /\ IsPath(next, 0, Root, [k \in 0..0 |-> Root])
    BY DEF IsPath
  <1>3. \A u, p : IsPath(next, 0, u, p) => u = Root
    BY DEF IsPath
  <1> QED
    BY <1>1, <1>2, <1>3

LEMMA PathsStep ==
  ASSUME NEW next \in [Tx -> SUBSET Tx], NEW n \in Nat
  PROVE  Paths(next)[n + 1] = Wider(next, Paths(next)[n])
  <1> DEFINE here == Paths(next)[n]
             there == Paths(next)[n + 1]
  <1>1. here = {u \in Tx : \E p \in [0..n -> Tx] : IsPath(next, n, u, p)}
    BY DEF Paths
  <1>2. there = {u \in Tx : \E p \in [0..(n + 1) -> Tx] : IsPath(next, n + 1, u, p)}
    BY DEF Paths
  <1> HIDE DEF here, there
  <1>3. ASSUME NEW u \in there PROVE u \in Wider(next, here)
    <2>1. PICK p \in [0..(n + 1) -> Tx] : IsPath(next, n + 1, u, p)
      BY <1>2, <1>3
    <2> DEFINE q == [k \in 0..n |-> p[k]]
    <2>2. n \in 0..(n + 1) /\ n + 1 \in 1..(n + 1) /\ (n + 1) - 1 = n
      OBVIOUS
    <2>3. q \in [0..n -> Tx] /\ q[0] = Root /\ q[n] = p[n]
      BY <2>1 DEF IsPath
    <2>4. \A k \in 1..n : k \in 1..(n + 1) /\ k - 1 \in 0..n /\ k \in 0..n
      OBVIOUS
    <2>5. \A k \in 1..n : q[k] = q[k - 1] \/ q[k] \in next[q[k - 1]]
      BY <2>1, <2>4 DEF IsPath
    <2>6. IsPath(next, n, p[n], q)
      BY <2>3, <2>5 DEF IsPath
    <2>7. p[n] \in here
      BY <1>1, <2>2, <2>3, <2>6
    <2>8. u = p[n] \/ u \in next[p[n]]
      BY <2>1, <2>2 DEF IsPath
    <2> QED
      BY <2>7, <2>8 DEF Wider
  <1>4. ASSUME NEW u \in Wider(next, here) PROVE u \in there
    <2>1. PICK t \in here : u = t \/ u \in next[t]
      BY <1>4 DEF Wider
    <2>2. PICK p \in [0..n -> Tx] : IsPath(next, n, t, p)
      BY <1>1
    <2> DEFINE q == [k \in 0..(n + 1) |-> IF k = n + 1 THEN u ELSE p[k]]
    <2>3. t \in Tx /\ u \in Tx
      BY <1>1, <2>1
    <2>4. \A k \in 0..(n + 1) : k = n + 1 \/ k \in 0..n
      OBVIOUS
    <2>5. q \in [0..(n + 1) -> Tx] /\ q[0] = Root /\ q[n + 1] = u
      BY <2>2, <2>3, <2>4 DEF IsPath
    <2>6. ASSUME NEW k \in 1..(n + 1)
          PROVE  q[k] = q[k - 1] \/ q[k] \in next[q[k - 1]]
      <3>1. CASE k = n + 1
        <4>1. q[k] = u /\ q[k - 1] = p[n] /\ p[n] = t
          BY <2>2, <3>1 DEF IsPath
        <4> QED
          BY <2>1, <4>1
      <3>2. CASE k # n + 1
        <4>1. k \in 1..n
          BY <3>2
        <4>2. q[k] = p[k] /\ q[k - 1] = p[k - 1]
          BY <4>1
        <4> QED
          BY <2>2, <4>1, <4>2 DEF IsPath
      <3> QED
        BY <3>1, <3>2
    <2>7. IsPath(next, n + 1, u, q)
      BY <2>5, <2>6 DEF IsPath
    <2> QED
      BY <1>2, <2>3, <2>5, <2>7
  <1> QED
    BY <1>3, <1>4 DEF here, there

\* The recursion of Reachable has a solution, so that it is one.
LEMMA ReachableIs ==
  ASSUME NEW next \in [Tx -> SUBSET Tx]
  PROVE  /\ Reachable(next, 0) = {Root}
         /\ \A n \in Nat : Reachable(next, n + 1) = Wider(next, Reachable(next, n))
  <1> DEFINE Solves(ball) ==
                 ball = [n \in Nat |-> IF n = 0 THEN {Root}
                            ELSE ball[n - 1] \cup UNION {next[t] : t \in ball[n - 1]}]
             ball == CHOOSE b : Solves(b)
  <1>1. Solves(Paths(next))
    <2> DEFINE f == Paths(next)
    <2>1. f = [n \in Nat |-> f[n]]
      BY DEF Paths
    <2>2. f[0] = {Root}
      BY PathsStart
    <2>3. ASSUME NEW n \in Nat \ {0}
          PROVE  f[n] = f[n - 1] \cup UNION {next[t] : t \in f[n - 1]}
      <3>1. n - 1 \in Nat /\ n - 1 + 1 = n
        OBVIOUS
      <3>2. f[n - 1 + 1] = Wider(next, f[n - 1])
        BY <3>1, PathsStep
      <3> QED
        BY <3>1, <3>2 DEF Wider
    <2> HIDE DEF f
    <2>4. \A n \in Nat : f[n] = IF n = 0 THEN {Root}
                                ELSE f[n - 1] \cup UNION {next[t] : t \in f[n - 1]}
      BY <2>2, <2>3
    <2>5. Solves(f)
      BY <2>1, <2>4
    <2> QED
      BY <2>5 DEF f
  <1>2. Solves(ball)
    BY <1>1, Zenon
  <1>3. \A d : Reachable(next, d) = ball[d]
    BY Zenon DEF Reachable
  <1> HIDE DEF ball
  <1>4. ball[0] = {Root}
    BY <1>2
  <1>5. ASSUME NEW m \in Nat \ {0} PROVE ball[m] = Wider(next, ball[m - 1])
    <2>1. \A k \in Nat : ball[k] = IF k = 0 THEN {Root}
                                   ELSE ball[k - 1] \cup UNION {next[t] : t \in ball[k - 1]}
      BY <1>2, Zenon
    <2>2. m \in Nat /\ m # 0
      OBVIOUS
    <2> QED
      BY <2>1, <2>2, Zenon DEF Wider
  <1>6. ASSUME NEW n \in Nat PROVE ball[n + 1] = Wider(next, ball[n])
    <2>1. n + 1 \in Nat \ {0} /\ (n + 1) - 1 = n
      OBVIOUS
    <2>2. ball[n + 1] = Wider(next, ball[(n + 1) - 1])
      BY <1>5, <2>1
    <2> QED
      BY <2>1, <2>2
  <1> QED
    BY <1>3, <1>4, <1>6

\* What is near is in reach of more steps.
LEMMA ReachableGrows ==
  ASSUME NEW next \in [Tx -> SUBSET Tx], NEW n \in Nat, NEW k \in Nat
  PROVE  Reachable(next, n) \subseteq Reachable(next, n + k)
  <1> DEFINE S == {j \in Nat : Reachable(next, n) \subseteq Reachable(next, n + j)}
  <1>1. 0 \in S
    <2>1. n + 0 = n
      OBVIOUS
    <2> QED
      BY <2>1
  <1>2. ASSUME NEW j \in Nat, j \in S PROVE j + 1 \in S
    <2>1. n + j \in Nat /\ n + (j + 1) = (n + j) + 1
      OBVIOUS
    <2>2. Reachable(next, (n + j) + 1) = Wider(next, Reachable(next, n + j))
      BY <2>1, ReachableIs
    <2> QED
      BY <1>2, <2>1, <2>2 DEF Wider
  <1> HIDE DEF S
  <1>3. \A j \in Nat : j \in S
    BY <1>1, <1>2, Induction
  <1>4. k \in S
    BY <1>3
  <1> QED
    BY <1>4 DEF S

-------------------------------------------------------------------------------
(* The invariant *)

\* A search finds one transaction, which is not farther away than its depth.
Sound(s) ==
    /\ s \in SearchType /\ s.depth <= params.maxDepth
    /\ \E u \in Within(s.depth) : Target(s) = {u}

\* The searches that are to be made or being made.
ToBeMade == ToSet(queue) \cup (IF pc \in {"find", "sleep"} THEN {current} ELSE {})

Searched(u, d) == \E s \in ToBeMade : s.depth <= d /\ Target(s) = {u}

\* Depths never decrease, and lie between d and d + 1.
Ordered(q, d) ==
    /\ \A i, j \in 1..Len(q) : i < j => q[i].depth <= q[j].depth
    /\ \A i \in 1..Len(q) : d <= q[i].depth /\ q[i].depth <= d + 1

Types ==
    /\ outs \in Trees /\ phases \in Outcomes /\ visible \in SUBSET Tx /\ beyondLimit \in SUBSET visible
    /\ params \in [maxDepth : Depths, direction : Direction,
                   retryOnNotFound : BOOLEAN, retries : Retries]
    /\ pc \in {"next", "find", "sleep", "done"}
    /\ queue \in Seq(SearchType) /\ attempt \in 0..params.retries /\ errors \in Nat
    /\ visitedSearchKeys \subseteq [msg : Tx, type : {"unknown", "in", "out"}]
    /\ processedTxHashes \subseteq visible /\ IsFiniteSet(processedTxHashes)
    /\ checkedCount = Cardinality(processedTxHashes)
    /\ result.verdict \in {"pending", "success", "invalid", "not_found", "threw"}
    /\ pc = "done" <=> result.verdict # "pending"

Searches ==
    /\ Sound(current) /\ \A s \in ToSet(queue) : Sound(s)
    /\ Ordered(queue, current.depth)

\* A search that was made before has found what there is to find.
Visited ==
    \A k \in visitedSearchKeys : \/ Target(k) \subseteq processedTxHashes
                                 \/ pc \in {"find", "sleep"} /\ k = Key(current)

Complete ==
    /\ Root \in processedTxHashes \/ Searched(Root, 0)
    /\ \A t \in processedTxHashes, n \in Nat : t \in Within(n) /\ n < params.maxDepth =>
           \A u \in Neighbours(t) : u \in processedTxHashes \/ Searched(u, n + 1)

IInv ==
    /\ Types /\ Searches /\ processedTxHashes \subseteq Within(params.maxDepth)
    /\ pc # "done" => Visited /\ Complete /\ \A t \in processedTxHashes : WentWell(t)
    /\ VerdictIsRight

-------------------------------------------------------------------------------
(* Lemmas *)

LEMMA WithinIs ==
  /\ Within(0) = {Root}
  /\ \A n \in Nat : /\ Within(n) \subseteq Tx
                    /\ Within(n + 1) = Within(n) \cup UNION {Neighbours(t) : t \in Within(n)}
                    /\ \A m \in Nat : n <= m => Within(n) \subseteq Within(m)
  <1> DEFINE near == [t \in Tx |-> Neighbours(t)]
             S == {n \in Nat : Within(n) \subseteq Tx}
  <1>1. near \in [Tx -> SUBSET Tx]
    BY DEF Neighbours, Parents
  <1>2. \A d : Within(d) = Reachable(near, d)
    BY DEF Within
  <1>3. Within(0) = {Root}
    BY <1>1, <1>2, ReachableIs
  <1>4. ASSUME NEW n \in Nat, Within(n) \subseteq Tx
        PROVE  Within(n + 1) = Within(n) \cup UNION {Neighbours(t) : t \in Within(n)}
    <2>1. Within(n + 1) = Within(n) \cup UNION {near[t] : t \in Within(n)}
      BY <1>1, <1>2, ReachableIs DEF Wider
    <2>2. \A t \in Within(n) : near[t] = Neighbours(t)
      BY <1>4
    <2> HIDE DEF near
    <2> QED
      BY <2>1, <2>2
  <1>5. 0 \in S
    BY <1>3
  <1>6. \A n \in Nat : n \in S => n + 1 \in S
    <2> SUFFICES ASSUME NEW n \in Nat, Within(n) \subseteq Tx PROVE Within(n + 1) \subseteq Tx
      OBVIOUS
    <2>1. \A t : Neighbours(t) \subseteq Tx
      BY DEF Neighbours, Parents
    <2> QED
      BY <1>4, <2>1
  <1> HIDE DEF S, near
  <1>7. \A n \in Nat : n \in S
    BY <1>5, <1>6, Induction
  <1>8. ASSUME NEW n \in Nat, NEW m \in Nat, n <= m PROVE Within(n) \subseteq Within(m)
    <2>1. m - n \in Nat /\ n + (m - n) = m
      BY <1>8
    <2> QED
      BY <1>1, <1>2, <2>1, ReachableGrows
  <1> QED
    BY <1>3, <1>4, <1>7, <1>8 DEF S

LEMMA ParentIsOne ==
  ASSUME Types, NEW m \in Tx, NEW t \in Parents(m)
  PROVE  Parents(m) = {t}
  <1> SUFFICES ASSUME NEW u \in Parents(m) PROVE u = t
    OBVIOUS
  <1>1. outs \in [Tx -> Seq(Tx \cup {Nobody})] /\ t \in Tx /\ u \in Tx
    BY DEF Types, Parents
  <1>2. m \in ToSet(outs[t]) /\ m \in ToSet(outs[u])
    <2>1. \A x \in Tx : DOMAIN outs[x] = 1..Len(outs[x])
      BY <1>1, LenProperties
    <2> QED
      BY <1>1, <2>1 DEF Parents, Sends, ToSet
  <1>3. m # Nobody
    OBVIOUS
  <1> QED
    BY <1>1, <1>2, <1>3 DEF Types

-------------------------------------------------------------------------------
(* The queue *)

LEMMA HeadIs ==
  ASSUME NEW S, NEW q \in Seq(S), q # <<>>
  PROVE  /\ Head(q) \in S /\ Tail(q) \in Seq(S) /\ ToSet(q) = {Head(q)} \cup ToSet(Tail(q))
         /\ Len(q) \in Nat \ {0} /\ Len(Tail(q)) = Len(q) - 1
         /\ Head(q) = q[1] /\ \A i \in 1..(Len(q) - 1) : Tail(q)[i] = q[i + 1]
  <1> DEFINE n == Len(q)
             r == Tail(q)
  <1>1. /\ Head(q) \in S /\ Head(q) = q[1] /\ r \in Seq(S) /\ n \in Nat \ {0} /\ Len(r) = n - 1
        /\ \A i \in 1..Len(r) : r[i] = q[i + 1]
    BY HeadTailProperties, LenProperties, EmptySeq
  <1>2. DOMAIN q = 1..n /\ DOMAIN r = 1..(n - 1)
    BY <1>1, LenProperties
  <1>3. ToSet(q) = {q[1]} \cup ToSet(r)
    <2> HIDE DEF n, r
    <2>1. \A i \in 1..n : i = 1 \/ (i - 1 \in 1..(n - 1) /\ (i - 1) + 1 = i)
      BY <1>1
    <2>2. \A i \in 1..(n - 1) : i + 1 \in 1..n
      BY <1>1
    <2>3. 1 \in 1..n
      BY <1>1
    <2>4. ToSet(q) \subseteq {q[1]} \cup ToSet(r)
      <3>1. ASSUME NEW i \in 1..n PROVE q[i] \in {q[1]} \cup ToSet(r)
        <4>1. CASE i = 1
          BY <4>1
        <4>2. CASE i - 1 \in 1..(n - 1) /\ (i - 1) + 1 = i
          <5>1. r[i - 1] = q[i]
            BY <1>1, <4>2
          <5>2. i - 1 \in DOMAIN r
            BY <1>2, <4>2
          <5> QED
            BY <5>1, <5>2 DEF ToSet
        <4> QED
          BY <2>1, <4>1, <4>2
      <3> QED
        BY <1>2, <3>1 DEF ToSet
    <2>5. {q[1]} \cup ToSet(r) \subseteq ToSet(q)
      BY <1>1, <1>2, <2>2, <2>3 DEF ToSet
    <2> QED
      BY <2>4, <2>5
  <1> QED
    BY <1>1, <1>3

LEMMA ConcatIs ==
  ASSUME NEW S, NEW q \in Seq(S), NEW r \in Seq(S)
  PROVE  /\ q \o r \in Seq(S) /\ ToSet(q \o r) = ToSet(q) \cup ToSet(r)
         /\ Len(q) \in Nat /\ Len(r) \in Nat /\ Len(q \o r) = Len(q) + Len(r)
         /\ \A i \in 1..(Len(q) + Len(r)) :
                (q \o r)[i] = IF i <= Len(q) THEN q[i] ELSE r[i - Len(q)]
  <1> DEFINE n == Len(q)
             m == Len(r)
             qr == q \o r
  <1>1. /\ qr \in Seq(S) /\ n \in Nat /\ m \in Nat /\ Len(qr) = n + m
        /\ \A i \in 1..(n + m) : qr[i] = IF i <= n THEN q[i] ELSE r[i - n]
    BY ConcatProperties, LenProperties
  <1>2. DOMAIN q = 1..n /\ DOMAIN r = 1..m /\ DOMAIN qr = 1..(n + m)
    BY <1>1, LenProperties
  <1>3. ToSet(qr) = ToSet(q) \cup ToSet(r)
    <2> HIDE DEF n, m, qr
    <2>1. \A i \in 1..(n + m) : i \in 1..n \/ (~(i <= n) /\ i - n \in 1..m)
      BY <1>1
    <2>2. \A i \in 1..n : i \in 1..(n + m) /\ i <= n
      BY <1>1
    <2>3. \A i \in 1..m : n + i \in 1..(n + m) /\ ~(n + i <= n) /\ (n + i) - n = i
      BY <1>1
    <2>4. \A i \in 1..(n + m) : qr[i] \in ToSet(q) \cup ToSet(r)
      BY <1>1, <1>2, <2>1, <2>2 DEF ToSet
    <2>5. \A i \in 1..n : q[i] = qr[i]
      BY <1>1, <2>2
    <2>6. \A i \in 1..m : r[i] = qr[n + i]
      BY <1>1, <2>3
    <2> QED
      BY <1>2, <2>2, <2>3, <2>4, <2>5, <2>6 DEF ToSet
  <1> QED
    BY <1>1, <1>3

\* The head is nearest, and those after it are at most one step farther.
LEMMA OrderedTail ==
  ASSUME NEW q \in Seq(SearchType), NEW d \in Nat, Ordered(q, d), q # <<>>
  PROVE  Ordered(Tail(q), d) /\ Ordered(Tail(q), Head(q).depth)
  <1> DEFINE n == Len(q)
             r == Tail(q)
  <1>1. n \in Nat \ {0} /\ Len(r) = n - 1 /\ Head(q) = q[1]
        /\ \A i \in 1..(n - 1) : r[i] = q[i + 1]
    BY HeadIs
  <1>2. /\ \A i, j \in 1..n : i < j => q[i].depth <= q[j].depth
        /\ \A i \in 1..n : d <= q[i].depth /\ q[i].depth <= d + 1
    BY DEF Ordered
  <1>3. \A i \in 1..n : q[i].depth \in Nat
    <2>1. \A i \in 1..n : q[i] \in SearchType
      BY ElementOfSeq
    <2> QED
      BY <2>1 DEF SearchType
  <1> HIDE DEF n, r
  <1>4. \A i \in 1..(n - 1) : i + 1 \in 1..n /\ 1 < i + 1 /\ 1 \in 1..n
    BY <1>1
  <1>5. \A i, j \in 1..(n - 1) : i < j => r[i].depth <= r[j].depth
    BY <1>1, <1>2, <1>4, SMTT(30)
  <1>6. \A i \in 1..(n - 1) : d <= r[i].depth /\ r[i].depth <= d + 1
    BY <1>1, <1>2, <1>4
  <1>7. \A i \in 1..(n - 1) : q[1].depth <= r[i].depth /\ r[i].depth <= q[1].depth + 1
    BY <1>1, <1>2, <1>3, <1>4, SMTT(30)
  <1> QED
    BY <1>1, <1>5, <1>6, <1>7 DEF Ordered, r

LEMMA OrderedConcat ==
  ASSUME NEW q \in Seq(SearchType), NEW d \in Nat, Ordered(q, d),
         NEW r \in Seq(SearchType), \A i \in 1..Len(r) : r[i].depth = d + 1
  PROVE  Ordered(q \o r, d)
  <1> DEFINE n == Len(q)
             m == Len(r)
             qr == q \o r
  <1>1. /\ n \in Nat /\ m \in Nat /\ Len(qr) = n + m
        /\ \A i \in 1..(n + m) : qr[i] = IF i <= n THEN q[i] ELSE r[i - n]
    BY ConcatIs
  <1>2. /\ \A i, j \in 1..n : i < j => q[i].depth <= q[j].depth
        /\ \A i \in 1..n : d <= q[i].depth /\ q[i].depth <= d + 1
    BY DEF Ordered
  <1>3. \A i \in 1..n : q[i].depth \in Nat
    <2>1. \A i \in 1..n : q[i] \in SearchType
      BY ElementOfSeq
    <2> QED
      BY <2>1 DEF SearchType
  <1> HIDE DEF n, m, qr
  <1>4. \A i \in 1..(n + m) : \/ i \in 1..n /\ qr[i] = q[i]
                              \/ i > n /\ qr[i].depth = d + 1
    <2> TAKE i \in 1..(n + m)
    <2>1. i \in 1..n \/ (~(i <= n) /\ i - n \in 1..m /\ i > n)
      BY <1>1
    <2> QED
      BY <1>1, <2>1 DEF m
  <1>5. ASSUME NEW i \in 1..(n + m), NEW j \in 1..(n + m), i < j
        PROVE  qr[i].depth <= qr[j].depth
    <2>1. CASE i \in 1..n /\ qr[i] = q[i]
      BY <1>1, <1>2, <1>3, <1>4, <1>5, <2>1
    <2>2. CASE i > n /\ qr[i].depth = d + 1
      <3>1. j > n
        BY <1>1, <1>5, <2>2
      <3>2. qr[j].depth = d + 1
        BY <1>1, <1>4, <3>1
      <3> QED
        BY <2>2, <3>2
    <2> QED
      BY <1>4, <2>1, <2>2
  <1>6. \A i \in 1..(n + m) : d <= qr[i].depth /\ qr[i].depth <= d + 1
    BY <1>2, <1>4
  <1> QED
    BY <1>1, <1>5, <1>6 DEF Ordered, qr

-------------------------------------------------------------------------------
(* The steps *)

LEMMA TreeKept ==
  ASSUME UNCHANGED <<chain, params>>
  PROVE  /\ \A n : Within(n)' = Within(n)
         /\ \A t : Neighbours(t)' = Neighbours(t) /\ (WentWell(t)' <=> WentWell(t))
         /\ \A s : Target(s)' = Target(s) /\ (Sound(s)' <=> Sound(s))
  <1>1. outs' = outs /\ phases' = phases /\ params' = params
    BY DEF chain
  <1>2. \A t : Parents(t)' = Parents(t)
    BY <1>1 DEF Parents, Sends
  <1>3. \A t : Neighbours(t)' = Neighbours(t)
    BY <1>1, <1>2 DEF Neighbours, Sends
  <1>4. \A n : Within(n)' = Within(n)
    BY <1>3 DEF Within
  <1>5. \A s : Target(s)' = Target(s)
    BY <1>2 DEF Target
  <1>6. \A s : Sound(s)' <=> Sound(s)
    BY <1>1, <1>4, <1>5 DEF Sound
  <1>7. \A t : WentWell(t)' <=> WentWell(t)
    BY <1>1 DEF WentWell
  <1> QED
    BY <1>3, <1>4, <1>5, <1>6, <1>7

LEMMA WellIs ==
  ASSUME Types, NEW t \in Tx
  PROVE  WentWell(t) <=> Reason(phases[t]) = "none"
  <1>1. phases[t] \in Phases
    BY DEF Types
  <1> QED
    BY <1>1 DEF WentWell, Reason, Phases

\* If every search left is at least d deep, then what is nearer is done.
LEMMA Frontier ==
  ASSUME Types, Complete, NEW d \in Nat, d <= params.maxDepth + 1,
         \A s \in ToBeMade : s.depth \in Nat /\ d <= s.depth
  PROVE  \A n \in Nat : n < d => Within(n) \subseteq processedTxHashes
  <1> DEFINE S == {n \in Nat : n < d => Within(n) \subseteq processedTxHashes}
  <1>1. params.maxDepth \in Nat
    BY DEF Types
  <1>2. ASSUME NEW n \in Nat, NEW u, n < d, Searched(u, n) PROVE FALSE
    BY <1>2 DEF Searched
  <1>3. 0 \in S
    BY <1>2, WithinIs DEF Complete
  <1>4. ASSUME NEW n \in Nat, n \in S PROVE n + 1 \in S
    <2> SUFFICES ASSUME n + 1 < d PROVE Within(n + 1) \subseteq processedTxHashes
      OBVIOUS
    <2>1. n < d /\ n < params.maxDepth /\ n + 1 \in Nat
      BY <1>1
    <2>2. Within(n) \subseteq processedTxHashes
      BY <1>4, <2>1
    <2>3. ASSUME NEW t \in Within(n), NEW u \in Neighbours(t) PROVE u \in processedTxHashes
      BY <1>2, <2>1, <2>2, <2>3 DEF Complete
    <2> QED
      BY <2>2, <2>3, WithinIs
  <1> HIDE DEF S
  <1>5. \A n \in Nat : n \in S
    BY <1>3, <1>4, Induction
  <1> QED
    BY <1>5 DEF S

\* The searches that a transaction gives rise to are for its neighbours.
LEMMA NewIs ==
  ASSUME Types, current \in SearchType, NEW t \in Tx
  PROVE  LET r == Children(t) \o Parent(t)
         IN  /\ r \in Seq(SearchType)
             /\ \A s \in ToSet(r) : /\ s.depth = current.depth + 1
                                    /\ \E u \in Neighbours(t) : Target(s) = {u}
             /\ \A u \in Neighbours(t) : \E s \in ToSet(r) : Target(s) = {u}
  <1> DEFINE c == Children(t)
             p == Parent(t)
             m == Internal(outs[t])
             to == {u \in Tx : Sends(t, u)}
  <1>1. current.depth + 1 \in Nat /\ params.direction \in Direction
    BY DEF Types, SearchType
  <1>2. outs \in [Tx -> Seq(Tx \cup {Nobody})]
    BY DEF Types
  <1>3. m \in Seq(Tx) /\ ToSet(m) = to
    <2>1. m \in Seq(Tx) /\ ToSet(m) = ToSet(outs[t]) \ {Nobody}
      BY DEF Types
    <2>2. DOMAIN outs[t] = 1..Len(outs[t]) /\ \A i \in 1..Len(outs[t]) : outs[t][i] \in Tx \cup {Nobody}
      BY <1>2, LenProperties, ElementOfSeq
    <2>3. \A u : u \in ToSet(outs[t]) <=> Sends(t, u)
      BY <2>2 DEF ToSet, Sends
    <2>4. ToSet(outs[t]) \subseteq Tx \cup {Nobody}
      BY <2>2 DEF ToSet
    <2> HIDE DEF m
    <2>5. \A u : u \in to <=> u \in Tx /\ Sends(t, u)
      OBVIOUS
    <2> HIDE DEF to
    <2> QED
      BY <2>1, <2>3, <2>4, <2>5
  <1>4. \A u \in Tx : /\ Search(u, "in") \in SearchType /\ Search(u, "out") \in SearchType
                      /\ Search(u, "in").depth = current.depth + 1 /\ Target(Search(u, "in")) = {u}
                      /\ Search(u, "out").depth = current.depth + 1 /\ Target(Search(u, "out")) = Parents(u)
    BY <1>1 DEF Search, SearchType, Target
  <1>5. /\ c \in Seq(SearchType)
        /\ \A s \in ToSet(c) : s.depth = current.depth + 1
                               /\ params.direction # "backward" /\ \E u \in to : Target(s) = {u}
        /\ params.direction # "backward" => \A u \in to : \E s \in ToSet(c) : Target(s) = {u}
    <2>1. CASE params.direction \in {"forward", "both"}
      <3> DEFINE n == Len(m)
      <3>1. c = [i \in 1..n |-> Search(m[i], "in")]
        BY <2>1 DEF Children
      <3>2. n \in Nat /\ DOMAIN m = 1..n /\ \A i \in 1..n : m[i] \in Tx
        BY <1>3, LenProperties, ElementOfSeq
      <3> HIDE DEF n, m, c
      <3>3. \A i \in 1..n : m[i] \in to
        BY <1>3, <3>2 DEF ToSet
      <3>4. \A u \in to : \E i \in 1..n : m[i] = u
        BY <1>3, <3>2 DEF ToSet
      <3>5. DOMAIN c = 1..n /\ \A i \in 1..n : c[i] = Search(m[i], "in")
        BY <3>1
      <3>6. ToSet(c) = {c[i] : i \in 1..n}
        BY <3>5 DEF ToSet
      <3>7. c \in Seq(SearchType)
        <4>1. c \in [1..n -> SearchType]
          BY <1>4, <3>1, <3>2
        <4> QED
          BY <3>2, <4>1, SeqDef
      <3> HIDE DEF to
      <3>8. \A i \in 1..n : /\ c[i].depth = current.depth + 1 /\ Target(c[i]) = {m[i]}
                            /\ m[i] \in to /\ c[i] \in ToSet(c)
        BY <1>4, <3>2, <3>3, <3>5, <3>6
      <3>9. \A s \in ToSet(c) : s.depth = current.depth + 1 /\ \E u \in to : Target(s) = {u}
        BY <3>6, <3>8
      <3>10. \A u \in to : \E s \in ToSet(c) : Target(s) = {u}
        BY <3>4, <3>8
      <3> QED
        BY <2>1, <3>7, <3>9, <3>10
    <2>2. CASE params.direction = "backward"
      <3>1. c = << >>
        BY <2>2 DEF Children
      <3> QED
        BY <2>2, <3>1, EmptySeq DEF ToSet
    <2> QED
      BY <1>1, <2>1, <2>2 DEF Direction
  <1>6. /\ p \in Seq(SearchType)
        /\ \A s \in ToSet(p) : s.depth = current.depth + 1
                               /\ params.direction # "forward" /\ \E u \in Parents(t) : Target(s) = {u}
        /\ params.direction # "forward" => \A u \in Parents(t) : \E s \in ToSet(p) : Target(s) = {u}
    <2>1. CASE params.direction \in {"backward", "both"} /\ Parents(t) # {}
      <3>1. p = <<Search(t, "out")>>
        BY <2>1 DEF Parent
      <3>2. ToSet(p) = {Search(t, "out")} /\ p \in Seq(SearchType)
        BY <1>4, <3>1 DEF ToSet
      <3>3. \A u \in Parents(t) : Parents(t) = {u}
        BY ParentIsOne
      <3> QED
        BY <1>4, <2>1, <3>2, <3>3
    <2>2. CASE params.direction = "forward" \/ Parents(t) = {}
      <3>1. p = << >>
        BY <2>2 DEF Parent
      <3> QED
        BY <2>2, <3>1, EmptySeq DEF ToSet
    <2> QED
      BY <1>1, <2>1, <2>2 DEF Direction
  <1>7. \A u : u \in Neighbours(t) <=> \/ params.direction # "backward" /\ u \in to
                                       \/ params.direction # "forward" /\ u \in Parents(t)
    BY DEF Neighbours
  <1> HIDE DEF c, p, to, m
  <1>8. c \o p \in Seq(SearchType) /\ ToSet(c \o p) = ToSet(c) \cup ToSet(p)
    BY <1>5, <1>6, ConcatIs
  <1> QED
    BY <1>5, <1>6, <1>7, <1>8 DEF c, p

\* Nothing has been said before the end.
LEMMA InitInv == Init => IInv
  <1> SUFFICES ASSUME Init PROVE IInv
    OBVIOUS
  <1>1. RootSearch \in SearchType /\ RootSearch.depth = 0 /\ Target(RootSearch) = {Root}
    BY DEF RootSearch, SearchType, Target
  <1>2. queue = <<RootSearch>> /\ Len(queue) = 1 /\ queue \in Seq(SearchType) /\ ToSet(queue) = {RootSearch}
    BY <1>1 DEF Init, ToSet
  <1>3. params \in [maxDepth : Depths, direction : Direction, retryOnNotFound : BOOLEAN, retries : Retries]
    BY DEF Init
  <1>4. params.maxDepth \in Nat /\ params.retries \in Nat
    BY <1>3
  <1>5. Types
    <2>1. IsFiniteSet({}) /\ Cardinality({}) = 0
      BY FS_EmptySet
    <2>2. attempt \in 0..params.retries
      BY <1>4 DEF Init
    <2> QED
      BY <1>2, <1>3, <2>1, <2>2 DEF Init, Types, Pending
  <1>6. Sound(RootSearch)
    BY <1>1, <1>4, WithinIs, SMTT(30) DEF Sound
  <1>7. Searches
    <2>1. queue[1] = RootSearch /\ current = RootSearch
      BY DEF Init
    <2>2. Ordered(queue, 0)
      <3>1. \A i \in 1..Len(queue) : i = 1
        BY <1>2
      <3>2. \A i \in 1..Len(queue) : queue[i].depth = 0
        BY <1>1, <2>1, <3>1
      <3> QED
        BY <3>2 DEF Ordered
    <2> QED
      BY <1>1, <1>2, <1>6, <2>1, <2>2 DEF Searches
  <1>8. Visited
    BY DEF Visited, Init
  <1>9. Complete
    <2>1. RootSearch \in ToBeMade /\ processedTxHashes = {}
      BY <1>2 DEF ToBeMade, Init
    <2>2. Searched(Root, 0)
      BY <1>1, <2>1 DEF Searched
    <2> QED
      BY <2>1, <2>2 DEF Complete
  <1> QED
    BY <1>5, <1>7, <1>8, <1>9 DEF IInv, Init, Pending, VerdictIsRight, SuccessCoversTree, FailureIsReal

\* A search leaves the walk when its transaction has been processed, and a
\* transaction that is processed leaves the searches for its neighbours.
LEMMA CompleteKept ==
  ASSUME UNCHANGED <<chain, params>>, Complete, processedTxHashes \subseteq processedTxHashes',
         \A s \in ToBeMade : s \in ToBeMade' \/ \E u \in processedTxHashes' : Target(s) = {u},
         \A t \in processedTxHashes' \ processedTxHashes, n \in Nat :
             t \in Within(n) /\ n < params.maxDepth =>
                 \A u \in Neighbours(t) : u \in processedTxHashes' \/ Searched(u, n + 1)'
  PROVE  Complete'
  <1>1. params' = params
    OBVIOUS
  <1>2. ASSUME NEW u, NEW d, Searched(u, d) PROVE u \in processedTxHashes' \/ Searched(u, d)'
    <2>1. PICK s \in ToBeMade : s.depth <= d /\ Target(s) = {u}
      BY <1>2 DEF Searched
    <2>2. CASE s \in ToBeMade'
      <3>1. Target(s)' = {u}
        BY <2>1, TreeKept
      <3> QED
        BY <2>1, <2>2, <3>1 DEF Searched
    <2>3. CASE \E v \in processedTxHashes' : Target(s) = {v}
      BY <2>1, <2>3
    <2> QED
      BY <2>2, <2>3
  <1>3. Root \in processedTxHashes' \/ Searched(Root, 0)'
    BY <1>2 DEF Complete
  <1>4. ASSUME NEW t \in processedTxHashes', NEW n \in Nat, t \in Within(n), n < params.maxDepth,
               NEW u \in Neighbours(t)
        PROVE  u \in processedTxHashes' \/ Searched(u, n + 1)'
    <2>1. CASE t \in processedTxHashes
      <3>1. u \in processedTxHashes \/ Searched(u, n + 1)
        BY <1>4, <2>1 DEF Complete
      <3> QED
        BY <1>2, <3>1
    <2>2. CASE t \notin processedTxHashes
      BY <1>4, <2>2
    <2> QED
      BY <2>1, <2>2
  <1>5. \A n : Within(n)' = Within(n)
    BY TreeKept
  <1>6. \A t : Neighbours(t)' = Neighbours(t)
    BY TreeKept
  <1> QED
    BY <1>1, <1>3, <1>4, <1>5, <1>6 DEF Complete

LEMMA IndexKeeps ==
  ASSUME IInv, NEW t \in Tx, Index(t) \/ Bury(t)
  PROVE  IInv'
  <1>1. /\ UNCHANGED <<chain, params>>
        /\ UNCHANGED <<outs, phases, params, pc, queue, current, visitedSearchKeys,
                       processedTxHashes, checkedCount, attempt, result, errors>>
        /\ visible \subseteq visible' /\ visible' \subseteq Tx /\ beyondLimit' \subseteq visible'
        /\ pc # "done"
    BY DEF IInv, Types, Index, Bury, chain, walk
  <1>2. Types'
    BY <1>1 DEF IInv, Types
  <1>3. Searches'
    BY <1>1, TreeKept DEF IInv, Searches, Ordered
  <1>4. Visited'
    BY <1>1, TreeKept DEF IInv, Visited, Key
  <1>5. Complete'
    <2>1. Complete /\ processedTxHashes' = processedTxHashes /\ ToBeMade' = ToBeMade
      BY <1>1 DEF IInv, ToBeMade
    <2> QED
      BY <1>1, <2>1, CompleteKept
  <1>6. result.verdict = "pending"
    BY <1>1 DEF IInv, Types
  <1> QED
    BY <1>1, <1>2, <1>3, <1>4, <1>5, <1>6, TreeKept
    DEF IInv, VerdictIsRight, SuccessCoversTree, FailureIsReal

LEMMA WaitKeeps ==
  ASSUME IInv, RetryLater \/ WakeUp
  PROVE  IInv'
  <1>1. /\ UNCHANGED <<chain, params>>
        /\ UNCHANGED <<outs, phases, params, visible, beyondLimit, queue, current, visitedSearchKeys,
                       processedTxHashes, checkedCount, result>>
        /\ pc \in {"find", "sleep"} /\ pc' \in {"find", "sleep"}
    BY DEF RetryLater, WakeUp, chain, walk
  <1>2. attempt' \in 0..params.retries /\ errors' \in Nat
    <2>1. params.retries \in Nat /\ attempt \in 0..params.retries /\ errors \in Nat
      BY DEF IInv, Types
    <2> QED
      BY <2>1 DEF RetryLater, WakeUp, MayRetry, CountAttempt, LookupThrows, Misses
  <1>3. Types'
    BY <1>1, <1>2 DEF IInv, Types
  <1>4. Searches'
    BY <1>1, TreeKept DEF IInv, Searches, Ordered
  <1>5. Visited'
    BY <1>1, TreeKept DEF IInv, Visited, Key
  <1>6. Complete'
    <2>1. Complete /\ processedTxHashes' = processedTxHashes /\ ToBeMade' = ToBeMade
      BY <1>1 DEF IInv, ToBeMade
    <2> QED
      BY <1>1, <2>1, CompleteKept
  <1>7. result.verdict = "pending"
    BY <1>1 DEF IInv, Types
  <1> QED
    BY <1>1, <1>3, <1>4, <1>5, <1>6, <1>7, TreeKept
    DEF IInv, VerdictIsRight, SuccessCoversTree, FailureIsReal

\* A search that is given up is for a transaction that was not there, or that
\* the scan of its account no longer reaches.
LEMMA GiveUpKeeps ==
  ASSUME IInv, GiveUp
  PROVE  IInv'
  <1>1. /\ UNCHANGED <<chain, params>>
        /\ UNCHANGED <<outs, phases, params, visible, beyondLimit, queue, current, visitedSearchKeys,
                       processedTxHashes, checkedCount, attempt>>
        /\ pc = "find" /\ pc' = "done"
    BY DEF GiveUp, Return, chain, walk
  <1>2. Types /\ errors \in Nat
    BY DEF IInv, Types
  <1>3. \/ errors' = errors + 1 /\ (result' = NotFound \/ result' = [verdict |-> "threw"])
        \/ errors' = errors /\ Matches(current) = {} /\ result' = NotFound
    BY DEF GiveUp, Return, LookupThrows, Misses
  <1>4. result'.verdict \in {"not_found", "threw"} /\ errors' \in Nat
    BY <1>2, <1>3 DEF NotFound
  <1>5. Types'
    BY <1>1, <1>2, <1>4 DEF Types
  <1>6. Searches'
    BY <1>1, TreeKept DEF IInv, Searches, Ordered
  <1>7. processedTxHashes' \subseteq Within(params.maxDepth)'
    BY <1>1, TreeKept DEF IInv
  <1>8. FailureIsReal'
    <2> SUFFICES ASSUME result'.verdict = "not_found", errors' = 0
                 PROVE  \E t \in Within(params.maxDepth)' :
                            t \in Target(result.search)' /\ (t \in processedTxHashes' => t \in beyondLimit')
      BY <1>4 DEF FailureIsReal
    <2>1. Matches(current) = {} /\ result' = NotFound
      BY <1>2, <1>3
    <2>2. current.depth \in Nat /\ params.maxDepth \in Nat /\ current.depth <= params.maxDepth
      BY DEF IInv, Types, Searches, Sound, SearchType
    <2>3. PICK u \in Within(current.depth) : Target(current) = {u}
      BY DEF IInv, Searches, Sound
    <2>4. u \in Within(params.maxDepth)
      BY <2>2, WithinIs
    <2>5. u \in processedTxHashes => u \in beyondLimit
      BY <1>2, <2>1, <2>3 DEF Matches, Types
    <2>6. result.search' = current
      BY <2>1 DEF NotFound
    <2>7. Target(result.search)' = Target(current)
      BY <1>1, <2>6 DEF Target, Parents, Sends
    <2>8. Within(params.maxDepth)' = Within(params.maxDepth)
      BY <1>1, TreeKept
    <2> QED
      BY <1>1, <2>3, <2>4, <2>5, <2>7, <2>8
  <1> QED
    BY <1>1, <1>4, <1>5, <1>6, <1>7, <1>8 DEF IInv, VerdictIsRight, SuccessCoversTree

\* When no search is left, everything within the depth has been processed.
LEMMA SuccessKeeps ==
  ASSUME IInv, NextSearch, queue = <<>>
  PROVE  IInv'
  <1>1. /\ UNCHANGED <<chain, params>>
        /\ UNCHANGED <<outs, phases, params, visible, beyondLimit, queue, current, visitedSearchKeys,
                       processedTxHashes, checkedCount, attempt, errors>>
        /\ pc = "next" /\ pc' = "done" /\ result' = [verdict |-> "success"]
    BY DEF NextSearch, Return, chain
  <1>2. Types /\ Complete /\ \A t \in processedTxHashes : WentWell(t)
    BY <1>1 DEF IInv
  <1>3. Types'
    BY <1>1, <1>2 DEF Types
  <1>4. Searches'
    BY <1>1, TreeKept DEF IInv, Searches, Ordered
  <1>5. processedTxHashes = Within(params.maxDepth)
    <2>1. params.maxDepth \in Nat
      BY <1>2 DEF Types
    <2>2. ToBeMade = {}
      BY <1>1 DEF ToBeMade, ToSet
    <2>3. params.maxDepth + 1 \in Nat /\ params.maxDepth < params.maxDepth + 1
      BY <2>1
    <2>4. Within(params.maxDepth) \subseteq processedTxHashes
      BY <1>2, <2>1, <2>2, <2>3, Frontier
    <2> QED
      BY <2>4 DEF IInv
  <1>6. /\ processedTxHashes' = Within(params.maxDepth)'
        /\ \A t \in Within(params.maxDepth)' : WentWell(t)'
    BY <1>1, <1>2, <1>5, TreeKept
  <1> QED
    BY <1>1, <1>3, <1>4, <1>6 DEF IInv, VerdictIsRight, SuccessCoversTree, FailureIsReal

\* The next search is begun, unless it was made before.
LEMMA NextKeeps ==
  ASSUME IInv, NextSearch, queue # <<>>
  PROVE  IInv'
  <1> DEFINE s == Head(queue)
  <1>1. /\ UNCHANGED <<chain, params>>
        /\ UNCHANGED <<outs, phases, params, visible, beyondLimit, processedTxHashes, checkedCount,
                       errors, result>>
        /\ pc = "next" /\ queue' = Tail(queue)
        /\ \/ Key(s) \in visitedSearchKeys /\ UNCHANGED <<pc, current, visitedSearchKeys, attempt>>
           \/ /\ visitedSearchKeys' = visitedSearchKeys \cup {Key(s)}
              /\ current' = s /\ attempt' = 0 /\ pc' = "find"
    BY DEF NextSearch, chain
  <1>2. /\ Types /\ Searches /\ Visited /\ Complete /\ result.verdict = "pending"
        /\ \A t \in processedTxHashes : WentWell(t)
    BY <1>1 DEF IInv, Types
  <1>3. /\ s \in SearchType /\ Tail(queue) \in Seq(SearchType)
        /\ ToSet(queue) = {s} \cup ToSet(Tail(queue))
    BY <1>2, HeadIs DEF Types
  <1> HIDE DEF s
  <1>4. Sound(s) /\ \A x \in ToSet(Tail(queue)) : Sound(x)
    BY <1>2, <1>3 DEF Searches
  <1>5. Key(s) \in [msg : Tx, type : {"unknown", "in", "out"}] /\ Target(Key(s)) = Target(s)
    BY <1>3 DEF Key, SearchType, Target
  <1>6. Types'
    <2>1. params.retries \in Nat
      BY <1>2 DEF Types
    <2>2. attempt' \in 0..params.retries
      BY <1>1, <1>2, <2>1 DEF Types
    <2>3. pc' \in {"next", "find"} /\ visitedSearchKeys' \subseteq visitedSearchKeys \cup {Key(s)}
      BY <1>1
    <2> QED
      BY <1>1, <1>2, <1>3, <1>5, <2>2, <2>3 DEF Types
  <1>7. Searches'
    <2>1. current.depth \in Nat /\ Ordered(queue, current.depth)
      BY <1>2 DEF Searches, Sound, SearchType
    <2>2. Ordered(Tail(queue), current.depth) /\ Ordered(Tail(queue), s.depth)
      BY <1>2, <2>1, OrderedTail DEF Types, s
    <2>3. Ordered(queue, current.depth)'
      BY <1>1, <2>2 DEF Ordered
    <2>4. Sound(current)' /\ \A x \in ToSet(queue)' : Sound(x)'
      <3>1. current' \in {current, s} /\ Sound(current)
        BY <1>1, <1>2 DEF Searches
      <3>2. Sound(current')
        BY <1>4, <3>1
      <3>3. Sound(current)'
        <4>1. Target(current)' = Target(current')
          BY <1>1 DEF Target, Parents, Sends
        <4>2. \A t : Neighbours(t)' = Neighbours(t)
          BY <1>1, TreeKept
        <4>3. Within(current.depth)' = Within(current'.depth)
          BY <4>2 DEF Within
        <4>4. current' \in SearchType /\ current'.depth <= params.maxDepth
              /\ \E u \in Within(current'.depth) : Target(current') = {u}
          BY <3>2 DEF Sound
        <4> QED
          BY <1>1, <4>1, <4>3, <4>4 DEF Sound
      <3> QED
        BY <1>1, <1>4, <3>3, TreeKept
    <2> QED
      BY <2>3, <2>4 DEF Searches
  <1>8. Visited'
    <2> SUFFICES ASSUME NEW k \in visitedSearchKeys'
                 PROVE  \/ Target(k) \subseteq processedTxHashes
                        \/ pc' \in {"find", "sleep"} /\ k = Key(current)'
      BY <1>1, TreeKept DEF Visited
    <2>1. \A x \in visitedSearchKeys : Target(x) \subseteq processedTxHashes
      BY <1>1, <1>2 DEF Visited
    <2>2. CASE k \in visitedSearchKeys
      BY <2>1, <2>2
    <2>3. CASE k \notin visitedSearchKeys
      BY <1>1, <2>3 DEF Key
    <2> QED
      BY <2>2, <2>3
  <1>9. Complete'
    <2>1. ToBeMade = {s} \cup ToSet(Tail(queue))
      BY <1>1, <1>3 DEF ToBeMade
    <2>2. ToSet(Tail(queue)) \subseteq ToBeMade'
      BY <1>1 DEF ToBeMade
    <2>3. s \in ToBeMade' \/ \E u \in processedTxHashes : Target(s) = {u}
      <3>1. CASE Key(s) \in visitedSearchKeys
        BY <1>1, <1>2, <1>4, <1>5, <3>1 DEF Visited, Sound
      <3>2. CASE Key(s) \notin visitedSearchKeys
        BY <1>1, <3>2 DEF ToBeMade
      <3> QED
        BY <3>1, <3>2
    <2> QED
      BY <1>1, <1>2, <2>1, <2>2, <2>3, CompleteKept
  <1> QED
    BY <1>1, <1>2, <1>6, <1>7, <1>8, <1>9, TreeKept
    DEF IInv, VerdictIsRight, SuccessCoversTree, FailureIsReal

\* The transaction was processed before: its search is done.
LEMMA SeenKeeps ==
  ASSUME IInv, Found, Matches(current) \subseteq processedTxHashes
  PROVE  IInv'
  <1>1. /\ UNCHANGED <<chain, params>>
        /\ UNCHANGED <<outs, phases, params, visible, beyondLimit, queue, current, visitedSearchKeys,
                       processedTxHashes, checkedCount, attempt, errors, result>>
        /\ pc = "find" /\ pc' = "next" /\ Matches(current) # {}
    BY DEF Found, Seen, chain
  <1>2. /\ Types /\ Searches /\ Visited /\ Complete /\ result.verdict = "pending"
        /\ \A t \in processedTxHashes : WentWell(t)
    BY <1>1 DEF IInv, Types
  <1>3. PICK t \in processedTxHashes : Target(current) = {t}
    BY <1>1, <1>2 DEF Searches, Sound, Matches
  <1>4. Types'
    BY <1>1, <1>2 DEF Types
  <1>5. Searches'
    BY <1>1, <1>2, TreeKept DEF Searches, Ordered
  <1>6. Visited'
    <2>1. Target(Key(current)) = Target(current)
      BY DEF Target, Key
    <2> QED
      BY <1>1, <1>2, <1>3, <2>1, TreeKept DEF Visited
  <1>7. Complete'
    <2>1. \A x \in ToBeMade : x \in ToBeMade' \/ x = current
      BY <1>1 DEF ToBeMade
    <2> QED
      BY <1>1, <1>2, <1>3, <2>1, CompleteKept
  <1> QED
    BY <1>1, <1>2, <1>4, <1>5, <1>6, <1>7, TreeKept
    DEF IInv, VerdictIsRight, SuccessCoversTree, FailureIsReal

\* A bad transaction that is met for the first time is one of the tree.
LEMMA InvalidKeeps ==
  ASSUME IInv, NEW t \in Matches(current), t \notin processedTxHashes,
         Reason(phases[t]) # "none", pc = "find",
         processedTxHashes' = processedTxHashes \cup {t}, checkedCount' = checkedCount + 1,
         Return([verdict |-> "invalid", tx |-> t, reason |-> Reason(phases[t])]),
         UNCHANGED <<chain, queue, visible, beyondLimit, params, current, attempt, visitedSearchKeys, errors>>
  PROVE  IInv'
  <1>1. UNCHANGED <<outs, phases>> /\ pc' = "done" /\ result'.verdict = "invalid" /\ result'.tx = t
    BY DEF Return, chain
  <1>2. Types /\ Searches /\ \A u \in processedTxHashes : WentWell(u)
    BY DEF IInv
  <1>3. t \in visible /\ t \in Tx /\ Target(current) = {t} /\ t \in Within(params.maxDepth)
    <2>1. PICK u \in Within(current.depth) : Target(current) = {u}
      BY <1>2 DEF Searches, Sound
    <2>2. current.depth \in Nat /\ params.maxDepth \in Nat /\ current.depth <= params.maxDepth
      BY <1>2 DEF Types, Searches, Sound, SearchType
    <2> QED
      BY <1>2, <2>1, <2>2, WithinIs DEF Matches, Types
  <1>4. Types'
    <2>1. /\ IsFiniteSet(processedTxHashes') /\ processedTxHashes' \subseteq visible
          /\ checkedCount' = Cardinality(processedTxHashes')
      <3>1. IsFiniteSet(processedTxHashes) /\ checkedCount = Cardinality(processedTxHashes)
        BY <1>2 DEF Types
      <3>2. processedTxHashes \subseteq visible
        BY <1>2 DEF Types
      <3> QED
        BY <1>3, <3>1, <3>2, FS_AddElement
    <2>2. result'.verdict \in {"pending", "success", "invalid", "not_found", "threw"}
          /\ (pc' = "done" <=> result'.verdict # "pending") /\ pc' \in {"next", "find", "sleep", "done"}
      BY <1>1
    <2>3. /\ outs' \in Trees /\ phases' \in Outcomes
          /\ visible' \in SUBSET Tx /\ beyondLimit' \in SUBSET visible'
      BY <1>1, <1>2 DEF Types
    <2>4. params' \in [maxDepth : Depths, direction : Direction,
                       retryOnNotFound : BOOLEAN, retries : Retries]
      BY <1>2 DEF Types
    <2>5. /\ queue' \in Seq(SearchType) /\ attempt' \in 0..params'.retries /\ errors' \in Nat
          /\ visitedSearchKeys' \subseteq [msg : Tx, type : {"unknown", "in", "out"}]
      BY <1>2 DEF Types
    <2> QED
      BY <2>1, <2>2, <2>3, <2>4, <2>5, Zenon DEF Types
  <1>5. Searches'
    BY <1>1, <1>2, TreeKept DEF Searches, Ordered
  <1>6. ~WentWell(t)
    BY <1>2, <1>3, WellIs
  <1>7. Within(params.maxDepth)' = Within(params.maxDepth)
    BY TreeKept
  <1>8. processedTxHashes' \subseteq Within(params.maxDepth)'
    BY <1>3, <1>7 DEF IInv
  <1>9. FailureIsReal'
    <2>1. result.tx' \in Within(params.maxDepth)'
      BY <1>1, <1>3, <1>7
    <2>2. ~WentWell(result.tx)'
      BY <1>1, <1>6 DEF WentWell
    <2>3. \A u \in processedTxHashes' \ {result.tx'} : WentWell(u)'
      BY <1>1, <1>2, TreeKept
    <2> QED
      BY <1>1, <2>1, <2>2, <2>3 DEF FailureIsReal
  <1> QED
    BY <1>1, <1>4, <1>5, <1>8, <1>9 DEF IInv, VerdictIsRight, SuccessCoversTree

\* A good transaction that is met for the first time leaves the searches for
\* its neighbours, unless it is at the depth limit: then it is no nearer.
LEMMA ValidKeeps ==
  ASSUME IInv, NEW t \in Matches(current), t \notin processedTxHashes,
         Reason(phases[t]) = "none", pc = "find", pc' = "next",
         processedTxHashes' = processedTxHashes \cup {t}, checkedCount' = checkedCount + 1,
         queue' = IF MayDescend THEN Enqueue(Children(t) \o Parent(t)) ELSE queue,
         UNCHANGED <<chain, result, visible, beyondLimit, params, current, attempt, visitedSearchKeys, errors>>
  PROVE  IInv'
  <1> DEFINE r == Children(t) \o Parent(t)
             d == current.depth
  <1>1. UNCHANGED <<outs, phases>> /\ queue' = IF d < params.maxDepth THEN queue \o r ELSE queue
    BY DEF chain, MayDescend, Enqueue
  <1>2. /\ Types /\ Searches /\ Visited /\ Complete /\ result.verdict = "pending"
        /\ \A u \in processedTxHashes : WentWell(u)
    BY DEF IInv, Types
  <1>3. /\ d \in Nat /\ params.maxDepth \in Nat /\ d <= params.maxDepth
        /\ current \in SearchType /\ queue \in Seq(SearchType)
    BY <1>2 DEF Types, Searches, Sound, SearchType
  <1>4. t \in visible /\ t \in Tx /\ Target(current) = {t} /\ t \in Within(d) /\ t \in Within(params.maxDepth)
    <2>1. PICK u \in Within(d) : Target(current) = {u}
      BY <1>2 DEF Searches, Sound
    <2> QED
      BY <1>2, <1>3, <2>1, WithinIs DEF Matches, Types
  <1>5. /\ r \in Seq(SearchType)
        /\ \A s \in ToSet(r) : s.depth = d + 1 /\ \E u \in Neighbours(t) : Target(s) = {u}
        /\ \A u \in Neighbours(t) : \E s \in ToSet(r) : Target(s) = {u}
    BY <1>2, <1>3, <1>4, NewIs
  <1> HIDE DEF r, d
  <1>6. /\ queue' \in Seq(SearchType) /\ ToSet(queue) \subseteq ToSet(queue')
        /\ ToSet(queue') = IF d < params.maxDepth THEN ToSet(queue) \cup ToSet(r) ELSE ToSet(queue)
    <2>1. queue \o r \in Seq(SearchType) /\ ToSet(queue \o r) = ToSet(queue) \cup ToSet(r)
      BY <1>3, <1>5, ConcatIs
    <2>2. CASE d < params.maxDepth
      <3>1. queue' = queue \o r
        BY <1>1, <2>2
      <3> QED
        BY <2>1, <2>2, <3>1
    <2>3. CASE ~(d < params.maxDepth)
      <3>1. queue' = queue
        BY <1>1, <2>3
      <3> QED
        BY <1>3, <2>3, <3>1
    <2> QED
      BY <2>2, <2>3
  <1>7. WentWell(t)
    BY <1>2, <1>4, WellIs
  <1>8. Types'
    BY <1>1, <1>2, <1>4, <1>6, FS_AddElement DEF Types
  <1>9. Searches'
    <2>1. ASSUME d < params.maxDepth, NEW s \in ToSet(r) PROVE Sound(s)
      <3>1. PICK u \in Neighbours(t) : Target(s) = {u}
        BY <1>5, <2>1
      <3>2. u \in Within(d + 1)
        BY <1>3, <1>4, WithinIs
      <3>3. s \in SearchType
        <4>1. \A i \in DOMAIN r : r[i] \in SearchType
          BY <1>5, ElementOfSeq, LenProperties
        <4> QED
          BY <2>1, <4>1 DEF ToSet
      <3>4. s.depth = d + 1 /\ d + 1 <= params.maxDepth
        BY <1>3, <1>5, <2>1
      <3> QED
        BY <3>1, <3>2, <3>3, <3>4 DEF Sound
    <2>2. Sound(current) /\ \A s \in ToSet(queue') : Sound(s)
      BY <1>2, <1>6, <2>1 DEF Searches
    <2>3. Ordered(queue', d)
      <3>1. Ordered(queue, d)
        BY <1>2 DEF Searches, d
      <3>2. \A i \in 1..Len(r) : r[i] \in ToSet(r)
        BY <1>5, LenProperties DEF ToSet
      <3>3. Ordered(queue \o r, d)
        BY <1>3, <1>5, <3>1, <3>2, OrderedConcat
      <3> QED
        BY <1>1, <3>1, <3>3
    <2>4. Ordered(queue, current.depth)'
      BY <2>3 DEF Ordered, d
    <2> QED
      BY <2>2, <2>4, TreeKept DEF Searches
  <1>10. Visited'
    <2>1. Target(Key(current)) = Target(current)
      BY DEF Target, Key
    <2> QED
      BY <1>2, <1>4, <2>1, TreeKept DEF Visited
  <1>11. Complete'
    <2>1. \A s \in ToBeMade : s \in ToBeMade' \/ s = current
      BY <1>6 DEF ToBeMade
    <2>2. \A s \in ToSet(queue') : s \in ToBeMade'
      BY DEF ToBeMade
    <2>3. ASSUME NEW n \in Nat, t \in Within(n), n < params.maxDepth, NEW u \in Neighbours(t)
          PROVE  Searched(u, n + 1)'
      <3>1. d <= n
        <4>1. \A s \in ToBeMade : s.depth \in Nat /\ d <= s.depth
          <5>1. \A i \in DOMAIN queue : d <= queue[i].depth
            BY <1>2, <1>3, LenProperties DEF Searches, Ordered, d
          <5>2. \A s \in ToSet(queue) : d <= s.depth /\ s.depth \in Nat
            BY <1>2, <5>1 DEF ToSet, Searches, Sound, SearchType
          <5> QED
            BY <1>3, <5>2 DEF ToBeMade, d
        <4>2. d <= params.maxDepth + 1
          BY <1>3
        <4>3. n < d => Within(n) \subseteq processedTxHashes
          BY <1>2, <1>3, <4>1, <4>2, Frontier
        <4> QED
          BY <1>3, <2>3, <4>3
      <3>2. PICK s \in ToSet(r) : Target(s) = {u}
        BY <1>5, <2>3
      <3>3. s \in ToBeMade' /\ s.depth <= n + 1
        BY <1>3, <1>5, <1>6, <2>2, <2>3, <3>1, <3>2
      <3>4. Target(s)' = {u}
        BY <3>2, TreeKept
      <3> QED
        BY <3>3, <3>4 DEF Searched
    <2> QED
      BY <1>2, <1>4, <2>1, <2>3, CompleteKept
  <1>12. processedTxHashes' \subseteq Within(params.maxDepth)'
    BY <1>4, TreeKept DEF IInv
  <1> QED
    BY <1>2, <1>7, <1>8, <1>9, <1>10, <1>11, <1>12, TreeKept
    DEF IInv, VerdictIsRight, SuccessCoversTree, FailureIsReal

-------------------------------------------------------------------------------
(* The theorem *)

LEMMA NextInv == IInv /\ [Next]_vars => IInv'
  <1> SUFFICES ASSUME IInv, [Next]_vars PROVE IInv'
    OBVIOUS
  <1>1. CASE NextSearch
    BY <1>1, SuccessKeeps, NextKeeps
  <1>2. CASE Found
    <2>1. PICK t \in Matches(current) :
              \/ t \in processedTxHashes
              \/ /\ t \notin processedTxHashes
                 /\ processedTxHashes' = processedTxHashes \cup {t}
                 /\ checkedCount' = checkedCount + 1
                 /\ \/ /\ Reason(phases[t]) # "none" /\ UNCHANGED queue
                       /\ Return([verdict |-> "invalid", tx |-> t, reason |-> Reason(phases[t])])
                    \/ /\ Reason(phases[t]) = "none" /\ pc' = "next" /\ UNCHANGED result
                       /\ queue' = IF MayDescend THEN Enqueue(Children(t) \o Parent(t)) ELSE queue
      BY <1>2 DEF Found, Seen
    <2>2. pc = "find" /\ UNCHANGED <<chain, visible, beyondLimit, params, current, attempt, visitedSearchKeys, errors>>
      BY <1>2 DEF Found
    <2>3. CASE t \in processedTxHashes
      <3>1. Matches(current) = {t}
        BY DEF IInv, Searches, Sound, Matches
      <3> QED
        BY <1>2, <2>3, <3>1, SeenKeeps
    <2>4. CASE t \notin processedTxHashes /\ Reason(phases[t]) # "none"
      BY <2>1, <2>2, <2>4, InvalidKeeps
    <2>5. CASE t \notin processedTxHashes /\ Reason(phases[t]) = "none"
      BY <2>1, <2>2, <2>5, ValidKeeps
    <2> QED
      BY <2>3, <2>4, <2>5
  <1>3. CASE RetryLater \/ WakeUp
    BY <1>3, WaitKeeps
  <1>4. CASE GiveUp
    BY <1>4, GiveUpKeeps
  <1>5. ASSUME NEW t \in Tx, Index(t) \/ Bury(t) PROVE IInv'
    BY <1>5, IndexKeeps
  <1>6. CASE UNCHANGED vars
    <2>1. /\ UNCHANGED <<chain, params>>
          /\ UNCHANGED <<outs, phases, params, pc, queue, current, visitedSearchKeys, visible,
                         beyondLimit,
                         processedTxHashes, checkedCount, attempt, result, errors>>
      BY <1>6 DEF vars, chain, walk
    <2>2. Types'
      BY <2>1 DEF IInv, Types
    <2>3. Searches'
      BY <2>1, TreeKept DEF IInv, Searches, Ordered
    <2>4. Visited' <=> Visited
      BY <2>1, TreeKept DEF Visited, Key
    <2>5. Complete => Complete'
      <3>1. processedTxHashes' = processedTxHashes /\ ToBeMade' = ToBeMade
        BY <2>1 DEF ToBeMade
      <3> QED
        BY <2>1, <3>1, CompleteKept
    <2>6. /\ processedTxHashes' \subseteq Within(params.maxDepth)'
          /\ (\A t \in processedTxHashes : WentWell(t)) => \A t \in processedTxHashes' : WentWell(t)'
      BY <2>1, TreeKept DEF IInv
    <2>7. SuccessCoversTree'
      BY <2>1, TreeKept DEF IInv, VerdictIsRight, SuccessCoversTree
    <2>8. FailureIsReal'
      BY <2>1, TreeKept DEF IInv, VerdictIsRight, FailureIsReal
    <2> QED
      BY <2>1, <2>2, <2>3, <2>4, <2>5, <2>6, <2>7, <2>8 DEF IInv, VerdictIsRight
  <1> QED
    BY <1>1, <1>2, <1>3, <1>4, <1>5, <1>6 DEF Next, Walk

\* The invariant, of every walk.
THEOREM WalkTheorem == Spec => []IInv
  <1> QED
    BY InitInv, NextInv, PTL DEF Spec

\* trackTransactionTree's success means that every transaction within the
\* depth asked for was found and went well, and its failure names a real one.
THEOREM VerdictTheorem == Spec => []VerdictIsRight
  <1>1. IInv => VerdictIsRight
    BY DEF IInv
  <1> QED
    BY <1>1, WalkTheorem, PTL

\* The walk validates a transaction once and goes breadth first.
THEOREM ShapeTheorem == Spec => []WalkInv
  <1>1. IInv => WalkInv
    <2> SUFFICES ASSUME Types, Searches PROVE WalkInv
      BY DEF IInv
    <2>1. \A i \in 1..Len(queue) : queue[i] \in SearchType /\ queue[i].depth <= params.maxDepth
      <3>1. \A i \in 1..Len(queue) : queue[i] \in ToSet(queue)
        BY LenProperties DEF Types, ToSet
      <3> QED
        BY <3>1 DEF Searches, Sound
    <2>2. TypeOK
      BY <2>1 DEF TypeOK, Types, Searches, Sound
    <2>3. BreadthFirst
      BY <2>1 DEF BreadthFirst, Searches, Ordered, Sound, SearchType
    <2> QED
      BY <2>2, <2>3 DEF WalkInv, ValidatedOnce, Types
  <1> QED
    BY <1>1, WalkTheorem, PTL
================================================================================
