------------------------------- MODULE TacSdk_proofs -------------------------------
(***************************************************************************)
(* Proofs about the facade and the components it composes, for any number  *)
(* of callers, any lists they name, any contracts and any interleaving.    *)
(***************************************************************************)
EXTENDS TacSdk, SequenceTheorems, FiniteSetTheorems, WellFoundedInduction, TLAPS

-------------------------------------------------------------------------------
(* Sums: what a fold over a finite set computes, whatever order it takes.      *)

\* Induction over the natural numbers, for a set.
LEMMA NatInd ==
  ASSUME NEW S, 0 \in S, \A n \in Nat : n \in S => n + 1 \in S
  PROVE  \A n \in Nat : n \in S
  <1> DEFINE R == OpToRel(<, Nat)
             T == Nat \ S
  <1>1. IsWellFoundedOn(R, Nat)
    BY NatLessThanWellFounded, Zenon
  <1>2. \A x, y \in Nat : y < x => <<y, x>> \in R
    BY DEF OpToRel
  <1> HIDE DEF R
  <1>3. SUFFICES ASSUME T # {} PROVE FALSE
    OBVIOUS
  <1>4. PICK x \in T : \A y \in T : ~ (<<y, x>> \in R)
    BY <1>1, <1>3, WFMin
  <1>5. x \in Nat /\ x # 0
    BY <1>4
  <1>6. x - 1 \in Nat /\ x - 1 < x /\ x - 1 + 1 = x
    BY <1>5
  <1>7. x - 1 \notin T
    BY <1>2, <1>4, <1>5, <1>6
  <1> QED
    BY <1>4, <1>6, <1>7

\* An order in which the elements of S's subsets are taken.
Picks(c, S) == \A s \in SUBSET S : s # {} => c[s] \in s

\* What a fold over S computes for each part s of S: it takes the elements in the
\* order c and goes from value to value by step.
Folds(it, c, step, base, S) ==
    it = [s \in SUBSET S |-> IF s = {} THEN base ELSE step[c[s]][it[s \ {c[s]}]]]

\* The fold that adds f up.
AddsUp(it, c, f, S) ==
    it = [s \in SUBSET S |-> IF s = {} THEN 0 ELSE f[c[s]] + it[s \ {c[s]}]]

LEMMA SmallerSubsets ==
  ASSUME NEW S, IsFiniteSet(S), NEW s \in SUBSET S, NEW x \in s
  PROVE  /\ s \ {x} \in SUBSET S /\ Cardinality(s) \in Nat \ {0}
         /\ Cardinality(s \ {x}) = Cardinality(s) - 1
         /\ Cardinality(s \ {x}) \in Nat
  <1>1. IsFiniteSet(s)
    BY FS_Subset
  <1>2. Cardinality(s) \in Nat /\ Cardinality(s) # 0
    BY <1>1, FS_CardinalityType, FS_EmptySet
  <1>3. IsFiniteSet(s \ {x}) /\ Cardinality(s \ {x}) = Cardinality(s) - 1
    BY <1>1, FS_RemoveElement
  <1> QED BY <1>2, <1>3

LEMMA FoldExists ==
  ASSUME NEW S, IsFiniteSet(S), NEW c, Picks(c, S), NEW step, NEW base
  PROVE  \E it : Folds(it, c, step, base, S)
  <1> DEFINE Upto(n) == {s \in SUBSET S : Cardinality(s) <= n}
             Body(it, s) == IF s = {} THEN base ELSE step[c[s]][it[s \ {c[s]}]]
             Good(it, n) == \A s \in Upto(n) : it[s] = Body(it, s)
             N == {n \in Nat : \E it : Good(it, n)}
  <1>1. 0 \in N
    <2>1. \A s \in Upto(0) : s = {}
      BY FS_Subset, FS_EmptySet, FS_CardinalityType
    <2>2. Good([s \in {{}} |-> base], 0)
      BY <2>1
    <2> QED BY <2>2
  <1>2. ASSUME NEW n \in Nat, n \in N PROVE n + 1 \in N
    <2>1. PICK it : Good(it, n)
      BY <1>2
    <2> DEFINE next == [s \in Upto(n + 1) |-> Body(it, s)]
    <2>2. ASSUME NEW s \in Upto(n + 1) PROVE next[s] = Body(next, s)
      <3>1. CASE s = {}
        BY <3>1
      <3>2. CASE s # {}
        <4> DEFINE r == s \ {c[s]}
        <4>1. c[s] \in s
          BY <3>2 DEF Picks
        <4>2. r \in Upto(n) /\ r \in Upto(n + 1)
          BY <4>1, SmallerSubsets
        <4>3. next[r] = Body(it, r) /\ it[r] = Body(it, r)
          BY <4>2, <2>1
        <4>4. next[s] = step[c[s]][it[r]]
          BY <3>2
        <4> QED BY <3>2, <4>3, <4>4
      <3> QED BY <3>1, <3>2
    <2> HIDE DEF next
    <2>3. Good(next, n + 1)
      BY <2>2
    <2> HIDE DEF Good
    <2> QED BY <2>3
  <1>3. \A n \in Nat : n \in N
    <2> HIDE DEF N
    <2> QED BY <1>1, <1>2, NatInd
  <1>4. PICK it : Good(it, Cardinality(S))
    BY <1>3, FS_CardinalityType
  <1>5. \A s \in SUBSET S : s \in Upto(Cardinality(S))
    BY FS_Subset
  <1> DEFINE whole == [s \in SUBSET S |-> it[s]]
  <1>6. ASSUME NEW s \in SUBSET S PROVE whole[s] = Body(whole, s)
    BY <1>4, <1>5
  <1>7. whole = [s \in SUBSET S |-> Body(whole, s)]
    BY <1>6
  <1> HIDE DEF whole
  <1>8. Folds(whole, c, step, base, S)
    BY <1>7 DEF Folds
  <1> QED BY <1>8


\* Its values stay where the steps do.
LEMMA FoldStays ==
  ASSUME NEW S, IsFiniteSet(S), NEW c, Picks(c, S), NEW it, NEW V, it[{}] \in V,
         \A s \in SUBSET S : s # {} /\ it[s \ {c[s]}] \in V => it[s] \in V
  PROVE  \A s \in SUBSET S : it[s] \in V
  <1> DEFINE N == {n \in Nat : \A s \in SUBSET S : Cardinality(s) = n => it[s] \in V}
  <1>1. 0 \in N
    BY FS_Subset, FS_EmptySet
  <1>2. ASSUME NEW n \in Nat, n \in N PROVE n + 1 \in N
    <2>0. n + 1 \in Nat
      OBVIOUS
    <2>1. SUFFICES ASSUME NEW s \in SUBSET S, Cardinality(s) = n + 1 PROVE it[s] \in V
      BY <2>0, Zenon
    <2>2. s # {}
      BY ONLY <2>1, n \in Nat, FS_EmptySet
    <2>4. c[s] \in s
      BY <2>2 DEF Picks
    <2>3. s \ {c[s]} \in SUBSET S /\ Cardinality(s \ {c[s]}) = n
      BY <2>1, <2>4, SmallerSubsets
    <2> QED BY <1>2, <2>2, <2>3
  <1>3. \A n \in Nat : n \in N
    <2> HIDE DEF N
    <2> QED BY <1>1, <1>2, NatInd
  <1> QED BY <1>3, FS_Subset, FS_CardinalityType

\* Two folds of the same steps agree.
LEMMA FoldUnique ==
  ASSUME NEW S, IsFiniteSet(S), NEW c, Picks(c, S), NEW it, NEW jt, it[{}] = jt[{}],
         \A s \in SUBSET S : s # {} /\ it[s \ {c[s]}] = jt[s \ {c[s]}] => it[s] = jt[s]
  PROVE  \A s \in SUBSET S : it[s] = jt[s]
  <1> DEFINE N == {n \in Nat : \A s \in SUBSET S : Cardinality(s) = n => it[s] = jt[s]}
  <1>1. 0 \in N
    BY FS_Subset, FS_EmptySet
  <1>2. ASSUME NEW n \in Nat, n \in N PROVE n + 1 \in N
    <2>0. n + 1 \in Nat
      OBVIOUS
    <2>1. SUFFICES ASSUME NEW s \in SUBSET S, Cardinality(s) = n + 1 PROVE it[s] = jt[s]
      BY <2>0, Zenon
    <2>2. s # {}
      BY ONLY <2>1, n \in Nat, FS_EmptySet
    <2>4. c[s] \in s
      BY <2>2 DEF Picks
    <2>3. s \ {c[s]} \in SUBSET S /\ Cardinality(s \ {c[s]}) = n
      BY <2>1, <2>4, SmallerSubsets
    <2> QED BY <1>2, <2>2, <2>3
  <1>3. \A n \in Nat : n \in N
    <2> HIDE DEF N
    <2> QED BY <1>1, <1>2, NatInd
  <1> QED BY <1>3, FS_Subset, FS_CardinalityType

LEMMA SumExists ==
  ASSUME NEW S, IsFiniteSet(S), NEW c, Picks(c, S), NEW f, \A x \in S : f[x] \in Nat
  PROVE  \E it : AddsUp(it, c, f, S)
  <1> DEFINE step == [x \in S |-> [n \in Nat |-> f[x] + n]]
  <1>1. PICK it : Folds(it, c, step, 0, S)
    BY FoldExists
  <1>2. \A s \in SUBSET S : s # {} => c[s] \in s /\ s \ {c[s]} \in SUBSET S
    BY DEF Picks
  <1>3. it[{}] = 0 /\ \A s \in SUBSET S : s # {} => it[s] = step[c[s]][it[s \ {c[s]}]]
    BY <1>1 DEF Folds
  <1>4. \A x \in S : \A n \in Nat : step[x][n] \in Nat /\ step[x][n] = f[x] + n
    OBVIOUS
  <1> HIDE DEF step
  <1>5. \A s \in SUBSET S : it[s] \in Nat
    <2>1. ASSUME NEW s \in SUBSET S, s # {}, it[s \ {c[s]}] \in Nat PROVE it[s] \in Nat
      <3>1. it[s] = step[c[s]][it[s \ {c[s]}]] /\ c[s] \in S
        BY <1>2, <1>3, <2>1
      <3> QED BY <1>4, <2>1, <3>1
    <2>2. it[{}] \in Nat
      BY <1>3
    <2> QED BY ONLY IsFiniteSet(S), Picks(c, S), <2>1, <2>2, FoldStays, Zenon
  <1>6. \A s \in SUBSET S : s # {} => it[s] = f[c[s]] + it[s \ {c[s]}]
    BY <1>2, <1>3, <1>4, <1>5
  <1>7. it = [s \in SUBSET S |-> IF s = {} THEN 0 ELSE f[c[s]] + it[s \ {c[s]}]]
    <2>1. it = [s \in SUBSET S |-> IF s = {} THEN 0 ELSE step[c[s]][it[s \ {c[s]}]]]
      BY <1>1 DEF Folds
    <2> DEFINE v(s) == IF s = {} THEN 0 ELSE step[c[s]][it[s \ {c[s]}]]
               w(s) == IF s = {} THEN 0 ELSE f[c[s]] + it[s \ {c[s]}]
    <2>2. ASSUME NEW s \in SUBSET S PROVE v(s) = w(s)
      BY <1>3, <1>6
    <2>3. [s \in SUBSET S |-> v(s)] = [s \in SUBSET S |-> w(s)]
      BY <2>2, Zenon
    <2> QED BY <2>1, <2>3
  <1> QED BY <1>7 DEF AddsUp

LEMMA SumAnyOrder ==
  ASSUME NEW S, IsFiniteSet(S), NEW c, Picks(c, S), NEW f, \A x \in S : f[x] \in Nat,
         NEW it, AddsUp(it, c, f, S)
  PROVE  /\ it[{}] = 0
         /\ \A s \in SUBSET S : it[s] \in Nat /\ \A y \in s : it[s] = f[y] + it[s \ {y}]
  <1> DEFINE Good(s) == it[s] \in Nat /\ \A y \in s : it[s] = f[y] + it[s \ {y}]
             N == {n \in Nat : \A s \in SUBSET S : Cardinality(s) <= n => Good(s)}
  <1>1. it[{}] = 0
    BY DEF AddsUp
  <1>2. \A s \in SUBSET S : s # {} => c[s] \in s /\ it[s] = f[c[s]] + it[s \ {c[s]}]
    BY DEF AddsUp, Picks
  <1>3. 0 \in N
    <2>1. \A s \in SUBSET S : Cardinality(s) <= 0 => s = {}
      BY FS_Subset, FS_EmptySet, FS_CardinalityType
    <2>2. Good({})
      BY <1>1
    <2> HIDE DEF Good
    <2>3. \A s \in SUBSET S : Cardinality(s) <= 0 => Good(s)
      BY <2>1, <2>2
    <2> QED BY <2>3
  <1>4. ASSUME NEW n \in Nat, n \in N PROVE n + 1 \in N
    <2>0. n + 1 \in Nat
      OBVIOUS
    <2>1. SUFFICES ASSUME NEW s \in SUBSET S, Cardinality(s) <= n + 1 PROVE Good(s)
      BY <2>0, Zenon
    <2>2. CASE s = {}
      BY <1>1, <2>2
    <2>3. CASE s # {}
      <3>1. \A z \in s : s \ {z} \in SUBSET S /\ Cardinality(s \ {z}) <= n
        <4>1. ASSUME NEW z \in s
              PROVE  /\ s \ {z} \in SUBSET S /\ Cardinality(s \ {z}) = Cardinality(s) - 1
                     /\ Cardinality(s) \in Nat
          BY SmallerSubsets
        <4> QED BY <2>1, <4>1
      <3>2. \A z \in s : Good(s \ {z})
        BY <1>4, <3>1
      <3>3. PICK x \in s : it[s] = f[x] + it[s \ {x}]
        BY <1>2, <2>3
      <3>4. it[s] \in Nat
        BY <3>2, <3>3, SMTT(30)
      <3>5. ASSUME NEW y \in s, y # x PROVE it[s] = f[y] + it[s \ {y}]
        <4> DEFINE both == (s \ {x}) \ {y}
        <4>1. both = (s \ {y}) \ {x}
          OBVIOUS
        <4>2. it[s \ {x}] = f[y] + it[both]
          BY <3>2, <3>5
        <4>3. it[s \ {y}] = f[x] + it[both]
          BY <3>2, <3>5, <4>1
        <4>4. both \in SUBSET S /\ Cardinality(both) <= n
          <5>1. s \ {x} \in SUBSET S /\ y \in s \ {x} /\ Cardinality(s \ {x}) <= n
            BY <3>1, <3>5
          <5>2. /\ Cardinality(both) = Cardinality(s \ {x}) - 1
                /\ Cardinality(s \ {x}) \in Nat
            BY <5>1, SmallerSubsets
          <5> QED BY <5>1, <5>2
        <4>5. it[both] \in Nat
          BY <1>4, <4>4
        <4>6. f[x] \in Nat /\ f[y] \in Nat
          OBVIOUS
        <4> HIDE DEF both
        <4> QED BY <3>3, <4>2, <4>3, <4>5, <4>6
      <3> QED BY <3>3, <3>4, <3>5
    <2> QED BY <2>2, <2>3
  <1>5. \A n \in Nat : n \in N
    <2> HIDE DEF N
    <2> QED BY <1>3, <1>4, NatInd
  <1>6. ASSUME NEW s \in SUBSET S PROVE Good(s)
    <2>1. Cardinality(s) \in Nat
      BY FS_Subset, FS_CardinalityType
    <2> QED BY <2>1, <1>5
  <1> QED BY <1>1, <1>6

\* The order does not matter, nor what f is elsewhere.
LEMMA SumsAgree ==
  ASSUME NEW S, IsFiniteSet(S), NEW c, Picks(c, S), NEW f, \A x \in S : f[x] \in Nat,
         NEW it, AddsUp(it, c, f, S),
         NEW T, IsFiniteSet(T), NEW d, Picks(d, T), NEW g, \A x \in T : g[x] \in Nat,
         NEW jt, AddsUp(jt, d, g, T),
         NEW U \in SUBSET S, U \subseteq T, \A x \in U : f[x] = g[x]
  PROVE  it[U] = jt[U]
  <1> DEFINE N == {n \in Nat : \A s \in SUBSET U : Cardinality(s) = n => it[s] = jt[s]}
  <1>1. /\ it[{}] = 0
        /\ \A s \in SUBSET S : it[s] \in Nat /\ \A y \in s : it[s] = f[y] + it[s \ {y}]
    BY ONLY IsFiniteSet(S), Picks(c, S), \A x \in S : f[x] \in Nat, AddsUp(it, c, f, S),
            SumAnyOrder
  <1>2. /\ jt[{}] = 0
        /\ \A s \in SUBSET T : jt[s] \in Nat /\ \A y \in s : jt[s] = g[y] + jt[s \ {y}]
    BY SumAnyOrder
  <1>3. 0 \in N
    <2>1. \A s \in SUBSET S : Cardinality(s) = 0 => s = {}
      BY FS_Subset, FS_EmptySet
    <2> QED BY <1>1, <1>2, <2>1
  <1>4. ASSUME NEW n \in Nat, n \in N PROVE n + 1 \in N
    <2>0. n + 1 \in Nat
      OBVIOUS
    <2>1. SUFFICES ASSUME NEW s \in SUBSET U, Cardinality(s) = n + 1 PROVE it[s] = jt[s]
      BY <2>0, Zenon
    <2>2. PICK y \in s : TRUE
      BY <2>1, FS_EmptySet
    <2>3. s \ {y} \in SUBSET U /\ Cardinality(s \ {y}) = n
      BY <2>1, <2>2, SmallerSubsets
    <2>4. it[s \ {y}] = jt[s \ {y}]
      BY <1>4, <2>3
    <2>5. it[s] = f[y] + it[s \ {y}] /\ jt[s] = g[y] + jt[s \ {y}] /\ f[y] = g[y]
      BY <1>1, <1>2, <2>2
    <2> QED BY <2>4, <2>5
  <1>5. \A n \in Nat : n \in N
    <2> HIDE DEF N
    <2> QED BY <1>3, <1>4, NatInd
  <1>6. U \in SUBSET U /\ Cardinality(U) \in Nat
    BY FS_Subset, FS_CardinalityType
  <1> QED BY <1>5, <1>6

\* What SumFunctionOnSet computes.
LEMMA SumComputes ==
  ASSUME NEW S, IsFiniteSet(S), NEW f, \A x \in S : f[x] \in Nat
  PROVE  \E it, c : Picks(c, S) /\ AddsUp(it, c, f, S) /\ SumFunctionOnSet(f, S) = it[S]
  <1> DEFINE c == [s \in SUBSET S |-> CHOOSE x \in s : TRUE]
             it == CHOOSE iter : AddsUp(iter, c, f, S)
  <1>1. Picks(c, S)
    BY DEF Picks
  <1>2. ASSUME NEW iter
        PROVE  AddsUp(iter, c, f, S) <=>
                   iter = [s \in SUBSET S |-> IF s = {} THEN 0
                               ELSE f[CHOOSE x \in s : TRUE] + iter[s \ {CHOOSE x \in s : TRUE}]]
    BY DEF AddsUp
  <1>3. it = CHOOSE iter : iter = [s \in SUBSET S |-> IF s = {} THEN 0
                               ELSE f[CHOOSE x \in s : TRUE] + iter[s \ {CHOOSE x \in s : TRUE}]]
    BY <1>2
  <1>4. SumFunctionOnSet(f, S) = it[S]
    BY <1>3 DEF SumFunctionOnSet, FoldFunctionOnSet, MapThenFoldSet
  <1> HIDE DEF c
  <1>5. AddsUp(it, c, f, S)
    BY <1>1, SumExists
  <1> QED BY <1>1, <1>4, <1>5

\* A sum is a number and each element contributes once.
LEMMA SumOfParts ==
  ASSUME NEW S, IsFiniteSet(S), NEW f, \A x \in S : f[x] \in Nat
  PROVE  /\ SumFunctionOnSet(f, S) \in Nat
         /\ S = {} => SumFunctionOnSet(f, S) = 0
         /\ \A y \in S : SumFunctionOnSet(f, S) = f[y] + SumFunctionOnSet(f, S \ {y})
  <1>1. PICK it, c : Picks(c, S) /\ AddsUp(it, c, f, S) /\ SumFunctionOnSet(f, S) = it[S]
    BY SumComputes
  <1>2. /\ it[{}] = 0
        /\ \A s \in SUBSET S : it[s] \in Nat /\ \A y \in s : it[s] = f[y] + it[s \ {y}]
    BY <1>1, SumAnyOrder
  <1>3. ASSUME NEW y \in S PROVE SumFunctionOnSet(f, S) = f[y] + SumFunctionOnSet(f, S \ {y})
    <2> DEFINE T == S \ {y}
    <2>1. IsFiniteSet(T) /\ T \in SUBSET S /\ \A x \in T : f[x] \in Nat
      BY FS_Subset
    <2>2. PICK jt, d : Picks(d, T) /\ AddsUp(jt, d, f, T) /\ SumFunctionOnSet(f, T) = jt[T]
      BY <2>1, SumComputes
    <2>3. it[T] = jt[T]
      BY <1>1, <2>1, <2>2, SumsAgree
    <2> QED BY <1>1, <1>2, <2>2, <2>3
  <1> QED BY <1>1, <1>2, <1>3

LEMMA SumOfEquals ==
  ASSUME NEW S, IsFiniteSet(S), NEW f, \A x \in S : f[x] \in Nat, NEW g, \A x \in S : f[x] = g[x]
  PROVE  SumFunctionOnSet(f, S) = SumFunctionOnSet(g, S)
  <1>1. \A x \in S : g[x] \in Nat
    OBVIOUS
  <1>2. PICK it, c : Picks(c, S) /\ AddsUp(it, c, f, S) /\ SumFunctionOnSet(f, S) = it[S]
    BY SumComputes
  <1>3. PICK jt, d : Picks(d, S) /\ AddsUp(jt, d, g, S) /\ SumFunctionOnSet(g, S) = jt[S]
    BY <1>1, SumComputes
  <1> QED BY <1>1, <1>2, <1>3, SumsAgree

\* What is nothing may be left out.
LEMMA SumWithoutZeros ==
  ASSUME NEW S, IsFiniteSet(S), NEW f, \A x \in S : f[x] \in Nat,
         NEW T \in SUBSET S, \A x \in S \ T : f[x] = 0
  PROVE  SumFunctionOnSet(f, S) = SumFunctionOnSet(f, T)
  <1> DEFINE N == {n \in Nat : \A s \in SUBSET S :
                      (T \subseteq s /\ Cardinality(s \ T) = n) =>
                          SumFunctionOnSet(f, s) = SumFunctionOnSet(f, T)}
  <1>1. 0 \in N
    <2>1. ASSUME NEW s \in SUBSET S, T \subseteq s, Cardinality(s \ T) = 0 PROVE s = T
      BY <2>1, FS_Subset, FS_EmptySet
    <2> QED BY <2>1
  <1>2. ASSUME NEW n \in Nat, n \in N PROVE n + 1 \in N
    <2>0. n + 1 \in Nat
      OBVIOUS
    <2>1. SUFFICES ASSUME NEW s \in SUBSET S, T \subseteq s, Cardinality(s \ T) = n + 1
                   PROVE  SumFunctionOnSet(f, s) = SumFunctionOnSet(f, T)
      BY <2>0, Zenon
    <2>2. PICK y \in s \ T : TRUE
      BY <2>1, FS_EmptySet
    <2>3. s \ {y} \in SUBSET S /\ T \subseteq s \ {y} /\ (s \ {y}) \ T = (s \ T) \ {y}
      BY <2>1, <2>2
    <2>4. Cardinality((s \ T) \ {y}) = n
      <3>1. s \ T \in SUBSET S
        OBVIOUS
      <3> QED BY <3>1, <2>1, <2>2, SmallerSubsets
    <2>5. SumFunctionOnSet(f, s \ {y}) = SumFunctionOnSet(f, T)
      BY <1>2, <2>3, <2>4
    <2>6. IsFiniteSet(s) /\ IsFiniteSet(s \ {y}) /\ y \in s /\ f[y] = 0
          /\ \A x \in s \ {y} : f[x] \in Nat
      BY <2>2, <2>3, FS_Subset
    <2>7. SumFunctionOnSet(f, s) = f[y] + SumFunctionOnSet(f, s \ {y})
      BY <2>6, SumOfParts
    <2>8. SumFunctionOnSet(f, s \ {y}) \in Nat
      BY <2>6, SumOfParts
    <2> QED BY <2>5, <2>6, <2>7, <2>8
  <1>3. \A n \in Nat : n \in N
    <2> HIDE DEF N
    <2> QED BY <1>1, <1>2, NatInd
  <1>4. S \in SUBSET S /\ Cardinality(S \ T) \in Nat
    BY FS_Subset, FS_CardinalityType
  <1> QED BY <1>3, <1>4

\* A sum is at least each of its parts.
LEMMA SumCoversEach ==
  ASSUME NEW S, IsFiniteSet(S), NEW f, \A x \in S : f[x] \in Nat, NEW y \in S
  PROVE  f[y] <= SumFunctionOnSet(f, S)
  <1>1. SumFunctionOnSet(f, S) = f[y] + SumFunctionOnSet(f, S \ {y})
    BY SumOfParts
  <1>2. SumFunctionOnSet(f, S \ {y}) \in Nat
    <2>1. IsFiniteSet(S \ {y}) /\ \A x \in S \ {y} : f[x] \in Nat
      BY FS_Subset
    <2> QED BY <2>1, SumOfParts
  <1> QED BY <1>1, <1>2

LEMMA SumOfOne ==
  ASSUME NEW y, NEW f, f[y] \in Nat
  PROVE  SumFunctionOnSet(f, {y}) = f[y]
  <1>1. IsFiniteSet({y}) /\ IsFiniteSet({}) /\ {y} \ {y} = {}
    BY FS_Singleton, FS_EmptySet
  <1>2. SumFunctionOnSet(f, {y}) = f[y] + SumFunctionOnSet(f, {})
    BY <1>1, SumOfParts
  <1>3. SumFunctionOnSet(f, {}) = 0
    BY <1>1, SumOfParts
  <1> QED BY <1>2, <1>3

-------------------------------------------------------------------------------
(* AssetFactory: what is resolved is what was asked for.                       *)

CallRecord ==
    [phase : Phases, as : {"ft", "collection", "item"},
     contract : Contracts \union {Ton, Unknown, Nowhere}, origin : {"TON", "TAC"},
     evm : Contracts \union {Unknown}, object : Nat]

FactoryTypes ==
    /\ bridged \subseteq Contracts
    /\ named \in [Callers -> Seq(Inputs)]
    /\ objects \in Seq(AssetObject)
    /\ done \in [Callers -> Seq(Nat)]
    /\ call \in [Callers -> CallRecord]

\* The calls that stand inside the resolution of an input.
Asking(c) == call[c].phase \notin {"next", "resolved", "rejected"}

Progress ==
    \A c \in Callers :
        /\ Len(done[c]) <= Len(named[c])
        /\ Asking(c) => Len(done[c]) < Len(named[c])
        /\ call[c].phase = "resolved" => Len(done[c]) = Len(named[c])

\* The TAC address of a token that was issued there and is not of the kind that it
\* is asked for as: what is computed for it on TON is nothing.
OtherKind(in, as) ==
    LET x == in.address.contract IN
    in.address.chain = "TAC" /\ NativeOn[x] = "TAC" /\ KindOf[x] # as

\* What a call knows of the contract it asks about.
Lookup(c) ==
    LET x == call[c].contract
        a == Current(c).address
    IN  /\ Asking(c) => ((call[c].as = "collection") <=> (Current(c).index # 0))
        /\ call[c].phase \in {"identify", "inspect", "describe"} => call[c].as # "item"
        /\ call[c].phase = "item" => call[c].as = "item" /\ a # NoAddress
        /\ call[c].phase = "describe" => call[c].as = "ft"
        /\ call[c].phase \in {"inspect", "describe"} =>
               /\ a.contract # Ton
               /\ \/ x = a.contract
                  \/ x = Nowhere /\ (MayMislead(Current(c)) \/ OtherKind(Current(c), call[c].as))
        /\ call[c].phase = "describe" /\ x = Nowhere => call[c].origin = "TAC"
        /\ call[c].phase = "describe" /\ x # Nowhere =>
               /\ call[c].origin = NativeOn[x]
               /\ call[c].origin = "TON" => KindOf[x] = "ft"
        /\ call[c].phase = "describe" => call[c].evm \in {Unknown, x}

\* An object that is, in kind and origin, what an input asks for.
Right(in, o) ==
    \/ o.contract = Wanted(in) /\ o.origin = OriginOf(in.address.contract)
    \/ o.contract = Nowhere /\ MayMislead(in)

\* The kind of an object is that of its contract, and an NFT counts one.
Fits(o) ==
    /\ o.kind = "nft" => o.amount = 1
    /\ o.contract \in Contracts => o.kind = NamedKind(o.contract)
    /\ o.contract = Ton => o.kind = "ton"

\* References stay inside the heap.
Places ==
    /\ \A c \in Callers : \A k \in 1..Len(done[c]) : done[c][k] \in 1..Len(objects)
    /\ \A c \in Callers : /\ call[c].object \in 0..Len(objects)
                          /\ call[c].phase = "returned" => call[c].object # 0
    /\ \A key \in DOMAIN cache : cache[key] \in 1..Len(objects)

\* No object belongs to two entries of the callers' lists, or to an entry and to
\* a call that is about to set its amount.
Owned ==
    /\ \A c, d \in Callers : \A j \in 1..Len(done[c]), k \in 1..Len(done[d]) :
           done[c][j] = done[d][k] => c = d /\ j = k
    /\ \A c, d \in Callers : \A k \in 1..Len(done[d]) :
           call[c].phase = "returned" => done[d][k] # call[c].object
    /\ \A c, d \in Callers :
           call[c].phase = "returned" /\ call[d].phase = "returned" /\ c # d =>
               call[c].object # call[d].object

CacheRight ==
    \A in \in Inputs, as \in {"ft", "collection", "item"} :
        Key(in, as) \in DOMAIN cache => Right(in, objects[cache[Key(in, as)]])

ReturnedRight ==
    \A c \in Callers :
        call[c].phase = "returned" => Right(Current(c), objects[call[c].object])

AmountGiven(in, o) == o.amount = IF o.kind = "nft" THEN 1 ELSE OnChainAmount(in, o)

DoneRight ==
    \A c \in Callers : \A k \in 1..Len(done[c]) :
        /\ Right(named[c][k], objects[done[c][k]])
        /\ AmountGiven(named[c][k], objects[done[c][k]])

Heap ==
    /\ \A r \in 1..Len(objects) : Fits(objects[r])
    /\ Places /\ Owned /\ CacheRight /\ ReturnedRight /\ DoneRight

FactoryInv == FactoryTypes /\ Progress /\ (\A c \in Callers : Lookup(c)) /\ Heap

LEMMA FactoryInvInit == FactoryInit => FactoryInv
  <1> SUFFICES ASSUME FactoryInit PROVE FactoryInv
    OBVIOUS
  <1> USE FactoryAssumption DEF FactoryInit
  <1>1. FactoryTypes
    <2>1. Idle \in CallRecord
      BY DEF Idle, CallRecord, Phases
    <2>2. <<>> \in Seq(Nat) /\ <<>> \in Seq(AssetObject)
      OBVIOUS
    <2> QED BY <2>1, <2>2 DEF FactoryTypes
  <1>2. \A c \in Callers : call[c].phase = "next" /\ call[c].object = 0 /\ Len(done[c]) = 0
    BY DEF Idle
  <1>3. \A c \in Callers : Len(named[c]) \in Nat
    BY <1>1 DEF FactoryTypes
  <1>4. Progress
    BY <1>2, <1>3 DEF Progress, Asking
  <1>5. \A c \in Callers : Lookup(c)
    BY <1>2 DEF Lookup, Asking
  <1>6. Heap
    <2>1. Len(objects) = 0
      OBVIOUS
    <2> QED BY <1>2, <2>1 DEF Heap, Places, Owned, CacheRight, ReturnedRight, DoneRight
  <1> QED BY <1>1, <1>4, <1>5, <1>6 DEF FactoryInv

LEMMA CurrentInput ==
    ASSUME FactoryTypes, NEW c \in Callers, Len(done[c]) < Len(named[c])
    PROVE  Current(c) \in Inputs
  <1>1. named[c] \in Seq(Inputs) /\ done[c] \in Seq(Nat)
    BY DEF FactoryTypes
  <1>2. Len(done[c]) + 1 \in 1..Len(named[c])
    BY <1>1
  <1> QED BY <1>1, <1>2 DEF Current

\* A step that moves one call, leaves the heap alone and hands out nothing.
LEMMA CallMoves ==
    ASSUME FactoryInv, NEW c \in Callers, NEW r \in CallRecord,
           call' = [call EXCEPT ![c] = r], UNCHANGED <<bridged, named, objects, cache, done>>,
           r.phase # "returned", r.object \in 0..Len(objects),
           r.phase = "resolved" => Len(done[c]) = Len(named[c]),
           Asking(c)' => Len(done[c]) < Len(named[c]),
           Lookup(c)'
    PROVE  FactoryInv'
  <1> USE DEF FactoryInv
  <1>1. FactoryTypes'
    BY DEF FactoryTypes
  <1>2. call'[c] = r /\ \A d \in Callers : d # c => call'[d] = call[d]
    BY DEF FactoryTypes
  <1>3. Progress'
    BY <1>2 DEF Progress, Asking
  <1>4. ASSUME NEW d \in Callers PROVE Lookup(d)'
    BY <1>2 DEF Lookup, Asking, Current
  <1>5. \A d \in Callers : call'[d].phase = "returned" => call'[d] = call[d]
    BY <1>2
  <1>6. Places'
    BY <1>2 DEF Places, Heap
  <1>7. Owned'
    BY <1>5 DEF Owned, Heap
  <1>8. CacheRight' /\ DoneRight'
    BY DEF CacheRight, DoneRight, Heap
  <1>9. ReturnedRight'
    BY <1>5 DEF ReturnedRight, Heap, Current
  <1>10. \A k \in 1..Len(objects') : Fits(objects'[k])
    BY DEF Heap
  <1> QED BY <1>1, <1>3, <1>4, <1>6, <1>7, <1>8, <1>9, <1>10 DEF Heap

LEMMA TakeInputInv == ASSUME FactoryInv, NEW c \in Callers, TakeInput(c) PROVE FactoryInv'
  <1> DEFINE r == IF Len(done[c]) = Len(named[c]) THEN [Idle EXCEPT !.phase = "resolved"]
                  ELSE [Idle EXCEPT !.phase = "from",
                                    !.as = IF Current(c).index = 0 THEN "ft" ELSE "collection"]
  <1>1. call' = [call EXCEPT ![c] = r] /\ UNCHANGED <<bridged, named, objects, cache, done>>
    BY DEF TakeInput
  <1>2. /\ r \in CallRecord /\ r.object = 0 /\ r.phase \in {"resolved", "from"}
        /\ r.phase = "resolved" <=> Len(done[c]) = Len(named[c])
        /\ r.phase = "from" => r.as = IF Current(c).index = 0 THEN "ft" ELSE "collection"
    BY DEF Idle, CallRecord, Phases
  <1>3. call'[c] = r
    BY <1>1 DEF FactoryInv, FactoryTypes
  <1> HIDE DEF r
  <1>4. Len(done[c]) <= Len(named[c]) /\ Len(done[c]) \in Nat /\ Len(named[c]) \in Nat
    BY DEF FactoryInv, FactoryTypes, Progress
  <1>5. Lookup(c)'
    BY <1>1, <1>2, <1>3 DEF Lookup, Asking, Current
  <1>6. Asking(c)' => Len(done[c]) < Len(named[c])
    BY <1>2, <1>3, <1>4 DEF Asking
  <1>7. 0 \in 0..Len(objects)
    BY DEF FactoryInv, FactoryTypes
  <1> QED BY <1>1, <1>2, <1>5, <1>6, <1>7, CallMoves

\* A resolution that fails goes on as an item or rejects the list.
LEMMA UnresolvedInv ==
    ASSUME FactoryInv, NEW c \in Callers, Asking(c), Unresolved(c),
           UNCHANGED <<bridged, named, objects, cache, done>>
    PROVE  FactoryInv'
  <1> DEFINE r == IF call[c].as = "ft" /\ ~Current(c).strict
                  THEN [Idle EXCEPT !.as = "item", !.phase = "from"]
                  ELSE [Idle EXCEPT !.phase = "rejected"]
  <1>1. call' = [call EXCEPT ![c] = r]
    BY DEF Unresolved
  <1>2. /\ r \in CallRecord /\ r.object = 0 /\ r.phase \in {"rejected", "from"}
        /\ r.phase = "from" => r.as = "item" /\ call[c].as = "ft"
    BY DEF Idle, CallRecord, Phases
  <1>3. call'[c] = r
    BY <1>1 DEF FactoryInv, FactoryTypes
  <1> HIDE DEF r
  <1>4. Lookup(c)'
    BY <1>2, <1>3 DEF Lookup, Asking, Current, FactoryInv
  <1>5. Len(done[c]) < Len(named[c])
    BY DEF FactoryInv, Progress
  <1>6. 0 \in 0..Len(objects)
    BY DEF FactoryInv, FactoryTypes
  <1> QED BY <1>1, <1>2, <1>4, <1>5, <1>6, CallMoves

\* The calls that wait for an answer go on with what they learned.
LEMMA AskedInv ==
    ASSUME FactoryInv, NEW c \in Callers, Asking(c), NEW r \in CallRecord,
           call' = [call EXCEPT ![c] = r], UNCHANGED <<bridged, named, objects, cache, done>>,
           r.phase \in {"identify", "inspect", "describe", "item"},
           r.object = call[c].object, Lookup(c)'
    PROVE  FactoryInv'
  <1>1. Len(done[c]) < Len(named[c]) /\ call[c].object \in 0..Len(objects)
    BY DEF FactoryInv, Progress, Heap, Places
  <1> QED BY <1>1, CallMoves

\* What a map holds after an entry was added or replaced.
LEMMA EntryAdded ==
    ASSUME NEW old, NEW key, NEW n, NEW new, DOMAIN new = DOMAIN old \union {key},
           \A k \in DOMAIN new : new[k] = IF k = key THEN n ELSE old[k]
    PROVE  \A k \in DOMAIN new : (k = key /\ new[k] = n) \/ (k \in DOMAIN old /\ new[k] = old[k])
  OBVIOUS

\* A new object that is right for the input goes to the caller, and to the cache
\* or not.
LEMMA AppendedInv ==
    ASSUME FactoryInv, NEW c \in Callers, Asking(c), NEW o \in AssetObject, Fits(o),
           Right(Current(c), o),
           objects' = Append(objects, o), Return(c, Len(objects) + 1),
           \A key \in DOMAIN cache' :
               \/ key = Key(Current(c), call[c].as) /\ cache'[key] = Len(objects) + 1
               \/ key \in DOMAIN cache /\ cache'[key] = cache[key],
           UNCHANGED <<bridged, named, done>>
    PROVE  FactoryInv'
  <1> USE DEF FactoryInv
  <1> DEFINE n == Len(objects)
  <1>1. n \in Nat /\ objects \in Seq(AssetObject)
    BY DEF FactoryTypes
  <1>2. /\ objects' \in Seq(AssetObject) /\ Len(objects') = n + 1 /\ objects'[n + 1] = o
        /\ \A r \in 1..n : objects'[r] = objects[r]
    BY <1>1
  <1>3. /\ call' \in [Callers -> CallRecord]
        /\ call'[c].phase = "returned" /\ call'[c].object = n + 1 /\ call'[c].as = call[c].as
        /\ \A d \in Callers : d # c => call'[d] = call[d]
    <2>1. n + 1 \in Nat /\ "returned" \in Phases
      BY <1>1 DEF Phases
    <2> QED BY <2>1, ZenonT(30) DEF Return, FactoryTypes, CallRecord
  <1> HIDE DEF n
  <1>4. FactoryTypes'
    BY <1>2, <1>3 DEF FactoryTypes
  <1>5. Progress'
    BY <1>3 DEF Progress, Asking
  <1>6. ASSUME NEW d \in Callers PROVE Lookup(d)'
    BY <1>3 DEF Lookup, Asking, Current
  <1>7. \A d \in Callers : \A k \in 1..Len(done[d]) : done[d][k] \in 1..n
    BY DEF Heap, Places, n
  <1>8. \A d \in Callers : call[d].object \in 0..n
    BY DEF Heap, Places, n
  <1>9. Places'
    <2>1. \A d \in Callers : \A k \in 1..Len(done'[d]) : done'[d][k] \in 1..Len(objects')
      BY <1>1, <1>2, <1>7
    <2>2. \A d \in Callers : /\ call'[d].object \in 0..Len(objects')
                             /\ call'[d].phase = "returned" => call'[d].object # 0
      <3> TAKE d \in Callers
      <3>1. CASE d = c
        BY <1>1, <1>2, <1>3, <3>1
      <3>2. CASE d # c
        BY <1>1, <1>2, <1>3, <1>8, <3>2 DEF Heap, Places
      <3> QED BY <3>1, <3>2
    <2>3. \A key \in DOMAIN cache' : cache'[key] \in 1..Len(objects')
      <3>1. \A key \in DOMAIN cache : cache[key] \in 1..n
        BY DEF Heap, Places, n
      <3>2. n + 1 \in 1..Len(objects') /\ 1..n \subseteq 1..Len(objects')
        BY <1>1, <1>2
      <3> QED BY <3>1, <3>2 DEF n
    <2> QED BY <2>1, <2>2, <2>3 DEF Places
  <1>10. Owned'
    <2>1. \A d \in Callers : \A k \in 1..Len(done[d]) : done[d][k] # n + 1
      BY <1>1, <1>7
    <2>2. \A d \in Callers : call[d].object # n + 1
      BY <1>1, <1>8
    <2>3. \A d \in Callers : call'[d].phase = "returned" =>
              \/ d = c /\ call'[d].object = n + 1
              \/ d # c /\ call'[d].object = call[d].object /\ call[d].phase = "returned"
      BY <1>3
    <2> QED BY <2>1, <2>2, <2>3 DEF Owned, Heap
  <1>11. CacheRight'
    <2> SUFFICES ASSUME NEW in \in Inputs, NEW as \in {"ft", "collection", "item"},
                        Key(in, as) \in DOMAIN cache'
                 PROVE  Right(in, objects'[cache'[Key(in, as)]])
      BY DEF CacheRight, Right, Wanted, MayMislead, Key
    <2> DEFINE key == Key(in, as)
               mine == Key(Current(c), call[c].as)
    <2>1. \/ key = mine /\ cache'[key] = n + 1
          \/ key \in DOMAIN cache /\ cache'[key] = cache[key]
      BY DEF n
    <2>2. CASE key = mine /\ cache'[key] = n + 1
      <3>1. in.address = Current(c).address /\ in.index = Current(c).index
        BY <2>2 DEF Key
      <3> QED BY <1>2, <2>2, <3>1 DEF Right, Wanted, MayMislead
    <2>3. CASE key \in DOMAIN cache /\ cache'[key] = cache[key]
      <3>1. cache[key] \in 1..n
        BY <2>3 DEF Heap, Places, n
      <3>2. Right(in, objects[cache[key]])
        BY <2>3 DEF Heap, CacheRight
      <3>3. objects'[cache'[key]] = objects[cache[key]]
        BY <1>2, <2>3, <3>1
      <3> QED BY <3>2, <3>3
    <2> QED BY <2>1, <2>2, <2>3
  <1>12. ReturnedRight'
    <2> SUFFICES ASSUME NEW d \in Callers, call'[d].phase = "returned"
                 PROVE  Right(Current(d), objects'[call'[d].object])
      BY DEF ReturnedRight, Right, Current, Wanted, MayMislead
    <2>1. CASE d = c
      BY <1>2, <1>3, <2>1
    <2>2. CASE d # c
      <3>1. call[d].phase = "returned" /\ call'[d].object = call[d].object
        BY <1>3, <2>2
      <3>2. call[d].object \in 1..n
        BY <1>1, <1>8, <3>1 DEF Heap, Places
      <3> QED BY <1>2, <3>1, <3>2 DEF Heap, ReturnedRight
    <2> QED BY <2>1, <2>2
  <1>13. DoneRight'
    <2> SUFFICES ASSUME NEW d \in Callers, NEW k \in 1..Len(done[d])
                 PROVE  /\ Right(named[d][k], objects'[done[d][k]])
                        /\ AmountGiven(named[d][k], objects'[done[d][k]])
      BY ZenonT(30) DEF DoneRight, Right, Wanted, MayMislead, AmountGiven, OnChainAmount
    <2>1. objects'[done[d][k]] = objects[done[d][k]]
      BY <1>2, <1>7
    <2> QED BY <2>1 DEF Heap, DoneRight
  <1>14. \A r \in 1..Len(objects') : Fits(objects'[r])
    <2> TAKE r \in 1..Len(objects')
    <2>1. CASE r = n + 1
      BY <1>2, <2>1
    <2>2. CASE r # n + 1
      <3>1. r \in 1..n
        BY <1>1, <1>2, <2>2
      <3> QED BY <1>2, <3>1 DEF Heap, n
    <2> QED BY <2>1, <2>2
  <1> QED BY <1>4, <1>5, <1>6, <1>9, <1>10, <1>11, <1>12, <1>13, <1>14 DEF Heap, Fits

\* The object that was made is right for the input: it goes to the cache too.
LEMMA CreatedInv ==
    ASSUME FactoryInv, NEW c \in Callers, Asking(c), NEW o \in AssetObject, Fits(o),
           Right(Current(c), o), Created(c, o), UNCHANGED <<bridged, named, done>>
    PROVE  FactoryInv'
  <1>1. DOMAIN cache' = DOMAIN cache \union {Key(Current(c), call[c].as)}
    BY DEF Created
  <1>2. \A k \in DOMAIN cache' :
            cache'[k] = IF k = Key(Current(c), call[c].as) THEN Len(objects) + 1 ELSE cache[k]
    BY DEF Created
  <1>3. objects' = Append(objects, o) /\ Return(c, Len(objects) + 1)
    BY DEF Created
  <1>4. \A k \in DOMAIN cache' :
            \/ k = Key(Current(c), call[c].as) /\ cache'[k] = Len(objects) + 1
            \/ k \in DOMAIN cache /\ cache'[k] = cache[k]
    BY <1>1, <1>2, EntryAdded, Zenon
  <1> QED BY <1>3, <1>4, AppendedInv

LEMMA HitInv ==
    ASSUME FactoryInv, NEW c \in Callers, Asking(c), Key(Current(c), call[c].as) \in DOMAIN cache,
           Hit(c, cache[Key(Current(c), call[c].as)]), UNCHANGED <<bridged, named, cache, done>>
    PROVE  FactoryInv'
  <1> DEFINE r == cache[Key(Current(c), call[c].as)]
             o == WithAmount(objects[r], 0)
  <1>1. r \in 1..Len(objects)
    BY DEF FactoryInv, Heap, Places
  <1>2. objects[r] \in AssetObject /\ Fits(objects[r])
    BY <1>1 DEF FactoryInv, FactoryTypes, Heap
  <1>3. Current(c) \in Inputs /\ call[c].as \in {"ft", "collection", "item"}
    BY CurrentInput DEF FactoryInv, FactoryTypes, Progress, CallRecord
  <1>4. Right(Current(c), objects[r])
    BY <1>3 DEF FactoryInv, Heap, CacheRight
  <1>5. objects' = Append(objects, o) /\ Return(c, Len(objects) + 1)
    BY DEF Hit
  <1> HIDE DEF r
  <1>6. o \in AssetObject /\ Fits(o) /\ Right(Current(c), o)
    BY <1>2, <1>4 DEF WithAmount, AssetObject, Fits, Right
  <1> HIDE DEF o
  <1>7. \A key \in DOMAIN cache' : key \in DOMAIN cache /\ cache'[key] = cache[key]
    OBVIOUS
  <1> QED BY <1>5, <1>6, <1>7, AppendedInv

LEMMA FromInv == ASSUME FactoryInv, NEW c \in Callers, From(c) PROVE FactoryInv'
  <1>1. call[c].phase = "from" /\ Asking(c) /\ UNCHANGED <<bridged, named, cache, done>>
    BY DEF From, Asking
  <1>2. Current(c) \in Inputs /\ call[c].as \in {"ft", "collection", "item"}
    BY <1>1, CurrentInput DEF FactoryInv, FactoryTypes, Progress, CallRecord
  <1>3. CASE Current(c).address = NoAddress
    <2>1. CASE call[c].as = "ft"
      <3>1. objects' = Append(objects, NewTon) /\ Return(c, Len(objects) + 1)
        BY <1>3, <2>1 DEF From
      <3>2. NewTon \in AssetObject /\ Fits(NewTon)
        BY FactoryAssumption DEF NewTon, AssetObject, Fits, Ton, Nowhere, Unknown
      <3>3. Right(Current(c), NewTon)
        <4>1. Current(c).index = 0 /\ Current(c).address.contract = Ton
          BY <1>1, <1>2, <1>3, <2>1 DEF FactoryInv, Lookup, Inputs, NoAddress, Address
        <4> QED BY <4>1 DEF Right, Wanted, OriginOf, NewTon
      <3>4. \A key \in DOMAIN cache' : key \in DOMAIN cache /\ cache'[key] = cache[key]
        BY <1>1
      <3> QED BY <1>1, <3>1, <3>2, <3>3, <3>4, AppendedInv
    <2>2. CASE call[c].as # "ft"
      <3>1. Unresolved(c) /\ UNCHANGED objects
        BY <1>3, <2>2 DEF From
      <3> QED BY <1>1, <3>1, UnresolvedInv
    <2> QED BY <2>1, <2>2
  <1>4. CASE Current(c).address # NoAddress /\ Key(Current(c), call[c].as) \in DOMAIN cache
    <2>1. Hit(c, cache[Key(Current(c), call[c].as)])
      BY <1>4 DEF From
    <2> QED BY <1>1, <1>4, <2>1, HitInv
  <1>5. CASE Current(c).address # NoAddress /\ Key(Current(c), call[c].as) \notin DOMAIN cache
    <2> DEFINE phase == IF call[c].as = "item" THEN "item" ELSE "identify"
               r == [call[c] EXCEPT !.phase = phase]
    <2>1. Enter(c, phase) /\ UNCHANGED objects
      BY <1>5 DEF From
    <2>2. call[c] \in CallRecord
      BY DEF FactoryInv, FactoryTypes
    <2>3. call' = [call EXCEPT ![c] = r]
      BY <2>1, <2>2 DEF Enter, FactoryInv, FactoryTypes, CallRecord
    <2>4. r \in CallRecord /\ r.phase = phase /\ r.object = call[c].object /\ r.as = call[c].as
      BY <2>2 DEF CallRecord, Phases
    <2>5. call'[c] = r
      BY <2>3 DEF FactoryInv, FactoryTypes
    <2> HIDE DEF r
    <2>6. Lookup(c)'
      BY <1>1, <1>5, <2>4, <2>5 DEF Lookup, Asking, Current, FactoryInv
    <2> QED BY <1>1, <2>1, <2>3, <2>4, <2>6, AskedInv
  <1> QED BY <1>3, <1>4, <1>5

\* What the steps that wait for an answer know already.
LEMMA AskedKnows ==
    ASSUME FactoryInv, NEW c \in Callers,
           call[c].phase \in {"identify", "inspect", "describe", "item"}
    PROVE  /\ Asking(c) /\ Lookup(c) /\ Current(c) \in Inputs /\ call[c] \in CallRecord
           /\ Current(c).address.contract \in Contracts \union {Ton}
           /\ Current(c).address.chain \in {"TON", "TAC"} /\ Current(c).index \in Nat
  <1>1. Asking(c)
    BY DEF Asking
  <1>2. Current(c) \in Inputs
    BY <1>1, CurrentInput DEF FactoryInv, Progress
  <1> QED BY <1>1, <1>2 DEF FactoryInv, FactoryTypes, Inputs

\* Copies, a set of jettons issued on TON.
LEMMA CopiesFromTon == \A x \in Copies : x \in Contracts /\ KindOf[x] = "ft" /\ NativeOn[x] = "TON"
  BY FactoryAssumption DEF FTs

LEMMA IdentifyInv == ASSUME FactoryInv, NEW c \in Callers, Identify(c) PROVE FactoryInv'
  <1> DEFINE a == Current(c).address
  <1>1. call[c].phase = "identify" /\ UNCHANGED <<bridged, named, done>>
    BY DEF Identify
  <1>2. /\ Asking(c) /\ Lookup(c) /\ Current(c) \in Inputs /\ call[c] \in CallRecord
        /\ a.contract \in Contracts \union {Ton} /\ a.chain \in {"TON", "TAC"}
    BY <1>1, AskedKnows
  <1>3. CASE a.contract = Ton /\ call[c].as = "ft"
    <2>1. Created(c, NewTon)
      BY <1>3 DEF Identify
    <2>2. NewTon \in AssetObject /\ Fits(NewTon)
      BY FactoryAssumption DEF NewTon, AssetObject, Fits, Ton, Nowhere, Unknown
    <2>3. Right(Current(c), NewTon)
      BY <1>2, <1>3 DEF Lookup, Right, Wanted, OriginOf, NewTon
    <2> QED BY <1>1, <1>2, <2>1, <2>2, <2>3, CreatedInv
  <1>4. CASE a.contract = Ton /\ call[c].as # "ft"
    <2>1. Unresolved(c) /\ UNCHANGED <<objects, cache>>
      BY <1>4 DEF Identify
    <2> QED BY <1>1, <1>2, <2>1, UnresolvedInv
  <1>5. CASE a.contract # Ton
    <2> DEFINE x == IF a.chain = "TON" THEN a.contract ELSE TvmAddress(a.contract, call[c].as)
               r == [call[c] EXCEPT !.phase = "inspect", !.contract = x]
    <2>1. call' = [call EXCEPT ![c] = r] /\ UNCHANGED <<objects, cache>>
      BY <1>2, <1>5 DEF Identify, FactoryInv, FactoryTypes, CallRecord
    <2>2. \/ x = a.contract
          \/ x = Nowhere /\ (MayMislead(Current(c)) \/ OtherKind(Current(c), call[c].as))
      <3>1. a.contract \in Contracts /\ NativeOn[a.contract] \in {"TON", "TAC"}
        BY <1>2, <1>5, FactoryAssumption
      <3> QED BY <1>2, <1>5, <3>1 DEF TvmAddress, MayMislead, OtherKind
    <2>3. x \in Contracts \union {Nowhere}
      BY <1>2, <1>5 DEF TvmAddress
    <2> HIDE DEF x
    <2>4. /\ r \in CallRecord /\ r.phase = "inspect" /\ r.contract = x /\ r.as = call[c].as
          /\ r.object = call[c].object
      BY <1>2, <2>3 DEF CallRecord, Phases
    <2>5. call'[c] = r
      BY <2>1 DEF FactoryInv, FactoryTypes
    <2> HIDE DEF r
    <2>6. Lookup(c)'
      BY <1>1, <1>2, <1>5, <2>2, <2>4, <2>5 DEF Lookup, Asking, Current, MayMislead, OtherKind
    <2> QED BY <1>1, <1>2, <2>1, <2>4, <2>6, AskedInv
  <1> QED BY <1>3, <1>4, <1>5

\* The origin that is read off the code is the true one, whatever is bridged.
LEMMA InspectedRight ==
    ASSUME NEW x \in Contracts
    PROVE  /\ Inspected(x).origin \in {"TON", "TAC"} /\ Inspected(x).evm \in {Unknown, x}
           /\ (KindOf[x] = "ft" \/ Inspected(x).origin = "TAC") => Inspected(x).origin = NativeOn[x]
  <1>1. NativeOn[x] \in {"TON", "TAC"} /\ x # Nowhere
    BY FactoryAssumption
  <1>2. x \in Copies => KindOf[x] = "ft" /\ NativeOn[x] = "TON"
    BY CopiesFromTon
  <1>3. CodeAt(x) \in {"none", "ccl", "own"}
    BY DEF CodeAt
  <1>4. CodeAt(x) = "none" => NativeOn[x] = "TAC"
    BY <1>1 DEF CodeAt
  <1>5. CodeAt(x) = "ccl" => NativeOn[x] = "TAC" \/ x \in Copies
    BY <1>1 DEF CodeAt
  <1>6. CodeAt(x) = "own" => NativeOn[x] = "TON"
    BY <1>1 DEF CodeAt
  <1> QED BY <1>1, <1>2, <1>3, <1>4, <1>5, <1>6 DEF Inspected

LEMMA InspectFTInv == ASSUME FactoryInv, NEW c \in Callers, InspectFT(c) PROVE FactoryInv'
  <1> DEFINE x == call[c].contract
             found == Inspected(x)
  <1>1. call[c].phase = "inspect" /\ call[c].as = "ft"
        /\ UNCHANGED <<bridged, named, objects, cache, done>>
    BY DEF InspectFT
  <1>2. /\ Asking(c) /\ Lookup(c) /\ Current(c) \in Inputs /\ call[c] \in CallRecord
        /\ Current(c).address.contract \in Contracts \union {Ton}
    BY <1>1, AskedKnows
  <1>3. x \in Contracts \/ x = Nowhere
    BY <1>1, <1>2 DEF Lookup
  <1>4. CASE found.origin = "TON" /\ KindOf[x] # "ft"
    BY <1>1, <1>2, <1>4, UnresolvedInv DEF InspectFT
  <1>5. CASE ~(found.origin = "TON" /\ KindOf[x] # "ft")
    <2> DEFINE r == [call[c] EXCEPT !.phase = "describe", !.origin = found.origin,
                                    !.evm = found.evm]
    <2>1. call' = [call EXCEPT ![c] = r]
      BY <1>2, <1>5 DEF InspectFT, FactoryInv, FactoryTypes, CallRecord
    <2>2. /\ found.origin \in {"TON", "TAC"} /\ found.evm \in Contracts \union {Unknown}
          /\ found.evm \in {Unknown, x} /\ (x = Nowhere => found.origin = "TAC")
      <3>1. CASE x = Nowhere
        BY <3>1 DEF Inspected, CodeAt
      <3>2. CASE x \in Contracts
        BY <3>2, InspectedRight, FactoryAssumption
      <3> QED BY <1>3, <3>1, <3>2
    <2>3. x # Nowhere => /\ found.origin = NativeOn[x]
                         /\ found.origin = "TON" => KindOf[x] = "ft"
      BY <1>3, <1>5, <2>2, InspectedRight
    <2> HIDE DEF found
    <2>4. /\ r \in CallRecord /\ r.phase = "describe" /\ r.contract = x /\ r.as = call[c].as
          /\ r.object = call[c].object /\ r.origin = found.origin /\ r.evm = found.evm
      BY <1>2, <2>2 DEF CallRecord, Phases
    <2>5. call'[c] = r
      BY <2>1 DEF FactoryInv, FactoryTypes
    <2> HIDE DEF r
    <2>6. Lookup(c)'
      BY <1>1, <1>2, <2>2, <2>3, <2>4, <2>5 DEF Lookup, Asking, Current, MayMislead, OtherKind
    <2> QED BY <1>1, <1>2, <2>1, <2>4, <2>6, AskedInv
  <1> QED BY <1>4, <1>5

LEMMA DescribeFTInv == ASSUME FactoryInv, NEW c \in Callers, DescribeFT(c) PROVE FactoryInv'
  <1> DEFINE x == call[c].contract
             a == Current(c).address
             evm == IF call[c].origin = "TAC" THEN EvmOf(c)
                    ELSE IF a.chain = "TAC" THEN a.contract ELSE Unknown
  <1>1. call[c].phase = "describe" /\ UNCHANGED <<bridged, named, done>>
    BY DEF DescribeFT
  <1>2. /\ Asking(c) /\ Lookup(c) /\ Current(c) \in Inputs /\ call[c] \in CallRecord
        /\ a.contract \in Contracts \union {Ton} /\ a.chain \in {"TON", "TAC"}
    BY <1>1, AskedKnows
  <1>3. /\ a.contract \in Contracts
        /\ \/ x = a.contract
           \/ x = Nowhere /\ (MayMislead(Current(c)) \/ OtherKind(Current(c), call[c].as))
        /\ call[c].origin \in {"TON", "TAC"} /\ call[c].evm \in {Unknown, x}
        /\ Current(c).index = 0 /\ call[c].as = "ft"
        /\ x = Nowhere => call[c].origin = "TAC"
        /\ x # Nowhere => /\ call[c].origin = NativeOn[x]
                          /\ call[c].origin = "TON" => KindOf[x] = "ft"
    BY <1>1, <1>2 DEF Lookup, CallRecord
  <1>4. CASE call[c].origin = "TAC" /\ (evm = Nowhere \/ KindOf[evm] # "ft" \/ ~OnTac(evm))
    <2>1. Unresolved(c) /\ UNCHANGED <<objects, cache>>
      BY <1>4 DEF DescribeFT
    <2> QED BY <1>1, <1>2, <2>1, UnresolvedInv
  <1>5. CASE ~(call[c].origin = "TAC" /\ (evm = Nowhere \/ KindOf[evm] # "ft" \/ ~OnTac(evm)))
    <2>1. PICK m \in {1, Multiplier} : Created(c, NewFT(x, call[c].origin, evm, m))
      BY <1>5 DEF DescribeFT
    <2>2. evm \in Contracts \union {Unknown, Nowhere}
      BY <1>3 DEF EvmOf
    <2>3. x # Nowhere => KindOf[x] = "ft"
      <3> SUFFICES ASSUME x # Nowhere, call[c].origin = "TAC" PROVE KindOf[x] = "ft"
        BY <1>3
      <3>1. KindOf[evm] = "ft" /\ evm # Nowhere /\ evm = EvmOf(c)
        BY <1>5
      <3>2. evm = x \/ KindOf[x] = "ft"
        BY <1>3, <3>1 DEF EvmOf
      <3> QED BY <3>1, <3>2
    <2> DEFINE o == NewFT(x, call[c].origin, evm, m)
    <2>4. /\ x \in Contracts \union {Nowhere} /\ x # Ton /\ Nowhere \notin Contracts
          /\ Multiplier \in Nat
      BY <1>3, FactoryAssumption DEF Ton, Nowhere
    <2>a. x = a.contract \/ (x = Nowhere /\ MayMislead(Current(c)))
      <3> SUFFICES ASSUME x = Nowhere, OtherKind(Current(c), call[c].as) PROVE FALSE
        BY <1>3
      <3>1. evm = a.contract /\ KindOf[a.contract] # "ft" /\ call[c].origin = "TAC"
        BY <1>3 DEF OtherKind, EvmOf
      <3> QED BY <1>5, <3>1
    <2> HIDE DEF evm
    <2>5. o \in AssetObject
      BY <1>3, <2>2, <2>4 DEF NewFT, AssetObject
    <2>6. Fits(o)
      BY <2>3, <2>4 DEF NewFT, Fits, NamedKind
    <2>7. Right(Current(c), o)
      BY <1>3, <2>4, <2>a, FactoryAssumption DEF NewFT, Right, Wanted, OriginOf
    <2> QED BY <1>1, <1>2, <2>1, <2>5, <2>6, <2>7, CreatedInv
  <1> QED BY <1>4, <1>5

\* The item that a computation or a collection names is one of that collection.
LEMMA ItemOfType == \A x, n : /\ ItemOf(x, n) \in Items \union {Nowhere}
                              /\ x \notin Contracts => ItemOf(x, n) = Nowhere
  <1> TAKE x, n
  <1> DEFINE items == {i \in Items : CollectionOf[i] = x /\ IndexOf[i] = n}
  <1>1. CASE items = {}
    BY <1>1 DEF ItemOf
  <1>2. CASE items # {}
    <2>1. ItemOf(x, n) \in items
      BY <1>2 DEF ItemOf
    <2>2. CollectionOf[ItemOf(x, n)] \in Contracts
      BY <2>1, FactoryAssumption
    <2> QED BY <2>1, <2>2
  <1> QED BY <1>1, <1>2

LEMMA InspectCollectionInv ==
    ASSUME FactoryInv, NEW c \in Callers, InspectCollection(c) PROVE FactoryInv'
  <1> DEFINE x == call[c].contract
             a == Current(c).address
             origin == IF CodeAt(x) = "own" \/ (CodeAt(x) = "ccl" /\ KindOf[x] = "ft")
                       THEN "TON" ELSE "TAC"
             item == ItemOf(x, Current(c).index)
             evm == IF a.chain = "TAC" THEN a.contract ELSE Unknown
  <1>1. call[c].phase = "inspect" /\ call[c].as = "collection" /\ UNCHANGED <<bridged, named, done>>
    BY DEF InspectCollection
  <1>2. /\ Asking(c) /\ Lookup(c) /\ Current(c) \in Inputs /\ call[c] \in CallRecord
        /\ a.contract \in Contracts \union {Ton} /\ a.chain \in {"TON", "TAC"}
    BY <1>1, AskedKnows
  <1>3. /\ a.contract \in Contracts
        /\ \/ x = a.contract
           \/ x = Nowhere /\ (MayMislead(Current(c)) \/ OtherKind(Current(c), call[c].as))
        /\ Current(c).index # 0
    BY <1>1, <1>2 DEF Lookup
  <1>4a. a.contract # Ton
    BY <1>3, FactoryAssumption
  <1>4. CASE origin = "TON" /\ KindOf[x] # "collection"
    <2>1. Unresolved(c) /\ UNCHANGED <<objects, cache>>
      BY <1>4 DEF InspectCollection
    <2> QED BY <1>1, <1>2, <2>1, UnresolvedInv
  <1>5. CASE ~(origin = "TON" /\ KindOf[x] # "collection")
    <2>1. Created(c, NewNFT(item, x, origin, evm))
      BY <1>5 DEF InspectCollection
    <2>2. x = a.contract => origin = NativeOn[x]
      <3> SUFFICES ASSUME x = a.contract PROVE origin = NativeOn[x]
        OBVIOUS
      <3>1. x \in Contracts /\ NativeOn[x] \in {"TON", "TAC"} /\ x # Nowhere
        BY <1>3, FactoryAssumption
      <3>2. x \in Copies => KindOf[x] = "ft"
        BY CopiesFromTon
      <3>3. (CodeAt(x) = "own" \/ (CodeAt(x) = "ccl" /\ KindOf[x] = "ft")) => KindOf[x] = "collection"
        BY <1>5
      <3>4. CASE NativeOn[x] = "TAC"
        BY <3>1, <3>3, <3>4 DEF CodeAt
      <3>5. CASE NativeOn[x] = "TON"
        BY <3>1, <3>2, <3>5 DEF CodeAt
      <3> QED BY <3>1, <3>4, <3>5
    <2>3. /\ item \in Contracts \union {Nowhere}
          /\ item \in Contracts => KindOf[item] = "item"
          /\ x = Nowhere => item = Nowhere
          /\ item # Ton
      BY ItemOfType, FactoryAssumption DEF Items, Ton, Nowhere
    <2>4. origin \in {"TON", "TAC"} /\ evm \in Contracts \union {Unknown}
          /\ x \in Contracts \union {Nowhere} /\ Len(objects) + 1 \in Nat
      BY <1>2, <1>3 DEF FactoryInv, FactoryTypes
    <2>a. ASSUME x = Nowhere, OtherKind(Current(c), call[c].as)
          PROVE  item = Wanted(Current(c)) /\ origin = OriginOf(a.contract)
      <3>1. item = Nowhere /\ origin = "TAC" /\ NativeOn[a.contract] = "TAC"
        BY <2>3, <2>a DEF OtherKind, CodeAt
      <3>2. KindOf[a.contract] # "collection"
        BY <1>1, <2>a DEF OtherKind
      <3>3. ItemOf(a.contract, Current(c).index) = Nowhere
        BY <3>2, FactoryAssumption DEF ItemOf
      <3>4. Wanted(Current(c)) = Nowhere /\ OriginOf(a.contract) = "TAC"
        BY <1>3, <1>4a, <3>1, <3>3 DEF Wanted, OriginOf
      <3> QED BY <3>1, <3>4
    <2>b. ASSUME x = a.contract
          PROVE  item = Wanted(Current(c)) /\ origin = OriginOf(a.contract)
      <3>1. item = Wanted(Current(c))
        BY <1>3, <2>b DEF Wanted
      <3>2. origin = OriginOf(a.contract)
        BY <1>3, <1>4a, <2>2, <2>b DEF OriginOf
      <3> QED BY <3>1, <3>2
    <2>5. \/ item = Wanted(Current(c)) /\ origin = OriginOf(a.contract)
          \/ item = Nowhere /\ MayMislead(Current(c))
      BY <1>3, <2>3, <2>a, <2>b
    <2> DEFINE o == NewNFT(item, x, origin, evm)
    <2> HIDE DEF origin, item, evm
    <2>6. o \in AssetObject
      BY <2>3, <2>4 DEF NewNFT, AssetObject
    <2>7. Fits(o)
      BY <2>3 DEF NewNFT, Fits, NamedKind
    <2>8. Right(Current(c), o)
      BY <2>5 DEF NewNFT, Right
    <2> QED BY <1>1, <1>2, <2>1, <2>6, <2>7, <2>8, CreatedInv
  <1> QED BY <1>4, <1>5

LEMMA ResolveItemInv == ASSUME FactoryInv, NEW c \in Callers, ResolveItem(c) PROVE FactoryInv'
  <1> DEFINE a == Current(c).address
             x == a.contract
  <1>1. call[c].phase = "item" /\ UNCHANGED <<bridged, named, done>>
    BY DEF ResolveItem
  <1>2. /\ Asking(c) /\ Lookup(c) /\ Current(c) \in Inputs /\ call[c] \in CallRecord
        /\ x \in Contracts \union {Ton} /\ a.chain \in {"TON", "TAC"}
    BY <1>1, AskedKnows
  <1>3. CASE a.chain = "TAC" \/ KindOf[x] # "item" \/ CodeAt(x) = "none"
    <2>1. Unresolved(c) /\ UNCHANGED <<objects, cache>>
      BY <1>3 DEF ResolveItem
    <2> QED BY <1>1, <1>2, <2>1, UnresolvedInv
  <1>4. CASE ~(a.chain = "TAC" \/ KindOf[x] # "item" \/ CodeAt(x) = "none")
    <2> DEFINE origin == IF CodeAt(x) = "ccl" THEN "TAC" ELSE "TON"
               o == NewNFT(x, CollectionOf[x], origin, Unknown)
    <2>1. Created(c, o)
      BY <1>4 DEF ResolveItem
    <2>2. x \in Contracts /\ KindOf[x] = "item" /\ x # Ton /\ x # Nowhere /\ Current(c).index = 0
      <3>1. a # NoAddress /\ Current(c).index = 0
        BY <1>1, <1>2 DEF Lookup
      <3>2. x # Ton
        BY <1>2, <1>4, <3>1 DEF NoAddress, Address, Inputs
      <3> QED BY <1>2, <1>4, <3>1, <3>2, FactoryAssumption
    <2>3. NativeOn[x] \in {"TON", "TAC"} /\ x \notin Copies /\ CollectionOf[x] \in Contracts
      BY <2>2, FactoryAssumption, CopiesFromTon DEF Items
    <2>4. origin = NativeOn[x]
      BY <1>4, <2>2, <2>3 DEF CodeAt
    <2> HIDE DEF origin
    <2>5. o \in AssetObject
      <3>1. Len(objects) + 1 \in Nat
        BY DEF FactoryInv, FactoryTypes
      <3> QED BY <2>2, <2>3, <2>4, <3>1 DEF NewNFT, AssetObject
    <2>6. Fits(o)
      BY <2>2 DEF NewNFT, Fits, NamedKind
    <2>7. Right(Current(c), o)
      BY <2>2, <2>4 DEF NewNFT, Right, Wanted, OriginOf
    <2> QED BY <1>1, <1>2, <2>1, <2>5, <2>6, <2>7, CreatedInv
  <1> QED BY <1>3, <1>4

LEMMA RequestFailsInv ==
    ASSUME FactoryInv, NEW c \in Callers, RequestFails(c) PROVE FactoryInv'
  <1>1. Asking(c) /\ Unresolved(c) /\ UNCHANGED <<bridged, named, objects, cache, done>>
    BY DEF RequestFails, Asking
  <1> QED BY <1>1, UnresolvedInv

\* An object that differs in its amount or remembered address stays right.
SameAsset(o, p) == /\ p.kind = o.kind /\ p.contract = o.contract /\ p.origin = o.origin
                   /\ p.multiplier = o.multiplier

LEMMA SameRight ==
    ASSUME NEW in, NEW o, NEW p, SameAsset(o, p), Right(in, o) PROVE Right(in, p)
  BY DEF SameAsset, Right

LEMMA RoundingType ==
    ASSUME NEW n \in Nat, NEW m \in Nat \ {0} PROVE FromDisplay(n, m) \in Nat
  <1>1. m \div 2 \in Nat
    OBVIOUS
  <1>2. n + m \div 2 \in Nat
    BY <1>1
  <1> QED BY <1>2 DEF FromDisplay

LEMMA TakeAmountInv ==
    ASSUME FactoryInv, NEW c \in Callers, TakeAmount(c) PROVE FactoryInv'
  <1> DEFINE r == call[c].object
             o == objects[r]
             w == WithAmount(o, OnChainAmount(Current(c), o))
             n == Len(done[c]) + 1
  <1>1. call[c].phase = "returned" /\ Asking(c) /\ UNCHANGED <<bridged, named, cache>>
    BY DEF TakeAmount, Asking
  <1>2. /\ named[c] \in Seq(Inputs) /\ done[c] \in Seq(Nat) /\ Len(done[c]) < Len(named[c])
        /\ Current(c) \in Inputs /\ n \in 1..Len(named[c]) /\ Current(c) = named[c][n]
    <2>1. Len(done[c]) < Len(named[c]) /\ named[c] \in Seq(Inputs) /\ done[c] \in Seq(Nat)
      BY <1>1 DEF FactoryInv, FactoryTypes, Progress
    <2>2. Current(c) \in Inputs
      BY <2>1, CurrentInput DEF FactoryInv
    <2> QED BY <2>1, <2>2 DEF Current
  <1>3. /\ r \in 1..Len(objects) /\ objects \in Seq(AssetObject)
        /\ o \in AssetObject /\ Fits(o) /\ Right(Current(c), o)
    BY <1>1 DEF FactoryInv, FactoryTypes, Heap, Places, ReturnedRight
  <1>4. CASE call[c].as = "ft" /\ Current(c).amount = 0 /\ ~Current(c).strict
    <2> DEFINE k == [Idle EXCEPT !.phase = "rejected"]
    <2>1. call' = [call EXCEPT ![c] = k] /\ UNCHANGED <<objects, done>>
      BY <1>4 DEF TakeAmount
    <2>2. k \in CallRecord /\ k.phase = "rejected" /\ k.object = 0
      BY DEF Idle, CallRecord, Phases
    <2>3. call'[c] = k
      BY <2>1 DEF FactoryInv, FactoryTypes
    <2> HIDE DEF k
    <2>4. Lookup(c)' /\ ~Asking(c)'
      BY <2>2, <2>3 DEF Lookup, Asking
    <2>5. k.object \in 0..Len(objects)
      BY <1>3, <2>2
    <2> QED BY <1>1, <2>1, <2>2, <2>4, <2>5, CallMoves
  <1>5. CASE ~(call[c].as = "ft" /\ Current(c).amount = 0 /\ ~Current(c).strict)
    <2>1. /\ objects' = [objects EXCEPT ![r] = w] /\ done' = [done EXCEPT ![c] = Append(done[c], r)]
          /\ call' = [call EXCEPT ![c] = Idle]
      BY <1>5 DEF TakeAmount, SetAmount
    <2>2. OnChainAmount(Current(c), o) \in Nat
      <3>1. Current(c).amount \in Nat
        BY <1>2 DEF Inputs
      <3>2. o.multiplier \in Nat \ {0}
        <4>1. o.multiplier \in {1, Multiplier}
          BY <1>3 DEF AssetObject
        <4> QED BY <4>1, FactoryAssumption
      <3> QED BY <3>1, <3>2, RoundingType DEF OnChainAmount
    <2>3. /\ w \in AssetObject /\ Fits(w) /\ Right(Current(c), w)
          /\ AmountGiven(Current(c), w) /\ SameAsset(o, w)
      <3> HIDE DEF o
      <3>1. o.kind \in {"ton", "ft", "nft"}
        BY <1>3 DEF AssetObject
      <3>2. w \in AssetObject
        BY <1>3, <2>2 DEF WithAmount, AssetObject
      <3>3. /\ w.kind = o.kind /\ w.contract = o.contract /\ w.origin = o.origin
            /\ w.multiplier = o.multiplier
            /\ o.kind = "nft" => w.amount = o.amount
            /\ o.kind # "nft" => w.amount = OnChainAmount(Current(c), o)
        BY <1>3 DEF WithAmount, AssetObject
      <3> HIDE DEF w
      <3>4. Fits(w) /\ Right(Current(c), w)
        BY <1>3, <3>3 DEF Fits, Right
      <3>5. AmountGiven(Current(c), w)
        BY <1>3, <3>3 DEF AmountGiven, OnChainAmount, Fits
      <3> QED BY <3>2, <3>3, <3>4, <3>5 DEF SameAsset
    <2> HIDE DEF w
    <2>4. /\ objects' \in Seq(AssetObject) /\ Len(objects') = Len(objects) /\ objects'[r] = w
          /\ \A j \in 1..Len(objects) : j # r => objects'[j] = objects[j]
      BY <1>3, <2>1, <2>3
    <2>5. /\ done' \in [Callers -> Seq(Nat)] /\ Len(done'[c]) = n /\ done'[c][n] = r
          /\ \A k \in 1..Len(done[c]) : done'[c][k] = done[c][k]
          /\ \A d \in Callers : d # c => done'[d] = done[d]
      BY <1>2, <1>3, <2>1 DEF FactoryInv, FactoryTypes
    <2>6. call' \in [Callers -> CallRecord] /\ call'[c] = Idle
          /\ \A d \in Callers : d # c => call'[d] = call[d]
      <3>1. Idle \in CallRecord
        BY DEF Idle, CallRecord, Phases
      <3> QED BY <2>1, <3>1 DEF FactoryInv, FactoryTypes
    <2>7. Idle.phase = "next" /\ Idle.object = 0
      BY DEF Idle
    <2>8. \A d \in Callers : Len(done[d]) \in Nat
      BY DEF FactoryInv, FactoryTypes
    <2>9. ASSUME NEW d \in Callers, NEW k \in 1..Len(done'[d])
          PROVE  \/ d = c /\ k = n /\ done'[d][k] = r
                 \/ k \in 1..Len(done[d]) /\ done'[d][k] = done[d][k]
      <3>1. CASE d = c
        BY <2>5, <2>8, <2>9, <3>1
      <3>2. CASE d # c
        BY <2>5, <2>9, <3>2
      <3> QED BY <3>1, <3>2
    <2>10. \A d \in Callers : \A k \in 1..Len(done[d]) : done[d][k] # r /\ done[d][k] \in 1..Len(objects)
      BY <1>1 DEF FactoryInv, Heap, Owned, Places
    <2> HIDE DEF n, o, r
    <2>11. FactoryTypes'
      BY <1>1, <2>4, <2>5, <2>6 DEF FactoryInv, FactoryTypes
    <2>12. Progress'
      <3> SUFFICES ASSUME NEW d \in Callers
                   PROVE  (/\ Len(done[d]) <= Len(named[d])
                           /\ Asking(d) => Len(done[d]) < Len(named[d])
                           /\ call[d].phase = "resolved" => Len(done[d]) = Len(named[d]))'
        BY DEF Progress
      <3>1. CASE d = c
        BY <1>1, <1>2, <2>5, <2>6, <2>7, <3>1 DEF Asking
      <3>2. CASE d # c
        BY <1>1, <2>5, <2>6, <3>2 DEF Asking, FactoryInv, Progress
      <3> QED BY <3>1, <3>2
    <2>13. ASSUME NEW d \in Callers PROVE Lookup(d)'
      <3>1. CASE d = c
        BY <2>6, <2>7, <3>1 DEF Lookup, Asking
      <3>2. CASE d # c
        BY <1>1, <2>5, <2>6, <3>2 DEF FactoryInv, Lookup, Asking, Current
      <3> QED BY <3>1, <3>2
    <2>14. Places'
      <3>1. \A d \in Callers : \A k \in 1..Len(done'[d]) : done'[d][k] \in 1..Len(objects')
        BY <1>3, <2>4, <2>9, <2>10
      <3>2. \A d \in Callers : /\ call'[d].object \in 0..Len(objects')
                               /\ call'[d].phase = "returned" => call'[d].object # 0
        <4> TAKE d \in Callers
        <4>1. CASE d = c
          BY <1>3, <2>4, <2>6, <2>7, <4>1
        <4>2. CASE d # c
          BY <2>4, <2>6, <4>2 DEF FactoryInv, Heap, Places
        <4> QED BY <4>1, <4>2
      <3>3. \A key \in DOMAIN cache' : cache'[key] \in 1..Len(objects')
        BY <1>1, <2>4 DEF FactoryInv, Heap, Places
      <3> QED BY <3>1, <3>2, <3>3 DEF Places
    <2>15. Owned'
      <3>1. \A d \in Callers : call'[d].phase = "returned" => d # c /\ call'[d] = call[d]
        BY <2>6, <2>7
      <3>2. \A d \in Callers : call[d].phase = "returned" /\ d # c => call[d].object # r
        BY <1>1 DEF FactoryInv, Heap, Owned, r
      <3>3. ASSUME NEW d \in Callers, NEW e \in Callers,
                   NEW j \in 1..Len(done'[d]), NEW k \in 1..Len(done'[e]), done'[d][j] = done'[e][k]
            PROVE  d = e /\ j = k
        <4>1. CASE d = c /\ j = n /\ done'[d][j] = r
          <5>1. ~(k \in 1..Len(done[e]) /\ done'[e][k] = done[e][k])
            BY <2>10, <3>3, <4>1
          <5> QED BY <2>9, <4>1, <5>1
        <4>2. CASE j \in 1..Len(done[d]) /\ done'[d][j] = done[d][j]
          <5>1. ~(e = c /\ k = n /\ done'[e][k] = r)
            BY <2>10, <3>3, <4>2
          <5>2. k \in 1..Len(done[e]) /\ done'[e][k] = done[e][k]
            BY <2>9, <5>1
          <5>3. done[d][j] = done[e][k]
            BY <3>3, <4>2, <5>2
          <5> QED BY <4>2, <5>2, <5>3 DEF FactoryInv, Heap, Owned
        <4> QED BY <2>9, <4>1, <4>2
      <3>4. ASSUME NEW d \in Callers, NEW e \in Callers, NEW k \in 1..Len(done'[e]),
                   call'[d].phase = "returned"
            PROVE  done'[e][k] # call'[d].object
        <4>1. d # c /\ call'[d] = call[d]
          BY <3>1, <3>4
        <4>2. CASE e = c /\ k = n /\ done'[e][k] = r
          BY <3>2, <3>4, <4>1, <4>2
        <4>3. CASE k \in 1..Len(done[e]) /\ done'[e][k] = done[e][k]
          BY <3>4, <4>1, <4>3 DEF FactoryInv, Heap, Owned
        <4> QED BY <2>9, <4>2, <4>3
      <3>5. ASSUME NEW d \in Callers, NEW e \in Callers,
                   call'[d].phase = "returned", call'[e].phase = "returned", d # e
            PROVE  call'[d].object # call'[e].object
        BY <3>1, <3>5 DEF FactoryInv, Heap, Owned
      <3> QED BY <3>3, <3>4, <3>5 DEF Owned
    <2>16. \A j \in 1..Len(objects) : SameAsset(objects[j], objects'[j])
      BY <2>3, <2>4 DEF SameAsset, o
    <2>17. CacheRight'
      <3> SUFFICES ASSUME NEW in \in Inputs, NEW as \in {"ft", "collection", "item"},
                          Key(in, as) \in DOMAIN cache
                   PROVE  Right(in, objects'[cache[Key(in, as)]])
        BY <1>1 DEF CacheRight, Right, Wanted, MayMislead, Key
      <3>1. cache[Key(in, as)] \in 1..Len(objects) /\ Right(in, objects[cache[Key(in, as)]])
        BY DEF FactoryInv, Heap, Places, CacheRight
      <3> QED BY <2>16, <3>1, SameRight
    <2>18. ReturnedRight'
      <3> SUFFICES ASSUME NEW d \in Callers, call'[d].phase = "returned"
                   PROVE  Right(Current(d)', objects'[call'[d].object])
        BY DEF ReturnedRight, Right, Wanted, MayMislead
      <3>1. d # c /\ call'[d] = call[d]
        BY <2>6, <2>7
      <3>2. Current(d)' = Current(d)
        BY <1>1, <2>5, <3>1 DEF Current
      <3>3. call[d].object \in 1..Len(objects) /\ Right(Current(d), objects[call[d].object])
        BY <1>3, <3>1 DEF FactoryInv, Heap, Places, ReturnedRight
      <3> QED BY <2>16, <3>1, <3>2, <3>3, SameRight
    <2>19. DoneRight'
      <3> SUFFICES ASSUME NEW d \in Callers, NEW k \in 1..Len(done'[d])
                   PROVE  /\ Right(named[d][k], objects'[done'[d][k]])
                          /\ AmountGiven(named[d][k], objects'[done'[d][k]])
        BY <1>1 DEF DoneRight, Right, Wanted, MayMislead, AmountGiven, OnChainAmount
      <3>1. CASE d = c /\ k = n /\ done'[d][k] = r
        BY <1>2, <2>3, <2>4, <3>1
      <3>2. CASE k \in 1..Len(done[d]) /\ done'[d][k] = done[d][k]
        <4>1. objects'[done'[d][k]] = objects[done[d][k]]
          BY <2>4, <2>10, <3>2
        <4> QED BY <3>2, <4>1 DEF FactoryInv, Heap, DoneRight
      <3> QED BY <2>9, <3>1, <3>2
    <2>20. \A j \in 1..Len(objects') : Fits(objects'[j])
      BY <2>3, <2>4 DEF FactoryInv, Heap
    <2> QED BY <2>11, <2>12, <2>13, <2>14, <2>15, <2>17, <2>18, <2>19, <2>20
            DEF FactoryInv, Heap, Fits
  <1> QED BY <1>4, <1>5

LEMMA BridgeTokenInv ==
    ASSUME FactoryInv, NEW x \in Contracts, BridgeToken(x) PROVE FactoryInv'
  <1> USE DEF FactoryInv
  <1>1. x \in Contracts /\ bridged' = bridged \union {x} /\ UNCHANGED <<named, objects, cache, done, call>>
    BY DEF BridgeToken
  <1>2. FactoryTypes'
    BY <1>1 DEF FactoryTypes
  <1>3. Progress' /\ \A c \in Callers : Lookup(c)'
    BY <1>1 DEF Progress, Lookup, Asking, Current
  <1>4. Heap'
    BY <1>1 DEF Heap, Places, Owned, CacheRight, ReturnedRight, DoneRight, Current
  <1> QED BY <1>2, <1>3, <1>4

LEMMA FactoryInvNext == ASSUME FactoryInv, FactoryNext PROVE FactoryInv'
  BY TakeInputInv, FromInv, IdentifyInv, InspectFTInv, DescribeFTInv, InspectCollectionInv,
     ResolveItemInv, RequestFailsInv, TakeAmountInv, BridgeTokenInv DEF FactoryNext, FactoryStep

LEMMA FactoryInvStays == ASSUME FactoryInv, UNCHANGED factoryVars PROVE FactoryInv'
  <1> USE DEF FactoryInv, factoryVars
  <1>1. FactoryTypes' /\ Progress' /\ \A c \in Callers : Lookup(c)'
    BY DEF FactoryTypes, Progress, Lookup, Asking, Current
  <1>2. Heap'
    BY DEF Heap, Places, Owned, CacheRight, ReturnedRight, DoneRight, Current
  <1> QED BY <1>1, <1>2

LEMMA EvmAddressType ==
    ASSUME NEW o \in AssetObject
    PROVE  EvmAddress(o) \in Contracts \union {Ton, Unknown, Nowhere}
  BY DEF EvmAddress, AssetObject

\* Objects that come to remember an address are the same assets as before.
LEMMA RememberEvmInv ==
    ASSUME FactoryInv, NEW k, RememberEvm(k), Bridged[k] \in 1..Len(objects),
           UNCHANGED <<bridged, named, cache, done, call>>
    PROVE  /\ FactoryInv' /\ Len(objects') = Len(objects)
           /\ \A j \in 1..Len(objects) :
                  /\ SameAsset(objects[j], objects'[j]) /\ objects'[j].amount = objects[j].amount
                  /\ objects'[j].base = objects[j].base
                  /\ objects'[j].collection = objects[j].collection
                  /\ objects'[j].evm =
                         IF j = Bridged[k] \/ (Object(k).kind = "nft" /\ objects[j].base = Object(k).base)
                         THEN EvmAddress(Object(k)) ELSE objects[j].evm
  <1> DEFINE evm == EvmAddress(Object(k))
             remembers(j) == j = Bridged[k] \/ (Object(k).kind = "nft" /\ objects[j].base = Object(k).base)
  <1>1. /\ objects \in Seq(AssetObject) /\ Len(objects) \in Nat /\ DOMAIN objects = 1..Len(objects)
        /\ \A j \in 1..Len(objects) : objects[j] \in AssetObject
    BY DEF FactoryInv, FactoryTypes
  <1>2. evm \in Contracts \union {Ton, Unknown, Nowhere}
    BY <1>1, EvmAddressType DEF Object
  <1>3. objects' = [j \in 1..Len(objects) |-> IF remembers(j) THEN [objects[j] EXCEPT !.evm = evm]
                                                               ELSE objects[j]]
    BY <1>1 DEF RememberEvm
  <1> HIDE DEF evm, remembers
  <1>4. \A j \in 1..Len(objects) : [objects[j] EXCEPT !.evm = evm] \in AssetObject
    BY <1>1, <1>2 DEF AssetObject
  <1>5. objects' \in Seq(AssetObject) /\ Len(objects') = Len(objects)
    BY <1>1, <1>3, <1>4
  <1>6. \A j \in 1..Len(objects) :
            objects'[j] = IF remembers(j) THEN [objects[j] EXCEPT !.evm = evm] ELSE objects[j]
    BY <1>3
  <1>7. \A j \in 1..Len(objects) :
                  /\ SameAsset(objects[j], objects'[j]) /\ objects'[j].amount = objects[j].amount
                  /\ objects'[j].base = objects[j].base
                  /\ objects'[j].collection = objects[j].collection
                  /\ objects'[j].evm = IF remembers(j) THEN evm ELSE objects[j].evm
    <2> TAKE j \in 1..Len(objects)
    <2>1. CASE remembers(j)
      <3>1. objects'[j] = [objects[j] EXCEPT !.evm = evm]
        BY <1>6, <2>1
      <3> QED BY <1>1, <2>1, <3>1 DEF SameAsset, AssetObject
    <2>2. CASE ~remembers(j)
      BY <1>6, <2>2 DEF SameAsset
    <2> QED BY <2>1, <2>2
  <1>8. FactoryTypes'
    BY <1>5 DEF FactoryInv, FactoryTypes
  <1>9. Progress' /\ \A c \in Callers : Lookup(c)'
    BY DEF FactoryInv, Progress, Lookup, Asking, Current
  <1>10. Places' /\ Owned'
    BY <1>5 DEF FactoryInv, Heap, Places, Owned
  <1>11. \A j \in 1..Len(objects') : Fits(objects'[j])
    BY <1>5, <1>7 DEF FactoryInv, Heap, Fits, SameAsset
  <1>12. CacheRight'
    <2> SUFFICES ASSUME NEW in \in Inputs, NEW as \in {"ft", "collection", "item"},
                        Key(in, as) \in DOMAIN cache
                 PROVE  Right(in, objects'[cache[Key(in, as)]])
      BY DEF CacheRight, Right, Wanted, MayMislead, Key
    <2>1. cache[Key(in, as)] \in 1..Len(objects) /\ Right(in, objects[cache[Key(in, as)]])
      BY DEF FactoryInv, Heap, Places, CacheRight
    <2> QED BY <1>7, <2>1, SameRight
  <1>13. ReturnedRight'
    <2> SUFFICES ASSUME NEW d \in Callers, call[d].phase = "returned"
                 PROVE  Right(Current(d), objects'[call[d].object])
      BY DEF ReturnedRight, Right, Wanted, MayMislead, Current
    <2>1. call[d].object \in 1..Len(objects) /\ Right(Current(d), objects[call[d].object])
      BY <1>1 DEF FactoryInv, Heap, Places, ReturnedRight
    <2> QED BY <1>7, <2>1, SameRight
  <1>14. DoneRight'
    <2> SUFFICES ASSUME NEW d \in Callers, NEW m \in 1..Len(done[d])
                 PROVE  /\ Right(named[d][m], objects'[done[d][m]])
                        /\ AmountGiven(named[d][m], objects'[done[d][m]])
      BY DEF DoneRight, Right, Wanted, MayMislead, AmountGiven, OnChainAmount
    <2>1. /\ done[d][m] \in 1..Len(objects) /\ Right(named[d][m], objects[done[d][m]])
          /\ AmountGiven(named[d][m], objects[done[d][m]])
      BY DEF FactoryInv, Heap, Places, DoneRight
    <2>2. Right(named[d][m], objects'[done[d][m]])
      BY <1>7, <2>1, SameRight
    <2>3. AmountGiven(named[d][m], objects'[done[d][m]])
      BY <1>7, <2>1 DEF AmountGiven, OnChainAmount, SameAsset
    <2> QED BY <2>2, <2>3
  <1> QED BY <1>5, <1>7, <1>8, <1>9, <1>10, <1>11, <1>12, <1>13, <1>14
          DEF FactoryInv, Heap, evm, remembers, Fits

-------------------------------------------------------------------------------
(* The steps of the facade keep what the resolution keeps.                     *)

BridgeTypes ==
    bridge \in [phase : {"resolve", "suggest", "approve", "sent", "rejected"}, value : Nat,
                fee : Nat, next : Nat \ {0}]

\* The list that is bridged is a prefix of the resolved one.
LEMMA BridgedPrefix ==
    ASSUME done[Bridger] \in Seq(Nat)
    PROVE  /\ Len(Bridged) \in Nat
           /\ Len(Bridged) = IF bridge.value = 0 \/ done[Bridger] = <<>> THEN Len(done[Bridger])
                             ELSE Len(done[Bridger]) - 1
           /\ \A k \in 1..Len(Bridged) : Bridged[k] = done[Bridger][k] /\ k \in 1..Len(done[Bridger])
  <1> DEFINE s == done[Bridger]
             n == Len(s)
  <1>1. s \in Seq(Nat) /\ n \in Nat
    OBVIOUS
  <1>2. CASE bridge.value = 0
    BY <1>1, <1>2 DEF Bridged, WithoutNative
  <1>3. CASE bridge.value # 0
    <2>1. Bridged = SubSeq(s, 1, n - 1)
      BY <1>3 DEF Bridged, WithoutNative
    <2>2. CASE n = 0
      <3>1. SubSeq(s, 1, n - 1) = <<>> /\ s = <<>>
        BY <1>1, <2>2
      <3> QED BY <1>3, <2>1, <2>2, <3>1
    <2>3. CASE n # 0
      <3>1. 1 \in 1..n + 1 /\ n - 1 \in 0..n /\ s # <<>>
        BY <1>1, <2>3
      <3>2. /\ Len(SubSeq(s, 1, n - 1)) = n - 1
            /\ \A k \in 1..n - 1 : SubSeq(s, 1, n - 1)[k] = s[k]
        BY <1>1, <3>1
      <3> QED BY <1>1, <1>3, <2>1, <2>3, <3>1, <3>2
    <2> QED BY <2>2, <2>3
  <1> QED BY <1>2, <1>3

LEMMA BridgedPlaces ==
    ASSUME FactoryInv, NEW k \in 1..Len(Bridged)
    PROVE  Bridged[k] \in 1..Len(objects) /\ Bridged[k] = done[Bridger][k]
           /\ k \in 1..Len(done[Bridger])
  <1>1. done[Bridger] \in Seq(Nat) /\ Bridger \in Callers
    BY BridgeAssumption DEF FactoryInv, FactoryTypes
  <1> QED BY <1>1, BridgedPrefix DEF FactoryInv, Heap, Places

LEMMA SdkInitFactory == SdkInit => FactoryInv /\ BridgeTypes
  <1> SUFFICES ASSUME SdkInit PROVE FactoryInv /\ BridgeTypes
    OBVIOUS
  <1>1. FactoryInv
    BY FactoryInvInit DEF SdkInit
  <1>2. BridgeTypes
    <2>1. bridge \in [phase : {"resolve"}, value : Values, fee : ExecutorFees \union {0}, next : {1}]
      BY DEF SdkInit, BridgeInit
    <2>2. Values \subseteq Nat /\ ExecutorFees \subseteq Nat
      BY BridgeAssumption
    <2>3. ExecutorFees \union {0} \subseteq Nat /\ 1 \in Nat \ {0}
      BY <2>2
    <2> QED BY <2>1, <2>2, <2>3 DEF BridgeTypes
  <1> QED BY <1>1, <1>2

LEMMA SdkNextFactory ==
    ASSUME FactoryInv, BridgeTypes, [SdkNext]_sdkVars PROVE FactoryInv' /\ BridgeTypes'
  <1>1. CASE UNCHANGED tacVars
    BY <1>1, FactoryInvStays DEF tacVars, bridgeVars, BridgeTypes
  <1>2. CASE Resolve
    BY <1>2, FactoryInvNext DEF Resolve, bridgeVars, BridgeTypes
  <1>3. CASE BridgeStep
    <2>1. CASE UNCHANGED factoryVars
      <3>1. BridgeTypes'
        <4>1. CASE AssetsResolved
          BY <4>1 DEF AssetsResolved, Go, BridgeTypes
        <4>2. CASE SuggestFee
          BY <4>2, BridgeAssumption DEF SuggestFee, Go, BridgeTypes
        <4>3. CASE Approve
          BY <4>3 DEF Approve, NextAsset, BridgeTypes
        <4>4. CASE ApproveFails \/ SendMessage \/ SendFails
          BY <4>4 DEF ApproveFails, SendMessage, SendFails, Go, BridgeTypes
        <4> QED BY <1>3, <4>1, <4>2, <4>3, <4>4 DEF BridgeStep
      <3> QED BY <2>1, <3>1, FactoryInvStays
    <2>2. CASE Approve \/ ApproveFails
      <3>1. /\ bridge.next \in 1..Len(Bridged) /\ UNCHANGED <<bridged, named, cache, done, call>>
            /\ RememberEvm(bridge.next) \/ UNCHANGED objects
        <4>1. Len(Bridged) \in Nat
          BY BridgedPrefix, BridgeAssumption DEF FactoryInv, FactoryTypes
        <4> QED BY <2>2, <4>1 DEF Approve, ApproveFails, BridgeTypes
      <3>2. FactoryInv'
        <4>1. CASE RememberEvm(bridge.next)
          BY <3>1, <4>1, BridgedPlaces, RememberEvmInv
        <4>2. CASE UNCHANGED objects
          BY <3>1, <4>2, FactoryInvStays DEF factoryVars
        <4> QED BY <3>1, <4>1, <4>2
      <3>3. BridgeTypes'
        BY <2>2 DEF Approve, ApproveFails, Go, NextAsset, BridgeTypes
      <3> QED BY <3>2, <3>3
    <2> QED BY <1>3, <2>1, <2>2
            DEF BridgeStep, AssetsResolved, SuggestFee, SendMessage, SendFails
  <1>4. CASE CreateSdk \/ NormalizeBatch \/ Prepare \/ UNCHANGED sdkVars
    BY <1>1, <1>4 DEF CreateSdk, NormalizeBatch, Prepare, sdkVars
  <1> QED BY <1>2, <1>3, <1>4 DEF SdkNext, BridgeToTon

(***************************************************************************)
(* A resolved asset is the contract that was named, with its true origin   *)
(* and the amount that was given (TacSdk, AssetFactory.from,               *)
(* normalizeAssets): for any number of callers, any lists, any contracts,  *)
(* whichever requests fail, whatever is deployed meanwhile and whatever    *)
(* the shared cache holds.                                                 *)
(***************************************************************************)
THEOREM ResolvedTheorem == SdkSpec => []ResolvedAsAsked
  <1>1. FactoryInv => ResolvedAsAsked
    BY DEF FactoryInv, Heap, DoneRight, Right, AmountGiven, ResolvedAsAsked, IsAsAsked
  <1>2. FactoryInv /\ BridgeTypes /\ [SdkNext]_sdkVars => FactoryInv' /\ BridgeTypes'
    BY SdkNextFactory
  <1> QED BY SdkInitFactory, <1>1, <1>2, PTL DEF SdkSpec

-------------------------------------------------------------------------------
(* TacBridge: what is taken is what was given.                                 *)

\* An object that is made: a token, an item with addresses of its own, or the
\* clone of an object.
NewObject(o) ==
    \/ o.kind # "nft" /\ o.base = 0
    \/ o.kind = "nft" /\ o.base = Len(objects) + 1 /\ o.collection \in Contracts \union {Nowhere}
    \/ \E r \in 1..Len(objects) :
           /\ o.kind = objects[r].kind /\ o.base = objects[r].base
           /\ o.evm = objects[r].evm /\ o.collection = objects[r].collection

\* All that the resolution does to the heap.
HeapStep ==
    \/ UNCHANGED objects
    \/ \E o : objects' = Append(objects, o) /\ NewObject(o)
    \/ \E c \in Callers : \E n :
           /\ call[c].phase = "returned"
           /\ objects' = [objects EXCEPT ![call[c].object] = WithAmount(objects[call[c].object], n)]

LEMMA HeapSteps == ASSUME FactoryInv, FactoryNext PROVE HeapStep
  <1> USE DEF FactoryInv
  <1>1. ASSUME NEW x \in Contracts, BridgeToken(x) PROVE HeapStep
    BY <1>1 DEF BridgeToken, HeapStep
  <1>2. ASSUME NEW c \in Callers, FactoryStep(c) PROVE HeapStep
    <2>1. CASE TakeInput(c) \/ InspectFT(c) \/ RequestFails(c)
      BY <2>1 DEF TakeInput, InspectFT, RequestFails, HeapStep
    <2>2. CASE From(c)
      <3>1. CASE objects' = Append(objects, NewTon)
        BY <3>1 DEF HeapStep, NewObject, NewTon
      <3>2. CASE UNCHANGED objects
        BY <3>2 DEF HeapStep
      <3>3. CASE Key(Current(c), call[c].as) \in DOMAIN cache /\ Hit(c, cache[Key(Current(c), call[c].as)])
        <4> DEFINE r == cache[Key(Current(c), call[c].as)]
        <4>1. r \in 1..Len(objects) /\ objects[r] \in AssetObject
          BY <3>3 DEF Heap, Places, FactoryTypes
        <4>2. objects' = Append(objects, WithAmount(objects[r], 0))
          BY <3>3 DEF Hit
        <4> HIDE DEF r
        <4>3. NewObject(WithAmount(objects[r], 0))
          BY <4>1 DEF NewObject, WithAmount, AssetObject
        <4> QED BY <4>2, <4>3 DEF HeapStep
      <3> QED BY <2>2, <3>1, <3>2, <3>3 DEF From
    <2>3. CASE Identify(c)
      BY <2>3 DEF Identify, Created, HeapStep, NewObject, NewTon
    <2>4. CASE DescribeFT(c)
      BY <2>4 DEF DescribeFT, Created, HeapStep, NewObject, NewFT
    <2>5. CASE InspectCollection(c)
      <3>1. call[c].contract \in Contracts \union {Nowhere}
        <4>1. Current(c) \in Inputs /\ Asking(c) /\ call[c].phase = "inspect"
          BY <2>5, CurrentInput DEF InspectCollection, Progress, Asking
        <4> QED BY <4>1 DEF Lookup, Inputs
      <3> QED BY <2>5, <3>1 DEF InspectCollection, Created, HeapStep, NewObject, NewNFT
    <2>6. CASE ResolveItem(c)
      <3>1. CASE UNCHANGED objects
        BY <3>1 DEF HeapStep
      <3>2. CASE objects' # objects
        <4> DEFINE a == Current(c).address.contract
        <4>1. Current(c) \in Inputs /\ Asking(c) /\ call[c].phase = "item"
          BY <2>6, CurrentInput DEF ResolveItem, Progress, Asking
        <4>2. KindOf[a] = "item" /\ CodeAt(a) # "none" /\ Current(c).address.chain = "TON"
          BY <2>6, <3>2, <4>1 DEF ResolveItem, Inputs
        <4>3. a \in Contracts
          <5>1. Lookup(c) /\ Current(c).address # NoAddress
            BY <4>1 DEF Lookup
          <5>2. a # Ton
            BY <4>1, <4>2, <5>1 DEF NoAddress, Address, Inputs
          <5> QED BY <4>1, <5>2 DEF Inputs
        <4>4. CollectionOf[a] \in Contracts
          BY <4>2, <4>3, FactoryAssumption DEF Items
        <4> QED BY <2>6, <3>2, <4>4 DEF ResolveItem, Created, HeapStep, NewObject, NewNFT
      <3> QED BY <3>1, <3>2
    <2>7. CASE TakeAmount(c)
      BY <2>7 DEF TakeAmount, SetAmount, HeapStep
    <2> QED BY <1>2, <2>1, <2>2, <2>3, <2>4, <2>5, <2>6, <2>7 DEF FactoryStep
  <1> QED BY <1>1, <1>2 DEF FactoryNext

\* Clones of an item remember the same address, and tokens have no record of
\* addresses.
Shared ==
    /\ \A r \in 1..Len(objects) :
           IF objects[r].kind = "nft"
           THEN objects[r].base \in 1..Len(objects)
                /\ objects[r].collection \in Contracts \union {Nowhere}
           ELSE objects[r].base = 0
    /\ \A r, s \in 1..Len(objects) :
           objects[r].kind = "nft" /\ objects[s].kind = "nft" /\ objects[r].base = objects[s].base =>
               objects[r].evm = objects[s].evm

LEMMA SharedStays == ASSUME FactoryInv, Shared, HeapStep PROVE Shared'
  <1> USE DEF Shared
  <1>1. objects \in Seq(AssetObject) /\ Len(objects) \in Nat /\ DOMAIN objects = 1..Len(objects)
    BY DEF FactoryInv, FactoryTypes
  <1>2. CASE UNCHANGED objects
    BY <1>2
  <1>3. ASSUME NEW o, objects' = Append(objects, o), NewObject(o) PROVE Shared'
    <2> DEFINE n == Len(objects)
    <2>1. /\ Len(objects') = n + 1 /\ objects'[n + 1] = o
          /\ \A r \in 1..n : objects'[r] = objects[r]
      BY <1>1, <1>3
    <2>2. n \in Nat
      BY <1>1
    <2> HIDE DEF n
    <2>3. \A r \in 1..n + 1 : r = n + 1 \/ r \in 1..n
      BY <2>2
    <2>4. CASE o.kind # "nft" /\ o.base = 0
      BY <2>1, <2>2, <2>3, <2>4, SMTT(30) DEF n
    <2>5. CASE o.kind = "nft" /\ o.base = n + 1 /\ o.collection \in Contracts \union {Nowhere}
      <3>1. \A r \in 1..n : objects[r].kind = "nft" => objects[r].base # n + 1
        BY <2>2 DEF n
      <3> QED BY <2>1, <2>2, <2>3, <2>5, <3>1 DEF n
    <2>6. ASSUME NEW r \in 1..n, o.kind = objects[r].kind, o.base = objects[r].base,
                 o.evm = objects[r].evm, o.collection = objects[r].collection
          PROVE  Shared'
      BY <2>1, <2>2, <2>3, <2>6, SMTT(30) DEF n
    <2> QED BY <1>3, <2>4, <2>5, <2>6 DEF NewObject, n
  <1>4. ASSUME NEW c \in Callers, NEW n, call[c].phase = "returned",
               objects' = [objects EXCEPT ![call[c].object] = WithAmount(objects[call[c].object], n)]
        PROVE  Shared'
    <2>1. Len(objects') = Len(objects)
      BY <1>1, <1>4
    <2>2. ASSUME NEW r \in 1..Len(objects)
          PROVE  /\ objects'[r].kind = objects[r].kind /\ objects'[r].base = objects[r].base
                 /\ objects'[r].evm = objects[r].evm
                 /\ objects'[r].collection = objects[r].collection
      <3>1. objects[r] \in AssetObject
        BY <1>1
      <3>2. objects'[r] = objects[r] \/ objects'[r] = WithAmount(objects[r], n)
        BY <1>1, <1>4
      <3> QED BY <3>1, <3>2 DEF WithAmount, AssetObject
    <2> QED BY <2>1, <2>2
  <1> QED BY <1>2, <1>3, <1>4 DEF HeapStep

\* The address an object has is a real one, though there may be no contract.
LEMMA EvmAddressKnown ==
    ASSUME FactoryInv, Shared, NEW r \in 1..Len(objects)
    PROVE  /\ EvmAddress(objects[r]) \in Contracts \union {Ton, Nowhere}
           /\ EvmAddress(objects[r]) # Unknown
           /\ objects[r].evm # Unknown => EvmAddress(objects[r]) = objects[r].evm
  <1> DEFINE o == objects[r]
  <1>1. o \in AssetObject
    BY DEF FactoryInv, FactoryTypes
  <1>2. Unknown \notin Contracts \union {Ton, Nowhere}
    BY FactoryAssumption DEF Unknown, Ton, Nowhere
  <1>3. CASE o.evm # Unknown
    <2>1. EvmAddress(o) = o.evm
      BY <1>3 DEF EvmAddress
    <2> QED BY <1>1, <1>2, <1>3, <2>1 DEF AssetObject
  <1>4. CASE o.evm = Unknown /\ o.kind = "nft"
    <2>1. o.collection \in Contracts \union {Nowhere} /\ CodeAt(Nowhere) = "none"
      BY <1>4 DEF Shared, CodeAt
    <2>2. EvmAddress(o) = IF CodeAt(o.collection) = "none" \/ KindOf[o.collection] # "collection"
                          THEN Nowhere ELSE o.collection
      BY <1>4 DEF EvmAddress
    <2> QED BY <1>2, <1>4, <2>1, <2>2
  <1>5. CASE o.evm = Unknown /\ o.kind # "nft"
    <2>1. EvmAddress(o) = o.contract
      BY <1>5 DEF EvmAddress
    <2> QED BY <1>1, <1>2, <1>5, <2>1 DEF AssetObject
  <1> QED BY <1>3, <1>4, <1>5

\* Once its list is resolved nothing the callers do changes what is bridged.
LEMMA ListStays ==
    ASSUME FactoryInv, FactoryNext, call[Bridger].phase \in {"resolved", "rejected"}
    PROVE  /\ call'[Bridger] = call[Bridger] /\ named' = named
           /\ done'[Bridger] = done[Bridger]
           /\ \A k \in 1..Len(done[Bridger]) :
                  objects'[done[Bridger][k]] = objects[done[Bridger][k]]
  <1> USE DEF FactoryInv
  <1>1. Bridger \in Callers
    BY BridgeAssumption
  <1>2. ASSUME NEW c \in Callers, FactoryStep(c) PROVE c # Bridger
    BY <1>2 DEF FactoryStep, TakeInput, From, Identify, InspectFT, DescribeFT, InspectCollection,
        ResolveItem, RequestFails, TakeAmount
  <1>3. ASSUME NEW c \in Callers, FactoryStep(c)
        PROVE  /\ call'[Bridger] = call[Bridger] /\ named' = named
               /\ done'[Bridger] = done[Bridger]
    <2>1. c # Bridger
      BY <1>2, <1>3
    <2>2. call \in [Callers -> CallRecord] /\ done \in [Callers -> Seq(Nat)]
      BY DEF FactoryTypes
    <2>3. CASE TakeInput(c) \/ InspectFT(c) \/ RequestFails(c)
      BY <1>1, <2>1, <2>2, <2>3 DEF TakeInput, InspectFT, RequestFails, Unresolved
    <2>4. CASE From(c)
      BY <1>1, <2>1, <2>2, <2>4 DEF From, Return, Unresolved, Hit, Enter
    <2>5. CASE Identify(c) \/ DescribeFT(c)
      BY <1>1, <2>1, <2>2, <2>5 DEF Identify, DescribeFT, Created, Return, Unresolved
    <2>6. CASE InspectCollection(c) \/ ResolveItem(c)
      BY <1>1, <2>1, <2>2, <2>6 DEF InspectCollection, ResolveItem, Created, Return, Unresolved
    <2>7. CASE TakeAmount(c)
      BY <1>1, <2>1, <2>2, <2>7 DEF TakeAmount, SetAmount
    <2> QED BY <1>3, <2>3, <2>4, <2>5, <2>6, <2>7 DEF FactoryStep
  <1>4. ASSUME NEW x \in Contracts, BridgeToken(x)
        PROVE  UNCHANGED <<call, named, done>>
    BY <1>4 DEF BridgeToken
  <1>5. ASSUME NEW k \in 1..Len(done[Bridger])
        PROVE  objects'[done[Bridger][k]] = objects[done[Bridger][k]]
    <2> DEFINE r == done[Bridger][k]
    <2>1. r \in 1..Len(objects) /\ objects \in Seq(AssetObject)
      BY <1>1 DEF Heap, Places, FactoryTypes
    <2>2. \A c \in Callers : call[c].phase = "returned" => r # call[c].object
      BY <1>1 DEF Heap, Owned
    <2> HIDE DEF r
    <2>3. \A o : Append(objects, o)[r] = objects[r]
      BY <2>1
    <2>4. HeapStep
      BY HeapSteps
    <2>5. objects'[r] = objects[r]
      BY <2>1, <2>2, <2>3, <2>4 DEF HeapStep
    <2> QED BY <2>5 DEF r
  <1> QED BY <1>3, <1>4, <1>5 DEF FactoryNext

Tokens == Contracts \union {Ton, Nowhere}

IsNftAt(k) == Object(k).kind = "nft"

\* How far the bridging is: nothing is approved before the list is resolved, and
\* the list stands still from then on.
Bridging ==
    /\ bridge.phase # "resolve" => call[Bridger].phase \in {"resolved", "rejected"}
    /\ bridge.phase \in {"suggest", "approve", "sent"} => call[Bridger].phase = "resolved"
    /\ bridge.next <= Len(Bridged) + 1
    /\ bridge.phase \in {"resolve", "suggest"} \/ call[Bridger].phase # "resolved" =>
           /\ bridge.next = 1 /\ approved = {} /\ outMessage = NotSent
           /\ \A x \in Tokens : allowance[x] = 0

\* The approvals that were made: of a token the last one counts.
Approvals ==
    bridge.phase = "approve" =>
        \A j \in 1..Len(Bridged) : j < bridge.next =>
            /\ Object(j).evm # Unknown
            /\ IsNftAt(j) => <<Object(j).evm, Object(j).contract>> \in approved
            /\ (/\ ~IsNftAt(j)
                /\ \A k \in 1..Len(Bridged) :
                       j < k /\ k < bridge.next /\ ~IsNftAt(k) => Object(k).evm # Object(j).evm)
                   => allowance[Object(j).evm] = Object(j).amount

\* Whatever may be taken is an asset of the list, in its amount.
LeftOver ==
    \A x \in Tokens : allowance[x] # 0 =>
        \E k \in 1..Len(Bridged) : /\ ~IsNftAt(k) /\ Object(k).evm = x
                                   /\ Object(k).amount = allowance[x]

\* What the message says that was sent.
MessageSent ==
    outMessage = NotSent \/
        /\ bridge.phase \in {"sent", "rejected"}
        /\ DOMAIN outMessage.toBridge \union DOMAIN outMessage.toBridgeNFT = 1..Len(Bridged)
        /\ \A k \in DOMAIN outMessage.toBridge :
               ~IsNftAt(k) /\ outMessage.toBridge[k].amount = Object(k).amount
        /\ outMessage.value = bridge.value + ProtocolFee + bridge.fee

BridgeInv ==
    /\ BridgeTypes /\ allowance \in [Tokens -> Nat]
    /\ Bridging /\ Approvals /\ LeftOver /\ MessageSent

LEMMA BridgeInvInit == ASSUME FactoryInit, BridgeInit, BridgeTypes PROVE BridgeInv
  <1>1. /\ bridge.phase = "resolve" /\ bridge.next = 1 /\ approved = {} /\ outMessage = NotSent
        /\ allowance \in [Tokens -> Nat] /\ \A x \in Tokens : allowance[x] = 0
    BY DEF BridgeInit, Tokens
  <1> QED BY <1>1 DEF BridgeInv, Bridging, Approvals, LeftOver, MessageSent

\* Steps that leave the bridging and the assets of its list alone.
LEMMA BridgeInvKept ==
    ASSUME FactoryInv, BridgeInv, UNCHANGED bridgeVars, call'[Bridger].phase = call[Bridger].phase,
           done'[Bridger] = done[Bridger],
           \A k \in 1..Len(Bridged) : /\ SameAsset(Object(k), Object(k)')
                                      /\ Object(k)'.amount = Object(k).amount
                                      /\ Object(k)'.evm = Object(k).evm
    PROVE  BridgeInv'
  <1>1. Bridged' = Bridged /\ UNCHANGED <<bridge, allowance, approved, outMessage>>
    BY DEF Bridged, bridgeVars
  <1>2. BridgeTypes' /\ (allowance \in [Tokens -> Nat])' /\ Bridging'
    BY <1>1 DEF BridgeInv, BridgeTypes, Bridging, Tokens
  <1>3. \A k \in 1..Len(Bridged) :
            /\ IsNftAt(k)' = IsNftAt(k) /\ Object(k)'.contract = Object(k).contract
            /\ Object(k)'.amount = Object(k).amount /\ Object(k)'.evm = Object(k).evm
    BY DEF SameAsset, IsNftAt
  <1>4. Approvals'
    BY <1>1, <1>3 DEF BridgeInv, Approvals
  <1>5. LeftOver'
    BY <1>1, <1>3 DEF BridgeInv, LeftOver, Tokens
  <1>6. MessageSent'
    <2>1. CASE outMessage = NotSent
      BY <1>1, <2>1 DEF MessageSent
    <2>2. CASE outMessage # NotSent
      <3>1. \A k \in DOMAIN outMessage.toBridge : k \in 1..Len(Bridged)
        BY <2>2 DEF BridgeInv, MessageSent
      <3> QED BY <1>1, <1>3, <2>2, <3>1 DEF BridgeInv, MessageSent
    <2> QED BY <2>1, <2>2
  <1> QED BY <1>2, <1>4, <1>5, <1>6 DEF BridgeInv

LEMMA BridgeInvStays == ASSUME FactoryInv, BridgeInv, UNCHANGED tacVars PROVE BridgeInv'
  <1>1. UNCHANGED <<objects, done, call>> /\ UNCHANGED bridgeVars
    BY DEF tacVars, factoryVars
  <1>2. Bridged' = Bridged
    BY <1>1 DEF Bridged, bridgeVars
  <1>3. \A k \in 1..Len(Bridged) : Object(k)' = Object(k)
    BY <1>1, <1>2 DEF Object
  <1> QED BY <1>1, <1>3, BridgeInvKept DEF SameAsset

\* A step of the resolution.
LEMMA ResolveBridge ==
    ASSUME FactoryInv, Shared, BridgeInv, FactoryNext, UNCHANGED bridgeVars
    PROVE  Shared' /\ BridgeInv'
  <1>1. Shared'
    BY HeapSteps, SharedStays
  <1>2. CASE call[Bridger].phase \in {"resolved", "rejected"}
    <2>1. \A k \in 1..Len(Bridged) : Bridged[k] = done[Bridger][k] /\ k \in 1..Len(done[Bridger])
      BY BridgedPlaces
    <2>2. /\ call'[Bridger] = call[Bridger] /\ done'[Bridger] = done[Bridger]
          /\ \A k \in 1..Len(done[Bridger]) :
                 objects'[done[Bridger][k]] = objects[done[Bridger][k]]
      BY <1>2, ListStays
    <2>3. Bridged' = Bridged
      BY <2>2 DEF Bridged, bridgeVars
    <2>4. \A k \in 1..Len(Bridged) : Object(k)' = Object(k)
      BY <2>1, <2>2, <2>3 DEF Object
    <2> QED BY <1>1, <2>2, <2>4, BridgeInvKept DEF SameAsset
  <1>3. CASE call[Bridger].phase \notin {"resolved", "rejected"}
    <2>1. /\ bridge.phase = "resolve" /\ bridge.next = 1 /\ approved = {} /\ outMessage = NotSent
          /\ \A x \in Tokens : allowance[x] = 0
      BY <1>3 DEF BridgeInv, BridgeTypes, Bridging
    <2>2. UNCHANGED <<bridge, allowance, approved, outMessage>>
      BY DEF bridgeVars
    <2> QED BY <1>1, <2>1, <2>2 DEF BridgeInv, BridgeTypes, Bridging, Approvals, LeftOver, MessageSent, Tokens
  <1> QED BY <1>2, <1>3

\* The list is resolved, and the fee asked for.
LEMMA FeeBridge ==
    ASSUME FactoryInv, BridgeInv, BridgeTypes', AssetsResolved \/ SuggestFee PROVE BridgeInv'
  <1>1. /\ UNCHANGED <<factoryVars, allowance, approved, outMessage>>
        /\ bridge.phase \in {"resolve", "suggest"} /\ bridge'.phase \in {"rejected", "suggest", "approve"}
        /\ call[Bridger].phase = "resolved" \/ bridge'.phase = "rejected"
        /\ call[Bridger].phase \in {"resolved", "rejected"}
        /\ bridge'.value = bridge.value /\ bridge'.next = bridge.next
    BY DEF AssetsResolved, SuggestFee, Go, BridgeInv, BridgeTypes, Bridging
  <1>2. UNCHANGED <<objects, call, done>> /\ Bridged' = Bridged /\ Len(Bridged) \in Nat
    BY <1>1, BridgedPrefix, BridgeAssumption DEF factoryVars, Bridged, FactoryInv, FactoryTypes
  <1>3. /\ bridge.next = 1 /\ approved = {} /\ outMessage = NotSent
        /\ \A x \in Tokens : allowance[x] = 0
    BY <1>1 DEF BridgeInv, Bridging
  <1>4. Bridging'
    BY <1>1, <1>2, <1>3 DEF Bridging, Tokens
  <1>5. Approvals' /\ LeftOver' /\ MessageSent'
    BY <1>1, <1>2, <1>3 DEF Approvals, LeftOver, MessageSent, Tokens
  <1> QED BY <1>1, <1>4, <1>5 DEF BridgeInv, Tokens

\* An asset of the list comes to remember its address; the others keep theirs, and
\* a clone of it that knows the address has the same one.
LEMMA Remembered ==
    ASSUME FactoryInv, Shared, NEW k \in 1..Len(Bridged), RememberEvm(k),
           UNCHANGED <<bridged, named, cache, done, call>>, bridge'.value = bridge.value
    PROVE  /\ Shared' /\ Bridged' = Bridged
           /\ Object(k)'.evm = EvmAddress(Object(k)) /\ EvmAddress(Object(k)) \in Tokens
           /\ \A j \in 1..Len(Bridged) :
                  /\ IsNftAt(j)' = IsNftAt(j) /\ Object(j)'.contract = Object(j).contract
                  /\ Object(j)'.amount = Object(j).amount
                  /\ Object(j).evm # Unknown => Object(j)'.evm = Object(j).evm
  <1> DEFINE evm == EvmAddress(Object(k))
             r == Bridged[k]
  <1>1. r \in 1..Len(objects) /\ Object(k) = objects[r]
    BY BridgedPlaces DEF Object
  <1>2. /\ Len(objects') = Len(objects)
        /\ \A j \in 1..Len(objects) :
               /\ SameAsset(objects[j], objects'[j]) /\ objects'[j].amount = objects[j].amount
               /\ objects'[j].base = objects[j].base /\ objects'[j].collection = objects[j].collection
               /\ objects'[j].evm =
                      IF j = r \/ (Object(k).kind = "nft" /\ objects[j].base = Object(k).base)
                      THEN evm ELSE objects[j].evm
    BY <1>1, RememberEvmInv
  <1>3. evm \in Tokens /\ (Object(k).evm # Unknown => evm = Object(k).evm)
    BY <1>1, EvmAddressKnown DEF Tokens
  <1>4. Bridged' = Bridged
    BY DEF Bridged
  <1>5. \A j \in 1..Len(objects) :
            /\ objects[j].kind = "nft" => objects[j].base \in 1..Len(objects)
            /\ objects[j].kind # "nft" => objects[j].base = 0
    BY DEF Shared
  <1> HIDE DEF evm, r
  <1>6. \A j \in 1..Len(objects) : objects'[j].kind = objects[j].kind
                                   /\ objects'[j].contract = objects[j].contract
    BY <1>2 DEF SameAsset
  <1>7. \A j \in 1..Len(objects) : objects[j].evm # Unknown => objects'[j].evm = objects[j].evm
    <2> SUFFICES ASSUME NEW j \in 1..Len(objects), objects[j].evm # Unknown
                 PROVE  objects'[j].evm = objects[j].evm
      OBVIOUS
    <2>1. CASE j = r
      BY <1>1, <1>2, <1>3, <2>1
    <2>2. CASE j # r /\ Object(k).kind = "nft" /\ objects[j].base = Object(k).base
      <3>1. objects[j].kind = "nft"
        BY <1>1, <1>5, <2>2
      <3>2. objects[j].evm = Object(k).evm
        BY <1>1, <2>2, <3>1 DEF Shared
      <3> QED BY <1>2, <1>3, <2>2, <3>2
    <2> QED BY <1>2, <2>1, <2>2
  <1>8. Shared'
    <2>1. ASSUME NEW i \in 1..Len(objects), NEW j \in 1..Len(objects),
                 objects[i].kind = "nft", objects[j].kind = "nft", objects[i].base = objects[j].base
          PROVE  objects'[i].evm = objects'[j].evm
      <3>1. objects[i].evm = objects[j].evm
        BY <2>1 DEF Shared
      <3>2. CASE Object(k).kind = "nft" /\ objects[i].base = Object(k).base
        BY <1>2, <2>1, <3>2
      <3>3. CASE Object(k).kind = "nft" /\ objects[i].base # Object(k).base
        BY <1>1, <1>2, <2>1, <3>1, <3>3
      <3>4. CASE Object(k).kind # "nft"
        BY <1>1, <1>2, <2>1, <3>1, <3>4
      <3> QED BY <3>2, <3>3, <3>4
    <2> QED BY <1>2, <1>6, <2>1 DEF Shared
  <1>9. ASSUME NEW j \in 1..Len(Bridged)
        PROVE  /\ IsNftAt(j)' = IsNftAt(j) /\ Object(j)'.contract = Object(j).contract
               /\ Object(j)'.amount = Object(j).amount
               /\ Object(j).evm # Unknown => Object(j)'.evm = Object(j).evm
    <2>1. Bridged[j] \in 1..Len(objects)
      BY BridgedPlaces
    <2>2. Object(j)' = objects'[Bridged[j]] /\ Object(j) = objects[Bridged[j]]
      BY <1>4 DEF Object
    <2> QED BY <1>2, <1>6, <1>7, <2>1, <2>2 DEF IsNftAt
  <1>10. Object(k)'.evm = evm
    <2>1. Object(k)' = objects'[r]
      BY <1>4 DEF Object, r
    <2> QED BY <1>1, <1>2, <2>1
  <1> QED BY <1>3, <1>4, <1>8, <1>9, <1>10 DEF evm

\* What is in the list may be approved.
LEMMA ObjectTypes ==
    ASSUME FactoryInv, NEW k \in 1..Len(Bridged)
    PROVE  Object(k).amount \in Nat /\ (Object(k).evm # Unknown => Object(k).evm \in Tokens)
  <1>1. Object(k) \in AssetObject
    BY BridgedPlaces DEF Object, FactoryInv, FactoryTypes
  <1> QED BY <1>1 DEF AssetObject, Tokens

LEMMA UnknownToken == Unknown \notin Tokens
  BY FactoryAssumption DEF Tokens, Unknown, Ton, Nowhere

\* An approval, of which the state of the bridging need not tell.
LEMMA Approved ==
    ASSUME FactoryInv, Shared, BridgeInv, NEW k \in 1..Len(Bridged), bridge.phase = "approve",
           RememberEvm(k), UNCHANGED <<bridged, named, cache, done, call>>, bridge'.value = bridge.value,
           SetApproval(Object(k), EvmAddress(Object(k)))
    PROVE  /\ LeftOver' /\ allowance' \in [Tokens -> Nat] /\ approved \subseteq approved'
           /\ ~IsNftAt(k) => allowance'[EvmAddress(Object(k))] = Object(k).amount
           /\ IsNftAt(k) => <<EvmAddress(Object(k)), Object(k).contract>> \in approved'
           /\ \A x \in Tokens : allowance'[x] = allowance[x]
                                \/ (~IsNftAt(k) /\ x = EvmAddress(Object(k)))
  <1> DEFINE evm == EvmAddress(Object(k))
             n == Object(k).amount
  <1>1. allowance \in [Tokens -> Nat] /\ n \in Nat /\ evm \in Tokens
    BY Remembered, ObjectTypes DEF BridgeInv
  <1>2. /\ IsNftAt(k) => approved' = approved \union {<<evm, Object(k).contract>>} /\ allowance' = allowance
        /\ ~IsNftAt(k) => allowance' = [allowance EXCEPT ![evm] = n] /\ approved' = approved
    BY DEF SetApproval, IsNftAt
  <1> HIDE DEF evm, n
  <1>3. /\ allowance' \in [Tokens -> Nat] /\ approved \subseteq approved'
        /\ ~IsNftAt(k) => allowance'[evm] = n
        /\ IsNftAt(k) => <<evm, Object(k).contract>> \in approved'
        /\ \A x \in Tokens : allowance'[x] = allowance[x] \/ (~IsNftAt(k) /\ x = evm)
    BY <1>1, <1>2
  <1>4. /\ Bridged' = Bridged /\ Object(k)'.evm = evm
        /\ \A j \in 1..Len(Bridged) :
                  /\ IsNftAt(j)' = IsNftAt(j) /\ Object(j)'.amount = Object(j).amount
                  /\ Object(j).evm # Unknown => Object(j)'.evm = Object(j).evm
    BY Remembered DEF evm
  <1>5. ASSUME NEW x \in Tokens, allowance'[x] # 0
        PROVE  \E j \in 1..Len(Bridged) : /\ ~IsNftAt(j)' /\ Object(j)'.evm = x
                                          /\ Object(j)'.amount = allowance'[x]
    <2>1. CASE ~IsNftAt(k) /\ x = evm
      BY <1>3, <1>4, <2>1 DEF n
    <2>2. CASE allowance'[x] = allowance[x]
      <3>1. PICK j \in 1..Len(Bridged) : /\ ~IsNftAt(j) /\ Object(j).evm = x
                                         /\ Object(j).amount = allowance[x]
        BY <1>5, <2>2 DEF BridgeInv, LeftOver
      <3>2. Object(j).evm # Unknown
        BY <3>1, UnknownToken
      <3> QED BY <1>4, <2>2, <3>1, <3>2
    <2> QED BY <1>3, <2>1, <2>2
  <1>6. LeftOver'
    BY <1>4, <1>5 DEF LeftOver, Tokens
  <1> QED BY <1>3, <1>6 DEF evm, n

LEMMA ApproveBridge ==
    ASSUME FactoryInv, Shared, BridgeInv, BridgeTypes', Approve PROVE Shared' /\ BridgeInv'
  <1>0. PICK k, evm : k = bridge.next /\ evm = EvmAddress(Object(k))
    OBVIOUS
  <1>1. /\ k \in 1..Len(Bridged) /\ Len(Bridged) \in Nat
        /\ bridge.phase = "approve" /\ SetApproval(Object(k), evm) /\ RememberEvm(k)
        /\ UNCHANGED <<bridged, named, cache, done, call, outMessage>>
        /\ bridge'.next = k + 1 /\ bridge'.phase = "approve" /\ bridge'.value = bridge.value
    <2>1. Len(Bridged) \in Nat
      BY BridgedPrefix, BridgeAssumption DEF FactoryInv, FactoryTypes
    <2> QED BY <1>0, <2>1 DEF Approve, NextAsset, BridgeInv, BridgeTypes
  <1>2. /\ LeftOver' /\ allowance' \in [Tokens -> Nat] /\ approved \subseteq approved'
        /\ ~IsNftAt(k) => allowance'[evm] = Object(k).amount
        /\ IsNftAt(k) => <<evm, Object(k).contract>> \in approved'
        /\ \A x \in Tokens : allowance'[x] = allowance[x] \/ (~IsNftAt(k) /\ x = evm)
    BY <1>0, <1>1, Approved
  <1>3. /\ Shared' /\ Bridged' = Bridged /\ Object(k)'.evm = evm /\ evm \in Tokens
        /\ \A j \in 1..Len(Bridged) :
                  /\ IsNftAt(j)' = IsNftAt(j) /\ Object(j)'.contract = Object(j).contract
                  /\ Object(j)'.amount = Object(j).amount
                  /\ Object(j).evm # Unknown => Object(j)'.evm = Object(j).evm
    BY <1>0, <1>1, Remembered
  <1>4. (allowance \in [Tokens -> Nat])'
    BY <1>2 DEF Tokens
  <1>5. Bridging'
    BY <1>1, <1>3 DEF BridgeInv, Bridging
  <1>6. MessageSent'
    BY <1>1 DEF BridgeInv, MessageSent
  <1>7. ASSUME NEW j \in 1..Len(Bridged), j < k + 1
        PROVE  /\ Object(j)'.evm # Unknown
               /\ IsNftAt(j)' => <<Object(j)'.evm, Object(j)'.contract>> \in approved'
               /\ (/\ ~IsNftAt(j)'
                   /\ \A i \in 1..Len(Bridged) :
                          j < i /\ i < k + 1 /\ ~IsNftAt(i)' => Object(i)'.evm # Object(j)'.evm)
                      => allowance'[Object(j)'.evm] = Object(j)'.amount
    <2>1. CASE j = k
      BY <1>2, <1>3, <2>1, UnknownToken
    <2>2. CASE j # k
      <3>1. j < k /\ j \in 1..Len(Bridged)
        BY <1>1, <1>7, <2>2
      <3>2. /\ Object(j).evm # Unknown
            /\ IsNftAt(j) => <<Object(j).evm, Object(j).contract>> \in approved
            /\ (/\ ~IsNftAt(j)
                /\ \A i \in 1..Len(Bridged) :
                       j < i /\ i < k /\ ~IsNftAt(i) => Object(i).evm # Object(j).evm)
                   => allowance[Object(j).evm] = Object(j).amount
        BY <1>0, <1>1, <3>1 DEF BridgeInv, Approvals
      <3>3. Object(j)'.evm = Object(j).evm /\ Object(j).evm \in Tokens
        BY <1>3, <3>2, ObjectTypes
      <3>4. IsNftAt(j)' => <<Object(j)'.evm, Object(j)'.contract>> \in approved'
        BY <1>2, <1>3, <3>2, <3>3
      <3>5. ASSUME ~IsNftAt(j)',
                   \A i \in 1..Len(Bridged) :
                       j < i /\ i < k + 1 /\ ~IsNftAt(i)' => Object(i)'.evm # Object(j)'.evm
            PROVE  allowance'[Object(j)'.evm] = Object(j)'.amount
        <4>1. \A i \in 1..Len(Bridged) :
                  j < i /\ i < k /\ ~IsNftAt(i) => Object(i).evm # Object(j).evm
          <5> SUFFICES ASSUME NEW i \in 1..Len(Bridged), j < i, i < k, ~IsNftAt(i)
                       PROVE  Object(i).evm # Object(j).evm
            OBVIOUS
          <5>1. Object(i).evm # Unknown
            BY <1>0, <1>1 DEF BridgeInv, Approvals
          <5>2. Object(i)'.evm = Object(i).evm /\ ~IsNftAt(i)' /\ i < k + 1
            BY <1>1, <1>3, <5>1
          <5> QED BY <3>3, <3>5, <5>2
        <4>2. allowance[Object(j).evm] = Object(j).amount
          BY <1>3, <3>2, <3>5, <4>1
        <4>3. ~IsNftAt(k) => evm # Object(j).evm
          <5>1. k < k + 1
            BY <1>1
          <5> QED BY <1>1, <1>3, <3>1, <3>3, <3>5, <5>1
        <4> QED BY <1>2, <1>3, <3>3, <4>2, <4>3
      <3> QED BY <3>2, <3>3, <3>4, <3>5
    <2> QED BY <2>1, <2>2
  <1>8. Approvals'
    BY <1>0, <1>1, <1>3, <1>7 DEF Approvals
  <1> QED BY <1>2, <1>3, <1>4, <1>5, <1>6, <1>8 DEF BridgeInv

LEMMA ApproveFailsBridge ==
    ASSUME FactoryInv, Shared, BridgeInv, BridgeTypes', ApproveFails PROVE Shared' /\ BridgeInv'
  <1>0. PICK k, evm : k = bridge.next /\ evm = EvmAddress(Object(k))
    OBVIOUS
  <1>1. /\ k \in 1..Len(Bridged) /\ bridge.phase = "approve"
        /\ UNCHANGED <<bridged, named, cache, done, call, outMessage>>
        /\ bridge'.phase = "rejected" /\ bridge'.value = bridge.value
        /\ call[Bridger].phase = "resolved" /\ outMessage = NotSent
    <2>1. Len(Bridged) \in Nat
      BY BridgedPrefix, BridgeAssumption DEF FactoryInv, FactoryTypes
    <2> QED BY <1>0, <2>1 DEF ApproveFails, Go, BridgeInv, BridgeTypes, Bridging, MessageSent
  <1>2. /\ Shared' /\ LeftOver' /\ allowance' \in [Tokens -> Nat]
    <2>1. CASE RememberEvm(k) /\ SetApproval(Object(k), evm)
      BY <1>0, <1>1, <2>1, Approved, Remembered
    <2>2. CASE UNCHANGED <<objects, allowance, approved>>
      <3>1. Shared'
        BY <2>2 DEF Shared
      <3>2. LeftOver'
        BY <1>1, <2>2 DEF BridgeInv, LeftOver, Bridged, Object, IsNftAt, Tokens
      <3> QED BY <2>2, <3>1, <3>2 DEF BridgeInv
    <2>3. CASE RememberEvm(k) /\ UNCHANGED <<allowance, approved>>
      <3>1. /\ Shared' /\ Bridged' = Bridged
            /\ \A j \in 1..Len(Bridged) :
                  /\ IsNftAt(j)' = IsNftAt(j) /\ Object(j)'.amount = Object(j).amount
                  /\ Object(j).evm # Unknown => Object(j)'.evm = Object(j).evm
        BY <1>0, <1>1, <2>3, Remembered
      <3>2. ASSUME NEW x \in Tokens, allowance[x] # 0
            PROVE  \E j \in 1..Len(Bridged) : /\ ~IsNftAt(j)' /\ Object(j)'.evm = x
                                              /\ Object(j)'.amount = allowance[x]
        BY <3>1, <3>2, UnknownToken DEF BridgeInv, LeftOver
      <3>3. LeftOver'
        BY <2>3, <3>1, <3>2 DEF LeftOver, Tokens
      <3> QED BY <2>3, <3>1, <3>3 DEF BridgeInv
    <2> QED BY <1>0, <2>1, <2>2, <2>3 DEF ApproveFails
  <1>3. Bridging' /\ Approvals' /\ MessageSent'
    <2>1. bridge'.next = bridge.next /\ Bridged' = Bridged
      BY <1>1 DEF ApproveFails, Go, BridgeInv, BridgeTypes, Bridged
    <2> QED BY <1>1, <2>1 DEF Bridging, Approvals, MessageSent, BridgeInv
  <1> QED BY <1>2, <1>3 DEF BridgeInv, Tokens

\* What a message takes of one token.
LEMMA TakenOf ==
    ASSUME FactoryInv, NEW x
    PROVE  /\ Taken(MessageToTon, x) =
                  SumFunctionOnSet([k \in Positions(FALSE) |-> Object(k).amount],
                                   {k \in Positions(FALSE) : EvmAddress(Object(k)) = x})
           /\ Taken(MessageToTon, x) \in Nat
           /\ \A k \in Positions(FALSE) :
                  EvmAddress(Object(k)) = x => Object(k).amount <= Taken(MessageToTon, x)
           /\ \A k \in Positions(FALSE) :
                  {j \in Positions(FALSE) : EvmAddress(Object(j)) = x} = {k} =>
                      Taken(MessageToTon, x) = Object(k).amount
           /\ {j \in Positions(FALSE) : EvmAddress(Object(j)) = x} = {} => Taken(MessageToTon, x) = 0
  <1> DEFINE m == MessageToTon
             P == Positions(FALSE)
             S == {k \in P : EvmAddress(Object(k)) = x}
             f == [k \in P |-> Object(k).amount]
  <1>1. DOMAIN m.toBridge = P /\ \A k \in P : m.toBridge[k] = EntryOf(k)
    BY DEF MessageToTon
  <1>2. \A k \in P : m.toBridge[k].amount = Object(k).amount /\ m.toBridge[k].evm = EvmAddress(Object(k))
    <2> HIDE DEF m, P
    <2>1. \A k : EntryOf(k).amount = Object(k).amount
      BY DEF EntryOf
    <2>2. \A k : EntryOf(k).evm = EvmAddress(Object(k))
      BY DEF EntryOf
    <2> QED BY <1>1, <2>1, <2>2
  <1>3. /\ [k \in DOMAIN m.toBridge |-> m.toBridge[k].amount] = f
        /\ {k \in DOMAIN m.toBridge : m.toBridge[k].evm = x} = S
    <2> HIDE DEF P, m
    <2> QED BY <1>1, <1>2
  <1>4. Taken(m, x) = SumFunctionOnSet(f, S)
    BY <1>3 DEF Taken
  <1>5. IsFiniteSet(S)
    <2>1. Len(Bridged) \in Nat
      BY BridgedPrefix, BridgeAssumption DEF FactoryInv, FactoryTypes
    <2>2. IsFiniteSet(1..Len(Bridged)) /\ S \subseteq 1..Len(Bridged)
      BY <2>1, FS_Interval DEF Positions
    <2> QED BY <2>2, FS_Subset
  <1>6. \A k \in P : k \in 1..Len(Bridged)
    BY DEF Positions
  <1>7. \A k \in S : f[k] \in Nat
    BY <1>6, ObjectTypes
  <1>8. /\ SumFunctionOnSet(f, S) \in Nat /\ (S = {} => SumFunctionOnSet(f, S) = 0)
        /\ \A k \in S : f[k] <= SumFunctionOnSet(f, S)
    <2> HIDE DEF f, S
    <2> QED BY <1>5, <1>7, SumOfParts, SumCoversEach
  <1>9. ASSUME NEW k \in P, S = {k} PROVE SumFunctionOnSet(f, S) = f[k]
    <2>1. f[k] \in Nat
      BY <1>7, <1>9
    <2> HIDE DEF f, S
    <2> QED BY <1>9, <2>1, SumOfOne
  <1> HIDE DEF m
  <1> QED BY <1>4, <1>8, <1>9 DEF m

\* The assets of the list are in one of the two lists of the message.
LEMMA MessageParts ==
    /\ DOMAIN MessageToTon.toBridge = Positions(FALSE)
    /\ DOMAIN MessageToTon.toBridgeNFT = Positions(TRUE)
    /\ Positions(FALSE) \union Positions(TRUE) = 1..Len(Bridged)
    /\ \A k \in Positions(FALSE) : ~IsNftAt(k) /\ MessageToTon.toBridge[k] = EntryOf(k)
    /\ \A k \in Positions(TRUE) : IsNftAt(k) /\ MessageToTon.toBridgeNFT[k] = EntryOf(k)
    /\ \A k \in 1..Len(Bridged) : IF IsNftAt(k) THEN k \in Positions(TRUE) ELSE k \in Positions(FALSE)
    /\ MessageToTon.value = bridge.value + ProtocolFee + bridge.fee
    /\ MessageToTon.sent = TRUE
  <1>1. /\ \A k \in Positions(FALSE) : k \in 1..Len(Bridged) /\ ~IsNftAt(k)
        /\ \A k \in Positions(TRUE) : k \in 1..Len(Bridged) /\ IsNftAt(k)
        /\ \A k \in 1..Len(Bridged) : IF IsNftAt(k) THEN k \in Positions(TRUE) ELSE k \in Positions(FALSE)
    BY DEF Positions, IsNftAt
  <1>2. Positions(FALSE) \union Positions(TRUE) = 1..Len(Bridged)
    BY <1>1
  <1> QED BY <1>1, <1>2 DEF MessageToTon

\* When all approvals are done, an asset has the address it was approved with.
LEMMA AllApproved ==
    ASSUME FactoryInv, Shared, BridgeInv, bridge.phase = "approve", bridge.next > Len(Bridged),
           NEW k \in 1..Len(Bridged)
    PROVE  /\ k < bridge.next /\ Object(k).evm \in Tokens /\ EvmAddress(Object(k)) = Object(k).evm
  <1>1. k < bridge.next
    <2>1. Len(Bridged) \in Nat
      BY BridgedPrefix, BridgeAssumption DEF FactoryInv, FactoryTypes
    <2> QED BY <2>1 DEF BridgeInv, BridgeTypes
  <1>2. Object(k).evm # Unknown
    BY <1>1 DEF BridgeInv, Approvals
  <1>3. EvmAddress(Object(k)) = Object(k).evm
    BY <1>2, BridgedPlaces, EvmAddressKnown DEF Object
  <1> QED BY <1>1, <1>2, <1>3, ObjectTypes

\* A message that is taken leaves no approval of a token of the list behind.
LEMMA TakeBridge ==
    ASSUME FactoryInv, Shared, BridgeInv, bridge.phase = "approve", bridge.next > Len(Bridged),
           MayTake(MessageToTon), Take(MessageToTon)
    PROVE  /\ allowance' \in [Tokens -> Nat] /\ \A x \in Tokens : allowance'[x] = 0
           /\ outMessage' = MessageToTon
  <1>1. /\ allowance \in [Tokens -> Nat] /\ outMessage' = MessageToTon
        /\ allowance' = [x \in Tokens |-> allowance[x] - Taken(MessageToTon, x)]
    BY DEF Take, BridgeInv
  <1>2. ASSUME NEW x \in Tokens PROVE allowance[x] - Taken(MessageToTon, x) = 0
    <2>1. Taken(MessageToTon, x) \in Nat /\ allowance[x] \in Nat /\ Taken(MessageToTon, x) <= allowance[x]
      BY <1>1, TakenOf DEF MayTake
    <2>2. CASE allowance[x] = 0
      BY <2>1, <2>2
    <2>3. CASE allowance[x] # 0
      <3>1. PICK k \in 1..Len(Bridged) : /\ ~IsNftAt(k) /\ Object(k).evm = x
                                         /\ Object(k).amount = allowance[x]
        BY <2>3 DEF BridgeInv, LeftOver
      <3>2. k \in Positions(FALSE) /\ EvmAddress(Object(k)) = x
        BY <3>1, MessageParts, AllApproved
      <3>3. Object(k).amount <= Taken(MessageToTon, x)
        BY <3>2, TakenOf
      <3> QED BY <2>1, <3>1, <3>3
    <2> QED BY <2>2, <2>3
  <1> QED BY <1>1, <1>2

LEMMA SendBridge ==
    ASSUME FactoryInv, Shared, BridgeInv, BridgeTypes', SendMessage \/ SendFails
    PROVE  Shared' /\ BridgeInv'
  <1>1. /\ UNCHANGED factoryVars /\ bridge.phase \in {"suggest", "approve"}
        /\ bridge'.phase \in {"sent", "rejected"}
        /\ bridge'.value = bridge.value /\ bridge'.fee = bridge.fee /\ bridge'.next = bridge.next
        /\ call[Bridger].phase = "resolved"
    BY DEF SendMessage, SendFails, Go, BridgeInv, BridgeTypes, Bridging
  <1>2. Shared' /\ Bridged' = Bridged /\ UNCHANGED <<objects, call>>
    BY <1>1 DEF Shared, factoryVars, Bridged
  <1>3. Bridging' /\ Approvals'
    BY <1>1, <1>2 DEF Bridging, Approvals, BridgeInv
  <1>4. CASE UNCHANGED <<allowance, approved, outMessage>>
    <2>1. LeftOver' /\ (allowance \in [Tokens -> Nat])'
      BY <1>2, <1>4 DEF BridgeInv, LeftOver, Object, IsNftAt, Tokens
    <2>2. outMessage' = NotSent
      BY <1>1, <1>4 DEF BridgeInv, MessageSent, Bridging
    <2> QED BY <1>2, <1>3, <2>1, <2>2 DEF BridgeInv, MessageSent
  <1>5. CASE /\ bridge.phase = "approve" /\ bridge.next > Len(Bridged)
             /\ MayTake(MessageToTon) /\ Take(MessageToTon)
    <2>1. /\ allowance' \in [Tokens -> Nat] /\ \A x \in Tokens : allowance'[x] = 0
          /\ outMessage' = MessageToTon
      BY <1>5, TakeBridge
    <2>2. LeftOver' /\ (allowance \in [Tokens -> Nat])'
      BY <2>1 DEF LeftOver, Tokens
    <2>3. /\ DOMAIN outMessage'.toBridge \union DOMAIN outMessage'.toBridgeNFT = 1..Len(Bridged)
          /\ \A k \in DOMAIN outMessage'.toBridge :
                 ~IsNftAt(k) /\ outMessage'.toBridge[k].amount = Object(k).amount
          /\ outMessage'.value = bridge.value + ProtocolFee + bridge.fee
      <3>1. \A k : EntryOf(k).amount = Object(k).amount
        BY DEF EntryOf
      <3>2. PICK m : m = MessageToTon
        OBVIOUS
      <3>3. /\ DOMAIN m.toBridge \union DOMAIN m.toBridgeNFT = 1..Len(Bridged)
            /\ \A k \in DOMAIN m.toBridge : ~IsNftAt(k) /\ m.toBridge[k] = EntryOf(k)
            /\ m.value = bridge.value + ProtocolFee + bridge.fee
        BY <3>2, MessageParts
      <3> QED BY <2>1, <3>1, <3>2, <3>3
    <2>4. MessageSent'
      BY <1>1, <1>2, <2>3 DEF MessageSent, IsNftAt, Object
    <2> QED BY <1>2, <1>3, <2>2, <2>4 DEF BridgeInv
  <1> QED BY <1>4, <1>5 DEF SendMessage, SendFails

\* A list without repetitions is covered by its approvals.
LEMMA ApprovalsCover == ASSUME FactoryInv, Shared, BridgeInv PROVE ApprovalsCoverMessage
  <1> SUFFICES ASSUME bridge.phase = "approve", bridge.next > Len(Bridged), NoRepeats, AddressesKnown
               PROVE  MayTake(MessageToTon)
    BY DEF ApprovalsCoverMessage
  <1>1. \A k \in 1..Len(Bridged) :
            k < bridge.next /\ Object(k).evm \in Tokens /\ EvmAddress(Object(k)) = Object(k).evm
    BY AllApproved
  <1>2. PICK m : m = MessageToTon
    OBVIOUS
  <1>3. /\ DOMAIN m.toBridge = Positions(FALSE) /\ DOMAIN m.toBridgeNFT = Positions(TRUE)
        /\ \A k \in Positions(TRUE) : m.toBridgeNFT[k] = EntryOf(k)
        /\ \A k \in Positions(TRUE) : k \in 1..Len(Bridged) /\ IsNftAt(k)
        /\ \A k \in Positions(FALSE) : k \in 1..Len(Bridged) /\ ~IsNftAt(k)
    BY <1>2, MessageParts
  <1>4. \A k \in Positions(TRUE) : /\ m.toBridgeNFT[k].evm = Object(k).evm
                                   /\ m.toBridgeNFT[k].contract = Object(k).contract
    <2>1. \A k : EntryOf(k).contract = Object(k).contract
      BY DEF EntryOf
    <2>2. \A k : EntryOf(k).evm = EvmAddress(Object(k))
      BY DEF EntryOf
    <2> QED BY <1>1, <1>3, <2>1, <2>2
  <1>5. \A k \in DOMAIN m.toBridgeNFT : m.toBridgeNFT[k].evm # Nowhere
    BY <1>3, <1>4 DEF AddressesKnown
  <1>6. \A j, k \in DOMAIN m.toBridgeNFT :
            j # k => m.toBridgeNFT[j].contract # m.toBridgeNFT[k].contract
    <2>1. \A j, k \in 1..Len(Bridged) :
              j # k /\ IsNftAt(j) /\ IsNftAt(k) => Object(j).contract # Object(k).contract
      BY DEF NoRepeats, IsNftAt
    <2>2. ASSUME NEW j \in DOMAIN m.toBridgeNFT, NEW k \in DOMAIN m.toBridgeNFT, j # k
          PROVE  m.toBridgeNFT[j].contract # m.toBridgeNFT[k].contract
      <3>1. j \in Positions(TRUE) /\ k \in Positions(TRUE)
        BY <1>3, <2>2
      <3>2. j \in 1..Len(Bridged) /\ IsNftAt(j) /\ k \in 1..Len(Bridged) /\ IsNftAt(k)
        BY ONLY <1>3, <3>1
      <3>3. Object(j).contract # Object(k).contract
        BY ONLY <2>1, <2>2, <3>2
      <3> QED BY ONLY <1>4, <3>1, <3>3
    <2> QED BY ONLY <2>2
  <1>7. \A k \in DOMAIN m.toBridgeNFT :
            <<m.toBridgeNFT[k].evm, m.toBridgeNFT[k].contract>> \in approved
    BY <1>1, <1>3, <1>4 DEF BridgeInv, Approvals
  <1>8. DOMAIN allowance = Tokens
    BY DEF BridgeInv
  <1>9. ASSUME NEW x \in Tokens PROVE Taken(m, x) <= allowance[x]
    <2> DEFINE S == {j \in Positions(FALSE) : EvmAddress(Object(j)) = x}
    <2>1. CASE S = {}
      <3>1. Taken(m, x) = 0
        BY <1>2, <2>1, TakenOf
      <3> QED BY <3>1 DEF BridgeInv
    <2>2. CASE S # {}
      <3>1. PICK k \in S : TRUE
        BY <2>2
      <3>2. /\ k \in 1..Len(Bridged) /\ ~IsNftAt(k) /\ EvmAddress(Object(k)) = x
            /\ \A j \in 1..Len(Bridged) : j # k /\ ~IsNftAt(j) => EvmAddress(Object(j)) # x
        BY <1>3, <3>1 DEF NoRepeats, IsNftAt
      <3>3. S = {k}
        BY <1>3, <3>1, <3>2
      <3>4. Taken(m, x) = Object(k).amount
        BY <1>2, <3>1, <3>3, TakenOf
      <3>5. \A j \in 1..Len(Bridged) : k < j /\ ~IsNftAt(j) => Object(j).evm # Object(k).evm
        <4>1. \A j \in 1..Len(Bridged) : k < j => j # k
          BY <3>2
        <4> QED BY <1>1, <3>2, <4>1
      <3>6. allowance[Object(k).evm] = Object(k).amount
        BY <1>1, <3>2, <3>5 DEF BridgeInv, Approvals
      <3>7. Object(k).amount \in Nat
        BY <3>2, ObjectTypes
      <3> QED BY <1>1, <3>2, <3>4, <3>6, <3>7
    <2> QED BY <2>1, <2>2
  <1> QED BY <1>2, <1>5, <1>6, <1>7, <1>8, <1>9 DEF MayTake

\* The list that is bridged is the one that was given.
LEMMA ListGiven ==
    ASSUME FactoryInv, call[Bridger].phase = "resolved"
    PROVE  /\ Len(ToBridge) = Len(Bridged)
           /\ \A k \in 1..Len(Bridged) : ~IsNftAt(k) => Object(k).amount = OnChainAmount(ToBridge[k], Object(k))
  <1> DEFINE s == named[Bridger]
             n == Len(s)
  <1>1. /\ s \in Seq(Inputs) /\ n \in Nat /\ Len(done[Bridger]) = n /\ done[Bridger] \in Seq(Nat)
    BY BridgeAssumption DEF FactoryInv, FactoryTypes, Progress
  <1>2. /\ Len(Bridged) = IF bridge.value = 0 \/ n = 0 THEN n ELSE n - 1
        /\ \A k \in 1..Len(Bridged) : Bridged[k] = done[Bridger][k] /\ k \in 1..n
    BY <1>1, BridgedPrefix
  <1>3. /\ Len(ToBridge) = IF bridge.value = 0 \/ n = 0 THEN n ELSE n - 1
        /\ \A k \in 1..Len(ToBridge) : ToBridge[k] = s[k]
    <2>1. CASE bridge.value = 0
      BY <1>1, <2>1 DEF ToBridge
    <2>2. CASE bridge.value # 0
      <3>1. ToBridge = SubSeq(s, 1, n - 1)
        BY <2>2 DEF ToBridge
      <3>2. CASE n = 0
        <4>1. SubSeq(s, 1, n - 1) = <<>>
          BY <1>1, <3>2
        <4> QED BY <3>1, <3>2, <4>1
      <3>3. CASE n # 0
        <4>1. 1 \in 1..n + 1 /\ n - 1 \in 0..n
          BY <1>1, <3>3
        <4>2. /\ Len(SubSeq(s, 1, n - 1)) = n - 1
              /\ \A k \in 1..n - 1 : SubSeq(s, 1, n - 1)[k] = s[k]
          BY <1>1, <4>1
        <4> HIDE DEF s, n
        <4> QED BY <2>2, <3>1, <3>3, <4>2
      <3> QED BY <3>2, <3>3
    <2> QED BY <2>1, <2>2
  <1>4. ASSUME NEW k \in 1..Len(Bridged), ~IsNftAt(k)
        PROVE  Object(k).amount = OnChainAmount(ToBridge[k], Object(k))
    <2>1. /\ Object(k) = objects[done[Bridger][k]] /\ k \in 1..Len(done[Bridger])
          /\ ToBridge[k] = named[Bridger][k]
      BY <1>1, <1>2, <1>3, <1>4 DEF Object
    <2>2. AmountGiven(named[Bridger][k], Object(k))
      BY <2>1, BridgeAssumption DEF FactoryInv, Heap, DoneRight
    <2> QED BY <1>4, <2>1, <2>2 DEF AmountGiven, IsNftAt
  <1> QED BY <1>2, <1>3, <1>4

LEMMA TakenIsGiven == ASSUME FactoryInv, Shared, BridgeInv PROVE TakenAsGiven
  <1>1. ASSUME outMessage.sent
        PROVE  /\ DOMAIN outMessage.toBridge \union DOMAIN outMessage.toBridgeNFT = 1..Len(ToBridge)
               /\ \A k \in DOMAIN outMessage.toBridge :
                      outMessage.toBridge[k].amount = OnChainAmount(ToBridge[k], Object(k))
               /\ outMessage.value = bridge.value + ProtocolFee + bridge.fee
    <2>1. outMessage # NotSent
      BY <1>1 DEF NotSent
    <2>2. call[Bridger].phase = "resolved"
      BY <2>1 DEF BridgeInv, Bridging
    <2>3. /\ DOMAIN outMessage.toBridge \union DOMAIN outMessage.toBridgeNFT = 1..Len(Bridged)
          /\ \A k \in DOMAIN outMessage.toBridge :
                 ~IsNftAt(k) /\ outMessage.toBridge[k].amount = Object(k).amount
          /\ outMessage.value = bridge.value + ProtocolFee + bridge.fee
      BY <2>1 DEF BridgeInv, MessageSent
    <2>4. \A k \in DOMAIN outMessage.toBridge : k \in 1..Len(Bridged)
      BY <2>3
    <2> QED BY <2>2, <2>3, <2>4, ListGiven
  <1>2. ASSUME NEW x \in DOMAIN allowance, allowance[x] # 0
        PROVE  \E k \in 1..Len(ToBridge) : /\ EvmAddress(Object(k)) = x
                                           /\ OnChainAmount(ToBridge[k], Object(k)) = allowance[x]
    <2>1. x \in Tokens
      BY DEF BridgeInv
    <2>2. call[Bridger].phase = "resolved"
      BY <1>2, <2>1 DEF BridgeInv, Bridging
    <2>3. PICK k \in 1..Len(Bridged) : /\ ~IsNftAt(k) /\ Object(k).evm = x
                                       /\ Object(k).amount = allowance[x]
      BY <1>2, <2>1 DEF BridgeInv, LeftOver
    <2>4. EvmAddress(Object(k)) = x
      <3>1. Object(k).evm # Unknown
        BY <2>1, <2>3, UnknownToken
      <3> QED BY <2>3, <3>1, BridgedPlaces, EvmAddressKnown DEF Object
    <2> QED BY <2>2, <2>3, <2>4, ListGiven
  <1> QED BY <1>1, <1>2 DEF TakenAsGiven

LEMMA SdkInitBridge == SdkInit => Shared /\ BridgeInv
  <1> SUFFICES ASSUME SdkInit PROVE Shared /\ BridgeInv
    OBVIOUS
  <1>1. FactoryInit /\ BridgeInit
    BY DEF SdkInit
  <1>2. Len(objects) = 0
    BY <1>1 DEF FactoryInit
  <1> QED BY <1>1, <1>2, SdkInitFactory, BridgeInvInit DEF Shared

LEMMA SdkNextBridge ==
    ASSUME FactoryInv, Shared, BridgeInv, [SdkNext]_sdkVars PROVE Shared' /\ BridgeInv'
  <1>1. BridgeTypes'
    BY SdkNextFactory DEF BridgeInv
  <1>2. CASE UNCHANGED tacVars
    BY <1>2, BridgeInvStays DEF Shared, tacVars, factoryVars
  <1>3. CASE Resolve
    BY <1>3, ResolveBridge DEF Resolve
  <1>4. CASE BridgeStep
    <2>1. CASE AssetsResolved \/ SuggestFee
      <3>1. Shared'
        <4>1. UNCHANGED objects
          BY <2>1 DEF AssetsResolved, SuggestFee, factoryVars
        <4> QED BY <4>1 DEF Shared
      <3> QED BY <1>1, <2>1, <3>1, FeeBridge
    <2> QED BY <1>1, <1>4, <2>1, ApproveBridge, ApproveFailsBridge, SendBridge DEF BridgeStep
  <1>5. CASE CreateSdk \/ NormalizeBatch \/ Prepare \/ UNCHANGED sdkVars
    BY <1>2, <1>5 DEF CreateSdk, NormalizeBatch, Prepare, sdkVars
  <1> QED BY <1>3, <1>4, <1>5 DEF SdkNext, BridgeToTon

(***************************************************************************)
(* A bridging takes every asset of the list once, in its amount, with the  *)
(* native one as a part of the value; a list that names nothing twice is   *)
(* covered by its approvals; and what may still be taken after a failure   *)
(* is an asset of the list (TACTransactionManager.bridgeTokensToTON): for  *)
(* any list, any fee, whichever transactions fail and whatever the other   *)
(* callers resolve meanwhile.                                              *)
(***************************************************************************)
THEOREM BridgedTheorem == SdkSpec => []BridgedAsGiven
  <1> DEFINE I == FactoryInv /\ Shared /\ BridgeInv
  <1>1. SdkInit => I
    BY SdkInitFactory, SdkInitBridge
  <1>2. I /\ [SdkNext]_sdkVars => I'
    BY SdkNextFactory, SdkNextBridge DEF BridgeInv
  <1>3. I => BridgedAsGiven
    BY ApprovalsCover, TakenIsGiven DEF BridgedAsGiven
  <1> HIDE DEF I
  <1> QED BY <1>1, <1>2, <1>3, PTL DEF SdkSpec

-------------------------------------------------------------------------------
(* CrossChainPrepare: what the folds over lists compute.                       *)

\* A finite set of numbers has a greatest and a least one.
LEMMA Extremes ==
    ASSUME NEW n \in Nat, NEW s \in SUBSET (1..n), s # {}
    PROVE  /\ Max(s) \in s /\ \A y \in s : Max(s) >= y
           /\ Min(s) \in s /\ \A y \in s : Min(s) <= y
  <1> DEFINE N == {m \in Nat : \A r \in SUBSET (1..m) : r # {} =>
                      /\ \E x \in r : \A y \in r : x >= y
                      /\ \E x \in r : \A y \in r : x =< y}
  <1>1. 0 \in N
    <2>1. \A r \in SUBSET (1..0) : r = {}
      OBVIOUS
    <2> QED BY <2>1
  <1>2. ASSUME NEW m \in Nat, m \in N PROVE m + 1 \in N
    <2>1. ASSUME NEW r \in SUBSET (1..m + 1), r # {}
          PROVE  (\E x \in r : \A y \in r : x >= y) /\ (\E x \in r : \A y \in r : x =< y)
      <3> DEFINE q == r \ {m + 1}
      <3>1. q \in SUBSET (1..m) /\ \A y \in r : y \in q \/ y = m + 1
        OBVIOUS
      <3>2. CASE q = {}
        <4>1. r = {m + 1}
          BY <2>1, <3>1, <3>2
        <4> QED BY <4>1
      <3>3. CASE q # {}
        <4>1. (\E x \in q : \A y \in q : x >= y) /\ (\E x \in q : \A y \in q : x =< y)
          BY <1>2, <3>1, <3>3
        <4>2. PICK x \in q : \A y \in q : x =< y
          BY <4>1
        <4>3. \E z \in r : \A y \in r : z =< y
          BY <3>1, <4>2
        <4>4. CASE m + 1 \in r
          BY <3>1, <4>3, <4>4
        <4>5. CASE m + 1 \notin r
          <5>1. q = r
            BY <4>5
          <5> QED BY <4>1, <5>1
        <4> QED BY <4>4, <4>5
      <3> QED BY <3>2, <3>3
    <2> QED BY <2>1
  <1>3. \A m \in Nat : m \in N
    <2> HIDE DEF N
    <2> QED BY <1>1, <1>2, NatInd
  <1>4. (\E x \in s : \A y \in s : x >= y) /\ (\E x \in s : \A y \in s : x =< y)
    BY <1>3
  <1> QED BY <1>4 DEF Max, Min

\* Induction over the elements of a finite set, in the order of c.
LEMMA FinInd ==
    ASSUME NEW S, IsFiniteSet(S), NEW c, Picks(c, S), NEW N, {} \in N,
           \A s \in SUBSET S : s # {} /\ s \ {c[s]} \in N => s \in N
    PROVE  S \in N
  <1> DEFINE it == [s \in SUBSET S |-> s]
  <1>1. \A s \in SUBSET S : it[s] = s
    OBVIOUS
  <1>2. it[{}] \in N
    BY <1>1
  <1>3. \A s \in SUBSET S : s # {} => s \ {c[s]} \in SUBSET S
    OBVIOUS
  <1> HIDE DEF it
  <1>4. \A s \in SUBSET S : s # {} /\ it[s \ {c[s]}] \in N => it[s] \in N
    BY <1>1, <1>3
  <1>5. \A s \in SUBSET S : it[s] \in N
    BY ONLY IsFiniteSet(S), Picks(c, S), <1>2, <1>4, FoldStays, Zenon
  <1> QED BY <1>1, <1>5

\* FoldLeft takes a list from its end.
FromEnd(n) == [s \in SUBSET (1..n) |-> Max(s)]

LEMMA FromEndPicks ==
    ASSUME NEW n \in Nat
    PROVE  /\ IsFiniteSet(1..n) /\ Picks(FromEnd(n), 1..n)
           /\ \A s \in SUBSET (1..n) : FromEnd(n)[s] = Max(s)
  <1>1. IsFiniteSet(1..n)
    BY FS_Interval
  <1>2. \A s \in SUBSET (1..n) : FromEnd(n)[s] = Max(s)
    BY DEF FromEnd
  <1>3. \A s \in SUBSET (1..n) : s # {} => Max(s) \in s
    BY Extremes
  <1> QED BY <1>1, <1>2, <1>3 DEF Picks

-------------------------------------------------------------------------------
(* Sums over lists. *)

LEMMA SumOfPlus ==
    ASSUME NEW S, IsFiniteSet(S), NEW f, \A x \in S : f[x] \in Nat, NEW g, \A x \in S : g[x] \in Nat,
           NEW h, \A x \in S : h[x] = f[x] + g[x]
    PROVE  SumFunctionOnSet(h, S) = SumFunctionOnSet(f, S) + SumFunctionOnSet(g, S)
  <1> DEFINE N == {s \in SUBSET S : SumFunctionOnSet(h, s) = SumFunctionOnSet(f, s) + SumFunctionOnSet(g, s)}
             c == [s \in SUBSET S |-> CHOOSE x \in s : TRUE]
  <1>1. Picks(c, S)
    BY DEF Picks
  <1>2. \A x \in S : h[x] \in Nat
    OBVIOUS
  <1>3. {} \in N
    <2>1. IsFiniteSet({})
      BY FS_EmptySet
    <2>2. SumFunctionOnSet(h, {}) = 0 /\ SumFunctionOnSet(f, {}) = 0 /\ SumFunctionOnSet(g, {}) = 0
      BY <2>1, SumOfParts
    <2> QED BY <2>2
  <1>4. ASSUME NEW s \in SUBSET S, s # {}, s \ {c[s]} \in N PROVE s \in N
    <2>1. PICK y \in s : y = c[s]
      BY <1>1, <1>4 DEF Picks
    <2>2. IsFiniteSet(s) /\ IsFiniteSet(s \ {y})
      BY FS_Subset
    <2>3. /\ SumFunctionOnSet(h, s) = h[y] + SumFunctionOnSet(h, s \ {y})
          /\ SumFunctionOnSet(f, s) = f[y] + SumFunctionOnSet(f, s \ {y})
          /\ SumFunctionOnSet(g, s) = g[y] + SumFunctionOnSet(g, s \ {y})
      <3>1. \A x \in s : f[x] \in Nat /\ g[x] \in Nat /\ h[x] \in Nat
        BY <1>2
      <3> QED BY <2>2, <3>1, SumOfParts
    <2>4. /\ SumFunctionOnSet(f, s \ {y}) \in Nat /\ SumFunctionOnSet(g, s \ {y}) \in Nat
      <3>1. \A x \in s \ {y} : f[x] \in Nat /\ g[x] \in Nat
        OBVIOUS
      <3> QED BY <2>2, <3>1, SumOfParts
    <2>5. /\ SumFunctionOnSet(h, s \ {y}) = SumFunctionOnSet(f, s \ {y}) + SumFunctionOnSet(g, s \ {y})
          /\ h[y] = f[y] + g[y] /\ f[y] \in Nat /\ g[y] \in Nat
      BY <1>4, <2>1
    <2> QED BY <2>3, <2>4, <2>5
  <1> HIDE DEF N, c
  <1>5. S \in N
    BY <1>1, <1>3, <1>4, FinInd
  <1> QED BY <1>5 DEF N

LEMMA SumOfSame ==
    ASSUME NEW S, IsFiniteSet(S), NEW n \in Nat, NEW f, \A x \in S : f[x] = n
    PROVE  SumFunctionOnSet(f, S) = Cardinality(S) * n
  <1> DEFINE N == {s \in SUBSET S : SumFunctionOnSet(f, s) = Cardinality(s) * n}
             c == [s \in SUBSET S |-> CHOOSE x \in s : TRUE]
  <1>1. Picks(c, S)
    BY DEF Picks
  <1>2. {} \in N
    <2>1. IsFiniteSet({}) /\ Cardinality({}) = 0
      BY FS_EmptySet
    <2>2. SumFunctionOnSet(f, {}) = 0
      BY <2>1, SumOfParts
    <2> QED BY <2>1, <2>2
  <1>3. ASSUME NEW s \in SUBSET S, s # {}, s \ {c[s]} \in N PROVE s \in N
    <2>1. PICK y \in s : y = c[s]
      BY <1>1, <1>3 DEF Picks
    <2>2. IsFiniteSet(s) /\ \A x \in s : f[x] \in Nat
      BY FS_Subset
    <2>3. SumFunctionOnSet(f, s) = f[y] + SumFunctionOnSet(f, s \ {y})
      BY <2>2, SumOfParts
    <2>4. PICK m \in Nat : m = Cardinality(s \ {y}) /\ Cardinality(s) = m + 1
      BY SmallerSubsets
    <2>5. SumFunctionOnSet(f, s) = n + m * n
      BY <1>3, <2>1, <2>3, <2>4
    <2>6. n + m * n = (m + 1) * n
      OBVIOUS
    <2> QED BY <2>4, <2>5, <2>6
  <1> HIDE DEF N, c
  <1>4. S \in N
    BY <1>1, <1>2, <1>3, FinInd
  <1> QED BY <1>4 DEF N

\* b numbers the elements of S.
Numbers(b, n, S) ==
    /\ \A i \in 1..n : b[i] \in S
    /\ \A i, j \in 1..n : b[i] = b[j] => i = j
    /\ \A x \in S : \E i \in 1..n : b[i] = x

\* What a list without repetitions sums up is what its set does.
LEMMA SumOfList ==
    ASSUME NEW S, IsFiniteSet(S), NEW g, \A x \in S : g[x] \in Nat, NEW n \in Nat,
           NEW b, Numbers(b, n, S),
           NEW f, \A i \in 1..n : f[i] = g[b[i]]
    PROVE  SumFunctionOnSet(f, 1..n) = SumFunctionOnSet(g, S)
  <1> DEFINE Img(m) == {b[i] : i \in 1..m}
             N == {m \in Nat : m <= n => SumFunctionOnSet(f, 1..m) = SumFunctionOnSet(g, Img(m))}
  <1> USE DEF Numbers
  <1>1. 0 \in N
    <2>1. 1..0 = {} /\ Img(0) = {} /\ IsFiniteSet({})
      BY FS_EmptySet
    <2>2. SumFunctionOnSet(f, {}) = 0 /\ SumFunctionOnSet(g, {}) = 0
      BY <2>1, SumOfParts
    <2> QED BY <2>1, <2>2
  <1>2. ASSUME NEW m \in Nat, m \in N PROVE m + 1 \in N
    <2>1. SUFFICES ASSUME m + 1 <= n
                   PROVE  SumFunctionOnSet(f, 1..m + 1) = SumFunctionOnSet(g, Img(m + 1))
      OBVIOUS
    <2>2. /\ (1..m + 1) \ {m + 1} = 1..m /\ m + 1 \in 1..m + 1
          /\ Img(m + 1) \ {b[m + 1]} = Img(m) /\ b[m + 1] \in Img(m + 1)
      BY <2>1
    <2>3. /\ IsFiniteSet(1..m + 1) /\ IsFiniteSet(Img(m + 1))
          /\ \A i \in 1..m + 1 : f[i] \in Nat
          /\ \A x \in Img(m + 1) : g[x] \in Nat
      <3>1. Img(m + 1) \in SUBSET S
        BY <2>1
      <3>2. IsFiniteSet(1..m + 1)
        BY FS_Interval
      <3>3. IsFiniteSet(Img(m + 1))
        BY <3>1, FS_Subset
      <3>4. \A i \in 1..m + 1 : f[i] = g[b[i]] /\ b[i] \in S
        BY <2>1
      <3>5. \A i \in 1..m + 1 : f[i] \in Nat
        BY <3>4
      <3> QED BY <3>1, <3>2, <3>3, <3>5
    <2>4. /\ SumFunctionOnSet(f, 1..m + 1) = f[m + 1] + SumFunctionOnSet(f, 1..m)
          /\ SumFunctionOnSet(g, Img(m + 1)) = g[b[m + 1]] + SumFunctionOnSet(g, Img(m))
      <3> DEFINE I == Img(m + 1)
                 J == 1..m + 1
      <3>1. m + 1 \in J /\ IsFiniteSet(J) /\ \A x \in J : f[x] \in Nat
        BY <2>2, <2>3
      <3>2. b[m + 1] \in I /\ IsFiniteSet(I) /\ \A x \in I : g[x] \in Nat
        BY <2>2, <2>3
      <3>4. J \ {m + 1} = 1..m /\ I \ {b[m + 1]} = Img(m)
        BY <2>2
      <3> HIDE DEF I, J
      <3>6. SumFunctionOnSet(f, J) = f[m + 1] + SumFunctionOnSet(f, J \ {m + 1})
        BY ONLY <3>1, SumOfParts, Zenon
      <3>3. SumFunctionOnSet(g, I) = g[b[m + 1]] + SumFunctionOnSet(g, I \ {b[m + 1]})
        BY ONLY <3>2, SumOfParts, Zenon
      <3> QED BY <3>3, <3>4, <3>6 DEF I, J
    <2> QED BY <1>2, <2>1, <2>4
  <1>3. \A m \in Nat : m \in N
    <2> HIDE DEF N
    <2> QED BY <1>1, <1>2, NatInd
  <1>4. Img(n) = S
    OBVIOUS
  <1> QED BY <1>3, <1>4

-------------------------------------------------------------------------------
(* aggregateTokens. *)

\* A fold that adds f up, in whatever order, computes the sum of f.
LEMMA FoldAddsUp ==
    ASSUME NEW S, IsFiniteSet(S), NEW c, Picks(c, S), NEW f, \A x \in S : f[x] \in Nat,
           NEW it, it[{}] = 0, \A s \in SUBSET S : s # {} => it[s] = f[c[s]] + it[s \ {c[s]}]
    PROVE  it[S] = SumFunctionOnSet(f, S)
  <1>1. PICK jt : AddsUp(jt, c, f, S)
    BY SumExists
  <1>2. jt[{}] = 0 /\ \A s \in SUBSET S : s # {} => jt[s] = f[c[s]] + jt[s \ {c[s]}]
    BY <1>1 DEF AddsUp
  <1>3. \A s \in SUBSET S : it[s] = jt[s]
    <2>1. it[{}] = jt[{}]
      BY <1>2
    <2>2. \A s \in SUBSET S : s # {} /\ it[s \ {c[s]}] = jt[s \ {c[s]}] => it[s] = jt[s]
      BY <1>2
    <2> QED BY ONLY IsFiniteSet(S), Picks(c, S), <2>1, <2>2, FoldUnique
  <1>4. PICK kt, d : Picks(d, S) /\ AddsUp(kt, d, f, S) /\ SumFunctionOnSet(f, S) = kt[S]
    BY SumComputes
  <1>5. jt[S] = kt[S]
    BY <1>1, <1>4, SumsAgree
  <1> QED BY <1>3, <1>4, <1>5

\* An amount that is summed up position by position is the sum over the positions.
LEMMA RawAmountIs ==
    ASSUME NEW cart \in Seq(Assets), NEW id
    PROVE  RawAmount(cart, id) = Demand(cart, id) /\ Demand(cart, id) \in Nat
  <1> DEFINE n == Len(cart)
             g == [k \in 1..n |-> IF cart[k].id = id THEN cart[k].amount ELSE 0]
             h == [k \in 1..n |-> cart[k].amount]
             P == {k \in 1..n : cart[k].id = id}
  <1>1. n \in Nat /\ \A k \in 1..n : cart[k].amount \in Nat
    <2>1. n \in Nat /\ \A k \in 1..n : cart[k] \in Assets
      OBVIOUS
    <2>2. \A a \in Assets : a.amount \in Nat
      BY DEF Assets
    <2> HIDE DEF n
    <2> QED BY <2>1, <2>2
  <1>2. PICK D : D = 1..n /\ DOMAIN cart = D
    OBVIOUS
  <1> DEFINE Step(it, s) == IF s = {} THEN 0
                            ELSE IF cart[Max(s)].id = id THEN it[s \ {Max(s)}] + cart[Max(s)].amount
                                                         ELSE it[s \ {Max(s)}]
             Takes(it) == it = [s \in SUBSET D |-> Step(it, s)]
             sum == CHOOSE it : Takes(it)
  <1>3. RawAmount(cart, id) = sum[D]
    BY <1>2 DEF RawAmount, FoldLeft, MapThenFoldSet
  <1>4. PICK c : IsFiniteSet(D) /\ Picks(c, D) /\ \A s \in SUBSET D : c[s] = Max(s)
    BY <1>1, <1>2, FromEndPicks
  <1>4a. IsFiniteSet(D)
    BY <1>4
  <1>4b. Picks(c, D)
    BY <1>4
  <1>5. \A k \in D : g[k] \in Nat /\ g[k] = IF cart[k].id = id THEN cart[k].amount ELSE 0
    BY <1>1, <1>2
  <1>6. \A k \in D : h[k] \in Nat /\ h[k] = cart[k].amount
    BY <1>1, <1>2
  <1>7. P \in SUBSET D /\ (\A k \in D : k \in P <=> cart[k].id = id) /\ IsFiniteSet(P)
    BY <1>2, <1>4, FS_Subset
  <1>8. Demand(cart, id) = SumFunctionOnSet(h, P)
    BY DEF Demand
  <1>9. \A s \in SUBSET D : s # {} => c[s] \in D /\ c[s] \in s /\ s \ {c[s]} \in SUBSET D
    BY <1>4 DEF Picks
  <1>10. \A k \in D : cart[k].amount \in Nat
    BY <1>1, <1>2
  <1> HIDE DEF n, g, h, P
  <1>11. \E it : Takes(it)
    <2>0. \A k \in D : g[k] \in Nat
      BY <1>5
    <2>1. PICK jt : AddsUp(jt, c, g, D)
      BY ONLY <1>4a, <1>4b, <2>0, SumExists
    <2>1a. \A s \in SUBSET D : jt[s] \in Nat
      BY ONLY <1>4a, <1>4b, <2>0, <2>1, SumAnyOrder
    <2>1b. /\ jt = [s \in SUBSET D |-> jt[s]] /\ jt[{}] = 0
           /\ \A s \in SUBSET D : s # {} => jt[s] = g[c[s]] + jt[s \ {c[s]}]
      BY <2>1 DEF AddsUp
    <2>2. ASSUME NEW s \in SUBSET D PROVE jt[s] = Step(jt, s)
      <3>1. CASE s = {}
        BY <2>1b, <3>1
      <3>2. CASE s # {}
        <4>1. Max(s) \in D /\ c[s] = Max(s) /\ jt[s \ {Max(s)}] \in Nat
          BY <1>4, <1>9, <2>1a, <3>2
        <4>2. jt[s] = g[Max(s)] + jt[s \ {Max(s)}]
          BY <2>1b, <3>2, <4>1
        <4> QED BY <1>5, <1>10, <3>2, <4>1, <4>2
      <3> QED BY <3>1, <3>2
    <2> HIDE DEF Step
    <2>3. [s \in SUBSET D |-> jt[s]] = [s \in SUBSET D |-> Step(jt, s)]
      BY <2>2, Zenon
    <2>4. Takes(jt)
      BY <2>1b, <2>3
    <2> QED BY <2>4
  <1>12. Takes(sum)
    BY <1>11
  <1>13. /\ sum[{}] = 0
         /\ \A s \in SUBSET D : s # {} =>
                sum[s] = IF cart[Max(s)].id = id THEN sum[s \ {Max(s)}] + cart[Max(s)].amount
                                                 ELSE sum[s \ {Max(s)}]
    BY <1>12
  <1> HIDE DEF sum
  <1>14. \A s \in SUBSET D : sum[s] \in Nat
    <2>1. \A s \in SUBSET D : s # {} /\ sum[s \ {c[s]}] \in Nat => sum[s] \in Nat
      <3>1. ASSUME NEW s \in SUBSET D, s # {}, sum[s \ {c[s]}] \in Nat PROVE sum[s] \in Nat
        <4>1. c[s] = Max(s) /\ cart[Max(s)].amount \in Nat
          BY <1>4, <1>9, <1>10, <3>1
        <4>2. sum[s] = IF cart[Max(s)].id = id THEN sum[s \ {Max(s)}] + cart[Max(s)].amount
                                               ELSE sum[s \ {Max(s)}]
          BY <1>13, <3>1
        <4> QED BY <3>1, <4>1, <4>2
      <3> QED BY <3>1
    <2>2. sum[{}] \in Nat
      BY <1>13
    <2> QED BY ONLY <1>4a, <1>4b, <2>1, <2>2, FoldStays, Zenon
  <1>15. \A s \in SUBSET D : s # {} => sum[s] = g[c[s]] + sum[s \ {c[s]}]
    <2>1. ASSUME NEW s \in SUBSET D, s # {} PROVE sum[s] = g[c[s]] + sum[s \ {c[s]}]
      <3>1. c[s] = Max(s) /\ c[s] \in D /\ s \ {c[s]} \in SUBSET D
        BY <1>4, <1>9, <2>1
      <3>2. sum[s] = IF cart[Max(s)].id = id THEN sum[s \ {Max(s)}] + cart[Max(s)].amount
                                             ELSE sum[s \ {Max(s)}]
        BY <1>13, <2>1
      <3>3. cart[c[s]].amount \in Nat /\ sum[s \ {c[s]}] \in Nat
            /\ g[c[s]] = IF cart[c[s]].id = id THEN cart[c[s]].amount ELSE 0
        BY <1>5, <1>10, <1>14, <3>1
      <3> QED BY <3>1, <3>2, <3>3
    <2> QED BY <2>1
  <1>16. sum[D] = SumFunctionOnSet(g, D)
    <2>1. \A k \in D : g[k] \in Nat
      BY <1>5
    <2>2. sum[{}] = 0
      BY <1>13
    <2> QED BY ONLY <1>4a, <1>4b, <1>15, <2>1, <2>2, FoldAddsUp
  <1>17. SumFunctionOnSet(g, D) = SumFunctionOnSet(g, P)
    BY <1>4, <1>5, <1>7, SumWithoutZeros
  <1>18. SumFunctionOnSet(g, P) = SumFunctionOnSet(h, P) /\ SumFunctionOnSet(h, P) \in Nat
    BY <1>5, <1>6, <1>7, SumOfEquals, SumOfParts
  <1> QED BY <1>3, <1>8, <1>16, <1>17, <1>18

\* A list of the elements of X, each of them once.
Lists(q, X) ==
    /\ q \in Seq(X)
    /\ \A i, j \in 1..Len(q) : q[i] = q[j] => i = j
    /\ \A x \in X : \E i \in 1..Len(q) : q[i] = x

LEMMA ListedAgain ==
    ASSUME NEW q, NEW X, Lists(q, X), NEW y
    PROVE  /\ Contains(q, y) <=> y \in X
           /\ y \notin X => Lists(Append(q, y), X \union {y})
  <1>1. /\ q \in Seq(X) /\ \A i \in 1..Len(q) : q[i] \in X
        /\ \A x \in X : \E i \in 1..Len(q) : q[i] = x
        /\ Len(q) \in Nat
    BY DEF Lists
  <1>2. Contains(q, y) <=> y \in X
    BY <1>1 DEF Contains
  <1>3. ASSUME y \notin X PROVE Lists(Append(q, y), X \union {y})
    <2> DEFINE r == Append(q, y)
    <2>1. q \in Seq(X \union {y})
      BY <1>1
    <2>2. r \in Seq(X \union {y}) /\ Len(r) = Len(q) + 1
      BY <2>1
    <2>3. r[Len(q) + 1] = y /\ \A i \in 1..Len(q) : r[i] = q[i]
      BY <2>1
    <2>4. \A i \in 1..Len(r) : i \in 1..Len(q) \/ i = Len(q) + 1
      BY <1>1, <2>2
    <2>5. 1..Len(q) \subseteq 1..Len(r) /\ Len(q) + 1 \in 1..Len(r)
      BY <1>1, <2>2
    <2> HIDE DEF r
    <2>6. ASSUME NEW i \in 1..Len(r), NEW j \in 1..Len(r), r[i] = r[j] PROVE i = j
      BY <1>1, <1>3, <2>3, <2>4, <2>6 DEF Lists
    <2>7. ASSUME NEW x \in X \union {y} PROVE \E i \in 1..Len(r) : r[i] = x
      <3>1. CASE x = y
        BY <2>3, <2>5, <3>1
      <3>2. CASE x \in X
        <4>1. PICK i \in 1..Len(q) : q[i] = x
          BY <1>1, <3>2
        <4> QED BY <2>3, <2>5, <4>1
      <3> QED BY <3>1, <3>2
    <2> QED BY <2>2, <2>6, <2>7 DEF Lists, r
  <1> QED BY <1>2, <1>3

\* The addresses of one kind.
IdsOf(cart, kind) == {cart[k].id : k \in {j \in 1..Len(cart) : cart[j].kind = kind}}

\* They are listed without repetitions.
LEMMA AddressesAre ==
    ASSUME NEW cart \in Seq(Assets), NEW kind
    PROVE  Lists(Addresses(cart, kind), IdsOf(cart, kind)) /\ Addresses(cart, kind) \in Seq(STRING)
  <1> DEFINE n == Len(cart)
  <1>1. n \in Nat /\ \A k \in 1..n : cart[k].id \in STRING
    <2>1. n \in Nat /\ \A k \in 1..n : cart[k] \in Assets
      OBVIOUS
    <2>2. \A a \in Assets : a.id \in STRING
      BY DEF Assets
    <2> HIDE DEF n
    <2> QED BY <2>1, <2>2
  <1>2. PICK D : D = 1..n /\ DOMAIN cart = D
    OBVIOUS
  <1> DEFINE Grows(q, k) == cart[k].kind = kind /\ ~Contains(q, cart[k].id)
             After(q, k) == IF Grows(q, k) THEN Append(q, cart[k].id) ELSE q
             Step(it, s) == IF s = {} THEN <<>> ELSE After(it[s \ {Max(s)}], Max(s))
             Takes(it) == it = [s \in SUBSET D |-> Step(it, s)]
             list == CHOOSE it : Takes(it)
             In(s) == {cart[k].id : k \in {j \in s : cart[j].kind = kind}}
             N == {s \in SUBSET D : Lists(list[s], In(s)) /\ list[s] \in Seq(STRING)}
  <1>3. Addresses(cart, kind) = list[D]
    BY <1>2 DEF Addresses, FoldLeft, MapThenFoldSet
  <1>4. PICK c : IsFiniteSet(D) /\ Picks(c, D) /\ \A s \in SUBSET D : c[s] = Max(s)
    BY <1>1, <1>2, FromEndPicks
  <1>4a. IsFiniteSet(D)
    BY <1>4
  <1>4b. Picks(c, D)
    BY <1>4
  <1>5. \A k \in D : cart[k].id \in STRING
    BY <1>1, <1>2
  <1>6. \A s \in SUBSET D : s # {} => c[s] \in D /\ c[s] \in s /\ s \ {c[s]} \in SUBSET D
    BY <1>4 DEF Picks
  <1>7. In(D) = IdsOf(cart, kind)
    BY <1>2 DEF IdsOf
  <1> HIDE DEF n
  <1>8. \A k \in D : \A q \in Seq(STRING) : After(q, k) \in Seq(STRING)
    <2>1. ASSUME NEW k \in D, NEW q \in Seq(STRING) PROVE After(q, k) \in Seq(STRING)
      <3>1. Append(q, cart[k].id) \in Seq(STRING)
        BY <1>5
      <3> HIDE DEF Grows
      <3> QED BY <3>1
    <2> QED BY <2>1
  <1>9. \E it : Takes(it)
    <2> DEFINE step == [k \in D |-> [q \in Seq(STRING) |-> After(q, k)]]
    <2> HIDE DEF After
    <2>1. \A k \in D : \A q \in Seq(STRING) : step[k][q] = After(q, k)
      OBVIOUS
    <2> HIDE DEF step
    <2>2. PICK it : Folds(it, c, step, <<>>, D)
      BY ONLY <1>4a, <1>4b, FoldExists
    <2>3. it[{}] = <<>> /\ \A s \in SUBSET D : s # {} => it[s] = step[c[s]][it[s \ {c[s]}]]
      BY <2>2 DEF Folds
    <2>4. it = [s \in SUBSET D |-> it[s]]
      BY <2>2 DEF Folds
    <2>5. \A s \in SUBSET D : it[s] \in Seq(STRING)
      <3>1. \A s \in SUBSET D : s # {} /\ it[s \ {c[s]}] \in Seq(STRING) => it[s] \in Seq(STRING)
        <4>1. ASSUME NEW s \in SUBSET D, s # {}, it[s \ {c[s]}] \in Seq(STRING)
              PROVE  it[s] \in Seq(STRING)
          <5>1. PICK q \in Seq(STRING) : q = it[s \ {c[s]}]
            BY <4>1
          <5>2. c[s] \in D /\ it[s] = step[c[s]][q]
            BY <1>6, <2>3, <4>1, <5>1
          <5> QED BY <1>8, <2>1, <5>2
        <4> QED BY <4>1
      <3>2. it[{}] \in Seq(STRING)
        BY <2>3
      <3> QED BY ONLY <1>4a, <1>4b, <3>1, <3>2, FoldStays, Zenon
    <2>6. ASSUME NEW s \in SUBSET D PROVE it[s] = Step(it, s)
      <3>1. CASE s = {}
        BY <2>3, <3>1
      <3>2. CASE s # {}
        <4>1. c[s] = Max(s) /\ c[s] \in D /\ it[s \ {c[s]}] \in Seq(STRING)
          BY <1>4, <1>6, <2>5, <3>2
        <4>2. it[s] = After(it[s \ {Max(s)}], Max(s))
          BY <2>1, <2>3, <3>2, <4>1
        <4> QED BY <3>2, <4>2
      <3> QED BY <3>1, <3>2
    <2> HIDE DEF Step
    <2>7. [s \in SUBSET D |-> it[s]] = [s \in SUBSET D |-> Step(it, s)]
      BY <2>6, Zenon
    <2>8. Takes(it)
      BY <2>4, <2>7
    <2> QED BY <2>8
  <1>10. Takes(list)
    BY <1>9
  <1> HIDE DEF After
  <1>11. list[{}] = <<>> /\ \A s \in SUBSET D : s # {} => list[s] = After(list[s \ {Max(s)}], Max(s))
    BY <1>10
  <1> HIDE DEF list
  <1>12. {} \in N
    <2>1. In({}) = {}
      OBVIOUS
    <2>2. Lists(<<>>, {}) /\ <<>> \in Seq(STRING)
      BY DEF Lists
    <2> QED BY <1>11, <2>1, <2>2
  <1>13. ASSUME NEW s \in SUBSET D, s # {}, s \ {c[s]} \in N PROVE s \in N
    <2>1. PICK k \in s : k = c[s] /\ k = Max(s) /\ k \in D
      BY <1>4, <1>6, <1>13
    <2>2. PICK q : q = list[s \ {k}] /\ Lists(q, In(s \ {k})) /\ q \in Seq(STRING)
      BY <1>13, <2>1
    <2>3. list[s] = After(q, k)
      BY <1>11, <1>13, <2>1, <2>2
    <2>4. After(q, k) \in Seq(STRING)
      BY <1>8, <2>1, <2>2
    <2>5. In(s) = IF cart[k].kind = kind THEN In(s \ {k}) \union {cart[k].id} ELSE In(s \ {k})
      BY <2>1
    <2>6. Lists(After(q, k), In(s))
      <3> HIDE DEF In
      <3>1. /\ Contains(q, cart[k].id) <=> cart[k].id \in In(s \ {k})
            /\ cart[k].id \notin In(s \ {k}) =>
                   Lists(Append(q, cart[k].id), In(s \ {k}) \union {cart[k].id})
        BY <2>2, ListedAgain
      <3>2. CASE Grows(q, k)
        <4>1. After(q, k) = Append(q, cart[k].id)
          BY <3>2 DEF After
        <4> QED BY <2>5, <3>1, <3>2, <4>1
      <3>3. CASE ~Grows(q, k)
        <4>1. After(q, k) = q
          BY <3>3 DEF After
        <4>2. In(s) = In(s \ {k})
          BY <2>5, <3>1, <3>3
        <4> QED BY <2>2, <4>1, <4>2
      <3> QED BY <3>2, <3>3
    <2> QED BY <2>3, <2>4, <2>6
  <1> HIDE DEF N
  <1>14. D \in N
    BY ONLY <1>4a, <1>4b, <1>12, <1>13, FinInd
  <1> QED BY <1>3, <1>7, <1>14 DEF N

-------------------------------------------------------------------------------
(* TonFees: a fee is a number. *)

FeeStep == [bits : Nat, cells : Nat, gas : Nat, timeDelta : Nat, silent : BOOLEAN]

LEMMA Products == \A a, b \in Nat : a * b \in Nat
  OBVIOUS

LEMMA CeilDivType == ASSUME NEW n \in Nat, NEW d \in Nat \ {0} PROVE CeilDiv(n, d) \in Nat
  <1>1. n + d - 1 \in Nat
    OBVIOUS
  <1>2. \A m \in Nat : m \div d \in Nat
    OBVIOUS
  <1> QED BY <1>1, <1>2 DEF CeilDiv

LEMMA MessageFeeType ==
    ASSUME NEW size \in [bits : Nat, cells : Nat]
    PROVE  MessageFee(size) \in Nat /\ IhrFee(size) \in Nat /\ ActionFee(size) \in Nat
  <1>1. FixedPoint \in Nat \ {0} /\ \A p \in PriceNames : Prices[p] \in Nat
    BY FeesAssumption
  <1>2. /\ Prices["lumpPrice"] \in Nat /\ Prices["msgBitPrice"] \in Nat /\ Prices["msgCellPrice"] \in Nat
        /\ Prices["ihrPriceFactor"] \in Nat /\ Prices["firstFrac"] \in Nat
    BY <1>1 DEF PriceNames
  <1>3. size.bits \in Nat /\ size.cells \in Nat
    OBVIOUS
  <1>4. Prices["msgBitPrice"] * size.bits \in Nat /\ Prices["msgCellPrice"] * size.cells \in Nat
    BY <1>2, <1>3, Products
  <1>5. Prices["msgBitPrice"] * size.bits + Prices["msgCellPrice"] * size.cells \in Nat
    BY <1>4
  <1>6. MessageFee(size) \in Nat
    <2>1. CeilDiv(Prices["msgBitPrice"] * size.bits + Prices["msgCellPrice"] * size.cells, FixedPoint) \in Nat
      BY <1>1, <1>5, CeilDivType
    <2> QED BY <1>2, <2>1 DEF MessageFee
  <1>7. IhrFee(size) \in Nat
    BY <1>1, <1>2, <1>6, Products, CeilDivType DEF IhrFee
  <1>8. ActionFee(size) \in Nat
    <2>1. MessageFee(size) * Prices["firstFrac"] \in Nat
      BY <1>2, <1>6, Products
    <2>2. \A m \in Nat : m \div FixedPoint \in Nat
      BY <1>1
    <2> QED BY <2>1, <2>2 DEF ActionFee
  <1> QED BY <1>6, <1>7, <1>8

LEMMA StepFeeType ==
    ASSUME NEW step \in FeeStep, NEW size \in [bits : Nat, cells : Nat]
    PROVE  StepFee(step, size) \in Nat
  <1>1. FixedPoint \in Nat \ {0} /\ \A p \in PriceNames : Prices[p] \in Nat
    BY FeesAssumption
  <1>2. Prices["accountBitPrice"] \in Nat /\ Prices["accountCellPrice"] \in Nat /\ Prices["gasPrice"] \in Nat
    BY <1>1 DEF PriceNames
  <1>3. step.bits \in Nat /\ step.cells \in Nat /\ step.gas \in Nat /\ step.timeDelta \in Nat
    BY DEF FeeStep
  <1>4. StorageFee(step) \in Nat
    <2>1. step.bits * Prices["accountBitPrice"] \in Nat /\ step.cells * Prices["accountCellPrice"] \in Nat
      BY <1>2, <1>3, Products
    <2>2. step.bits * Prices["accountBitPrice"] + step.cells * Prices["accountCellPrice"] \in Nat
      BY <2>1
    <2>3. (step.bits * Prices["accountBitPrice"] + step.cells * Prices["accountCellPrice"])
              * step.timeDelta \in Nat
      BY <1>3, <2>2, Products
    <2> QED BY <1>1, <2>3, CeilDivType DEF StorageFee
  <1>5. ComputeFee(step) \in Nat
    <2>1. step.gas * Prices["gasPrice"] \in Nat
      BY <1>2, <1>3, Products
    <2> QED BY <1>1, <2>1, CeilDivType DEF ComputeFee
  <1> DEFINE sent == IF step.silent THEN [bits |-> 0, cells |-> 0] ELSE size
  <1>6. sent \in [bits : Nat, cells : Nat]
    OBVIOUS
  <1>7. StepFee(step, size) =
            StorageFee(step) + ComputeFee(step) + ActionFee(sent) + MessageFee(sent) + IhrFee(sent)
    BY DEF StepFee
  <1> HIDE DEF sent
  <1>8. MessageFee(sent) \in Nat /\ IhrFee(sent) \in Nat /\ ActionFee(sent) \in Nat
    BY <1>6, MessageFeeType
  <1> QED BY <1>4, <1>5, <1>7, <1>8

LEMMA PipelineType == ASSUME NEW op \in Ops PROVE Pipeline(op) \in Seq(FeeStep)
  <1>1. /\ Year \in Nat
        /\ Usage \in [crossChainLayer : UsageOf([tvmMsgToEvm : Nat]),
                      jettonWallet : UsageOf([internalTransfer : Nat, receive : Nat, burn : Nat,
                                              estimatedSendTransfer : Nat, estimatedReceiveTransfer : Nat]),
                      jettonProxy : UsageOf([ownershipAssigned : Nat, errorNotification : Nat]),
                      jettonMinter : UsageOf([burnNotification : Nat, mintAfterError : Nat]),
                      nftItem : UsageOf([send : Nat, burn : Nat, errorNotification : Nat]),
                      nftProxy : UsageOf([ownershipAssigned : Nat, errorNotification : Nat])]
    BY FeesAssumption
  <1>2. \A g \in Nat : Passing(g) \in FeeStep /\ Estimated(g) \in FeeStep /\ Silent(g) \in FeeStep
    BY <1>1 DEF FeeStep, Passing, Estimated, Silent
  <1>3. \A c : c.accountBits \in Nat /\ c.accountCells \in Nat => \A g \in Nat : Storing(c, g) \in FeeStep
    BY <1>1 DEF FeeStep, Storing
  <1>4. /\ Usage.crossChainLayer \in UsageOf([tvmMsgToEvm : Nat])
        /\ Usage.jettonWallet \in UsageOf([internalTransfer : Nat, receive : Nat, burn : Nat,
                                           estimatedSendTransfer : Nat, estimatedReceiveTransfer : Nat])
        /\ Usage.jettonProxy \in UsageOf([ownershipAssigned : Nat, errorNotification : Nat])
        /\ Usage.jettonMinter \in UsageOf([burnNotification : Nat, mintAfterError : Nat])
        /\ Usage.nftItem \in UsageOf([send : Nat, burn : Nat, errorNotification : Nat])
        /\ Usage.nftProxy \in UsageOf([ownershipAssigned : Nat, errorNotification : Nat])
    BY <1>1
  <1>5. \A g, u : u \in UsageOf(g) => u.accountBits \in Nat /\ u.accountCells \in Nat /\ u.gas \in g
    BY DEF UsageOf
  <1>6. /\ TvmMsgToEvm \in FeeStep /\ NftItemSend \in FeeStep /\ WalletReceive \in FeeStep
    <2>1. Usage.crossChainLayer.gas.tvmMsgToEvm \in Nat
      BY <1>4 DEF UsageOf
    <2>2. Usage.nftItem.accountBits \in Nat /\ Usage.nftItem.accountCells \in Nat /\ Usage.nftItem.gas.send \in Nat
      BY <1>4 DEF UsageOf
    <2>3. /\ Usage.jettonWallet.accountBits \in Nat /\ Usage.jettonWallet.accountCells \in Nat
          /\ Usage.jettonWallet.gas.receive \in Nat
      BY <1>4 DEF UsageOf
    <2> QED BY <1>2, <1>3, <2>1, <2>2, <2>3 DEF TvmMsgToEvm, NftItemSend, WalletReceive
  <1>7. CASE op = "TON_TRANSFER"
    BY <1>6, <1>7 DEF Pipeline
  <1>8. CASE op = "JETTON_TRANSFER"
    <2>1. /\ Usage.jettonWallet.accountBits \in Nat /\ Usage.jettonWallet.accountCells \in Nat
          /\ Usage.jettonWallet.gas.internalTransfer \in Nat
          /\ Usage.jettonWallet.gas.estimatedSendTransfer \in Nat
          /\ Usage.jettonWallet.gas.estimatedReceiveTransfer \in Nat
      BY <1>4 DEF UsageOf
    <2>2. /\ Usage.jettonProxy.gas.ownershipAssigned \in Nat
          /\ Usage.jettonProxy.gas.errorNotification \in Nat
      BY <1>4 DEF UsageOf
    <2>3. /\ Storing(Usage.jettonWallet, Usage.jettonWallet.gas.internalTransfer) \in FeeStep
          /\ Passing(Usage.jettonProxy.gas.ownershipAssigned) \in FeeStep
          /\ Estimated(Usage.jettonProxy.gas.errorNotification) \in FeeStep
          /\ Estimated(Usage.jettonWallet.gas.estimatedSendTransfer) \in FeeStep
          /\ Estimated(Usage.jettonWallet.gas.estimatedReceiveTransfer) \in FeeStep
      BY <1>2, <1>3, <2>1, <2>2
    <2> QED BY <1>6, <1>8, <2>3 DEF Pipeline
  <1>9. CASE op = "JETTON_BURN"
    <2>1. /\ Usage.jettonWallet.accountBits \in Nat /\ Usage.jettonWallet.accountCells \in Nat
          /\ Usage.jettonWallet.gas.burn \in Nat
      BY <1>4 DEF UsageOf
    <2>2. /\ Usage.jettonMinter.accountBits \in Nat /\ Usage.jettonMinter.accountCells \in Nat
          /\ Usage.jettonMinter.gas.burnNotification \in Nat /\ Usage.jettonMinter.gas.mintAfterError \in Nat
      BY <1>4 DEF UsageOf
    <2>3. /\ Storing(Usage.jettonWallet, Usage.jettonWallet.gas.burn) \in FeeStep
          /\ Storing(Usage.jettonMinter, Usage.jettonMinter.gas.burnNotification) \in FeeStep
          /\ Storing(Usage.jettonMinter, Usage.jettonMinter.gas.mintAfterError) \in FeeStep
      BY <1>3, <2>1, <2>2
    <2> QED BY <1>6, <1>9, <2>3 DEF Pipeline
  <1>10. CASE op = "NFT_TRANSFER"
    <2>1. /\ Usage.nftProxy.gas.ownershipAssigned \in Nat
          /\ Usage.nftProxy.gas.errorNotification \in Nat
      BY <1>4 DEF UsageOf
    <2>2. /\ Passing(Usage.nftProxy.gas.ownershipAssigned) \in FeeStep
          /\ Estimated(Usage.nftProxy.gas.errorNotification) \in FeeStep
      BY <1>2, <2>1
    <2> QED BY <1>6, <1>10, <2>2 DEF Pipeline
  <1>11. CASE op = "NFT_BURN"
    <2>1. /\ Usage.nftItem.accountBits \in Nat /\ Usage.nftItem.accountCells \in Nat
          /\ Usage.nftItem.gas.burn \in Nat /\ Usage.nftItem.gas.errorNotification \in Nat
      BY <1>4 DEF UsageOf
    <2>2. /\ Storing(Usage.nftItem, Usage.nftItem.gas.burn) \in FeeStep
          /\ Silent(Usage.nftItem.gas.errorNotification) \in FeeStep
      BY <1>2, <1>3, <2>1
    <2> QED BY <1>6, <1>11, <2>2 DEF Pipeline
  <1> QED BY <1>7, <1>8, <1>9, <1>10, <1>11 DEF Ops

LEMMA NetworkFeeType ==
    ASSUME NEW op \in Ops, NEW b \in BOOLEAN
    PROVE  NetworkFee(op, b) \in Nat
  <1> DEFINE p == Pipeline(op)
             size == PayloadSize[<<op, b>>]
             f == [k \in 1..Len(p) |-> StepFee(p[k], size)]
  <1>1. PayloadSize \in [Ops \X BOOLEAN -> [bits : Nat, cells : Nat]]
    BY PrepareAssumption
  <1>2. size \in [bits : Nat, cells : Nat]
    BY <1>1
  <1>3. p \in Seq(FeeStep)
    BY PipelineType
  <1> HIDE DEF p, size
  <1>4. Len(p) \in Nat /\ \A k \in 1..Len(p) : p[k] \in FeeStep
    BY <1>3
  <1>5. \A k \in 1..Len(p) : f[k] \in Nat
    BY <1>2, <1>4, StepFeeType
  <1>6. DOMAIN f = 1..Len(p) /\ IsFiniteSet(1..Len(p))
    BY <1>4, FS_Interval
  <1>7. NetworkFee(op, b) = SumFunctionOnSet(f, 1..Len(p))
    BY <1>6 DEF NetworkFee, EstimateTONFee, SumFunction, p, size
  <1> HIDE DEF f
  <1> QED BY <1>5, <1>6, <1>7, SumOfParts

-------------------------------------------------------------------------------
(* generateCrossChainMessages: what the messages of one transaction carry. *)

\* A list without repetitions is as long as its set is large.
LEMMA ListLength ==
    ASSUME NEW q, NEW X, Lists(q, X)
    PROVE  IsFiniteSet(X) /\ Len(q) \in Nat /\ Cardinality(X) = Len(q)
  <1>1. Len(q) \in Nat /\ q \in [1..Len(q) -> X]
    BY DEF Lists
  <1>2. q \in Bijection(1..Len(q), X)
    BY <1>1 DEF Lists, Bijection, Injection, Surjection, IsInjective
  <1>3. ExistsBijection(1..Len(q), X)
    BY <1>2, Zenon DEF ExistsBijection
  <1> QED BY <1>1, <1>3, FS_NatBijection, FS_CountingElements

LEMMA ListsJoined ==
    ASSUME NEW q, NEW X, Lists(q, X), NEW r, NEW Y, Lists(r, Y), X \cap Y = {}
    PROVE  /\ Lists(q \o r, X \union Y) /\ Len(q \o r) = Len(q) + Len(r)
           /\ \A i \in 1..Len(q \o r) : (q \o r)[i] = IF i <= Len(q) THEN q[i] ELSE r[i - Len(q)]
           /\ \A i \in 1..Len(q \o r) : i > Len(q) <=> (q \o r)[i] \in Y
  <1> DEFINE s == q \o r
  <1>1. /\ q \in Seq(X) /\ r \in Seq(Y) /\ Len(q) \in Nat /\ Len(r) \in Nat
        /\ (\A i \in 1..Len(q) : q[i] \in X) /\ \A i \in 1..Len(r) : r[i] \in Y
    BY DEF Lists
  <1>2. q \in Seq(X \union Y) /\ r \in Seq(X \union Y)
    BY <1>1
  <1>3. /\ s \in Seq(X \union Y) /\ Len(s) = Len(q) + Len(r)
        /\ \A i \in 1..Len(q) + Len(r) : s[i] = IF i <= Len(q) THEN q[i] ELSE r[i - Len(q)]
    BY <1>2
  <1> HIDE DEF s
  <1>4. \A i \in 1..Len(s) : /\ i <= Len(q) => i \in 1..Len(q) /\ s[i] = q[i] /\ s[i] \in X
                             /\ i > Len(q) => i - Len(q) \in 1..Len(r) /\ s[i] = r[i - Len(q)] /\ s[i] \in Y
    BY <1>1, <1>3
  <1>5. ASSUME NEW i \in 1..Len(s), NEW j \in 1..Len(s), s[i] = s[j] PROVE i = j
    <2>1. CASE i <= Len(q)
      <3>1. j <= Len(q)
        BY <1>1, <1>4, <1>5, <2>1
      <3>2. q[i] = q[j] /\ i \in 1..Len(q) /\ j \in 1..Len(q)
        BY <1>4, <1>5, <2>1, <3>1
      <3> QED BY <3>2 DEF Lists
    <2>2. CASE i > Len(q)
      <3>1. j > Len(q)
        BY <1>1, <1>4, <1>5, <2>2
      <3>2. r[i - Len(q)] = r[j - Len(q)] /\ i - Len(q) \in 1..Len(r) /\ j - Len(q) \in 1..Len(r)
        BY <1>4, <1>5, <2>2, <3>1
      <3>3. i - Len(q) = j - Len(q)
        BY <3>2 DEF Lists
      <3> QED BY <1>1, <3>3
    <2> QED BY <1>1, <2>1, <2>2
  <1>6. ASSUME NEW x \in X \union Y PROVE \E i \in 1..Len(s) : s[i] = x
    <2>1. CASE x \in X
      <3>1. PICK i \in 1..Len(q) : q[i] = x
        BY <2>1 DEF Lists
      <3>2. i \in 1..Len(s) /\ i <= Len(q)
        BY <1>1, <1>3
      <3> QED BY <1>4, <3>1, <3>2
    <2>2. CASE x \in Y
      <3>1. PICK i \in 1..Len(r) : r[i] = x
        BY <2>2 DEF Lists
      <3>2. i + Len(q) \in 1..Len(s) /\ i + Len(q) > Len(q) /\ i + Len(q) - Len(q) = i
        BY <1>1, <1>3
      <3> QED BY <1>4, <3>1, <3>2
    <2> QED BY <2>1, <2>2
  <1>7. Lists(s, X \union Y)
    BY <1>3, <1>5, <1>6 DEF Lists
  <1>8. \A i \in 1..Len(s) : i > Len(q) <=> s[i] \in Y
    BY <1>1, <1>4
  <1> QED BY <1>3, <1>7, <1>8 DEF s

\* What the cart says of the tokens in the order of their messages.
LEMMA TokensListed ==
    ASSUME NEW cart \in Seq(Assets), Coherent(cart)
    PROVE  LET tokens == Jettons(cart) \o Nfts(cart)
               kind(k) == IF k > Len(Jettons(cart)) THEN "nft" ELSE "ft"
           IN  /\ Lists(tokens, Ids(cart)) /\ tokens \in Seq(STRING)
               /\ Len(tokens) = Len(Jettons(cart)) + Len(Nfts(cart))
               /\ \A k \in 1..Len(tokens) :
                      /\ kind(k) = "nft" <=> tokens[k] \in NftIds(cart)
                      /\ OriginIn(cart, tokens[k]) \in {"TON", "TAC"}
                      /\ \A j \in 1..Len(cart) : cart[j].id = tokens[k] =>
                             cart[j].kind = kind(k) /\ cart[j].origin = OriginIn(cart, tokens[k])
  <1> DEFINE X == IdsOf(cart, "ft")
             Y == IdsOf(cart, "nft")
             q == Jettons(cart)
             r == Nfts(cart)
             s == q \o r
             n == Len(cart)
  <1>1. n \in Nat /\ \A k \in 1..n : cart[k].kind \in {"ton", "ft", "nft"} /\ cart[k].origin \in {"TON", "TAC"}
    <2>1. n \in Nat /\ \A k \in 1..n : cart[k] \in Assets
      OBVIOUS
    <2>2. \A a \in Assets : a.kind \in {"ton", "ft", "nft"} /\ a.origin \in {"TON", "TAC"}
      BY DEF Assets
    <2> HIDE DEF n
    <2> QED BY <2>1, <2>2
  <1>2. \A j, k \in 1..n : cart[j].id = cart[k].id => cart[j].kind = cart[k].kind /\ cart[j].origin = cart[k].origin
    BY DEF Coherent
  <1>3. Ids(cart) = X \union Y /\ NftIds(cart) = Y
    BY <1>1 DEF Ids, NftIds, IdsOf
  <1>4. X \cap Y = {}
    BY <1>2 DEF IdsOf
  <1>5. Lists(q, X) /\ q \in Seq(STRING) /\ Lists(r, Y) /\ r \in Seq(STRING)
    BY AddressesAre DEF Jettons, Nfts
  <1>6. /\ \A x \in X : \A j \in 1..n : cart[j].id = x => cart[j].kind = "ft"
        /\ \A x \in Y : \A j \in 1..n : cart[j].id = x => cart[j].kind = "nft"
    BY <1>2 DEF IdsOf
  <1>7. \A x \in X \union Y : \E j \in 1..n : cart[j].id = x
    BY DEF IdsOf
  <1>8. ASSUME NEW x \in X \union Y
        PROVE  /\ OriginIn(cart, x) \in {"TON", "TAC"}
               /\ \A j \in 1..n : cart[j].id = x => cart[j].origin = OriginIn(cart, x)
    <2> DEFINE P == {k \in 1..n : cart[k].id = x}
    <2>1. P \in SUBSET (1..n) /\ P # {}
      BY <1>7
    <2>2. \A k \in P : k \in 1..n /\ cart[k].id = x
      OBVIOUS
    <2>3. OriginIn(cart, x) = cart[Min(P)].origin
      BY DEF OriginIn
    <2> HIDE DEF P, n
    <2>4. Min(P) \in P
      BY <1>1, <2>1, Extremes
    <2> QED BY <1>1, <1>2, <2>2, <2>3, <2>4
  <1> HIDE DEF X, Y, q, r, n
  <1>9. /\ Lists(s, X \union Y) /\ Len(s) = Len(q) + Len(r)
        /\ \A i \in 1..Len(s) : i > Len(q) <=> s[i] \in Y
    BY <1>4, <1>5, ListsJoined
  <1>10. s \in Seq(STRING)
    BY <1>5
  <1> HIDE DEF s
  <1>11. \A k \in 1..Len(s) : s[k] \in X \union Y
    BY <1>9 DEF Lists
  <1>12. ASSUME NEW k \in 1..Len(s)
         PROVE  /\ (IF k > Len(q) THEN "nft" ELSE "ft") = "nft" <=> s[k] \in Y
                /\ OriginIn(cart, s[k]) \in {"TON", "TAC"}
                /\ \A j \in 1..n : cart[j].id = s[k] =>
                       /\ cart[j].kind = IF k > Len(q) THEN "nft" ELSE "ft"
                       /\ cart[j].origin = OriginIn(cart, s[k])
    <2>1. s[k] \in X \union Y /\ (k > Len(q) <=> s[k] \in Y)
      BY <1>9, <1>11
    <2>2. OriginIn(cart, s[k]) \in {"TON", "TAC"} /\ \A j \in 1..n : cart[j].id = s[k] => cart[j].origin = OriginIn(cart, s[k])
      BY <1>8, <2>1
    <2>3. \A j \in 1..n : cart[j].id = s[k] => cart[j].kind = IF k > Len(q) THEN "nft" ELSE "ft"
      BY <1>6, <2>1
    <2> QED BY <2>1, <2>2, <2>3
  <1> QED BY <1>3, <1>9, <1>10, <1>12 DEF s, q, r, n

FeeParams == [protocolFee : Nat, evmExecutorFee : Nat, tvmExecutorFee : Nat, gasLimit : Nat]

LEMMA MessageFields ==
    \A asset, op, amount, ton, forward, carries :
        LET m == Message(asset, op, amount, ton, forward, carries) IN
        /\ m.asset = asset /\ m.op = op /\ m.amount = amount /\ m.carriesFees = carries
        /\ m.value = ton + NetworkFee(op, carries) + forward
  BY DEF Message

LEMMA AtLeastOne == ASSUME NEW a \in Nat PROVE Max({a, 1}) = IF a = 0 THEN 1 ELSE a
  <1>1. CASE a = 0
    <2>1. {a, 1} = {0, 1} /\ \A x \in {0, 1} : (\A y \in {0, 1} : x >= y) <=> x = 1
      BY <1>1
    <2> QED BY <1>1, <2>1 DEF Max
  <1>2. CASE a # 0
    <2>1. \A x \in {a, 1} : (\A y \in {a, 1} : x >= y) <=> x = a
      BY <1>2
    <2> QED BY <1>2, <2>1 DEF Max
  <1> QED BY <1>1, <1>2

\* The messages one by one.
Shaped(cart, fee, ms) ==
    LET none == Ids(cart) = {}
        forward == IF none THEN 0 ELSE ForwardAmount
        ton == Demand(cart, "ton") + FeeTonAmount(fee)
    IN  /\ DOMAIN ms = 1..Len(ms) /\ Len(ms) \in Nat \ {0}
        /\ Len(ms) = ShardCount(cart) /\ Len(ms) = (IF none THEN 1 ELSE Cardinality(Ids(cart)))
        /\ \A k \in 1..Len(ms) :
               /\ ms[k].op \in Ops
               /\ ms[k].value = (IF k = 1 THEN ton ELSE 0) + NetworkFee(ms[k].op, k = 1) + forward
               /\ ms[k].carriesFees = (k = 1)
               /\ ms[k].amount = IF ms[k].asset \in NftIds(cart) THEN 1 ELSE Demand(cart, ms[k].asset)
               /\ \A j \in 1..Len(cart) :
                      cart[j].id = ms[k].asset => ms[k].op = OpType(cart[j].kind, cart[j].origin)
        /\ none => ms[1].asset = "ton"
        /\ ~none => Lists([k \in 1..Len(ms) |-> ms[k].asset], Ids(cart))

LEMMA MessagesShaped ==
    ASSUME NEW cart \in Seq(Assets), Coherent(cart), NEW fee \in FeeParams
    PROVE  Shaped(cart, fee, MessagesOf(cart, fee))
  <1> DEFINE J == Len(Jettons(cart))
             s == Jettons(cart) \o Nfts(cart)
             kind(k) == IF k > J THEN "nft" ELSE "ft"
             op(k) == OpType(kind(k), OriginIn(cart, s[k]))
             ton == RawAmount(cart, "ton") + FeeTonAmount(fee)
             ms == MessagesOf(cart, fee)
  <1>1. /\ Lists(s, Ids(cart)) /\ s \in Seq(STRING) /\ Len(s) = J + Len(Nfts(cart))
        /\ J \in Nat /\ Len(Nfts(cart)) \in Nat
        /\ \A k \in 1..Len(s) :
               /\ kind(k) = "nft" <=> s[k] \in NftIds(cart)
               /\ OriginIn(cart, s[k]) \in {"TON", "TAC"}
               /\ \A j \in 1..Len(cart) : cart[j].id = s[k] =>
                      cart[j].kind = kind(k) /\ cart[j].origin = OriginIn(cart, s[k])
    <2>1. Jettons(cart) \in Seq(STRING) /\ Nfts(cart) \in Seq(STRING)
      BY AddressesAre DEF Jettons, Nfts
    <2>2. J \in Nat /\ Len(Nfts(cart)) \in Nat
      BY <2>1
    <2> QED BY <2>2, TokensListed
  <1>2. Len(s) = Cardinality(Ids(cart)) /\ IsFiniteSet(Ids(cart)) /\ Len(s) \in Nat
    BY <1>1, ListLength
  <1>3. s = <<>> <=> Ids(cart) = {}
    BY <1>1, <1>2, FS_EmptySet
  <1>4. ShardCount(cart) = IF Len(s) = 0 THEN 1 ELSE Len(s)
    BY <1>1, <1>2, AtLeastOne DEF ShardCount
  <1>5. ton = Demand(cart, "ton") + FeeTonAmount(fee)
    BY RawAmountIs
  <1>6. ms = IF s = <<>> THEN <<Message("ton", "TON_TRANSFER", RawAmount(cart, "ton"), ton, 0, TRUE)>>
             ELSE [k \in 1..Len(s) |->
                      Message(s[k], op(k), IF k > J THEN 1 ELSE RawAmount(cart, s[k]),
                              TonOfMessage(k, ton), ForwardAmount, k = 1)]
    BY DEF MessagesOf
  <1>7. \A j \in 1..Len(cart) : cart[j].id = "ton" => cart[j].kind = "ton"
    BY DEF Coherent
  <1>8. ASSUME NEW k \in 1..Len(s) PROVE op(k) \in Ops
    BY <1>1, <1>8 DEF OpType, Ops
  <1> HIDE DEF s, J, ton, ms
  <1>9. CASE s = <<>>
    <2>1. ms = <<Message("ton", "TON_TRANSFER", RawAmount(cart, "ton"), ton, 0, TRUE)>>
      BY <1>6, <1>9
    <2>2. /\ Len(ms) = 1 /\ DOMAIN ms = 1..Len(ms)
          /\ ms[1] = Message("ton", "TON_TRANSFER", RawAmount(cart, "ton"), ton, 0, TRUE)
      <3> DEFINE m == Message("ton", "TON_TRANSFER", RawAmount(cart, "ton"), ton, 0, TRUE)
      <3>1. ms = <<m>>
        BY <2>1
      <3> HIDE DEF m
      <3>2. Len(<<m>>) = 1 /\ DOMAIN <<m>> = 1..1 /\ <<m>>[1] = m
        OBVIOUS
      <3> QED BY <3>1, <3>2 DEF m
    <2>3. Ids(cart) = {} /\ NftIds(cart) = {}
      <3>1. Ids(cart) = {}
        BY <1>3, <1>9
      <3> QED BY <3>1 DEF Ids, NftIds
    <2>4. /\ ms[1].asset = "ton" /\ ms[1].op = "TON_TRANSFER" /\ ms[1].amount = RawAmount(cart, "ton")
          /\ ms[1].carriesFees = TRUE /\ ms[1].value = ton + NetworkFee("TON_TRANSFER", TRUE) + 0
      <3>1. PICK m : m = ms[1] /\ m = Message("ton", "TON_TRANSFER", RawAmount(cart, "ton"), ton, 0, TRUE)
        BY <2>2
      <3>2. /\ m.asset = "ton" /\ m.op = "TON_TRANSFER" /\ m.amount = RawAmount(cart, "ton")
            /\ m.carriesFees = TRUE /\ m.value = ton + NetworkFee("TON_TRANSFER", TRUE) + 0
        BY ONLY <3>1 DEF Message
      <3> QED BY <3>1, <3>2
    <2>5. \A k \in 1..Len(ms) : k = 1
      BY <2>2
    <2>6. \A j \in 1..Len(cart) : cart[j].id = "ton" => OpType(cart[j].kind, cart[j].origin) = "TON_TRANSFER"
      BY <1>7 DEF OpType
    <2>7. "TON_TRANSFER" \in Ops /\ RawAmount(cart, "ton") = Demand(cart, "ton")
      BY RawAmountIs DEF Ops
    <2>8. Len(ms) = ShardCount(cart)
      BY <1>4, <1>9, <2>2
    <2>9. \A k \in 1..Len(ms) :
              /\ ms[k].op \in Ops
              /\ ms[k].value = (IF k = 1 THEN ton ELSE 0) + NetworkFee(ms[k].op, k = 1) + 0
              /\ ms[k].carriesFees = (k = 1)
              /\ ms[k].amount = IF ms[k].asset \in NftIds(cart) THEN 1 ELSE Demand(cart, ms[k].asset)
              /\ \A j \in 1..Len(cart) :
                     cart[j].id = ms[k].asset => ms[k].op = OpType(cart[j].kind, cart[j].origin)
      <3>1. SUFFICES ASSUME NEW k \in 1..Len(ms), k = 1
                     PROVE  /\ ms[k].op \in Ops
                            /\ ms[k].value = (IF k = 1 THEN ton ELSE 0) + NetworkFee(ms[k].op, k = 1) + 0
                            /\ ms[k].carriesFees = (k = 1)
                            /\ ms[k].amount = IF ms[k].asset \in NftIds(cart) THEN 1 ELSE Demand(cart, ms[k].asset)
                            /\ \A j \in 1..Len(cart) :
                                   cart[j].id = ms[k].asset => ms[k].op = OpType(cart[j].kind, cart[j].origin)
        BY <2>5
      <3>2. (k = 1) = TRUE
        BY <3>1
      <3>3. ms[k].value = (IF k = 1 THEN ton ELSE 0) + NetworkFee(ms[k].op, k = 1) + 0
        BY <2>4, <3>1, <3>2
      <3> QED BY <2>3, <2>4, <2>6, <2>7, <3>1, <3>2, <3>3
    <2>10. \A k \in 1..Len(ms) :
              /\ ms[k].op \in Ops
              /\ ms[k].value = (IF k = 1 THEN Demand(cart, "ton") + FeeTonAmount(fee) ELSE 0)
                                  + NetworkFee(ms[k].op, k = 1) + 0
              /\ ms[k].carriesFees = (k = 1)
              /\ ms[k].amount = IF ms[k].asset \in NftIds(cart) THEN 1 ELSE Demand(cart, ms[k].asset)
              /\ \A j \in 1..Len(cart) :
                     cart[j].id = ms[k].asset => ms[k].op = OpType(cart[j].kind, cart[j].origin)
      BY ONLY <1>5, <2>9
    <2>11. DOMAIN ms = 1..Len(ms) /\ Len(ms) \in Nat \ {0} /\ Len(ms) = 1
      BY <2>2
    <2>12. ms[1].asset = "ton"
      BY <2>4
    <2> QED BY ONLY <2>3, <2>8, <2>10, <2>11, <2>12 DEF Shaped, ms
  <1>10. CASE s # <<>>
    <2>1. ms = [k \in 1..Len(s) |->
                   Message(s[k], op(k), IF k > J THEN 1 ELSE RawAmount(cart, s[k]),
                           TonOfMessage(k, ton), ForwardAmount, k = 1)]
      BY <1>6, <1>10
    <2>2. Len(ms) = Len(s) /\ DOMAIN ms = 1..Len(ms) /\ Len(s) # 0
      <3>1. PICK n \in Nat : n = Len(s)
        BY <1>2
      <3>2. PICK R : \A k \in 1..n : ms[k] \in R
        <4>1. \A k \in 1..n : ms[k] \in {ms[j] : j \in 1..n}
          OBVIOUS
        <4> QED BY <4>1
      <3>3. DOMAIN ms = 1..n /\ ms = [k \in 1..n |-> ms[k]]
        BY <2>1, <3>1
      <3>4. ms \in Seq(R)
        BY <3>1, <3>2, <3>3
      <3>5. Len(ms) = n
        BY <3>1, <3>3, <3>4
      <3>6. n # 0
        BY <1>1, <1>10, <3>1
      <3> QED BY <3>1, <3>3, <3>5, <3>6
    <2>3. ASSUME NEW k \in 1..Len(s)
          PROVE  /\ ms[k].asset = s[k] /\ ms[k].op = op(k)
                 /\ ms[k].amount = IF k > J THEN 1 ELSE RawAmount(cart, s[k])
                 /\ ms[k].carriesFees = (k = 1)
                 /\ ms[k].value = TonOfMessage(k, ton) + NetworkFee(op(k), k = 1) + ForwardAmount
      <3>1. ms[k] = Message(s[k], op(k), IF k > J THEN 1 ELSE RawAmount(cart, s[k]),
                            TonOfMessage(k, ton), ForwardAmount, k = 1)
        BY <2>1
      <3> HIDE DEF op
      <3> QED BY <3>1, MessageFields
    <2>4. ASSUME NEW k \in 1..Len(s)
          PROVE  /\ ms[k].op \in Ops
                 /\ ms[k].value = (IF k = 1 THEN ton ELSE 0) + NetworkFee(ms[k].op, k = 1) + ForwardAmount
                 /\ ms[k].carriesFees = (k = 1)
                 /\ ms[k].amount = IF ms[k].asset \in NftIds(cart) THEN 1 ELSE Demand(cart, ms[k].asset)
                 /\ \A j \in 1..Len(cart) :
                        cart[j].id = ms[k].asset => ms[k].op = OpType(cart[j].kind, cart[j].origin)
      <3>1. ms[k].asset = s[k] /\ ms[k].op = op(k) /\ ms[k].carriesFees = (k = 1)
            /\ ms[k].amount = (IF k > J THEN 1 ELSE RawAmount(cart, s[k]))
            /\ ms[k].value = TonOfMessage(k, ton) + NetworkFee(op(k), k = 1) + ForwardAmount
        BY <2>3
      <3>2. op(k) \in Ops
        BY <1>8
      <3>3. (k > J <=> s[k] \in NftIds(cart)) /\ RawAmount(cart, s[k]) = Demand(cart, s[k])
        BY <1>1, RawAmountIs
      <3>4. \A j \in 1..Len(cart) : cart[j].id = s[k] => op(k) = OpType(cart[j].kind, cart[j].origin)
        BY <1>1
      <3> HIDE DEF op, kind
      <3> QED BY <3>1, <3>2, <3>3, <3>4 DEF TonOfMessage
    <2>5. Lists([k \in 1..Len(ms) |-> ms[k].asset], Ids(cart))
      <3> HIDE DEF op, kind
      <3>1. [k \in 1..Len(s) |-> ms[k].asset] = [k \in 1..Len(s) |-> s[k]]
        BY <2>3
      <3>2. s = [k \in 1..Len(s) |-> s[k]]
        BY <1>1
      <3> QED BY <1>1, <2>2, <3>1, <3>2
    <2>6. Ids(cart) # {} /\ Len(ms) = ShardCount(cart) /\ Len(ms) = Cardinality(Ids(cart))
      BY <1>2, <1>3, <1>4, <1>10, <2>2
    <2>7. DOMAIN ms = 1..Len(ms) /\ Len(ms) \in Nat \ {0}
      BY <1>2, <2>2
    <2>8. \A k \in 1..Len(ms) :
              /\ ms[k].op \in Ops
              /\ ms[k].value = (IF k = 1 THEN Demand(cart, "ton") + FeeTonAmount(fee) ELSE 0)
                                  + NetworkFee(ms[k].op, k = 1) + ForwardAmount
              /\ ms[k].carriesFees = (k = 1)
              /\ ms[k].amount = IF ms[k].asset \in NftIds(cart) THEN 1 ELSE Demand(cart, ms[k].asset)
              /\ \A j \in 1..Len(cart) :
                     cart[j].id = ms[k].asset => ms[k].op = OpType(cart[j].kind, cart[j].origin)
      BY ONLY <1>5, <2>2, <2>4
    <2> QED BY ONLY <2>5, <2>6, <2>7, <2>8 DEF Shaped, ms
  <1> QED BY <1>9, <1>10 DEF ms

\* What ValueConserved says of a prepared transaction.
Conserved(cart, fee, ms) ==
    /\ SumFunction([k \in 1..Len(ms) |-> ms[k].value]) =
           Demand(cart, "ton") + FeeTonAmount(fee)
             + SumFunction([k \in 1..Len(ms) |-> NetworkFee(ms[k].op, k = 1)])
             + Cardinality(Ids(cart)) * ForwardAmount
    /\ Cardinality({k \in 1..Len(ms) : ms[k].carriesFees}) = 1
    /\ \A id \in Ids(cart) : Cardinality({k \in 1..Len(ms) : ms[k].asset = id}) = 1
    /\ \A k \in 1..Len(ms) :
           ms[k].amount = IF ms[k].asset \in NftIds(cart) THEN 1 ELSE Demand(cart, ms[k].asset)
    /\ \A k \in 1..Len(ms) : \A j \in 1..Len(cart) :
           cart[j].id = ms[k].asset => ms[k].op = OpType(cart[j].kind, cart[j].origin)

LEMMA ShapedConserves ==
    ASSUME NEW cart \in Seq(Assets), NEW fee \in FeeParams, NEW ms, Shaped(cart, fee, ms)
    PROVE  Conserved(cart, fee, ms) /\ \A k \in 1..Len(ms) : ms[k].value \in Nat
  <1> DEFINE n == Len(ms)
             none == Ids(cart) = {}
             forward == IF none THEN 0 ELSE ForwardAmount
             ton == Demand(cart, "ton") + FeeTonAmount(fee)
             first == [k \in 1..n |-> IF k = 1 THEN ton ELSE 0]
             net == [k \in 1..n |-> NetworkFee(ms[k].op, k = 1)]
             rest == [k \in 1..n |-> forward]
             part == [k \in 1..n |-> first[k] + net[k]]
             value == [k \in 1..n |-> ms[k].value]
  <1>1. /\ n \in Nat \ {0}
        /\ \A k \in 1..n :
               /\ ms[k].op \in Ops
               /\ ms[k].value = (IF k = 1 THEN ton ELSE 0) + NetworkFee(ms[k].op, k = 1) + forward
    BY DEF Shaped
  <1>2. forward \in Nat
    BY PrepareAssumption
  <1>3. ton \in Nat
    <2>1. FeeTonAmount(fee) \in Nat
      BY DEF FeeTonAmount, FeeParams
    <2>2. Demand(cart, "ton") \in Nat
      BY RawAmountIs
    <2> QED BY <2>1, <2>2
  <1>4. ASSUME NEW k \in 1..n PROVE NetworkFee(ms[k].op, k = 1) \in Nat
    <2>1. (k = 1) \in BOOLEAN
      OBVIOUS
    <2> QED BY <1>1, <2>1, NetworkFeeType
  <1> HIDE DEF n, forward, ton
  <1>5. /\ \A k \in 1..n : first[k] \in Nat /\ first[k] = IF k = 1 THEN ton ELSE 0
        /\ \A k \in 1..n : net[k] \in Nat /\ net[k] = NetworkFee(ms[k].op, k = 1)
        /\ \A k \in 1..n : rest[k] \in Nat /\ rest[k] = forward
    BY <1>2, <1>3, <1>4
  <1>6. \A k \in 1..n : value[k] = ms[k].value
    OBVIOUS
  <1>7. \A k \in 1..n : part[k] = first[k] + net[k]
    OBVIOUS
  <1>8. DOMAIN value = 1..n /\ DOMAIN net = 1..n
    OBVIOUS
  <1> HIDE DEF first, net, rest, value, part
  <1>9. \A k \in 1..n : part[k] \in Nat
    BY <1>5, <1>7
  <1>10. \A k \in 1..n : value[k] = part[k] + rest[k] /\ value[k] \in Nat
    <2>1. ASSUME NEW k \in 1..n PROVE value[k] = part[k] + rest[k] /\ value[k] \in Nat
      <3>1. value[k] = (IF k = 1 THEN ton ELSE 0) + NetworkFee(ms[k].op, k = 1) + forward
        BY <1>1, <1>6
      <3>2. value[k] = first[k] + net[k] + rest[k]
        BY <1>5, <3>1
      <3> QED BY <1>5, <1>7, <3>2
    <2> QED BY <2>1
  <1>11. SumFunction([k \in 1..n |-> ms[k].value]) =
             ton + SumFunction([k \in 1..n |-> NetworkFee(ms[k].op, k = 1)])
               + Cardinality(Ids(cart)) * ForwardAmount
    <2>1. PICK S : S = 1..n
      OBVIOUS
    <2>2. IsFiniteSet(S) /\ 1 \in S /\ Cardinality(S) = n
      <3>1. PICK m \in Nat \ {0} : m = n
        BY <1>1
      <3>2. IsFiniteSet(1..m) /\ Cardinality(1..m) = m - 1 + 1
        BY FS_Interval
      <3>3. S = 1..m /\ m - 1 + 1 = m /\ 1 \in 1..m
        BY <2>1, <3>1
      <3> QED BY <3>1, <3>2, <3>3
    <2>3. SumFunctionOnSet(value, S) = SumFunctionOnSet(part, S) + SumFunctionOnSet(rest, S)
      <3>1. \A x \in S : part[x] \in Nat
        BY <1>9, <2>1
      <3>2. \A x \in S : rest[x] \in Nat
        BY <1>5, <2>1
      <3>3. \A x \in S : value[x] = part[x] + rest[x]
        BY <1>10, <2>1
      <3> QED BY ONLY <2>2, <3>1, <3>2, <3>3, SumOfPlus
    <2>4. SumFunctionOnSet(part, S) = SumFunctionOnSet(first, S) + SumFunctionOnSet(net, S)
      <3>1. \A x \in S : first[x] \in Nat
        BY <1>5, <2>1
      <3>2. \A x \in S : net[x] \in Nat
        BY <1>5, <2>1
      <3>3. \A x \in S : part[x] = first[x] + net[x]
        BY <1>7, <2>1
      <3> QED BY ONLY <2>2, <3>1, <3>2, <3>3, SumOfPlus
    <2>5. SumFunctionOnSet(rest, S) = n * forward
      <3>1. \A x \in S : rest[x] = forward
        BY <1>5, <2>1
      <3>2. SumFunctionOnSet(rest, S) = Cardinality(S) * forward
        BY ONLY <1>2, <2>2, <3>1, SumOfSame
      <3> QED BY <2>2, <3>2
    <2>6. SumFunctionOnSet(first, S) = ton
      <3>1. \A x \in S : first[x] \in Nat
        BY <1>5, <2>1
      <3>2. {1} \in SUBSET S /\ \A x \in S \ {1} : first[x] = 0
        BY <1>5, <2>1, <2>2
      <3>3. SumFunctionOnSet(first, S) = SumFunctionOnSet(first, {1})
        BY ONLY <2>2, <3>1, <3>2, SumWithoutZeros
      <3>4. first[1] = ton /\ first[1] \in Nat
        BY <1>5, <2>1, <2>2
      <3>5. SumFunctionOnSet(first, {1}) = first[1]
        BY ONLY <3>4, SumOfOne
      <3> QED BY <3>3, <3>4, <3>5
    <2>7. SumFunctionOnSet(net, S) \in Nat
      <3>1. \A x \in S : net[x] \in Nat
        BY <1>5, <2>1
      <3> QED BY ONLY <2>2, <3>1, SumOfParts
    <2>8. n * forward = Cardinality(Ids(cart)) * ForwardAmount
      <3>1. n = IF none THEN 1 ELSE Cardinality(Ids(cart))
        BY DEF Shaped, n
      <3>2. CASE none
        <4>1. Cardinality(Ids(cart)) = 0 /\ forward = 0
          BY <3>2, FS_EmptySet DEF forward
        <4>2. ForwardAmount \in Nat /\ n \in Nat
          BY <1>1, PrepareAssumption
        <4> QED BY <4>1, <4>2
      <3>3. CASE ~none
        BY <3>1, <3>3 DEF forward
      <3> QED BY <3>2, <3>3
    <2>9. SumFunction([k \in 1..n |-> ms[k].value]) = SumFunctionOnSet(value, S)
      BY <1>8, <2>1 DEF SumFunction, value
    <2>10. SumFunction([k \in 1..n |-> NetworkFee(ms[k].op, k = 1)]) = SumFunctionOnSet(net, S)
      BY <1>8, <2>1 DEF SumFunction, net
    <2> QED BY <1>3, <2>3, <2>4, <2>5, <2>6, <2>7, <2>8, <2>9, <2>10
  <1>12. Cardinality({k \in 1..n : ms[k].carriesFees}) = 1
    <2>1. \A k \in 1..n : ms[k].carriesFees = (k = 1)
      BY DEF Shaped, n
    <2>2. \A k \in 1..n : ms[k].carriesFees <=> k = 1
      BY <2>1, Zenon
    <2>3. 1 \in 1..n
      BY <1>1
    <2>4. {k \in 1..n : ms[k].carriesFees} = {1}
      BY <2>2, <2>3, Zenon
    <2> QED BY <2>4, FS_Singleton
  <1>13. ASSUME NEW id \in Ids(cart) PROVE Cardinality({k \in 1..n : ms[k].asset = id}) = 1
    <2> DEFINE q == [k \in 1..n |-> ms[k].asset]
    <2>1. Lists(q, Ids(cart))
      BY <1>13 DEF Shaped, n
    <2>2. Len(q) = n
      <3>1. q \in Seq(Ids(cart)) /\ DOMAIN q = 1..n
        BY <2>1 DEF Lists
      <3> QED BY <1>1, <3>1
    <2>3. PICK i \in 1..n : q[i] = id
      BY <2>1, <2>2 DEF Lists
    <2>4. \A j \in 1..n : q[j] = id => j = i
      BY <2>1, <2>2, <2>3 DEF Lists
    <2>5. {k \in 1..n : ms[k].asset = id} = {i}
      BY <2>3, <2>4
    <2> QED BY <2>5, FS_Singleton
  <1>14. /\ \A k \in 1..n :
                ms[k].amount = IF ms[k].asset \in NftIds(cart) THEN 1 ELSE Demand(cart, ms[k].asset)
         /\ \A k \in 1..n : \A j \in 1..Len(cart) :
                cart[j].id = ms[k].asset => ms[k].op = OpType(cart[j].kind, cart[j].origin)
    BY DEF Shaped, n
  <1>15. \A k \in 1..n : ms[k].value \in Nat
    BY <1>6, <1>10
  <1> QED BY <1>11, <1>12, <1>13, <1>14, <1>15 DEF Conserved, n, ton

-------------------------------------------------------------------------------
(* prepareBatchTransactions: what the assets of a batch add up to. *)

LEMMA SumOfBoth ==
    ASSUME NEW A, IsFiniteSet(A), NEW B, IsFiniteSet(B), A \cap B = {},
           NEW f, \A x \in A \union B : f[x] \in Nat
    PROVE  SumFunctionOnSet(f, A \union B) = SumFunctionOnSet(f, A) + SumFunctionOnSet(f, B)
  <1> DEFINE S == A \union B
             fa == [x \in S |-> IF x \in A THEN f[x] ELSE 0]
             fb == [x \in S |-> IF x \in B THEN f[x] ELSE 0]
  <1>1. IsFiniteSet(S) /\ A \in SUBSET S /\ B \in SUBSET S
    BY FS_Union
  <1>2. \A x \in S : fa[x] \in Nat
    OBVIOUS
  <1>3. \A x \in S : fb[x] \in Nat
    OBVIOUS
  <1>4. \A x \in S : f[x] = fa[x] + fb[x]
    OBVIOUS
  <1>5. \A x \in A : fa[x] = f[x] /\ fa[x] \in Nat
    OBVIOUS
  <1>6. \A x \in B : fb[x] = f[x] /\ fb[x] \in Nat
    OBVIOUS
  <1>7. (\A x \in S \ A : fa[x] = 0) /\ \A x \in S \ B : fb[x] = 0
    OBVIOUS
  <1> HIDE DEF S, fa, fb
  <1>8. SumFunctionOnSet(f, S) = SumFunctionOnSet(fa, S) + SumFunctionOnSet(fb, S)
    BY ONLY <1>1, <1>2, <1>3, <1>4, SumOfPlus
  <1>9. SumFunctionOnSet(fa, S) = SumFunctionOnSet(fa, A)
    BY ONLY <1>1, <1>2, <1>7, SumWithoutZeros
  <1>10. SumFunctionOnSet(fb, S) = SumFunctionOnSet(fb, B)
    BY ONLY <1>1, <1>3, <1>7, SumWithoutZeros
  <1>11. SumFunctionOnSet(fa, A) = SumFunctionOnSet(f, A)
    BY ONLY IsFiniteSet(A), <1>5, SumOfEquals
  <1>12. SumFunctionOnSet(fb, B) = SumFunctionOnSet(f, B)
    BY ONLY IsFiniteSet(B), <1>6, SumOfEquals
  <1> QED BY <1>8, <1>9, <1>10, <1>11, <1>12 DEF S

\* What one position of a list asks of an id.
Asks(cart, id) == [k \in 1..Len(cart) |-> IF cart[k].id = id THEN cart[k].amount ELSE 0]

LEMMA CartTypes ==
    ASSUME NEW cart \in Seq(Assets)
    PROVE  /\ Len(cart) \in Nat /\ IsFiniteSet(1..Len(cart))
           /\ \A k \in 1..Len(cart) :
                  /\ cart[k] \in Assets /\ cart[k].kind \in {"ton", "ft", "nft"}
                  /\ cart[k].id \in STRING /\ cart[k].origin \in {"TON", "TAC"} /\ cart[k].amount \in Nat
           /\ \A id : \A k \in 1..Len(cart) :
                  /\ Asks(cart, id)[k] \in Nat
                  /\ Asks(cart, id)[k] = IF cart[k].id = id THEN cart[k].amount ELSE 0
  <1>1. PICK n \in Nat : n = Len(cart)
    OBVIOUS
  <1>2. \A k \in 1..n : cart[k] \in Assets
    BY <1>1
  <1>3. \A a \in Assets : /\ a.kind \in {"ton", "ft", "nft"} /\ a.id \in STRING
                          /\ a.origin \in {"TON", "TAC"} /\ a.amount \in Nat
    BY DEF Assets
  <1>4. \A id : \A k \in 1..n : Asks(cart, id)[k] = IF cart[k].id = id THEN cart[k].amount ELSE 0
    BY <1>1 DEF Asks
  <1>5. ASSUME NEW k \in 1..n
        PROVE  /\ cart[k] \in Assets /\ cart[k].kind \in {"ton", "ft", "nft"}
               /\ cart[k].id \in STRING /\ cart[k].origin \in {"TON", "TAC"} /\ cart[k].amount \in Nat
    BY <1>2, <1>3
  <1>6. ASSUME NEW id, NEW k \in 1..n PROVE Asks(cart, id)[k] \in Nat
    BY <1>4, <1>5
  <1>7. IsFiniteSet(1..n)
    BY <1>1, FS_Interval
  <1> QED BY ONLY <1>1, <1>4, <1>5, <1>6, <1>7

LEMMA DemandByPosition ==
    ASSUME NEW cart \in Seq(Assets), NEW id
    PROVE  Demand(cart, id) = SumFunctionOnSet(Asks(cart, id), 1..Len(cart))
  <1> DEFINE h == [k \in 1..Len(cart) |-> cart[k].amount]
             P == {k \in 1..Len(cart) : cart[k].id = id}
  <1>1. PICK D, g : D = 1..Len(cart) /\ g = Asks(cart, id)
    OBVIOUS
  <1>2. /\ IsFiniteSet(D)
        /\ \A k \in D : g[k] \in Nat /\ g[k] = IF cart[k].id = id THEN cart[k].amount ELSE 0
    BY <1>1, CartTypes
  <1>3. \A k \in D : g[k] \in Nat
    BY <1>2
  <1>4. P \in SUBSET D /\ \A k \in D \ P : g[k] = 0
    BY <1>1, <1>2
  <1>5. \A k \in P : g[k] \in Nat /\ g[k] = h[k]
    BY <1>1, <1>2
  <1>6. Demand(cart, id) = SumFunctionOnSet(h, P)
    BY DEF Demand
  <1> HIDE DEF h, P
  <1>7. IsFiniteSet(P)
    BY <1>2, <1>4, FS_Subset
  <1>8. SumFunctionOnSet(g, D) = SumFunctionOnSet(g, P)
    BY ONLY <1>2, <1>3, <1>4, SumWithoutZeros
  <1>9. SumFunctionOnSet(g, P) = SumFunctionOnSet(h, P)
    BY ONLY <1>5, <1>7, SumOfEquals
  <1> QED BY <1>1, <1>6, <1>8, <1>9

LEMMA DemandOfJoined ==
    ASSUME NEW q \in Seq(Assets), NEW r \in Seq(Assets), NEW id
    PROVE  q \o r \in Seq(Assets) /\ Demand(q \o r, id) = Demand(q, id) + Demand(r, id)
  <1>1. PICK n \in Nat, m \in Nat : n = Len(q) /\ m = Len(r)
    OBVIOUS
  <1>2. PICK s \in Seq(Assets) : s = q \o r
    <2>1. q \o r \in Seq(Assets)
      OBVIOUS
    <2> QED BY <2>1
  <1>3. Len(s) = n + m /\ \A i \in 1..n + m : s[i] = IF i <= n THEN q[i] ELSE r[i - n]
    BY <1>1, <1>2
  <1>4. PICK g, gq, gr : g = Asks(s, id) /\ gq = Asks(q, id) /\ gr = Asks(r, id)
    OBVIOUS
  <1>5. PICK A, B, S : A = 1..n /\ B = n + 1..n + m /\ S = 1..n + m
    OBVIOUS
  <1>6. IsFiniteSet(A) /\ IsFiniteSet(B) /\ A \cap B = {} /\ S = A \union B
    <2>1. IsFiniteSet(1..n) /\ IsFiniteSet(n + 1..n + m)
      BY <1>1, FS_Interval
    <2>2. A \cap B = {} /\ S = A \union B
      BY <1>1, <1>5
    <2> QED BY <1>5, <2>1, <2>2
  <1>7. \A i \in S : g[i] \in Nat /\ g[i] = IF s[i].id = id THEN s[i].amount ELSE 0
    <2>1. \A k \in 1..Len(s) : Asks(s, id)[k] \in Nat /\ Asks(s, id)[k] = IF s[k].id = id THEN s[k].amount ELSE 0
      BY CartTypes
    <2> QED BY <1>3, <1>4, <1>5, <2>1
  <1>8. \A i \in A : gq[i] \in Nat /\ gq[i] = IF q[i].id = id THEN q[i].amount ELSE 0
    <2>1. \A k \in 1..Len(q) : Asks(q, id)[k] \in Nat /\ Asks(q, id)[k] = IF q[k].id = id THEN q[k].amount ELSE 0
      BY CartTypes
    <2> QED BY <1>1, <1>4, <1>5, <2>1
  <1>9. \A i \in 1..m : gr[i] \in Nat /\ gr[i] = IF r[i].id = id THEN r[i].amount ELSE 0
    <2>1. \A k \in 1..Len(r) : Asks(r, id)[k] \in Nat /\ Asks(r, id)[k] = IF r[k].id = id THEN r[k].amount ELSE 0
      BY CartTypes
    <2> QED BY <1>1, <1>4, <2>1
  <1>10. SumFunctionOnSet(g, A \union B) = SumFunctionOnSet(g, A) + SumFunctionOnSet(g, B)
    <2>1. \A x \in A \union B : g[x] \in Nat
      BY <1>6, <1>7
    <2> QED BY ONLY <1>6, <2>1, SumOfBoth
  <1>11. SumFunctionOnSet(g, A) = SumFunctionOnSet(gq, A)
    <2>1. \A x \in A : g[x] = gq[x]
      <3>1. ASSUME NEW x \in A PROVE g[x] = gq[x]
        <4>1. x \in S /\ s[x] = q[x]
          BY <1>1, <1>3, <1>5
        <4> QED BY <1>7, <1>8, <4>1
      <3> QED BY <3>1
    <2>2. \A x \in A : g[x] \in Nat
      BY <1>6, <1>7
    <2> QED BY ONLY <1>6, <2>1, <2>2, SumOfEquals
  <1>12. SumFunctionOnSet(gr, 1..m) = SumFunctionOnSet(g, B)
    <2>1. PICK b : b = [i \in 1..m |-> n + i]
      OBVIOUS
    <2>2. b \in [1..m -> B] /\ (\A i, j \in 1..m : b[i] = b[j] => i = j) /\ \A i \in 1..m : b[i] = n + i
      BY <1>1, <1>5, <2>1
    <2>3. \A x \in B : \E i \in 1..m : b[i] = x
      <3>1. ASSUME NEW x \in B PROVE x - n \in 1..m /\ n + (x - n) = x
        BY <1>1, <1>5
      <3> QED BY <2>2, <3>1
    <2>4. \A i \in 1..m : gr[i] = g[b[i]]
      <3>1. ASSUME NEW i \in 1..m PROVE gr[i] = g[b[i]]
        <4>1. n + i \in S /\ ~(n + i <= n) /\ n + i - n = i
          BY <1>1, <1>5
        <4>2. s[n + i] = r[i]
          BY <1>3, <1>5, <4>1
        <4> QED BY <1>7, <1>9, <2>2, <4>1, <4>2
      <3> QED BY <3>1
    <2>5. \A x \in B : g[x] \in Nat
      BY <1>6, <1>7
    <2>6. m \in Nat /\ IsFiniteSet(B)
      BY <1>1, <1>6
    <2>7. Numbers(b, m, B)
      BY <2>2, <2>3 DEF Numbers
    <2> QED BY ONLY <2>4, <2>5, <2>6, <2>7, SumOfList
  <1>13. /\ Demand(s, id) = SumFunctionOnSet(g, S)
         /\ Demand(q, id) = SumFunctionOnSet(gq, A)
         /\ Demand(r, id) = SumFunctionOnSet(gr, 1..m)
    BY <1>1, <1>2, <1>3, <1>4, <1>5, DemandByPosition
  <1> QED BY <1>2, <1>6, <1>10, <1>11, <1>12, <1>13

\* A list of lists is joined from the left.
Joins(f, seqs, n) == f[1] = seqs[1] /\ \A i \in 1..n : i # 1 => f[i] = f[i - 1] \o seqs[i]

LEMMA FlattenIs ==
    ASSUME NEW n \in Nat \ {0}, NEW seqs, Len(seqs) = n, \A i \in 1..n : seqs[i] \in Seq(Assets)
    PROVE  \E f : FlattenSeq(seqs) = f[n] /\ Joins(f, seqs, n)
  <1> DEFINE body(f, i) == IF i = 1 THEN seqs[i] ELSE f[i - 1] \o seqs[i]
             Is(f) == f = [i \in 1..n |-> body(f, i)]
             flatten == CHOOSE f : Is(f)
             step == [k \in 1..n |-> [q \in Seq(Assets) |-> q \o seqs[k]]]
  <1>1. FlattenSeq(seqs) = flatten[n]
    BY DEF FlattenSeq
  <1>2. \E f : Is(f)
    <2>1. PICK c : IsFiniteSet(1..n) /\ Picks(c, 1..n) /\ \A s \in SUBSET (1..n) : c[s] = Max(s)
      BY FromEndPicks
    <2>2. PICK it : Folds(it, c, step, <<>>, 1..n)
      <3> HIDE DEF step
      <3> QED BY <2>1, FoldExists
    <2>3. it[{}] = <<>> /\ \A s \in SUBSET (1..n) : s # {} => it[s] = step[c[s]][it[s \ {c[s]}]]
      BY <2>2 DEF Folds
    <2>4. \A k \in 1..n : \A q \in Seq(Assets) : step[k][q] = q \o seqs[k] /\ step[k][q] \in Seq(Assets)
      <3>1. ASSUME NEW k \in 1..n, NEW q \in Seq(Assets) PROVE step[k][q] = q \o seqs[k]
        OBVIOUS
      <3>2. ASSUME NEW k \in 1..n, NEW q \in Seq(Assets) PROVE q \o seqs[k] \in Seq(Assets)
        <4>1. seqs[k] \in Seq(Assets)
          OBVIOUS
        <4> QED BY <4>1
      <3> QED BY <3>1, <3>2
    <2> HIDE DEF step
    <2>5. \A s \in SUBSET (1..n) : it[s] \in Seq(Assets)
      <3>1. ASSUME NEW s \in SUBSET (1..n), s # {}, it[s \ {c[s]}] \in Seq(Assets)
            PROVE  it[s] \in Seq(Assets)
        <4>1. PICK q \in Seq(Assets) : q = it[s \ {c[s]}]
          BY <3>1
        <4>2. c[s] \in 1..n /\ it[s] = step[c[s]][q]
          BY <2>1, <2>3, <3>1, <4>1 DEF Picks
        <4> QED BY <2>4, <4>2
      <3>2. it[{}] \in Seq(Assets)
        BY <2>3
      <3>3. \A s \in SUBSET (1..n) : s # {} /\ it[s \ {c[s]}] \in Seq(Assets) => it[s] \in Seq(Assets)
        BY <3>1
      <3> QED BY ONLY <2>1, <3>2, <3>3, FoldStays
    <2> DEFINE f == [i \in 1..n |-> it[1..i]]
    <2>6. ASSUME NEW i \in 1..n PROVE f[i] = body(f, i)
      <3>1. 1..i \in SUBSET (1..n) /\ 1..i # {} /\ (1..i) \ {i} = 1..(i - 1) /\ 1..(i - 1) \in SUBSET (1..n)
        <4>1. i \in 1..i /\ \A x \in 1..i : x \in 1..n
          OBVIOUS
        <4>2. \A x \in 1..(i - 1) : x \in 1..n
          OBVIOUS
        <4>3. (1..i) \ {i} = 1..(i - 1)
          OBVIOUS
        <4> QED BY <4>1, <4>2, <4>3
      <3>2. c[1..i] = i
        <4>1. Max(1..i) \in 1..i /\ \A y \in 1..i : Max(1..i) >= y
          BY <3>1, Extremes
        <4>2. i \in 1..i
          OBVIOUS
        <4> QED BY <2>1, <3>1, <4>1, <4>2
      <3>3. it[1..i] = step[i][it[1..(i - 1)]]
        BY <2>3, <3>1, <3>2
      <3>4. it[1..(i - 1)] \in Seq(Assets)
        BY <2>5, <3>1
      <3>5. f[i] = it[1..(i - 1)] \o seqs[i]
        BY <2>4, <3>3, <3>4
      <3>6. CASE i = 1
        <4>1. 1..(i - 1) = {}
          BY <3>6
        <4>2. f[i] = <<>> \o seqs[i] /\ seqs[i] \in Seq(Assets)
          BY <2>3, <3>5, <4>1
        <4>3. \A q \in Seq(Assets) : <<>> \o q = q
          OBVIOUS
        <4> HIDE DEF f
        <4> QED BY <3>6, <4>2, <4>3
      <3>7. CASE i # 1
        <4>1. i - 1 \in 1..n
          BY <3>7
        <4>2. f[i - 1] = it[1..(i - 1)]
          BY <4>1
        <4> HIDE DEF f
        <4> QED BY <3>5, <3>7, <4>2
      <3> QED BY <3>6, <3>7
    <2>7. f = [i \in 1..n |-> f[i]]
      OBVIOUS
    <2> HIDE DEF f, body
    <2>8. [i \in 1..n |-> f[i]] = [i \in 1..n |-> body(f, i)]
      BY <2>6, Zenon
    <2>9. Is(f)
      BY <2>7, <2>8
    <2> QED BY <2>9
  <1>3. Is(flatten)
    BY <1>2
  <1> HIDE DEF flatten
  <1>4. \A i \in 1..n : flatten[i] = body(flatten, i)
    BY <1>3
  <1>5. Joins(flatten, seqs, n)
    <2>1. 1 \in 1..n
      OBVIOUS
    <2> QED BY <1>4, <2>1 DEF Joins
  <1> QED BY <1>1, <1>5

\* What is joined is a list of the parts' elements and asks for what they ask for.
LEMMA FlattenDemand ==
    ASSUME NEW n \in Nat \ {0}, NEW seqs, Len(seqs) = n, \A i \in 1..n : seqs[i] \in Seq(Assets)
    PROVE  LET all == FlattenSeq(seqs) IN
           /\ all \in Seq(Assets)
           /\ \A i \in 1..n : \A j \in 1..Len(seqs[i]) : \E k \in 1..Len(all) : all[k] = seqs[i][j]
           /\ \A id : Demand(all, id) = SumFunctionOnSet([i \in 1..n |-> Demand(seqs[i], id)], 1..n)
  <1>0. PICK f : FlattenSeq(seqs) = f[n] /\ Joins(f, seqs, n)
    BY FlattenIs
  <1>1. /\ FlattenSeq(seqs) = f[n] /\ f[1] = seqs[1]
        /\ \A i \in 1..n : i # 1 => f[i] = f[i - 1] \o seqs[i]
    BY <1>0 DEF Joins
  <1> DEFINE d(id) == [i \in 1..n |-> Demand(seqs[i], id)]
             Holds(m) == /\ f[m] \in Seq(Assets)
                         /\ \A i \in 1..m : \A j \in 1..Len(seqs[i]) : \E k \in 1..Len(f[m]) : f[m][k] = seqs[i][j]
                         /\ \A id : Demand(f[m], id) = SumFunctionOnSet(d(id), 1..m)
             N == {m \in Nat : m + 1 <= n => Holds(m + 1)}
  <1>2. \A id : \A i \in 1..n : d(id)[i] \in Nat /\ d(id)[i] = Demand(seqs[i], id)
    BY RawAmountIs
  <1> HIDE DEF d
  <1>3. 0 \in N
    <2>1. 0 + 1 = 1 /\ 1 \in 1..n /\ 1..1 = {1}
      OBVIOUS
    <2>2. f[1] = seqs[1] /\ seqs[1] \in Seq(Assets)
      BY <1>1, <2>1
    <2>3. ASSUME NEW id PROVE Demand(f[1], id) = SumFunctionOnSet(d(id), 1..1)
      <3>1. d(id)[1] \in Nat /\ d(id)[1] = Demand(f[1], id)
        BY <1>2, <2>1, <2>2
      <3>2. SumFunctionOnSet(d(id), {1}) = d(id)[1]
        BY <3>1, SumOfOne
      <3> QED BY <2>1, <3>1, <3>2
    <2>4. \A i \in 1..1 : \A j \in 1..Len(seqs[i]) : \E k \in 1..Len(f[1]) : f[1][k] = seqs[i][j]
      BY <2>1, <2>2
    <2>5. Holds(1)
      BY <2>2, <2>3, <2>4
    <2> QED BY <2>1, <2>5
  <1>4. ASSUME NEW p \in Nat, p \in N PROVE p + 1 \in N
    <2>1. PICK m \in Nat : m = p + 1 /\ m # 0
      OBVIOUS
    <2>2. SUFFICES ASSUME m + 1 <= n PROVE Holds(m + 1)
      BY <2>1
    <2>3. Holds(m) /\ m + 1 \in 1..n /\ m \in 1..n
      BY <1>4, <2>1, <2>2
    <2>4. f[m + 1] = f[m] \o seqs[m + 1]
      <3>1. PICK i \in 1..n : i = m + 1
        BY <2>3
      <3>2. i # 1 /\ i - 1 = m
        BY <2>1, <3>1
      <3>3. f[i] = f[i - 1] \o seqs[i]
        BY <1>1, <3>2
      <3> QED BY <3>1, <3>2, <3>3
    <2>5. PICK q, r, s : q = f[m] /\ r = seqs[m + 1] /\ s = f[m + 1]
      OBVIOUS
    <2>6. q \in Seq(Assets) /\ r \in Seq(Assets) /\ s = q \o r
      BY <2>3, <2>4, <2>5
    <2>7. s \in Seq(Assets) /\ \A id : Demand(s, id) = Demand(q, id) + Demand(r, id)
      BY <2>6, DemandOfJoined
    <2>8. ASSUME NEW id PROVE Demand(s, id) = SumFunctionOnSet(d(id), 1..m + 1)
      <3>1. PICK S : S = 1..m + 1
        OBVIOUS
      <3>2. IsFiniteSet(S) /\ m + 1 \in S /\ S \ {m + 1} = 1..m /\ S \subseteq 1..n
        <4>1. IsFiniteSet(1..m + 1)
          BY FS_Interval
        <4> QED BY <2>2, <3>1, <4>1
      <3>3. \A x \in S : d(id)[x] \in Nat
        BY <1>2, <3>2
      <3>4. SumFunctionOnSet(d(id), S) = d(id)[m + 1] + SumFunctionOnSet(d(id), S \ {m + 1})
        BY ONLY <3>2, <3>3, SumOfParts
      <3>5. SumFunctionOnSet(d(id), 1..m) = Demand(q, id)
        BY <2>3, <2>5
      <3>6. d(id)[m + 1] = Demand(r, id) /\ Demand(r, id) \in Nat /\ Demand(q, id) \in Nat
        BY <1>2, <2>3, <2>5, <2>6, RawAmountIs
      <3>7. Demand(s, id) = Demand(q, id) + Demand(r, id)
        BY <2>7
      <3>8. SumFunctionOnSet(d(id), S) = Demand(r, id) + Demand(q, id)
        BY <3>2, <3>4, <3>5, <3>6
      <3> QED BY <3>1, <3>6, <3>7, <3>8
    <2>9. ASSUME NEW i \in 1..m + 1, NEW j \in 1..Len(seqs[i])
          PROVE  \E k \in 1..Len(s) : s[k] = seqs[i][j]
      <3>1. PICK a \in Nat, b \in Nat : a = Len(q) /\ b = Len(r)
        BY <2>6
      <3>2. Len(s) = a + b /\ \A k \in 1..a + b : s[k] = IF k <= a THEN q[k] ELSE r[k - a]
        BY <2>6, <3>1
      <3>3. CASE i = m + 1
        <4>1. j \in 1..b /\ seqs[i][j] = r[j]
          BY <2>5, <2>9, <3>1, <3>3
        <4>2. a + j \in 1..a + b /\ ~(a + j <= a) /\ a + j - a = j
          BY <4>1
        <4>3. s[a + j] = r[j]
          BY <3>2, <4>2
        <4>4. a + j \in 1..Len(s)
          BY <3>2, <4>2
        <4> QED BY <4>1, <4>3, <4>4
      <3>4. CASE i # m + 1
        <4>1. i \in 1..m
          BY <2>9, <3>4
        <4>2. PICK k \in 1..Len(q) : q[k] = seqs[i][j]
          BY <2>3, <2>5, <2>9, <4>1
        <4>3. k \in 1..a + b /\ k <= a
          BY <3>1, <4>2
        <4> QED BY <3>2, <4>2, <4>3
      <3> QED BY <3>3, <3>4
    <2> QED BY <2>5, <2>7, <2>8, <2>9
  <1>5. \A p \in Nat : p \in N
    <2> HIDE DEF N
    <2> QED BY <1>3, <1>4, NatInd
  <1>6. Holds(n)
    <2>1. n - 1 \in Nat /\ n - 1 + 1 = n
      OBVIOUS
    <2> HIDE DEF Holds
    <2>2. n - 1 \in N
      BY <1>5, <2>1
    <2> QED BY <2>1, <2>2
  <1>7. \A id : d(id) = [i \in 1..n |-> Demand(seqs[i], id)]
    BY DEF d
  <1> QED BY <1>1, <1>6, <1>7

LEMMA SetToSeqNumbers ==
    ASSUME NEW S, IsFiniteSet(S)
    PROVE  Cardinality(S) \in Nat /\ Numbers(SetToSeq(S), Cardinality(S), S)
  <1> DEFINE n == Cardinality(S)
             f == SetToSeq(S)
  <1>1. n \in Nat /\ ExistsBijection(1..n, S)
    BY FS_CardinalityType
  <1>2. \E g \in [1..n -> S] : IsInjective(g)
    BY <1>1 DEF ExistsBijection, Bijection, Injection
  <1>3. f \in [1..n -> S] /\ IsInjective(f)
    BY <1>2 DEF SetToSeq
  <1> HIDE DEF f
  <1>4. f \in Injection(1..n, S)
    BY <1>3 DEF Injection
  <1>5. Cardinality(1..n) = n
    BY <1>1, FS_Interval
  <1>6. f \in Surjection(1..n, S)
    BY <1>4, <1>5, FS_Injection
  <1>7. \A x \in S : \E i \in 1..n : f[i] = x
    BY <1>6 DEF Surjection
  <1>8. \A i \in 1..n : f[i] \in S
    BY <1>3
  <1>9. \A i, j \in 1..n : f[i] = f[j] => i = j
    BY <1>3 DEF IsInjective
  <1> QED BY <1>1, <1>7, <1>8, <1>9 DEF Numbers, f

\* The joined list of a batch.
LEMMA BatchCart ==
    ASSUME NEW S, IsFiniteSet(S), \A t \in S : request[t].cart \in Seq(Assets)
    PROVE  /\ AllCarts(S) \in Seq(Assets)
           /\ \A t \in S : \A j \in 1..Len(request[t].cart) :
                  \E k \in 1..Len(AllCarts(S)) : AllCarts(S)[k] = request[t].cart[j]
           /\ \A id : Demand(AllCarts(S), id) =
                          SumFunctionOnSet([t \in S |-> Demand(request[t].cart, id)], S)
  <1> DEFINE n == Cardinality(S)
             b == SetToSeq(S)
             seqs == [k \in 1..n |-> request[b[k]].cart]
  <1>1. n \in Nat /\ Numbers(b, n, S)
    BY SetToSeqNumbers
  <1>2. /\ \A i \in 1..n : b[i] \in S
        /\ \A x \in S : \E i \in 1..n : b[i] = x
    BY <1>1 DEF Numbers
  <1>3. AllCarts(S) = FlattenSeq(seqs)
    BY DEF AllCarts
  <1> HIDE DEF n, b
  <1>4. \A i \in 1..n : seqs[i] = request[b[i]].cart /\ seqs[i] \in Seq(Assets)
    BY <1>2
  <1>5. Len(seqs) = n /\ (n = 0 => seqs = <<>>)
    <2>1. seqs \in Seq(Seq(Assets)) /\ DOMAIN seqs = 1..n
      BY <1>1, <1>4
    <2> QED BY <1>1, <2>1
  <1> HIDE DEF seqs
  <1>6. CASE n = 0
    <2>1. S = {}
      BY <1>6, FS_EmptySet DEF n
    <2>2. AllCarts(S) = <<>>
      BY <1>3, <1>5, <1>6 DEF FlattenSeq
    <2>3. <<>> \in Seq(Assets) /\ Len(<<>>) = 0
      OBVIOUS
    <2>4. ASSUME NEW id PROVE Demand(<<>>, id) = SumFunctionOnSet([t \in S |-> Demand(request[t].cart, id)], S)
      <3>1. IsFiniteSet({}) /\ 1..Len(<<>>) = {}
        BY FS_EmptySet
      <3>2. Demand(<<>>, id) = SumFunctionOnSet(Asks(<<>>, id), {})
        BY <2>3, <3>1, DemandByPosition
      <3>3. SumFunctionOnSet(Asks(<<>>, id), {}) = 0
        BY <3>1, SumOfParts
      <3>4. SumFunctionOnSet([t \in S |-> Demand(request[t].cart, id)], {}) = 0
        BY <3>1, SumOfParts
      <3> QED BY <2>1, <3>2, <3>3, <3>4
    <2> QED BY <2>1, <2>2, <2>3, <2>4
  <1>7. CASE n # 0
    <2>1. /\ AllCarts(S) \in Seq(Assets)
          /\ \A i \in 1..n : \A j \in 1..Len(seqs[i]) : \E k \in 1..Len(AllCarts(S)) : AllCarts(S)[k] = seqs[i][j]
          /\ \A id : Demand(AllCarts(S), id) = SumFunctionOnSet([i \in 1..n |-> Demand(seqs[i], id)], 1..n)
      <3>1. n \in Nat \ {0} /\ Len(seqs) = n
        BY <1>1, <1>5, <1>7
      <3>2. \A i \in 1..n : seqs[i] \in Seq(Assets)
        BY <1>4
      <3> DEFINE all == FlattenSeq(seqs)
      <3>3. /\ all \in Seq(Assets)
            /\ \A i \in 1..n : \A j \in 1..Len(seqs[i]) : \E k \in 1..Len(all) : all[k] = seqs[i][j]
            /\ \A id : Demand(all, id) = SumFunctionOnSet([i \in 1..n |-> Demand(seqs[i], id)], 1..n)
        BY ONLY <3>1, <3>2, FlattenDemand
      <3> QED BY <1>3, <3>3
    <2>2. ASSUME NEW t \in S, NEW j \in 1..Len(request[t].cart)
          PROVE  \E k \in 1..Len(AllCarts(S)) : AllCarts(S)[k] = request[t].cart[j]
      <3>1. PICK i \in 1..n : b[i] = t
        BY <1>2
      <3>2. seqs[i] = request[t].cart
        BY <1>4, <3>1
      <3> QED BY <2>1, <3>2
    <2>3. ASSUME NEW id
          PROVE  Demand(AllCarts(S), id) = SumFunctionOnSet([t \in S |-> Demand(request[t].cart, id)], S)
      <3> DEFINE d == [i \in 1..n |-> Demand(seqs[i], id)]
                 g == [t \in S |-> Demand(request[t].cart, id)]
      <3>1. \A t \in S : g[t] \in Nat
        BY RawAmountIs
      <3>2. \A i \in 1..n : d[i] = g[b[i]]
        BY <1>2, <1>4
      <3>3. Demand(AllCarts(S), id) = SumFunctionOnSet(d, 1..n)
        BY <2>1
      <3> HIDE DEF d, g
      <3>4. SumFunctionOnSet(d, 1..n) = SumFunctionOnSet(g, S)
        BY ONLY IsFiniteSet(S), <1>1, <3>1, <3>2, SumOfList
      <3> QED BY <3>3, <3>4 DEF g
    <2> QED BY <2>1, <2>2, <2>3
  <1> QED BY <1>6, <1>7

-------------------------------------------------------------------------------
(* The facade and TONTransactionManager: what is handed over, checked and      *)
(* prepared.                                                                   *)

RequestOf == [cart : Seq(Assets), msg : Msgs, options : TransactionOptions]

BatchTypes ==
    /\ gasLimit \in [Msgs -> Nat]
    /\ pc \in [Txs -> {"waiting", "start", "simulate", "prepared", "failed"}]
    /\ shardCount \in [Txs -> Nat]
    /\ DOMAIN simulation = Txs /\ DOMAIN feeParams = Txs /\ DOMAIN messages = Txs
    /\ outcome \in {"normalize", "validate", "payload", "prepare", "ready", "rejected"}
    /\ entry \in {"create", "objects", "payload", "send", "bridge"}
    /\ entry # "create" => request \in [Txs -> RequestOf] /\ Owning(balance)

\* What each call of the facade starts from, and how far it can get.
Entries ==
    /\ outcome \in {"normalize", "validate"} => \A t \in Txs : pc[t] = "waiting"
    /\ outcome = "payload" => entry = "payload"
    /\ entry = "create" => outcome = "rejected" /\ \A t \in Txs : pc[t] = "waiting"
    /\ entry = "bridge" => outcome = "normalize"
    /\ entry \in {"objects", "payload"} => \A t \in Txs : Coherent(request[t].cart)
    /\ entry = "send" => balance \in PlainBalances /\ \A t \in Txs : request[t].options = PlainOptions

\* The lists of a batch are what its callers resolved.
Handed ==
    (entry = "send" /\ outcome \in {"validate", "prepare", "ready"}) =>
        \A t \in Txs : call[t].phase = "resolved" /\ request[t].cart = CartOf(t)

\* Nothing is prepared before its assets are checked with those of the batch.
Checked ==
    /\ outcome \in {"prepare", "ready"} => AssetsValid /\ ~HasZeroAmount(AllCarts(ValidatedTxs))
    /\ outcome = "ready" => (\A t \in Txs : pc[t] = "prepared") /\ ~(balance["ton"] < TotalValue)

\* What a transaction that is prepared was prepared to.
PreparedRight ==
    \A t \in Txs :
        /\ pc[t] # "waiting" => Coherent(request[t].cart)
        /\ pc[t] = "prepared" =>
               /\ feeParams[t] \in FeeParams
               /\ messages[t] = MessagesOf(request[t].cart, feeParams[t])
               /\ shardCount[t] = ShardCount(request[t].cart)

BatchInv ==
    /\ BatchTypes /\ Entries /\ Handed /\ Checked /\ PreparedRight /\ FeesCoverSuggestion

LEMMA SdkInitBatch == SdkInit => BatchInv
  <1> SUFFICES ASSUME SdkInit PROVE BatchInv
    OBVIOUS
  <1>1. /\ PrepareStart
        /\ GivenObjects \/ GivenForPayload \/ ToBeResolved \/ ToBeCreated
    BY DEF SdkInit
  <1>2. /\ \A t \in Txs : pc[t] = "waiting" /\ shardCount[t] = 0
        /\ pc \in [Txs -> {"waiting", "start", "simulate", "prepared", "failed"}]
        /\ shardCount \in [Txs -> Nat]
        /\ DOMAIN simulation = Txs /\ DOMAIN feeParams = Txs /\ DOMAIN messages = Txs
    BY <1>1 DEF PrepareStart
  <1>3. /\ gasLimit \in [Msgs -> Nat]
        /\ entry # "create" => request \in [Txs -> RequestOf] /\ Owning(balance)
        /\ entry \in {"objects", "payload"} => \A t \in Txs : Coherent(request[t].cart)
    <2>1. CASE PrepareInputs
      <3>1. /\ Carts \subseteq Seq(Assets) /\ OptionSets \subseteq TransactionOptions
            /\ GivenGasLimit \in Nat /\ \A cart \in Carts : Coherent(cart)
            /\ \A b \in Balances : Owning(b)
        BY PrepareAssumption
      <3>2. /\ request \in [Txs -> [cart : Carts, msg : Msgs, options : OptionSets]]
            /\ gasLimit \in [Msgs -> {0, GivenGasLimit}] /\ balance \in Balances
        BY <2>1 DEF PrepareInputs
      <3>3. \A t \in Txs : request[t] \in RequestOf /\ request[t].cart \in Carts
        BY <3>1, <3>2 DEF RequestOf
      <3> QED BY <3>1, <3>2, <3>3
    <2>2. CASE ToBeResolved
      <3>1. request \in [Txs -> [cart : {<<>>}, msg : {CHOOSE m \in Msgs : TRUE}, options : {PlainOptions}]]
        BY <2>2 DEF ToBeResolved
      <3>2. <<>> \in Seq(Assets) /\ (CHOOSE m \in Msgs : TRUE) \in Msgs
            /\ PlainOptions \in TransactionOptions
        BY PrepareAssumption, SdkAssumption
      <3>3. request \in [Txs -> RequestOf]
        BY <3>1, <3>2 DEF RequestOf
      <3>4. Owning(balance) /\ gasLimit \in [Msgs -> Nat] /\ entry \in {"send", "bridge"}
        BY <2>2, SdkAssumption DEF ToBeResolved
      <3> QED BY <3>3, <3>4
    <2>3. CASE ToBeCreated
      BY <2>3 DEF ToBeCreated
    <2> QED BY <1>1, <2>1, <2>2, <2>3 DEF GivenObjects, GivenForPayload
  <1>4. /\ \/ entry = "objects" /\ outcome = "validate"
           \/ entry = "payload" /\ outcome = "payload"
           \/ entry \in {"send", "bridge"} /\ outcome = "normalize"
           \/ entry = "create" /\ outcome = "rejected"
        /\ entry = "send" => balance \in PlainBalances /\ \A t \in Txs : request[t].options = PlainOptions
    BY <1>1 DEF GivenObjects, GivenForPayload, ToBeResolved, ToBeCreated
  <1>5. Handed /\ Checked
    BY <1>4 DEF Handed, Checked
  <1>6. PreparedRight /\ FeesCoverSuggestion
    BY <1>2 DEF PreparedRight, FeesCoverSuggestion
  <1>7. BatchTypes
    BY <1>2, <1>3, <1>4 DEF BatchTypes
  <1>8. Entries
    BY <1>2, <1>3, <1>4 DEF Entries
  <1> QED BY <1>5, <1>6, <1>7, <1>8 DEF BatchInv

LEMMA ResolutionTypes == ASSUME FactoryInv, BridgeInv PROVE FactoryTypeOK /\ BridgeTypeOK
  <1>1. FactoryTypeOK
    <2>1. bridged \subseteq Contracts /\ objects \in Seq(AssetObject) /\ done \in [Callers -> Seq(Nat)]
          /\ \A c \in Callers : call[c].phase \in Phases
      BY DEF FactoryInv, FactoryTypes, CallRecord
    <2>2. Places
      BY DEF FactoryInv, Heap
    <2>3. ASSUME NEW c \in Callers PROVE done[c] \in Seq(1..Len(objects))
      <3>1. done[c] \in Seq(Nat)
        BY <2>1
      <3>2. \A k \in 1..Len(done[c]) : done[c][k] \in 1..Len(objects)
        BY <2>2 DEF Places
      <3> QED BY <3>1, <3>2
    <2> QED BY <2>1, <2>2, <2>3 DEF FactoryTypeOK, Places
  <1>2. BridgeTypeOK
    <2>1. Len(Bridged) \in Nat
      BY BridgedPrefix, BridgeAssumption DEF FactoryInv, FactoryTypes
    <2>2. /\ bridge.phase \in {"resolve", "suggest", "approve", "sent", "rejected"}
          /\ bridge.next \in Nat \ {0} /\ bridge.next <= Len(Bridged) + 1
          /\ allowance \in [Tokens -> Nat]
      BY DEF BridgeInv, BridgeTypes, Bridging
    <2> QED BY <2>1, <2>2 DEF BridgeTypeOK
  <1> QED BY <1>1, <1>2

\* What is checked of one asset of a batch.
LEMMA TransferChecked ==
    ASSUME NEW S, IsFiniteSet(S), \A t \in S : request[t].cart \in Seq(Assets),
           CanBeTransferred(AllCarts(S)), ~HasZeroAmount(AllCarts(S)),
           NEW t \in S, NEW k \in 1..Len(request[t].cart), NEW a, a = request[t].cart[k]
    PROVE  /\ a.kind = "nft" => balance[a.id] > 0
           /\ a.kind # "nft" => /\ a.amount \in Nat \ {0} /\ Demand(AllCarts(S), a.id) \in Nat
                                /\ a.amount <= Demand(AllCarts(S), a.id)
                                /\ Demand(AllCarts(S), a.id) <= balance[a.id]
  <1>1. PICK all : all = AllCarts(S)
    OBVIOUS
  <1>2. all \in Seq(Assets) /\ \E j \in 1..Len(all) : all[j] = a
    BY <1>1, BatchCart
  <1>3. PICK j \in 1..Len(all) : all[j] = a
    BY <1>2
  <1>4. IF a.kind = "nft" THEN balance[a.id] > 0 ELSE balance[a.id] >= RawAmount(all, a.id)
    BY <1>1, <1>3 DEF CanBeTransferred
  <1>5. ASSUME a.kind # "nft" PROVE a.amount # 0
    BY <1>1, <1>3, <1>5 DEF HasZeroAmount
  <1>6. RawAmount(all, a.id) = Demand(all, a.id) /\ Demand(all, a.id) \in Nat
    BY <1>2, RawAmountIs
  <1>7. a.amount \in Nat /\ a.amount <= Demand(all, a.id)
    <2>1. PICK D, g : D = 1..Len(all) /\ g = Asks(all, a.id)
      OBVIOUS
    <2>2. IsFiniteSet(D) /\ \A i \in D : g[i] \in Nat
      BY <1>2, <2>1, CartTypes
    <2>3. j \in D /\ g[j] = a.amount
      BY <1>2, <1>3, <2>1, CartTypes
    <2>4. Demand(all, a.id) = SumFunctionOnSet(g, D)
      BY <1>2, <2>1, DemandByPosition
    <2>5. g[j] <= SumFunctionOnSet(g, D)
      BY ONLY <2>2, <2>3, SumCoversEach
    <2> QED BY <2>2, <2>3, <2>4, <2>5
  <1> QED BY <1>1, <1>4, <1>5, <1>6, <1>7

\* An object at an address where there is a contract is TON or that contract, with
\* its kind and origin.
LEMMA TrulyIs ==
    ASSUME NEW in \in Inputs, NEW o \in AssetObject, Right(in, o), Fits(o), o.contract # Nowhere
    PROVE  /\ o.contract = Wanted(in) /\ o.contract \in Contracts \union {Ton}
           /\ o.kind = IF o.contract = Ton THEN "ton" ELSE NamedKind(o.contract)
           /\ o.origin = OriginOf(o.contract)
  <1>1. o.contract = Wanted(in) /\ o.origin = OriginOf(in.address.contract)
    BY DEF Right
  <1>2. o.contract \in Contracts \union {Ton}
    BY DEF AssetObject
  <1>3. o.kind = IF o.contract = Ton THEN "ton" ELSE NamedKind(o.contract)
    BY <1>2, FactoryAssumption DEF Fits
  <1>4. OriginOf(in.address.contract) = OriginOf(o.contract)
    <2>1. CASE in.index = 0
      BY <1>1, <2>1 DEF Wanted
    <2>2. CASE in.index # 0
      <3>1. PICK x : x = in.address.contract
        OBVIOUS
      <3>2. o.contract = ItemOf(x, in.index)
        BY <1>1, <2>2, <3>1 DEF Wanted
      <3>3. PICK items : items = {i \in Items : CollectionOf[i] = x /\ IndexOf[i] = in.index}
        OBVIOUS
      <3>4. items # {} /\ o.contract \in items
        BY <3>2, <3>3 DEF ItemOf
      <3>5. o.contract \in Items /\ CollectionOf[o.contract] = x
        BY <3>3, <3>4
      <3>6. NativeOn[o.contract] = NativeOn[x] /\ x \in Contracts /\ o.contract \in Contracts
            /\ Ton \notin Contracts
        BY <3>5, FactoryAssumption DEF Items
      <3> QED BY <3>1, <3>6 DEF OriginOf
    <2> QED BY <2>1, <2>2
  <1> QED BY <1>1, <1>2, <1>3, <1>4

\* The entries of a list that is handed over.
LEMMA CartOfFields ==
    ASSUME FactoryInv, NEW t \in Callers
    PROVE  /\ CartOf(t) \in Seq(Assets) /\ Len(CartOf(t)) = Len(done[t]) /\ Len(done[t]) \in Nat
           /\ \A k \in 1..Len(done[t]) :
                  /\ objects[done[t][k]] \in AssetObject /\ named[t][k] \in Inputs
                  /\ Fits(objects[done[t][k]]) /\ Right(named[t][k], objects[done[t][k]])
                  /\ AmountGiven(named[t][k], objects[done[t][k]])
                  /\ CartOf(t)[k].kind = objects[done[t][k]].kind
                  /\ CartOf(t)[k].id = objects[done[t][k]].contract
                  /\ CartOf(t)[k].origin = objects[done[t][k]].origin
                  /\ CartOf(t)[k].amount = objects[done[t][k]].amount
  <1>1. PICK n \in Nat : n = Len(done[t])
    BY DEF FactoryInv, FactoryTypes
  <1>2. \A k \in 1..n : done[t][k] \in 1..Len(objects)
    BY <1>1 DEF FactoryInv, Heap, Places
  <1>3. objects \in Seq(AssetObject) /\ \A r \in 1..Len(objects) : objects[r] \in AssetObject
    BY DEF FactoryInv, FactoryTypes
  <1>4. \A k \in 1..n : objects[done[t][k]] \in AssetObject /\ Fits(objects[done[t][k]])
    BY <1>2, <1>3 DEF FactoryInv, Heap
  <1>5. \A k \in 1..n : /\ Right(named[t][k], objects[done[t][k]])
                        /\ AmountGiven(named[t][k], objects[done[t][k]])
    BY <1>1 DEF FactoryInv, Heap, DoneRight
  <1>6. \A k \in 1..n : named[t][k] \in Inputs
    <2>1. named[t] \in Seq(Inputs) /\ Len(done[t]) <= Len(named[t])
      BY DEF FactoryInv, FactoryTypes, Progress
    <2> QED BY <1>1, <2>1
  <1>7. PICK f : f = CartOf(t)
    OBVIOUS
  <1>8. \A o \in AssetObject : /\ o.kind \in {"ton", "ft", "nft"} /\ o.contract \in STRING
                               /\ o.origin \in {"TON", "TAC"} /\ o.amount \in Nat
    <2>1. Contracts \union {Ton, Nowhere} \subseteq STRING
      BY SdkAssumption
    <2> QED BY <2>1 DEF AssetObject
  <1>9. ASSUME NEW k \in 1..n
        PROVE  /\ f[k].kind = objects[done[t][k]].kind /\ f[k].id = objects[done[t][k]].contract
               /\ f[k].origin = objects[done[t][k]].origin /\ f[k].amount = objects[done[t][k]].amount
               /\ f[k] \in Assets
    <2>1. PICK o : o = objects[done[t][k]]
      OBVIOUS
    <2>2. f[k] = [kind |-> o.kind, id |-> o.contract, origin |-> o.origin, amount |-> o.amount]
      BY <1>1, <1>7, <2>1 DEF CartOf
    <2>3. o \in AssetObject
      BY <1>4, <2>1
    <2>4. f[k] \in Assets
      BY <1>8, <2>2, <2>3 DEF Assets
    <2> QED BY <2>1, <2>2, <2>4
  <1>10. f \in Seq(Assets) /\ Len(f) = n
    <2>1. f \in [1..n -> Assets]
      <3>1. f = [k \in 1..n |-> f[k]]
        BY <1>1, <1>7 DEF CartOf
      <3> QED BY <1>9, <3>1
    <2> QED BY <2>1
  <1> QED BY <1>1, <1>4, <1>5, <1>6, <1>7, <1>9, <1>10

\* Its assets are what they are taken for.
LEMMA CartOfCoherent ==
    ASSUME FactoryInv, NEW t \in Callers, \A k \in 1..Len(CartOf(t)) : CartOf(t)[k].id # Nowhere
    PROVE  /\ Coherent(CartOf(t))
           /\ \A k \in 1..Len(CartOf(t)) :
                  /\ CartOf(t)[k].id = Wanted(named[t][k]) /\ CartOf(t)[k].id \in Contracts \union {Ton}
                  /\ CartOf(t)[k].kind = IF CartOf(t)[k].id = Ton THEN "ton" ELSE NamedKind(CartOf(t)[k].id)
                  /\ CartOf(t)[k].origin = OriginOf(CartOf(t)[k].id)
  <1>1. PICK cart, n : cart = CartOf(t) /\ n = Len(done[t])
    OBVIOUS
  <1>2. n = Len(cart)
    BY <1>1, CartOfFields
  <1>3. ASSUME NEW k \in 1..n
        PROVE  /\ cart[k].id = Wanted(named[t][k]) /\ cart[k].id \in Contracts \union {Ton}
               /\ cart[k].kind = IF cart[k].id = Ton THEN "ton" ELSE NamedKind(cart[k].id)
               /\ cart[k].origin = OriginOf(cart[k].id)
    <2>1. PICK o : o = objects[done[t][k]]
      OBVIOUS
    <2>2. /\ o \in AssetObject /\ named[t][k] \in Inputs /\ Fits(o) /\ Right(named[t][k], o)
          /\ cart[k].kind = o.kind /\ cart[k].id = o.contract /\ cart[k].origin = o.origin
      BY <1>1, <2>1, CartOfFields
    <2>3. o.contract # Nowhere
      BY <1>1, <1>2, <2>2
    <2> QED BY <2>2, <2>3, TrulyIs
  <1>4. \A x : NamedKind(x) # "ton"
    BY DEF NamedKind
  <1>5. Coherent(cart)
    BY ONLY <1>2, <1>3, <1>4 DEF Coherent, Ton
  <1> QED BY ONLY <1>1, <1>2, <1>3, <1>5

\* What is checked depends on what is asked for alone.
LEMMA CheckStays ==
    ASSUME request' = request, balance' = balance
    PROVE  /\ AssetsValid' <=> AssetsValid
           /\ HasZeroAmount(AllCarts(ValidatedTxs))' <=> HasZeroAmount(AllCarts(ValidatedTxs))
  <1>1. ValidatedTxs' = ValidatedTxs
    BY DEF ValidatedTxs
  <1>2. AllCarts(ValidatedTxs)' = AllCarts(ValidatedTxs)
    BY <1>1 DEF AllCarts
  <1>3. AssetsValid' <=> AssetsValid
    BY <1>2 DEF AssetsValid, CanBeTransferred
  <1>4. HasZeroAmount(AllCarts(ValidatedTxs))' <=> HasZeroAmount(AllCarts(ValidatedTxs))
    BY <1>2 DEF HasZeroAmount
  <1> QED BY <1>3, <1>4

LEMMA SuggestedStays ==
    ASSUME request' = request, NEW t, NEW sim PROVE Suggested(t, sim)' = Suggested(t, sim)
  <1>1. IsRoundTrip(t, sim)' = IsRoundTrip(t, sim)
    BY DEF IsRoundTrip
  <1> QED BY <1>1 DEF Suggested

\* A transaction does not pay less than its simulation asks, unless that is not checked.
Covers(t, sim, fee) ==
    (/\ ~request[t].options.withoutSimulation
     /\ request[t].options.shouldValidateFees
     /\ sim.status) =>
        LET s == Suggested(t, sim) IN
        /\ fee.protocolFee >= s.protocolFee
        /\ fee.evmExecutorFee >= s.evmExecutorFee
        /\ fee.tvmExecutorFee >= s.tvmExecutorFee

LEMMA CoversStays ==
    ASSUME request' = request
    PROVE  \A t, sim, fee : Covers(t, sim, fee)' <=> Covers(t, sim, fee)
  <1> TAKE t, sim, fee
  <1>1. Suggested(t, sim)' = Suggested(t, sim)
    BY SuggestedStays
  <1> QED BY <1>1 DEF Covers

LEMMA CoverageIs ==
    FeesCoverSuggestion <=> \A t \in Txs : pc[t] = "prepared" => Covers(t, simulation[t], feeParams[t])
  BY DEF FeesCoverSuggestion, Covers

\* The fees of a prepared transaction are numbers, and the check that Simulated
\* makes is the coverage that is claimed.
LEMMA FeesRight ==
    ASSUME request \in [Txs -> RequestOf], NEW t \in Txs, NEW sim \in Simulations, NEW gas \in Nat,
           NEW o, o = request[t].options, NEW s, s = Suggested(t, sim)
    PROVE  /\ s.gasLimit \in Nat /\ FeesOf(o, s, gas) \in FeeParams
           /\ ~(o.shouldValidateFees /\ sim.status /\ Insufficient(o, s)) =>
                  Covers(t, sim, FeesOf(o, s, gas))
  <1>1. /\ o \in TransactionOptions /\ sim \in SimulationAnswers /\ TonProtocolFee \in Nat
    BY PrepareAssumption DEF RequestOf
  <1>2. /\ o.protocolFee \in Nat \union {Undefined} /\ o.evmExecutorFee \in Nat \union {Undefined}
        /\ o.tvmExecutorFee \in Nat \union {Undefined}
    BY <1>1 DEF TransactionOptions
  <1>3. /\ sim.gas \in Nat /\ sim.protocolFee \in Nat /\ sim.evmExecutorFee \in Nat
        /\ sim.tvmExecutorFee \in Nat
    BY <1>1 DEF SimulationAnswers
  <1>4. /\ s.gasLimit = IF sim.status THEN sim.gas ELSE 0
        /\ s.protocolFee = sim.protocolFee + (IF IsRoundTrip(t, sim) THEN TonProtocolFee ELSE 0)
        /\ s.evmExecutorFee = sim.evmExecutorFee
        /\ s.tvmExecutorFee = IF IsRoundTrip(t, sim) THEN sim.tvmExecutorFee ELSE 0
    BY DEF Suggested
  <1>5. s.isRoundTrip <=> IsRoundTrip(t, sim)
    BY Zenon DEF Suggested
  <1>6. /\ s.gasLimit \in Nat /\ s.protocolFee \in Nat /\ s.evmExecutorFee \in Nat /\ s.tvmExecutorFee \in Nat
    BY <1>1, <1>3, <1>4
  <1>7. PICK fee : fee = FeesOf(o, s, gas)
    OBVIOUS
  <1>8. /\ fee = [protocolFee |-> fee.protocolFee, evmExecutorFee |-> fee.evmExecutorFee,
                  tvmExecutorFee |-> fee.tvmExecutorFee, gasLimit |-> fee.gasLimit]
        /\ fee.gasLimit = gas
        /\ fee.protocolFee = Or(o.protocolFee, s.protocolFee)
        /\ fee.evmExecutorFee = Or(o.evmExecutorFee, s.evmExecutorFee)
        /\ fee.tvmExecutorFee = IF s.isRoundTrip THEN Or(o.tvmExecutorFee, s.tvmExecutorFee)
                                ELSE s.tvmExecutorFee
    BY <1>7 DEF FeesOf
  <1>9. ASSUME NEW x \in Nat \union {Undefined}, NEW y \in Nat
        PROVE  Or(x, y) \in Nat /\ (~TooLow(x, y) => Or(x, y) >= y)
    BY DEF Or, Given, TooLow, Undefined
  <1>10. /\ fee.protocolFee \in Nat /\ fee.evmExecutorFee \in Nat /\ fee.tvmExecutorFee \in Nat
    BY <1>2, <1>6, <1>8, <1>9
  <1>11. fee \in FeeParams
    BY <1>8, <1>10 DEF FeeParams
  <1>12. ASSUME ~(o.shouldValidateFees /\ sim.status /\ Insufficient(o, s)) PROVE Covers(t, sim, fee)
    <2>1. SUFFICES ASSUME ~Insufficient(o, s)
                   PROVE  /\ fee.protocolFee >= s.protocolFee
                          /\ fee.evmExecutorFee >= s.evmExecutorFee
                          /\ fee.tvmExecutorFee >= s.tvmExecutorFee
      BY <1>12 DEF Covers
    <2>2. /\ ~TooLow(o.protocolFee, s.protocolFee) /\ ~TooLow(o.evmExecutorFee, s.evmExecutorFee)
          /\ s.isRoundTrip => ~TooLow(o.tvmExecutorFee, s.tvmExecutorFee)
      BY <2>1 DEF Insufficient
    <2>3. fee.protocolFee >= s.protocolFee /\ fee.evmExecutorFee >= s.evmExecutorFee
      BY <1>2, <1>6, <1>8, <1>9, <2>2
    <2>4. fee.tvmExecutorFee >= s.tvmExecutorFee
      BY <1>2, <1>6, <1>8, <1>9, <2>2
    <2> QED BY <2>3, <2>4
  <1> QED BY <1>6, <1>7, <1>11, <1>12

\* What an action of one preparation leaves alone.
OneMoves(t) ==
    /\ UNCHANGED <<request, balance, tacVars, entry>>
    /\ pc[t] \in {"start", "simulate"} /\ pc'[t] # "waiting"
    /\ pc' \in [Txs -> {"waiting", "start", "simulate", "prepared", "failed"}]
    /\ DOMAIN simulation' = Txs /\ DOMAIN feeParams' = Txs /\ DOMAIN messages' = Txs
    /\ shardCount' \in [Txs -> Nat] /\ gasLimit' \in [Msgs -> Nat]
    /\ outcome' \in {outcome, "rejected"}
    /\ \A u \in Txs \ {t} : /\ pc'[u] = pc[u] /\ simulation'[u] = simulation[u]
                            /\ feeParams'[u] = feeParams[u] /\ messages'[u] = messages[u]
                            /\ shardCount'[u] = shardCount[u]

\* It keeps the invariant when what it prepares is right.
LEMMA OneMovesInv ==
    ASSUME BatchInv, NEW t \in Txs, OneMoves(t),
           pc'[t] = "prepared" =>
               /\ feeParams'[t] \in FeeParams
               /\ messages'[t] = MessagesOf(request[t].cart, feeParams'[t])
               /\ shardCount'[t] = ShardCount(request[t].cart)
               /\ Covers(t, simulation'[t], feeParams'[t])
    PROVE  BatchInv'
  <1>1. UNCHANGED <<request, balance, entry>> /\ UNCHANGED <<call, done, objects>>
    BY DEF OneMoves, tacVars, factoryVars
  <1>2. outcome = "ready" => FALSE
    BY DEF BatchInv, Checked, OneMoves
  <1>3. BatchTypes'
    BY <1>1 DEF BatchInv, BatchTypes, OneMoves, Owning
  <1>4. Entries'
    BY <1>1 DEF BatchInv, Entries, OneMoves, Coherent
  <1>5. Handed'
    <2>1. \A u : CartOf(u)' = CartOf(u)
      BY <1>1 DEF CartOf
    <2> QED BY <1>1, <2>1 DEF BatchInv, Handed, OneMoves
  <1>6. Checked'
    BY <1>1, <1>2, CheckStays DEF BatchInv, Checked, OneMoves
  <1>7. PreparedRight'
    <2>1. ASSUME NEW u \in Txs, pc'[u] # "waiting" PROVE Coherent(request[u].cart)
      BY <2>1 DEF BatchInv, PreparedRight, OneMoves
    <2>2. ASSUME NEW u \in Txs, pc'[u] = "prepared"
          PROVE  /\ feeParams'[u] \in FeeParams
                 /\ messages'[u] = MessagesOf(request[u].cart, feeParams'[u])
                 /\ shardCount'[u] = ShardCount(request[u].cart)
      BY <2>2 DEF BatchInv, PreparedRight, OneMoves
    <2> QED BY <1>1, <2>1, <2>2 DEF PreparedRight, FeeParams, Coherent
  <1>8. FeesCoverSuggestion'
    <2>1. \A u \in Txs : pc[u] = "prepared" => Covers(u, simulation[u], feeParams[u])
      BY CoverageIs DEF BatchInv
    <2>2. \A u \in Txs : pc'[u] = "prepared" => Covers(u, simulation'[u], feeParams'[u])
      BY <2>1 DEF OneMoves
    <2>3. \A u \in Txs : pc'[u] = "prepared" => Covers(u, simulation[u], feeParams[u])'
      BY <1>1, <2>2, CoversStays
    <2>4. FeesCoverSuggestion' <=> (\A u \in Txs : pc[u] = "prepared" => Covers(u, simulation[u], feeParams[u]))'
      BY DEF FeesCoverSuggestion, Covers
    <2> QED BY <2>3, <2>4
  <1> QED BY <1>3, <1>4, <1>5, <1>6, <1>7, <1>8 DEF BatchInv

LEMMA ShardCountType == ASSUME NEW cart \in Seq(Assets) PROVE ShardCount(cart) \in Nat
  <1>1. Len(Jettons(cart)) \in Nat /\ Len(Nfts(cart)) \in Nat
    <2>1. Jettons(cart) \in Seq(STRING) /\ Nfts(cart) \in Seq(STRING)
      BY AddressesAre DEF Jettons, Nfts
    <2> QED BY <2>1
  <1> QED BY <1>1, AtLeastOne DEF ShardCount

LEMMA StartTxInv == ASSUME BatchInv, NEW t \in Txs, StartTx(t), UNCHANGED <<tacVars, entry>> PROVE BatchInv'
  <1>1. PICK o, gas : o = request[t].options /\ gas = gasLimit[request[t].msg]
    OBVIOUS
  <1>2. pc[t] = "start" /\ UNCHANGED <<request, balance, gasLimit, simulation>>
    BY DEF StartTx, inputs
  <1>3. /\ request \in [Txs -> RequestOf] /\ gasLimit \in [Msgs -> Nat]
        /\ pc \in [Txs -> {"waiting", "start", "simulate", "prepared", "failed"}]
        /\ shardCount \in [Txs -> Nat]
        /\ DOMAIN simulation = Txs /\ DOMAIN feeParams = Txs /\ DOMAIN messages = Txs
    BY <1>2 DEF BatchInv, BatchTypes, Entries
  <1>4. o \in TransactionOptions /\ gas \in Nat
    <2>1. request[t] \in RequestOf
      BY <1>3
    <2>2. request[t].msg \in Msgs /\ o \in TransactionOptions
      BY <1>1, <2>1 DEF RequestOf
    <2> QED BY <1>1, <1>3, <2>2
  <1>5. CASE /\ UNCHANGED <<feeParams, messages, shardCount>> /\ outcome' \in {outcome, "rejected"}
             /\ \E p \in {"failed", "simulate"} : pc' = [pc EXCEPT ![t] = p]
    <2>1. OneMoves(t) /\ pc'[t] # "prepared"
      BY <1>2, <1>3, <1>5 DEF OneMoves
    <2> QED BY <2>1, OneMovesInv
  <1>6. CASE /\ o.withoutSimulation /\ UNCHANGED outcome
             /\ Finish(t, [protocolFee |-> o.protocolFee, evmExecutorFee |-> o.evmExecutorFee,
                           tvmExecutorFee |-> Or(o.tvmExecutorFee, 0), gasLimit |-> gas])
             /\ Given(o.protocolFee) /\ Given(o.evmExecutorFee)
    <2>1. PICK fee : fee = [protocolFee |-> o.protocolFee, evmExecutorFee |-> o.evmExecutorFee,
                            tvmExecutorFee |-> Or(o.tvmExecutorFee, 0), gasLimit |-> gas]
      OBVIOUS
    <2>2. fee \in FeeParams
      <3>1. /\ o.protocolFee \in Nat \union {Undefined} /\ o.evmExecutorFee \in Nat \union {Undefined}
            /\ o.tvmExecutorFee \in Nat \union {Undefined}
        BY <1>4 DEF TransactionOptions
      <3>2. o.protocolFee \in Nat /\ o.evmExecutorFee \in Nat /\ Or(o.tvmExecutorFee, 0) \in Nat
        BY <1>6, <3>1 DEF Given, Or
      <3> QED BY <1>4, <2>1, <3>2 DEF FeeParams
    <2>3. /\ feeParams' = [feeParams EXCEPT ![t] = fee]
          /\ messages' = [messages EXCEPT ![t] = MessagesOf(request[t].cart, fee)]
          /\ shardCount' = [shardCount EXCEPT ![t] = ShardCount(request[t].cart)]
          /\ pc' = [pc EXCEPT ![t] = "prepared"]
      BY <1>6, <2>1 DEF Finish
    <2>4. Covers(t, simulation'[t], feeParams'[t])
      BY <1>1, <1>6 DEF Covers
    <2>5. ShardCount(request[t].cart) \in Nat
      BY <1>3, ShardCountType DEF RequestOf
    <2>6. OneMoves(t)
      BY <1>2, <1>3, <1>6, <2>3, <2>5 DEF OneMoves
    <2> QED BY <1>3, <2>2, <2>3, <2>4, <2>6, OneMovesInv
  <1> QED BY <1>1, <1>5, <1>6 DEF StartTx, Generate, Fail, Finish

LEMMA SimulatedInv == ASSUME BatchInv, NEW t \in Txs, Simulated(t), UNCHANGED <<tacVars, entry>> PROVE BatchInv'
  <1>1. PICK o, m : o = request[t].options /\ m = request[t].msg
    OBVIOUS
  <1>2. pc[t] = "simulate" /\ UNCHANGED <<request, balance>>
    BY DEF Simulated, inputs
  <1>3. /\ request \in [Txs -> RequestOf] /\ gasLimit \in [Msgs -> Nat]
        /\ pc \in [Txs -> {"waiting", "start", "simulate", "prepared", "failed"}]
        /\ shardCount \in [Txs -> Nat]
        /\ DOMAIN simulation = Txs /\ DOMAIN feeParams = Txs /\ DOMAIN messages = Txs
    BY <1>2 DEF BatchInv, BatchTypes, Entries
  <1>4. o \in TransactionOptions /\ m \in Msgs
    BY <1>1, <1>3 DEF RequestOf
  <1>5. PICK sim \in Simulations :
            LET s == Suggested(t, sim)
                gas == IF gasLimit[m] = 0 THEN s.gasLimit ELSE gasLimit[m]
            IN  /\ simulation' = [simulation EXCEPT ![t] = sim]
                /\ IF ~sim.status /\ ~o.allowSimulationError
                   THEN Fail(t) /\ UNCHANGED gasLimit
                   ELSE /\ gasLimit' = [gasLimit EXCEPT ![m] = gas]
                        /\ IF o.shouldValidateFees /\ sim.status /\ Insufficient(o, s)
                           THEN Fail(t)
                           ELSE Generate(t, FeesOf(o, s, gas))
    BY <1>1 DEF Simulated
  <1>6. PICK s, gas : s = Suggested(t, sim) /\ gas = IF gasLimit[m] = 0 THEN s.gasLimit ELSE gasLimit[m]
    OBVIOUS
  <1>7. s.gasLimit \in Nat
    <2>1. 0 \in Nat
      OBVIOUS
    <2> QED BY <1>1, <1>3, <1>6, <2>1, FeesRight
  <1>8. gas \in Nat
    BY <1>3, <1>4, <1>6, <1>7
  <1>9. /\ DOMAIN simulation' = Txs /\ simulation'[t] = sim
        /\ \A u \in Txs \ {t} : simulation'[u] = simulation[u]
        /\ gasLimit' \in [Msgs -> Nat]
    BY <1>3, <1>4, <1>5, <1>6, <1>8 DEF Generate, Fail, Finish
  <1>10. CASE Fail(t)
    <2>1. OneMoves(t) /\ pc'[t] # "prepared"
      BY <1>2, <1>3, <1>9, <1>10 DEF OneMoves, Fail
    <2> QED BY <2>1, OneMovesInv
  <1>11. CASE /\ Finish(t, FeesOf(o, s, gas))
              /\ ~(o.shouldValidateFees /\ sim.status /\ Insufficient(o, s))
    <2>1. PICK fee : fee = FeesOf(o, s, gas)
      OBVIOUS
    <2>2. fee \in FeeParams /\ Covers(t, sim, fee)
      BY <1>1, <1>3, <1>6, <1>8, <1>11, <2>1, FeesRight
    <2>3. /\ feeParams' = [feeParams EXCEPT ![t] = fee]
          /\ messages' = [messages EXCEPT ![t] = MessagesOf(request[t].cart, fee)]
          /\ shardCount' = [shardCount EXCEPT ![t] = ShardCount(request[t].cart)]
          /\ pc' = [pc EXCEPT ![t] = "prepared"] /\ UNCHANGED outcome
      BY <1>11, <2>1 DEF Finish
    <2>4. Covers(t, simulation'[t], feeParams'[t])
      BY <1>3, <1>9, <2>2, <2>3
    <2>5. ShardCount(request[t].cart) \in Nat
      BY <1>3, ShardCountType DEF RequestOf
    <2>6. OneMoves(t)
      BY <1>2, <1>3, <1>9, <2>3, <2>5 DEF OneMoves
    <2> QED BY <1>3, <2>2, <2>3, <2>4, <2>6, OneMovesInv
  <1> QED BY <1>5, <1>6, <1>10, <1>11 DEF Generate

LEMMA SimulationFailsInv ==
    ASSUME BatchInv, NEW t \in Txs, SimulationFails(t), UNCHANGED <<tacVars, entry>> PROVE BatchInv'
  <1>1. pc[t] = "simulate" /\ UNCHANGED <<request, balance, gasLimit, simulation>>
    BY DEF SimulationFails, inputs
  <1>2. OneMoves(t) /\ pc'[t] # "prepared"
    BY <1>1 DEF SimulationFails, Fail, OneMoves, BatchInv, BatchTypes
  <1> QED BY <1>2, OneMovesInv

LEMMA PreparePayloadInv ==
    ASSUME BatchInv, NEW t \in Txs, PreparePayload(t), UNCHANGED <<tacVars, entry>> PROVE BatchInv'
  <1>1. /\ outcome = "payload" /\ entry = "payload"
        /\ pc' = [pc EXCEPT ![t] = "start"]
        /\ UNCHANGED <<request, balance, gasLimit, simulation, feeParams, messages, shardCount, outcome, entry>>
    BY DEF PreparePayload, inputs, products, BatchInv, Entries
  <1>2. pc' \in [Txs -> {"waiting", "start", "simulate", "prepared", "failed"}]
    BY <1>1 DEF BatchInv, BatchTypes
  <1>3. \A u \in Txs : pc'[u] = "prepared" => pc[u] = "prepared"
    BY <1>1 DEF BatchInv, BatchTypes
  <1>4. BatchTypes' /\ Handed' /\ Checked'
    BY <1>1, <1>2 DEF BatchInv, BatchTypes, Handed, Checked, Owning
  <1>5. Entries'
    BY <1>1 DEF BatchInv, Entries, Coherent
  <1>6. PreparedRight'
    BY <1>1, <1>3 DEF BatchInv, Entries, PreparedRight, FeeParams, Coherent
  <1>7. FeesCoverSuggestion'
    <2>1. \A u \in Txs : pc'[u] = "prepared" => Covers(u, simulation'[u], feeParams'[u])
      BY <1>1, <1>3, CoverageIs DEF BatchInv
    <2>2. \A u \in Txs : pc'[u] = "prepared" => Covers(u, simulation[u], feeParams[u])'
      BY <1>1, <2>1, CoversStays
    <2> QED BY <2>2 DEF FeesCoverSuggestion, Covers
  <1> QED BY <1>4, <1>5, <1>6, <1>7 DEF BatchInv

\* A batch that passes its check consists of lists that can be aggregated.
LEMMA PassedIsCoherent ==
    ASSUME FactoryInv, BatchInv, outcome = "validate" \/ outcome = "ready",
           AssetsValid, ~HasZeroAmount(AllCarts(ValidatedTxs))
    PROVE  /\ \A t \in Txs : Coherent(request[t].cart)
           /\ entry = "send" => \A t \in Txs : \A k \in 1..Len(CartOf(t)) : CartOf(t)[k].id # Nowhere
  <1>1. entry \in {"objects", "payload", "send"} \/ outcome = "ready"
    BY DEF BatchInv, BatchTypes, Entries
  <1>2. CASE entry = "send"
    <2>1. /\ balance \in PlainBalances /\ Callers = Txs /\ PlainOptions.validateAssetsBalance
          /\ \A t \in Txs : request[t].options = PlainOptions /\ request[t].cart = CartOf(t)
      BY <1>2, SdkAssumption DEF BatchInv, Entries, Handed
    <2>2. balance[Nowhere] = 0
      BY <2>1, SdkAssumption
    <2>3. /\ IsFiniteSet(Txs) /\ CanBeTransferred(AllCarts(Txs)) /\ ~HasZeroAmount(AllCarts(Txs))
          /\ \A t \in Txs : request[t].cart \in Seq(Assets)
      <3>1. ValidatedTxs = Txs
        BY <2>1 DEF ValidatedTxs
      <3>2. request \in [Txs -> RequestOf] /\ IsFiniteSet(Txs)
        BY <1>2, PrepareAssumption DEF BatchInv, BatchTypes
      <3> QED BY <3>1, <3>2 DEF AssetsValid, RequestOf
    <2>4. ASSUME NEW t \in Txs, NEW k \in 1..Len(CartOf(t)) PROVE CartOf(t)[k].id # Nowhere
      <3>1. PICK a : a = request[t].cart[k]
        OBVIOUS
      <3>2. k \in 1..Len(request[t].cart)
        BY <2>1
      <3>3. /\ a.kind = "nft" => balance[a.id] > 0
            /\ a.kind # "nft" => /\ a.amount \in Nat \ {0} /\ Demand(AllCarts(Txs), a.id) \in Nat
                                 /\ a.amount <= Demand(AllCarts(Txs), a.id)
                                 /\ Demand(AllCarts(Txs), a.id) <= balance[a.id]
        BY <2>3, <3>1, <3>2, TransferChecked
      <3>4. ~(0 > 0) /\ \A n \in Nat \ {0}, d \in Nat : n <= d => ~(d <= 0)
        OBVIOUS
      <3>5. a.id # Nowhere
        BY <2>2, <3>3, <3>4
      <3> QED BY <2>1, <3>1, <3>5
    <2>5. ASSUME NEW t \in Txs PROVE Coherent(request[t].cart)
      BY <2>1, <2>4, CartOfCoherent
    <2> QED BY <2>4, <2>5
  <1>3. CASE entry # "send" /\ outcome = "validate"
    BY <1>1, <1>3 DEF BatchInv, Entries
  <1>4. CASE entry # "send" /\ outcome = "ready"
    BY <1>4 DEF BatchInv, Checked, PreparedRight
  <1> QED BY <1>2, <1>3, <1>4

LEMMA ValidateBatchInv ==
    ASSUME FactoryInv, BatchInv, ValidateBatch, UNCHANGED <<tacVars, entry>> PROVE BatchInv'
  <1>1. /\ outcome = "validate" /\ \A t \in Txs : pc[t] = "waiting"
        /\ entry \in {"objects", "payload", "send"}
        /\ UNCHANGED <<request, balance, gasLimit, simulation, feeParams, messages, shardCount>>
        /\ UNCHANGED <<call, done, objects, entry>>
    BY DEF ValidateBatch, inputs, products, tacVars, factoryVars, BatchInv, BatchTypes, Entries
  <1>2. CASE /\ ~HasZeroAmount(AllCarts(ValidatedTxs)) /\ AssetsValid
             /\ outcome' = "prepare" /\ pc' = [t \in Txs |-> "start"]
    <2>1. \A t \in Txs : Coherent(request[t].cart)
      BY <1>1, <1>2, PassedIsCoherent
    <2>2. BatchTypes'
      BY <1>1, <1>2 DEF BatchInv, BatchTypes, Owning
    <2>3. Entries'
      BY <1>1, <1>2 DEF BatchInv, Entries, Coherent
    <2>4. Handed'
      <3>1. \A t : CartOf(t)' = CartOf(t)
        BY <1>1 DEF CartOf
      <3> QED BY <1>1, <1>2, <3>1 DEF BatchInv, Handed
    <2>5. Checked'
      BY <1>1, <1>2, CheckStays DEF Checked
    <2>6. PreparedRight' /\ FeesCoverSuggestion'
      <3>1. \A t \in Txs : pc'[t] # "prepared"
        BY <1>2
      <3>2. \A t \in Txs : Coherent(request'[t].cart)
        BY <1>1, <2>1
      <3> QED BY <3>1, <3>2 DEF PreparedRight, FeesCoverSuggestion, Coherent
    <2> QED BY <2>2, <2>3, <2>4, <2>5, <2>6 DEF BatchInv
  <1>3. CASE outcome' = "rejected" /\ UNCHANGED pc
    <2>1. BatchTypes'
      BY <1>1, <1>3 DEF BatchInv, BatchTypes, Owning
    <2>2. Entries' /\ Handed' /\ Checked'
      BY <1>1, <1>3 DEF BatchInv, Entries, Handed, Checked, Coherent
    <2>3. PreparedRight' /\ FeesCoverSuggestion'
      BY <1>1, <1>3 DEF PreparedRight, FeesCoverSuggestion
    <2> QED BY <2>1, <2>2, <2>3 DEF BatchInv
  <1> QED BY <1>2, <1>3 DEF ValidateBatch

LEMMA CheckBalanceInv ==
    ASSUME BatchInv, CheckBalance, UNCHANGED <<tacVars, entry>> PROVE BatchInv'
  <1>1. /\ outcome = "prepare" /\ \A t \in Txs : pc[t] = "prepared"
        /\ outcome' = IF balance["ton"] < TotalValue THEN "rejected" ELSE "ready"
        /\ UNCHANGED <<request, balance, gasLimit, pc, simulation, feeParams, messages, shardCount>>
        /\ UNCHANGED <<call, done, objects, entry>>
    BY DEF CheckBalance, inputs, products, tacVars, factoryVars
  <1>2. BatchTypes'
    BY <1>1 DEF BatchInv, BatchTypes, Owning
  <1>3. Entries'
    BY <1>1 DEF BatchInv, Entries, Coherent
  <1>4. Handed'
    <2>1. \A t : CartOf(t)' = CartOf(t)
      BY <1>1 DEF CartOf
    <2> QED BY <1>1, <2>1 DEF BatchInv, Handed
  <1>5. Checked'
    <2>1. TotalValue' = TotalValue
      <3>1. \A t : ValueOf(t)' = ValueOf(t)
        BY <1>1 DEF ValueOf
      <3> QED BY <3>1 DEF TotalValue
    <2>2. outcome' = "ready" => ~(balance["ton"] < TotalValue)
      BY <1>1
    <2> QED BY <1>1, <2>1, <2>2, CheckStays DEF BatchInv, Checked
  <1>6. PreparedRight' /\ FeesCoverSuggestion'
    <2>1. \A u \in Txs : pc[u] = "prepared" => Covers(u, simulation[u], feeParams[u])'
      BY <1>1, CoverageIs, CoversStays DEF BatchInv
    <2> QED BY <1>1, <2>1 DEF BatchInv, PreparedRight, FeesCoverSuggestion, Covers, FeeParams, Coherent
  <1> QED BY <1>2, <1>3, <1>4, <1>5, <1>6 DEF BatchInv

\* The lists are handed over when all of them are there.
LEMMA NormalizeBatchInv == ASSUME FactoryInv, BatchInv, NormalizeBatch PROVE BatchInv'
  <1>1. /\ entry = "send" /\ outcome = "normalize" /\ \A t \in Txs : pc[t] = "waiting"
        /\ UNCHANGED <<balance, gasLimit, pc, simulation, feeParams, messages, shardCount>>
        /\ UNCHANGED <<call, done, objects, entry>>
    BY DEF NormalizeBatch, products, tacVars, factoryVars, BatchInv, Entries
  <1>2. PreparedRight' /\ FeesCoverSuggestion'
    BY <1>1 DEF PreparedRight, FeesCoverSuggestion
  <1>3. CASE /\ \A c \in Callers : call[c].phase = "resolved"
             /\ request' = [t \in Txs |-> [request[t] EXCEPT !.cart = CartOf(t)]]
             /\ outcome' = "validate"
    <2>1. ASSUME NEW t \in Txs
          PROVE  request'[t] \in RequestOf /\ request'[t].cart = CartOf(t)
                 /\ request'[t].options = request[t].options
      <3>1. CartOf(t) \in Seq(Assets)
        BY CartOfFields, SdkAssumption
      <3>2. request[t] \in RequestOf
        BY <1>1 DEF BatchInv, BatchTypes
      <3>3. request'[t] = [request[t] EXCEPT !.cart = CartOf(t)]
        BY <1>3
      <3> QED BY <3>1, <3>2, <3>3 DEF RequestOf
    <2>2. (request \in [Txs -> RequestOf])'
      <3>1. request' = [t \in Txs |-> request'[t]]
        BY <1>3
      <3>2. request' \in [Txs -> RequestOf]
        BY <2>1, <3>1
      <3> QED BY <3>2 DEF RequestOf
    <2>3. BatchTypes'
      BY <1>1, <1>3, <2>2 DEF BatchInv, BatchTypes, Owning
    <2>4. Entries'
      BY <1>1, <1>3, <2>1 DEF BatchInv, Entries
    <2>5. Handed'
      <3>1. \A t : CartOf(t)' = CartOf(t)
        BY <1>1 DEF CartOf
      <3> QED BY <1>1, <1>3, <2>1, <3>1, SdkAssumption DEF Handed
    <2>6. Checked'
      BY <1>3 DEF Checked
    <2> QED BY <1>2, <2>3, <2>4, <2>5, <2>6 DEF BatchInv
  <1>4. CASE outcome' = "rejected" /\ UNCHANGED request
    <2>1. BatchTypes'
      BY <1>1, <1>4 DEF BatchInv, BatchTypes, Owning
    <2>2. Entries' /\ Handed' /\ Checked'
      BY <1>1, <1>4 DEF BatchInv, Entries, Handed, Checked
    <2> QED BY <1>2, <2>1, <2>2 DEF BatchInv
  <1> QED BY <1>3, <1>4 DEF NormalizeBatch

\* The other calls leave the batch alone, and the lists of one that is handed over.
LEMMA BatchInvKept ==
    ASSUME BatchInv, UNCHANGED <<vars, entry>>,
           \/ entry \notin {"send"} \/ outcome = "normalize"
           \/ UNCHANGED <<call, done, objects>>
    PROVE  BatchInv'
  <1>1. UNCHANGED <<request, balance, gasLimit, pc, simulation, feeParams, messages, shardCount, outcome, entry>>
    BY DEF vars, inputs, products
  <1>2. BatchTypes'
    BY <1>1 DEF BatchInv, BatchTypes, Owning
  <1>3. Entries'
    BY <1>1 DEF BatchInv, Entries, Coherent
  <1>4. Handed'
    <2>1. CASE entry # "send" \/ outcome = "normalize"
      BY <1>1, <2>1 DEF Handed
    <2>2. CASE UNCHANGED <<call, done, objects>>
      <3>1. \A t : CartOf(t)' = CartOf(t)
        BY <2>2 DEF CartOf
      <3> QED BY <1>1, <2>2, <3>1 DEF BatchInv, Handed
    <2> QED BY <2>1, <2>2
  <1>5. Checked'
    <2>1. TotalValue' = TotalValue
      <3>1. \A t : ValueOf(t)' = ValueOf(t)
        BY <1>1 DEF ValueOf
      <3> QED BY <3>1 DEF TotalValue
    <2> QED BY <1>1, <2>1, CheckStays DEF BatchInv, Checked
  <1>6. PreparedRight' /\ FeesCoverSuggestion'
    <2>1. \A u \in Txs : pc[u] = "prepared" => Covers(u, simulation[u], feeParams[u])'
      BY <1>1, CoverageIs, CoversStays DEF BatchInv
    <2> QED BY <1>1, <2>1 DEF BatchInv, PreparedRight, FeesCoverSuggestion, Covers, FeeParams, Coherent
  <1> QED BY <1>2, <1>3, <1>4, <1>5, <1>6 DEF BatchInv

LEMMA SdkNextBatch == ASSUME FactoryInv, BatchInv, [SdkNext]_sdkVars PROVE BatchInv'
  <1>1. CASE NormalizeBatch
    BY <1>1, NormalizeBatchInv
  <1>2. CASE Prepare
    BY <1>2, ValidateBatchInv, CheckBalanceInv, PreparePayloadInv, StartTxInv, SimulatedInv,
       SimulationFailsInv DEF Prepare, Next
  <1>3. CASE Resolve \/ BridgeToTon \/ CreateSdk \/ UNCHANGED sdkVars
    <2>1. UNCHANGED <<vars, entry>>
      BY <1>3 DEF Resolve, BridgeToTon, CreateSdk, sdkVars
    <2>2. entry \notin {"send"} \/ outcome = "normalize" \/ UNCHANGED <<call, done, objects>>
      BY <1>3 DEF Resolve, BridgeToTon, CreateSdk, sdkVars, tacVars, factoryVars
    <2> QED BY <2>1, <2>2, BatchInvKept
  <1> QED BY <1>1, <1>2, <1>3 DEF SdkNext

-------------------------------------------------------------------------------
(* What the invariant says of a batch.                                         *)

LEMMA PreparedShape ==
    ASSUME BatchInv, NEW t \in Txs, pc[t] = "prepared"
    PROVE  /\ request[t].cart \in Seq(Assets) /\ feeParams[t] \in FeeParams
           /\ Shaped(request[t].cart, feeParams[t], messages[t])
           /\ shardCount[t] = Len(messages[t]) /\ Len(messages[t]) \in Nat \ {0}
  <1>1. PICK cart, fee, ms : cart = request[t].cart /\ fee = feeParams[t] /\ ms = messages[t]
    OBVIOUS
  <1>2. request \in [Txs -> RequestOf]
    BY DEF BatchInv, BatchTypes, Entries
  <1>3. cart \in Seq(Assets)
    BY <1>1, <1>2 DEF RequestOf
  <1>4. Coherent(cart) /\ fee \in FeeParams /\ ms = MessagesOf(cart, fee) /\ shardCount[t] = ShardCount(cart)
    BY <1>1 DEF BatchInv, PreparedRight
  <1>5. Shaped(cart, fee, ms)
    BY <1>3, <1>4, MessagesShaped
  <1>6. Len(ms) = ShardCount(cart) /\ Len(ms) \in Nat \ {0}
    BY <1>5 DEF Shaped
  <1> QED BY <1>1, <1>3, <1>4, <1>5, <1>6

LEMMA BatchTypeOK == ASSUME BatchInv PROVE TypeOK /\ ShardsMatchLinker
  <1>1. ASSUME NEW t \in Txs, pc[t] = "prepared"
        PROVE  /\ shardCount[t] = Len(messages[t]) /\ feeParams[t] \in FeeParams /\ messages[t] # <<>>
    <2>1. shardCount[t] = Len(messages[t]) /\ feeParams[t] \in FeeParams /\ Len(messages[t]) \in Nat \ {0}
      BY <1>1, PreparedShape
    <2>2. Len(<<>>) = 0
      OBVIOUS
    <2> QED BY <2>1, <2>2
  <1>2. ShardsMatchLinker
    BY <1>1 DEF ShardsMatchLinker
  <1>3. TypeOK
    BY <1>1 DEF TypeOK, BatchInv, BatchTypes, FeeParams
  <1> QED BY <1>2, <1>3

LEMMA ConservedByBatch == ASSUME BatchInv PROVE ValueConserved
  <1>1. ASSUME NEW t \in Txs, pc[t] = "prepared"
        PROVE  Conserved(request[t].cart, feeParams[t], messages[t])
    BY <1>1, PreparedShape, ShapedConserves
  <1> QED BY <1>1 DEF ValueConserved, Conserved, ValueOf

LEMMA NothingAsked ==
    ASSUME NEW cart \in Seq(Assets), NEW id, \A k \in 1..Len(cart) : cart[k].id # id
    PROVE  Demand(cart, id) = 0
  <1>1. {k \in 1..Len(cart) : cart[k].id = id} = {} /\ IsFiniteSet({})
    BY FS_EmptySet
  <1>2. \A f : SumFunctionOnSet(f, {}) = 0
    BY <1>1, SumOfParts
  <1> QED BY <1>1, <1>2 DEF Demand

LEMMA CoveredByBatch == ASSUME FactoryInv, BatchInv PROVE BatchCovered
  <1> SUFFICES ASSUME outcome = "ready" PROVE BatchCovered
    BY DEF BatchCovered
  <1>1. PICK V : V = ValidatedTxs
    OBVIOUS
  <1>2. /\ request \in [Txs -> RequestOf] /\ Owning(balance) /\ V \in SUBSET Txs
        /\ IsFiniteSet(Txs) /\ IsFiniteSet(V)
    BY <1>1, PrepareAssumption, FS_Subset DEF BatchInv, BatchTypes, Entries, ValidatedTxs
  <1>3. /\ CanBeTransferred(AllCarts(V)) /\ ~HasZeroAmount(AllCarts(V))
        /\ \A t \in Txs : pc[t] = "prepared" /\ request[t].cart \in Seq(Assets)
        /\ ~(balance["ton"] < TotalValue)
    BY <1>1, <1>2 DEF BatchInv, Checked, AssetsValid, RequestOf
  <1>4. ASSUME NEW id \in DOMAIN balance \ {"ton"}, ~IsNft(id) PROVE Demanded(id) <= balance[id]
    <2> DEFINE f == [t \in V |-> Demand(request[t].cart, id)]
    <2>1. Demanded(id) = SumFunctionOnSet(f, V)
      BY <1>1 DEF Demanded, SumFunction
    <2>2. Demand(AllCarts(V), id) = SumFunctionOnSet(f, V)
      BY <1>2, <1>3, BatchCart
    <2>3. \A t \in V : f[t] \in Nat /\ f[t] = Demand(request[t].cart, id)
      BY <1>2, <1>3, RawAmountIs
    <2> HIDE DEF f
    <2>4. CASE \E t \in V : \E k \in 1..Len(request[t].cart) : request[t].cart[k].id = id
      <3>0. PICK t \in V : \E k \in 1..Len(request[t].cart) : request[t].cart[k].id = id
        BY <2>4
      <3>1. PICK k \in 1..Len(request[t].cart) : request[t].cart[k].id = id
        BY <3>0
      <3>2. PICK a : a = request[t].cart[k]
        OBVIOUS
      <3>3. a.kind # "nft" /\ a.id = id
        BY <1>2, <1>4, <3>1, <3>2 DEF IsNft, NftIds
      <3>4. \A u \in V : request[u].cart \in Seq(Assets)
        BY <1>2, <1>3
      <3>5. Demand(AllCarts(V), id) <= balance[id]
        BY <1>2, <1>3, <3>2, <3>3, <3>4, TransferChecked
      <3> QED BY <2>1, <2>2, <3>5
    <2>5. CASE \A t \in V : \A k \in 1..Len(request[t].cart) : request[t].cart[k].id # id
      <3>1. \A t \in V \ {} : f[t] = 0
        BY <1>2, <1>3, <2>3, <2>5, NothingAsked
      <3>2. {} \in SUBSET V /\ \A t \in V : f[t] \in Nat
        BY <2>3
      <3>3. SumFunctionOnSet(f, V) = SumFunctionOnSet(f, {})
        BY ONLY <1>2, <3>1, <3>2, SumWithoutZeros
      <3>4. IsFiniteSet({})
        BY FS_EmptySet
      <3>5. SumFunctionOnSet(f, {}) = 0
        BY <3>4, SumOfParts
      <3>6. balance[id] \in Nat
        BY <1>2 DEF Owning
      <3> QED BY <2>1, <3>3, <3>5, <3>6
    <2> QED BY <2>4, <2>5
  <1>5. TotalValue \in Nat
    <2>1. ASSUME NEW t \in Txs PROVE ValueOf(t) \in Nat
      <3> DEFINE n == Len(messages[t])
                 f == [k \in 1..n |-> messages[t][k].value]
      <3>1. n \in Nat /\ \A k \in 1..n : messages[t][k].value \in Nat
        BY <1>3, PreparedShape, ShapedConserves
      <3>2. \A k \in 1..n : f[k] \in Nat
        BY <3>1
      <3>3. IsFiniteSet(1..n) /\ DOMAIN f = 1..n
        BY <3>1, FS_Interval
      <3>4. ValueOf(t) = SumFunctionOnSet(f, 1..n)
        BY <3>3 DEF ValueOf, SumFunction
      <3> HIDE DEF f
      <3> QED BY <3>2, <3>3, <3>4, SumOfParts
    <2> DEFINE g == [t \in Txs |-> ValueOf(t)]
    <2>2. \A t \in Txs : g[t] \in Nat
      BY <2>1
    <2>3. TotalValue = SumFunctionOnSet(g, Txs)
      BY DEF TotalValue, SumFunction
    <2> HIDE DEF g
    <2> QED BY <1>2, <2>2, <2>3, SumOfParts
  <1>6. TotalValue <= balance["ton"]
    BY <1>2, <1>3, <1>5 DEF Owning
  <1> QED BY <1>4, <1>6 DEF BatchCovered

\* What a list asks of a contract is what its caller named for it.
LEMMA NamedIsDemanded ==
    ASSUME FactoryInv, NEW t \in Callers, call[t].phase = "resolved",
           \A k \in 1..Len(CartOf(t)) : CartOf(t)[k].id # Nowhere,
           NEW x \in Contracts
    PROVE  /\ Naming(t, x) = {k \in 1..Len(CartOf(t)) : CartOf(t)[k].id = x}
           /\ NamedKind(x) # "nft" => Demand(CartOf(t), x) = NamedAmount(t, x)
  <1>1. PICK cart, n : cart = CartOf(t) /\ n = Len(cart)
    OBVIOUS
  <1>2. /\ n \in Nat /\ n = Len(done[t]) /\ n = Len(named[t])
        /\ cart \in Seq(Assets)
    <2>1. Len(done[t]) = Len(named[t])
      BY DEF FactoryInv, Progress
    <2> QED BY <1>1, <2>1, CartOfFields
  <1>3. \A k \in 1..n : /\ cart[k].id = Wanted(named[t][k])
                        /\ cart[k].kind = IF cart[k].id = Ton THEN "ton" ELSE NamedKind(cart[k].id)
    BY <1>1, CartOfCoherent
  <1>4. \A k \in 1..n : /\ AmountGiven(named[t][k], objects[done[t][k]])
                        /\ cart[k].kind = objects[done[t][k]].kind
                        /\ cart[k].amount = objects[done[t][k]].amount /\ cart[k].amount \in Nat
    <2>1. \A k \in 1..n : cart[k].amount \in Nat
      BY <1>1, <1>2, CartTypes
    <2>2. \A k \in 1..n : /\ AmountGiven(named[t][k], objects[done[t][k]])
                          /\ cart[k].kind = objects[done[t][k]].kind
                          /\ cart[k].amount = objects[done[t][k]].amount
      BY <1>1, <1>2, CartOfFields
    <2> QED BY <2>1, <2>2
  <1>5. Naming(t, x) = {k \in 1..n : cart[k].id = x}
    BY <1>2, <1>3 DEF Naming
  <1>6. ASSUME NamedKind(x) # "nft" PROVE Demand(cart, x) = NamedAmount(t, x)
    <2>1. PICK S : S = {k \in 1..n : cart[k].id = x}
      OBVIOUS
    <2> DEFINE f == [k \in 1..n |-> cart[k].amount]
               g == [k \in S |-> OnChainAmount(named[t][k], objects[done[t][k]])]
    <2>2. IsFiniteSet(1..n)
      BY <1>2, FS_Interval
    <2>3. IsFiniteSet(S) /\ S \in SUBSET (1..n)
      BY <2>1, <2>2, FS_Subset
    <2>4. Demand(cart, x) = SumFunctionOnSet(f, S)
      BY <1>1, <2>1 DEF Demand
    <2>5. NamedAmount(t, x) = SumFunctionOnSet(g, S)
      BY <1>5, <2>1 DEF NamedAmount
    <2>6. ASSUME NEW k \in S PROVE f[k] \in Nat /\ f[k] = g[k]
      <3>1. k \in 1..n /\ cart[k].id = x /\ x # Ton
        BY <2>1, FactoryAssumption
      <3>2. objects[done[t][k]].kind # "nft"
        BY <1>3, <1>4, <1>6, <3>1
      <3>3. cart[k].amount = OnChainAmount(named[t][k], objects[done[t][k]])
        BY <1>4, <3>1, <3>2 DEF AmountGiven
      <3> QED BY <1>4, <3>1, <3>3
    <2> HIDE DEF f, g
    <2>7. SumFunctionOnSet(f, S) = SumFunctionOnSet(g, S)
      BY ONLY <2>3, <2>6, SumOfEquals
    <2> QED BY <2>4, <2>5, <2>7
  <1> QED BY <1>1, <1>5, <1>6

LEMMA SentByBatch == ASSUME FactoryInv, BatchInv PROVE SentAsNamed
  <1> SUFFICES ASSUME entry = "send", outcome = "ready", NEW t \in Txs, NEW x \in FTs \union Items
               PROVE  LET ms == {k \in 1..Len(messages[t]) : messages[t][k].asset = x} IN
                      /\ Cardinality(ms) = (IF Naming(t, x) = {} THEN 0 ELSE 1)
                      /\ \A k \in ms :
                             /\ messages[t][k].op = OpType(NamedKind(x), NativeOn[x])
                             /\ messages[t][k].amount = IF NamedKind(x) = "nft" THEN 1 ELSE NamedAmount(t, x)
    BY DEF SentAsNamed
  <1>1. PICK cart, fee, m : cart = CartOf(t) /\ fee = feeParams[t] /\ m = messages[t]
    OBVIOUS
  <1>2. /\ AssetsValid /\ ~HasZeroAmount(AllCarts(ValidatedTxs)) /\ pc[t] = "prepared"
        /\ t \in Callers /\ call[t].phase = "resolved" /\ request[t].cart = cart
    BY <1>1, SdkAssumption DEF BatchInv, Checked, Handed
  <1>3. cart \in Seq(Assets) /\ fee \in FeeParams /\ Shaped(cart, fee, m) /\ Conserved(cart, fee, m)
    BY <1>1, <1>2, PreparedShape, ShapedConserves
  <1>4. \A k \in 1..Len(cart) : cart[k].id # Nowhere
    BY <1>1, <1>2, PassedIsCoherent
  <1>5. x \in Contracts /\ x # Ton /\ x # "ton" /\ NamedKind(x) # "ton"
    BY FactoryAssumption DEF FTs, Items, NamedKind, Ton
  <1>6. \A k \in 1..Len(cart) : cart[k].id = x => cart[k].kind = NamedKind(x) /\ cart[k].origin = NativeOn[x]
    <2>1. \A k \in 1..Len(cart) :
              /\ cart[k].kind = IF cart[k].id = Ton THEN "ton" ELSE NamedKind(cart[k].id)
              /\ cart[k].origin = OriginOf(cart[k].id)
      BY <1>1, <1>2, <1>4, CartOfCoherent
    <2> QED BY <1>5, <2>1 DEF OriginOf
  <1>7. /\ Naming(t, x) = {k \in 1..Len(cart) : cart[k].id = x}
        /\ NamedKind(x) # "nft" => Demand(cart, x) = NamedAmount(t, x)
    BY <1>1, <1>2, <1>4, <1>5, NamedIsDemanded
  <1>8. /\ x \in Ids(cart) <=> Naming(t, x) # {}
        /\ x \in Ids(cart) => (x \in NftIds(cart) <=> NamedKind(x) = "nft")
    BY <1>5, <1>6, <1>7 DEF Ids, NftIds
  <1>9. ASSUME NEW k \in 1..Len(m) PROVE m[k].asset = "ton" \/ m[k].asset \in Ids(cart)
    <2>1. CASE Ids(cart) = {}
      <3>1. Len(m) = 1 /\ m[1].asset = "ton"
        BY <1>3, <2>1 DEF Shaped
      <3> QED BY <3>1
    <2>2. CASE Ids(cart) # {}
      <3>1. PICK assets : assets = [j \in 1..Len(m) |-> m[j].asset]
        OBVIOUS
      <3>2. Lists(assets, Ids(cart)) /\ Len(m) \in Nat
        BY <1>3, <2>2, <3>1 DEF Shaped
      <3>3. assets \in Seq(Ids(cart)) /\ DOMAIN assets = 1..Len(m)
        BY <3>1, <3>2 DEF Lists
      <3>4. assets[k] \in Ids(cart)
        BY <3>2, <3>3
      <3> QED BY <3>1, <3>4
    <2> QED BY <2>1, <2>2
  <1>10. Cardinality({k \in 1..Len(m) : m[k].asset = x}) = (IF Naming(t, x) = {} THEN 0 ELSE 1)
    <2>1. CASE x \in Ids(cart)
      BY <1>3, <1>8, <2>1 DEF Conserved
    <2>2. CASE x \notin Ids(cart)
      <3>1. {k \in 1..Len(m) : m[k].asset = x} = {}
        BY <1>5, <1>9, <2>2
      <3> QED BY <1>8, <2>2, <3>1, FS_EmptySet
    <2> QED BY <2>1, <2>2
  <1>11. ASSUME NEW k \in 1..Len(m), m[k].asset = x
         PROVE  /\ m[k].op = OpType(NamedKind(x), NativeOn[x])
                /\ m[k].amount = IF NamedKind(x) = "nft" THEN 1 ELSE NamedAmount(t, x)
    <2>1. x \in Ids(cart)
      BY <1>5, <1>9, <1>11
    <2>2. PICK j \in 1..Len(cart) : cart[j].id = x
      BY <2>1 DEF Ids
    <2>3. /\ m[k].amount = IF x \in NftIds(cart) THEN 1 ELSE Demand(cart, x)
          /\ m[k].op = OpType(cart[j].kind, cart[j].origin)
      BY <1>3, <1>11, <2>2 DEF Conserved
    <2> QED BY <1>6, <1>7, <1>8, <2>1, <2>2, <2>3
  <1> QED BY <1>1, <1>10, <1>11

-------------------------------------------------------------------------------
(* Configuration: whatever fails while the parameters of the two chains are    *)
(* loaded, and whatever is published meanwhile, the configuration is sound.    *)

USE DEF TonOptions, TacOptions, AllOptions

\* How far the TON side is, and what the caller gave if it is there.
TonSide ==
    /\ tonParams.phase \in {"settings", "fees", "loaded"} =>
           tonParams.openers > 0 /\ ~Lacks(TonOptions)
    /\ tonParams.phase \in {"fees", "loaded"} => tonParams.settings = AsRead
    /\ tonParams.phase = "rejected" => tonParams.failed \/ Lacks(TonOptions)

\* How far the TAC side is: it holds all settings or may still read some.
TacSide ==
    /\ tacParams.phase \in {"multicall", "one", "loaded"} => ~Lacks(TacOptions) /\ ~given.malformed
    /\ tacParams.phase \in {"start", "multicall"} => tacParams.read = <<>>
    /\ tacParams.phase = "one" => Len(tacParams.read) < Len(TacSettings)
    /\ tacParams.phase = "loaded" => Len(tacParams.read) = Len(TacSettings)
    /\ tacParams.phase = "rejected" => tacParams.failed \/ Lacks(TacOptions) \/ given.malformed

\* What the settled promise was settled for; nothing moves after a success.
Settled ==
    /\ sdk = "created" => /\ tonParams.phase = "loaded" /\ tacParams.phase = "loaded"
                          /\ ~Lacks({"liteSequencerEndpoints"})
    /\ RejectedForAReason

\* The inductive invariant.
ConfigIInv == ConfigTypeOK /\ TonSide /\ TacSide /\ ReadInOrder /\ Settled

LEMMA ConfigInitIInv == ConfigInit => ConfigIInv
  <1> SUFFICES ASSUME ConfigInit PROVE ConfigIInv
    OBVIOUS
  <1> USE ConfigurationAssumption DEF ConfigInit
  <1>1. ConfigTypeOK
    <2>1. <<>> \in Seq(0..MaxUpdates)
      OBVIOUS
    <2> QED BY <2>1 DEF ConfigTypeOK, TonParams
  <1>2. TonSide /\ TacSide
    BY DEF TonSide, TacSide
  <1>3. ReadInOrder /\ Settled
    BY DEF ReadInOrder, Settled, RejectedForAReason
  <1> QED BY <1>1, <1>2, <1>3 DEF ConfigIInv

\* A change of the settings: what was read is older still.
LEMMA PublishIInv == ASSUME ConfigIInv, Publish PROVE ConfigIInv'
  <1> USE ConfigurationAssumption DEF ConfigIInv, ConfigTypeOK, Publish
  <1>1. ConfigTypeOK' /\ TonSide' /\ TacSide' /\ Settled'
    BY DEF TonSide, TacSide, Settled, RejectedForAReason, Lacks, AsRead
  <1>2. ReadInOrder'
    <2>1. tacParams.read \in Seq(Nat) /\ published \in Nat
      OBVIOUS
    <2> QED BY <2>1 DEF ReadInOrder
  <1> QED BY <1>1, <1>2

\* What is read on TON: nothing that is there is lost.
LEMMA AsReadType ==
    /\ AsRead \in [TonSettings -> {"unread", "held", "", "undefined", "default"}]
    /\ \A s \in TonSettings : s \in onTon => AsRead[s] = "held"
    /\ AsRead["ContractFeeUsageParams"] \in {"held", "default"}
  <1>1. ASSUME NEW s \in TonSettings PROVE InPlaceOf(s) \in {"", "undefined", "default"}
    BY DEF InPlaceOf, TonSettings, TonAddresses, TonCodes
  <1>2. /\ "ContractFeeUsageParams" \in TonSettings
        /\ InPlaceOf("ContractFeeUsageParams") = "default"
    BY DEF InPlaceOf, TonSettings, TonAddresses, TonCodes
  <1> QED BY <1>1, <1>2 DEF AsRead

\* Steps of the TON side.
LEMMA PrepareTONIInv == ASSUME ConfigIInv, PrepareTON PROVE ConfigIInv'
  <1> USE ConfigurationAssumption DEF ConfigIInv, PrepareTON
  <1>1. ConfigTypeOK' /\ TonSide' /\ Settled'
    <2>1. CASE ChooseOpener
      <3>1. CASE Lacks(TonOptions)
        BY <2>1, <3>1 DEF ChooseOpener, TonGoes, ConfigTypeOK, TonParams, TonSide, Settled,
            RejectedForAReason, Lacks
      <3>2. CASE ~Lacks(TonOptions)
        <4>1. PICK n \in IF "contractOpener" \in given.options THEN {1} ELSE 1..3 :
                  tonParams' = [tonParams EXCEPT !.phase = "settings", !.openers = n]
          BY <2>1, <3>2, Zenon DEF ChooseOpener
        <4>2. /\ tonParams'.phase = "settings" /\ tonParams'.openers = n
              /\ tonParams'.failed = tonParams.failed /\ tonParams'.fees = tonParams.fees
              /\ tonParams'.settings = tonParams.settings
          BY <4>1 DEF ConfigTypeOK, TonParams
        <4>3. n \in 0..3 /\ n > 0
          OBVIOUS
        <4>4. ConfigTypeOK'
          BY <4>1, <4>3 DEF ConfigTypeOK, TonParams
        <4>5. TonSide' /\ Settled'
          BY <2>1, <3>2, <4>2, <4>3 DEF ChooseOpener, TonSide, Settled, RejectedForAReason, Lacks
        <4> QED BY <4>4, <4>5
      <3> QED BY <3>1, <3>2
    <2>2. CASE ReadTonSettings
      <3> USE DEF ReadTonSettings
      <3>1. CASE tonParams' = [tonParams EXCEPT !.phase = "fees", !.settings = AsRead]
        <4>1. AsRead' = AsRead
          BY DEF AsRead
        <4>2. /\ tonParams'.phase = "fees" /\ tonParams'.settings = AsRead
              /\ tonParams'.openers = tonParams.openers /\ tonParams'.failed = tonParams.failed
          BY <3>1 DEF ConfigTypeOK, TonParams
        <4>3. ConfigTypeOK'
          BY <3>1, AsReadType DEF ConfigTypeOK, TonParams
        <4>4. TonSide' /\ Settled'
          BY <2>2, <4>1, <4>2 DEF TonSide, Settled, RejectedForAReason, Lacks
        <4> QED BY <4>3, <4>4
      <3>2. CASE tonParams' = [tonParams EXCEPT !.phase = "rejected", !.failed = TRUE]
        BY <2>2, <3>2 DEF ConfigTypeOK, TonParams, TonSide, Settled, RejectedForAReason, Lacks
      <3> QED BY <2>2, <3>1, <3>2
    <2>3. CASE ReadFees
      <3>1. PICK fees \in {"network", "standard"} :
                tonParams' = [tonParams EXCEPT !.phase = "loaded", !.fees = fees]
        BY <2>3, Zenon DEF ReadFees
      <3>2. AsRead' = AsRead
        BY DEF AsRead
      <3>3. /\ tonParams'.phase = "loaded" /\ tonParams'.settings = tonParams.settings
            /\ tonParams'.openers = tonParams.openers /\ tonParams'.failed = tonParams.failed
        BY <3>1 DEF ConfigTypeOK, TonParams
      <3>4. ConfigTypeOK'
        BY <3>1 DEF ConfigTypeOK, TonParams
      <3>5. TonSide' /\ Settled'
        BY <2>3, <3>2, <3>3 DEF ReadFees, TonSide, Settled, RejectedForAReason, Lacks
      <3> QED BY <3>4, <3>5
    <2> QED BY <2>1, <2>2, <2>3
  <1>2. TacSide' /\ ReadInOrder'
    BY DEF TacSide, ReadInOrder, Lacks
  <1> QED BY <1>1, <1>2

\* One more setting is read: it is at least as new as those before it.
LEMMA ReadSettingInOrder ==
    ASSUME ConfigTypeOK, ReadInOrder, published' = published,
           tacParams'.read = Append(tacParams.read, published)
    PROVE  ReadInOrder' /\ tacParams'.read \in Seq(0..MaxUpdates)
                        /\ Len(tacParams'.read) = Len(tacParams.read) + 1
  <1> DEFINE read == tacParams.read
  <1>1. read \in Seq(0..MaxUpdates) /\ published \in 0..MaxUpdates /\ MaxUpdates \in Nat
    BY ConfigurationAssumption DEF ConfigTypeOK
  <1>2. /\ Append(read, published) \in Seq(0..MaxUpdates)
        /\ Len(Append(read, published)) = Len(read) + 1
        /\ Append(read, published)[Len(read) + 1] = published
        /\ \A k \in 1..Len(read) : Append(read, published)[k] = read[k]
    BY <1>1
  <1>3. \A k \in 1..Len(read) : read[k] \in 0..MaxUpdates /\ read[k] <= published
    BY <1>1 DEF ReadInOrder
  <1>4. ASSUME NEW j \in 1..Len(read) + 1, NEW k \in 1..Len(read) + 1, j <= k
        PROVE  /\ Append(read, published)[j] <= Append(read, published)[k]
               /\ Append(read, published)[k] <= published
    <2>1. CASE k = Len(read) + 1
      BY <1>1, <1>2, <1>3, <1>4, <2>1
    <2>2. CASE k # Len(read) + 1
      <3>1. k \in 1..Len(read) /\ j \in 1..Len(read)
        BY <1>1, <1>4, <2>2
      <3> QED BY <1>2, <1>3, <1>4, <3>1 DEF ReadInOrder
    <2> QED BY <2>1, <2>2
  <1> QED BY <1>2, <1>4 DEF ReadInOrder

\* Steps of the TAC side.
LEMMA PrepareTACIInv == ASSUME ConfigIInv, PrepareTAC PROVE ConfigIInv'
  <1> USE ConfigurationAssumption DEF ConfigIInv, PrepareTAC
  <1>1. ConfigTypeOK' /\ TacSide' /\ ReadInOrder' /\ Settled'
    <2>1. CASE ChooseProvider
      BY <2>1 DEF ChooseProvider, TacGoes, TacSettings, ConfigTypeOK, TacSide, ReadInOrder,
          Settled, RejectedForAReason, Lacks
    <2>2. CASE Multicall
      <3>1. CASE tacParams' = [tacParams EXCEPT !.phase = "loaded",
                                   !.read = [k \in 1..Len(TacSettings) |-> published]]
        <4> DEFINE read == [k \in 1..Len(TacSettings) |-> published]
        <4>1. read \in Seq(0..MaxUpdates) /\ Len(read) = Len(TacSettings)
          BY DEF TacSettings, ConfigTypeOK
        <4>2. tacParams'.read = read /\ tacParams'.phase = "loaded"
              /\ tacParams'.failed = tacParams.failed
          BY <3>1 DEF ConfigTypeOK
        <4>3. ConfigTypeOK'
          BY <3>1, <4>1 DEF ConfigTypeOK
        <4>4. ReadInOrder'
          BY <4>1, <4>2 DEF ReadInOrder, ConfigTypeOK
        <4> HIDE DEF read
        <4>5. TacSide' /\ Settled'
          BY <2>2, <4>1, <4>2 DEF Multicall, TacSide, Settled, RejectedForAReason, Lacks
        <4> QED BY <4>3, <4>4, <4>5
      <3>2. CASE TacGoes(AfterMulticallFails)
        BY <2>2, <3>2 DEF Multicall, TacGoes, AfterMulticallFails, TacSettings, ConfigTypeOK,
            TacSide, ReadInOrder, Settled, RejectedForAReason, Lacks
      <3> QED BY <2>2, <3>1, <3>2 DEF Multicall
    <2>3. CASE ReadSetting
      <3>1. CASE tacParams' = [tacParams EXCEPT !.phase = "rejected", !.failed = TRUE]
        BY <2>3, <3>1 DEF ReadSetting, ConfigTypeOK, TacSide, ReadInOrder, Settled,
            RejectedForAReason, Lacks
      <3>2. CASE tacParams' # [tacParams EXCEPT !.phase = "rejected", !.failed = TRUE]
        <4> DEFINE read == Append(tacParams.read, published)
                   next == IF Len(read) = Len(TacSettings) THEN "loaded" ELSE "one"
        <4>1. tacParams' = [tacParams EXCEPT !.read = read, !.phase = next]
          BY <2>3, <3>2 DEF ReadSetting
        <4>2. tacParams'.read = read /\ tacParams'.phase = next
              /\ tacParams'.failed = tacParams.failed
          BY <4>1 DEF ConfigTypeOK
        <4>3. ReadInOrder' /\ read \in Seq(0..MaxUpdates)
              /\ Len(read) = Len(tacParams.read) + 1
          BY <4>2, ReadSettingInOrder
        <4> HIDE DEF read
        <4>4. ConfigTypeOK'
          BY <4>1, <4>3 DEF ConfigTypeOK
        <4>5. TacSide' /\ Settled'
          BY <2>3, <4>2, <4>3 DEF ReadSetting, TacSide, Settled, RejectedForAReason, Lacks,
              ConfigTypeOK, TacSettings
        <4> QED BY <4>3, <4>4, <4>5
      <3> QED BY <3>1, <3>2
    <2> QED BY <2>1, <2>2, <2>3
  <1>2. TonSide'
    BY DEF TonSide, Lacks, AsRead
  <1> QED BY <1>1, <1>2

\* The call settles; a side that was rejected had its reason.
LEMMA CreateIInv == ASSUME ConfigIInv, Create PROVE ConfigIInv'
  <1> USE DEF ConfigIInv, Create
  <1>1. ConfigTypeOK' /\ TonSide' /\ TacSide' /\ ReadInOrder'
    BY DEF ConfigTypeOK, TonSide, TacSide, ReadInOrder, Lacks, AsRead
  <1>2. Settled'
    BY DEF Settled, RejectedForAReason, TonSide, TacSide, Lacks, ConfigTypeOK
  <1> QED BY <1>1, <1>2

LEMMA ConfigInductive == ConfigIInv /\ [ConfigNext]_configVars => ConfigIInv'
  <1> SUFFICES ASSUME ConfigIInv, [ConfigNext]_configVars PROVE ConfigIInv'
    OBVIOUS
  <1>1. CASE UNCHANGED configVars
    BY <1>1 DEF configVars, ConfigIInv, ConfigTypeOK, TonSide, TacSide, ReadInOrder, Settled,
        RejectedForAReason, Lacks, AsRead
  <1>2. CASE ConfigNext
    BY <1>2, PublishIInv, PrepareTONIInv, PrepareTACIInv, CreateIInv DEF ConfigNext
  <1> QED BY <1>1, <1>2

LEMMA ConfigIsSound == ConfigIInv => ConfigurationSound
  <1> SUFFICES ASSUME ConfigIInv PROVE ConfigurationSound
    OBVIOUS
  <1>1. ASSUME sdk = "created" PROVE tonParams.settings = AsRead /\ onTon \subseteq TonSettings
    BY <1>1, ConfigurationAssumption DEF ConfigIInv, TonSide, Settled, ConfigTypeOK
  <1>2. ASSUME sdk = "created"
        PROVE  /\ \A s \in onTon : tonParams.settings[s] = "held"
               /\ tonParams.settings["ContractFeeUsageParams"] \in {"held", "default"}
    BY <1>1, <1>2, AsReadType
  <1>3. ASSUME sdk = "created"
        PROVE  /\ Len(tacParams.read) = Len(TacSettings) /\ tonParams.openers > 0
               /\ ~given.malformed /\ (given.network = "dev" => given.options = AllOptions)
    BY <1>3 DEF ConfigIInv, ConfigTypeOK, TonSide, TacSide, Settled, Lacks
  <1> QED BY <1>2, <1>3 DEF ConfigIInv, Settled, ConfigurationSound, CreatedComplete

(***************************************************************************)
(* An SDK that is created has every setting of TAC, of the settings of TON *)
(* all that their contract holds, and, for the dev network, only what was  *)
(* given; settings read one by one are no older than those before them;    *)
(* and only what the caller left out, or a setting that could not be read, *)
(* rejects the creation - for any number of changes of the settings        *)
(* meanwhile (Configuration.create).  What the contract on TON lacks, the  *)
(* SDK lacks too, and is created all the same.                             *)
(***************************************************************************)
THEOREM ConfigurationTheorem == ConfigSpec => []ConfigurationSound
  <1>1. ConfigIInv => ConfigurationSound
    BY ConfigIsSound
  <1> QED BY ConfigInitIInv, ConfigInductive, <1>1, PTL DEF ConfigSpec

LEMMA SdkConfigStep == [SdkNext]_sdkVars => [ConfigNext]_configVars
  <1> SUFFICES ASSUME [SdkNext]_sdkVars PROVE [ConfigNext]_configVars
    OBVIOUS
  <1> QED
    BY DEF SdkNext, sdkVars, CreateSdk, NormalizeBatch, Prepare, Resolve, BridgeToTon

(***************************************************************************)
(* The same of the facade as a whole: no call that is made of the SDK      *)
(* changes what its configuration was found to be (TacSdk.create).         *)
(***************************************************************************)
THEOREM SdkConfigurationTheorem == SdkSpec => []ConfigurationSound
  <1>1. SdkInit => ConfigInit
    BY DEF SdkInit
  <1>2. ConfigIInv => ConfigurationSound
    BY ConfigIsSound
  <1> QED BY <1>1, <1>2, ConfigInitIInv, SdkConfigStep, ConfigInductive, PTL DEF SdkSpec

-------------------------------------------------------------------------------
(* The facade as a whole.                                                      *)

SdkIInv == FactoryInv /\ Shared /\ BridgeInv /\ BatchInv /\ ConfigIInv

LEMMA SdkInitIInv == SdkInit => SdkIInv
  <1>1. SdkInit => ConfigInit
    BY DEF SdkInit
  <1> QED BY <1>1, SdkInitFactory, SdkInitBridge, SdkInitBatch, ConfigInitIInv DEF SdkIInv

LEMMA SdkInductive == SdkIInv /\ [SdkNext]_sdkVars => SdkIInv'
  BY SdkNextFactory, SdkNextBridge, SdkNextBatch, SdkConfigStep, ConfigInductive DEF SdkIInv, BridgeInv

LEMMA SdkAlways == SdkSpec => []SdkIInv
  BY SdkInitIInv, SdkInductive, PTL DEF SdkSpec

(***************************************************************************)
(* The states of the facade and of all that it composes have their types,  *)
(* and the linker of a prepared transaction announces as many shards as    *)
(* there are messages (TacSdk, prepareCrossChainTransaction).              *)
(***************************************************************************)
THEOREM SdkTheorem == SdkSpec => []SdkInv
  <1>1. SdkIInv => SdkInv
    <2> SUFFICES ASSUME SdkIInv PROVE SdkInv
      OBVIOUS
    <2>1. TypeOK /\ ShardsMatchLinker /\ FactoryTypeOK /\ BridgeTypeOK
      BY BatchTypeOK, ResolutionTypes DEF SdkIInv
    <2>2. ConfigTypeOK /\ entry \in {"create", "objects", "payload", "send", "bridge"}
      BY DEF SdkIInv, ConfigIInv, BatchInv, BatchTypes
    <2> QED BY <2>1, <2>2 DEF SdkInv, PrepareInv
  <1> QED BY <1>1, SdkAlways, PTL

(***************************************************************************)
(* What a caller gives is what the messages of his transaction carry: each *)
(* token in one message with all of its amounts, TON and the fees in       *)
(* exactly one, and nothing is paid twice (generateCrossChainMessages,     *)
(* aggregateTokens) - for any batch, any lists of any length, any prices,  *)
(* fees and answers of the simulation, and any interleaving of the batch.  *)
(***************************************************************************)
THEOREM ConservationTheorem == SdkSpec => []ValueConserved
  <1>1. SdkIInv => ValueConserved
    BY ConservedByBatch DEF SdkIInv
  <1> QED BY <1>1, SdkAlways, PTL

(***************************************************************************)
(* No transaction pays less than its simulation asks, unless that is not   *)
(* checked; and a batch that is ready can be paid for as a whole, its      *)
(* jettons together and the TON of all its messages (buildFeeParams,       *)
(* prepareBatchTransactions, TON.checkBalance) - for any batch.            *)
(***************************************************************************)
THEOREM PaymentTheorem == SdkSpec => []PaymentSuffices
  <1>1. SdkIInv => PaymentSuffices
    BY CoveredByBatch DEF SdkIInv, BatchInv, PaymentSuffices
  <1> QED BY <1>1, SdkAlways, PTL

(***************************************************************************)
(* End to end: a batch that is ready has, for each token that a caller     *)
(* named, one message that burns or transfers it by its true origin and    *)
(* carries all the amounts he named for it, by whichever addresses, while  *)
(* others resolve theirs through the shared cache and counterparts are     *)
(* being deployed (TacSdk.sendCrossChainTransactions) - for any contracts, *)
(* any callers and any lists.  SdkAssumption has what it depends on: the   *)
(* balances are checked (validateAssetsBalance, true by default), and      *)
(* nobody has one at an address without a contract.  Without the check an  *)
(* address that no contract answers for would be in the batch as well.     *)
(***************************************************************************)
THEOREM SentTheorem == SdkSpec => []SentAsNamed
  <1>1. SdkIInv => SentAsNamed
    BY SentByBatch DEF SdkIInv
  <1> QED BY <1>1, SdkAlways, PTL

=================================================================================
