-------------------------- MODULE CrossChainSend_proofs --------------------------
(***************************************************************************)
(* CrossChainSend for any number of concurrent calls, any requests and     *)
(* chunk size: a call that returns has sent everything, and the ids it     *)
(* holds are those of its linkers' operations.  The invariant Sending says *)
(* how what was sent and the results go together on the way; Waiting that  *)
(* a call with waitOptions of its own is checked against its own linkers.  *)
(***************************************************************************)
EXTENDS CrossChainSend, SequenceTheorems, FiniteSetTheorems, TLAPS

USE SendAssumption

Pcs == {"send", "judge", "track", "wait", "returned", "threw"}

Shape ==
    /\ request \in [Calls -> Requests]
    /\ pc \in [Calls -> Pcs]
    /\ sent \in [Calls -> Nat] /\ \A c \in Calls : sent[c] <= Total(c)
    /\ results \in [Calls -> Seq(BOOLEAN)]

\* Who is judged by the first result sends everything at once.
AtOnce(c) == ~Batch(c) /\ ~TonConnect(c)

Sending ==
    /\ Shape
    /\ \A c \in Calls : pc[c] = "send" /\ AtOnce(c) => sent[c] = 0 /\ results[c] = <<>>

\* Single transactions are sent by wallets.
SinglesByWallet == \A r \in Requests : r.kind = "single" => r.sender = "wallet"

SentInv ==
    /\ Sending
    /\ \A c \in Calls : pc[c] = "judge" => sent[c] = Total(c) \/ ~Succeeded(c)
    /\ \A c \in Calls : pc[c] \in {"track", "wait", "returned"} => sent[c] = Total(c)

\* Calls with waitOptions of their own.
Waiting ==
    /\ successCheck \in [Calls -> Calls \cup {NoCall}]
    /\ \A c \in Calls : /\ successCheck[c] \in {NoCall, c}
                        /\ pc[c] = "wait" => successCheck[c] = c

Learned == \A op \in known : \E c \in Calls : \E i \in Linkers(c) : op = Operation(c, i)

IdsInv ==
    /\ Sending /\ Waiting /\ Learned
    /\ \A c \in Calls : Len(ids[c]) \in {0, Len(request[c].shards)}
    /\ DOMAIN ids = Calls
    /\ IdsBelongToLinkers

-------------------------------------------------------------------------------
(* Lemmas *)

LEMMA MinOfTwo ==
  ASSUME NEW a \in Nat, NEW b \in Nat
  PROVE  Min({a, b}) = IF a <= b THEN a ELSE b
  BY DEF Min

\* One failure more is a failure.
LEMMA FailureCounts ==
  ASSUME NEW s \in Seq(BOOLEAN)
  PROVE  LET t == Append(s, FALSE)
         IN  /\ ~(\A k \in 1..Len(t) : t[k])
             /\ s = <<>> => ~t[1]
  <1> DEFINE t == Append(s, FALSE)
             n == Len(s)
  <1>1. n \in Nat
    BY LenProperties
  <1>2. FALSE \in BOOLEAN
    OBVIOUS
  <1>3. Len(t) = n + 1 /\ t[n + 1] = FALSE
    BY <1>2, AppendProperties, Zenon
  <1> HIDE DEF t, n
  <1>4. n + 1 \in 1..Len(t)
    BY <1>1, <1>3
  <1>5. ~(\A k \in 1..Len(t) : t[k])
    BY <1>3, <1>4, Zenon
  <1>6. ASSUME s = <<>> PROVE ~t[1]
    <2>1. n = 0
      BY <1>6, EmptySeq DEF n
    <2>2. n + 1 = 1
      BY <2>1
    <2> QED
      BY <1>3, <2>2, Zenon
  <1> QED
    BY <1>5, <1>6 DEF t

LEMMA TotalIs ==
  ASSUME Shape, NEW c \in Calls
  PROVE  Total(c) \in Nat /\ request[c] \in Requests
  BY DEF Shape, Total

\* What is handed over at a time.
LEMMA ChunkIs ==
  ASSUME Sending, NEW c \in Calls, pc[c] = "send"
  PROVE  /\ sent[c] + NextChunk(c) \in Nat /\ sent[c] + NextChunk(c) <= Total(c)
         /\ AtOnce(c) => sent[c] + NextChunk(c) = Total(c)
  <1>1. Total(c) \in Nat /\ sent[c] \in Nat /\ sent[c] <= Total(c)
    BY TotalIs DEF Sending, Shape
  <1>2. CASE AtOnce(c)
    BY <1>1, <1>2 DEF AtOnce, NextChunk, Sending
  <1>3. CASE ~AtOnce(c)
    <2>1. NextChunk(c) = Min({ChunkSize, Total(c) - sent[c]})
      BY <1>3 DEF AtOnce, NextChunk
    <2>2. Total(c) - sent[c] \in Nat
      BY <1>1
    <2>3. NextChunk(c) \in Nat /\ NextChunk(c) <= Total(c) - sent[c]
      BY <2>1, <2>2, MinOfTwo, SMTT(30)
    <2> QED
      BY <1>1, <1>3, <2>3
  <1> QED
    BY <1>2, <1>3

-------------------------------------------------------------------------------
(* Sending *)

LEMMA InitSending == Init => Sending
  <1> SUFFICES ASSUME Init PROVE Sending
    OBVIOUS
  <1>1. request \in [Calls -> Requests]
    BY DEF Init
  <1>2. \A c \in Calls : Total(c) \in Nat
    BY <1>1 DEF Total
  <1>3. <<>> \in Seq(BOOLEAN)
    BY EmptySeq
  <1> QED
    BY <1>1, <1>2, <1>3 DEF Init, Sending, Shape, Pcs

\* A chunk is handed over, and may or may not be sent.
LEMMA HandOver ==
  ASSUME Sending, NEW c \in Calls, pc[c] = "send", NEW ok \in {TRUE, FALSE}, NEW more \in Nat,
         NEW next \in {"send", "judge"}, more <= Total(c),
         sent' = [sent EXCEPT ![c] = more],
         results' = [results EXCEPT ![c] = Append(@, ok)],
         pc' = [pc EXCEPT ![c] = next], AtOnce(c) => next = "judge", UNCHANGED request
  PROVE  Sending'
  <1>1. /\ request' = request /\ pc' \in [Calls -> Pcs] /\ sent' \in [Calls -> Nat]
        /\ \A d \in Calls : Total(d)' = Total(d)
    BY DEF Sending, Shape, Pcs, Total
  <1>2. results' \in [Calls -> Seq(BOOLEAN)]
    <2>1. results[c] \in Seq(BOOLEAN) /\ ok \in BOOLEAN
      BY DEF Sending, Shape
    <2>2. Append(results[c], ok) \in Seq(BOOLEAN)
      BY <2>1, AppendProperties, Zenon
    <2> DEFINE new == Append(results[c], ok)
    <2>3. results' = [results EXCEPT ![c] = new]
      OBVIOUS
    <2> HIDE DEF new
    <2> QED
      BY <2>2, <2>3, Zenon DEF new, Sending, Shape
  <1>3. \A d \in Calls : sent'[d] <= Total(d)'
    BY <1>1 DEF Sending, Shape
  <1>4. ASSUME NEW d \in Calls, pc'[d] = "send", AtOnce(d)'
        PROVE  sent'[d] = 0 /\ results'[d] = <<>>
    <2>1. AtOnce(d)
      BY <1>1, <1>4 DEF AtOnce, Batch, TonConnect
    <2>2. d # c
      BY <1>4, <2>1 DEF Sending, Shape
    <2>3. pc[d] = "send" /\ sent'[d] = sent[d]
      BY <1>4, <2>2 DEF Sending, Shape
    <2>4. results'[d] = results[d]
      BY <2>2, Zenon DEF Sending, Shape
    <2> QED
      BY <2>1, <2>3, <2>4 DEF Sending
  <1> QED
    BY <1>1, <1>2, <1>3, <1>4 DEF Sending, Shape

\* The steps after it.
LEMMA AfterSending ==
  ASSUME Sending, NEW c \in Calls, pc[c] # "send", NEW next \in Pcs \ {"send"},
         pc' = [pc EXCEPT ![c] = next], UNCHANGED <<request, sent, results>>
  PROVE  Sending'
  <1>1. pc' \in [Calls -> Pcs] /\ \A d \in Calls : pc'[d] = "send" => pc[d] = "send"
    BY DEF Sending, Shape
  <1>2. \A d \in Calls : Total(d)' = Total(d) /\ (AtOnce(d)' <=> AtOnce(d))
    BY DEF Total, AtOnce, Batch, TonConnect
  <1> QED
    BY <1>1, <1>2 DEF Sending, Shape

LEMMA SendChunkIs ==
  ASSUME Sending, NEW c \in Calls, SendChunk(c)
  PROVE  /\ Sending' /\ pc[c] = "send"
         /\ pc' = [pc EXCEPT ![c] = IF sent'[c] = Total(c) THEN "judge" ELSE "send"]
         /\ sent' = [sent EXCEPT ![c] = sent[c] + NextChunk(c)]
         /\ UNCHANGED <<request, successCheck, known, ids>>
  <1> DEFINE more == sent[c] + NextChunk(c)
             next == IF more = Total(c) THEN "judge" ELSE "send"
  <1>1. /\ pc[c] = "send" /\ sent' = [sent EXCEPT ![c] = more]
        /\ results' = [results EXCEPT ![c] = Append(@, TRUE)]
        /\ pc' = [pc EXCEPT ![c] = IF sent'[c] = Total(c) THEN "judge" ELSE "send"]
        /\ UNCHANGED <<request, successCheck, known, ids>>
    BY DEF SendChunk
  <1>2. sent'[c] = more
    BY <1>1 DEF Sending, Shape
  <1>3. more \in Nat /\ more <= Total(c) /\ (AtOnce(c) => more = Total(c))
    BY <1>1, ChunkIs
  <1>4. pc' = [pc EXCEPT ![c] = next]
    BY <1>1, <1>2
  <1>5. next \in {"send", "judge"} /\ (AtOnce(c) => next = "judge")
    BY <1>3
  <1> HIDE DEF more, next
  <1>6. Sending'
    BY <1>1, <1>3, <1>4, <1>5, HandOver, Zenon
  <1> QED
    BY <1>1, <1>6 DEF more

LEMMA SendFailsIs ==
  ASSUME Sending, NEW c \in Calls, SendFails(c)
  PROVE  /\ Sending' /\ pc[c] = "send" /\ pc' = [pc EXCEPT ![c] = "judge"]
         /\ results' = [results EXCEPT ![c] = Append(@, FALSE)]
         /\ \A d \in Calls : d # c => sent'[d] = sent[d]
         /\ UNCHANGED <<request, successCheck, known, ids>>
  <1>1. /\ pc[c] = "send" /\ pc' = [pc EXCEPT ![c] = "judge"]
        /\ results' = [results EXCEPT ![c] = Append(@, FALSE)]
        /\ UNCHANGED <<request, successCheck, known, ids>>
    BY DEF SendFails
  <1>2. PICK more \in {sent[c], sent[c] + NextChunk(c)} : sent' = [sent EXCEPT ![c] = more]
    <2>1. sent = [sent EXCEPT ![c] = sent[c]]
      BY DEF Sending, Shape
    <2> QED
      BY <2>1 DEF SendFails
  <1>3. more \in Nat /\ more <= Total(c)
    BY <1>1, ChunkIs DEF Sending, Shape
  <1>4. Sending'
    BY <1>1, <1>2, <1>3, HandOver, Zenon
  <1>5. \A d \in Calls : d # c => sent'[d] = sent[d]
    BY <1>2 DEF Sending, Shape
  <1> QED
    BY <1>1, <1>4, <1>5

\* The steps of the manager after the sender's, and of the sequencer.
LEMMA ManagerIs ==
  ASSUME Sending, NEW c \in Calls, Judge(c) \/ Track(c) \/ Resolve(c) \/ GiveUp(c)
  PROVE  /\ Sending' /\ pc[c] \in {"judge", "track", "wait"}
         /\ \E next \in {"track", "wait", "returned", "threw"} : pc' = [pc EXCEPT ![c] = next]
         /\ UNCHANGED <<request, sent, results, known>>
         /\ pc[c] = "judge" => Judge(c)
  <1>1. /\ pc[c] \in {"judge", "track", "wait"} /\ UNCHANGED <<request, sent, results, known>>
        /\ pc[c] = "judge" => Judge(c)
    BY DEF Judge, Track, Resolve, GiveUp
  <1>2. PICK next \in {"track", "wait", "returned", "threw"} : pc' = [pc EXCEPT ![c] = next]
    <2>1. \/ pc' = [pc EXCEPT ![c] = "track"] \/ pc' = [pc EXCEPT ![c] = "wait"]
          \/ pc' = [pc EXCEPT ![c] = "returned"] \/ pc' = [pc EXCEPT ![c] = "threw"]
      BY DEF Judge, Track, Resolve, GiveUp, EnterWait
    <2> QED
      BY <2>1
  <1>3. Sending'
    <2>1. next \in Pcs \ {"send"} /\ pc[c] # "send"
      BY <1>1 DEF Pcs
    <2> QED
      BY <1>1, <1>2, <2>1, AfterSending
  <1> QED
    BY <1>1, <1>2, <1>3

LEMMA LearnIs ==
  ASSUME Sending, NEW c \in Calls, NEW i \in Linkers(c), Learn(c, i)
  PROVE  /\ Sending' /\ known' = known \cup {Operation(c, i)}
         /\ UNCHANGED <<request, pc, sent, results, successCheck, ids>>
  <1>1. /\ UNCHANGED <<request, pc, sent, results, successCheck, ids>>
        /\ known' = known \cup {Operation(c, i)}
    BY DEF Learn
  <1> QED
    BY <1>1 DEF Sending, Shape, Total, AtOnce, Batch, TonConnect

LEMMA SentStep ==
  ASSUME SinglesByWallet, SentInv, NEW c \in Calls,
         CallStep(c) \/ \E i \in Linkers(c) : Learn(c, i)
  PROVE  SentInv'
  <1> USE DEF SentInv
  <1>1. CASE SendChunk(c)
    <2>1. /\ Sending' /\ request' = request
          /\ pc' = [pc EXCEPT ![c] = IF sent'[c] = Total(c) THEN "judge" ELSE "send"]
          /\ sent' = [sent EXCEPT ![c] = sent[c] + NextChunk(c)]
          /\ results' = [results EXCEPT ![c] = Append(@, TRUE)]
      BY <1>1, SendChunkIs DEF SendChunk
    <2>2. pc \in [Calls -> Pcs] /\ sent \in [Calls -> Nat] /\ results \in [Calls -> Seq(BOOLEAN)]
      BY DEF Sending, Shape
    <2>3. \A d \in Calls : Total(d)' = Total(d)
      BY <2>1 DEF Total
    <2>4. pc'[c] \in {"send", "judge"} /\ (pc'[c] = "judge" => sent'[c] = Total(c))
      BY <2>1, <2>2
    <2>5. ASSUME NEW d \in Calls, d # c
          PROVE  /\ pc'[d] = pc[d] /\ sent'[d] = sent[d]
      BY <2>1, <2>2, <2>5
    <2>6. ASSUME NEW d \in Calls, d # c
          PROVE  Succeeded(d)' <=> Succeeded(d)
      <3>1. results'[d] = results[d]
        BY <2>1, <2>2, <2>6, Zenon
      <3> QED
        BY <2>1, <3>1, Zenon DEF Succeeded, Batch
    <2>7. \A d \in Calls : pc'[d] = "judge" => sent'[d] = Total(d)' \/ ~Succeeded(d)'
      <3> HIDE DEF Succeeded
      <3> QED
        BY <2>3, <2>4, <2>5, <2>6
    <2>8. \A d \in Calls : pc'[d] \in {"track", "wait", "returned"} => sent'[d] = Total(d)'
      BY <2>3, <2>4, <2>5
    <2> QED
      BY <2>1, <2>7, <2>8
  <1>2. CASE SendFails(c)
    <2>1. /\ Sending' /\ request' = request /\ pc[c] = "send"
          /\ pc' = [pc EXCEPT ![c] = "judge"]
          /\ \A d \in Calls : d # c => sent'[d] = sent[d]
          /\ results' = [results EXCEPT ![c] = Append(@, FALSE)]
      BY <1>2, SendFailsIs
    <2>2. pc \in [Calls -> Pcs] /\ results \in [Calls -> Seq(BOOLEAN)]
      BY DEF Sending, Shape
    <2>3. \A d \in Calls : Total(d)' = Total(d)
      BY <2>1 DEF Total
    <2>4. ~Succeeded(c)'
      <3> DEFINE t == Append(results[c], FALSE)
      <3>1. /\ ~(\A k \in 1..Len(t) : t[k])
            /\ results[c] = <<>> => ~t[1]
        BY <2>2, FailureCounts, Zenon
      <3>2. results'[c] = t
        BY <2>1, <2>2, Zenon
      <3>3. Batch(c)' <=> Batch(c)
        BY <2>1 DEF Batch
      <3>4. CASE Batch(c)
        BY <3>1, <3>2, <3>3, <3>4, Zenon DEF Succeeded
      <3>5. CASE ~Batch(c)
        <4>1. AtOnce(c)
          BY <3>5 DEF AtOnce, Batch, TonConnect, Sending, Shape, SinglesByWallet, SendAssumption
        <4>2. results[c] = <<>>
          BY <2>1, <4>1 DEF Sending
        <4> QED
          BY <3>1, <3>2, <3>3, <3>5, <4>2, Zenon DEF Succeeded
      <3> QED
        BY <3>4, <3>5
    <2>5. ASSUME NEW d \in Calls, d # c
          PROVE  pc'[d] = pc[d]
      BY <2>1, <2>2, <2>5
    <2>6. ASSUME NEW d \in Calls, d # c
          PROVE  Succeeded(d)' <=> Succeeded(d)
      <3>1. results'[d] = results[d]
        BY <2>1, <2>2, <2>6, Zenon
      <3> QED
        BY <2>1, <3>1, Zenon DEF Succeeded, Batch
    <2>7. pc'[c] = "judge"
      BY <2>1, <2>2
    <2>8. \A d \in Calls : pc'[d] = "judge" => sent'[d] = Total(d)' \/ ~Succeeded(d)'
      BY <2>1, <2>3, <2>4, <2>5, <2>6
    <2>9. \A d \in Calls : pc'[d] \in {"track", "wait", "returned"} => sent'[d] = Total(d)'
      BY <2>1, <2>3, <2>5, <2>7
    <2> QED
      BY <2>1, <2>8, <2>9
  <1>3. CASE Judge(c) \/ Track(c) \/ Resolve(c) \/ GiveUp(c)
    <2>1. /\ Sending' /\ pc[c] \in {"judge", "track", "wait"}
          /\ UNCHANGED <<request, sent, results>> /\ (pc[c] = "judge" => Judge(c))
      BY <1>3, ManagerIs
    <2>2. PICK next \in {"track", "wait", "returned", "threw"} : pc' = [pc EXCEPT ![c] = next]
      BY <1>3, ManagerIs
    <2>3. pc \in [Calls -> Pcs]
      BY DEF Sending, Shape
    <2>4. \A d \in Calls : /\ Total(d)' = Total(d) /\ sent'[d] = sent[d]
                           /\ Succeeded(d)' <=> Succeeded(d)
      BY <2>1, Zenon DEF Total, Succeeded, Batch
    <2>5. pc[c] = "judge" => pc'[c] = "threw" \/ Succeeded(c)
      BY <2>1, <2>3, Zenon DEF Judge
    <2>6. pc'[c] = next /\ \A d \in Calls : d # c => pc'[d] = pc[d]
      BY <2>2, <2>3
    <2>7. pc'[c] # "threw" => sent[c] = Total(c)
      BY <2>1, <2>5
    <2> QED
      BY <2>1, <2>4, <2>6, <2>7
  <1>4. ASSUME NEW i \in Linkers(c), Learn(c, i) PROVE SentInv'
    <2>1. Sending' /\ UNCHANGED <<request, pc, sent, results>>
      BY <1>4, LearnIs
    <2>2. \A d \in Calls : /\ Total(d)' = Total(d)
                           /\ Succeeded(d)' <=> Succeeded(d)
      BY <2>1, Zenon DEF Total, Succeeded, Batch
    <2> QED
      BY <2>1, <2>2
  <1> QED
    BY <1>1, <1>2, <1>3, <1>4 DEF CallStep, SendSettles, WaitSettles

-------------------------------------------------------------------------------
(* Ids *)

\* Linkers have different keys when there are as many keys.
LEMMA KeysDiffer ==
  ASSUME Sending, NEW c \in Calls, Cardinality(Keys(c)) = Len(request[c].shards),
         NEW i \in Linkers(c), NEW j \in Linkers(c), Key(c, i) = Key(c, j)
  PROVE  i = j
  <1> DEFINE n == Len(request[c].shards)
             f == [k \in 1..n |-> Key(c, k)]
  <1>1. n \in Nat
    BY TotalIs, LenProperties DEF Sending
  <1>2. IsFiniteSet(1..n) /\ Cardinality(1..n) = n
    <2> HIDE DEF n
    <2>1. 1 \in Int /\ n \in Int
      BY <1>1
    <2>2. IsFiniteSet(1..n) /\ Cardinality(1..n) = IF 1 > n THEN 0 ELSE n - 1 + 1
      BY <2>1, FS_Interval, Zenon
    <2> QED
      BY <1>1, <2>2
  <1>3. Keys(c) = {Key(c, k) : k \in 1..n}
    BY DEF Keys, Linkers
  <1>4. f \in Surjection(1..n, Keys(c))
    BY <1>3 DEF Surjection
  <1>5. f \in Injection(1..n, Keys(c))
    BY <1>2, <1>4, FS_Surjection
  <1> QED
    BY <1>5 DEF Injection, IsInjective, Linkers

\* An id that is found under the key of a linker is that of its operation.
LEMMA FoundIs ==
  ASSUME Sending, Learned, NEW c \in Calls, Cardinality(Keys(c)) = Len(request[c].shards),
         NEW i \in Linkers(c), NEW op \in Found(Key(c, i))
  PROVE  op = Operation(c, i)
  <1>1. op \in known /\ Key(op.call, op.tx) = Key(c, i)
    BY DEF Found
  <1>2. PICK d \in Calls : \E j \in Linkers(d) : op = Operation(d, j)
    BY <1>1 DEF Learned
  <1>3. PICK j \in Linkers(d) : op = Operation(d, j)
    BY <1>2
  <1>4. op.call = d /\ op.tx = j
    BY <1>3 DEF Operation
  <1>5. d = c /\ Key(c, j) = Key(c, i)
    BY <1>1, <1>4 DEF Key
  <1> QED
    BY <1>5, <1>3, KeysDiffer

\* A list that fits in one chunk is answered as a whole.
LEMMA OneChunk ==
  ASSUME Sending, NEW c \in Calls, Len(request[c].shards) <= KeyChunk
  PROVE  LastKeys(c) = Keys(c)
  <1> DEFINE n == Len(request[c].shards)
             before == ((n - 1) \div KeyChunk) * KeyChunk
  <1>1. n \in Nat /\ request[c] \in Requests
    BY TotalIs, LenProperties DEF Sending
  <1>2. LastKeys(c) = {Key(c, i) : i \in (before + 1)..n} /\ Keys(c) = {Key(c, i) : i \in 1..n}
    BY DEF LastKeys, Keys, Linkers
  <1>3. n <= KeyChunk
    OBVIOUS
  <1>a. n # 0
    <2>1. request[c].shards \in Seq(Nat \ {0}) /\ request[c].shards # <<>>
      BY <1>1, SendAssumption
    <2> QED
      BY <2>1, EmptySeq
  <1> HIDE DEF n
  <1>4. n - 1 \in 0..(KeyChunk - 1) /\ KeyChunk \in Nat \ {0}
    BY <1>1, <1>3, <1>a, SendAssumption
  <1>5. (n - 1) \div KeyChunk = 0
    BY <1>1, <1>4
  <1>6. before = 0
    BY <1>5, <1>4
  <1> QED
    BY <1>2, <1>6

\* What Resolve assigns.
LEMMA AssignedIs ==
  ASSUME ~SameObject, IdsInv, NEW c \in Calls, pc[c] = "wait", Passes(c), NEW f \in Assignments(c)
  PROVE  /\ Len(f) \in {0, Len(request[c].shards)}
         /\ f # <<>> => \A i \in Linkers(c) : f[i] = Operation(c, i)
  <1> DEFINE n == Len(request[c].shards)
  <1>1. n \in Nat /\ request[c] \in Requests
    BY TotalIs, LenProperties DEF IdsInv, Sending
  <1>2. CASE ~Batch(c)
    <2>1. n = 1
      BY <1>1, <1>2 DEF Batch
    <2>2. f = <<Operation(c, 1)>>
      BY <1>2 DEF Assignments
    <2> QED
      BY <2>1, <2>2 DEF Linkers
  <1>3. CASE Batch(c) /\ Answered(c) # Keys(c)
    BY <1>3 DEF Assignments
  <1>4. CASE Batch(c) /\ Answered(c) = Keys(c)
    <2>1. successCheck[c] = c /\ ObjectOf(c) = c
      BY DEF IdsInv, Waiting, ObjectOf
    <2>2. Cardinality(Keys(c)) = n
      BY <1>4, <2>1 DEF Passes, Expected
    <2>3. f \in [1..n -> known] /\ \A i \in Linkers(c) : f[i] \in Found(Key(c, i))
      BY <1>4 DEF Assignments, Linkers
    <2>4. Len(f) = n
      BY <1>1, <2>3, IsASeq, LenProperties
    <2> QED
      BY <2>2, <2>3, <2>4, FoundIs DEF IdsInv
  <1> QED
    BY <1>2, <1>3, <1>4

\* A step of c that leaves the ids alone, and sets no check but its own.
LEMMA IdsKept ==
  ASSUME ~SameObject, IdsInv, NEW c \in Calls, Sending', NEW next,
         pc' = [pc EXCEPT ![c] = next], UNCHANGED <<request, known, ids>>,
         \/ next # "wait" /\ UNCHANGED successCheck
         \/ successCheck' = CheckAfter(c)
  PROVE  IdsInv'
  <1> USE DEF IdsInv
  <1>1. pc \in [Calls -> Pcs] /\ \A d \in Calls : ObjectOf(d) = d
    BY DEF Sending, Shape, ObjectOf
  <1>2. \A d \in Calls : d # c => pc'[d] = pc[d]
    BY <1>1
  <1>3. pc'[c] = next
    BY <1>1
  <1>4. Waiting'
    <2>1. CASE next # "wait" /\ UNCHANGED successCheck
      BY <1>2, <1>3, <2>1 DEF Waiting
    <2>2. CASE successCheck' = CheckAfter(c)
      <3>1. successCheck' = [successCheck EXCEPT ![c] = IF @ = NoCall THEN c ELSE @]
        BY <1>1, <2>2 DEF CheckAfter
      <3>2. successCheck[c] \in {NoCall, c}
        BY DEF Waiting
      <3>3. successCheck' = [successCheck EXCEPT ![c] = c]
        BY <3>1, <3>2
      <3> QED
        BY <1>2, <3>3 DEF Waiting
    <2> QED
      BY <2>1, <2>2
  <1>5. Learned' /\ IdsBelongToLinkers'
    BY DEF Learned, IdsBelongToLinkers, Linkers
  <1> QED
    BY <1>4, <1>5

LEMMA IdsStep ==
  ASSUME ~SameObject, IdsInv, NEW c \in Calls,
         CallStep(c) \/ \E i \in Linkers(c) : Learn(c, i)
  PROVE  IdsInv'
  <1>0. Sending /\ pc \in [Calls -> Pcs]
    BY DEF IdsInv, Sending, Shape
  <1>1. CASE SendChunk(c)
    <2>1. /\ Sending' /\ UNCHANGED <<request, successCheck, known, ids>>
          /\ pc' = [pc EXCEPT ![c] = IF sent'[c] = Total(c) THEN "judge" ELSE "send"]
      BY <1>0, <1>1, SendChunkIs
    <2> DEFINE next == IF sent'[c] = Total(c) THEN "judge" ELSE "send"
    <2>2. next # "wait" /\ pc' = [pc EXCEPT ![c] = next]
      BY <2>1
    <2> HIDE DEF next
    <2> QED
      BY <2>1, <2>2, IdsKept
  <1>2. CASE SendFails(c)
    <2>1. /\ Sending' /\ UNCHANGED <<request, successCheck, known, ids>>
          /\ pc' = [pc EXCEPT ![c] = "judge"]
      BY <1>0, <1>2, SendFailsIs
    <2> QED
      BY <2>1, IdsKept
  <1>3. CASE Judge(c) \/ Track(c) \/ GiveUp(c)
    <2>1. Sending' /\ UNCHANGED <<request, known>>
      BY <1>0, <1>3, ManagerIs
    <2>2. /\ UNCHANGED ids
          /\ \/ EnterWait(c)
             \/ pc' = [pc EXCEPT ![c] = "threw"] /\ UNCHANGED successCheck
             \/ pc' = [pc EXCEPT ![c] = "returned"] /\ UNCHANGED successCheck
             \/ pc' = [pc EXCEPT ![c] = "track"] /\ UNCHANGED successCheck
      BY <1>3 DEF Judge, Track, GiveUp
    <2>3. CASE EnterWait(c)
      BY <2>1, <2>2, <2>3, IdsKept DEF EnterWait
    <2>4. CASE pc' = [pc EXCEPT ![c] = "threw"] /\ UNCHANGED successCheck
      BY <2>1, <2>2, <2>4, IdsKept
    <2>5. CASE pc' = [pc EXCEPT ![c] = "returned"] /\ UNCHANGED successCheck
      BY <2>1, <2>2, <2>5, IdsKept
    <2>6. CASE pc' = [pc EXCEPT ![c] = "track"] /\ UNCHANGED successCheck
      BY <2>1, <2>2, <2>6, IdsKept
    <2> QED
      BY <2>2, <2>3, <2>4, <2>5, <2>6
  <1>4. CASE Resolve(c)
    <2>1. Sending' /\ UNCHANGED <<request, known>>
      BY <1>0, <1>4, ManagerIs
    <2>2. PICK f \in Assignments(c) : ids' = [ids EXCEPT ![c] = f]
      BY <1>4 DEF Resolve
    <2>3. /\ pc[c] = "wait" /\ Passes(c) /\ pc' = [pc EXCEPT ![c] = "returned"]
          /\ UNCHANGED successCheck
      BY <1>4 DEF Resolve
    <2>4. /\ Len(f) \in {0, Len(request[c].shards)}
          /\ f # <<>> => \A i \in Linkers(c) : f[i] = Operation(c, i)
      BY <2>3, AssignedIs
    <2>5. /\ DOMAIN ids' = Calls
          /\ \A d \in Calls : Len(ids'[d]) \in {0, Len(request[d].shards)}
      BY <2>2, <2>4 DEF IdsInv
    <2>6. IdsBelongToLinkers'
      BY <2>1, <2>2, <2>4 DEF IdsInv, IdsBelongToLinkers, Linkers
    <2>7. Waiting'
      BY <1>0, <2>3 DEF IdsInv, Waiting
    <2>8. Learned'
      BY <2>1 DEF IdsInv, Learned, Linkers
    <2> QED
      BY <2>1, <2>5, <2>6, <2>7, <2>8 DEF IdsInv
  <1>5. ASSUME NEW i \in Linkers(c), Learn(c, i) PROVE IdsInv'
    <2>1. /\ Sending' /\ known' = known \cup {Operation(c, i)}
          /\ UNCHANGED <<request, pc, sent, results, successCheck, ids>>
      BY <1>0, <1>5, LearnIs
    <2>2. Learned'
      BY <2>1, <1>5 DEF IdsInv, Learned, Linkers
    <2>3. Waiting' /\ IdsBelongToLinkers'
      BY <2>1 DEF IdsInv, Waiting, IdsBelongToLinkers, Linkers
    <2> QED
      BY <2>1, <2>2, <2>3 DEF IdsInv
  <1> QED
    BY <1>1, <1>2, <1>3, <1>4, <1>5 DEF CallStep, SendSettles, WaitSettles

LEMMA IdsMeans ==
  ASSUME ~SameObject, IdsInv
  PROVE  CallInv /\ CompleteAnswerPasses
  <1> USE DEF IdsInv
  <1>1. \A c \in Calls : ObjectOf(c) = c
    BY DEF ObjectOf
  <1>2. TypeOK
    <2>1. pc \in [Calls -> {"send", "judge", "track", "wait", "returned", "threw"}]
      BY DEF Sending, Shape, Pcs
    <2>2. ASSUME NEW c \in Calls
          PROVE  /\ sent[c] \in 0..Total(c) /\ results[c] \in Seq(BOOLEAN)
                 /\ Len(ids[c]) \in {0, Len(request[c].shards)}
                 /\ pc[c] = "wait" => successCheck[ObjectOf(c)] \in Calls
      <3>1. Total(c) \in Nat /\ sent[c] \in Nat /\ sent[c] <= Total(c)
        BY TotalIs DEF Sending, Shape
      <3>2. results[c] \in Seq(BOOLEAN)
        BY DEF Sending, Shape
      <3>3. pc[c] = "wait" => successCheck[ObjectOf(c)] \in Calls
        BY <1>1 DEF Waiting
      <3> QED
        BY <3>1, <3>2, <3>3
    <2>3. \A op \in known : op.call \in Calls /\ op.tx \in Linkers(op.call)
      BY DEF Learned, Operation
    <2> QED
      BY <2>1, <2>2, <2>3 DEF TypeOK
  <1>3. CompleteAnswerPasses
    <2> SUFFICES ASSUME NEW c \in Calls, pc[c] = "wait",
                        \A i \in Linkers(c) : Operation(c, i) \in known,
                        Cardinality(Keys(c)) = Len(request[c].shards),
                        Len(request[c].shards) <= KeyChunk
                 PROVE  Passes(c)
      BY DEF CompleteAnswerPasses
    <2>1. CASE ~Batch(c)
      <3>1. request[c] \in Requests
        BY TotalIs DEF Sending
      <3>2. 1 \in Linkers(c)
        <4>1. Len(request[c].shards) = 1
          BY <2>1, <3>1, SendAssumption DEF Batch
        <4> QED
          BY <4>1 DEF Linkers
      <3> QED
        BY <2>1, <3>2 DEF Passes
    <2>2. CASE Batch(c)
      <3>1. ASSUME NEW i \in Linkers(c) PROVE Found(Key(c, i)) # {}
        <4> DEFINE op == Operation(c, i)
        <4>1. op \in known /\ op.call = c /\ op.tx = i
          BY DEF Operation
        <4> HIDE DEF op
        <4>2. Key(op.call, op.tx) = Key(c, i)
          BY <4>1
        <4> QED
          BY <4>1, <4>2 DEF Found
      <3>2. Answered(c) = Keys(c)
        <4>1. LastKeys(c) = Keys(c)
          BY OneChunk DEF Sending
        <4> QED
          BY <3>1, <4>1 DEF Answered, Keys
      <3>3. Expected(c) = Len(request[c].shards)
        BY <1>1 DEF Expected, Waiting
      <3> QED
        BY <2>2, <3>2, <3>3 DEF Passes
    <2> QED
      BY <2>1, <2>2
  <1> QED
    BY <1>2, <1>3 DEF CallInv

-------------------------------------------------------------------------------
(* Theorems *)

(***************************************************************************)
(* A call that returns has put all its messages on the network, provided   *)
(* that TonConnect, which judges a single transaction by its first chunk,  *)
(* is not asked for one.                                                   *)
(***************************************************************************)
THEOREM SentTheorem == SinglesByWallet => (Spec => []ReturnedMeansSent)
  <1> SUFFICES ASSUME SinglesByWallet PROVE Spec => []ReturnedMeansSent
    OBVIOUS
  <1>1. Init => SentInv
    BY InitSending DEF Init, SentInv
  <1>2. SentInv /\ [Next]_vars => SentInv'
    <2>1. ASSUME SentInv, Next PROVE SentInv'
      BY <2>1, SentStep DEF Next
    <2>2. ASSUME SentInv, UNCHANGED vars PROVE SentInv'
      <3>1. UNCHANGED <<request, pc, sent, results>>
        BY <2>2 DEF vars
      <3>2. \A c \in Calls : /\ Total(c)' = Total(c)
                             /\ Succeeded(c)' <=> Succeeded(c)
        BY <3>1, Zenon DEF Total, Succeeded, Batch
      <3>3. Sending'
        BY <2>2, <3>1 DEF SentInv, Sending, Shape, Total, AtOnce, Batch, TonConnect
      <3> QED
        BY <2>2, <3>1, <3>2, <3>3 DEF SentInv
    <2> QED
      BY <2>1, <2>2
  <1>3. SentInv => ReturnedMeansSent
    BY DEF SentInv, ReturnedMeansSent
  <1> QED
    BY <1>1, <1>2, <1>3, PTL DEF Spec

\* As long as each call has an object of its own.
LEMMA SpecIdsInv == ~SameObject => (Spec => []IdsInv)
  <1> SUFFICES ASSUME ~SameObject PROVE Spec => []IdsInv
    OBVIOUS
  <1>1. Init => IdsInv
    <2> SUFFICES ASSUME Init PROVE IdsInv
      OBVIOUS
    <2>1. \A c \in Calls : ObjectOf(c) = c
      BY DEF ObjectOf
    <2>2. successCheck = [c \in Calls |-> NoCall] /\ \A c \in Calls : pc[c] # "wait"
      BY <2>1 DEF Init, Objects
    <2>3. Waiting
      BY <2>2 DEF Waiting
    <2>4. Len(<<>>) = 0
      BY EmptySeq
    <2> QED
      BY <2>3, <2>4, InitSending DEF Init, IdsInv, Learned, IdsBelongToLinkers
  <1>2. IdsInv /\ [Next]_vars => IdsInv'
    <2>1. ASSUME IdsInv, Next PROVE IdsInv'
      BY <2>1, IdsStep DEF Next
    <2>2. ASSUME IdsInv, UNCHANGED vars PROVE IdsInv'
      <3>1. UNCHANGED <<request, pc, sent, results, successCheck, known, ids>>
        BY <2>2 DEF vars
      <3>2. Sending'
        BY <2>2, <3>1 DEF IdsInv, Sending, Shape, Total, AtOnce, Batch, TonConnect
      <3>3. Waiting' /\ Learned' /\ IdsBelongToLinkers'
        BY <2>2, <3>1 DEF IdsInv, Waiting, Learned, IdsBelongToLinkers, Linkers
      <3> QED
        BY <2>2, <3>1, <3>2, <3>3 DEF IdsInv
    <2> QED
      BY <2>1, <2>2
  <1> QED
    BY <1>1, <1>2, PTL DEF Spec

(***************************************************************************)
(* The ids that a call holds are those of its own operations: that of the  *)
(* transaction linker i is the i-th, whatever the other calls are waiting  *)
(* for, if each call is given waitOptions of its own.                      *)
(***************************************************************************)
THEOREM IdsTheorem == ~SameObject => (Spec => []CallInv)
  <1> SUFFICES ASSUME ~SameObject PROVE Spec => []CallInv
    OBVIOUS
  <1>1. IdsInv => CallInv
    BY IdsMeans
  <1> QED
    BY <1>1, SpecIdsInv, PTL

(***************************************************************************)
(* A call with waitOptions of its own, whose keys fit in one chunk of the  *)
(* request, takes an answer that is complete: its check asks for as many   *)
(* entries as it has linkers, and no more.                                 *)
(***************************************************************************)
THEOREM PassTheorem == ~SameObject => (Spec => []CompleteAnswerPasses)
  <1> SUFFICES ASSUME ~SameObject PROVE Spec => []CompleteAnswerPasses
    OBVIOUS
  <1>1. IdsInv => CompleteAnswerPasses
    BY IdsMeans
  <1> QED
    BY <1>1, SpecIdsInv, PTL
================================================================================
