------------------------ MODULE OperationTracking_proofs ------------------------
(***************************************************************************)
(* OperationTracking for any number of sequencers, any list of identifiers *)
(* and chunk size, any limits and durations: what a resolved call was      *)
(* asked for and answered with, and for how long a call goes on.  The      *)
(* invariant follows an attempt: what was asked of the clients so far, and *)
(* how many requests of the longest duration fit in its time.              *)
(***************************************************************************)
EXTENDS OperationTracking, SequenceTheorems, FiniteSetTheorems, TLAPS

USE TrackingAssumption

L == Len(call.request)
Chunks == (L + ChunkSize - 1) \div ChunkSize
Longest == Max(Durations)

\* The first n identifiers of the list.
Prefix(n) == {call.request[k] : k \in 1..n}

\* The client that was asked last gave an answer that ended the attempt.
LastIsRefused ==
    /\ asked[client] = Asked
    /\ answers # <<>> /\ call.waits
    /\ Combine(answers) = Null \/ ~Passes(Combine(answers))

\* What is so while and after clients are asked.
Progress ==
    /\ notified = 0 \/ pc = "resolved"
    /\ \A i \in 1..N : i < client => asked[i] # {}
    /\ pc = "request" => /\ asked[client] = Prefix(offset)
                         /\ \A i \in 1..N : i > client => asked[i] = {}
    /\ pc = "sleep" => ~LastAttempt
    /\ pc = "rejected" => /\ LastAttempt
                          /\ (\A i \in 1..N : asked[i] # {}) \/ LastIsRefused

\* The j-th chunk is asked from the client, and the requests before took their time.
Timing ==
    /\ startedAt <= elapsed
    /\ elapsed <= startedAt + AttemptTime
    /\ startedAt <= Timeout + Delay + AttemptTime
    /\ pc = "request" =>
           \E j \in Nat : /\ offset = j * ChunkSize
                          /\ elapsed <= startedAt + ((client - 1) * Chunks + j) * Longest

IInv == TypeOK /\ Progress /\ Timing /\ AskedForEverything /\ ResolvedMeansAnswered

-------------------------------------------------------------------------------
(* Arithmetic *)

LEMMA MinOfTwo ==
  ASSUME NEW a \in Nat, NEW b \in Nat
  PROVE  Min({a, b}) = IF a <= b THEN a ELSE b
  BY DEF Min

LEMMA LongestIs == Longest \in Nat /\ \A d \in Durations : d <= Longest
  <1> DEFINE P(x) == x \in Durations /\ \A d \in Durations : x >= d
  <1>1. PICK longest \in Durations : \A d \in Durations : d <= longest
    OBVIOUS
  <1>2. longest \in Durations /\ \A d \in Durations : longest >= d
    BY <1>1
  <1>3. Longest \in Durations /\ \A d \in Durations : Longest >= d
    BY <1>2 DEF Longest, Max
  <1> QED
    BY <1>3

\* Multiplication is monotonic.
LEMMA TimesMonotonic ==
  ASSUME NEW a \in Nat, NEW b \in Nat, NEW c \in Nat, a <= b
  PROVE  a * c \in Nat /\ b * c \in Nat /\ a * c <= b * c
  OBVIOUS

LEMMA Division ==
  ASSUME NEW l \in Nat \ {0}, NEW size \in Nat \ {0}
  PROVE  LET count == (l + size - 1) \div size
         IN  count \in Nat \ {0} /\ count * size >= l
  OBVIOUS

\* When chunk j is not behind the end of the list, there are more than j chunks.
LEMMA ChunkCount ==
  ASSUME NEW l \in Nat, NEW size \in Nat \ {0}, NEW count \in Nat, NEW j \in Nat,
         count * size >= l, j * size < l
  PROVE  j + 1 <= count
  OBVIOUS

\* The time up to the next request.
LEMMA NextRequestInTime ==
  ASSUME NEW count \in Nat, NEW long \in Nat, NEW j \in Nat, NEW i \in 1..N,
         NEW start \in Nat, NEW time \in Nat, NEW d \in Nat, d <= long, j + 1 <= count,
         time <= start + ((i - 1) * count + j) * long
  PROVE  /\ time + d <= start + ((i - 1) * count + (j + 1)) * long
         /\ time + d <= start + (i * count) * long
         /\ time + d <= start + N * count * long
  <1>1. (i - 1) * count \in Nat /\ i * count = (i - 1) * count + count
        /\ N * count \in Nat /\ i * count <= N * count /\ i * count \in Nat
    <2>1. i \in Nat /\ i - 1 \in Nat /\ N \in Nat /\ i <= N
      OBVIOUS
    <2> QED
      BY <2>1, TimesMonotonic
  <1> DEFINE before == (i - 1) * count
             here == i * count
             all == N * count
  <1> HIDE DEF before, here, all
  <1>2. before \in Nat /\ here \in Nat /\ all \in Nat /\ before + (j + 1) <= here /\ here <= all
    BY <1>1 DEF before, here, all
  <1>3. (before + (j + 1)) * long = (before + j) * long + long
    BY <1>2
  <1>4. /\ (before + j) * long \in Nat /\ here * long \in Nat /\ all * long \in Nat
        /\ (before + (j + 1)) * long <= here * long /\ here * long <= all * long
    BY <1>2, TimesMonotonic
  <1>5. time <= start + (before + j) * long
    BY DEF before
  <1> DEFINE x == (before + j) * long
             y == (before + (j + 1)) * long
             z == here * long
             w == all * long
  <1>6. x \in Nat /\ z \in Nat /\ w \in Nat /\ y = x + long /\ y <= z /\ z <= w
        /\ time <= start + x
    BY <1>3, <1>4, <1>5
  <1> HIDE DEF x, y, z, w
  <1>7. time + d <= start + y /\ time + d <= start + z /\ time + d <= start + w
    BY <1>6
  <1> QED
    BY <1>7 DEF x, y, z, w, before, here, all

-------------------------------------------------------------------------------
(* The list and its chunks *)

\* A list of n entries with n different answers has got them all.
LEMMA AllAnswered ==
  ASSUME NEW S, NEW s \in Seq(S), NEW a \in SUBSET ToSet(s), Cardinality(a) = Len(s)
  PROVE  a = ToSet(s)
  <1>1. /\ Len(s) \in Nat /\ s \in [1..Len(s) -> S] /\ DOMAIN s = 1..Len(s)
    BY LenProperties
  <1>2. s \in Surjection(1..Len(s), ToSet(s))
    <2>1. \A t \in ToSet(s) : \E i \in 1..Len(s) : s[i] = t
      BY <1>1 DEF ToSet
    <2>2. \A i \in 1..Len(s) : s[i] \in ToSet(s)
      BY <1>1 DEF ToSet
    <2>3. s \in [1..Len(s) -> ToSet(s)]
      BY <1>1, <2>2
    <2> QED
      BY <2>1, <2>3 DEF Surjection
  <1>3. IsFiniteSet(1..Len(s)) /\ Cardinality(1..Len(s)) = Len(s)
    <2> DEFINE n == Len(s)
    <2>1. n \in Nat
      BY <1>1
    <2> HIDE DEF n
    <2>2. 1 \in Int /\ n \in Int
      BY <2>1
    <2>3. IsFiniteSet(1..n) /\ Cardinality(1..n) = IF 1 > n THEN 0 ELSE n - 1 + 1
      BY <2>2, FS_Interval, Zenon
    <2> QED
      BY <2>1, <2>3 DEF n
  <1>4. IsFiniteSet(ToSet(s)) /\ Cardinality(ToSet(s)) <= Len(s)
    BY <1>2, <1>3, FS_Surjection
  <1>5. Cardinality(a) <= Cardinality(ToSet(s))
        /\ (Cardinality(ToSet(s)) = Cardinality(a) => ToSet(s) = a)
    BY <1>4, FS_Subset
  <1>6. Cardinality(ToSet(s)) \in Nat
    BY <1>4, FS_CardinalityType
  <1> QED
    BY <1>1, <1>4, <1>5, <1>6

LEMMA CallIs ==
  ASSUME TypeOK
  PROVE  /\ call.request \in Seq(Ids) /\ L \in Nat \ {0}
         /\ Asked = Prefix(L) /\ \A k \in 1..L : call.request[k] \in Ids
         /\ Chunks \in Nat \ {0} /\ Chunks * ChunkSize >= L
  <1>1. call.request \in Seq(Ids) /\ call.request # <<>>
    BY DEF TypeOK, Calls
  <1>2. L \in Nat \ {0} /\ DOMAIN call.request = 1..L /\ \A k \in 1..L : call.request[k] \in Ids
    BY <1>1, LenProperties, EmptySeq DEF L
  <1>3. Asked = Prefix(L)
    BY <1>2 DEF Asked, ToSet, Prefix
  <1>4. Chunks \in Nat \ {0} /\ Chunks * ChunkSize >= L
    BY <1>2, Division DEF Chunks
  <1> QED
    BY <1>1, <1>2, <1>3, <1>4

\* What has been asked of a client, with one chunk more.
LEMMA ChunkIs ==
  ASSUME TypeOK
  PROVE  /\ Chunk \in SUBSET Ids /\ Chunk # {}
         /\ LastChunk => Prefix(offset) \cup Chunk = Asked
         /\ ~LastChunk => /\ offset + ChunkSize \in 0..(L - 1)
                          /\ Prefix(offset) \cup Chunk = Prefix(offset + ChunkSize)
  <1>1. L \in Nat \ {0} /\ Asked = Prefix(L) /\ \A k \in 1..L : call.request[k] \in Ids
    BY CallIs
  <1>2. offset \in Nat /\ offset < L
    BY <1>1 DEF TypeOK, L
  <1>3. ChunkEnd = IF offset + ChunkSize <= L THEN offset + ChunkSize ELSE L
    BY <1>1, <1>2, MinOfTwo DEF ChunkEnd, L
  <1>4. LastChunk <=> offset + ChunkSize >= L
    BY DEF LastChunk, L
  <1>5. Chunk = {call.request[k] : k \in (offset + 1)..ChunkEnd}
    BY DEF Chunk
  <1>6. ChunkEnd \in Nat /\ ChunkEnd <= L /\ offset + 1 <= ChunkEnd
    BY <1>1, <1>2, <1>3
  <1>7. Prefix(offset) \cup Chunk = Prefix(ChunkEnd)
    <2>1. \A k : k \in 1..ChunkEnd <=> k \in 1..offset \/ k \in (offset + 1)..ChunkEnd
      BY <1>2, <1>6
    <2> QED
      BY <1>5, <2>1 DEF Prefix
  <1>8. Chunk # {}
    <2>1. offset + 1 \in (offset + 1)..ChunkEnd
      BY <1>2, <1>6
    <2> QED
      BY <1>5, <2>1
  <1>9. Chunk \in SUBSET Ids
    BY <1>1, <1>2, <1>5, <1>6
  <1>10. LastChunk => ChunkEnd = L
    BY <1>1, <1>2, <1>3, <1>4
  <1>11. ~LastChunk => ChunkEnd = offset + ChunkSize /\ offset + ChunkSize \in 0..(L - 1)
    BY <1>1, <1>2, <1>3, <1>4
  <1> QED
    BY <1>1, <1>7, <1>8, <1>9, <1>10, <1>11

\* Only the last chunk's answer is left.
LEMMA AnswerIs ==
  ASSUME TypeOK, NEW reply \in Replies
  PROVE  /\ Answer(reply) = reply /\ reply \in Replied
         /\ reply = Null \/ (reply = Chunk \cap known[client] /\ reply \in SUBSET Ids)
         /\ call.method = "id" => reply # Null
         /\ Append(answers, reply) \in Seq(Replied) /\ Append(answers, reply) # <<>>
         /\ Combine(Append(answers, reply)) = reply
  <1> DEFINE a == Chunk \cap known[client]
  <1>1. a \in SUBSET Ids /\ answers \in Seq(Replied)
    BY ChunkIs DEF TypeOK
  <1>2. a # Null
    BY <1>1
  <1>3. (reply = Null \/ reply = a) /\ (call.method = "id" => reply = a)
    BY DEF Replies
  <1>4. reply \in Replied
    BY <1>1, <1>3 DEF Replied
  <1> HIDE DEF a
  <1>5. /\ Append(answers, reply) \in Seq(Replied) /\ Append(answers, reply) # <<>>
        /\ Last(Append(answers, reply)) = reply
    BY <1>1, <1>4, AppendProperties, LenProperties, EmptySeq DEF Last
  <1> QED
    BY <1>1, <1>2, <1>3, <1>4, <1>5 DEF Answer, Combine, a

-------------------------------------------------------------------------------
(* Steps *)

\* What every request does.
LEMMA RequestKeeps ==
  ASSUME IInv, Request
  PROVE  /\ known' = known /\ call' = call /\ attempt' = attempt /\ startedAt' = startedAt
         /\ known \in [1..N -> SUBSET Ids] /\ call \in Calls /\ attempt \in 1..MaxAttempts
         /\ elapsed' \in Nat /\ startedAt \in Nat /\ client \in 1..N /\ notified = 0
         /\ asked' = [asked EXCEPT ![client] = Prefix(offset) \cup Chunk]
         /\ asked' \in [1..N -> SUBSET Ids] /\ asked'[client] = Prefix(offset) \cup Chunk
         /\ \A i \in 1..N : i # client => asked'[i] = asked[i]
         /\ \A i \in 1..N : i <= client => asked'[i] # {}
         /\ \A i \in 1..N : i > client => asked'[i] = {}
         /\ startedAt <= elapsed' /\ elapsed' <= startedAt + AttemptTime
         /\ elapsed' <= startedAt + (client * Chunks) * Longest
         /\ \E j \in Nat : /\ offset = j * ChunkSize
                           /\ elapsed' <= startedAt + ((client - 1) * Chunks + (j + 1)) * Longest
  <1>1. PICK d \in Durations : elapsed' = elapsed + d
    BY DEF Request
  <1>2. /\ known \in [1..N -> SUBSET Ids] /\ call \in Calls /\ attempt \in 1..MaxAttempts
        /\ client \in 1..N /\ elapsed \in Nat /\ startedAt \in Nat /\ startedAt <= elapsed
        /\ asked \in [1..N -> SUBSET Ids] /\ offset \in 0..(L - 1)
    BY DEF IInv, TypeOK, Timing, L
  <1>3. pc = "request" /\ UNCHANGED <<known, call, attempt, startedAt>>
    BY DEF Request
  <1>4. asked[client] = Prefix(offset) /\ notified = 0
    BY <1>3 DEF IInv, Progress
  <1>5. PICK j \in Nat : /\ offset = j * ChunkSize
                        /\ elapsed <= startedAt + ((client - 1) * Chunks + j) * Longest
    BY <1>3 DEF IInv, Timing
  <1>6. L \in Nat \ {0} /\ Chunks \in Nat \ {0} /\ Chunks * ChunkSize >= L
    BY CallIs DEF IInv
  <1>7. j + 1 <= Chunks
    BY <1>2, <1>5, <1>6, ChunkCount
  <1>8. d \in Nat /\ d <= Longest /\ Longest \in Nat
    BY <1>1, LongestIs
  <1>9. /\ elapsed + d <= startedAt + ((client - 1) * Chunks + (j + 1)) * Longest
        /\ elapsed + d <= startedAt + (client * Chunks) * Longest
        /\ elapsed + d <= startedAt + N * Chunks * Longest
    BY <1>2, <1>5, <1>6, <1>7, <1>8, NextRequestInTime
  <1>10. AttemptTime = N * Chunks * Longest
    BY DEF AttemptTime, Chunks, Longest, L
  <1>11. asked' = [asked EXCEPT ![client] = Prefix(offset) \cup Chunk]
    BY <1>2, <1>4 DEF Request
  <1>12. Chunk \in SUBSET Ids /\ Chunk # {}
    BY ChunkIs DEF IInv
  <1>13. asked[client] \cup Chunk \in SUBSET Ids
    BY <1>2, <1>12
  <1>14. asked' \in [1..N -> SUBSET Ids]
    BY <1>2, <1>4, <1>11, <1>13
  <1> DEFINE more == Prefix(offset) \cup Chunk
  <1>16. more # {} /\ asked' = [asked EXCEPT ![client] = more]
    BY <1>11, <1>12
  <1>17. /\ \A i \in 1..N : i < client => asked[i] # {}
         /\ \A i \in 1..N : i > client => asked[i] = {}
    BY <1>3 DEF IInv, Progress
  <1> HIDE DEF more
  <1>18. /\ asked'[client] = more /\ \A i \in 1..N : i # client => asked'[i] = asked[i]
         /\ \A i \in 1..N : i <= client => asked'[i] # {}
         /\ \A i \in 1..N : i > client => asked'[i] = {}
    <2>1. /\ asked'[client] = more /\ \A i \in 1..N : i # client => asked'[i] = asked[i]
      BY <1>2, <1>16
    <2>2. \A i \in 1..N : (i <= client => i < client \/ i = client) /\ (i > client => i # client)
      BY <1>2
    <2> QED
      BY <1>16, <1>17, <2>1, <2>2
  <1>15. elapsed' \in Nat /\ startedAt <= elapsed'
    BY <1>1, <1>2, <1>8
  <1> QED
    BY <1>1, <1>2, <1>3, <1>4, <1>5, <1>9, <1>10, <1>11, <1>12, <1>14, <1>15, <1>18
       DEF more

\* The attempt is over, without an answer that is accepted.
LEMMA AttemptFailsKeeps ==
  ASSUME IInv, Request, AttemptFails, answers' \in Seq(Replied), client = N \/ LastIsRefused'
  PROVE  IInv'
  <1>1. /\ UNCHANGED <<known, call, attempt, startedAt, client, offset, value, notified>>
        /\ pc' = IF LastAttempt THEN "rejected" ELSE "sleep"
    BY RequestKeeps DEF AttemptFails
  <1>2. TypeOK'
    BY <1>1, RequestKeeps DEF IInv, TypeOK
  <1>3. LastAttempt' = LastAttempt
    BY <1>1 DEF LastAttempt
  <1>4. client \in 1..N /\ notified = 0 /\ \A i \in 1..N : i <= client => asked'[i] # {}
    BY RequestKeeps
  <1>5. Progress'
    <2>1. \A i \in 1..N : i < client' => asked'[i] # {}
      BY <1>1, <1>4
    <2>2. (\A i \in 1..N : asked'[i] # {}) \/ LastIsRefused'
      <3>1. CASE client = N
        BY <1>4, <3>1
      <3> QED
        BY <1>1, <3>1
    <2>3. pc' = IF LastAttempt' THEN "rejected" ELSE "sleep"
      BY <1>1, <1>3
    <2> HIDE DEF LastAttempt
    <2> QED
      BY <1>1, <1>4, <2>1, <2>2, <2>3 DEF Progress
  <1>6. AttemptTime' = AttemptTime
    BY <1>1 DEF AttemptTime
  <1>7. Timing'
    BY <1>1, <1>6, RequestKeeps DEF IInv, Timing
  <1> QED
    BY <1>1, <1>2, <1>5, <1>7 DEF IInv, AskedForEverything, ResolvedMeansAnswered

\* The next client is asked from the beginning of the list.
LEMMA NextClientKeeps ==
  ASSUME IInv, Request, client < N, NextClient, UNCHANGED <<pc, value, notified>>
  PROVE  IInv'
  <1>1. /\ UNCHANGED <<known, call, attempt, startedAt, pc, value, notified>>
        /\ client' = client + 1 /\ offset' = 0 /\ answers' = <<>> /\ pc = "request"
    BY RequestKeeps DEF NextClient, Request
  <1>2. client \in 1..N /\ client' \in 1..N /\ client' - 1 = client
    BY <1>1, RequestKeeps
  <1>3. TypeOK'
    <2>1. <<>> \in Seq(Replied)
      BY EmptySeq
    <2>2. L \in Nat \ {0} /\ 0 \in 0..(L - 1)
      BY CallIs DEF IInv
    <2> QED
      BY <1>1, <1>2, <2>1, <2>2, RequestKeeps DEF IInv, TypeOK, L
  <1>4. /\ \A i \in 1..N : i < client' => asked'[i] # {}
        /\ asked'[client'] = {} /\ \A i \in 1..N : i > client' => asked'[i] = {}
    <2>1. /\ \A i \in 1..N : i <= client => asked'[i] # {}
          /\ \A i \in 1..N : i > client => asked'[i] = {}
      BY RequestKeeps
    <2>2. \A i \in 1..N : /\ i < client + 1 => i <= client
                          /\ i > client + 1 => i > client
      BY <1>2
    <2>3. client + 1 > client /\ client + 1 \in 1..N
      BY <1>1, <1>2
    <2> QED
      BY <1>1, <2>1, <2>2, <2>3
  <1>5. Prefix(0)' = {}
    BY DEF Prefix
  <1>6. Progress'
    BY <1>1, <1>4, <1>5, RequestKeeps DEF Progress, Prefix
  <1>7. AttemptTime' = AttemptTime /\ Chunks' = Chunks
    BY <1>1 DEF AttemptTime, Chunks, L
  <1>8. /\ offset' = 0 * ChunkSize
        /\ elapsed' <= startedAt' + ((client' - 1) * Chunks' + 0) * Longest'
    BY <1>1, <1>2, <1>7, RequestKeeps, CallIs DEF IInv, Longest
  <1>9. Timing'
    BY <1>1, <1>7, <1>8, RequestKeeps DEF IInv, Timing, Longest
  <1> QED
    BY <1>1, <1>3, <1>6, <1>9 DEF IInv, AskedForEverything, ResolvedMeansAnswered

LEMMA ClientFailsKeeps ==
  ASSUME IInv, Request, ClientFails
  PROVE  IInv'
  <1>1. answers \in Seq(Replied)
    BY DEF IInv, TypeOK
  <1> QED
    BY <1>1, AttemptFailsKeeps, NextClientKeeps DEF ClientFails

LEMMA ChunkAnsweredKeeps ==
  ASSUME IInv, ChunkAnswered
  PROVE  IInv'
  <1>1. /\ UNCHANGED <<known, call, attempt, startedAt, pc, client, value, notified>>
        /\ offset' = offset + ChunkSize /\ \E reply \in Replies : answers' = Append(answers, reply)
        /\ pc = "request" /\ ~LastChunk /\ Request
    BY RequestKeeps DEF ChunkAnswered, Request
  <1>2. /\ offset + ChunkSize \in 0..(L - 1)
        /\ Prefix(offset) \cup Chunk = Prefix(offset')
    BY <1>1, ChunkIs DEF IInv
  <1>3. answers' \in Seq(Replied)
    BY <1>1, AnswerIs DEF IInv
  <1>4. TypeOK'
    BY <1>1, <1>2, <1>3, RequestKeeps DEF IInv, TypeOK, L
  <1>5. /\ \A i \in 1..N : i < client' => asked'[i] # {}
        /\ asked'[client'] = Prefix(offset') /\ \A i \in 1..N : i > client' => asked'[i] = {}
    <2>1. /\ asked'[client] = Prefix(offset) \cup Chunk
          /\ \A i \in 1..N : i <= client => asked'[i] # {}
          /\ \A i \in 1..N : i > client => asked'[i] = {}
          /\ client \in 1..N
      BY <1>1, RequestKeeps
    <2>2. client' = client /\ \A i \in 1..N : i < client => i <= client
      BY <1>1, <2>1
    <2> QED
      BY <1>2, <2>1, <2>2
  <1>6. Progress'
    <2>1. notified = 0 /\ pc' = "request"
      BY <1>1, RequestKeeps
    <2>2. Prefix(offset)' = Prefix(offset')
      BY <1>1 DEF Prefix
    <2> QED
      BY <1>1, <1>5, <2>1, <2>2 DEF Progress
  <1>7. AttemptTime' = AttemptTime /\ Chunks' = Chunks
    BY <1>1 DEF AttemptTime, Chunks, L
  <1>8. PICK j \in Nat : /\ offset = j * ChunkSize
                        /\ elapsed' <= startedAt + ((client - 1) * Chunks + (j + 1)) * Longest
    BY <1>1, RequestKeeps
  <1>9. j + 1 \in Nat /\ offset' = (j + 1) * ChunkSize
    BY <1>1, <1>8
  <1>10. Timing'
    BY <1>1, <1>7, <1>8, <1>9, RequestKeeps DEF IInv, Timing, Longest
  <1> QED
    BY <1>1, <1>4, <1>6, <1>10 DEF IInv, AskedForEverything, ResolvedMeansAnswered

LEMMA AnswerRefusedKeeps ==
  ASSUME IInv, AnswerRefused
  PROVE  IInv'
  <1>1. Request /\ LastChunk /\ AttemptFails
    BY DEF AnswerRefused
  <1>2. PICK reply \in Replies : ~Accepts(Answer(reply)) /\ answers' = Append(answers, reply)
    BY DEF AnswerRefused
  <1>3. /\ answers' \in Seq(Replied) /\ answers' # <<>>
        /\ Answer(reply) = reply /\ Combine(answers') = reply
    BY <1>2, AnswerIs DEF IInv
  <1>4. call.waits /\ (reply = Null \/ ~Passes(reply))
    BY <1>2, <1>3 DEF Accepts
  <1>5. call' = call /\ client' = client /\ asked'[client] = Asked
    BY <1>1, RequestKeeps, ChunkIs DEF IInv, AttemptFails
  <1>6. LastIsRefused'
    BY <1>3, <1>4, <1>5 DEF LastIsRefused, Combine, Passes, Asked
  <1> QED
    BY <1>1, <1>3, <1>6, AttemptFailsKeeps

LEMMA AnswerAcceptedKeeps ==
  ASSUME IInv, AnswerAccepted
  PROVE  IInv'
  <1>0. PICK reply \in Replies : /\ Usable(Answer(reply)) /\ Accepts(Answer(reply))
                                /\ value' = Answer(reply) /\ answers' = Append(answers, reply)
    BY DEF AnswerAccepted
  <1>1. /\ UNCHANGED <<known, call, attempt, startedAt, client, offset>>
        /\ notified' = IF call.waits THEN notified + 1 ELSE notified
        /\ pc' = "resolved" /\ LastChunk /\ Request
    BY RequestKeeps DEF AnswerAccepted, Request
  <1>2. /\ reply = Null \/ (reply = Chunk \cap known[client] /\ reply \in SUBSET Ids)
        /\ value' = reply /\ value' \in Replied /\ answers' \in Seq(Replied)
        /\ call.method = "id" => reply # Null
    BY <1>0, AnswerIs DEF IInv
  <1>3. /\ Prefix(offset) \cup Chunk = Asked
        /\ Usable(reply) /\ Accepts(reply)
    BY <1>0, <1>1, AnswerIs, ChunkIs DEF IInv
  <1>4. notified' \in {0, 1}
    BY <1>1, RequestKeeps
  <1>5. TypeOK'
    BY <1>1, <1>2, <1>4, RequestKeeps DEF IInv, TypeOK
  <1>6. \A i \in 1..N : i < client' => asked'[i] # {}
    <2>1. client \in 1..N /\ \A i \in 1..N : i <= client => asked'[i] # {}
      BY <1>1, RequestKeeps
    <2> QED BY <1>1, <2>1
  <1>7. Progress'
    BY <1>1, <1>6 DEF Progress
  <1>8. AttemptTime' = AttemptTime
    BY <1>1 DEF AttemptTime
  <1>9. Timing'
    BY <1>1, <1>8, RequestKeeps DEF IInv, Timing
  <1>10. AskedForEverything'
    BY <1>1, <1>3, RequestKeeps DEF IInv, TypeOK, AskedForEverything, Asked
  <1>11. /\ call.method = "one" => reply # {} /\ reply # Null
         /\ call.waits => reply # Null
         /\ call.successCheck # "none" => call.waits
         /\ call.successCheck = "nonEmpty" => reply # {}
         /\ call.successCheck = "complete" => Cardinality(reply) = Len(call.request)
    BY <1>1, <1>3, RequestKeeps DEF Usable, Accepts, Passes, Calls
  <1>12. call.successCheck = "complete" => reply = Asked
    <2> SUFFICES ASSUME call.successCheck = "complete" PROVE reply = Asked
      OBVIOUS
    <2>1. Cardinality(reply) = Len(call.request)
      BY <1>11
    <2>2. reply # Null
      BY <1>11
    <2>3. reply \in SUBSET ToSet(call.request) /\ call.request \in Seq(Ids)
      BY <1>2, <1>3, <2>2, CallIs DEF IInv, Asked
    <2> QED
      BY <2>1, <2>3, AllAnswered DEF Asked
  <1>13. ResolvedMeansAnswered'
    <2>1. call.method \in {"id", "one"} \/ call.waits => reply # Null
      BY <1>2, <1>11
    <2>2. reply = Null \/ reply \subseteq known[client]
      BY <1>2
    <2>3. call.method = "one" \/ call.successCheck = "nonEmpty" => reply # {}
      BY <1>11
    <2> QED
      BY <1>1, <1>2, <1>12, <2>1, <2>2, <2>3 DEF ResolvedMeansAnswered, Asked
  <1> QED
    BY <1>5, <1>7, <1>9, <1>10, <1>13 DEF IInv

LEMMA WakeUpKeeps ==
  ASSUME IInv, WakeUp
  PROVE  IInv'
  <1>1. /\ pc = "sleep" /\ pc' = "request" /\ attempt' = attempt + 1
        /\ elapsed' = elapsed + Delay /\ startedAt' = elapsed'
        /\ client' = 1 /\ offset' = 0 /\ answers' = <<>> /\ asked' = Nothing
        /\ UNCHANGED <<known, call, value, notified>>
    BY DEF WakeUp, StartedAt
  <1>2. startedAt < Timeout /\ attempt + 1 \in 1..MaxAttempts /\ notified = 0
    BY <1>1 DEF IInv, TypeOK, Progress, LastAttempt
  <1>3. TypeOK'
    <2>1. <<>> \in Seq(Replied)
      BY EmptySeq
    <2>2. L \in Nat \ {0} /\ 0 \in 0..(L - 1)
      BY CallIs DEF IInv
    <2> QED
      BY <1>1, <1>2, <2>1, <2>2 DEF IInv, TypeOK, Nothing, L
  <1>4. Progress'
    BY <1>1, <1>2 DEF Progress, Prefix, Nothing
  <1>5. AttemptTime' = AttemptTime /\ Chunks' = Chunks /\ Chunks \in Nat /\ Longest \in Nat
    BY <1>1, LongestIs, CallIs DEF IInv, AttemptTime, Chunks, L
  <1>6. AttemptTime \in Nat
    <2>1. AttemptTime = N * Chunks * Longest
      BY DEF AttemptTime, Chunks, Longest, L
    <2> QED
      BY <1>5, <2>1
  <1>7. offset' = 0 * ChunkSize /\ ((client' - 1) * Chunks' + 0) * Longest' = 0
    BY <1>1, <1>5 DEF Longest
  <1>8. /\ elapsed \in Nat /\ startedAt \in Nat /\ elapsed <= startedAt + AttemptTime
        /\ elapsed' = startedAt' /\ elapsed' \in Nat
    BY <1>1 DEF IInv, TypeOK, Timing
  <1>9. startedAt' <= Timeout + Delay + AttemptTime'
    BY <1>1, <1>2, <1>5, <1>6, <1>8
  <1>10. Timing'
    <2>1. startedAt' <= elapsed' /\ elapsed' <= startedAt' + AttemptTime'
      <3>1. AttemptTime' \in Nat
        BY <1>5, <1>6
      <3>2. elapsed' \in Nat /\ startedAt' = elapsed'
        BY <1>8
      <3>3. \A a, b \in Nat : a <= a /\ a <= a + b
        OBVIOUS
      <3>4. elapsed' <= elapsed' /\ elapsed' <= elapsed' + AttemptTime'
        BY <3>1, <3>2, <3>3
      <3> QED
        BY <3>2, <3>4
    <2>2. \E j \in Nat : /\ offset' = j * ChunkSize
                         /\ elapsed' <= startedAt' + ((client' - 1) * Chunks' + j) * Longest'
      <3>1. elapsed' <= startedAt' + ((client' - 1) * Chunks' + 0) * Longest'
        BY <1>7, <1>8
      <3> QED
        BY <1>7, <3>1
    <2> QED
      BY <1>9, <2>1, <2>2 DEF Timing
  <1> QED
    BY <1>1, <1>3, <1>4, <1>10 DEF IInv, AskedForEverything, ResolvedMeansAnswered

LEMMA LearnKeeps ==
  ASSUME IInv, NEW i \in 1..N, NEW id \in Ids, Learn(i, id)
  PROVE  IInv'
  <1>1. /\ UNCHANGED <<call, pc, attemptVars, attempt, elapsed, startedAt, value, notified>>
        /\ pc \in {"request", "sleep"} /\ known' = [known EXCEPT ![i] = @ \cup {id}]
    BY DEF Learn
  <1>2. known' \in [1..N -> SUBSET Ids]
    BY <1>1 DEF IInv, TypeOK
  <1>3. TypeOK'
    BY <1>1, <1>2 DEF IInv, TypeOK, attemptVars
  <1>4. Progress' /\ AskedForEverything' /\ ResolvedMeansAnswered'
    BY <1>1 DEF IInv, Progress, LastAttempt, Prefix, Asked, AskedForEverything, ResolvedMeansAnswered,
                attemptVars
  <1>5. Timing'
    BY <1>1 DEF IInv, Timing, AttemptTime, Chunks, L, Longest, attemptVars
  <1> QED
    BY <1>3, <1>4, <1>5 DEF IInv

LEMMA InitIInv == Init => IInv
  <1> SUFFICES ASSUME Init PROVE IInv
    OBVIOUS
  <1>1. TypeOK
    <2>1. <<>> \in Seq(Replied)
      BY EmptySeq
    <2>2. Len(call.request) \in Nat \ {0}
      <3>1. call.request \in Seq(Ids) /\ call.request # <<>>
        BY DEF Init, Calls
      <3> QED
        BY <3>1, LenProperties, EmptySeq
    <2>3. 0 \in 0..(Len(call.request) - 1)
      BY <2>2
    <2> QED
      BY <2>1, <2>3 DEF Init, TypeOK, Nothing, Replied
  <1>2. Progress
    BY DEF Init, Progress, Prefix, Nothing
  <1>3. Chunks \in Nat /\ Longest \in Nat
    BY <1>1, CallIs, LongestIs
  <1>4. AttemptTime = N * Chunks * Longest
    BY DEF AttemptTime, Chunks, Longest, L
  <1>5. AttemptTime \in Nat
    BY <1>3, <1>4
  <1>6. offset = 0 * ChunkSize /\ ((client - 1) * Chunks + 0) * Longest = 0
    BY <1>3 DEF Init
  <1>7. Timing
    BY <1>5, <1>6 DEF Init, Timing
  <1> QED
    BY <1>1, <1>2, <1>7 DEF Init, IInv, AskedForEverything, ResolvedMeansAnswered

LEMMA NextIInv == IInv /\ [Next]_vars => IInv'
  <1> SUFFICES ASSUME IInv, [Next]_vars PROVE IInv'
    OBVIOUS
  <1>1. CASE RequestFails
    BY <1>1, ClientFailsKeeps DEF RequestFails
  <1>2. CASE ChunkAnswered
    BY <1>2, ChunkAnsweredKeeps
  <1>3. CASE AnswerUnusable
    BY <1>3, ClientFailsKeeps DEF AnswerUnusable
  <1>4. CASE AnswerRefused
    BY <1>4, AnswerRefusedKeeps
  <1>5. CASE AnswerAccepted
    BY <1>5, AnswerAcceptedKeeps
  <1>6. CASE WakeUp
    BY <1>6, WakeUpKeeps
  <1>7. ASSUME NEW i \in 1..N, NEW id \in Ids, Learn(i, id) PROVE IInv'
    BY <1>7, LearnKeeps
  <1>8. CASE UNCHANGED vars
    <2>1. UNCHANGED <<known, call, pc, client, offset, answers, attempt, elapsed, startedAt,
                      value, asked, notified>>
      BY <1>8 DEF vars, attemptVars
    <2>2. TypeOK'
      BY <2>1 DEF IInv, TypeOK
    <2>3. Progress'
      BY <2>1 DEF IInv, Progress, LastAttempt, LastIsRefused, Passes, Combine, Asked, Prefix
    <2>4. Timing'
      BY <2>1 DEF IInv, Timing, AttemptTime, Chunks, L, Longest
    <2>5. AskedForEverything' /\ ResolvedMeansAnswered'
      BY <2>1 DEF IInv, AskedForEverything, ResolvedMeansAnswered, Asked
    <2> QED
      BY <2>2, <2>3, <2>4, <2>5 DEF IInv
  <1> QED
    BY <1>1, <1>2, <1>3, <1>4, <1>5, <1>6, <1>7, <1>8 DEF Next, RequestSettles

LEMMA SpecIInv == Spec => []IInv
  BY InitIInv, NextIInv, PTL DEF Spec

-------------------------------------------------------------------------------
(* Theorems *)

(***************************************************************************)
(* A resolved call was answered by one sequencer that had been asked for   *)
(* every identifier of the list, however the list was cut into chunks and  *)
(* however often requestFn went on to the next client in the middle of it. *)
(***************************************************************************)
THEOREM OneSequencerTheorem == Spec => []CallInv
  <1>1. IInv => CallInv
    BY DEF IInv, CallInv
  <1> QED
    BY SpecIInv, <1>1, PTL

(***************************************************************************)
(* What a resolved call holds is known to the sequencer that answered it,  *)
(* an operation that is asked for alone exists, a map that was checked has *)
(* an entry for each shards key, and a call that waits does not yield null.*)
(***************************************************************************)
THEOREM AnswerTheorem == Spec => []ResolvedMeansAnswered
  <1>1. IInv => ResolvedMeansAnswered
    BY DEF IInv
  <1> QED
    BY SpecIInv, <1>1, PTL

(***************************************************************************)
(* A call outlives its timeout by one delay and two attempts at the most,  *)
(* and is rejected only when it may not wait any longer and every client   *)
(* was asked, or the last one that was asked gave an answer to the whole   *)
(* list that is null or that the check refused.                            *)
(***************************************************************************)
THEOREM TimeTheorem == Spec => []UsesItsTime
  <1>1. IInv => UsesItsTime
    <2> SUFFICES ASSUME IInv PROVE EndsInTime /\ RejectedAfterAll
      BY DEF UsesItsTime
    <2>1. /\ elapsed \in Nat /\ startedAt \in Nat /\ attempt \in 1..MaxAttempts
          /\ startedAt <= elapsed
          /\ elapsed <= startedAt + AttemptTime /\ startedAt <= Timeout + Delay + AttemptTime
      BY DEF IInv, TypeOK, Timing
    <2>2. AttemptTime \in Nat
      <3>1. AttemptTime = N * Chunks * Longest /\ Chunks \in Nat /\ Longest \in Nat
        BY CallIs, LongestIs DEF IInv, AttemptTime, Chunks, Longest, L
      <3> QED
        BY <3>1
    <2>3. EndsInTime
      BY <2>1, <2>2 DEF EndsInTime
    <2>4. RejectedAfterAll
      BY <2>1 DEF IInv, Progress, RejectedAfterAll, LastAttempt, LastIsRefused
    <2> QED
      BY <2>3, <2>4
  <1> QED
    BY SpecIInv, <1>1, PTL
================================================================================
