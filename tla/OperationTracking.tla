---------------------------- MODULE OperationTracking ----------------------------
(***************************************************************************)
(* One call of an OperationTracker method (sdk/OperationTracker.ts): each  *)
(* attempt asks the lite sequencers one after the other until one answers  *)
(* (requestFn); LiteSequencerClient cuts long lists of identifiers into    *)
(* chunks; waitUntilSuccess (sdk/Utils.ts) repeats the attempt until the   *)
(* answer passes the caller's check, unless waitOptions is null.  The      *)
(* sequencers learn about operations while the call runs, each at its own  *)
(* pace.                                                                   *)
(***************************************************************************)
EXTENDS Naturals, Sequences, SequencesExt

CONSTANTS
    N,            \* number of lite sequencer clients
    Ids,          \* identifiers: shards keys or operation ids
    Null,         \* an answer that is null or undefined
    Requests,     \* lists of identifiers a call may ask about
    ChunkSize,    \* chunkSize
    MaxAttempts,  \* waitOptions.maxAttempts
    Timeout,      \* waitOptions.timeout
    Delay,        \* waitOptions.delay
    Durations     \* how long one HTTP request may take

ASSUME TrackingAssumption ==
    /\ N \in Nat \ {0} /\ ChunkSize \in Nat \ {0} /\ MaxAttempts \in Nat \ {0}
    /\ Requests \subseteq Seq(Ids) \ {<<>>} /\ \A s \in SUBSET Ids : s # Null
    /\ Timeout \in Nat /\ Delay \in Nat /\ Durations \subseteq Nat
    /\ \E longest \in Durations : \A d \in Durations : d <= longest

(***************************************************************************)
(* The methods differ in what a missing answer does.  "id": the id of an   *)
(* operation or its type, where '' takes the place of null.  "raw": the    *)
(* result of a simulation or the executor's fee, passed on even if null.   *)
(* "one": the status or profiling of one operation or a converted value,   *)
(* whose absence is an error.  "many": a map over a list, which holds the  *)
(* identifiers that are known, or null.  The empty answer {} stands for '' *)
(* and for the empty map.  A call whose parameters are refused (a value    *)
(* that is not positive, an invalid address) sends nothing and is not      *)
(* here.                                                                   *)
(***************************************************************************)
Calls == {p \in [method : {"id", "raw", "one", "many"}, request : Requests, waits : BOOLEAN,
                 successCheck : {"none", "nonEmpty", "complete"}] :
             /\ p.method # "many" => Len(p.request) = 1
             /\ p.successCheck = "complete" => p.method = "many"
             /\ ~p.waits => p.successCheck = "none"}

VARIABLES
    known,      \* known[i]: what sequencer i can answer
    call,       \* the call, with its waitOptions
    pc,         \* "request", "sleep", "resolved" or "rejected"
    client,     \* the client being asked
    offset,     \* identifiers of the list already asked from it
    answers,    \* its answers, chunk by chunk
    attempt, elapsed,
    startedAt,  \* elapsedTime: read before the operation is started
    value,      \* what the caller gets
    asked,      \* identifiers each client was asked for in this attempt
    notified    \* onSuccess calls

attemptVars == <<client, offset, answers, asked>>
vars == <<known, call, pc, attemptVars, attempt, elapsed, startedAt, value, notified>>

Nothing == [i \in 1..N |-> {}]

Init ==
    /\ known \in [1..N -> SUBSET Ids]
    /\ call \in Calls
    /\ pc = "request"
    /\ client = 1 /\ offset = 0 /\ answers = <<>> /\ asked = Nothing
    /\ attempt = 1 /\ elapsed = 0 /\ startedAt = 0
    /\ value = {} /\ notified = 0

Learn(i, id) ==
    /\ pc \in {"request", "sleep"}
    /\ id \notin known[i]
    /\ known' = [known EXCEPT ![i] = @ \cup {id}]
    /\ UNCHANGED <<call, pc, attemptVars, attempt, elapsed, startedAt, value, notified>>

-------------------------------------------------------------------------------
(* LiteSequencerClient *)

\* The end of the slice that starts at offset; a last chunk may be shorter.
ChunkEnd == Min({offset + ChunkSize, Len(call.request)})

Chunk == {call.request[k] : k \in (offset + 1)..ChunkEnd}

LastChunk == offset + ChunkSize >= Len(call.request)

\* What the client may answer: what it knows of the chunk, or null.
Replies ==
    LET found == Chunk \cap known[client]
    IN  CASE call.method = "id" -> {found}
          [] call.method = "raw" -> IF found = {} THEN {Null} ELSE {found}
          [] OTHER -> {found, Null}

\* Object.assign over the envelopes {response} of the chunks: the property
\* response of the last one, null or not, overwrites the others.
Combine(parts) == Last(parts)

Answer(reply) == Combine(Append(answers, reply))

\* getStageProfiling and getOperationStatus refuse a missing entry, and
\* convertCurrency cannot read one; the others pass on what they got.
Usable(a) == call.method = "one" => a # {} /\ a # Null

-------------------------------------------------------------------------------
(* waitUntilSuccess around requestFn *)

\* successCheck: none, a truthy id, or one entry for each key of the list.
Passes_Unchecked(a) == TRUE                                             \* mutant
Passes(a) ==
    CASE call.successCheck = "none" -> TRUE
      [] call.successCheck = "nonEmpty" -> a # {}
      [] call.successCheck = "complete" -> Cardinality(a) = Len(call.request)

\* waitUntilSuccess takes null for an "Empty result" before it asks
\* successCheck; a call that does not wait takes every answer.
Accepts(a) == call.waits => a # Null /\ Passes(a)

\* An attempt that fails is the last one after maxAttempts, when it was begun
\* after the timeout, and without waitOptions.
LastAttempt == ~call.waits \/ startedAt >= Timeout \/ attempt >= MaxAttempts

StartedAt_ThisAttempt == 0                                              \* mutant
StartedAt == elapsed + Delay

AttemptFails ==
    /\ pc' = IF LastAttempt THEN "rejected" ELSE "sleep"
    /\ UNCHANGED <<client, offset, value, notified>>

\* requestFn goes to the next client, and starts the list from its beginning.
NextClient_FromChunk == client' = client + 1 /\ UNCHANGED <<offset, answers>>  \* mutant
NextClient == client' = client + 1 /\ offset' = 0 /\ answers' = <<>>

ClientFails ==
    \/ /\ client < N
       /\ NextClient
       /\ UNCHANGED <<pc, value, notified>>
    \/ client = N /\ AttemptFails /\ UNCHANGED answers

Request ==
    /\ pc = "request"
    /\ \E d \in Durations : elapsed' = elapsed + d
    /\ asked' = [asked EXCEPT ![client] = @ \cup Chunk]
    /\ UNCHANGED <<known, call, attempt, startedAt>>

\* A request fails: refused, 5xx, no route; 404 too where it is an error.
RequestFails == Request /\ ClientFails

ChunkAnswered ==
    /\ Request
    /\ ~LastChunk
    /\ \E reply \in Replies : answers' = Append(answers, reply)
    /\ offset' = offset + ChunkSize
    /\ UNCHANGED <<pc, client, value, notified>>

AnswerUnusable ==
    /\ Request
    /\ LastChunk
    /\ \E reply \in Replies : ~Usable(Answer(reply))
    /\ ClientFails

\* The attempt fails without the clients that have not been asked.
AnswerRefused ==
    /\ Request
    /\ LastChunk
    /\ \E reply \in Replies :
           /\ Usable(Answer(reply)) /\ ~Accepts(Answer(reply))
           /\ answers' = Append(answers, reply)
    /\ AttemptFails

\* onSuccess runs once, and what it throws is swallowed.
AnswerAccepted ==
    /\ Request
    /\ LastChunk
    /\ \E reply \in Replies :
           /\ Usable(Answer(reply)) /\ Accepts(Answer(reply))
           /\ value' = Answer(reply)
           /\ answers' = Append(answers, reply)
    /\ notified' = IF call.waits THEN notified + 1 ELSE notified
    /\ pc' = "resolved"
    /\ UNCHANGED <<client, offset>>

WakeUp_OnlyInTime ==                                                    \* mutant
    /\ pc = "sleep" /\ elapsed < Timeout
    /\ pc' = "request"
    /\ attempt' = attempt + 1
    /\ elapsed' = elapsed + Delay
    /\ startedAt' = StartedAt
    /\ client' = 1 /\ offset' = 0 /\ answers' = <<>> /\ asked' = Nothing
    /\ UNCHANGED <<known, call, value, notified>>

WakeUp ==
    /\ pc = "sleep"
    /\ pc' = "request"
    /\ attempt' = attempt + 1
    /\ elapsed' = elapsed + Delay
    /\ startedAt' = StartedAt
    /\ client' = 1 /\ offset' = 0 /\ answers' = <<>> /\ asked' = Nothing
    /\ UNCHANGED <<known, call, value, notified>>

RequestSettles ==
    RequestFails \/ ChunkAnswered \/ AnswerUnusable \/ AnswerRefused \/ AnswerAccepted

Next ==
    \/ RequestSettles
    \/ WakeUp
    \/ \E i \in 1..N, id \in Ids : Learn(i, id)

\* Timers fire.  Requests are sent without a timeout and may hang.
Spec == Init /\ [][Next]_vars /\ WF_vars(WakeUp)

-------------------------------------------------------------------------------
(* Properties *)

Replied == {Null} \cup SUBSET Ids

TypeOK ==
    /\ known \in [1..N -> SUBSET Ids]
    /\ call \in Calls
    /\ pc \in {"request", "sleep", "resolved", "rejected"}
    /\ client \in 1..N
    /\ offset \in 0..(Len(call.request) - 1)
    /\ answers \in Seq(Replied)
    /\ attempt \in 1..MaxAttempts
    /\ elapsed \in Nat /\ startedAt \in Nat
    /\ value \in Replied
    /\ asked \in [1..N -> SUBSET Ids]
    /\ notified \in {0, 1}

Asked == ToSet(call.request)

(***************************************************************************)
(* A resolved call is answered by one sequencer that was asked for every   *)
(* identifier of the list: failing over in the middle of a chunked request *)
(* never mixes the chunks of two sequencers, and no chunk boundary drops   *)
(* an identifier.                                                          *)
(***************************************************************************)
AskedForEverything == pc = "resolved" => asked[client] = Asked

\* The types of a call, and what it has asked for.
CallInv == TypeOK /\ AskedForEverything

(***************************************************************************)
(* What the single-operation methods and waitForOperationIds rely on: a    *)
(* resolved status exists at the sequencer that answered, a checked id is  *)
(* not '', a checked map has an entry for every shards key, and a call     *)
(* that waits never yields null.                                           *)
(***************************************************************************)
ResolvedMeansAnswered ==
    pc = "resolved" =>
        /\ call.method = "one" \/ call.successCheck = "nonEmpty" => value # {}
        /\ call.successCheck = "complete" => value = Asked
        /\ value = Null \/ value \subseteq known[client]
        /\ call.method \in {"id", "one"} \/ call.waits => value # Null

\* The longest an attempt can take: all chunks from all clients.
AttemptTime == N * ((Len(call.request) + ChunkSize - 1) \div ChunkSize) * Max(Durations)

(***************************************************************************)
(* waitUntilSuccess reads the elapsed time before each attempt, so a call  *)
(* outlives its timeout; but by one delay and two attempts at the most.    *)
(***************************************************************************)
EndsInTime == elapsed <= Timeout + Delay + 2 * AttemptTime

(***************************************************************************)
(* A call is rejected only when it may not wait any longer, and its last   *)
(* attempt either asked every client, or got from one of them an answer to *)
(* the whole list that is null or that the caller's check refused: then    *)
(* the clients after it are not asked.                                     *)
(***************************************************************************)
RejectedAfterAll ==
    pc = "rejected" =>
        /\ ~call.waits \/ attempt = MaxAttempts \/ elapsed >= Timeout
        /\ \/ \A i \in 1..N : asked[i] # {}
           \/ /\ asked[client] = Asked
              /\ answers # <<>> /\ call.waits
              /\ Combine(answers) = Null \/ ~Passes(Combine(answers))

\* How long a call goes on: to the end of its attempts or its time, and not much longer.
UsesItsTime == EndsInTime /\ RejectedAfterAll

(***************************************************************************)
(* docs/sdks/lite_sequencer_client.md:92 "Handles request chunking         *)
(* automatically": the answer to a list covers whatever the sequencer told *)
(* about any part of it.                                                   *)
(***************************************************************************)
NoAnswerLost ==
    pc = "resolved" /\ value # Null => value = UNION (ToSet(answers) \ {Null})

\* Every call ends, if the requests it sends do.
CallEnds == WF_vars(RequestSettles) => <>(pc \in {"resolved", "rejected"})
===============================================================================
