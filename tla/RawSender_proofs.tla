--------------------------- MODULE RawSender_proofs ---------------------------
(***************************************************************************)
(* RawSender for any number of calls, any sizes and any lag of the         *)
(* endpoints: type correctness, no group executed twice or after a later   *)
(* one, and the implementation of GroupDelivery.  What makes it inductive  *)
(* is Superseded: a group that was given a sequence number below that of   *)
(* an earlier group of its call has lost its place in the wallet's         *)
(* history, because the earlier number had been reached when it was read.  *)
(***************************************************************************)
EXTENDS RawSender, FiniteSetTheorems, TLAPS

USE RawSenderAssumption DEF RawSenderAssumption

Running(c) == pc[c] \in {"seqno", "send"}

\* Where a running call is in its messages.
Room ==
    \A c \in Calls :
        /\ pc[c] = "idle" => index[c] = 0
        /\ Running(c) /\ kind[c] = "single" => index[c] = 0
        /\ Running(c) /\ kind[c] = "batch" => index[c] < total[c]

\* A call goes past a group that has reached the network, or ends.
Past ==
    /\ \A m \in pool : pc[m.call] # "idle"
    /\ \A m \in pool : Running(m.call) => m.group < index[m.call]
    /\ \A m1, m2 \in pool : m1.call = m2.call /\ m1.group = m2.group => m1 = m2

\* A sequence number was the wallet's when it was read, or an earlier one.
Read ==
    /\ \A m \in pool : m.seqno <= WalletSeqno
    /\ \A c \in Calls : pc[c] = "send" => seqno[c] <= WalletSeqno

\* What was executed i-th was sent with sequence number i - 1.
Linked ==
    \A i \in 1..Len(executed) :
        [call |-> executed[i].call, group |-> executed[i].group, seqno |-> i - 1] \in pool

Superseded ==
    \A m1, m2 \in pool :
        m1.call = m2.call /\ m1.group < m2.group /\ m2.seqno < m1.seqno =>
            executed[m2.seqno + 1] # [call |-> m2.call, group |-> m2.group]

IInv == TypeOK /\ Room /\ Past /\ Read /\ Linked /\ Superseded /\ OnceAndInOrder

-------------------------------------------------------------------------------
(* Lemmas *)

LEMMA MinOfTwo ==
  ASSUME NEW a \in Nat, NEW b \in Nat
  PROVE  Min({a, b}) = IF a <= b THEN a ELSE b
  <1>1. CASE a <= b
    <2>1. \A x \in {a, b} : (\A y \in {a, b} : x <= y) => x = a
      BY <1>1
    <2>2. \A y \in {a, b} : a <= y
      BY <1>1
    <2> QED
      BY <1>1, <2>1, <2>2 DEF Min
  <1>2. CASE ~(a <= b)
    <2>1. \A x \in {a, b} : (\A y \in {a, b} : x <= y) => x = b
      BY <1>2
    <2>2. \A y \in {a, b} : b <= y
      BY <1>2
    <2> QED
      BY <1>2, <2>1, <2>2 DEF Min
  <1> QED
    BY <1>1, <1>2

\* A group of a running call fits into what is left, and a batch's is not
\* empty.
LEMMA GroupFits ==
  ASSUME TypeOK, Room, NEW c \in Calls, Running(c)
  PROVE  /\ GroupSize(c) \in Nat
         /\ index[c] + GroupSize(c) <= total[c]
         /\ kind[c] = "batch" => GroupSize(c) > 0
  <1>1. index[c] \in Nat /\ total[c] \in Nat /\ kind[c] \in {"batch", "single"}
    BY DEF TypeOK
  <1>2. CASE kind[c] = "single"
    BY <1>1, <1>2 DEF GroupSize, Room
  <1>3. CASE kind[c] = "batch"
    <2>1. index[c] < total[c]
      BY <1>3 DEF Room
    <2>2. total[c] - index[c] \in Nat \ {0}
      BY <1>1, <2>1
    <2>3. Min({BatchSize, total[c] - index[c]})
            = IF BatchSize <= total[c] - index[c] THEN BatchSize ELSE total[c] - index[c]
      BY <2>2, MinOfTwo
    <2> QED
      BY <1>1, <1>3, <2>2, <2>3 DEF GroupSize
  <1> QED
    BY <1>1, <1>2, <1>3

\* A call's results grow by a result.
LEMMA ResultAdded ==
  ASSUME NEW T, NEW f \in [Calls -> Seq(T)], NEW c \in Calls, NEW r \in T
  PROVE  [f EXCEPT ![c] = Append(@, r)] \in [Calls -> Seq(T)]
  <1>1. Append(f[c], r) \in Seq(T)
    OBVIOUS
  <1> QED
    BY <1>1

-------------------------------------------------------------------------------
(* The invariant *)

LEMMA InitIInv == Init => IInv
  BY DEF Init, IInv, TypeOK, Statuses, Room, Past, Read, Linked, Superseded, OnceAndInOrder,
         Running, WalletSeqno

LEMMA SubmitKeeps ==
  ASSUME IInv, NEW c \in Calls, Submit(c)
  PROVE  IInv'
  <1>1. PICK n \in Sizes, k \in {"batch", "single"} :
           /\ total' = [total EXCEPT ![c] = n]
           /\ kind' = [kind EXCEPT ![c] = k]
           /\ pc' = [pc EXCEPT ![c] = IF n = 0 /\ k = "batch" THEN "returned" ELSE "seqno"]
    BY DEF Submit
  <1>2. n \in Nat /\ pc[c] = "idle" /\ index[c] = 0
    BY DEF Submit, IInv, Room
  <1>3. UNCHANGED <<index, seqno, results, pool, executed>>
    BY DEF Submit
  <1>4. TypeOK'
    BY <1>1, <1>2, <1>3 DEF IInv, TypeOK, Statuses
  <1>5. Room'
    BY <1>1, <1>2, <1>3 DEF IInv, TypeOK, Room, Running
  <1>6. \A m \in pool : m.call # c
    BY <1>2 DEF IInv, Past
  <1>7. Past'
    BY <1>1, <1>3, <1>6 DEF IInv, TypeOK, Externals, Past, Running
  <1>8. Read' /\ Linked' /\ Superseded' /\ OnceAndInOrder'
    BY <1>1, <1>3 DEF IInv, TypeOK, Read, Linked, Superseded, OnceAndInOrder, WalletSeqno
  <1> QED
    BY <1>4, <1>5, <1>7, <1>8 DEF IInv

LEMMA GetSeqnoKeeps ==
  ASSUME IInv, NEW c \in Calls, GetSeqno(c)
  PROVE  IInv'
  <1>1. Len(executed) \in Nat
    BY DEF IInv, TypeOK
  <1>2. PICK s \in 0..Len(executed) : seqno' = [seqno EXCEPT ![c] = s]
    BY DEF GetSeqno, WalletSeqno
  <1>3. /\ pc[c] = "seqno" /\ pc' = [pc EXCEPT ![c] = "send"]
        /\ UNCHANGED <<kind, total, index, results, pool, executed>>
    BY DEF GetSeqno
  <1>4. TypeOK'
    BY <1>1, <1>2, <1>3 DEF IInv, TypeOK, Statuses
  <1>5. Room' /\ Past'
    BY <1>3 DEF IInv, TypeOK, Externals, Room, Past, Running
  <1>6. Read'
    BY <1>1, <1>2, <1>3 DEF IInv, TypeOK, Read, WalletSeqno
  <1>7. Linked' /\ Superseded' /\ OnceAndInOrder'
    BY <1>3 DEF IInv, Linked, Superseded, OnceAndInOrder
  <1> QED
    BY <1>4, <1>5, <1>6, <1>7 DEF IInv

\* A group that reaches the network while its call moves past it or ends.
LEMMA ReachingKeeps ==
  ASSUME IInv, NEW c \in Calls, pc[c] = "send",
         pool' = pool \cup {External(c)}, UNCHANGED <<kind, total, seqno, executed>>,
         NEW v \in {"seqno", "returned", "threw"}, pc' = [pc EXCEPT ![c] = v],
         NEW i \in Nat, index' = [index EXCEPT ![c] = i],
         i <= total[c],
         v = "seqno" => kind[c] = "batch" /\ index[c] < i /\ i < total[c],
         results' \in [Calls -> Seq([success : BOOLEAN, messages : Nat])]
  PROVE  IInv'
  <1> DEFINE e == External(c)
  <1>1. /\ e \in Externals /\ e.call = c /\ e.group = index[c] /\ e.seqno = seqno[c]
        /\ index[c] \in Nat /\ seqno[c] \in Nat
    BY DEF IInv, TypeOK, External, Externals
  <1>2. TypeOK'
    BY <1>1 DEF IInv, TypeOK, Statuses
  <1>3. \A m \in pool : m.call = c => m.group < e.group
    BY <1>1 DEF IInv, Past, Running
  <1>4. Room'
    BY <1>1 DEF IInv, TypeOK, Room, Running
  <1>5. \A m \in pool : m \in Externals /\ m.group \in Nat /\ m.seqno \in Nat /\ m.call \in Calls
    BY DEF IInv, TypeOK, Externals
  <1> HIDE DEF e
  <1>6. pool' = pool \cup {e}
    BY DEF e
  <1>7. Past'
    <2>1. \A m \in pool' : pc'[m.call] # "idle"
      BY <1>1, <1>5, <1>6 DEF IInv, TypeOK, Past
    <2>2. \A m \in pool' : Running(m.call)' => m.group < index'[m.call]
      <3> SUFFICES ASSUME NEW m \in pool', Running(m.call)'
                   PROVE  m.group < index'[m.call]
        OBVIOUS
      <3>1. CASE m.call # c
        BY <1>1, <1>5, <1>6, <3>1 DEF IInv, TypeOK, Past, Running
      <3>2. CASE m.call = c
        <4>1. v = "seqno" /\ index[c] < i /\ index'[c] = i
          BY <3>2 DEF IInv, TypeOK, Running
        <4>2. m.group <= index[c] /\ m.group \in Nat
          BY <1>1, <1>3, <1>5, <1>6, <3>2
        <4> QED
          BY <1>1, <3>2, <4>1, <4>2
      <3> QED
        BY <3>1, <3>2
    <2>3. \A m1, m2 \in pool' : m1.call = m2.call /\ m1.group = m2.group => m1 = m2
      BY <1>1, <1>3, <1>5, <1>6 DEF IInv, Past
    <2> QED
      BY <2>1, <2>2, <2>3 DEF Past
  <1>8. Read'
    BY <1>1, <1>6 DEF IInv, TypeOK, Read, WalletSeqno
  <1>9. Linked'
    BY <1>6 DEF IInv, Linked
  <1>10. Superseded'
    <2> SUFFICES ASSUME NEW m1 \in pool', NEW m2 \in pool', m1.call = m2.call,
                        m1.group < m2.group, m2.seqno < m1.seqno
                 PROVE  executed[m2.seqno + 1] # [call |-> m2.call, group |-> m2.group]
      BY DEF Superseded
    <2>1. CASE m1 \in pool /\ m2 \in pool
      BY <2>1 DEF IInv, Superseded
    <2>2. CASE m1 = e /\ m2 \in pool
      BY <1>1, <1>3, <1>5, <2>2
    <2>3. CASE m1 = e /\ m2 = e
      BY <1>1, <2>3
    <2>4. CASE m1 \in pool /\ m2 = e
      <3>1. m1.seqno <= Len(executed) /\ Len(executed) \in Nat
        BY <2>4 DEF IInv, TypeOK, Read, WalletSeqno
      <3>2. m2.seqno + 1 \in 1..Len(executed)
        BY <1>1, <1>5, <2>4, <3>1
      <3>3. SUFFICES ASSUME executed[m2.seqno + 1] = [call |-> m2.call, group |-> m2.group]
                     PROVE  FALSE
        OBVIOUS
      <3>4. [call |-> m2.call, group |-> m2.group, seqno |-> (m2.seqno + 1) - 1] \in pool
        BY <3>2, <3>3 DEF IInv, Linked
      <3> QED
        BY <1>1, <1>3, <2>4, <3>4, SMTT(30)
    <2> QED
      BY <1>6, <2>1, <2>2, <2>3, <2>4
  <1>11. OnceAndInOrder'
    BY DEF IInv, OnceAndInOrder
  <1> QED
    BY <1>2, <1>4, <1>7, <1>8, <1>9, <1>10, <1>11 DEF IInv

LEMMA SendKeeps ==
  ASSUME IInv, NEW c \in Calls, Send(c)
  PROVE  IInv'
  <1> DEFINE i == index[c] + GroupSize(c)
  <1>1. pc[c] = "send" /\ Running(c)
    BY DEF Send, Running
  <1>2. /\ index[c] \in Nat /\ total[c] \in Nat /\ GroupSize(c) \in Nat /\ i \in Nat
        /\ i <= total[c]
        /\ kind[c] = "batch" => index[c] < i
    BY <1>1, GroupFits DEF IInv, TypeOK
  <1>3. index' = [index EXCEPT ![c] = i] /\ pc' = [pc EXCEPT ![c] = AfterSuccess(c)]
    BY DEF Send
  <1>4. /\ AfterSuccess(c) \in {"seqno", "returned", "threw"}
        /\ AfterSuccess(c) = "seqno" => kind[c] = "batch" /\ i < total[c]
    BY DEF AfterSuccess
  <1>5. results' \in [Calls -> Seq([success : BOOLEAN, messages : Nat])]
    <2>1. SuccessIndex(c) + 1 = i
      BY <1>2 DEF SuccessIndex
    <2>2. Result(TRUE, SuccessIndex(c) + 1) \in [success : BOOLEAN, messages : Nat]
      BY <1>2, <2>1 DEF Result
    <2> QED
      BY <2>2, ResultAdded DEF Send, IInv, TypeOK
  <1>6. pool' = pool \cup {External(c)} /\ UNCHANGED <<kind, total, seqno, executed>>
    BY DEF Send
  <1> HIDE DEF i
  <1> QED
    BY <1>1, <1>2, <1>3, <1>4, <1>5, <1>6, ReachingKeeps

\* A failure ends the call and leaves its place in the messages alone.
LEMMA FailEnds ==
  ASSUME IInv, NEW c \in Calls, Running(c), Fail(c)
  PROVE  /\ AfterFailure(c) \in {"returned", "threw"}
         /\ pc' = [pc EXCEPT ![c] = AfterFailure(c)]
         /\ index' = [index EXCEPT ![c] = index[c]]
         /\ index[c] \in Nat /\ index[c] <= total[c]
         /\ results' \in [Calls -> Seq([success : BOOLEAN, messages : Nat])]
         /\ UNCHANGED <<kind, total, index, seqno, executed>>
  <1>1. index[c] \in Nat /\ index[c] <= total[c] /\ index' = [index EXCEPT ![c] = index[c]]
    BY DEF Fail, IInv, TypeOK
  <1>2. Result(FALSE, index[c]) \in [success : BOOLEAN, messages : Nat]
    BY <1>1 DEF Result
  <1>3. results' \in [Calls -> Seq([success : BOOLEAN, messages : Nat])]
    BY <1>2, ResultAdded DEF Fail, IInv, TypeOK
  <1> QED
    BY <1>1, <1>3 DEF Fail, AfterFailure

LEMMA QuietFailureKeeps ==
  ASSUME IInv, NEW c \in Calls, Running(c), Fail(c), UNCHANGED pool
  PROVE  IInv'
  <1>1. /\ AfterFailure(c) \in {"returned", "threw"}
        /\ pc' = [pc EXCEPT ![c] = AfterFailure(c)]
        /\ results' \in [Calls -> Seq([success : BOOLEAN, messages : Nat])]
        /\ UNCHANGED <<kind, total, index, seqno, executed>>
    BY FailEnds
  <1>2. TypeOK'
    BY <1>1 DEF IInv, TypeOK, Statuses
  <1>3. Room' /\ Past'
    BY <1>1 DEF IInv, TypeOK, Externals, Room, Past, Running
  <1>4. Read' /\ Linked' /\ Superseded' /\ OnceAndInOrder'
    BY <1>1 DEF IInv, TypeOK, Read, Linked, Superseded, OnceAndInOrder, WalletSeqno
  <1> QED
    BY <1>2, <1>3, <1>4 DEF IInv

LEMMA SendFailsKeeps ==
  ASSUME IInv, NEW c \in Calls, SendFails(c)
  PROVE  IInv'
  <1>1. pc[c] = "send" /\ Running(c) /\ Fail(c)
    BY DEF SendFails, Running
  <1>2. CASE pool' = pool
    BY <1>1, <1>2, QuietFailureKeeps
  <1>3. CASE pool' = pool \cup {External(c)}
    <2>1. /\ AfterFailure(c) \in {"seqno", "returned", "threw"} /\ AfterFailure(c) # "seqno"
          /\ pc' = [pc EXCEPT ![c] = AfterFailure(c)]
          /\ index' = [index EXCEPT ![c] = index[c]]
          /\ index[c] \in Nat /\ index[c] <= total[c]
          /\ results' \in [Calls -> Seq([success : BOOLEAN, messages : Nat])]
          /\ UNCHANGED <<kind, total, seqno, executed>>
      BY <1>1, FailEnds
    <2> QED
      BY <1>1, <1>3, <2>1, ReachingKeeps
  <1> QED
    BY <1>2, <1>3 DEF SendFails

\* The message that the wallet accepts comes after everything it has executed
\* of the same call: one that went out before it, with a number it has
\* reached, was superseded.
LEMMA AcceptedIsNext ==
  ASSUME IInv, NEW m \in pool, Accepts(m), NEW i \in 1..Len(executed),
         executed[i].call = m.call
  PROVE  executed[i].group < m.group
  <1> DEFINE p == [call |-> executed[i].call, group |-> executed[i].group, seqno |-> i - 1]
  <1>1. /\ p \in pool /\ p.call = m.call /\ p.group = executed[i].group /\ p.seqno = i - 1
        /\ p.group \in Nat /\ m.group \in Nat /\ m.seqno = Len(executed) /\ Len(executed) \in Nat
        /\ executed[i] = [call |-> p.call, group |-> p.group]
    <2>1. p \in pool
      BY DEF IInv, Linked
    <2>2. /\ Len(executed) \in Nat /\ m.seqno = Len(executed)
          /\ m.group \in Nat /\ p.group \in Nat
      BY <2>1 DEF IInv, TypeOK, Externals, Accepts, WalletSeqno
    <2>3. executed[i] \in Execution
      BY DEF IInv, TypeOK
    <2>4. executed[i] = [call |-> executed[i].call, group |-> executed[i].group]
      BY <2>3 DEF Execution
    <2> QED
      BY <2>1, <2>2, <2>4
  <1> HIDE DEF p
  <1>2. p.seqno < m.seqno /\ p.seqno + 1 = i
    BY <1>1
  <1>3. p.group # m.group
    BY <1>1, <1>2 DEF IInv, Past
  <1>4. ~(m.group < p.group)
    BY <1>1, <1>2 DEF IInv, Superseded
  <1> QED
    BY <1>1, <1>3, <1>4

LEMMA ExecuteKeeps ==
  ASSUME IInv, NEW m \in pool, Execute(m)
  PROVE  IInv'
  <1> DEFINE x == [call |-> m.call, group |-> m.group]
             n == Len(executed)
  <1>1. /\ executed' = Append(executed, x) /\ x \in Execution /\ n \in Nat /\ m.seqno = n
        /\ m = [call |-> x.call, group |-> x.group, seqno |-> n]
        /\ x.call = m.call /\ x.group = m.group
        /\ UNCHANGED <<pc, kind, total, index, seqno, results, pool>>
    BY DEF Execute, Accepts, WalletSeqno, callVars, IInv, TypeOK, Externals, Execution
  <1>2. executed \in Seq(Execution)
    BY DEF IInv, TypeOK
  <1>3. \A i \in 1..n : executed[i].call = x.call => executed[i].group < x.group
    BY <1>1, AcceptedIsNext DEF Execute
  <1> HIDE DEF x
  <1>4. /\ Len(executed') = n + 1 /\ executed'[n + 1] = x
        /\ \A i \in 1..n : executed'[i] = executed[i]
    BY <1>1, <1>2
  <1> HIDE DEF n
  <1>5. TypeOK'
    BY <1>1, <1>2 DEF IInv, TypeOK
  <1>6. Room' /\ Past'
    BY <1>1 DEF IInv, Room, Past, Running
  <1>7. Read'
    BY <1>1, <1>4 DEF IInv, TypeOK, Externals, Read, WalletSeqno, n
  <1>8. Linked'
    <2> SUFFICES ASSUME NEW i \in 1..(n + 1)
                 PROVE  [call |-> executed'[i].call, group |-> executed'[i].group,
                         seqno |-> i - 1] \in pool
      BY <1>1, <1>4 DEF Linked
    <2>1. CASE i \in 1..n
      BY <1>4, <2>1 DEF IInv, Linked, n
    <2>2. CASE i = n + 1
      <3>1. i - 1 = n /\ executed'[i] = x
        BY <1>1, <1>4, <2>2
      <3>2. [call |-> x.call, group |-> x.group, seqno |-> n] \in pool
        BY <1>1
      <3> QED
        BY <3>1, <3>2
    <2>3. n \in Nat
      BY <1>1
    <2>4. i \in 1..n \/ i = n + 1
      BY <2>3
    <2> QED
      BY <2>1, <2>2, <2>4
  <1>9. Superseded'
    <2> SUFFICES ASSUME NEW m1 \in pool, NEW m2 \in pool, m1.call = m2.call,
                        m1.group < m2.group, m2.seqno < m1.seqno
                 PROVE  executed'[m2.seqno + 1] # [call |-> m2.call, group |-> m2.group]
      BY <1>1 DEF Superseded
    <2>1. m1.seqno <= n /\ m1.seqno \in Nat /\ m2.seqno \in Nat
      BY DEF IInv, TypeOK, Externals, Read, WalletSeqno, n
    <2>2. m2.seqno + 1 \in 1..n
      BY <1>1, <2>1
    <2> QED
      BY <1>4, <2>2 DEF IInv, Superseded
  <1>10. OnceAndInOrder'
    <2> SUFFICES ASSUME NEW i \in 1..(n + 1), NEW j \in 1..(n + 1), i < j,
                        executed'[i].call = executed'[j].call
                 PROVE  executed'[i].group < executed'[j].group
      BY <1>4 DEF OnceAndInOrder
    <2>1. i \in 1..n
      BY <1>1
    <2>2. CASE j \in 1..n
      BY <1>4, <2>1, <2>2 DEF IInv, OnceAndInOrder, n
    <2>3. CASE j = n + 1
      <3>1. executed'[j] = x /\ executed'[i] = executed[i]
        BY <1>4, <2>1, <2>3
      <3> QED
        BY <1>3, <2>1, <3>1
    <2>4. n \in Nat
      BY <1>1
    <2>5. j \in 1..n \/ j = n + 1
      BY <2>4
    <2> QED
      BY <2>2, <2>3, <2>5
  <1> QED
    BY <1>5, <1>6, <1>7, <1>8, <1>9, <1>10 DEF IInv

LEMMA NextKeepsIInv == IInv /\ [Next]_vars => IInv'
  <1> SUFFICES ASSUME IInv, [Next]_vars PROVE IInv'
    OBVIOUS
  <1>1. CASE UNCHANGED vars
    BY <1>1 DEF vars, callVars, IInv, TypeOK, Room, Past, Read, Linked, Superseded,
                OnceAndInOrder, Running, WalletSeqno
  <1>2. ASSUME NEW c \in Calls, Submit(c) PROVE IInv'
    BY <1>2, SubmitKeeps
  <1>3. ASSUME NEW c \in Calls, CallStep(c) PROVE IInv'
    <2>1. CASE PreparationFails(c)
      BY <2>1, QuietFailureKeeps DEF PreparationFails, Running
    <2> QED
      BY <1>3, <2>1, GetSeqnoKeeps, SendKeeps, SendFailsKeeps DEF CallStep
  <1>4. ASSUME NEW m \in pool, Execute(m) PROVE IInv'
    BY <1>4, ExecuteKeeps
  <1> QED
    BY <1>1, <1>2, <1>3, <1>4 DEF Next

LEMMA IInvAlways == Spec => []IInv
  BY InitIInv, NextKeepsIInv, PTL DEF Spec

-------------------------------------------------------------------------------
(* Theorems *)

\* The calls of the sender, the network and the wallet keep their types.
THEOREM TypeCorrect == Spec => []TypeOK
  <1>1. IInv => TypeOK
    BY DEF IInv
  <1> QED
    BY <1>1, IInvAlways, PTL

(***************************************************************************)
(* The wallet executes no group twice, and none after a later one of its   *)
(* call, although RawSender.ts reads the sequence number again without     *)
(* waiting (line 98), endpoints are behind, calls compete, and errors are  *)
(* reported for messages that were broadcast.                              *)
(***************************************************************************)
THEOREM OrderTheorem == Spec => []OnceAndInOrder
  <1>1. IInv => OnceAndInOrder
    BY DEF IInv
  <1> QED
    BY <1>1, IInvAlways, PTL

\* A group that reaches the network comes after those its call has sent.
LEMMA ReachingIsSend ==
  ASSUME IInv, NEW c \in Calls, pc[c] = "send", pool' = pool \cup {External(c)},
         UNCHANGED executed
  PROVE  Delivery!Next
  <1> DEFINE x == [call |-> c, group |-> index[c]]
  <1>1. \A m \in pool : m.call = c => m.group < index[c]
    BY DEF IInv, Past, Running
  <1>2. x \in [call : Calls, group : Nat]
    BY DEF IInv, TypeOK
  <1>3. HandedOver' = HandedOver \cup {x}
    <2>1. x = [call |-> External(c).call, group |-> External(c).group]
      BY DEF External
    <2> HIDE DEF x
    <2> QED
      BY <2>1 DEF HandedOver
  <1>4. x \notin HandedOver
    <2> SUFFICES ASSUME NEW m \in pool, x = [call |-> m.call, group |-> m.group]
                 PROVE  FALSE
      BY DEF HandedOver
    <2>1. m.call = c /\ m.group = index[c]
      OBVIOUS
    <2> QED
      BY <1>1, <1>2, <2>1
  <1>5. \A y \in HandedOver : Delivery!After(x, y)
    BY <1>1 DEF HandedOver, Delivery!After
  <1>6. x \in HandedOver' \ HandedOver
    BY <1>3, <1>4
  <1>7. Delivery!Send(x)
    BY <1>2, <1>3, <1>5 DEF Delivery!Send
  <1> QED
    BY <1>6, <1>7 DEF Delivery!Next

LEMMA ExecuteIsExecute ==
  ASSUME IInv, NEW m \in pool, Execute(m)
  PROVE  Delivery!Next
  <1> DEFINE x == [call |-> m.call, group |-> m.group]
  <1>1. x \in HandedOver /\ UNCHANGED HandedOver /\ executed' = Append(executed, x)
    BY DEF HandedOver, Execute
  <1>2. \A i \in 1..Len(executed) : Delivery!After(x, executed[i])
    BY AcceptedIsNext DEF Delivery!After, Execute
  <1>3. Delivery!Execute(x)
    BY <1>1, <1>2 DEF Delivery!Execute
  <1> QED
    BY <1>1, <1>3 DEF Delivery!Next

(***************************************************************************)
(* RawSender over a wallet with a sequence number delivers groups as       *)
(* GroupDelivery promises: a message that reaches the network is a group   *)
(* handed over, an execution an execution, and everything else a stutter.  *)
(***************************************************************************)
THEOREM DeliveryTheorem == Spec => ImplementsDelivery
  <1>1. Init => Delivery!Init
    BY DEF Init, Delivery!Init, HandedOver
  <1>2. IInv /\ [Next]_vars => [Delivery!Next]_<<HandedOver, executed>>
    <2> SUFFICES ASSUME IInv, [Next]_vars
                 PROVE  Delivery!Next \/ UNCHANGED <<HandedOver, executed>>
      OBVIOUS
    <2>1. CASE UNCHANGED vars
      BY <2>1 DEF vars, HandedOver
    <2>2. ASSUME NEW c \in Calls, Submit(c) \/ GetSeqno(c) \/ PreparationFails(c)
          PROVE  UNCHANGED <<HandedOver, executed>>
      BY <2>2 DEF Submit, GetSeqno, PreparationFails, Fail, HandedOver
    <2>3. ASSUME NEW c \in Calls, Send(c) PROVE Delivery!Next
      BY <2>3, ReachingIsSend DEF Send
    <2>4. ASSUME NEW c \in Calls, SendFails(c)
          PROVE  Delivery!Next \/ UNCHANGED <<HandedOver, executed>>
      <3>1. pc[c] = "send" /\ UNCHANGED executed
        BY <2>4 DEF SendFails, Fail
      <3>2. CASE pool' = pool
        BY <3>1, <3>2 DEF HandedOver
      <3>3. CASE pool' = pool \cup {External(c)}
        BY <3>1, <3>3, ReachingIsSend
      <3> QED
        BY <2>4, <3>2, <3>3 DEF SendFails
    <2>5. ASSUME NEW m \in pool, Execute(m) PROVE Delivery!Next
      BY <2>5, ExecuteIsExecute
    <2> QED
      BY <2>1, <2>2, <2>3, <2>4, <2>5 DEF Next, CallStep
  <1> QED
    BY <1>1, <1>2, IInvAlways, PTL DEF Spec, ImplementsDelivery, Delivery!Spec
-------------------------------------------------------------------------------
(* The results of a batch *)

\* A batch's groups are cut every BatchSize messages.
Start(i) == i * BatchSize

Smaller(a, b) == IF a <= b THEN a ELSE b

\* The number of successful results: all but a failure at the end.
Done(c) ==
    LET n == Len(results[c])
    IN  IF n > 0 /\ ~results[c][n].success THEN n - 1 ELSE n

Accounts(c) ==
    /\ \A k \in 1..Len(results[c]) : results[c][k].success <=> k <= Done(c)
    /\ Running(c) => Done(c) = Len(results[c]) /\ index[c] = Start(Done(c))
    /\ \A k \in 1..Len(results[c]) :
           results[c][k].messages = Smaller(total[c], Start(Smaller(k, Done(c))))
    /\ \A i \in 0..(Done(c) - 1) : \E m \in pool : m.call = c /\ m.group = Start(i)
    /\ \A m \in pool : m.call = c =>
           \E i \in 0..Done(c) : m.group = Start(i) /\ (Running(c) => i < Done(c))
    /\ pc[c] = "returned" /\ Done(c) = Len(results[c]) => Start(Done(c)) >= total[c]

Batch(c) == kind[c] = "batch" /\ pc[c] # "idle"

Told(c) ==
    /\ pc[c] = "idle" => results[c] = <<>>
    /\ Batch(c) => Accounts(c)

Accounted == \A c \in Calls : Told(c)

LEMMA Starts ==
  /\ Start(0) = 0
  /\ \A n \in Nat : Start(n) \in Nat /\ Start(n + 1) = Start(n) + BatchSize
  BY DEF Start

LEMMA DoneInRange ==
  ASSUME TypeOK, NEW c \in Calls
  PROVE  /\ Len(results[c]) \in Nat /\ Done(c) \in Nat
         /\ Done(c) = Len(results[c]) \/ Done(c) = Len(results[c]) - 1
  <1>1. Len(results[c]) \in Nat
    BY DEF TypeOK
  <1> QED
    BY <1>1 DEF Done

\* Nothing changes for a call that is left alone.
LEMMA OtherCall ==
  ASSUME NEW c \in Calls, Told(c),
         results'[c] = results[c], kind'[c] = kind[c], total'[c] = total[c],
         index'[c] = index[c], pool \subseteq pool',
         \A m \in pool' : m.call = c => m \in pool,
         pc'[c] = pc[c] \/ (Running(c) /\ Running(c)')
  PROVE  Told(c)'
  <1>1. Done(c)' = Done(c)
    BY DEF Done
  <1>2. Running(c)' <=> Running(c)
    BY DEF Running
  <1>3. (pc'[c] = "idle" <=> pc[c] = "idle") /\ (pc'[c] = "returned" <=> pc[c] = "returned")
    BY DEF Running
  <1>4. Batch(c)' <=> Batch(c)
    BY <1>3 DEF Batch
  <1>5. Accounts(c) => Accounts(c)'
    BY <1>1, <1>2, <1>3 DEF Accounts
  <1> QED
    BY <1>3, <1>4, <1>5 DEF Told

LEMMA OneMoreResult ==
  ASSUME TypeOK, NEW c \in Calls, NEW r \in [success : BOOLEAN, messages : Nat],
         results' = [results EXCEPT ![c] = Append(@, r)]
  PROVE  /\ Len(results'[c]) = Len(results[c]) + 1
         /\ results'[c][Len(results[c]) + 1] = r
         /\ \A i \in 1..Len(results[c]) : results'[c][i] = results[c][i]
         /\ \A d \in Calls : d # c => results'[d] = results[d]
  <1>1. results[c] \in Seq([success : BOOLEAN, messages : Nat])
    BY DEF TypeOK
  <1>2. results'[c] = Append(results[c], r) /\ \A d \in Calls : d # c => results'[d] = results[d]
    BY DEF TypeOK
  <1> QED
    BY <1>1, <1>2

LEMMA SubmitAccounts ==
  ASSUME IInv, Accounted, NEW c \in Calls, Submit(c)
  PROVE  Accounted'
  <1>1. PICK n \in Sizes, k \in {"batch", "single"} :
           /\ total' = [total EXCEPT ![c] = n]
           /\ kind' = [kind EXCEPT ![c] = k]
           /\ pc' = [pc EXCEPT ![c] = IF n = 0 /\ k = "batch" THEN "returned" ELSE "seqno"]
    BY DEF Submit
  <1>2. /\ n \in Nat /\ pc[c] = "idle" /\ index[c] = 0 /\ results[c] = <<>>
        /\ \A m \in pool : m.call # c
        /\ UNCHANGED <<index, seqno, results, pool, executed>>
    BY DEF Submit, Accounted, Told, IInv, Room, Past
  <1>3. /\ total'[c] = n /\ pc'[c] \in {"returned", "seqno"} /\ (pc'[c] = "returned" => n = 0)
        /\ \A d \in Calls : d # c =>
              total'[d] = total[d] /\ kind'[d] = kind[d] /\ pc'[d] = pc[d]
    BY <1>1 DEF IInv, TypeOK
  <1>4. Len(results'[c]) = 0 /\ Done(c)' = 0
    BY <1>2 DEF Done
  <1>5. Accounts(c)'
    <2>1. Start(0) = 0 /\ (\A m \in pool' : m.call # c) /\ index'[c] = 0
      BY <1>2, Starts
    <2>2. (\A j \in 1..Len(results'[c]) : FALSE) /\ (\A i \in 0..(Done(c)' - 1) : FALSE)
      BY <1>4
    <2> QED
      BY <1>2, <1>3, <1>4, <2>1, <2>2 DEF Accounts
  <1>6. \A d \in Calls : d # c => Told(d)'
    BY <1>2, <1>3, OtherCall DEF Accounted
  <1> QED
    BY <1>3, <1>5, <1>6 DEF Accounted, Told

\* Where a group of a batch ends.
LEMMA GroupEnds ==
  ASSUME IInv, NEW c \in Calls, Running(c), kind[c] = "batch", NEW n \in Nat,
         index[c] = Start(n)
  PROVE  /\ index[c] + GroupSize(c) = Smaller(total[c], Start(n + 1))
         /\ index[c] + GroupSize(c) < total[c] => index[c] + GroupSize(c) = Start(n + 1)
         /\ index[c] + GroupSize(c) >= total[c] => Start(n + 1) >= total[c]
  <1>1. index[c] \in Nat /\ total[c] \in Nat /\ index[c] < total[c]
    BY DEF IInv, TypeOK, Room
  <1>2. total[c] - index[c] \in Nat
    BY <1>1
  <1>3. GroupSize(c) = Smaller(BatchSize, total[c] - index[c])
    BY <1>2, MinOfTwo DEF GroupSize, Smaller
  <1>4. Start(n + 1) = index[c] + BatchSize
    BY Starts
  <1> HIDE DEF Start
  <1> QED
    BY <1>1, <1>3, <1>4 DEF Smaller

LEMMA SendAccounts ==
  ASSUME IInv, Accounted, NEW c \in Calls, Send(c)
  PROVE  Accounted'
  <1> DEFINE n == Len(results[c])
             end == index[c] + GroupSize(c)
             r == Result(TRUE, SuccessIndex(c) + 1)
  <1>1. /\ pc[c] = "send" /\ Running(c)
        /\ pool' = pool \cup {External(c)}
        /\ External(c).call = c /\ External(c).group = index[c]
        /\ results' = [results EXCEPT ![c] = Append(@, r)]
        /\ index' = [index EXCEPT ![c] = end]
        /\ pc' = [pc EXCEPT ![c] = AfterSuccess(c)]
        /\ UNCHANGED <<kind, total>>
    BY DEF Send, Running, External
  <1>2. index[c] \in Nat /\ total[c] \in Nat /\ GroupSize(c) \in Nat /\ n \in Nat
    BY <1>1, GroupFits DEF IInv, TypeOK
  <1>3. r \in [success : BOOLEAN, messages : Nat] /\ r.success = TRUE /\ r.messages = end
    BY <1>2 DEF Result, SuccessIndex
  <1> HIDE DEF r
  <1>4. /\ Len(results'[c]) = n + 1
        /\ results'[c][n + 1] = r
        /\ \A i \in 1..n : results'[c][i] = results[c][i]
        /\ \A d \in Calls : d # c => results'[d] = results[d]
    BY <1>1, <1>3, OneMoreResult DEF IInv
  <1>5. /\ pc'[c] = AfterSuccess(c) /\ AfterSuccess(c) \in {"seqno", "returned"}
        /\ index'[c] = end
        /\ \A d \in Calls : d # c => pc'[d] = pc[d] /\ index'[d] = index[d]
    BY <1>1 DEF IInv, TypeOK, AfterSuccess
  <1>6. ASSUME kind[c] = "batch" PROVE Accounts(c)'
    <2>1. Accounts(c) /\ Done(c) = n /\ index[c] = Start(n)
      BY <1>1, <1>6 DEF Accounted, Told, Batch, Accounts
    <2>2. /\ end = Smaller(total[c], Start(n + 1))
          /\ end < total[c] => end = Start(n + 1)
          /\ end >= total[c] => Start(n + 1) >= total[c]
      BY <1>1, <1>2, <1>6, <2>1, GroupEnds
    <2>3. Done(c)' = n + 1
      BY <1>2, <1>3, <1>4 DEF Done
    <2>4. pc'[c] = (IF end < total[c] THEN "seqno" ELSE "returned")
      BY <1>5, <1>6 DEF AfterSuccess
    <2> HIDE DEF n, end
    <2>5. \A k \in 1..(n + 1) : k \in 1..n \/ k = n + 1
      BY <1>2
    <2>6. \A k \in 1..(n + 1) : results'[c][k].success
      <3>1. \A k \in 1..n : results'[c][k].success
        <4> TAKE k \in 1..n
        <4>1. results[c][k].success <=> k <= n
          BY <2>1 DEF Accounts, n
        <4>2. k <= n /\ results'[c][k] = results[c][k]
          BY <1>2, <1>4
        <4> QED
          BY <4>1, <4>2
      <3>2. results'[c][n + 1].success
        BY <1>3, <1>4
      <3> QED
        BY <2>5, <3>1, <3>2
    <2>7. \A k \in 1..(n + 1) :
             results'[c][k].messages = Smaller(total[c], Start(Smaller(k, n + 1)))
      <3> TAKE k \in 1..(n + 1)
      <3>1. Smaller(k, n + 1) = k
        BY <1>2 DEF Smaller
      <3>2. CASE k \in 1..n
        <4>1. Smaller(k, n) = k
          BY <1>2, <3>2 DEF Smaller
        <4> QED
          BY <1>4, <2>1, <3>1, <3>2, <4>1 DEF Accounts, n
      <3>3. CASE k = n + 1
        BY <1>3, <1>4, <2>2, <3>1, <3>3
      <3> QED
        BY <2>5, <3>2, <3>3
    <2>8. \A i \in 0..n : \E m \in pool' : m.call = c /\ m.group = Start(i)
      <3> TAKE i \in 0..n
      <3>1. CASE i = n
        BY <1>1, <2>1, <3>1
      <3>2. CASE i # n
        <4>1. i \in 0..(Done(c) - 1)
          BY <1>2, <2>1, <3>2
        <4> QED
          BY <1>1, <2>1, <4>1 DEF Accounts
      <3> QED
        BY <3>1, <3>2
    <2>9. \A m \in pool' : m.call = c => \E i \in 0..(n + 1) : m.group = Start(i) /\ i < n + 1
      <3> SUFFICES ASSUME NEW m \in pool', m.call = c
                   PROVE  \E i \in 0..(n + 1) : m.group = Start(i) /\ i < n + 1
        OBVIOUS
      <3>1. CASE m \in pool
        <4>1. PICK i \in 0..n : m.group = Start(i)
          BY <2>1, <3>1 DEF Accounts
        <4>2. i \in 0..(n + 1) /\ i < n + 1
          BY <1>2
        <4> QED
          BY <4>1, <4>2
      <3>2. CASE m = External(c)
        <4>1. m.group = Start(n) /\ n \in 0..(n + 1) /\ n < n + 1
          BY <1>1, <1>2, <2>1, <3>2
        <4> QED
          BY <4>1
      <3> QED
        BY <1>1, <3>1, <3>2
    <2>10. Running(c)' => index'[c] = Start(n + 1)
      BY <1>5, <2>2, <2>4 DEF Running
    <2>11. pc'[c] = "returned" => Start(n + 1) >= total[c]
      <3>1. end \in Nat
        BY <1>2 DEF end
      <3> QED
        BY <1>2, <2>2, <2>4, <3>1
    <2>12. \A i \in 0..((n + 1) - 1) : i \in 0..n
      BY <1>2
    <2>13. \A k \in 1..(n + 1) : k <= n + 1
      BY <1>2
    <2>14. Len(results'[c]) = n + 1 /\ total' = total
      BY <1>1, <1>4 DEF n
    <2> QED
      BY <2>3, <2>6, <2>7, <2>8, <2>9, <2>10, <2>11, <2>12, <2>13, <2>14 DEF Accounts
  <1>7. \A d \in Calls : d # c => Told(d)'
    BY <1>1, <1>4, <1>5, OtherCall DEF Accounted
  <1> QED
    BY <1>1, <1>5, <1>6, <1>7 DEF Accounted, Told, Batch

\* A failure is the last result; the group at hand may be on the network.
LEMMA FailAccounts ==
  ASSUME IInv, Accounted, NEW c \in Calls, Running(c), Fail(c),
         pool' = pool \/ pool' = pool \cup {External(c)}
  PROVE  Accounted'
  <1> DEFINE n == Len(results[c])
             r == Result(FALSE, index[c])
  <1>1. /\ External(c).call = c /\ External(c).group = index[c]
        /\ UNCHANGED <<kind, total, index>>
        /\ pc' = [pc EXCEPT ![c] = AfterFailure(c)] /\ AfterFailure(c) \in {"returned", "threw"}
    BY DEF Fail, External, AfterFailure
  <1>2. /\ pc'[c] \in {"returned", "threw"}
        /\ \A d \in Calls : d # c => pc'[d] = pc[d]
        /\ index[c] \in Nat /\ total[c] \in Nat /\ n \in Nat /\ index[c] <= total[c]
    BY <1>1 DEF IInv, TypeOK
  <1>3. r \in [success : BOOLEAN, messages : Nat] /\ r.success = FALSE /\ r.messages = index[c]
    BY <1>2 DEF Result
  <1> HIDE DEF r
  <1>4. CASE kind[c] = "single"
    <2>1. results' = results
      BY <1>4 DEF Fail
    <2>2. \A d \in Calls : d # c => Told(d)'
      BY <1>1, <1>2, <2>1, OtherCall DEF Accounted
    <2> QED
      BY <1>1, <1>2, <1>4, <2>2 DEF Accounted, Told, Batch
  <1>5. CASE kind[c] = "batch"
    <2>1. results' = [results EXCEPT ![c] = Append(@, r)]
      BY <1>5 DEF Fail, r
    <2>2. /\ Len(results'[c]) = n + 1
          /\ results'[c][n + 1] = r
          /\ \A i \in 1..n : results'[c][i] = results[c][i]
          /\ \A d \in Calls : d # c => results'[d] = results[d]
      BY <1>3, <2>1, OneMoreResult DEF IInv
    <2>3. Accounts(c) /\ Done(c) = n /\ index[c] = Start(n)
      BY <1>5 DEF Accounted, Told, Batch, Accounts, Running
    <2>4. Done(c)' = n
      BY <1>2, <1>3, <2>2 DEF Done
    <2> HIDE DEF n
    <2>5. \A k \in 1..(n + 1) : k \in 1..n \/ k = n + 1
      BY <1>2
    <2>6. \A k \in 1..(n + 1) : results'[c][k].success <=> k <= n
      <3>1. \A k \in 1..n : results'[c][k].success /\ k <= n
        BY <1>2, <2>2, <2>3 DEF Accounts, n
      <3>2. ~results'[c][n + 1].success /\ ~(n + 1 <= n)
        BY <1>2, <1>3, <2>2
      <3> QED
        BY <2>5, <3>1, <3>2
    <2>7. \A k \in 1..(n + 1) :
             results'[c][k].messages = Smaller(total[c], Start(Smaller(k, n)))
      <3> TAKE k \in 1..(n + 1)
      <3>1. CASE k \in 1..n
        BY <2>2, <2>3, <3>1 DEF Accounts, n
      <3>2. CASE k = n + 1
        <4>1. Smaller(k, n) = n
          BY <1>2, <3>2 DEF Smaller
        <4>2. Smaller(total[c], Start(n)) = index[c]
          BY <1>2, <2>3 DEF Smaller
        <4> QED
          BY <1>3, <2>2, <3>2, <4>1, <4>2
      <3> QED
        BY <2>5, <3>1, <3>2
    <2>8. \A i \in 0..(n - 1) : \E m \in pool' : m.call = c /\ m.group = Start(i)
      BY <2>3 DEF Accounts
    <2>9. \A m \in pool' : m.call = c => \E i \in 0..n : m.group = Start(i)
      <3>1. \A m \in pool : m.call = c => \E i \in 0..n : m.group = Start(i)
        BY <2>3 DEF Accounts
      <3>2. External(c).group = Start(n) /\ n \in 0..n
        BY <1>1, <1>2, <2>3
      <3> QED
        BY <3>1, <3>2
    <2>10. ~Running(c)' /\ n # n + 1 /\ total' = total /\ Len(results'[c]) = n + 1
      BY <1>1, <1>2, <2>2 DEF Running, n
    <2>11. Accounts(c)'
      BY <2>4, <2>6, <2>7, <2>8, <2>9, <2>10 DEF Accounts
    <2>12. \A d \in Calls : d # c => Told(d)'
      BY <1>1, <1>2, <2>2, OtherCall DEF Accounted
    <2> QED
      BY <1>2, <2>11, <2>12 DEF Accounted, Told
  <1> QED
    BY <1>4, <1>5 DEF IInv, TypeOK

LEMMA AccountedAlways == Spec => []Accounted
  <1>1. Init => Accounted
    BY DEF Init, Accounted, Told, Batch
  <1>2. ASSUME IInv, Accounted, [Next]_vars PROVE Accounted'
    <2>1. ASSUME NEW c \in Calls, Submit(c) PROVE Accounted'
      BY <1>2, <2>1, SubmitAccounts
    <2>2. ASSUME NEW c \in Calls, GetSeqno(c) PROVE Accounted'
      <3>1. /\ UNCHANGED <<kind, total, index, results, pool>>
            /\ Running(c) /\ Running(c)' /\ \A d \in Calls : d # c => pc'[d] = pc[d]
        BY <1>2, <2>2 DEF GetSeqno, Running, IInv, TypeOK
      <3> QED
        BY <1>2, <3>1, OtherCall DEF Accounted
    <2>3. ASSUME NEW c \in Calls, Send(c) PROVE Accounted'
      BY <1>2, <2>3, SendAccounts
    <2>4. ASSUME NEW c \in Calls, PreparationFails(c) \/ SendFails(c) PROVE Accounted'
      <3>1. Running(c) /\ Fail(c) /\ (pool' = pool \/ pool' = pool \cup {External(c)})
        BY <2>4 DEF PreparationFails, SendFails, Running
      <3> QED
        BY <1>2, <3>1, FailAccounts
    <2>5. CASE UNCHANGED vars \/ \E m \in pool : Execute(m)
      <3>1. UNCHANGED <<pc, kind, total, index, results, pool>>
        BY <2>5 DEF vars, callVars, Execute
      <3> QED
        BY <1>2, <3>1, OtherCall DEF Accounted
    <2> QED
      BY <1>2, <2>1, <2>2, <2>3, <2>4, <2>5 DEF Next, CallStep
  <1> QED
    BY <1>1, <1>2, IInvAlways, PTL DEF Spec

(***************************************************************************)
(* A caller can tell from the results of a batch how far it got: for any   *)
(* sizes, calls, stale reads and errors, the successful results stand for  *)
(* groups on the network, at most one more is there, each result counts    *)
(* their messages, and without a failure the batch is complete.            *)
(***************************************************************************)
THEOREM ResultsTheorem == Spec => []ResultsAccountForMessages
  <1>1. ASSUME TypeOK, Accounted PROVE ResultsAccountForMessages
    <2> SUFFICES ASSUME NEW c \in Calls, Batch(c)
                 PROVE  LET ok == Cardinality(Successes(c))
                            reached == {m.group : m \in {x \in pool : x.call = c}}
                            first(k) == {i * BatchSize : i \in 0..(k - 1)}
                        IN  /\ first(ok) \subseteq reached /\ reached \subseteq first(ok + 1)
                            /\ \A k \in 1..Len(results[c]) :
                                   /\ results[c][k].messages
                                        = Min({total[c], Min({k, ok}) * BatchSize})
                                   /\ k < Len(results[c]) => k \in Successes(c)
                            /\ pc[c] = "returned" /\ ok = Len(results[c]) =>
                                   ok * BatchSize >= total[c]
      BY DEF ResultsAccountForMessages, Batch
    <2> DEFINE n == Len(results[c])
               ok == Done(c)
    <2>1. /\ n \in Nat /\ ok \in Nat /\ (ok = n \/ ok = n - 1)
          /\ total[c] \in Nat /\ Accounts(c)
      BY <1>1, DoneInRange DEF TypeOK, Accounted, Told
    <2>2. Cardinality(Successes(c)) = ok
      <3>1. Successes(c) = 1..ok
        <4>1. \A k \in 1..n : results[c][k].success <=> k <= ok
          BY <2>1 DEF Accounts
        <4>2. Successes(c) = {k \in 1..n : k <= ok}
          BY <4>1 DEF Successes
        <4>3. {k \in 1..n : k <= ok} = 1..ok
          <5> HIDE DEF n, ok
          <5> QED
            BY <2>1
        <4> QED
          BY <4>2, <4>3
      <3>2. Cardinality(1..ok) = IF 1 > ok THEN 0 ELSE ok - 1 + 1
        <4>1. 1 \in Int /\ ok \in Int
          BY <2>1
        <4> HIDE DEF ok
        <4> QED
          BY <4>1, FS_Interval, Zenon
      <3> QED
        BY <2>1, <3>1, <3>2
    <2>3. \A i \in 0..(ok - 1) : \E m \in pool : m.call = c /\ m.group = i * BatchSize
      BY <2>1 DEF Accounts, Start
    <2>4. \A m \in pool : m.call = c => \E i \in 0..((ok + 1) - 1) : m.group = i * BatchSize
      BY <2>1 DEF Accounts, Start
    <2>5. ASSUME NEW k \in 1..n
          PROVE  /\ results[c][k].messages = Min({total[c], Min({k, ok}) * BatchSize})
                 /\ k < n => k \in Successes(c)
      <3>1. Min({k, ok}) = Smaller(k, ok) /\ Smaller(k, ok) \in Nat
        BY <2>1, <2>5, MinOfTwo DEF Smaller
      <3>2. Start(Smaller(k, ok)) \in Nat
        BY <3>1, Starts
      <3>3. Min({total[c], Start(Smaller(k, ok))}) = Smaller(total[c], Start(Smaller(k, ok)))
        BY <2>1, <3>2, MinOfTwo DEF Smaller
      <3>4. k < n => k \in Successes(c)
        BY <2>1, <2>5 DEF Successes, Accounts
      <3> QED
        BY <2>1, <2>5, <3>1, <3>3, <3>4 DEF Accounts, Start
    <2>6. pc[c] = "returned" /\ ok = n => ok * BatchSize >= total[c]
      BY <2>1 DEF Accounts, Start
    <2>7. {i * BatchSize : i \in 0..(ok - 1)} \subseteq {m.group : m \in {x \in pool : x.call = c}}
      BY <2>3, Zenon
    <2>8. {m.group : m \in {x \in pool : x.call = c}} \subseteq {i * BatchSize : i \in 0..((ok + 1) - 1)}
      BY <2>4, Zenon
    <2> HIDE DEF ok
    <2> QED
      BY <2>2, <2>5, <2>6, <2>7, <2>8, Zenon
  <1>2. IInv => TypeOK
    BY DEF IInv
  <1> QED
    BY <1>1, <1>2, IInvAlways, AccountedAlways, PTL
===============================================================================
