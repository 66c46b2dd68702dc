-------------------------- MODULE BatchSender_proofs --------------------------
(***************************************************************************)
(* BatchSender for any number of concurrent calls, any batches, clock and  *)
(* timeout: type correctness, no group executed twice (with restarts and   *)
(* any duplication by the network), and distinct query ids (while the      *)
(* process lives).  Two inductive invariants: Once says where a call is in *)
(* its batch compared with what it has sent; Fresh says that every stamp   *)
(* in use was taken from a strictly increasing lastCreatedAt.              *)
(***************************************************************************)
EXTENDS BatchSender, SequenceTheorems, TLAPS

USE BatchAssumption DEF BatchAssumption

Running(c) == pc[c] \in {"ready", "transfer"}

ClockInv == now >= StartTime

Once ==
    /\ \A m \in sent : pc[m.call] # "idle"
    /\ \A m \in sent : Running(m.call) => m.first < index[m.call]
    /\ \A m1, m2 \in sent : SameGroup(m1, m2) => m1 = m2

InPast == \A e \in executed : e.msg.createdAt <= e.at /\ e.at <= now

IInv == TypeOK /\ ClockInv /\ Once /\ InPast /\ ExecutedAtMostOnce

-------------------------------------------------------------------------------
(* Lemmas *)

\* A cut without a group of size 0 is a sequence of positive sizes.
LEMMA PositiveCut ==
  ASSUME NEW cut \in Seq(Nat), ~Throws(cut)
  PROVE  cut \in Seq(Nat \ {0})
  <1>1. \A i \in 1..Len(cut) : cut[i] \in Nat \ {0}
    BY ElementOfSeq DEF Throws
  <1>2. Len(cut) \in Nat /\ cut \in [1..Len(cut) -> Nat]
    BY LenProperties
  <1>3. cut \in [1..Len(cut) -> Nat \ {0}]
    BY <1>1, <1>2
  <1> QED
    BY <1>2, <1>3, SeqDef

\* The next stamp is above every stamp given out before.
LEMMA StampGrows ==
  ASSUME TypeOK, ClockInv
  PROVE  NextCreatedAt \in Nat /\ NextCreatedAt > lastCreatedAt
  BY DEF TypeOK, ClockInv, NextCreatedAt, generateCreatedAt

\* Two stamps less than IdSpace apart have different query ids.
LEMMA QueryIdInjective ==
  ASSUME NEW a \in Nat, NEW b \in Nat, a < b, b - a < IdSpace
  PROVE  QueryId(a) # QueryId(b)
  <1> SUFFICES ASSUME QueryId(a) = QueryId(b) PROVE FALSE
    OBVIOUS
  <1> DEFINE p == a \div IdSpace
             q == b \div IdSpace
             r == a % IdSpace
  <1>1. a = IdSpace * p + r /\ b = IdSpace * q + r /\ p \in Int /\ q \in Int /\ r \in Int
    BY DEF QueryId
  <1> HIDE DEF p, q, r
  <1>2. b - a = IdSpace * (q - p)
    BY <1>1
  <1>3. q - p >= 1
    BY <1>1, <1>2
  <1>4. IdSpace * (q - p) >= IdSpace
    BY <1>1, <1>3
  <1> QED
    BY <1>2, <1>4

-------------------------------------------------------------------------------
(* Once, with the types, is inductive *)

LEMMA InitIInv == Init => IInv
  BY EmptySeq DEF Init, IInv, TypeOK, ClockInv, Once, InPast, ExecutedAtMostOnce

LEMMA SubmitKeeps ==
  ASSUME NEW c \in Calls, IInv, SubmitBatch(c) \/ SubmitSingle(c)
  PROVE  IInv'
  <1>1. /\ pc[c] = "idle"
        /\ UNCHANGED <<now, lastCreatedAt, index, stamp, sent, executed, restarts>>
    BY DEF SubmitBatch, SubmitSingle
  <1>2. /\ groups' \in [Calls -> Seq(Nat \ {0})]
        /\ kind' \in [Calls -> {"batch", "single"}]
        /\ \E v \in {"ready", "returned", "threw"} :
               pc' = [pc EXCEPT ![c] = v] /\ (v = "ready" => groups'[c] # <<>>)
        /\ \A d \in Calls : d # c => groups'[d] = groups[d]
    <2>1. CASE SubmitBatch(c)
      <3>1. PICK batch \in Batches :
               LET cut == prepareGroups(batch)
                   rejected == \/ Throws(cut)
                               \/ cut # <<>> /\ ~IsQueryId(QueryId(generateCreatedAt(now)))
               IN  IF rejected
                   THEN pc' = [pc EXCEPT ![c] = "threw"] /\ UNCHANGED groups
                   ELSE /\ pc' = [pc EXCEPT ![c] = IF cut = <<>> THEN "returned" ELSE "ready"]
                        /\ groups' = [groups EXCEPT ![c] = cut]
        BY <2>1 DEF SubmitBatch
      <3>2. prepareGroups(batch) \in Seq(Nat)
        BY BatchesAssumption DEF BatchesAssumption
      <3>3. ~Throws(prepareGroups(batch)) => prepareGroups(batch) \in Seq(Nat \ {0})
        BY <3>2, PositiveCut
      <3> QED
        BY <2>1, <3>1, <3>3 DEF SubmitBatch, IInv, TypeOK
    <2>2. CASE SubmitSingle(c)
      <3>1. PICK batch \in Batches \ {<<>>} : groups' = [groups EXCEPT ![c] = <<Len(batch)>>]
        BY <2>2 DEF SubmitSingle
      <3>2. Len(batch) \in Nat \ {0}
        BY BatchesAssumption, EmptySeq DEF BatchesAssumption
      <3>3. <<Len(batch)>> \in Seq(Nat \ {0}) /\ <<Len(batch)>> # <<>>
        BY <3>2
      <3> QED
        BY <2>2, <3>1, <3>3 DEF SubmitSingle, IInv, TypeOK
    <2> QED
      BY <2>1, <2>2
  <1>3. TypeOK'
    BY <1>1, <1>2 DEF IInv, TypeOK
  <1>4. \A m \in sent : m.call # c
    BY <1>1 DEF IInv, Once
  <1>5. Once'
    BY <1>1, <1>2, <1>4 DEF IInv, TypeOK, Once, Running, SameGroup
  <1>6. (ClockInv /\ InPast /\ ExecutedAtMostOnce)'
    BY <1>1 DEF IInv, ClockInv, InPast, ExecutedAtMostOnce, SameGroup
  <1> QED
    BY <1>3, <1>5, <1>6 DEF IInv

LEMMA StampKeeps ==
  ASSUME NEW c \in Calls, IInv, Stamp(c)
  PROVE  IInv'
  <1>1. NextCreatedAt \in Nat
    BY StampGrows DEF IInv
  <1>2. TypeOK'
    BY <1>1 DEF IInv, TypeOK, Stamp
  <1>3. Once'
    BY DEF IInv, TypeOK, Once, Running, SameGroup, Stamp
  <1>4. (ClockInv /\ InPast /\ ExecutedAtMostOnce)'
    BY DEF IInv, ClockInv, InPast, ExecutedAtMostOnce, SameGroup, Stamp
  <1> QED
    BY <1>2, <1>3, <1>4 DEF IInv

\* A transfer adds at most the message of the call's current group, which is
\* further on than everything the call has sent before.
LEMMA SentByTransfer ==
  ASSUME NEW c \in Calls, IInv, pc[c] = "transfer",
         sent' = sent \/ sent' = sent \cup {Message(c)}
  PROVE  /\ sent' \subseteq [call : Calls, first : Nat, createdAt : Nat]
         /\ sent \subseteq sent'
         /\ \A m \in sent' : m \in sent \/ m = Message(c)
         /\ \A m \in sent' : m.call = c => m.first <= index[c]
         /\ \A m1, m2 \in sent' : SameGroup(m1, m2) => m1 = m2
  <1>1. Message(c) \in [call : Calls, first : Nat, createdAt : Nat]
    BY DEF IInv, TypeOK, Message
  <1>2. Message(c).call = c /\ Message(c).first = index[c]
    BY DEF Message
  <1>3. \A m \in sent : m.call = c => m.first < index[c]
    BY DEF IInv, Once, Running
  <1>4. \A m \in sent : m.first \in Nat /\ m.call \in Calls
    BY DEF IInv, TypeOK
  <1>5. index[c] \in Nat
    BY DEF IInv, TypeOK
  <1>6. \A m1, m2 \in sent : SameGroup(m1, m2) => m1 = m2
    BY DEF IInv, Once
  <1>7. sent' \subseteq [call : Calls, first : Nat, createdAt : Nat]
    BY <1>1 DEF IInv, TypeOK
  <1>8. \A m \in sent' : m \in sent \/ m = Message(c)
    OBVIOUS
  <1>9. \A m \in sent' : m.call = c => m.first <= index[c]
    BY <1>2, <1>3, <1>4, <1>5, <1>8
  <1>10. \A m1, m2 \in sent' : SameGroup(m1, m2) => m1 = m2
    BY <1>2, <1>3, <1>4, <1>5, <1>6, <1>8 DEF SameGroup
  <1> QED
    BY <1>7, <1>8, <1>9, <1>10

LEMMA TransferSucceedsKeeps ==
  ASSUME NEW c \in Calls, IInv, TransferSucceeds(c)
  PROVE  IInv'
  <1>1. /\ pc[c] = "transfer"
        /\ sent' = sent \cup {Message(c)}
        /\ UNCHANGED <<now, lastCreatedAt, kind, stamp, executed, restarts>>
    BY DEF TransferSucceeds
  <1>2. /\ sent' \subseteq [call : Calls, first : Nat, createdAt : Nat]
        /\ sent \subseteq sent'
        /\ \A m \in sent' : m \in sent \/ m = Message(c)
        /\ \A m \in sent' : m.call = c => m.first <= index[c]
        /\ \A m1, m2 \in sent' : SameGroup(m1, m2) => m1 = m2
    BY <1>1, SentByTransfer
  <1>3. Head(groups[c]) \in Nat \ {0} /\ Tail(groups[c]) \in Seq(Nat \ {0})
    BY <1>1, HeadTailProperties DEF IInv, TypeOK
  <1>4. /\ index' = [index EXCEPT ![c] = @ + Head(groups[c])]
        /\ groups' = [groups EXCEPT ![c] = Tail(@)]
        /\ pc' = [pc EXCEPT ![c] = IF Tail(groups[c]) = <<>> THEN "returned" ELSE "ready"]
    BY DEF TransferSucceeds
  <1>5. TypeOK'
    <2>1. /\ groups' \in [Calls -> Seq(Nat \ {0})]
          /\ index' \in [Calls -> Nat]
          /\ pc' \in [Calls -> {"idle", "ready", "transfer", "returned", "threw", "lost"}]
      BY <1>3, <1>4 DEF IInv, TypeOK
    <2>2. \A d \in Calls : pc'[d] \in {"ready", "transfer"} => groups'[d] # <<>>
      BY <1>3, <1>4 DEF IInv, TypeOK
    <2>3. executed' \subseteq [msg : sent', at : Nat]
      BY <1>1, <1>2 DEF IInv, TypeOK
    <2> QED
      BY <1>1, <1>2, <2>1, <2>2, <2>3 DEF IInv, TypeOK
  <1>6. index'[c] > index[c] /\ index[c] \in Nat /\ index'[c] \in Nat
    BY <1>3, <1>4 DEF IInv, TypeOK
  <1>7. Once'
    <2>1. \A m \in sent' : m.first \in Nat /\ m.call \in Calls /\ (m.call # c => m \in sent)
      BY <1>2 DEF Message
    <2>2. \A m \in sent' : pc'[m.call] # "idle"
      BY <1>4, <2>1 DEF IInv, TypeOK, Once
    <2>3. \A m \in sent' : Running(m.call)' => m.first < index'[m.call]
      BY <1>2, <1>4, <1>6, <2>1 DEF IInv, TypeOK, Once, Running
    <2> QED
      BY <1>2, <2>2, <2>3 DEF Once, SameGroup
  <1>8. (ClockInv /\ InPast /\ ExecutedAtMostOnce)'
    BY <1>1 DEF IInv, ClockInv, InPast, ExecutedAtMostOnce, SameGroup
  <1> QED
    BY <1>5, <1>7, <1>8 DEF IInv

LEMMA TransferFailsKeeps ==
  ASSUME NEW c \in Calls, IInv, TransferFails(c)
  PROVE  IInv'
  <1>1. /\ pc[c] = "transfer"
        /\ sent' = sent \/ sent' = sent \cup {Message(c)}
        /\ UNCHANGED <<now, lastCreatedAt, kind, stamp, executed, groups, index, restarts>>
        /\ \E v \in {"returned", "threw"} : pc' = [pc EXCEPT ![c] = v]
    BY DEF TransferFails, AfterFailure
  <1>2. /\ sent' \subseteq [call : Calls, first : Nat, createdAt : Nat]
        /\ sent \subseteq sent'
        /\ \A m \in sent' : m \in sent \/ m = Message(c)
        /\ \A m1, m2 \in sent' : SameGroup(m1, m2) => m1 = m2
    BY <1>1, SentByTransfer
  <1>3. TypeOK'
    BY <1>1, <1>2 DEF IInv, TypeOK
  <1>4. Once'
    <2>1. \A m \in sent' : m.call \in Calls /\ (m.call # c => m \in sent)
      BY <1>2 DEF Message
    <2>2. ~Running(c)' /\ pc'[c] # "idle"
      BY <1>1 DEF IInv, TypeOK, Running
    <2>3. \A d \in Calls : d # c => pc'[d] = pc[d]
      BY <1>1 DEF IInv, TypeOK
    <2> QED
      BY <1>1, <1>2, <2>1, <2>2, <2>3 DEF IInv, Once, Running, SameGroup
  <1>5. (ClockInv /\ InPast /\ ExecutedAtMostOnce)'
    BY <1>1 DEF IInv, ClockInv, InPast, ExecutedAtMostOnce, SameGroup
  <1> QED
    BY <1>3, <1>4, <1>5 DEF IInv

\* The contract remembers an id long enough: a message that was executed has
\* expired before its id can be forgotten.
LEMMA DeliverKeeps ==
  ASSUME NEW m \in sent, IInv, Deliver(m)
  PROVE  IInv'
  <1>1. /\ m.createdAt > now - Timeout /\ m.createdAt <= now
        /\ executed' = executed \cup {[msg |-> m, at |-> now]}
        /\ UNCHANGED <<now, lastCreatedAt, callVars, sent, restarts>>
    BY DEF Deliver, InTime
  <1>2. /\ now \in Nat /\ m.createdAt \in Nat
        /\ \A e \in executed : e.msg \in sent /\ e.at \in Nat /\ e.msg.createdAt \in Nat
    BY DEF IInv, TypeOK
  <1>3. \A e \in executed : e.msg # m
    <2> SUFFICES ASSUME NEW e \in executed, e.msg = m PROVE FALSE
      OBVIOUS
    <2>1. e.at > now - Timeout /\ e.at > now - 2 * Timeout
      BY <1>1, <1>2 DEF IInv, InPast
    <2>2. \A age \in {Timeout, 2 * Timeout} : QueryId(m.createdAt) \in Remembered(age)
      BY <2>1 DEF Remembered
    <2> QED
      BY <2>2 DEF Deliver
  <1>4. \A e \in executed : ~SameGroup(e.msg, m) /\ ~SameGroup(m, e.msg)
    BY <1>2, <1>3 DEF IInv, Once, SameGroup
  <1>5. ExecutedAtMostOnce'
    BY <1>1, <1>4 DEF IInv, ExecutedAtMostOnce
  <1>6. TypeOK'
    BY <1>1, <1>2 DEF IInv, TypeOK, callVars
  <1>7. (Once /\ ClockInv /\ InPast)'
    BY <1>1, <1>2 DEF IInv, Once, Running, SameGroup, ClockInv, InPast, callVars
  <1> QED
    BY <1>5, <1>6, <1>7 DEF IInv

LEMMA EnvironmentKeeps ==
  ASSUME IInv, Tick \/ Restart \/ UNCHANGED vars
  PROVE  IInv'
  <1>1. CASE Tick
    <2>1. TypeOK' /\ ClockInv' /\ InPast'
      BY <1>1 DEF Tick, IInv, TypeOK, ClockInv, InPast, callVars
    <2> QED
      BY <1>1, <2>1 DEF Tick, IInv, Once, Running, SameGroup, ExecutedAtMostOnce, callVars
  <1>2. CASE Restart
    <2>1. TypeOK' /\ ClockInv' /\ InPast'
      BY <1>2 DEF Restart, IInv, TypeOK, ClockInv, InPast
    <2>2. \A c \in Calls : ~Running(c)' /\ (pc[c] # "idle" => pc'[c] # "idle")
      BY <1>2 DEF Restart, Running, IInv, TypeOK
    <2>3. \A m \in sent : m.call \in Calls
      BY DEF IInv, TypeOK
    <2> QED
      BY <1>2, <2>1, <2>2, <2>3 DEF Restart, IInv, Once, SameGroup, ExecutedAtMostOnce
  <1>3. CASE UNCHANGED vars
    BY <1>3 DEF vars, callVars, IInv, TypeOK, ClockInv, InPast, Once, Running, SameGroup,
                ExecutedAtMostOnce
  <1> QED
    BY <1>1, <1>2, <1>3

LEMMA NextKeepsIInv == IInv /\ [Next]_vars => IInv'
  BY SubmitKeeps, StampKeeps, TransferSucceedsKeeps, TransferFailsKeeps, DeliverKeeps,
     EnvironmentKeeps DEF Next, CallStep

LEMMA IInvAlways == Spec => []IInv
  BY InitIInv, NextKeepsIInv, PTL DEF Spec

(***************************************************************************)
(* The sender's and the wallet's state keep their types, and a running     *)
(* call always has a group to send.                                        *)
(***************************************************************************)
THEOREM TypeCorrect == Spec => []TypeOK
  <1>1. IInv => TypeOK
    BY DEF IInv
  <1> QED
    BY <1>1, IInvAlways, PTL

(***************************************************************************)
(* No group is executed twice, whatever the network duplicates or delays   *)
(* and however often the process restarts.                                 *)
(***************************************************************************)
THEOREM AtMostOnceTheorem == Spec => []ExecutedAtMostOnce
  <1>1. IInv => ExecutedAtMostOnce
    BY DEF IInv
  <1> QED
    BY <1>1, IInvAlways, PTL

-------------------------------------------------------------------------------
(* Fresh, while the sender object lives *)

Fresh ==
    /\ \A m \in sent : m.createdAt <= lastCreatedAt
    /\ \A c \in Calls : pc[c] = "transfer" => stamp[c] <= lastCreatedAt
    /\ \A c \in Calls : pc[c] = "transfer" => \A m \in sent : m.createdAt # stamp[c]
    /\ \A c, d \in Calls :
          pc[c] = "transfer" /\ pc[d] = "transfer" /\ stamp[c] = stamp[d] => c = d
    /\ \A m1, m2 \in sent : m1.createdAt = m2.createdAt => m1 = m2

LEMMA StampFresh ==
  ASSUME NEW c \in Calls, IInv, Fresh, Stamp(c)
  PROVE  Fresh'
  <1>1. /\ NextCreatedAt \in Nat /\ NextCreatedAt > lastCreatedAt /\ lastCreatedAt \in Nat
        /\ lastCreatedAt' = NextCreatedAt
    BY StampGrows DEF IInv, TypeOK, Stamp
  <1>2. stamp'[c] = NextCreatedAt /\ \A d \in Calls : d # c => stamp'[d] = stamp[d]
    BY DEF Stamp, IInv, TypeOK
  <1>3. \A d \in Calls : d # c => pc'[d] = pc[d]
    BY DEF Stamp, IInv, TypeOK
  <1>4. \A d \in Calls : stamp[d] \in Nat
    BY DEF IInv, TypeOK
  <1>5. \A m \in sent : m.createdAt \in Nat
    BY DEF IInv, TypeOK
  <1>6. sent' = sent
    BY DEF Stamp
  <1>7. \A d \in Calls : d # c /\ pc'[d] = "transfer" => stamp'[d] < NextCreatedAt
    BY <1>1, <1>2, <1>3, <1>4 DEF Fresh
  <1>8. \A m \in sent : m.createdAt < NextCreatedAt
    BY <1>1, <1>5 DEF Fresh
  <1>9. \A d \in Calls : pc'[d] = "transfer" => stamp'[d] <= lastCreatedAt'
    BY <1>1, <1>2, <1>4, <1>7
  <1>10. \A d \in Calls : pc'[d] = "transfer" => \A m \in sent' : m.createdAt # stamp'[d]
    <2> SUFFICES ASSUME NEW d \in Calls, pc'[d] = "transfer", NEW m \in sent
                 PROVE  m.createdAt # stamp'[d]
      BY <1>6
    <2>1. CASE d = c
      BY <1>1, <1>2, <1>5, <1>8, <2>1
    <2>2. CASE d # c
      BY <1>2, <1>3, <2>2 DEF Fresh
    <2> QED
      BY <2>1, <2>2
  <1>11. \A d, e \in Calls :
            pc'[d] = "transfer" /\ pc'[e] = "transfer" /\ stamp'[d] = stamp'[e] => d = e
    <2> SUFFICES ASSUME NEW d \in Calls, NEW e \in Calls, d # e,
                        pc'[d] = "transfer", pc'[e] = "transfer"
                 PROVE  stamp'[d] # stamp'[e]
      OBVIOUS
    <2>1. CASE d = c \/ e = c
      BY <1>1, <1>2, <1>4, <1>7, <2>1
    <2>2. CASE d # c /\ e # c
      BY <1>2, <1>3, <2>2 DEF Fresh
    <2> QED
      BY <2>1, <2>2
  <1>12. \A m \in sent' : m.createdAt <= lastCreatedAt'
    BY <1>1, <1>5, <1>6, <1>8
  <1> QED
    BY <1>6, <1>9, <1>10, <1>11, <1>12 DEF Fresh

\* After a transfer the call no longer uses its stamp; the message may now.
LEMMA TransferFresh ==
  ASSUME NEW c \in Calls, IInv, Fresh, TransferSucceeds(c) \/ TransferFails(c)
  PROVE  Fresh'
  <1>1. /\ pc[c] = "transfer"
        /\ sent' = sent \/ sent' = sent \cup {Message(c)}
        /\ UNCHANGED <<lastCreatedAt, stamp>>
    BY DEF TransferSucceeds, TransferFails, AfterFailure
  <1>2. pc'[c] # "transfer" /\ \A d \in Calls : d # c => pc'[d] = pc[d]
    BY DEF TransferSucceeds, TransferFails, AfterFailure, IInv, TypeOK
  <1>3. Message(c).createdAt = stamp[c]
    BY DEF Message
  <1>4. \A m \in sent' : m \in sent \/ m = Message(c)
    BY <1>1
  <1>5. \A m \in sent' : m.createdAt <= lastCreatedAt'
    BY <1>1, <1>3, <1>4 DEF Fresh
  <1>6. \A d \in Calls : pc'[d] = "transfer" => \A m \in sent' : m.createdAt # stamp'[d]
    BY <1>1, <1>2, <1>3, <1>4 DEF Fresh
  <1>7. \A m1, m2 \in sent' : m1.createdAt = m2.createdAt => m1 = m2
    BY <1>1, <1>3, <1>4 DEF Fresh
  <1> QED
    BY <1>1, <1>2, <1>5, <1>6, <1>7 DEF Fresh

\* The promise of a sender object ends with its process.
FirstLife == restarts = 0 => Fresh

LEMMA FirstLifeAlways == Spec => []FirstLife
  <1>1. Init => FirstLife
    BY DEF Init, FirstLife, Fresh
  <1>2. IInv /\ FirstLife /\ [Next]_vars => FirstLife'
    <2> SUFFICES ASSUME IInv, FirstLife, [Next]_vars, restarts' = 0 PROVE Fresh'
      BY DEF FirstLife
    <2>0. ~Restart /\ restarts = 0 /\ Fresh
      <3>1. restarts \in Nat
        BY DEF IInv, TypeOK
      <3>2. ~Restart
        BY <3>1 DEF Restart
      <3>3. restarts = 0
        BY <3>2 DEF Next, vars, callVars, CallStep, SubmitBatch, SubmitSingle, Stamp,
                    TransferSucceeds, TransferFails, Deliver, Tick
      <3> QED
        BY <3>2, <3>3 DEF FirstLife
    <2>1. ASSUME NEW c \in Calls, SubmitBatch(c) \/ SubmitSingle(c) PROVE Fresh'
      <3>1. /\ UNCHANGED <<lastCreatedAt, stamp, sent>>
            /\ \A d \in Calls : pc'[d] = "transfer" => pc[d] = "transfer"
        BY <2>1 DEF SubmitBatch, SubmitSingle, IInv, TypeOK
      <3> QED
        BY <2>0, <3>1 DEF Fresh
    <2>2. ASSUME NEW c \in Calls, Stamp(c) PROVE Fresh'
      BY <2>0, <2>2, StampFresh
    <2>3. ASSUME NEW c \in Calls, TransferSucceeds(c) \/ TransferFails(c) PROVE Fresh'
      BY <2>0, <2>3, TransferFresh
    <2>4. ASSUME NEW m \in sent, Deliver(m) PROVE Fresh'
      BY <2>0, <2>4 DEF Deliver, callVars, Fresh
    <2>5. CASE Tick
      BY <2>0, <2>5 DEF Tick, callVars, Fresh
    <2>6. CASE UNCHANGED vars
      BY <2>0, <2>6 DEF vars, callVars, Fresh
    <2> QED
      BY <2>0, <2>1, <2>2, <2>3, <2>4, <2>5, <2>6 DEF Next, CallStep
  <1> QED
    BY <1>1, <1>2, IInvAlways, PTL DEF Spec

(***************************************************************************)
(* While the sender object lives, acceptable messages of different groups  *)
(* have different query ids: no group is refused as already executed       *)
(* because of another one, however many calls share the sender.            *)
(***************************************************************************)
THEOREM DistinctQueryIdsTheorem == Spec => []DistinctQueryIds
  <1>1. IInv /\ FirstLife => DistinctQueryIds
    <2> SUFFICES ASSUME IInv, Fresh, NEW m1 \in sent, NEW m2 \in sent,
                        InTime(m1), InTime(m2),
                        QueryId(m1.createdAt) = QueryId(m2.createdAt)
                 PROVE  SameGroup(m1, m2)
      BY DEF DistinctQueryIds, FirstLife
    <2>1. /\ m1.createdAt \in Nat /\ m2.createdAt \in Nat /\ now \in Nat
          /\ m1.createdAt > now - Timeout /\ m1.createdAt <= now
          /\ m2.createdAt > now - Timeout /\ m2.createdAt <= now
      BY DEF IInv, TypeOK, InTime
    <2>2. m1.createdAt = m2.createdAt
      <3>1. m1.createdAt < m2.createdAt => m2.createdAt - m1.createdAt < IdSpace
        BY <2>1
      <3>2. m2.createdAt < m1.createdAt => m1.createdAt - m2.createdAt < IdSpace
        BY <2>1
      <3> QED
        BY <2>1, <3>1, <3>2, QueryIdInjective
    <2> QED
      BY <2>2 DEF Fresh, SameGroup
  <1> QED
    BY <1>1, IInvAlways, FirstLifeAlways, PTL
-------------------------------------------------------------------------------
(* The results of a call *)

SendResult == [success : BOOLEAN, lastMessageIndex : Int]

\* While a call goes on its results are successes and end where its next group
\* begins; what it has sent and what it reports fit together at all times.
Going(c) == pc[c] \in {"idle", "ready", "transfer"}

Accounts(c) ==
    /\ Going(c) => /\ index[c] = FirstOf(c, Len(results[c]) + 1)
                   /\ \A i \in 1..Len(results[c]) : results[c][i].success
    /\ \A i \in 1..Len(results[c]) :
           IF results[c][i].success
           THEN \E m \in sent : m.call = c /\ m.first = FirstOf(c, i)
           ELSE i = Len(results[c]) /\ results[c][i].lastMessageIndex = FirstOf(c, i) - 1
    /\ \A m \in sent :
           m.call = c /\ m.first > 0 =>
               \E i \in 1..Len(results[c]) :
                   results[c][i].success /\ results[c][i].lastMessageIndex = m.first - 1

Accounted == results \in [Calls -> Seq(SendResult)] /\ \A c \in Calls : Accounts(c)

\* Nothing changes for a call whose results stay and whose messages stay.
LEMMA OtherCallAccounts ==
  ASSUME NEW c \in Calls, Accounts(c), results'[c] = results[c], sent \subseteq sent',
         \A m \in sent' : m.call = c => m \in sent,
         Going(c)' => Going(c) /\ index'[c] = index[c]
  PROVE  Accounts(c)'
  <1>1. \A i : FirstOf(c, i)' = FirstOf(c, i)
    BY DEF FirstOf
  <1> QED
    BY <1>1 DEF Accounts

\* A result more: the ones before it keep their places.
LEMMA OneMoreResult ==
  ASSUME NEW c \in Calls, Accounted, NEW r \in SendResult,
         results' = [results EXCEPT ![c] = Append(@, r)]
  PROVE  /\ results' \in [Calls -> Seq(SendResult)]
         /\ Len(results[c]) \in Nat /\ Len(results'[c]) = Len(results[c]) + 1
         /\ results'[c][Len(results[c]) + 1] = r
         /\ \A i \in 1..Len(results[c]) : results'[c][i] = results[c][i]
         /\ \A i \in 1..(Len(results[c]) + 1) : FirstOf(c, i)' = FirstOf(c, i)
         /\ FirstOf(c, Len(results[c]) + 1)' = r.lastMessageIndex + 1
         /\ \A d \in Calls : d # c => results'[d] = results[d]
  <1> DEFINE s == results[c]
             t == Append(s, r)
  <1>1. s \in Seq(SendResult) /\ results'[c] = t
    BY DEF Accounted
  <1>2. /\ t \in Seq(SendResult) /\ Len(s) \in Nat /\ Len(t) = Len(s) + 1
        /\ t[Len(s) + 1] = r
        /\ \A i \in 1..Len(s) : t[i] = s[i]
    BY <1>1, LenProperties, AppendProperties
  <1>3. results' \in [Calls -> Seq(SendResult)] /\ \A d \in Calls : d # c => results'[d] = results[d]
    BY <1>1, <1>2 DEF Accounted
  <1> HIDE DEF s, t
  <1>4. \A i \in 1..(Len(s) + 1) : i # 1 => t[i - 1] = s[i - 1]
    BY <1>2
  <1> USE DEF s
  <1>5. \A i \in 1..(Len(results[c]) + 1) : FirstOf(c, i)' = FirstOf(c, i)
    BY <1>1, <1>4 DEF FirstOf
  <1>6. FirstOf(c, Len(results[c]) + 1)' = r.lastMessageIndex + 1
    <2>1. Len(results'[c]) + 1 # 1 /\ (Len(results'[c]) + 1) - 1 = Len(s) + 1
      BY <1>1, <1>2
    <2> QED
      BY <1>1, <1>2, <2>1 DEF FirstOf
  <1> QED
    BY <1>1, <1>2, <1>3, <1>5, <1>6

LEMMA SucceedsAccounts ==
  ASSUME NEW c \in Calls, IInv, Accounted, TransferSucceeds(c)
  PROVE  Accounted'
  <1> DEFINE n == Len(results[c])
             r == Success(c)
  <1>1. /\ pc[c] = "transfer" /\ Going(c) /\ Accounts(c)
        /\ sent' = sent \cup {Message(c)}
        /\ results' = [results EXCEPT ![c] = Append(@, r)]
        /\ Message(c).call = c /\ Message(c).first = index[c]
    BY DEF TransferSucceeds, Accounted, Going, Message
  <1>2. Head(groups[c]) \in Nat \ {0} /\ index[c] \in Nat
    BY <1>1, HeadTailProperties DEF IInv, TypeOK
  <1>3. /\ r \in SendResult /\ r.success /\ r.lastMessageIndex + 1 = index[c] + Head(groups[c])
        /\ index'[c] = index[c] + Head(groups[c])
    BY <1>2 DEF Success, SendResult, TransferSucceeds, IInv, TypeOK
  <1> HIDE DEF n, r
  <1>4. /\ results' \in [Calls -> Seq(SendResult)]
        /\ n \in Nat /\ Len(results'[c]) = n + 1
        /\ results'[c][n + 1] = r
        /\ \A i \in 1..n : results'[c][i] = results[c][i]
        /\ \A i \in 1..(n + 1) : FirstOf(c, i)' = FirstOf(c, i)
        /\ FirstOf(c, Len(results[c]) + 1)' = r.lastMessageIndex + 1
        /\ \A d \in Calls : d # c => results'[d] = results[d]
    BY <1>1, <1>3, OneMoreResult DEF n
  <1>5. /\ index[c] = FirstOf(c, n + 1)
        /\ \A i \in 1..n : results[c][i].success
    BY <1>1 DEF Accounts, n
  <1>6. Accounts(c)'
    <2>1. index'[c] = FirstOf(c, Len(results[c]) + 1)'
      BY <1>3, <1>4
    <2>2. \A i \in 1..(n + 1) : results'[c][i].success
      BY <1>3, <1>4, <1>5
    <2>3. \A i \in 1..(n + 1) : \E m \in sent' : m.call = c /\ m.first = FirstOf(c, i)'
      <3> TAKE i \in 1..(n + 1)
      <3>1. CASE i = n + 1
        BY <1>1, <1>4, <1>5, <3>1
      <3>2. CASE i # n + 1
        <4>1. i \in 1..n
          BY <1>4, <3>2
        <4>2. \E m \in sent : m.call = c /\ m.first = FirstOf(c, i)
          BY <1>1, <1>5, <4>1 DEF Accounts, n
        <4> QED
          BY <1>1, <1>4, <4>2
      <3> QED
        BY <3>1, <3>2
    <2>4. ASSUME NEW m \in sent', m.call = c, m.first > 0
          PROVE  \E i \in 1..(n + 1) :
                    results'[c][i].success /\ results'[c][i].lastMessageIndex = m.first - 1
      <3>1. CASE m \in sent
        <4>1. PICK i \in 1..n :
                 results[c][i].success /\ results[c][i].lastMessageIndex = m.first - 1
          BY <1>1, <2>4, <3>1 DEF Accounts, n
        <4> QED
          BY <1>4, <4>1
      <3>2. CASE m = Message(c)
        <4>1. m.first = FirstOf(c, n + 1) /\ n + 1 # 1
          BY <1>1, <1>5, <2>4, <3>2 DEF FirstOf
        <4>2. n \in 1..n /\ results[c][n].success /\ results[c][n].lastMessageIndex \in Int
          <5>1. n \in 1..n
            BY <1>4, <4>1
          <5>2. results[c][n] \in SendResult
            BY <5>1, ElementOfSeq DEF Accounted, n
          <5> QED
            BY <1>5, <5>1, <5>2 DEF SendResult
        <4>3. m.first = results[c][n].lastMessageIndex + 1
          BY <1>4, <4>1 DEF FirstOf
        <4> QED
          BY <1>4, <4>2, <4>3
      <3> QED
        BY <1>1, <3>1, <3>2
    <2> QED
      BY <1>4, <2>1, <2>2, <2>3, <2>4 DEF Accounts
  <1>7. ASSUME NEW d \in Calls, d # c PROVE Accounts(d)'
    <2>1. \A m \in sent' : m.call = d => m \in sent
      BY <1>1, <1>7
    <2>2. Going(d)' => Going(d) /\ index'[d] = index[d]
      BY <1>7 DEF TransferSucceeds, Going, IInv, TypeOK
    <2> QED
      BY <1>1, <1>4, <1>7, <2>1, <2>2, OtherCallAccounts DEF Accounted
  <1> QED
    BY <1>4, <1>6, <1>7 DEF Accounted

LEMMA FailsAccounts ==
  ASSUME NEW c \in Calls, IInv, Accounted, TransferFails(c)
  PROVE  Accounted'
  <1> DEFINE n == Len(results[c])
             r == Failure(c)
  <1>1. /\ pc[c] = "transfer" /\ Going(c) /\ Accounts(c)
        /\ sent' = sent \/ sent' = sent \cup {Message(c)}
        /\ Message(c).call = c /\ Message(c).first = index[c]
        /\ index[c] \in Nat /\ ~Going(c)'
    BY DEF TransferFails, AfterFailure, Accounted, Going, Message, IInv, TypeOK
  <1>2. r \in SendResult /\ ~r.success /\ r.lastMessageIndex = index[c] - 1
    BY <1>1 DEF Failure, SendResult
  <1>3. \A d \in Calls : d # c => pc'[d] = pc[d] /\ index'[d] = index[d]
    BY DEF TransferFails, AfterFailure, IInv, TypeOK
  <1> HIDE DEF n, r
  <1>4. /\ index[c] = FirstOf(c, n + 1)
        /\ \A i \in 1..n : results[c][i].success
        /\ n \in Nat
    BY <1>1, LenProperties DEF Accounts, Accounted, n
  \* The results up to here account for the message of the current group.
  <1>5. ASSUME NEW m \in sent', m.call = c, m.first > 0
        PROVE  \E i \in 1..n :
                  results[c][i].success /\ results[c][i].lastMessageIndex = m.first - 1
    <2>1. CASE m \in sent
      BY <1>1, <1>5, <2>1 DEF Accounts, n
    <2>2. CASE m = Message(c)
      <3>1. m.first = FirstOf(c, n + 1) /\ n + 1 # 1
        BY <1>1, <1>4, <1>5, <2>2 DEF FirstOf
      <3>2. n \in 1..n /\ results[c][n].success /\ results[c][n].lastMessageIndex \in Int
        <4>1. n \in 1..n
          BY <1>4, <3>1
        <4>2. results[c][n] \in SendResult
          BY <4>1, ElementOfSeq DEF Accounted, n
        <4> QED
          BY <1>4, <4>1, <4>2 DEF SendResult
      <3>3. m.first = results[c][n].lastMessageIndex + 1
        BY <1>4, <3>1 DEF FirstOf
      <3> QED
        BY <3>2, <3>3
    <2> QED
      BY <1>1, <2>1, <2>2
  <1>6. \A i \in 1..n : \E m \in sent' : m.call = c /\ m.first = FirstOf(c, i)
    BY <1>1, <1>4 DEF Accounts, n
  <1>7. CASE results' = results
    <2>1. \A i : FirstOf(c, i)' = FirstOf(c, i)
      BY <1>7 DEF FirstOf
    <2>2. Accounts(c)'
      BY <1>1, <1>4, <1>5, <1>6, <1>7, <2>1 DEF Accounts, n
    <2>3. \A d \in Calls : d # c => Accounts(d)'
      BY <1>1, <1>3, <1>7, OtherCallAccounts DEF Accounted, Going
    <2> QED
      BY <1>7, <2>2, <2>3 DEF Accounted
  <1>8. CASE results' = [results EXCEPT ![c] = Append(@, r)]
    <2>1. /\ results' \in [Calls -> Seq(SendResult)]
          /\ Len(results'[c]) = n + 1
          /\ results'[c][n + 1] = r
          /\ \A i \in 1..n : results'[c][i] = results[c][i]
          /\ \A i \in 1..(n + 1) : FirstOf(c, i)' = FirstOf(c, i)
          /\ \A d \in Calls : d # c => results'[d] = results[d]
      BY <1>2, <1>8, OneMoreResult DEF n
    <2>2. \A i \in 1..(n + 1) : i \notin 1..n => i = n + 1
      BY <1>4
    <2>3. \A i \in 1..(n + 1) :
             IF results'[c][i].success
             THEN \E m \in sent' : m.call = c /\ m.first = FirstOf(c, i)'
             ELSE i = n + 1 /\ results'[c][i].lastMessageIndex = FirstOf(c, i)' - 1
      BY <1>2, <1>4, <1>6, <2>1, <2>2
    <2>4. \A m \in sent' : m.call = c /\ m.first > 0 =>
             \E i \in 1..(n + 1) :
                results'[c][i].success /\ results'[c][i].lastMessageIndex = m.first - 1
      <3> TAKE m \in sent'
      <3> HAVE m.call = c /\ m.first > 0
      <3>1. PICK i \in 1..n :
               results[c][i].success /\ results[c][i].lastMessageIndex = m.first - 1
        BY <1>5
      <3> QED
        BY <1>4, <2>1, <3>1
    <2>5. Accounts(c)'
      BY <1>1, <2>1, <2>3, <2>4 DEF Accounts
    <2>6. \A d \in Calls : d # c => Accounts(d)'
      BY <1>1, <1>3, <2>1, OtherCallAccounts DEF Accounted, Going
    <2> QED
      BY <2>1, <2>5, <2>6 DEF Accounted
  <1> QED
    BY <1>7, <1>8 DEF TransferFails, AfterFailure, r

LEMMA AccountedAlways == Spec => []Accounted
  <1>1. Init => Accounted
    BY EmptySeq DEF Init, Accounted, Accounts, FirstOf
  <1>2. ASSUME IInv, Accounted, [Next]_vars PROVE Accounted'
    <2>1. ASSUME NEW c \in Calls, SubmitBatch(c) \/ SubmitSingle(c) \/ Stamp(c) PROVE Accounted'
      <3>1. /\ UNCHANGED <<results, sent, index>>
            /\ pc[c] \in {"idle", "ready"} /\ \E v : pc' = [pc EXCEPT ![c] = v]
        BY <2>1, Zenon DEF SubmitBatch, SubmitSingle, Stamp
      <3>2. \A d \in Calls : Going(d)' => Going(d)
        BY <1>2, <3>1 DEF Going, IInv, TypeOK
      <3> QED
        BY <1>2, <3>1, <3>2, OtherCallAccounts DEF Accounted
    <2>2. ASSUME NEW c \in Calls, TransferSucceeds(c) PROVE Accounted'
      BY <1>2, <2>2, SucceedsAccounts
    <2>3. ASSUME NEW c \in Calls, TransferFails(c) PROVE Accounted'
      BY <1>2, <2>3, FailsAccounts
    <2>4. CASE Tick \/ UNCHANGED vars \/ \E m \in sent : Deliver(m)
      <3>1. UNCHANGED <<results, sent, index, pc>>
        BY <2>4 DEF Tick, Deliver, vars, callVars
      <3> QED
        BY <1>2, <3>1, OtherCallAccounts DEF Accounted, Going
    <2>5. CASE Restart
      <3>1. UNCHANGED <<results, sent, index>>
        BY <2>5 DEF Restart
      <3>2. \A d \in Calls : Going(d)' => Going(d)
        BY <2>5 DEF Restart, Going
      <3> QED
        BY <1>2, <3>1, <3>2, OtherCallAccounts DEF Accounted
    <2> QED
      BY <1>2, <2>1, <2>2, <2>3, <2>4, <2>5 DEF Next, CallStep
  <1> QED
    BY <1>1, <1>2, IInvAlways, PTL DEF Spec

(***************************************************************************)
(* The SendResults of a batch account for every message: successes cover   *)
(* consecutive groups that reached the network, only the last result can   *)
(* be a failure, and nothing beyond the failed group was sent - for any    *)
(* number of concurrent calls, lost answers and restarts.                  *)
(***************************************************************************)
THEOREM ResultsTheorem == Spec => []ResultsAccountForMessages
  <1>1. Accounted => ResultsAccountForMessages
    BY DEF Accounted, Accounts, ResultsAccountForMessages
  <1> QED
    BY <1>1, AccountedAlways, PTL
===============================================================================
