------------------------------ MODULE GroupDelivery ------------------------------
(***************************************************************************)
(* What a wallet with a sequence number promises a sender that cuts its    *)
(* messages into groups: the groups of a call are handed over in order, a  *)
(* group is executed at most once, only after it was handed over, and      *)
(* never after a later group of the same call.  It promises neither that a *)
(* group is executed nor anything across calls.                            *)
(***************************************************************************)
EXTENDS Naturals, Sequences

CONSTANT Calls

VARIABLES
    sent,   \* groups that were handed over: records [call, group]
    log     \* groups that were executed, in their order

Init == sent = {} /\ log = <<>>

\* group x comes after group y of the same call.
After(x, y) == x.call = y.call => y.group < x.group

Send(x) ==
    /\ x \in [call : Calls, group : Nat]
    /\ \A y \in sent : After(x, y)
    /\ sent' = sent \cup {x}
    /\ UNCHANGED log

Execute(x) ==
    /\ x \in sent
    /\ \A i \in 1..Len(log) : After(x, log[i])
    /\ log' = Append(log, x)
    /\ UNCHANGED sent

Next ==
    \/ \E x \in sent' \ sent : Send(x)
    \/ \E x \in sent : Execute(x)

Spec == Init /\ [][Next]_<<sent, log>>
===============================================================================
