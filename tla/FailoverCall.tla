----------------------------- MODULE FailoverCall -----------------------------
(***************************************************************************)
(* What a call through several interchangeable endpoints promises: the     *)
(* endpoints are given up one after the other, in the configured order;    *)
(* the call is answered by the endpoint it has come to, refused because of *)
(* an error that no other endpoint could cure, or fails when every         *)
(* endpoint has been given up - never earlier.                             *)
(***************************************************************************)
EXTENDS Naturals

CONSTANT N     \* the number of endpoints

VARIABLES
    givenUp,   \* endpoints 1..givenUp have been given up
    verdict    \* "pending", "answered", "refused" or "exhausted"

vars == <<givenUp, verdict>>

Init ==
    /\ givenUp = 0
    /\ verdict = "pending"

GiveUp ==
    /\ verdict = "pending"
    /\ givenUp' = givenUp + 1
    /\ verdict' = IF givenUp' = N THEN "exhausted" ELSE "pending"

Settle ==
    /\ verdict = "pending"
    /\ verdict' \in {"answered", "refused"}
    /\ UNCHANGED givenUp

Next == GiveUp \/ Settle

Spec == Init /\ [][Next]_vars
===============================================================================
