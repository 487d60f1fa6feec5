------------------------------ MODULE ChatCall ------------------------------
(***************************************************************************)
(* What a call of the language model promises to the agents, without       *)
(* attempts, errors or waiting: the provider receives at most MaxRequests  *)
(* requests, then there is one outcome and nothing follows it.  An answer  *)
(* is only returned when the provider was asked.                           *)
(***************************************************************************)
EXTENDS Naturals

CONSTANT MaxRequests

VARIABLES
    received, \* requests the provider has received
    outcome   \* "none" until the call is over

vars == <<received, outcome>>

\* "unreadable": describing the failure raises as well.
Outcomes == {"reply", "failed", "unreadable"}

Init == received = 0 /\ outcome = "none"

Receive ==
    /\ outcome = "none"
    /\ received < MaxRequests
    /\ received' = received + 1
    /\ UNCHANGED outcome

Return(o) ==
    /\ outcome = "none"
    /\ o = "failed" \/ received > 0
    /\ outcome' = o
    /\ UNCHANGED received

Next == Receive \/ \E o \in Outcomes : Return(o)

Spec == Init /\ [][Next]_vars
=============================================================================
