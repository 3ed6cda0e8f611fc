----------------------------- MODULE Settlement -----------------------------
(***************************************************************************)
(* What a caller of waitFor() may rely on: the promise settles once, with  *)
(* one of the outcomes the code can produce, at a time that is bounded     *)
(* before the call is made.  Nothing is said of probes, timers or sleeps.  *)
(***************************************************************************)
EXTENDS Naturals

CONSTANTS
    Bound,      \* the latest time, after the call, at which the promise settles
    Outcomes    \* what it can settle with

VARIABLES now, outcome

vars == <<now, outcome>>

Init == now = 0 /\ outcome = "pending"

\* Time passes while the promise is pending, but never past the bound.
Tick ==
    /\ outcome = "pending"
    /\ now < Bound
    /\ now' = now + 1
    /\ UNCHANGED outcome

Settle ==
    /\ outcome = "pending"
    /\ outcome' \in Outcomes
    /\ UNCHANGED now

Next == Tick \/ Settle

Safety == Init /\ [][Next]_vars

Spec == Safety /\ WF_vars(Next)
=============================================================================
