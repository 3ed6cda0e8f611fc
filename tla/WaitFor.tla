------------------------------- MODULE WaitFor -------------------------------
(***************************************************************************)
(* waitFor(probe, { intervalMs, timeoutMs, delayMs }): the polling loop    *)
(* under every resource of the program that waits for something remote.    *)
(* Each await of the code is a state of its own, so that the clock moves   *)
(* while the loop is suspended; a timer fires when it is due (the event    *)
(* loop is otherwise idle), and a probe may take up to ProbeTime.          *)
(***************************************************************************)
EXTENDS Naturals

CONSTANTS
    Delay,      \* delayMs: the wait before the first probe
    Interval,   \* intervalMs: the wait between two probes
    Timeout,    \* timeoutMs
    ProbeTime   \* the longest a probe takes; the requests in it have timeouts

ASSUME WaitForAssumption ==
    /\ Delay \in Nat
    /\ Interval \in Nat \ {0}
    /\ Timeout \in Nat
    /\ ProbeTime \in Nat

VARIABLES
    pc,         \* which await the call is suspended at
    now,        \* Date.now(), counted from the call
    since,      \* when the current await began
    deadline,   \* the const of that name, 0 before it is computed
    probes,     \* probes started
    outcome     \* what the promise settled with

vars == <<pc, now, since, deadline, probes, outcome>>

\* What a probe resolves with, as far as the loop and its callers tell apart:
\* "empty" stands for the falsy values that are present ("", 0, false).
Present == {"value", "empty"}
Absent == {"undefined", "null"}
Outcomes == Present \cup {"timeout", "rejected"}

\* The longest the call stays at an await.
Span(at) ==
    CASE at = "delay" -> Delay
      [] at = "probing" -> ProbeTime
      [] at = "sleeping" -> Interval
      [] OTHER -> 0

Init ==
    /\ pc = "delay"
    /\ now = 0 /\ since = 0 /\ deadline = 0
    /\ probes = 0
    /\ outcome = "pending"

Tick ==
    /\ now < since + Span(pc)
    /\ now' = now + 1
    /\ UNCHANGED <<pc, since, deadline, probes, outcome>>

\* The initial delay is over: the deadline is fixed and the first probe starts.
StartProbing ==
    /\ pc = "delay"
    /\ now = since + Delay
    /\ deadline' = now + Timeout
    /\ pc' = "probing"
    /\ since' = now
    /\ probes' = probes + 1
    /\ UNCHANGED <<now, outcome>>

\* Plausible bug: the loop is left by `break`, which settles nothing.
SettleNothing(result) ==
    /\ pc' = "settled"
    /\ since' = now
    /\ UNCHANGED <<now, deadline, probes, outcome>>

Settle(result) ==
    /\ pc' = "settled"
    /\ since' = now
    /\ outcome' = result
    /\ UNCHANGED <<now, deadline, probes>>

\* v !== undefined && v !== null
Accepts(v) == v \in Present

\* Plausible bug: the deadline is compared only with the time of the call.
NeverExpires == FALSE

\* Plausible bug: the test is now > deadline.
ExpiresLate == now > deadline

\* Date.now() >= deadline
Expired == now >= deadline

\* The probe resolves with v: settle with it, time out, or sleep.
ProbeResolves(v) ==
    /\ pc = "probing"
    /\ \/ Accepts(v) /\ Settle(v)
       \/ ~Accepts(v) /\ Expired /\ Settle("timeout")
       \/ /\ ~Accepts(v) /\ ~Expired
          /\ pc' = "sleeping"
          /\ since' = now
          /\ UNCHANGED <<now, deadline, probes, outcome>>

ProbeAnswers == \E v \in Present \cup Absent : ProbeResolves(v)

\* A rejected probe rejects the whole call: there is no catch in the loop.
ProbeThrows == pc = "probing" /\ Settle("rejected")

\* Plausible bug: the sleep is not awaited.
WakeAtOnce ==
    /\ pc = "sleeping"
    /\ pc' = "probing"
    /\ since' = now
    /\ probes' = probes + 1
    /\ UNCHANGED <<now, deadline, outcome>>

Wake ==
    /\ pc = "sleeping"
    /\ now = since + Interval
    /\ pc' = "probing"
    /\ since' = now
    /\ probes' = probes + 1
    /\ UNCHANGED <<now, deadline, outcome>>

Done == pc = "settled" /\ UNCHANGED vars

Next == Tick \/ StartProbing \/ ProbeAnswers \/ ProbeThrows \/ Wake

Spec == Init /\ [][Next \/ Done]_vars

\* Timers fire and probes answer: Next is never refused for ever while it can
\* step.  Nothing else is assumed.
FairSpec == Spec /\ WF_vars(Next)

-----------------------------------------------------------------------------
\* The variables of waitFor() range over what the code stores in them.
TypeOK ==
    /\ pc \in {"delay", "probing", "sleeping", "settled"}
    /\ now \in Nat /\ since \in Nat /\ deadline \in Nat
    /\ probes \in Nat
    /\ outcome \in Outcomes \cup {"pending"}
    /\ outcome = "pending" <=> pc # "settled"

\* How far past the deadline a probe may still start: the check at one tick
\* before the deadline still sleeps a whole interval.
Overrun == IF Timeout = 0 THEN 0 ELSE Timeout - 1 + Interval

LatestSettlement == Delay + Overrun + ProbeTime

\* waitFor() is settled by this time, whatever the probes do: later than
\* timeoutMs by the delay, one interval and one probe, and never later.
SettledInTime == now <= LatestSettlement

\* A timeout is only reported once timeoutMs has passed since the first probe
\* started, and after as many probes as an endpoint that answers as slowly as it
\* may allows; and no endpoint is asked more often than once per interval.
PollingRate ==
    /\ probes > 0 => Delay + (probes - 1) * Interval <= now
    /\ outcome = "timeout" =>
         /\ now >= Delay + Timeout
         /\ Timeout <= probes * ProbeTime + (probes - 1) * Interval

\* The loop keeps the promise of Settlement: one outcome, in bounded time, and
\* always an outcome in the end.
Promise == INSTANCE Settlement WITH Bound <- LatestSettlement
KeepsPromise == Promise!Spec
=============================================================================
