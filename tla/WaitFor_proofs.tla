---------------------------- MODULE WaitFor_proofs ----------------------------
(***************************************************************************)
(* Proofs about WaitFor for every delay, interval, timeout and probe time: *)
(* its types, the bound on the time it takes to settle, the pace of its    *)
(* probes, and that each of its steps is a step of Settlement.             *)
(***************************************************************************)
EXTENDS WaitFor, Integers, TLAPS

-----------------------------------------------------------------------------
\* The strengthening of SettledInTime: where the clock, the start of the current
\* await and the deadline stand at each await.
AwaitBounds ==
    /\ since <= now
    /\ now <= since + Span(pc)
    /\ pc = "delay" => since = 0 /\ probes = 0
    /\ pc # "delay" => deadline = Delay + Timeout /\ probes > 0 /\ Delay <= since
    /\ pc = "probing" => since <= Delay + Overrun
    /\ pc = "sleeping" => since < deadline
    /\ pc = "settled" => since <= LatestSettlement

TimeInv == TypeOK /\ AwaitBounds

LEMMA SpanType ==
    /\ \A at : Span(at) \in Nat
    /\ Span("delay") = Delay
    /\ Span("probing") = ProbeTime
    /\ Span("sleeping") = Interval
    /\ Span("settled") = 0
BY WaitForAssumption DEF Span

LEMMA BoundsType == Overrun \in Nat /\ LatestSettlement \in Nat
BY WaitForAssumption DEF Overrun, LatestSettlement

LEMMA TimeInvInit == Init => TimeInv
BY WaitForAssumption, SpanType DEF Init, TimeInv, TypeOK, AwaitBounds, Outcomes, Present

LEMMA TimeInvStep == TimeInv /\ [Next \/ Done]_vars => TimeInv'
<1> SUFFICES ASSUME TimeInv, [Next \/ Done]_vars
             PROVE  TimeInv'
  OBVIOUS
<1> USE WaitForAssumption, SpanType
<1>1. CASE Tick
  <2>1. TypeOK'
    BY <1>1 DEF Tick, TimeInv, TypeOK
  <2>2. AwaitBounds'
    BY <1>1, SpanType DEF Tick, TimeInv, TypeOK, AwaitBounds, LatestSettlement
  <2> QED BY <2>1, <2>2 DEF TimeInv
<1>2. CASE StartProbing
  <2>1. TypeOK'
    BY <1>2 DEF StartProbing, TimeInv, TypeOK
  <2>2. AwaitBounds'
    BY <1>2, BoundsType DEF StartProbing, TimeInv, TypeOK, AwaitBounds
  <2> QED BY <2>1, <2>2 DEF TimeInv
<1>3. ASSUME NEW v \in Outcomes, pc = "probing", Settle(v)
      PROVE  TimeInv'
  <2>1. TypeOK'
    BY <1>3 DEF Settle, TimeInv, TypeOK, Outcomes, Present
  <2>2. AwaitBounds'
    BY <1>3, BoundsType
    DEF Settle, TimeInv, TypeOK, AwaitBounds, LatestSettlement
  <2> QED BY <2>1, <2>2 DEF TimeInv
<1>4. CASE ProbeAnswers
  <2>1. PICK v \in Present \cup Absent : ProbeResolves(v)
    BY <1>4 DEF ProbeAnswers
  <2>2. CASE Accepts(v) /\ Settle(v)
    BY <1>3, <2>1, <2>2 DEF ProbeResolves, Accepts, Outcomes
  <2>3. CASE Settle("timeout")
    BY <1>3, <2>1, <2>3 DEF ProbeResolves, Outcomes
  <2>4. CASE /\ ~Accepts(v) /\ ~Expired
             /\ pc' = "sleeping"
             /\ since' = now
             /\ UNCHANGED <<now, deadline, probes, outcome>>
    <3>1. TypeOK'
      BY <2>1, <2>4 DEF ProbeResolves, TimeInv, TypeOK
    <3>2. AwaitBounds'
      BY <2>1, <2>4
      DEF ProbeResolves, Expired, TimeInv, TypeOK, AwaitBounds
    <3> QED BY <3>1, <3>2 DEF TimeInv
  <2> QED BY <2>1, <2>2, <2>3, <2>4 DEF ProbeResolves
<1>5. CASE ProbeThrows
  BY <1>3, <1>5 DEF ProbeThrows, Outcomes
<1>6. CASE Wake
  <2>1. TypeOK'
    BY <1>6 DEF Wake, TimeInv, TypeOK
  <2>2. AwaitBounds'
    BY <1>6 DEF Wake, TimeInv, TypeOK, AwaitBounds, Overrun
  <2> QED BY <2>1, <2>2 DEF TimeInv
<1>7. CASE UNCHANGED vars
  BY <1>7 DEF vars, TimeInv, TypeOK, AwaitBounds
<1> QED BY <1>1, <1>2, <1>4, <1>5, <1>6, <1>7 DEF Next, Done

LEMMA TimeInvBound == TimeInv => SettledInTime
<1> SUFFICES ASSUME TimeInv PROVE SettledInTime
  OBVIOUS
<1>1. pc \in {"delay", "probing", "sleeping", "settled"}
  BY DEF TimeInv, TypeOK
<1> QED
  BY <1>1, SpanType, WaitForAssumption
  DEF TimeInv, TypeOK, AwaitBounds, SettledInTime, LatestSettlement, Overrun

LEMMA TimeInvariant == Spec => []TimeInv
<1>1. Init => TimeInv
  BY TimeInvInit
<1>2. TimeInv /\ [Next \/ Done]_vars => TimeInv'
  BY TimeInvStep
<1> QED BY <1>1, <1>2, PTL DEF Spec

\* The variables of waitFor() keep their types.
THEOREM TypeCorrect == Spec => []TypeOK
<1>1. TimeInv => TypeOK
  BY DEF TimeInv
<1> QED BY <1>1, TimeInvariant, PTL

\* A call of waitFor() is settled by Delay + Timeout + Interval - 1 + ProbeTime.
THEOREM BoundedSettlement == Spec => []SettledInTime
<1>1. TimeInv => SettledInTime
  BY TimeInvBound
<1> QED BY <1>1, TimeInvariant, PTL

-----------------------------------------------------------------------------
\* The strengthening of PollingRate: it counts at the start of the current await,
\* where the probes so far have each been followed by at most one interval.
ProbesInv ==
    /\ probes > 0 => Delay + (probes - 1) * Interval <= since
    /\ pc = "probing" => since <= Delay + (probes - 1) * (ProbeTime + Interval)
    /\ pc = "sleeping" =>
         since <= Delay + (probes - 1) * (ProbeTime + Interval) + ProbeTime
    /\ outcome = "timeout" =>
         /\ deadline <= since
         /\ since <= Delay + (probes - 1) * (ProbeTime + Interval) + ProbeTime

\* Another turn of the loop adds its factor once.
LEMMA OneMore ==
    ASSUME NEW n \in Nat, n > 0, NEW k \in Nat
    PROVE  /\ (n - 1) * k \in Nat
           /\ ((n + 1) - 1) * k = (n - 1) * k + k
           /\ n * k = (n - 1) * k + k
<1>1. n - 1 \in Nat
  OBVIOUS
<1>2. \A m \in Nat : m * k \in Nat /\ (m + 1) * k = m * k + k
  OBVIOUS
<1>3. ((n - 1) + 1) * k = (n - 1) * k + k
  BY <1>1, <1>2
<1>4. (n - 1) + 1 = n /\ (n + 1) - 1 = n
  OBVIOUS
<1> QED BY <1>1, <1>2, <1>3, <1>4

LEMMA ProbesInvStep ==
    TimeInv /\ ProbesInv /\ [Next \/ Done]_vars => ProbesInv'
<1> SUFFICES ASSUME TimeInv, ProbesInv, [Next \/ Done]_vars
             PROVE  ProbesInv'
  OBVIOUS
<1> USE WaitForAssumption, SpanType
<1>t. /\ ProbeTime + Interval \in Nat
      /\ probes \in Nat /\ now \in Nat /\ since \in Nat /\ deadline \in Nat
  BY DEF TimeInv, TypeOK
<1>1. CASE Tick
  BY <1>1 DEF Tick, ProbesInv
<1>2. CASE StartProbing
  BY <1>2 DEF StartProbing, TimeInv, TypeOK, AwaitBounds, ProbesInv
<1>3. ASSUME pc = "probing", NEW v \in Outcomes, Settle(v), v = "timeout" => Expired
      PROVE  ProbesInv'
  <2>1. (probes - 1) * Interval \in Int /\ (probes - 1) * (ProbeTime + Interval) \in Int
    BY <1>t
  <2> HIDE DEF Outcomes
  <2> QED
    BY <1>3, <1>t, <2>1
    DEF Settle, Expired, TimeInv, TypeOK, AwaitBounds, ProbesInv
<1>4. CASE ProbeAnswers
  <2>1. PICK v \in Present \cup Absent : ProbeResolves(v)
    BY <1>4 DEF ProbeAnswers
  <2>2. CASE Accepts(v) /\ Settle(v)
    BY <1>3, <2>1, <2>2 DEF ProbeResolves, Accepts, Outcomes, Present
  <2>3. CASE Expired /\ Settle("timeout")
    BY <1>3, <2>1, <2>3 DEF ProbeResolves, Outcomes
  <2>4. CASE /\ ~Accepts(v) /\ ~Expired
             /\ pc' = "sleeping"
             /\ since' = now
             /\ UNCHANGED <<now, deadline, probes, outcome>>
    <3>1. (probes - 1) * Interval \in Int /\ (probes - 1) * (ProbeTime + Interval) \in Int
      BY <1>t
    <3> QED
      BY <2>1, <1>t, <2>4, <3>1
      DEF ProbeResolves, TimeInv, TypeOK, AwaitBounds, ProbesInv
  <2> QED BY <2>1, <2>2, <2>3, <2>4 DEF ProbeResolves
<1>5. CASE ProbeThrows
  BY <1>3, <1>5 DEF ProbeThrows, Outcomes
<1>6. CASE Wake
  <2>1. probes > 0 /\ outcome # "timeout"
    BY <1>6 DEF Wake, TimeInv, TypeOK, AwaitBounds
  <2>2. /\ (probes - 1) * Interval \in Nat
        /\ ((probes + 1) - 1) * Interval = (probes - 1) * Interval + Interval
    BY <1>t, <2>1, OneMore
  <2>3. /\ (probes - 1) * (ProbeTime + Interval) \in Nat
        /\ ((probes + 1) - 1) * (ProbeTime + Interval)
             = (probes - 1) * (ProbeTime + Interval) + (ProbeTime + Interval)
    BY <1>t, <2>1, OneMore
  <2> QED
    BY <1>6, <1>t, <2>1, <2>2, <2>3
    DEF Wake, TimeInv, TypeOK, AwaitBounds, ProbesInv
<1>7. CASE UNCHANGED vars
  BY <1>7 DEF vars, ProbesInv
<1> QED BY <1>1, <1>2, <1>4, <1>5, <1>6, <1>7 DEF Next, Done

LEMMA ProbesInvBound == TimeInv /\ ProbesInv => PollingRate
<1> SUFFICES ASSUME TimeInv, ProbesInv PROVE PollingRate
  OBVIOUS
<1> USE WaitForAssumption
<1>1. /\ ProbeTime + Interval \in Nat /\ probes \in Nat
      /\ now \in Nat /\ since \in Nat /\ deadline \in Nat /\ since <= now
  BY DEF TimeInv, TypeOK, AwaitBounds
<1>2. (probes - 1) * Interval \in Int
  BY <1>1
<1>3. probes > 0 => Delay + (probes - 1) * Interval <= now
  BY <1>1, <1>2 DEF ProbesInv
<1>4. ASSUME outcome = "timeout"
      PROVE  /\ now >= Delay + Timeout
             /\ Timeout <= probes * ProbeTime + (probes - 1) * Interval
  <2>1. pc # "delay" /\ probes > 0 /\ deadline = Delay + Timeout
    BY <1>4 DEF TimeInv, TypeOK, AwaitBounds
  <2>2. /\ deadline <= since
        /\ since <= Delay + (probes - 1) * (ProbeTime + Interval) + ProbeTime
    BY <1>4 DEF ProbesInv
  <2>3. (probes - 1) * (ProbeTime + Interval)
          = (probes - 1) * ProbeTime + (probes - 1) * Interval
    BY <1>1
  <2>4. /\ (probes - 1) * ProbeTime \in Nat
        /\ probes * ProbeTime = (probes - 1) * ProbeTime + ProbeTime
    BY <1>1, <2>1, OneMore
  <2> QED BY <1>1, <1>2, <2>1, <2>2, <2>3, <2>4
<1> QED BY <1>3, <1>4 DEF PollingRate

\* waitFor() neither asks too often nor gives up before it has asked enough.
THEOREM PollingPace == Spec => []PollingRate
<1>1. Init => ProbesInv
  BY DEF Init, ProbesInv
<1>2. TimeInv /\ ProbesInv /\ [Next \/ Done]_vars => ProbesInv'
  BY ProbesInvStep
<1>3. TimeInv /\ ProbesInv => PollingRate
  BY ProbesInvBound
<1> QED BY <1>1, <1>2, <1>3, TimeInvariant, PTL DEF Spec

-----------------------------------------------------------------------------
LEMMA PromiseStep ==
    TimeInv /\ SettledInTime' /\ [Next \/ Done]_vars => [Promise!Next]_(Promise!vars)
<1> SUFFICES ASSUME TimeInv, SettledInTime', [Next \/ Done]_vars
             PROVE  Promise!Tick \/ Promise!Settle \/ UNCHANGED <<now, outcome>>
  BY DEF Promise!Next, Promise!vars
<1>1. ASSUME NEW v \in Outcomes, pc = "probing", Settle(v)
      PROVE  Promise!Settle
  BY <1>1 DEF Settle, Promise!Settle, TimeInv, TypeOK
<1>2. CASE Tick
  <2>1. now' <= LatestSettlement
    BY DEF SettledInTime
  <2>2. outcome = "pending"
    BY <1>2, SpanType DEF Tick, TimeInv, TypeOK, AwaitBounds
  <2>3. now < LatestSettlement
    BY <1>2, <2>1, BoundsType DEF Tick, TimeInv, TypeOK
  <2> QED BY <1>2, <2>2, <2>3 DEF Tick, Promise!Tick
<1>3. CASE StartProbing
  BY <1>3 DEF StartProbing
<1>4. CASE ProbeAnswers
  BY <1>1, <1>4 DEF ProbeAnswers, ProbeResolves, Accepts, Outcomes
<1>5. CASE ProbeThrows
  BY <1>1, <1>5 DEF ProbeThrows, Outcomes
<1>6. CASE Wake
  BY <1>6 DEF Wake
<1>7. CASE UNCHANGED vars
  BY <1>7 DEF vars
<1> QED BY <1>2, <1>3, <1>4, <1>5, <1>6, <1>7 DEF Next, Done

\* The polling loop implements the promise it returns: each of its steps settles
\* it once, lets time pass within the bound, or leaves it alone.
THEOREM ImplementsSettlement == Spec => Promise!Safety
<1>1. Init => Promise!Init
  BY DEF Init, Promise!Init
<1>2. TimeInv /\ SettledInTime' /\ [Next \/ Done]_vars => [Promise!Next]_(Promise!vars)
  BY PromiseStep
<1> QED
  BY <1>1, <1>2, TimeInvariant, BoundedSettlement, PTL DEF Spec, Promise!Safety
=============================================================================
