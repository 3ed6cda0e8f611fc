----------------------------- MODULE Probes_proofs -----------------------------
(***************************************************************************)
(* Proofs about Probes for every set of callers, timeout, interval and     *)
(* retry limit: where the retries of every caller are counted, each step   *)
(* of a probe is a step of WaitFor, and a call is rejected for a reason.   *)
(***************************************************************************)
EXTENDS Probes, TLAPS

\* An attempt that fails, and the backoff after it.
Turn == RequestTime + RetryDelay

\* The latest that the current attempt, or the backoff after it, can have begun.
LatestSent ==
    since + (request - 1) * WorstRequest(kind) + (attempt - 1) * Turn
          + (IF phase = "backoff" THEN RequestTime ELSE 0)

\* Where the clock and the counts of a request stand while a probe is under way.
RequestInv ==
    phase \in {"inflight", "backoff"} =>
        /\ request \in 1..Requests(kind)
        /\ attempt \in 1..RetryLimit(kind) + 1
        /\ phase = "backoff" => attempt <= RetryLimit(kind)
        /\ since + (attempt - 1) * RetryDelay <= sent
        /\ sent <= LatestSent
        /\ sent <= now
        /\ now <= Due

\* The clock of the loop.
LoopInv ==
    /\ pc # "delay" => Delay <= since
    /\ since <= now
    /\ pc = "delay" => probes = 0

\* Why a call is over.
OutcomeInv ==
    /\ RejectedForAReason
    /\ ClusterIsAskedForOnce
    /\ kind = "clusterId" => pc # "sleeping"

Inv == TypeOK /\ RequestInv /\ LoopInv /\ OutcomeInv

Counted == "registrationToken" \notin Kinds

-----------------------------------------------------------------------------
LEMMA KindTypes ==
    ASSUME NEW k \in Kinds
    PROVE  /\ RetryLimit(k) \in Nat
           /\ Requests(k) \in {1, 2}
           /\ k \in Callers
BY ProbesAssumption DEF RetryLimit, Requests

LEMMA TurnType == Turn \in Nat /\ RequestTime \in Nat /\ RetryDelay \in Nat
BY ProbesAssumption DEF Turn

\* A request that uses all its retries is RetryLimit turns and an attempt.
LEMMA WorstIsTurns ==
    ASSUME NEW k \in Kinds
    PROVE  /\ WorstRequest(k) = RetryLimit(k) * Turn + RequestTime
           /\ WorstRequest(k) \in Nat
<1> DEFINE L == RetryLimit(k)
<1>1. L \in Nat /\ RequestTime \in Nat /\ RetryDelay \in Nat
  BY KindTypes, TurnType
<1>2. \A l, a, b \in Nat : (l + 1) * a + l * b = l * (a + b) + a /\ l * (a + b) + a \in Nat
  OBVIOUS
<1> HIDE DEF L
<1>3. (L + 1) * RequestTime + L * RetryDelay = L * (RequestTime + RetryDelay) + RequestTime
      /\ L * (RequestTime + RetryDelay) + RequestTime \in Nat
  BY <1>1, <1>2
<1> QED BY <1>3 DEF WorstRequest, Turn, L

LEMMA Monotone ==
    ASSUME NEW m \in Nat, NEW n \in Nat, m <= n, NEW k \in Nat
    PROVE  m * k <= n * k /\ m * k \in Nat /\ n * k \in Nat
<1>1. PICK d \in Nat : n = m + d
  <2>1. n - m \in Nat /\ n = m + (n - m)
    OBVIOUS
  <2> QED BY <2>1
<1>2. \A a, b \in Nat : (a + b) * k = a * k + b * k /\ a * k \in Nat /\ b * k \in Nat
  OBVIOUS
<1> QED BY <1>1, <1>2

\* One more turn.
LEMMA Another ==
    ASSUME NEW n \in Nat, n > 0, NEW k \in Nat
    PROVE  /\ (n - 1) * k \in Nat
           /\ ((n + 1) - 1) * k = (n - 1) * k + k
           /\ n * k = (n - 1) * k + k
<1>1. n - 1 \in Nat
  OBVIOUS
<1>2. \A m \in Nat : m * k \in Nat /\ (m + 1) * k = m * k + k
  OBVIOUS
<1>3. ((n - 1) + 1) * k = (n - 1) * k + k
  BY <1>1, <1>2
<1>4. (n - 1) + 1 = n /\ (n + 1) - 1 = n
  OBVIOUS
<1> QED BY <1>1, <1>2, <1>3, <1>4

\* The bounds of a request under way as plain numbers.
LEMMA Numbers ==
    ASSUME TypeOK, RequestInv, phase \in {"inflight", "backoff"}
    PROVE  /\ since \in Nat /\ sent \in Nat /\ now \in Nat /\ request \in 1..2
           /\ attempt \in Nat \ {0}
           /\ (attempt - 1) * RetryDelay \in Nat /\ (attempt - 1) * Turn \in Nat
           /\ (request - 1) * WorstRequest(kind) \in Nat
           /\ LatestSent \in Nat
           /\ kind \in Kinds
<1>1. /\ since \in Nat /\ sent \in Nat /\ now \in Nat /\ request \in 1..2
      /\ attempt \in Nat \ {0} /\ kind \in Kinds
  <2>1. attempt \in 1..RetryLimit(kind) + 1 /\ request \in 1..Requests(kind)
    BY DEF RequestInv
  <2>2. kind \in Kinds /\ RetryLimit(kind) \in Nat /\ Requests(kind) \in {1, 2}
    BY KindTypes DEF TypeOK
  <2> QED BY <2>1, <2>2 DEF TypeOK, Loop!TypeOK
<1>2. (attempt - 1) * RetryDelay \in Nat /\ (attempt - 1) * Turn \in Nat
  BY <1>1, Another, TurnType
<1>3. (request - 1) * WorstRequest(kind) \in Nat
  BY <1>1, WorstIsTurns, Another
<1>4. LatestSent \in Nat
  BY <1>1, <1>2, <1>3, TurnType DEF LatestSent
<1> QED BY <1>1, <1>2, <1>3, <1>4

\* A probe under way has not used up its ProbeTime before it is due.
LEMMA DueInProbeTime ==
    ASSUME Counted, TypeOK, RequestInv, phase \in {"inflight", "backoff"}
    PROVE  Due <= since + ProbeTime /\ Due \in Nat
<1> USE TurnType
<1>1. /\ since \in Nat /\ sent \in Nat /\ request \in 1..2 /\ attempt \in Nat \ {0}
      /\ (attempt - 1) * Turn \in Nat /\ (request - 1) * WorstRequest(kind) \in Nat
      /\ kind \in Kinds /\ RetryLimit(kind) \in Nat /\ WorstRequest(kind) \in Nat
      /\ WorstRequest(kind) = RetryLimit(kind) * Turn + RequestTime
      /\ RetryLimit(kind) * Turn \in Nat
      /\ Requests(kind) \in {1, 2} /\ request <= Requests(kind)
  <2>1. \A l \in Nat : l * Turn \in Nat
    OBVIOUS
  <2> QED BY Numbers, KindTypes, WorstIsTurns, <2>1 DEF RequestInv
<1>2. (request - 1) * WorstRequest(kind) + WorstRequest(kind) <= ProbeTime
  <2>1. /\ request * WorstRequest(kind) = (request - 1) * WorstRequest(kind) + WorstRequest(kind)
        /\ request * WorstRequest(kind) <= Requests(kind) * WorstRequest(kind)
    BY <1>1, Another, Monotone
  <2>2. Requests(kind) * WorstRequest(kind) <= ProbeTime /\ ProbeTime \in Nat
        /\ Requests(kind) * WorstRequest(kind) \in Nat
    BY <1>1, ProbesAssumption
  <2> QED BY <1>1, <2>1, <2>2
<1>3. ProbeTime \in Nat
  BY ProbesAssumption
<1>4. CASE phase = "inflight"
  <2>1. attempt - 1 <= RetryLimit(kind) /\ attempt - 1 \in Nat
    BY <1>1, <1>4 DEF RequestInv
  <2>2. (attempt - 1) * Turn <= RetryLimit(kind) * Turn
    BY <1>1, <2>1, Monotone
  <2>3. sent <= since + (request - 1) * WorstRequest(kind) + (attempt - 1) * Turn
    BY <1>1, <1>4 DEF RequestInv, LatestSent
  <2>4. Due = sent + RequestTime
    BY <1>4 DEF Due
  <2> QED BY <1>1, <1>2, <1>3, <2>2, <2>3, <2>4
<1>5. CASE phase = "backoff"
  <2>1. /\ attempt <= RetryLimit(kind)
        /\ attempt * Turn = (attempt - 1) * Turn + Turn
        /\ attempt * Turn <= RetryLimit(kind) * Turn
    BY <1>1, <1>5, Another, Monotone DEF RequestInv
  <2>2. sent <= since + (request - 1) * WorstRequest(kind) + (attempt - 1) * Turn + RequestTime
    BY <1>1, <1>5 DEF RequestInv, LatestSent
  <2>3. Due = sent + RetryDelay /\ Turn = RequestTime + RetryDelay
    BY <1>5 DEF Due, Turn
  <2> QED BY <1>1, <1>2, <1>3, <2>1, <2>2, <2>3
<1> QED BY <1>4, <1>5

-----------------------------------------------------------------------------
\* Why the current probe may reject its call, f being whether the server failed.
Reason(f) ==
    /\ kind # "kubeWait"
    /\ \/ <<kind, object>> \in Impatient
       \/ /\ now >= Delay + RetryLimit(kind) * RetryDelay
          /\ f \/ (object = "absent" /\ kind # "remoteKubeconfig")

LEMMA InvInit == Init => Inv
<1> SUFFICES ASSUME Init PROVE Inv
  OBVIOUS
<1>1. TypeOK
  <2>1. Loop!TypeOK
    BY DEF Init, Loop!Init, Loop!TypeOK
  <2>2. failed \in BOOLEAN
    BY DEF Init
  <2> QED BY <2>1, <2>2 DEF Init, Loop!Init, TypeOK
<1>2. RequestInv /\ LoopInv
  BY DEF Init, Loop!Init, RequestInv, LoopInv
<1>3. OutcomeInv
  BY DEF Init, Loop!Init, OutcomeInv, RejectedForAReason, Rejects, ClusterIsAskedForOnce
<1> QED BY <1>1, <1>2, <1>3 DEF Inv

LEMMA TickKeeps == ASSUME Inv, Tick PROVE Inv'
<1>1. TypeOK'
  BY DEF Inv, TypeOK, Loop!TypeOK, Tick, requestVars
<1>2. RequestInv'
  <2> SUFFICES ASSUME phase' \in {"inflight", "backoff"} PROVE RequestInv'
    BY DEF RequestInv
  <2>1. now' <= Due /\ Due' = Due
    BY TurnType DEF Tick, requestVars, Due, Inv, TypeOK, Loop!TypeOK
  <2>2. sent <= now' /\ LatestSent' = LatestSent
    BY DEF Tick, requestVars, RequestInv, Inv, TypeOK, Loop!TypeOK, LatestSent
  <2> QED BY <2>1, <2>2 DEF Tick, requestVars, RequestInv, Inv
<1>3. LoopInv'
  BY DEF Tick, Inv, TypeOK, Loop!TypeOK, LoopInv
<1>4. OutcomeInv'
  <2>1. /\ Delay + RetryLimit(kind) * RetryDelay \in Nat /\ now \in Nat
    BY KindTypes, TurnType, ProbesAssumption DEF Inv, TypeOK, Loop!TypeOK
  <2>2. now >= Delay + RetryLimit(kind) * RetryDelay
          => now' >= Delay + RetryLimit(kind) * RetryDelay
    BY <2>1 DEF Tick
  <2> QED
    BY <2>2
    DEF Tick, Inv, OutcomeInv, RejectedForAReason, Rejects, ClusterIsAskedForOnce
<1> QED BY <1>1, <1>2, <1>3, <1>4 DEF Inv

LEMMA ProgressKeeps == ASSUME Inv, Progress PROVE Inv'
<1>1. TypeOK' /\ outcome = "pending"
  BY DEF Inv, TypeOK, Loop!TypeOK, Progress, loopVars, requestVars
<1>2. RequestInv' /\ LoopInv'
  BY DEF Inv, Progress, loopVars, requestVars, RequestInv, LatestSent, Due, LoopInv
<1>3. OutcomeInv'
  BY <1>1
  DEF Inv, Progress, loopVars, OutcomeInv, RejectedForAReason, Rejects, ClusterIsAskedForOnce
<1> QED BY <1>1, <1>2, <1>3 DEF Inv

LEMMA StartProbeKeeps == ASSUME Inv, StartProbe PROVE Inv'
<1>1. /\ pc \in {"delay", "sleeping"} /\ pc' = "probing" /\ since' = now /\ now' = now
      /\ probes' = probes + 1 /\ outcome' = outcome /\ deadline' \in Nat
      /\ phase' = "inflight" /\ request' = 1 /\ attempt' = 1 /\ sent' = now
      /\ UNCHANGED <<kind, object, failed>>
  BY ProbesAssumption
  DEF Inv, TypeOK, Loop!TypeOK, StartProbe, Loop!StartProbing, Loop!Wake, Send
<1>2. Delay <= now
  BY ProbesAssumption
  DEF Inv, TypeOK, Loop!TypeOK, LoopInv, StartProbe, Loop!StartProbing, Loop!Wake
<1>3. TypeOK' /\ outcome = "pending"
  BY <1>1 DEF Inv, TypeOK, Loop!TypeOK
<1>4. RequestInv'
  <2>1. /\ kind \in Kinds /\ RetryLimit(kind) \in Nat /\ Requests(kind) \in {1, 2}
        /\ now \in Nat /\ WorstRequest(kind) \in Nat
    BY KindTypes, WorstIsTurns DEF Inv, TypeOK, Loop!TypeOK
  <2>2. /\ (1 - 1) * RetryDelay = 0 /\ (1 - 1) * Turn = 0
        /\ (1 - 1) * WorstRequest(kind) = 0
    BY <2>1, TurnType
  <2>3. LatestSent' = now
    BY <1>1, <2>1, <2>2 DEF LatestSent
  <2>4. Due' = now + RequestTime
    BY <1>1 DEF Due
  <2> QED BY <1>1, <2>1, <2>2, <2>3, <2>4, TurnType DEF RequestInv
<1>5. LoopInv'
  BY <1>1, <1>2 DEF LoopInv, Inv, TypeOK, Loop!TypeOK
<1>6. OutcomeInv'
  BY <1>1, <1>3
  DEF Inv, OutcomeInv, LoopInv, RejectedForAReason, Rejects, ClusterIsAskedForOnce
<1> QED BY <1>3, <1>4, <1>5, <1>6 DEF Inv

LEMMA ProceedKeeps == ASSUME Inv, Proceed PROVE Inv'
<1> USE TurnType
<1>1. /\ phase = "inflight" /\ request < Requests(kind) /\ phase' = "inflight"
      /\ request' = request + 1 /\ attempt' = 1 /\ sent' = now
      /\ UNCHANGED <<pc, now, since, deadline, probes, outcome, kind, object, failed>>
  BY DEF Proceed, Send, loopVars
<1>2. /\ kind \in Kinds /\ RetryLimit(kind) \in Nat /\ Requests(kind) \in {1, 2}
      /\ now \in Nat /\ since \in Nat /\ sent \in Nat /\ WorstRequest(kind) \in Nat
      /\ request \in 1..2 /\ attempt \in Nat \ {0}
      /\ (attempt - 1) * Turn \in Nat /\ (request - 1) * WorstRequest(kind) \in Nat
  BY <1>1, KindTypes, WorstIsTurns, Numbers DEF Inv
<1>3. TypeOK'
  BY <1>1, <1>2 DEF Inv, TypeOK, Loop!TypeOK
<1>4. RequestInv'
  <2>1. /\ (1 - 1) * RetryDelay = 0 /\ (1 - 1) * Turn = 0
        /\ ((request + 1) - 1) * WorstRequest(kind)
             = (request - 1) * WorstRequest(kind) + WorstRequest(kind)
    BY <1>2, Another
  <2>2. (attempt - 1) * Turn <= RetryLimit(kind) * Turn /\ RetryLimit(kind) * Turn \in Nat
    <3>1. attempt - 1 <= RetryLimit(kind) /\ attempt - 1 \in Nat
      BY <1>1, <1>2 DEF Inv, RequestInv
    <3> QED BY <1>2, <3>1, Monotone
  <2>3. /\ now <= sent + RequestTime
        /\ sent <= since + (request - 1) * WorstRequest(kind) + (attempt - 1) * Turn
    BY <1>1, <1>2 DEF Inv, RequestInv, Due, LatestSent
  <2>4. WorstRequest(kind) = RetryLimit(kind) * Turn + RequestTime
    BY <1>2, WorstIsTurns
  <2>5. now <= since + (request - 1) * WorstRequest(kind) + WorstRequest(kind)
    BY <1>2, <2>2, <2>3, <2>4
  <2>6. LatestSent' = since + (request - 1) * WorstRequest(kind) + WorstRequest(kind)
    BY <1>1, <1>2, <2>1 DEF LatestSent
  <2>7. Due' = now + RequestTime /\ since <= now
    BY <1>1 DEF Due, Inv, LoopInv
  <2>8. request + 1 \in 1..Requests(kind) /\ 1 \in 1..RetryLimit(kind) + 1
    BY <1>1, <1>2
  <2>9. now <= LatestSent' /\ now <= now + RequestTime
    BY <1>2, <2>5, <2>6
  <2> QED
    BY <1>1, <1>2, <2>1, <2>7, <2>8, <2>9 DEF RequestInv
<1>5. LoopInv' /\ OutcomeInv'
  BY <1>1
  DEF Inv, LoopInv, OutcomeInv, RejectedForAReason, Rejects, ClusterIsAskedForOnce
<1> QED BY <1>3, <1>4, <1>5 DEF Inv

\* The probe settles its call.
LEMMA SettleKeeps ==
    ASSUME Inv, pc = "probing", NEW v \in {"value", "empty", "timeout", "rejected"},
           Loop!Settle(v), EndRequest, UNCHANGED <<kind, object>>, failed' \in BOOLEAN,
           v \in {"rejected", "empty"} => Reason(failed'),
           kind = "clusterId" => v # "timeout"
    PROVE  Inv'
<1>1. TypeOK'
  BY DEF Inv, TypeOK, Loop!TypeOK, Loop!Outcomes, Loop!Present, Loop!Settle, EndRequest
<1>2. RequestInv'
  BY DEF RequestInv, EndRequest
<1>3. LoopInv'
  BY ProbesAssumption DEF Inv, TypeOK, Loop!TypeOK, LoopInv, Loop!Settle
<1>4. RejectedForAReason'
  BY DEF RejectedForAReason, Rejects, Reason, Loop!Settle
<1>5. ClusterIsAskedForOnce' /\ (kind' = "clusterId" => pc' # "sleeping")
  BY DEF Inv, OutcomeInv, ClusterIsAskedForOnce, Loop!Settle
<1> QED BY <1>1, <1>2, <1>3, <1>4, <1>5 DEF Inv, OutcomeInv

\* The probe resolves with nothing the loop accepts: a timeout or a sleep.
LEMMA UndefinedKeeps ==
    ASSUME Inv, Loop!ProbeResolves("undefined"), EndRequest, UNCHANGED <<kind, object>>,
           failed' \in BOOLEAN, kind # "clusterId"
    PROVE  Inv'
<1>1. ~Loop!Accepts("undefined") /\ pc = "probing"
  BY DEF Loop!Accepts, Loop!Present, Loop!ProbeResolves
<1>2. CASE Loop!Settle("timeout")
  BY <1>1, <1>2, SettleKeeps
<1>3. CASE pc' = "sleeping" /\ since' = now /\ UNCHANGED <<now, deadline, probes, outcome>>
  <2>1. TypeOK' /\ outcome = "pending"
    BY <1>1, <1>3 DEF Inv, TypeOK, Loop!TypeOK, EndRequest
  <2>2. RequestInv'
    BY DEF RequestInv, EndRequest
  <2>3. LoopInv'
    BY <1>1, <1>3, ProbesAssumption DEF Inv, TypeOK, Loop!TypeOK, LoopInv
  <2>4. OutcomeInv'
    BY <1>3, <2>1 DEF OutcomeInv, RejectedForAReason, Rejects, ClusterIsAskedForOnce
  <2> QED BY <2>1, <2>2, <2>3, <2>4 DEF Inv
<1> QED BY <1>1, <1>2, <1>3 DEF Loop!ProbeResolves

LEMMA RespondKeeps == ASSUME Inv, Respond PROVE Inv'
<1>1. /\ pc = "probing" /\ kind \in Callers /\ object \in {"absent", "partial", "ready"}
      /\ failed' \in BOOLEAN /\ EndRequest /\ UNCHANGED <<kind, object>>
  BY KindTypes DEF Inv, TypeOK, Respond
<1>2. CASE "throws" \in Reads(kind, object) /\ Loop!ProbeThrows
  <2>1. <<kind, object>> \in Impatient /\ kind # "kubeWait"
    BY <1>1, <1>2
    DEF Reads, Plain, FindsCluster, FirstAddress, FindsBridge, ReadsFile, Impatient, Callers
  <2> QED BY <1>1, <1>2, <2>1, SettleKeeps DEF Loop!ProbeThrows, Reason
<1>3. ASSUME NEW v \in Reads(kind, object) \cap {"value", "empty", "undefined"},
             Loop!ProbeResolves(v)
      PROVE  Inv'
  <2>1. CASE v = "undefined"
    <3>1. kind # "clusterId"
      BY <1>1, <1>3, <2>1 DEF Reads, FindsCluster
    <3> QED BY <1>1, <1>3, <2>1, <3>1, UndefinedKeeps
  <2>2. CASE v = "empty"
    <3>1. <<kind, object>> \in Impatient /\ kind # "kubeWait"
      BY <1>1, <1>3, <2>2
      DEF Reads, Plain, FindsCluster, FirstAddress, FindsBridge, ReadsFile, Impatient, Callers
    <3>2. Loop!Settle("empty")
      BY <1>3, <2>2 DEF Loop!ProbeResolves, Loop!Accepts, Loop!Present
    <3> QED BY <1>1, <3>1, <3>2, SettleKeeps DEF Reason
  <2>3. CASE v = "value"
    <3>1. Loop!Settle("value")
      BY <1>3, <2>3 DEF Loop!ProbeResolves, Loop!Accepts, Loop!Present
    <3> QED BY <1>1, <3>1, SettleKeeps
  <2> QED BY <1>3, <2>1, <2>2, <2>3
<1> QED BY <1>2, <1>3 DEF Respond

\* When the retries of a request are used up, they took this long.
LEMMA RetriesTakeTime ==
    ASSUME Inv, phase = "inflight", ~MayRetry
    PROVE  now >= Delay + RetryLimit(kind) * RetryDelay
<1>1. /\ attempt = RetryLimit(kind) + 1 /\ RetryLimit(kind) \in Nat
      /\ attempt - 1 = RetryLimit(kind)
  <2>1. /\ attempt \in 1..RetryLimit(kind) + 1 /\ ~(attempt <= RetryLimit(kind))
        /\ RetryLimit(kind) \in Nat
    BY KindTypes DEF Inv, TypeOK, RequestInv, MayRetry
  <2> QED BY <2>1
<1>2. since + (attempt - 1) * RetryDelay <= now /\ Delay <= since
  <2>1. /\ since + (attempt - 1) * RetryDelay <= sent /\ sent <= now
        /\ (attempt - 1) * RetryDelay \in Nat
        /\ since \in Nat /\ sent \in Nat /\ now \in Nat
    BY Numbers DEF Inv, RequestInv
  <2>2. pc # "delay"
    BY DEF Inv, TypeOK
  <2> QED BY <2>1, <2>2 DEF Inv, LoopInv
<1>3. since + RetryLimit(kind) * RetryDelay <= now /\ Delay <= since
  BY <1>1, <1>2
<1>4. RetryLimit(kind) * RetryDelay \in Nat /\ since \in Nat /\ now \in Nat /\ Delay \in Nat
  BY <1>1, TurnType, ProbesAssumption DEF Inv, TypeOK, Loop!TypeOK
<1> QED BY <1>3, <1>4

LEMMA RetryOrFailKeeps ==
    ASSUME Counted, Inv, phase = "inflight", RetryOrFail, UNCHANGED <<kind, object>>,
           failed' \in BOOLEAN,
           failed' \/ (object = "absent" /\ kind # "remoteKubeconfig"),
           failed => failed'
    PROVE  Inv'
<1>1. pc = "probing" /\ kind \in Kinds /\ kind # "registrationToken" /\ outcome = "pending"
  BY DEF Inv, TypeOK, Loop!TypeOK, Counted
<1>2. CASE /\ MayRetry
           /\ phase' = "backoff"
           /\ sent' = now
           /\ UNCHANGED <<loopVars, request, attempt>>
  <2>1. TypeOK'
    BY <1>2 DEF Inv, TypeOK, Loop!TypeOK, loopVars
  <2>2. RequestInv'
    <3>1. attempt <= RetryLimit(kind)
      BY <1>1, <1>2 DEF MayRetry
    <3>2. /\ since \in Nat /\ sent \in Nat /\ now \in Nat /\ request \in 1..2
          /\ (attempt - 1) * RetryDelay \in Nat /\ (attempt - 1) * Turn \in Nat
          /\ (request - 1) * WorstRequest(kind) \in Nat
      BY Numbers DEF Inv
    <3>3. /\ now <= sent + RequestTime
          /\ sent <= since + (request - 1) * WorstRequest(kind) + (attempt - 1) * Turn
          /\ since + (attempt - 1) * RetryDelay <= sent /\ sent <= now
      BY <3>2 DEF Inv, RequestInv, Due, LatestSent
    <3>4. LatestSent' = since + (request - 1) * WorstRequest(kind) + (attempt - 1) * Turn
                          + RequestTime
      BY <1>2 DEF LatestSent, loopVars
    <3>5. Due' = now + RetryDelay
      BY <1>2 DEF Due
    <3> QED
      BY <1>2, <3>1, <3>2, <3>3, <3>4, <3>5, TurnType DEF Inv, RequestInv, loopVars
  <2>3. LoopInv' /\ OutcomeInv'
    BY <1>1, <1>2
    DEF Inv, loopVars, LoopInv, OutcomeInv, RejectedForAReason, Rejects, ClusterIsAskedForOnce
  <2> QED BY <2>1, <2>2, <2>3 DEF Inv
<1>3. CASE ~MayRetry /\ Failed /\ EndRequest
  <2>1. CASE kind = "kubeWait"
    BY <1>3, <2>1, UndefinedKeeps DEF Failed
  <2>2. CASE kind # "kubeWait"
    <3>1. Loop!Settle("rejected")
      BY <1>3, <2>2 DEF Failed, Loop!ProbeThrows
    <3>2. Reason(failed')
      BY <1>3, <2>2, RetriesTakeTime DEF Reason
    <3> QED BY <1>1, <1>3, <3>1, <3>2, SettleKeeps
  <2> QED BY <2>1, <2>2
<1> QED BY <1>2, <1>3 DEF RetryOrFail

LEMMA NotFoundKeeps == ASSUME Counted, Inv, NotFound PROVE Inv'
<1>1. object = "absent" /\ kind # "remoteKubeconfig"
  BY KindTypes
  DEF Inv, TypeOK, NotFound, Reads, Plain, FindsCluster, FirstAddress, FindsBridge, ReadsFile,
      Callers
<1> QED BY <1>1, RetryOrFailKeeps DEF NotFound, Inv, TypeOK

LEMMA AttemptFailsKeeps == ASSUME Counted, Inv, AttemptFails PROVE Inv'
BY RetryOrFailKeeps DEF AttemptFails

LEMMA RetryKeeps == ASSUME Inv, Retry PROVE Inv'
<1> USE TurnType
<1>1. /\ phase = "backoff" /\ now = sent + RetryDelay /\ phase' = "inflight"
      /\ request' = request /\ attempt' = attempt + 1 /\ sent' = now
      /\ UNCHANGED <<pc, now, since, deadline, probes, outcome, kind, object, failed>>
  BY DEF Retry, Send, loopVars
<1>2. /\ kind \in Kinds /\ since \in Nat /\ sent \in Nat /\ now \in Nat
      /\ attempt \in Nat \ {0} /\ request \in 1..2 /\ RetryLimit(kind) \in Nat
      /\ (attempt - 1) * Turn \in Nat /\ (attempt - 1) * RetryDelay \in Nat
      /\ (request - 1) * WorstRequest(kind) \in Nat
  BY <1>1, KindTypes, Numbers DEF Inv
<1>3. TypeOK'
  BY <1>1, <1>2 DEF Inv, TypeOK, Loop!TypeOK
<1>4. RequestInv'
  <2>1. /\ ((attempt + 1) - 1) * Turn = (attempt - 1) * Turn + Turn
        /\ ((attempt + 1) - 1) * RetryDelay = (attempt - 1) * RetryDelay + RetryDelay
    BY <1>2, Another
  <2>2. /\ sent <= since + (request - 1) * WorstRequest(kind) + (attempt - 1) * Turn
                     + RequestTime
        /\ since + (attempt - 1) * RetryDelay <= sent
        /\ attempt <= RetryLimit(kind)
        /\ request \in 1..Requests(kind)
    BY <1>1, <1>2 DEF Inv, RequestInv, LatestSent
  <2>3. LatestSent' = since + (request - 1) * WorstRequest(kind) + (attempt - 1) * Turn + Turn
    BY <1>1, <1>2, <2>1 DEF LatestSent
  <2>4. Due' = now + RequestTime
    BY <1>1 DEF Due
  <2>5. Turn = RequestTime + RetryDelay
    BY DEF Turn
  <2>6. now <= LatestSent' /\ since + ((attempt + 1) - 1) * RetryDelay <= now
    BY <1>1, <1>2, <2>1, <2>2, <2>3, <2>5
  <2> QED BY <1>1, <1>2, <2>2, <2>4, <2>6 DEF RequestInv
<1>5. LoopInv' /\ OutcomeInv'
  BY <1>1
  DEF Inv, LoopInv, OutcomeInv, RejectedForAReason, Rejects, ClusterIsAskedForOnce
<1> QED BY <1>3, <1>4, <1>5 DEF Inv

LEMMA SilenceKeeps == ASSUME Inv, GoSilent PROVE Inv'
<1>1. outcome = "pending"
  BY DEF Inv, TypeOK, Loop!TypeOK, GoSilent
<1>2. TypeOK' /\ RequestInv' /\ LoopInv'
  BY DEF Inv, GoSilent, loopVars, TypeOK, Loop!TypeOK, RequestInv, LoopInv
<1>3. OutcomeInv'
  BY <1>1
  DEF Inv, GoSilent, loopVars, OutcomeInv, RejectedForAReason, Rejects, ClusterIsAskedForOnce
<1> QED BY <1>2, <1>3 DEF Inv

LEMMA StutterKeeps == ASSUME Inv, UNCHANGED vars PROVE Inv'
<1> USE DEF vars, loopVars, requestVars
<1>1. TypeOK'
  BY DEF Inv, TypeOK, Loop!TypeOK
<1>2. RequestInv' /\ LoopInv'
  BY DEF Inv, RequestInv, LatestSent, Due, LoopInv
<1>3. OutcomeInv'
  BY DEF Inv, OutcomeInv, RejectedForAReason, Rejects, ClusterIsAskedForOnce
<1> QED BY <1>1, <1>2, <1>3 DEF Inv

LEMMA InvStep == ASSUME Counted, Inv, [Next \/ Done]_vars PROVE Inv'
BY TickKeeps, ProgressKeeps, StartProbeKeeps, ProceedKeeps, RespondKeeps, NotFoundKeeps,
   AttemptFailsKeeps, RetryKeeps, SilenceKeeps, StutterKeeps
DEF Next, Steps, Done

LEMMA Invariance == ASSUME Counted PROVE Spec => []Inv
<1>1. Inv /\ [Next \/ Done]_vars => Inv'
  BY InvStep
<1> QED BY <1>1, InvInit, PTL DEF Spec

\* The loop's variables keep their types, for any callers whose retries are counted.
THEOREM TypeCorrect == ASSUME Counted PROVE Spec => []TypeOK
<1>1. Inv => TypeOK
  BY DEF Inv
<1> QED BY <1>1, Invariance, PTL

\* No call is rejected early but for an impatient probe, or after the retries of a
\* request that had a reason to fail: for every retry limit, timeout and interval.
THEOREM Rejections == ASSUME Counted PROVE Spec => []RejectedForAReason
<1>1. Inv => RejectedForAReason
  BY DEF Inv, OutcomeInv
<1> QED BY <1>1, Invariance, PTL

\* However long the loop around it may poll, fetchClusterId is called once.
THEOREM ClusterAskedOnce == ASSUME Counted PROVE Spec => []ClusterIsAskedForOnce
<1>1. Inv => ClusterIsAskedForOnce
  BY DEF Inv, OutcomeInv
<1> QED BY <1>1, Invariance, PTL

-----------------------------------------------------------------------------
\* A tick of the clock during a probe is one that the loop's probe may take.
LEMMA TickRefines == ASSUME Counted, Inv, Tick PROVE Loop!Tick
<1>1. /\ now < Due /\ now' = now + 1 /\ UNCHANGED <<pc, since, deadline, probes, outcome>>
  BY DEF Tick
<1>2. CASE phase \in {"inflight", "backoff"}
  <2>1. pc = "probing" /\ Loop!Span(pc) = ProbeTime
    BY <1>2 DEF Inv, TypeOK, Loop!Span
  <2>2. Due <= since + ProbeTime /\ Due \in Nat
    BY <1>2, DueInProbeTime DEF Inv
  <2>3. now < since + ProbeTime
    BY <1>1, <2>2, ProbesAssumption DEF Inv, TypeOK, Loop!TypeOK
  <2> QED BY <1>1, <2>1, <2>3 DEF Loop!Tick
<1>3. CASE phase = "silent"
  BY <1>1, <1>3 DEF Due, Inv, TypeOK, Loop!TypeOK
<1>4. CASE phase = "idle"
  BY <1>1, <1>4 DEF Due, Loop!Tick
<1> QED BY <1>2, <1>3, <1>4 DEF Inv, TypeOK

LEMMA LoopNext ==
    /\ \A v \in {"value", "empty", "undefined"} : Loop!ProbeResolves(v) => Loop!Next
    /\ Loop!ProbeThrows => Loop!Next
    /\ Failed => Loop!Next
BY DEF Loop!Next, Loop!ProbeAnswers, Loop!Present, Loop!Absent, Failed

LEMMA StepRefines ==
    ASSUME Counted, Inv, [Next \/ Done]_vars
    PROVE  [Loop!Next \/ Loop!Done]_(Loop!vars)
<1> USE DEF Loop!vars, loopVars
<1>1. CASE Tick
  BY <1>1, TickRefines DEF Loop!Next
<1>2. CASE StartProbe
  BY <1>2 DEF StartProbe, Loop!Next
<1>3. CASE Proceed \/ Retry \/ Progress \/ GoSilent
  BY <1>3 DEF Proceed, Retry, Progress, GoSilent
<1>4. CASE Respond
  BY <1>4, LoopNext DEF Respond
<1>5. CASE NotFound \/ AttemptFails
  <2>1. RetryOrFail
    BY <1>5 DEF NotFound, AttemptFails
  <2> QED BY <2>1, LoopNext DEF RetryOrFail
<1>6. CASE UNCHANGED vars
  BY <1>6 DEF vars
<1> QED BY <1>1, <1>2, <1>3, <1>4, <1>5, <1>6 DEF Next, Steps, Done

\* A probe made of requests, attempts and backoffs is a probe of waitFor() that takes at
\* most ProbeTime, so that what is proved of WaitFor holds of all these calls.
THEOREM ProbesAreProbes == ASSUME Counted PROVE Spec => IsAWaitFor
<1>1. Init => Loop!Init
  BY DEF Init
<1>2. Inv /\ [Next \/ Done]_vars => [Loop!Next \/ Loop!Done]_(Loop!vars)
  BY StepRefines
<1> QED BY <1>1, <1>2, Invariance, PTL DEF Spec, IsAWaitFor, Loop!Spec
=============================================================================
