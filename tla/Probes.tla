-------------------------------- MODULE Probes --------------------------------
(***************************************************************************)
(* The calls of waitFor() with what each of them polls: a request    *)
(* that retries inside the probe, inside a loop that repeats the probe,    *)
(* against an object that is not there yet, then incomplete, then ready.   *)
(* What the probe makes of an absent object (undefined, an error, a        *)
(* TypeError) decides whether the loop ever gets to wait for it.           *)
(*                                                                         *)
(* External: got, which after each failed attempt, a failed connection or  *)
(* a status outside 2xx alike, asks calculateDelay({attemptCount}) and     *)
(* gives up only when that is 0; ssh2; the servers.                        *)
(***************************************************************************)
EXTENDS Naturals

CONSTANTS
    Delay, Interval, Timeout,   \* as in WaitFor
    RequestTime,    \* timeout.request of an attempt, readyTimeout of ssh2
    RetryDelay,     \* the 5000 ms calculateDelay returns
    TokenRetries,   \* retry.limit of the bootstrap and registration tokens
    ClientRetries,  \* retryLimit of RancherClient.baseGot
    ProbeTime,      \* the longest a probe takes that uses all its retries
    Kinds           \* the callers considered

\* vmIp is getVmiIp with a networkName, firstVmIp without one.
Callers == {"bootstrapToken", "registrationToken", "kubeWait", "clusterId", "vmIp",
            "firstVmIp", "bridge", "remoteKubeconfig"}

RetryLimit(k) ==
    CASE k \in {"bootstrapToken", "registrationToken"} -> TokenRetries
      [] k \in {"clusterId", "vmIp", "firstVmIp", "bridge"} -> ClientRetries
      [] OTHER -> 0

\* fetchClusterId logs in first, and SSH has a handshake before the file is read.
Requests(k) == IF k \in {"clusterId", "remoteKubeconfig"} THEN 2 ELSE 1

\* The longest a request takes: every attempt times out and is backed off from.
WorstRequest(k) == (RetryLimit(k) + 1) * RequestTime + RetryLimit(k) * RetryDelay

ASSUME ProbesAssumption ==
    /\ Delay \in Nat
    /\ Interval \in Nat \ {0}
    /\ Timeout \in Nat
    /\ RequestTime \in Nat \ {0}
    /\ RetryDelay \in Nat \ {0}
    /\ TokenRetries \in Nat
    /\ ClientRetries \in Nat
    /\ ProbeTime \in Nat
    /\ \A k \in Kinds : Requests(k) * WorstRequest(k) <= ProbeTime
    /\ Kinds \subseteq Callers

VARIABLES
    pc, now, since, deadline, probes, outcome,  \* the loop's, as in WaitFor
    kind,       \* the caller
    object,     \* what the server has: "absent", "partial" or "ready"
    phase,      \* "idle", "inflight", "backoff", or "silent": no answer will come
    request,    \* the request of the probe: 1, or 2 after a login or handshake
    attempt,    \* attempts of it so far
    sent,       \* when the attempt or the backoff began
    failed      \* whether the server ever failed, rather than lack the object

loopVars == <<pc, now, since, deadline, probes, outcome>>
requestVars == <<phase, request, attempt, sent>>
vars == <<loopVars, kind, object, requestVars, failed>>

Loop == INSTANCE WaitFor

Init ==
    /\ Loop!Init
    /\ kind \in Kinds
    /\ object \in {"absent", "partial", "ready"}
    /\ phase = "idle" /\ request = 0 /\ attempt = 0 /\ sent = 0
    /\ failed = FALSE

\* The longest the innermost await lasts; none of them ends a silence.
Due ==
    CASE phase = "inflight" -> sent + RequestTime
      [] phase = "backoff" -> sent + RetryDelay
      [] phase = "silent" -> now
      [] OTHER -> since + Loop!Span(pc)

Tick ==
    /\ now < Due
    /\ now' = now + 1
    /\ UNCHANGED <<pc, since, deadline, probes, outcome, kind, object, requestVars, failed>>

\* The cluster boots, the VM gets its address, k3s opens its file and then fills it.
Progress ==
    /\ pc # "settled"
    /\ \/ object = "absent" /\ object' \in {"partial", "ready"}
       \/ object = "partial" /\ object' = "ready"
    /\ UNCHANGED <<loopVars, kind, requestVars, failed>>

Send(r, n) ==
    /\ phase' = "inflight"
    /\ request' = r
    /\ attempt' = n
    /\ sent' = now

\* A probe starts and sends its first request.
StartProbe ==
    /\ Loop!StartProbing \/ Loop!Wake
    /\ Send(1, 1)
    /\ UNCHANGED <<kind, object, failed>>

\* Plausible bug: the request is raced, and goes on when its probe is over.
EndProbeOnly == UNCHANGED requestVars

\* The probe resolves or rejects: nothing of its requests is left.
EndRequest ==
    /\ phase' = "idle"
    /\ request' = 0 /\ attempt' = 0 /\ sent' = 0

\* The login token, or ssh2's ready: the next request is sent.
Proceed ==
    /\ phase = "inflight"
    /\ request < Requests(kind)
    /\ Send(request + 1, 1)
    /\ UNCHANGED <<loopVars, kind, object, failed>>

\* What a probe finds in a server that works: a value for the loop, an "error status"
\* of got's, or that the code reading the answer "throws".
Plain(k, o) ==
    CASE o = "absent" -> IF k = "kubeWait" THEN {"undefined"} ELSE {"error status"}
      [] o = "partial" -> {"undefined"}
      [] o = "ready" -> {"value"}

\* Plausible bug: a list without items is polled again.
PollsForCluster(o) == IF o = "absent" THEN {"undefined"} ELSE {"value"}

\* clusterid.ts: a list without items throws; an item has a name from the first.
FindsCluster(o) == IF o = "absent" THEN {"throws"} ELSE {"value"}

\* ipaddress.ts:94 reads res.body of what is a body already, once there are interfaces.
FirstAddress(o) == IF o = "ready" THEN {"throws"} ELSE Plain("firstVmIp", o)

\* bridge.ts:66 throws while the bridge is not among the links.
FindsBridge(o) == IF o = "partial" THEN {"undefined", "throws"} ELSE Plain("bridge", o)

\* remote.ts: ENOENT is polled again; a file that is still empty is an answer.
ReadsFile(o) ==
    CASE o = "absent" -> {"undefined"}
      [] o = "partial" -> {"empty"}
      [] o = "ready" -> {"value"}

Reads(k, o) ==
    CASE k = "clusterId" -> FindsCluster(o)
      [] k = "firstVmIp" -> FirstAddress(o)
      [] k = "bridge" -> FindsBridge(o)
      [] k = "remoteKubeconfig" -> ReadsFile(o)
      [] OTHER -> Plain(k, o)

\* The last request of the probe is answered.
Respond ==
    /\ phase = "inflight" /\ request = Requests(kind)
    /\ \/ \E v \in Reads(kind, object) \cap {"value", "empty", "undefined"} :
             Loop!ProbeResolves(v)
       \/ "throws" \in Reads(kind, object) /\ Loop!ProbeThrows
    /\ EndRequest
    /\ UNCHANGED <<kind, object, failed>>

\* Plausible bug: one retry too many, attemptCount > retryLimit + 1.
MayRetryOnceMore == attempt <= RetryLimit(kind) + 1

\* Plausible bug: the other way round, attemptCount >= retryLimit.
MayRetryOnceLess == attempt < RetryLimit(kind)

\* calculateDelay returns something other than 0; for the registration token always.
MayRetry == kind = "registrationToken" \/ attempt <= RetryLimit(kind)

\* got gives up, or ssh2 reports an error: only KubeWait's probe has a .catch().
Failed ==
    IF kind = "kubeWait" THEN Loop!ProbeResolves("undefined") ELSE Loop!ProbeThrows

\* An attempt that is not to be repeated ends the probe.
RetryOrFail ==
    \/ /\ MayRetry
       /\ phase' = "backoff"
       /\ sent' = now
       /\ UNCHANGED <<loopVars, request, attempt>>
    \/ ~MayRetry /\ Failed /\ EndRequest

\* The object is not there, and says so with a 404.
NotFound ==
    /\ phase = "inflight" /\ request = Requests(kind)
    /\ "error status" \in Reads(kind, object)
    /\ RetryOrFail
    /\ UNCHANGED <<kind, object, failed>>

\* Another status outside 2xx, a refused connection, or the attempt timed out.
AttemptFails ==
    /\ phase = "inflight"
    /\ RetryOrFail
    /\ failed' = TRUE
    /\ UNCHANGED <<kind, object>>

Retry ==
    /\ phase = "backoff"
    /\ now = sent + RetryDelay
    /\ Send(request, attempt + 1)
    /\ UNCHANGED <<loopVars, kind, object, failed>>

\* Plausible bug: a request of got is made without timeout.request.
NothingTimesOut ==
    /\ phase = "inflight" /\ request = Requests(kind)
    /\ phase' = "silent"
    /\ failed' = TRUE
    /\ UNCHANGED <<loopVars, kind, object, request, attempt, sent>>

\* The host is reset while a file is read: ssh2 sends no keepalives of itself, so
\* neither of the two events that settle the probe comes.
GoSilent ==
    /\ kind = "remoteKubeconfig"
    /\ phase = "inflight" /\ request = 2
    /\ phase' = "silent"
    /\ failed' = TRUE
    /\ UNCHANGED <<loopVars, kind, object, request, attempt, sent>>

Done == (pc = "settled" \/ phase = "silent") /\ UNCHANGED vars

\* The program's own steps: timers, and requests that end.
Steps == Tick \/ StartProbe \/ Proceed \/ Respond \/ NotFound \/ AttemptFails \/ Retry

Next == Steps \/ Progress \/ GoSilent

Spec == Init /\ [][Next \/ Done]_vars

\* Timers fire, and timeouts end an attempt nobody answers.  The object may stay absent.
FairSpec == Spec /\ WF_vars(Steps)

-----------------------------------------------------------------------------
\* The loop's variables keep their types, and a request exists during probes only.
TypeOK ==
    /\ Loop!TypeOK
    /\ kind \in Kinds
    /\ object \in {"absent", "partial", "ready"}
    /\ phase \in {"idle", "inflight", "backoff", "silent"}
    /\ request \in 0..2 /\ attempt \in Nat /\ sent \in Nat
    /\ failed \in BOOLEAN
    /\ phase # "idle" <=> pc = "probing"

\* However many requests, attempts and backoffs a probe is made of, it is a probe of
\* waitFor(): it ends within ProbeTime, so that all that WaitFor promises holds of the
\* two together.
IsAWaitFor == Loop!Spec

\* Every call is settled in the end, whatever the servers do, but for an SSH session
\* that goes silent after its handshake: the loop cannot look at its deadline then.
SettlesUnlessSilent == <>(pc = "settled" \/ (kind = "remoteKubeconfig" /\ phase = "silent"))

\* create() rejects: its probe did, or it cannot parse the empty file it was handed.
Rejects == outcome \in {"rejected", "empty"}

\* Objects that end the call at once where the loop would have waited.
Impatient ==
    {<<"clusterId", "absent">>, <<"firstVmIp", "ready">>, <<"bridge", "partial">>,
     <<"remoteKubeconfig", "partial">>}

\* create() is rejected before its deadline only for one of these reasons: its probe is
\* one that throws or takes an empty file, or an SSH connection failed, or the retries of
\* one request were used up, which a server that works brings about only by the object's
\* absence.  KubeWait is the only caller that nothing but the deadline ends.
RejectedForAReason ==
    Rejects =>
        /\ kind # "kubeWait"
        /\ \/ <<kind, object>> \in Impatient
           \/ /\ now >= Delay + RetryLimit(kind) * RetryDelay
              /\ failed \/ (object = "absent" /\ kind # "remoteKubeconfig")

\* clusterid.ts:62 throws for a cluster that is not there yet: the waitFor() around it
\* never polls a second time, so its 30 s and its interval are for nothing.
ClusterIsAskedForOnce ==
    kind = "clusterId" => probes <= 1 /\ outcome # "timeout"

\* clusterregistrationtoken.ts:27 "30 seconds timeout": with every attempt and
\* every backoff that retry.limit allows, the call is over by this time.
EndsByItsTimeout == Loop!SettledInTime
=============================================================================
