---------------------------- MODULE HarvesterImport ----------------------------
(***************************************************************************)
(* HarvesterCloudProvider: six resources created one after the other by    *)
(* `pulumi up`, each recorded in the stack when its create() resolves and  *)
(* none created again once it is recorded.  Four of them make requests     *)
(* with a RancherClient, which logs in and sends a request up to           *)
(* Retries + 1 times, POSTs included; two poll.  A request that was given  *)
(* up may still be handled, and a run may be killed at any await.          *)
(*                                                                         *)
(* External: Rancher (clusters, registration tokens, credentials),         *)
(* Harvester (its setting and its agent), the network and the engine.      *)
(***************************************************************************)
EXTENDS Naturals, Sequences

CONSTANTS
    Retries,        \* retryLimit of RancherClient
    MaxRuns,        \* bound: runs of `pulumi up`
    MaxFaults       \* bound: attempts and polls given up, and runs killed

ASSUME ImportAssumption ==
    /\ Retries \in Nat
    /\ MaxRuns \in Nat
    /\ MaxFaults \in Nat

VARIABLES
    uniqueNames, \* whether this Rancher refuses a second cluster of one name
    made,       \* Rancher's clusters of this name have the IDs 1..made
    urls,       \* the ones whose registration token has a manifestUrl
    creds,      \* Rancher's cloud credentials, in order of creation
    setting,    \* the cluster that cluster-registration-url names, 0 for none
    joined,     \* the cluster Harvester's agent is connected to, 0 for none
    wire,       \* requests the servers have not handled
    reply,      \* the answer to the attempt in flight: a status, and the ID of a new cluster
    runs,       \* runs so far
    faults,     \* faults so far
    at,         \* the resource whose create() is running, or "none"
    stage,      \* the await it is suspended at
    attempt,    \* attempts of the current request so far
    saved       \* the cluster each recorded resource is about, 0 if not recorded

servers == <<uniqueNames, made, urls, creds, setting, joined>>
vars == <<servers, wire, reply, runs, faults, at, stage, attempt, saved>>

Resources == {"cluster", "token", "setting", "wait", "kubeconfig", "credential"}
Polls == {"token", "wait"}

\* What is created after r: the next one's inputs or dependsOn name it.
Successor(r) ==
    CASE r = "cluster" -> "token"
      [] r = "token" -> "setting"
      [] r = "setting" -> "wait"
      [] r = "wait" -> "kubeconfig"
      [] r = "kubeconfig" -> "credential"
      [] r = "credential" -> "none"

NoReply == [status |-> "none", cluster |-> 0]

Init ==
    /\ uniqueNames \in BOOLEAN
    /\ made = 0 /\ urls = {} /\ creds = <<>>
    /\ setting = 0 /\ joined = 0
    /\ wire = {} /\ reply = NoReply
    /\ runs = 0 /\ faults = 0
    /\ at = "none" /\ stage = "poll" /\ attempt = 0
    /\ saved = [r \in Resources |-> 0]

-----------------------------------------------------------------------------
(* The servers.                                                            *)

\* The attempt create() is waiting for.
InFlight(m) == stage = "await" /\ m.run = runs /\ m.try = attempt /\ m.res = at

Answer(m, status, cluster) ==
    /\ wire' = wire \ {m}
    /\ reply' = IF InFlight(m) THEN [status |-> status, cluster |-> cluster] ELSE reply
    /\ UNCHANGED <<uniqueNames, urls, joined, runs, faults, at, stage, attempt, saved>>

\* POST /v3/clusters
HandleCluster(m) ==
    /\ m.res = "cluster"
    /\ IF uniqueNames /\ made > 0
       THEN Answer(m, "refused", 0) /\ UNCHANGED made
       ELSE Answer(m, "ok", made + 1) /\ made' = made + 1
    /\ UNCHANGED <<creds, setting>>

\* PATCH of Harvester's setting
HandleSetting(m) ==
    /\ m.res = "setting"
    /\ setting' = m.cluster
    /\ Answer(m, "ok", 0)
    /\ UNCHANGED <<made, creds>>

\* POST /v3/cloudcredentials: names are no keys, each request makes another one.
HandleCredential(m) ==
    /\ m.res = "credential"
    /\ creds' = Append(creds, [cluster |-> m.cluster, kubeconfig |-> m.kubeconfig])
    /\ Answer(m, "ok", 0)
    /\ UNCHANGED <<made, setting>>

Handle(m) == HandleCluster(m) \/ HandleSetting(m) \/ HandleCredential(m)

\* Rancher fills a cluster's registration token in.
TokenAppears(c) ==
    /\ c \notin urls
    /\ urls' = urls \cup {c}
    /\ UNCHANGED <<uniqueNames, made, creds, setting, joined, wire, reply, runs, faults,
                   at, stage, attempt, saved>>

\* Harvester applies the manifest its setting names, and its agent connects.
Join ==
    /\ setting # 0 /\ joined # setting
    /\ joined' = setting
    /\ UNCHANGED <<uniqueNames, made, urls, creds, setting, wire, reply, runs, faults,
                   at, stage, attempt, saved>>

-----------------------------------------------------------------------------
(* One run of the provider.                                                *)

\* create() of r starts, or the run is over.
Begin(r) ==
    /\ at' = r
    /\ stage' = IF r \in Polls \cup {"none"} THEN "poll" ELSE "login"
    /\ attempt' = 0
    /\ reply' = NoReply

\* The engine starts with the first resource the stack does not have.
StartRun ==
    /\ at = "none"
    /\ runs < MaxRuns
    /\ runs' = runs + 1
    /\ \E r \in Resources :
         /\ saved[r] = 0
         /\ \A q \in Resources : Successor(q) = r => saved[q] # 0
         /\ Begin(r)
    /\ UNCHANGED <<servers, wire, faults, saved>>

\* create() resolved: the engine records its outputs and goes on.
Record(r, cluster) ==
    /\ saved' = [saved EXCEPT ![r] = cluster]
    /\ Begin(Successor(r))
    /\ UNCHANGED <<servers, wire, runs, faults>>

\* create() rejects, or its process dies.
Abandon ==
    /\ Begin("none")
    /\ UNCHANGED <<servers, wire, runs, saved>>

\* fromServerConnectionArgs(): username and password are exchanged for a token.
Login ==
    /\ stage = "login"
    /\ stage' = "send"
    /\ attempt' = 0
    /\ UNCHANGED <<servers, wire, reply, runs, faults, at, saved>>

\* An attempt of post() or patch(), with what the inputs of the resource name.
Attempt(cluster, kubeconfig) ==
    /\ stage = "send"
    /\ attempt' = attempt + 1
    /\ wire' = wire \cup
         {[run |-> runs, try |-> attempt', res |-> at, cluster |-> cluster,
           kubeconfig |-> kubeconfig]}
    /\ reply' = NoReply
    /\ stage' = "await"
    /\ UNCHANGED <<servers, runs, faults, at, saved>>

\* A 2xx reply: checkStatusCode() hands its body on.
Answered == stage = "await" /\ reply.status = "ok"

PostCluster == at = "cluster" /\ Attempt(0, 0)

\* Plausible bug: only 200 is a success, and a POST that creates answers 201.
CreatedIsNo200 ==
    /\ at = "cluster" /\ Answered
    /\ Abandon /\ UNCHANGED faults

\* clusterId: resp.id
ClusterCreated ==
    /\ at = "cluster" /\ Answered
    /\ Record(at, reply.cluster)

PatchSetting == at = "setting" /\ Attempt(saved["token"], 0)

SettingPatched ==
    /\ at = "setting" /\ Answered
    /\ Record(at, saved["token"])

PostCredential == at = "credential" /\ Attempt(saved["cluster"], saved["kubeconfig"])

CredentialCreated ==
    /\ at = "credential" /\ Answered
    /\ Record(at, saved["cluster"])

\* Plausible bug: a cluster is looked up by its name, items[0] as in fetchClusterId.
FirstOfItsName == 1

\* clusterId: args.clusterId
KubeconfigCluster == saved["cluster"]

\* generateKubeconfig leaves nothing at Rancher that anything refers to.
DownloadKubeconfig ==
    /\ stage = "send" /\ at = "kubeconfig"
    /\ Record(at, KubeconfigCluster)

\* Plausible bug: clusterName is given the cluster's name, which is no ID.
NameForId == 0

\* clusterName: cluster.clusterId
TokenCluster == saved["cluster"]

FetchToken ==
    /\ at = "token"
    /\ TokenCluster \in urls
    /\ Record(at, TokenCluster)

\* The condition Connected of the cluster whose ID was recorded.
Connected == joined = saved["cluster"]

WaitConnected ==
    /\ at = "wait"
    /\ Connected
    /\ Record(at, saved["cluster"])

\* Plausible bug: one attempt more than the limit says.
MayRetryOnceMore == attempt <= Retries + 1

\* attemptCount > retryLimit returns 0 (attempt counts the ones made).
MayRetry == attempt <= Retries

\* got sends again, whatever the method and the status, or gives up.
RetryOrAbandon ==
    \/ /\ MayRetry
       /\ stage' = "send"
       /\ reply' = NoReply
       /\ UNCHANGED <<servers, wire, runs, at, attempt, saved>>
    \/ ~MayRetry /\ Abandon

\* Plausible bug: a conflict is taken for the answer to the POST before it.
RefusedIsAnswer ==
    /\ stage = "await" /\ reply.status = "refused"
    /\ Record(at, made)

Refused ==
    /\ stage = "await" /\ reply.status = "refused"
    /\ RetryOrAbandon
    /\ UNCHANGED faults

-----------------------------------------------------------------------------
(* Faults, at most MaxFaults of them.                                      *)

Fault ==
    /\ faults < MaxFaults
    /\ faults' = faults + 1

\* An attempt of the login fails: retried, or create() rejects.
LoginFails ==
    /\ Fault
    /\ stage = "login"
    /\ \/ /\ attempt < Retries
          /\ attempt' = attempt + 1
          /\ UNCHANGED <<servers, wire, reply, runs, at, stage, saved>>
       \/ attempt >= Retries /\ Abandon

\* A timeout elapses or the connection fails, whatever the server did or does.
AttemptFails ==
    /\ Fault
    /\ stage = "await"
    /\ RetryOrAbandon

\* The wait for the token or for the connection times out or throws.
PollFails ==
    /\ Fault
    /\ at \in Polls
    /\ Abandon

\* The process is killed, or the download of the kubeconfig fails for good.
Crash ==
    /\ Fault
    /\ at # "none"
    /\ Abandon

-----------------------------------------------------------------------------
Provider ==
    \/ Login \/ Refused
    \/ PostCluster \/ ClusterCreated
    \/ PatchSetting \/ SettingPatched
    \/ PostCredential \/ CredentialCreated
    \/ FetchToken \/ WaitConnected \/ DownloadKubeconfig

Servers ==
    \/ \E m \in wire : Handle(m)
    \/ \E c \in 1..made : TokenAppears(c)
    \/ Join

Faults == LoginFails \/ AttemptFails \/ PollFails \/ Crash

Next == StartRun \/ Provider \/ Servers \/ Faults

Spec == Init /\ [][Next]_vars

\* The servers answer in the end, an agent connects, a run goes on, and somebody
\* runs `pulumi up` again after a run that failed.
FairSpec ==
    /\ Spec
    /\ WF_vars(StartRun) /\ WF_vars(Provider) /\ WF_vars(Servers)

-----------------------------------------------------------------------------
Credential == [cluster : Nat, kubeconfig : Nat]
Request == [run : Nat, try : Nat, res : {"cluster", "setting", "credential"},
            cluster : Nat, kubeconfig : Nat]

\* The variables of the servers, the run and the stack keep their types; a request is
\* attempted at most Retries + 1 times.
TypeOK ==
    /\ uniqueNames \in BOOLEAN
    /\ made \in Nat /\ urls \subseteq 1..made
    /\ creds \in Seq(Credential)
    /\ setting \in 0..made /\ joined \in 0..made
    /\ wire \subseteq Request
    /\ reply \in [status : {"none", "ok", "refused"}, cluster : Nat]
    /\ runs \in Nat /\ faults \in Nat /\ attempt \in 0..Retries + 1
    /\ at \in Resources \cup {"none"}
    /\ stage \in {"login", "send", "await", "poll"}
    /\ saved \in [Resources -> Nat]

\* A recorded credential is one that Rancher has, and what it holds is the kubeconfig
\* of the cluster Harvester is connected to.
CredentialWorks ==
    saved["credential"] # 0 =>
        /\ joined = saved["credential"]
        /\ \E i \in 1..Len(creds) :
             creds[i] = [cluster |-> joined, kubeconfig |-> joined]

\* POSTs are retried although they are not idempotent: what that leaves behind is at
\* most one cluster or credential for every fault, and nothing without one.
OrphansPerFault == made + Len(creds) <= 2 + faults

\* A cluster has this name and no run knows its ID.
Stuck ==
    /\ made > 0 /\ saved["cluster"] = 0
    /\ ~(at = "cluster" /\ reply.status = "ok")

\* Where names are unique, a POST whose answer was lost is refused ever after: create()
\* does not look for the cluster it made, and no rerun can import Harvester.
StuckIsPermanent == [][uniqueNames /\ Stuck => Stuck']_vars

\* A run fails for a fault of its own and for nothing that the runs before it left behind,
\* on the servers, on their way there or in the stack: one run more than there were faults
\* is the one that succeeds, unless names are unique and no run knows the cluster's ID.
FailuresAreFaults == runs > faults + 1 => uniqueNames /\ Stuck

\* A finite number of faults delays the import only, unless names are unique and the one
\* answer that was lost was that to the first POST.
ImportCompletes == <>(saved["credential"] # 0 \/ (uniqueNames /\ Stuck))

\* Retried, killed and repeated, the six resources implement the abstract import.
Import == INSTANCE ClusterImport
            WITH cluster <- saved["cluster"], credential <- saved["credential"]
ImplementsImport == Import!Spec
=============================================================================
