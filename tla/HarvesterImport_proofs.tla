------------------------ MODULE HarvesterImport_proofs -------------------------
(***************************************************************************)
(* Proofs about HarvesterImport, for any retry limit and any number of     *)
(* runs and faults, whether or not Rancher keeps cluster names unique.     *)
(***************************************************************************)
EXTENDS HarvesterImport, FiniteSetTheorems, TLAPS

\* The resources are recorded in their order, all about the recorded cluster.
Chain ==
    /\ \A r \in Resources : saved[r] \in {0, saved["cluster"]}
    /\ saved["cluster"] <= made
    /\ saved["token"] # 0 => saved["cluster"] # 0
    /\ saved["setting"] # 0 => saved["token"] # 0
    /\ saved["wait"] # 0 => saved["setting"] # 0
    /\ saved["kubeconfig"] # 0 => saved["wait"] # 0
    /\ saved["credential"] # 0 => saved["kubeconfig"] # 0

\* The running resource is the first one that is not recorded.
Running ==
    /\ at # "none" =>
         /\ saved[at] = 0
         /\ \A q \in Resources : Successor(q) = at => saved[q] # 0
    /\ at \in Polls \cup {"none"} => stage = "poll"
    /\ stage = "send" => attempt <= Retries

\* A request names the cluster of the resources recorded before it was sent.
Sent ==
    \A m \in wire :
       /\ m.res = "setting" =>
            m.cluster = saved["token"] /\ saved["token"] # 0
       /\ m.res = "credential" =>
            /\ m.cluster = saved["cluster"] /\ m.kubeconfig = saved["cluster"]
            /\ saved["kubeconfig"] # 0

HasCredential ==
    \E i \in 1..Len(creds) :
       creds[i] = [cluster |-> saved["cluster"], kubeconfig |-> saved["cluster"]]

\* A success answers the running resource, which has what it asked for.
Replied ==
    reply.status = "ok" =>
       \/ at = "cluster" /\ reply.cluster \in 1..made
       \/ at = "setting"
       \/ at = "credential" /\ HasCredential

\* Harvester is told of the recorded cluster only, and a wait that is over saw it there.
Harvester ==
    /\ setting \in {0, saved["cluster"]}
    /\ joined \in {0, saved["cluster"]}
    /\ setting # 0 => saved["token"] # 0
    /\ joined # 0 => saved["token"] # 0
    /\ saved["wait"] # 0 => joined = saved["cluster"]
    /\ saved["credential"] # 0 => HasCredential

IInv == TypeOK /\ Chain /\ Running /\ Sent /\ Replied /\ Harvester

LEMMA IInvInit == ASSUME Init PROVE IInv
BY ImportAssumption DEF Init, IInv, TypeOK, Chain, Running, Sent, Replied, Harvester,
   HasCredential, NoReply, Resources, Polls, Request, Credential

-----------------------------------------------------------------------------
(* A create() ends.                                                        *)

\* A run that is given up changes nothing that the other parts speak of.
LEMMA AbandonKeeps ==
    ASSUME IInv, Abandon, faults' \in Nat
    PROVE  IInv'
BY ImportAssumption DEF Abandon, Begin, NoReply, servers, IInv, TypeOK, Chain, Running,
   Sent, Replied, Harvester, HasCredential, Resources, Polls

\* What is recorded stays recorded, and create() of the next resource starts.
LEMMA RecordKeeps ==
    ASSUME IInv, NEW c \in 1..made,
           at \in Resources, Record(at, c),
           at # "cluster" => c = saved["cluster"],
           at = "wait" => joined = c,
           at = "credential" => HasCredential
    PROVE  IInv'
<1> USE DEF Resources
<1>1. /\ saved' = [saved EXCEPT ![at] = c]
      /\ at' = Successor(at) /\ attempt' = 0 /\ reply' = NoReply
      /\ stage' = IF at' \in Polls \cup {"none"} THEN "poll" ELSE "login"
      /\ UNCHANGED <<servers, wire, runs, faults>>
  BY DEF Record, Begin
<1>2. /\ saved \in [Resources -> Nat] /\ saved' \in [Resources -> Nat]
      /\ made \in Nat /\ c \in Nat \ {0}
      /\ saved'[at] = c
      /\ \A r \in Resources : r # at => saved'[r] = saved[r]
  BY <1>1 DEF IInv, TypeOK
<1>3. saved[at] = 0 /\ \A q \in Resources : Successor(q) = at => saved[q] # 0
  BY DEF IInv, Running
<1>4. at' \in Resources \cup {"none"}
  BY <1>1 DEF Successor
<1>5. TypeOK'
  BY <1>1, <1>2, <1>4, ImportAssumption DEF IInv, TypeOK, NoReply, servers
<1>6. at = "cluster" => \A r \in Resources : saved[r] = 0
  BY <1>3, <1>2 DEF IInv, Chain
<1>7. Chain'
  <2>1. at # "cluster" => saved'["cluster"] = saved["cluster"]
    BY <1>2
  <2>2. \A r \in Resources : saved'[r] \in {0, saved'["cluster"]}
    BY <1>2, <1>6, <2>1 DEF IInv, Chain
  <2>3. saved'["cluster"] <= made'
    BY <1>1, <1>2, <2>1 DEF IInv, Chain, servers
  <2>4. /\ saved'["token"] # 0 => saved'["cluster"] # 0
        /\ saved'["setting"] # 0 => saved'["token"] # 0
        /\ saved'["wait"] # 0 => saved'["setting"] # 0
        /\ saved'["kubeconfig"] # 0 => saved'["wait"] # 0
        /\ saved'["credential"] # 0 => saved'["kubeconfig"] # 0
    BY <1>2, <1>3 DEF IInv, Chain, Successor
  <2> QED BY <2>2, <2>3, <2>4 DEF Chain
<1>8. Running'
  <2>1. at' # "none" => at' \in Resources /\ at' # at /\ saved[at'] = 0
    BY <1>1, <1>3 DEF IInv, Chain, Successor
  <2>2. \A q \in Resources : Successor(q) = at' /\ at' # "none" => q = at
    BY <1>1 DEF Successor
  <2> QED BY <1>1, <1>2, <2>1, <2>2 DEF Running
<1>9. /\ saved["token"] # 0 => saved'["token"] # 0 /\ saved'["cluster"] = saved["cluster"]
      /\ saved["kubeconfig"] # 0 => saved'["kubeconfig"] # 0
      /\ saved["cluster"] # 0 => saved'["cluster"] = saved["cluster"]
  BY <1>2, <1>3 DEF IInv, Chain
<1>10. Sent'
  BY <1>1, <1>9 DEF IInv, Sent, Chain
<1>11. Replied'
  BY <1>1 DEF Replied, NoReply
<1>12. Harvester'
  BY <1>1, <1>2, <1>3, <1>6, <1>9
     DEF IInv, Harvester, Chain, HasCredential, Successor, servers
<1> QED BY <1>5, <1>7, <1>8, <1>10, <1>11, <1>12 DEF IInv

-----------------------------------------------------------------------------
(* The steps.                                                              *)

LEMMA AnswerKeeps ==
    ASSUME IInv, NEW m \in wire, m.res \in Resources,
           NEW status \in {"ok", "refused"}, NEW c \in Nat,
           Answer(m, status, c), made' \in Nat, made <= made', creds' \in Seq(Credential),
           setting' \in {setting, saved["cluster"]}, setting' # 0 => saved["token"] # 0,
           HasCredential => HasCredential',
           status = "ok" =>
              \/ m.res = "cluster" /\ c \in 1..made'
              \/ m.res = "setting"
              \/ m.res = "credential" /\ HasCredential'
    PROVE  IInv'
<1>1. /\ wire' \subseteq wire
      /\ UNCHANGED <<uniqueNames, urls, joined, runs, faults, at, stage, attempt, saved>>
      /\ reply' = reply \/ (reply' = [status |-> status, cluster |-> c] /\ at = m.res)
  BY DEF Answer, InFlight
<1>2. TypeOK'
  <2>1. made \in Nat /\ saved["cluster"] \in 0..made /\ TypeOK
    BY DEF IInv, TypeOK, Chain, Resources
  <2>2. urls' \subseteq 1..made' /\ setting' \in 0..made' /\ joined' \in 0..made'
    BY <1>1, <2>1 DEF TypeOK
  <2>3. reply' \in [status : {"none", "ok", "refused"}, cluster : Nat]
    BY <1>1, <2>1 DEF TypeOK
  <2>4. wire' \subseteq Request
    BY <1>1, <2>1 DEF TypeOK
  <2> QED BY <1>1, <2>1, <2>2, <2>3, <2>4 DEF TypeOK
<1>3. Chain' /\ Running' /\ Sent' /\ Harvester'
  BY <1>1 DEF IInv, Chain, Running, Sent, Harvester, TypeOK, Resources
<1>4. Replied'
  <2>1. CASE reply' = reply
    BY <1>1, <2>1 DEF IInv, Replied, TypeOK
  <2>2. CASE reply' = [status |-> status, cluster |-> c] /\ at = m.res
    BY <1>1, <2>2 DEF Replied
  <2> QED BY <1>1, <2>1, <2>2
<1> QED BY <1>2, <1>3, <1>4 DEF IInv

\* Appending to the credentials keeps the ones that are there.
LEMMA AppendKeeps ==
    ASSUME NEW cred \in Credential, creds \in Seq(Credential),
           creds' = Append(creds, cred), saved' = saved
    PROVE  /\ creds' \in Seq(Credential)
           /\ HasCredential => HasCredential'
           /\ creds'[Len(creds')] = cred /\ Len(creds') \in 1..Len(creds')
<1>1. /\ Len(creds') = Len(creds) + 1 /\ creds' \in Seq(Credential)
      /\ \A i \in 1..Len(creds) : creds'[i] = creds[i] /\ i \in 1..Len(creds')
      /\ creds'[Len(creds')] = cred /\ Len(creds') \in 1..Len(creds')
  OBVIOUS
<1> QED BY <1>1 DEF HasCredential

LEMMA ServersKeep == ASSUME IInv, Servers PROVE IInv'
<1>1. ASSUME NEW m \in wire, HandleCluster(m) PROVE IInv'
  <2>1. m.res \in Resources /\ made \in Nat
    BY <1>1 DEF HandleCluster, Resources, IInv, TypeOK
  <2>2. /\ HasCredential => HasCredential'
        /\ creds' \in Seq(Credential)
        /\ setting' \in {setting, saved["cluster"]}
        /\ setting' # 0 => saved["token"] # 0
    BY <1>1 DEF HandleCluster, Answer, HasCredential, IInv, TypeOK, Harvester
  <2>3. CASE uniqueNames /\ made > 0
    <3>1. Answer(m, "refused", 0) /\ made' \in Nat /\ made <= made'
      BY <1>1, <2>1, <2>3 DEF HandleCluster
    <3> QED BY <3>1, <2>1, <2>2, AnswerKeeps
  <2>4. CASE ~(uniqueNames /\ made > 0)
    <3> DEFINE c == made + 1
    <3>1. /\ Answer(m, "ok", c) /\ m.res = "cluster" /\ c \in 1..made' /\ c \in Nat
          /\ made' \in Nat /\ made <= made'
      BY <1>1, <2>1, <2>4 DEF HandleCluster
    <3> HIDE DEF c
    <3> QED BY <3>1, <2>1, <2>2, AnswerKeeps
  <2> QED BY <2>3, <2>4
<1>2. ASSUME NEW m \in wire, HandleSetting(m) PROVE IInv'
  <2>1. /\ m.res = "setting" /\ m.cluster = saved["token"] /\ saved["token"] # 0
        /\ setting' = m.cluster /\ Answer(m, "ok", 0) /\ UNCHANGED <<made, creds>>
        /\ m.cluster = saved["cluster"] /\ made \in Nat /\ creds \in Seq(Credential)
    BY <1>2 DEF Chain, Resources, HandleSetting, IInv, Sent, TypeOK, Request
  <2>2. HasCredential => HasCredential'
    BY <2>1 DEF Answer, HasCredential
  <2>3. m.res \in Resources /\ made' \in Nat /\ made <= made'
    BY <2>1 DEF Resources
  <2> QED BY <2>1, <2>2, <2>3, AnswerKeeps
<1>3. ASSUME NEW m \in wire, HandleCredential(m) PROVE IInv'
  <2> DEFINE cred == [cluster |-> m.cluster, kubeconfig |-> m.kubeconfig]
  <2>1. /\ m.res = "credential" /\ m.cluster = saved["cluster"]
        /\ m.kubeconfig = saved["cluster"] /\ creds' = Append(creds, cred)
        /\ Answer(m, "ok", 0) /\ UNCHANGED <<made, setting>>
        /\ m.cluster \in Nat /\ made \in Nat /\ cred \in Credential /\ saved' = saved
    BY <1>3 DEF HandleCredential, Answer, IInv, Sent, TypeOK, Request, Credential
  <2>2. /\ creds' \in Seq(Credential) /\ (HasCredential => HasCredential')
        /\ creds'[Len(creds')] = cred /\ Len(creds') \in 1..Len(creds')
    BY <2>1, AppendKeeps DEF IInv, TypeOK
  <2>3. HasCredential'
    BY <2>1, <2>2 DEF HasCredential
  <2> QED BY <2>1, <2>2, <2>3, AnswerKeeps DEF Resources, IInv, Harvester
<1>4. ASSUME NEW c \in 1..made, TokenAppears(c) PROVE IInv'
  BY <1>4 DEF TokenAppears, IInv, TypeOK, Chain, Running, Sent, Replied, Harvester,
     HasCredential
<1>5. ASSUME Join PROVE IInv'
  BY <1>5 DEF Join, IInv, TypeOK, Chain, Running, Sent, Replied, Harvester, HasCredential
<1> QED BY <1>1, <1>2, <1>3, <1>4, <1>5 DEF Servers, Handle

LEMMA StartRunKeeps == ASSUME IInv, StartRun PROVE IInv'
<1>1. PICK r \in Resources :
         /\ saved[r] = 0
         /\ \A q \in Resources : Successor(q) = r => saved[q] # 0
         /\ Begin(r)
  BY DEF StartRun
<1>2. /\ UNCHANGED <<servers, wire, faults, saved>>
      /\ at' = r /\ attempt' = 0 /\ reply' = NoReply /\ runs' \in Nat
      /\ stage' = IF r \in Polls \cup {"none"} THEN "poll" ELSE "login"
  BY <1>1 DEF StartRun, Begin, IInv, TypeOK
<1> QED BY <1>1, <1>2, ImportAssumption
        DEF servers, IInv, TypeOK, Chain, Running, Sent, Replied, Harvester, HasCredential,
            Resources, Polls, NoReply

\* What the resources before it were recorded with is what a resource asks for.
LEMMA InputsAgree ==
    ASSUME IInv, at \in Resources, at # "cluster"
    PROVE  /\ saved["cluster"] \in 1..made
           /\ at # "token" => saved["token"] = saved["cluster"]
           /\ at = "credential" => saved["kubeconfig"] = saved["cluster"]
BY DEF IInv, TypeOK, Chain, Running, Resources, Successor

LEMMA AttemptKeeps ==
    ASSUME IInv, at \in {"cluster", "setting", "credential"},
           NEW c \in Nat, NEW k \in Nat, Attempt(c, k),
           at = "setting" => c = saved["token"],
           at = "credential" => c = saved["cluster"] /\ k = saved["kubeconfig"]
    PROVE  IInv'
<1> DEFINE m == [run |-> runs, try |-> attempt', res |-> at, cluster |-> c, kubeconfig |-> k]
<1>1. /\ stage = "send" /\ stage' = "await"
      /\ attempt' = attempt + 1 /\ attempt' \in 0..Retries + 1
      /\ wire' = wire \cup {m} /\ reply' = NoReply
      /\ UNCHANGED <<servers, runs, faults, at, saved>>
  BY ImportAssumption DEF Attempt, IInv, TypeOK, Running
<1>2. m \in Request
  BY <1>1 DEF Request, IInv, TypeOK
<1>3. TypeOK'
  BY <1>1, <1>2 DEF IInv, TypeOK, NoReply, servers
<1>4. Chain' /\ Replied' /\ Harvester'
  BY <1>1 DEF IInv, Chain, Replied, Harvester, HasCredential, NoReply, servers
<1>5. Running'
  BY <1>1 DEF IInv, Running, Polls
<1>6. /\ at = "setting" => saved["token"] # 0
      /\ at = "credential" =>
           saved["kubeconfig"] = saved["cluster"] /\ saved["kubeconfig"] # 0
  BY InputsAgree DEF IInv, TypeOK, Running, Resources, Successor
<1>7. Sent'
  BY <1>1, <1>6 DEF IInv, Sent
<1> QED BY <1>3, <1>4, <1>5, <1>7 DEF IInv

LEMMA RetryKeeps ==
    ASSUME IInv, stage = "await", RetryOrAbandon, faults' \in Nat
    PROVE  IInv'
<1>1. CASE Abandon
  BY <1>1, AbandonKeeps
<1>2. CASE ~Abandon
  <2>1. /\ attempt <= Retries /\ stage' = "send" /\ reply' = NoReply
        /\ UNCHANGED <<servers, wire, runs, at, attempt, saved>>
    BY <1>2 DEF RetryOrAbandon, MayRetry
  <2>2. TypeOK'
    BY <2>1 DEF IInv, TypeOK, NoReply, servers
  <2>3. Chain' /\ Sent' /\ Replied' /\ Harvester'
    BY <2>1 DEF IInv, Chain, Sent, Replied, Harvester, HasCredential, NoReply, servers
  <2>4. Running'
    BY <2>1 DEF IInv, Running
  <2> QED BY <2>2, <2>3, <2>4 DEF IInv
<1> QED BY <1>1, <1>2

LEMMA ProviderKeeps == ASSUME IInv, Provider PROVE IInv'
<1> USE DEF Resources
<1>1. CASE Login
  BY <1>1, ImportAssumption DEF Login, servers, IInv, TypeOK, Chain, Running, Sent, Replied,
     Harvester, HasCredential, Polls
<1>2. CASE Refused
  BY <1>2, RetryKeeps DEF Refused, IInv, TypeOK
<1>3. CASE PostCluster \/ PatchSetting \/ PostCredential
  BY <1>3, AttemptKeeps DEF PostCluster, PatchSetting, PostCredential, IInv, TypeOK
<1>4. CASE ClusterCreated
  BY <1>4, RecordKeeps DEF ClusterCreated, Answered, IInv, Replied
<1>5. CASE SettingPatched
  BY <1>5, RecordKeeps, InputsAgree DEF SettingPatched
<1>6. CASE CredentialCreated
  BY <1>6, RecordKeeps, InputsAgree DEF CredentialCreated, Answered, IInv, Replied
<1>7. CASE FetchToken
  BY <1>7, RecordKeeps, InputsAgree DEF FetchToken, TokenCluster
<1>8. CASE WaitConnected
  BY <1>8, RecordKeeps, InputsAgree DEF WaitConnected, Connected
<1>9. CASE DownloadKubeconfig
  BY <1>9, RecordKeeps, InputsAgree DEF DownloadKubeconfig, KubeconfigCluster
<1> QED BY <1>1, <1>2, <1>3, <1>4, <1>5, <1>6, <1>7, <1>8, <1>9 DEF Provider

LEMMA FaultsKeep == ASSUME IInv, Faults PROVE IInv'
<1>1. faults' \in Nat
  BY DEF Faults, LoginFails, AttemptFails, PollFails, Crash, Fault, IInv, TypeOK
<1>2. CASE Abandon
  BY <1>1, <1>2, AbandonKeeps
<1>3. CASE LoginFails /\ ~Abandon
  <2>1. /\ attempt' \in 0..Retries + 1 /\ stage = "login"
        /\ UNCHANGED <<servers, wire, reply, runs, at, stage, saved>>
    BY <1>3, ImportAssumption DEF LoginFails, IInv, TypeOK
  <2> QED BY <1>1, <2>1 DEF servers, IInv, TypeOK, Chain, Running, Sent, Replied, Harvester,
             HasCredential
<1>4. CASE AttemptFails
  BY <1>1, <1>4, RetryKeeps DEF AttemptFails
<1> QED BY <1>2, <1>3, <1>4 DEF Faults, PollFails, Crash

LEMMA IInvInductive == IInv /\ [Next]_vars => IInv'
<1>1. ASSUME IInv, UNCHANGED vars PROVE IInv'
  BY <1>1 DEF vars, servers, IInv, TypeOK, Chain, Running, Sent, Replied, Harvester,
     HasCredential
<1> QED BY <1>1, StartRunKeeps, ProviderKeeps, ServersKeep, FaultsKeep DEF Next

LEMMA Invariance == Spec => []IInv
BY IInvInit, IInvInductive, PTL DEF Spec

-----------------------------------------------------------------------------
(* The properties.                                                         *)

\* The variables of the servers, the run and the stack keep their types, for any numbers.
THEOREM TypeCorrect == Spec => []TypeOK
<1>1. IInv => TypeOK
  BY DEF IInv
<1> QED BY <1>1, Invariance, PTL

\* The credential that is recorded is the kubeconfig of the cluster Harvester joined,
\* whatever was retried, lost, handled late or repeated on the way.
THEOREM CredentialIsValid == Spec => []CredentialWorks
<1>1. IInv => CredentialWorks
  BY DEF IInv, Chain, Harvester, HasCredential, CredentialWorks, Resources
<1> QED BY <1>1, Invariance, PTL

LEMMA StuckStays == IInv /\ [Next]_vars /\ uniqueNames /\ Stuck => Stuck'
<1>1. ASSUME IInv, [Next]_vars, uniqueNames, Stuck PROVE Stuck'
  <2>1. made \in Nat /\ made > 0 /\ saved["cluster"] = 0
    BY <1>1 DEF IInv, TypeOK, Stuck
  <2>2. at = "cluster" => reply.status # "ok"
    BY <1>1 DEF Stuck
  <2>3. CASE StartRun \/ UNCHANGED vars
    BY <2>1, <2>2, <2>3 DEF StartRun, Begin, NoReply, vars, servers, Stuck
  <2>4. CASE Provider
    <3>1. \A c : Record(at, c) /\ at # "cluster" => Stuck'
      BY <2>1 DEF Record, Begin, NoReply, servers, Stuck, IInv, TypeOK
    <3>2. CASE Login \/ Refused \/ PostCluster \/ PatchSetting \/ PostCredential
      BY <2>1, <2>2, <3>2
         DEF Login, Refused, RetryOrAbandon, Abandon, Begin, NoReply, Attempt, PostCluster,
             PatchSetting, PostCredential, servers, Stuck
    <3>3. ~ClusterCreated
      BY <2>2 DEF ClusterCreated, Answered
    <3> QED BY <2>4, <3>1, <3>2, <3>3
            DEF Provider, SettingPatched, CredentialCreated, DownloadKubeconfig, FetchToken,
                WaitConnected
  <2>5. CASE Servers
    <3>1. ASSUME NEW m \in wire, Handle(m) PROVE Stuck'
      <4>1. ASSUME NEW status, NEW c, Answer(m, status, c), made' = made,
                   m.res # "cluster" \/ status = "refused"
            PROVE  Stuck'
        BY <2>1, <2>2, <4>1 DEF Answer, InFlight, Stuck
      <4>2. CASE HandleCluster(m)
        BY <1>1, <2>1, <4>1, <4>2 DEF HandleCluster
      <4> QED BY <3>1, <4>1, <4>2 DEF Handle, HandleSetting, HandleCredential
    <3>2. CASE UNCHANGED <<made, reply, at, saved>>
      BY <2>1, <2>2, <3>2 DEF Stuck
    <3> QED BY <2>5, <3>1, <3>2 DEF Servers, TokenAppears, Join
  <2>6. CASE Faults
    BY <2>1, <2>2, <2>6
       DEF Faults, LoginFails, AttemptFails, PollFails, Crash, Fault, RetryOrAbandon, Abandon,
           Begin, NoReply, servers, Stuck
  <2> QED BY <1>1, <2>3, <2>4, <2>5, <2>6 DEF Next
<1> QED BY <1>1

\* A POST whose answer was lost blocks every later run when names are unique.
THEOREM Stuckness == Spec => StuckIsPermanent
<1>1. IInv /\ [Next]_vars => [uniqueNames /\ Stuck => Stuck']_vars
  BY StuckStays
<1> QED BY <1>1, Invariance, PTL DEF Spec, StuckIsPermanent

\* Recording a resource is what the abstract import does with the recorded cluster.
LEMMA RecordRefines ==
    ASSUME IInv, NEW c \in 1..made, at \in Resources, Record(at, c),
           at = "credential" => c = saved["cluster"]
    PROVE  [Import!Next]_(Import!vars)
<1>1. /\ saved' = [saved EXCEPT ![at] = c] /\ joined' = joined
      /\ saved[at] = 0 /\ saved \in [Resources -> Nat] /\ c \in Nat \ {0}
  BY DEF Record, servers, IInv, TypeOK, Running, Resources
<1>2. CASE at = "cluster"
  BY <1>1, <1>2 DEF Import!Next, Import!Choose, Resources
<1>3. CASE at = "credential"
  <2>1. saved["wait"] # 0 /\ joined = saved["cluster"]
    BY <1>3 DEF IInv, Running, Chain, Harvester, Successor, Resources
  <2> QED BY <1>1, <1>3, <2>1 DEF Import!Next, Import!Record, Resources
<1>4. CASE at \notin {"cluster", "credential"}
  BY <1>1, <1>4 DEF Import!vars, Resources
<1> QED BY <1>2, <1>3, <1>4

LEMMA ServersRefine ==
    ASSUME IInv, Servers
    PROVE  [Import!Next]_(Import!vars)
<1>1. CASE Join
  <2>1. joined = 0 /\ joined' = saved["cluster"] /\ saved["cluster"] # 0 /\ saved' = saved
    BY <1>1 DEF Join, IInv, Harvester
  <2> QED BY <2>1 DEF Import!Next, Import!Join
<1>2. CASE UNCHANGED <<joined, saved>>
  BY <1>2 DEF Import!vars
<1>3. Join \/ UNCHANGED <<joined, saved>>
  BY DEF Servers, Handle, HandleCluster, HandleSetting, HandleCredential, Answer, TokenAppears
<1> QED BY <1>1, <1>2, <1>3

\* Every step of the six resources is a step of the abstract import or leaves it alone.
THEOREM Refinement == Spec => ImplementsImport
<1>1. Init => Import!Init
  BY DEF Init, Import!Init, Resources
<1>2. ASSUME IInv, [Next]_vars PROVE [Import!Next]_(Import!vars)
  <2>1. CASE UNCHANGED <<joined, saved>>
    BY <2>1 DEF Import!vars
  <2>2. CASE Servers
    BY <1>2, <2>2, ServersRefine
  <2>3. CASE ClusterCreated
    BY <1>2, <2>3, RecordRefines DEF ClusterCreated, Answered, IInv, Replied, Resources
  <2>4. CASE CredentialCreated
    BY <1>2, <2>4, RecordRefines, InputsAgree DEF CredentialCreated, Resources
  <2>5. CASE SettingPatched \/ DownloadKubeconfig \/ FetchToken \/ WaitConnected
    <3>1. \E c : Record(at, c) /\ at \in {"token", "setting", "wait", "kubeconfig"}
      BY <2>5 DEF SettingPatched, DownloadKubeconfig, FetchToken, WaitConnected
    <3> QED BY <1>2, <3>1 DEF Record, servers, IInv, TypeOK, Resources, Import!vars
  <2>6. \/ Servers \/ ClusterCreated \/ CredentialCreated
        \/ SettingPatched \/ DownloadKubeconfig \/ FetchToken \/ WaitConnected
        \/ UNCHANGED <<joined, saved>>
    BY <1>2 DEF Next, StartRun, Provider, Login, Refused, Attempt, PostCluster, PatchSetting,
                PostCredential, Faults, LoginFails, AttemptFails, PollFails, Crash,
                RetryOrAbandon, Abandon, vars, servers
  <2> QED BY <2>1, <2>2, <2>3, <2>4, <2>5, <2>6
<1> QED BY <1>1, <1>2, Invariance, PTL DEF Spec, ImplementsImport, Import!Spec

-----------------------------------------------------------------------------
(* The count of what retried POSTs leave behind.                           *)

\* The POSTs Rancher has not handled.
Posts == {m \in wire : m.res \in {"cluster", "credential"}}

\* 1 if another POST of r may be sent before the next fault: r is not recorded, and no
\* attempt of it is in flight or was answered with success.
Budget(r) ==
    IF saved[r] # 0 \/ (at = r /\ stage = "await" /\ reply.status # "refused")
    THEN 0 ELSE 1

Spent == Budget("cluster") + Budget("credential")

\* The strengthening of OrphansPerFault: it counts the POSTs that are on their way, and
\* those that may still be sent.
CountInv ==
    /\ IsFiniteSet(wire)
    /\ made + Len(creds) + Cardinality(Posts) + Spent <= 2 + faults

LEMMA SpentType == Spent \in 0..2 /\ Spent' \in 0..2
<1>1. /\ Budget("cluster") \in {0, 1} /\ Budget("credential") \in {0, 1}
      /\ Budget("cluster")' \in {0, 1} /\ Budget("credential")' \in {0, 1}
  BY DEF Budget
<1> QED BY <1>1 DEF Spent

LEMMA Exchange ==
    ASSUME NEW n \in Nat, NEW b \in Nat, NEW c \in Nat, NEW f \in Nat, NEW g \in Nat,
           n + b <= 2 + f, c + f <= b + g
    PROVE  n + c <= 2 + g
OBVIOUS

LEMMA Fewer ==
    ASSUME NEW n \in Nat, NEW b \in Nat, NEW c \in Nat, NEW f \in Nat,
           n + b <= 2 + f, c <= b
    PROVE  n + c <= 2 + f
OBVIOUS

LEMMA OneMore ==
    ASSUME NEW b \in Nat, NEW c \in Nat, NEW f \in Nat, c <= b + 1
    PROVE  c + f <= b + (f + 1)
OBVIOUS

LEMMA PostsFinite ==
    ASSUME IsFiniteSet(wire) PROVE IsFiniteSet(Posts) /\ Cardinality(Posts) \in Nat
<1>1. Posts \in SUBSET wire
  BY DEF Posts
<1> QED BY <1>1, FS_Subset, FS_CardinalityType

\* What changes neither the servers nor the wire keeps the count, if the budget grows by
\* no more than the faults.
LEMMA QuietKeeps ==
    ASSUME IInv, CountInv, UNCHANGED <<servers, wire>>, faults' \in Nat,
           Spent' + faults <= Spent + faults'
    PROVE  CountInv'
<1>1. /\ Spent \in 0..2 /\ faults \in Nat /\ made \in Nat /\ Len(creds) \in Nat
      /\ Cardinality(Posts) \in Nat
  BY SpentType, PostsFinite DEF IInv, TypeOK, CountInv
<1>2. Spent' \in 0..2
  BY SpentType
<1>3. wire' = wire /\ Posts' = Posts /\ made' = made /\ creds' = creds
  BY DEF Posts, servers
<1>4. IsFiniteSet(wire') /\ Cardinality(Posts') = Cardinality(Posts) /\ Len(creds') = Len(creds)
  BY <1>3 DEF CountInv
<1>5. made + Len(creds) + Cardinality(Posts) + Spent' <= 2 + faults'
  <2>1. made + Len(creds) + Cardinality(Posts) \in Nat /\ Spent \in Nat /\ Spent' \in Nat
    BY <1>1, <1>2
  <2>2. made + Len(creds) + Cardinality(Posts) + Spent <= 2 + faults
    BY DEF CountInv
  <2> QED BY <1>1, <2>1, <2>2, Exchange
<1> QED BY <1>3, <1>4, <1>5 DEF CountInv

\* Giving a run up may bring one POST more into reach.
LEMMA AbandonBudget ==
    ASSUME IInv, Abandon
    PROVE  /\ Spent' <= Spent + 1
           /\ stage # "await" \/ reply.status = "refused" => Spent' = Spent
<1>1. saved' = saved /\ at' = "none"
  BY DEF Abandon, Begin
<1>2. /\ Budget("cluster")' = IF saved["cluster"] # 0 THEN 0 ELSE 1
      /\ Budget("credential")' = IF saved["credential"] # 0 THEN 0 ELSE 1
  BY <1>1 DEF Budget
<1> QED BY <1>2 DEF Spent, Budget

LEMMA RetryBudget ==
    ASSUME IInv, stage = "await", RetryOrAbandon
    PROVE  /\ Spent' <= Spent + 1
           /\ reply.status = "refused" => Spent' = Spent
<1>1. CASE Abandon
  BY <1>1, AbandonBudget
<1>2. CASE ~Abandon
  <2>1. saved' = saved /\ at' = at /\ stage' = "send"
    BY <1>2 DEF RetryOrAbandon
  <2>2. /\ Budget("cluster")' = IF saved["cluster"] # 0 THEN 0 ELSE 1
        /\ Budget("credential")' = IF saved["credential"] # 0 THEN 0 ELSE 1
    BY <2>1 DEF Budget
  <2> QED BY <2>2 DEF Spent, Budget
<1> QED BY <1>1, <1>2

\* A resource is recorded after its POST was answered, so no budget comes back.
LEMMA RecordBudget ==
    ASSUME IInv, at \in Resources, NEW c \in 1..made, Record(at, c),
           at \in {"cluster", "credential"} => Answered
    PROVE  Spent' = Spent
<1>1. /\ saved' = [saved EXCEPT ![at] = c] /\ saved \in [Resources -> Nat] /\ c # 0
      /\ at' = Successor(at) /\ reply' = NoReply
      /\ stage' = IF at' \in Polls \cup {"none"} THEN "poll" ELSE "login"
  BY DEF Record, Begin, IInv, TypeOK
<1>2. stage' # "await"
  BY <1>1
<1>3. ASSUME NEW r \in {"cluster", "credential"} PROVE Budget(r)' = Budget(r)
  <2>1. CASE at = r
    <3>1. saved'[r] # 0
      BY <1>1, <2>1 DEF Resources
    <3>2. stage = "await" /\ reply.status = "ok"
      BY <2>1 DEF Answered
    <3> QED BY <2>1, <3>1, <3>2 DEF Budget
  <2>2. CASE at # r
    <3>1. saved'[r] = saved[r]
      BY <1>1, <2>2 DEF Resources
    <3> QED BY <1>2, <2>2, <3>1 DEF Budget
  <2> QED BY <2>1, <2>2
<1> QED BY <1>3 DEF Spent

\* An attempt turns a unit of the budget into a request.
LEMMA AttemptCounts ==
    ASSUME IInv, CountInv, at \in {"cluster", "setting", "credential"},
           NEW c \in Nat, NEW k \in Nat, Attempt(c, k)
    PROVE  CountInv'
<1> DEFINE m == [run |-> runs, try |-> attempt', res |-> at, cluster |-> c, kubeconfig |-> k]
<1>1. /\ stage = "send" /\ stage' = "await" /\ reply' = NoReply
      /\ wire' = wire \cup {m}
      /\ UNCHANGED <<servers, runs, faults, at, saved>>
  BY DEF Attempt
<1>2. /\ Spent \in 0..2 /\ faults \in Nat /\ made \in Nat /\ Len(creds) \in Nat
      /\ Cardinality(Posts) \in Nat /\ IsFiniteSet(Posts)
      /\ Spent' \in 0..2 /\ made' = made /\ creds' = creds /\ faults' = faults
  BY <1>1, SpentType, PostsFinite DEF IInv, TypeOK, CountInv, servers
<1>3. IsFiniteSet(wire')
  BY <1>1, FS_AddElement DEF CountInv
<1>4. saved[at] = 0
  BY DEF IInv, Running
<1>5. CASE at = "setting"
  <2>1. Posts' = Posts
    BY <1>1, <1>5 DEF Posts
  <2>2. Spent' = Spent
    BY <1>1, <1>5 DEF Spent, Budget
  <2> QED BY <1>2, <1>3, <2>1, <2>2 DEF CountInv
<1>6. CASE at # "setting"
  <2>1. Posts' = Posts \cup {m}
    BY <1>1, <1>6 DEF Posts
  <2>2. Cardinality(Posts') <= Cardinality(Posts) + 1 /\ Cardinality(Posts') \in Nat
    <3> HIDE DEF m
    <3>1. /\ IsFiniteSet(Posts \cup {m})
          /\ Cardinality(Posts \cup {m}) =
               IF m \in Posts THEN Cardinality(Posts) ELSE Cardinality(Posts) + 1
      BY <1>2, FS_AddElement
    <3>2. /\ Cardinality(Posts \cup {m}) <= Cardinality(Posts) + 1
          /\ Cardinality(Posts \cup {m}) \in Nat
      BY <1>2, <3>1
    <3> QED BY <2>1, <3>2
  <2>3. Spent' = Spent - 1
    BY <1>1, <1>4, <1>6 DEF Spent, Budget, NoReply
  <2> QED BY <1>2, <1>3, <2>2, <2>3 DEF CountInv
<1> QED BY <1>5, <1>6

\* Handling a request takes it off the wire.
LEMMA AnswerPosts ==
    ASSUME IInv, CountInv, NEW m \in wire, NEW status, NEW c, Answer(m, status, c)
    PROVE  /\ IsFiniteSet(wire') /\ Cardinality(Posts') \in Nat
           /\ m.res = "setting" => Cardinality(Posts') = Cardinality(Posts)
           /\ m.res # "setting" => Cardinality(Posts') = Cardinality(Posts) - 1
<1>1. wire' = wire \ {m} /\ IsFiniteSet(wire) /\ m.res \in {"cluster", "setting", "credential"}
  BY DEF Answer, CountInv, IInv, TypeOK, Request
<1>2. IsFiniteSet(wire')
  BY <1>1, FS_RemoveElement
<1>3. IsFiniteSet(Posts)
  BY <1>1, PostsFinite
<1>4. CASE m.res = "setting"
  <2>1. Posts' = Posts
    BY <1>1, <1>4 DEF Posts
  <2> QED BY <1>2, <1>3, <1>4, <2>1, FS_CardinalityType
<1>5. CASE m.res # "setting"
  <2>1. Posts' = Posts \ {m} /\ m \in Posts
    BY <1>1, <1>5 DEF Posts
  <2>2. IsFiniteSet(Posts') /\ Cardinality(Posts') = Cardinality(Posts) - 1
    BY <1>3, <2>1, FS_RemoveElement
  <2> QED BY <1>2, <1>5, <2>2, FS_CardinalityType
<1> QED BY <1>4, <1>5

LEMMA ServersCount == ASSUME IInv, CountInv, Servers PROVE CountInv'
<1>t. /\ Spent \in 0..2 /\ Spent' \in 0..2 /\ faults \in Nat /\ made \in Nat
      /\ Len(creds) \in Nat /\ Cardinality(Posts) \in Nat
  BY SpentType, PostsFinite DEF IInv, TypeOK, CountInv
<1>s. creds \in Seq(Credential)
  BY DEF IInv, TypeOK
<1>n. Spent \in Nat /\ Spent' \in Nat /\ faults \in Nat
  BY <1>t
<1>1. ASSUME NEW m \in wire, HandleCluster(m) PROVE CountInv'
  <2>1. CASE uniqueNames /\ made > 0
    <3>1. Answer(m, "refused", 0) /\ made' = made /\ creds' = creds /\ m.res = "cluster"
      BY <1>1, <2>1 DEF HandleCluster
    <3>2. /\ at' = at /\ stage' = stage /\ saved' = saved /\ faults' = faults
          /\ reply' = reply \/ at = "cluster"
      BY <3>1 DEF Answer, InFlight
    <3>3. Spent' <= Spent + 1
      <4>1. Budget("credential")' = Budget("credential")
        BY <3>2 DEF Budget
      <4>2. Budget("cluster")' \in {0, 1} /\ Budget("cluster") \in {0, 1}
            /\ Budget("credential") \in {0, 1}
        BY DEF Budget
      <4> QED BY <4>1, <4>2 DEF Spent
    <3>4. IsFiniteSet(wire') /\ Cardinality(Posts') \in Nat
          /\ Cardinality(Posts') = Cardinality(Posts) - 1
      BY <3>1, AnswerPosts
    <3>5. Len(creds') = Len(creds)
      BY <3>1
    <3>6. made + Len(creds) + Cardinality(Posts) + Spent <= 2 + faults
      BY DEF CountInv
    <3>7. made' + Len(creds') + Cardinality(Posts') + Spent' <= 2 + faults'
      BY <1>t, <3>1, <3>2, <3>3, <3>4, <3>5, <3>6
    <3> QED BY <3>4, <3>7 DEF CountInv
  <2>2. CASE ~(uniqueNames /\ made > 0)
    <3>1. Answer(m, "ok", made + 1) /\ made' = made + 1 /\ creds' = creds
          /\ m.res = "cluster"
      BY <1>1, <2>2 DEF HandleCluster
    <3>2. /\ at' = at /\ stage' = stage /\ saved' = saved /\ faults' = faults
          /\ reply' = reply \/ reply'.status = "ok"
      BY <3>1 DEF Answer
    <3>3. Spent' <= Spent
      BY <3>2 DEF Spent, Budget
    <3>4. IsFiniteSet(wire') /\ Cardinality(Posts') \in Nat
          /\ Cardinality(Posts') = Cardinality(Posts) - 1
      BY <3>1, AnswerPosts
    <3>5. Len(creds') = Len(creds)
      BY <3>1
    <3>6. made + Len(creds) + Cardinality(Posts) + Spent <= 2 + faults
      BY DEF CountInv
    <3>7. made' + Len(creds') + Cardinality(Posts') + Spent' <= 2 + faults'
      <4>1. made' + Len(creds') + Cardinality(Posts') = made + Len(creds) + Cardinality(Posts)
        BY <1>t, <3>1, <3>4, <3>5
      <4>2. made + Len(creds) + Cardinality(Posts) \in Nat
        BY <1>t
      <4> QED BY <1>n, <3>2, <3>3, <3>6, <4>1, <4>2, Fewer
    <3> QED BY <3>4, <3>7 DEF CountInv
  <2> QED BY <2>1, <2>2
<1>2. ASSUME NEW m \in wire, HandleSetting(m) PROVE CountInv'
  <2>1. Answer(m, "ok", 0) /\ made' = made /\ creds' = creds /\ m.res = "setting"
    BY <1>2 DEF HandleSetting
  <2>2. /\ at' = at /\ stage' = stage /\ saved' = saved /\ faults' = faults
        /\ reply' = reply \/ reply'.status = "ok"
    BY <2>1 DEF Answer
  <2>3. Spent' <= Spent
    BY <2>2 DEF Spent, Budget
  <2> QED BY <1>t, <2>1, <2>2, <2>3, AnswerPosts DEF CountInv
<1>3. ASSUME NEW m \in wire, HandleCredential(m) PROVE CountInv'
  <2>1. /\ Answer(m, "ok", 0) /\ made' = made /\ m.res = "credential"
        /\ creds' = Append(creds, [cluster |-> m.cluster, kubeconfig |-> m.kubeconfig])
    BY <1>3 DEF HandleCredential
  <2>2. Len(creds') = Len(creds) + 1
    <3>1. [cluster |-> m.cluster, kubeconfig |-> m.kubeconfig] \in Credential
      BY DEF Credential, IInv, TypeOK, Request
    <3> QED BY <1>s, <2>1, <3>1
  <2>3. /\ at' = at /\ stage' = stage /\ saved' = saved /\ faults' = faults
        /\ reply' = reply \/ reply'.status = "ok"
    BY <2>1 DEF Answer
  <2>4. Spent' <= Spent
    BY <2>3 DEF Spent, Budget
  <2>5. IsFiniteSet(wire') /\ Cardinality(Posts') \in Nat
        /\ Cardinality(Posts') = Cardinality(Posts) - 1
    BY <2>1, AnswerPosts
  <2>6. made + Len(creds) + Cardinality(Posts) + Spent <= 2 + faults
    BY DEF CountInv
  <2>7. made' + Len(creds') + Cardinality(Posts') + Spent' <= 2 + faults'
    <3>1. made' + Len(creds') + Cardinality(Posts') = made + Len(creds) + Cardinality(Posts)
      BY <1>t, <2>1, <2>2, <2>5
    <3>2. made + Len(creds) + Cardinality(Posts) \in Nat
      BY <1>t
    <3> QED BY <1>n, <2>3, <2>4, <2>6, <3>1, <3>2, Fewer
  <2> QED BY <2>5, <2>7 DEF CountInv
<1>4. ASSUME NEW c \in 1..made, TokenAppears(c) PROVE CountInv'
  <2>1. UNCHANGED <<made, creds, wire, faults, at, stage, reply, saved>>
    BY <1>4 DEF TokenAppears
  <2>2. Posts' = Posts /\ Spent' = Spent
    BY <2>1 DEF Posts, Spent, Budget
  <2> QED BY <2>1, <2>2 DEF CountInv
<1>5. ASSUME Join PROVE CountInv'
  <2>1. UNCHANGED <<made, creds, wire, faults, at, stage, reply, saved>>
    BY <1>5 DEF Join
  <2>2. Posts' = Posts /\ Spent' = Spent
    BY <2>1 DEF Posts, Spent, Budget
  <2> QED BY <2>1, <2>2 DEF CountInv
<1> QED BY <1>1, <1>2, <1>3, <1>4, <1>5 DEF Servers, Handle

LEMMA ProviderCounts == ASSUME IInv, CountInv, Provider PROVE CountInv'
<1>t. Spent \in 0..2 /\ Spent' \in 0..2 /\ faults \in Nat
  BY SpentType DEF IInv, TypeOK
<1>1. ASSUME UNCHANGED <<servers, wire, faults>>, Spent' = Spent PROVE CountInv'
  BY <1>t, <1>1, QuietKeeps
<1>2. CASE Login
  <2>1. Spent' = Spent
    BY <1>2 DEF Login, Spent, Budget
  <2> QED BY <1>1, <1>2, <2>1 DEF Login
<1>3. CASE Refused
  <2>1. UNCHANGED <<servers, wire, faults>>
    BY <1>3 DEF Refused, RetryOrAbandon, Abandon
  <2>2. Spent' = Spent
    BY <1>3, RetryBudget DEF Refused
  <2> QED BY <1>1, <2>1, <2>2
<1>4. CASE PostCluster \/ PatchSetting \/ PostCredential
  BY <1>4, AttemptCounts DEF PostCluster, PatchSetting, PostCredential, IInv, TypeOK, Resources
<1>5. ASSUME at \in Resources, NEW c \in 1..made, Record(at, c),
             at \in {"cluster", "credential"} => Answered
      PROVE  CountInv'
  <2>1. UNCHANGED <<servers, wire, faults>>
    BY <1>5 DEF Record
  <2> QED BY <1>1, <1>5, <2>1, RecordBudget
<1>6. CASE ClusterCreated
  BY <1>5, <1>6 DEF ClusterCreated, Answered, IInv, Replied, Resources
<1>7. CASE SettingPatched \/ CredentialCreated \/ FetchToken \/ WaitConnected \/ DownloadKubeconfig
  <2>1. /\ at \in {"setting", "credential", "token", "wait", "kubeconfig"}
        /\ at = "credential" => Answered
        /\ (Record(at, saved["token"]) /\ at # "token") \/ Record(at, saved["cluster"])
    BY <1>7 DEF SettingPatched, CredentialCreated, FetchToken, WaitConnected, DownloadKubeconfig,
                TokenCluster, KubeconfigCluster
  <2>2. at \in Resources /\ at # "cluster"
    BY <2>1 DEF Resources
  <2> QED BY <1>5, <2>1, <2>2, InputsAgree
<1> QED BY <1>2, <1>3, <1>4, <1>6, <1>7 DEF Provider

LEMMA FaultsCount == ASSUME IInv, CountInv, Faults PROVE CountInv'
<1>1. /\ UNCHANGED <<servers, wire>> /\ faults' = faults + 1
  BY DEF Faults, LoginFails, AttemptFails, PollFails, Crash, Fault, RetryOrAbandon, Abandon
<1>2. Spent' <= Spent + 1
  <2>1. CASE Abandon
    BY <2>1, AbandonBudget
  <2>2. CASE LoginFails /\ ~Abandon
    <3>1. UNCHANGED <<reply, at, stage, saved>>
      BY <2>2 DEF LoginFails
    <3>2. Spent' = Spent
      BY <3>1 DEF Spent, Budget
    <3> QED BY <3>2, SpentType
  <2>3. CASE AttemptFails
    BY <2>3, RetryBudget DEF AttemptFails
  <2> QED BY <2>1, <2>2, <2>3 DEF Faults, PollFails, Crash
<1>3. Spent \in 0..2 /\ Spent' \in 0..2 /\ faults \in Nat
  BY SpentType DEF IInv, TypeOK
<1>4. Spent' + faults <= Spent + faults' /\ faults' \in Nat
  <2>1. faults' = faults + 1 /\ Spent \in Nat /\ Spent' \in Nat
    BY <1>1, <1>3
  <2>2. Spent' + faults <= Spent + (faults + 1)
    BY <1>2, <1>3, <2>1, OneMore
  <2>3. faults' \in Nat
    BY <1>3, <2>1
  <2>4. Spent' + faults <= Spent + faults'
    BY <2>1, <2>2, Zenon
  <2> QED BY <2>3, <2>4
<1> QED BY <1>1, <1>4, QuietKeeps

LEMMA StartRunCounts == ASSUME IInv, CountInv, StartRun PROVE CountInv'
<1>1. UNCHANGED <<servers, wire, faults, saved>> /\ at = "none" /\ stage' # "await"
  BY DEF StartRun, Begin
<1>2. Spent' = Spent
  BY <1>1 DEF Spent, Budget
<1>3. Spent \in 0..2 /\ faults \in Nat /\ faults' = faults
  BY <1>1, SpentType DEF IInv, TypeOK
<1>4. Spent' + faults <= Spent + faults'
  BY <1>2, <1>3
<1>5. UNCHANGED <<servers, wire>> /\ faults' \in Nat
  BY <1>1, <1>3
<1> QED BY <1>4, <1>5, QuietKeeps

\* Whatever is lost, retried and repeated, Rancher has at most one cluster and one
\* credential and one more of either for each fault.
THEOREM OrphansAreBounded == Spec => []OrphansPerFault
<1>1. Init => CountInv
  <2> SUFFICES ASSUME Init PROVE CountInv
    OBVIOUS
  <2>1. wire = {} /\ made = 0 /\ Len(creds) = 0 /\ faults = 0
    BY DEF Init
  <2>2. Posts = {} /\ IsFiniteSet(wire) /\ Cardinality(Posts) = 0
    BY <2>1, FS_EmptySet DEF Posts
  <2> QED BY <2>1, <2>2, SpentType DEF CountInv
<1>2. IInv /\ CountInv /\ [Next]_vars => CountInv'
  <2>1. ASSUME CountInv, UNCHANGED vars PROVE CountInv'
    <3>1. UNCHANGED <<made, creds, wire, faults, at, stage, reply, saved>>
      BY <2>1 DEF vars, servers
    <3>2. Posts' = Posts /\ Spent' = Spent
      BY <3>1 DEF Posts, Spent, Budget
    <3> QED BY <2>1, <3>1, <3>2 DEF CountInv
  <2> QED BY <2>1, StartRunCounts, ProviderCounts, ServersCount, FaultsCount DEF Next
<1>3. IInv /\ CountInv => OrphansPerFault
  <2> SUFFICES ASSUME IInv, CountInv PROVE OrphansPerFault
    OBVIOUS
  <2>1. /\ made \in Nat /\ Len(creds) \in Nat /\ faults \in Nat
        /\ Cardinality(Posts) \in Nat /\ Spent \in 0..2
    BY SpentType, PostsFinite DEF IInv, TypeOK, CountInv
  <2> QED BY <2>1 DEF CountInv, OrphansPerFault
<1> QED BY <1>1, <1>2, <1>3, Invariance, PTL DEF Spec

-----------------------------------------------------------------------------
(* What runs fail for.                                                     *)

\* 1 for the run that goes on, or that was the last one.
Going == IF at # "none" \/ saved["credential"] # 0 THEN 1 ELSE 0

\* The strengthening of FailuresAreFaults: every run but the one that goes on has cost a
\* fault, and Rancher refuses nothing but a second cluster of a unique name.
FaultInv ==
    /\ reply.status = "refused" => uniqueNames /\ at = "cluster" /\ made > 0
    /\ (uniqueNames /\ Stuck) \/ runs <= faults + Going

LEMMA MoreFaults ==
    ASSUME NEW r \in Nat, NEW f \in Nat, NEW g \in {0, 1}, r <= f + g
    PROVE  r <= (f + 1) + g
OBVIOUS

\* Nothing that only moves on within a run, or on the servers, counts.
LEMMA OnKeeps ==
    ASSUME IInv, FaultInv, [Next]_vars, uniqueNames' = uniqueNames,
           reply'.status = "refused" => uniqueNames /\ at' = "cluster" /\ made' > 0,
           runs' = runs, faults' \in {faults, faults + 1}, Going' = Going
    PROVE  FaultInv'
<1>1. runs \in Nat /\ faults \in Nat /\ Going \in {0, 1}
  BY DEF IInv, TypeOK, Going
<1>2. runs <= faults + Going => runs' <= faults' + Going'
  <2>1. CASE faults' = faults
    BY <2>1
  <2>2. CASE faults' = faults + 1
    BY <1>1, <2>2, MoreFaults
  <2> QED BY <2>1, <2>2
<1>3. (uniqueNames' /\ Stuck') \/ runs' <= faults' + Going'
  BY <1>2, StuckStays DEF FaultInv
<1> QED BY <1>3 DEF FaultInv

LEMMA AbandonCosts ==
    ASSUME IInv, FaultInv, [Next]_vars, Abandon, at # "none", faults' = faults + 1
    PROVE  FaultInv'
<1>1. /\ reply' = NoReply /\ runs' = runs /\ uniqueNames' = uniqueNames
      /\ runs \in Nat /\ faults \in Nat
  BY DEF Abandon, Begin, servers, IInv, TypeOK
<1>2. Going = 1 /\ Going' \in {0, 1}
  BY DEF Going
<1>3. runs <= faults + Going => runs' <= faults' + Going'
  <2>1. ASSUME NEW g \in {0, 1}, runs <= faults + 1 PROVE runs <= (faults + 1) + g
    BY <1>1, <2>1
  <2> QED BY <1>1, <1>2, <2>1
<1>4. reply'.status # "refused"
  BY <1>1 DEF NoReply
<1>5. (uniqueNames' /\ Stuck') \/ runs' <= faults' + Going'
  BY <1>1, <1>3, StuckStays DEF FaultInv
<1> QED BY <1>4, <1>5 DEF FaultInv

LEMMA RecordOn ==
    ASSUME IInv, FaultInv, [Next]_vars, at # "none", NEW c \in Nat \ {0}, Record(at, c)
    PROVE  FaultInv'
<1>1. /\ reply' = NoReply /\ runs' = runs /\ faults' = faults /\ uniqueNames' = uniqueNames
      /\ saved' = [saved EXCEPT ![at] = c] /\ at' = Successor(at)
      /\ saved \in [Resources -> Nat] /\ at \in Resources
  BY DEF Record, Begin, servers, IInv, TypeOK
<1>2. at' = "none" => saved'["credential"] # 0
  BY <1>1 DEF Successor, Resources
<1>3. Going = 1 /\ Going' = 1
  BY <1>2 DEF Going
<1>4. reply'.status = "none"
  BY <1>1 DEF NoReply
<1> QED BY <1>1, <1>3, <1>4, OnKeeps

LEMMA ProviderFails ==
    ASSUME IInv, FaultInv, [Next]_vars, Provider PROVE FaultInv'
<1>1. CASE Login \/ PostCluster \/ PatchSetting \/ PostCredential
  <2>1. /\ UNCHANGED <<uniqueNames, made, at, saved, runs, faults>>
        /\ reply' \in {reply, NoReply}
    BY <1>1 DEF Login, PostCluster, PatchSetting, PostCredential, Attempt, servers
  <2>2. Going' = Going
    BY <2>1 DEF Going
  <2>3. reply'.status = "refused" => reply.status = "refused"
    BY <2>1 DEF NoReply
  <2>4. reply'.status = "refused" => uniqueNames /\ at' = "cluster" /\ made' > 0
    BY <2>1, <2>3 DEF FaultInv
  <2> QED BY <2>1, <2>2, <2>4, OnKeeps
<1>2. CASE Refused
  <2>1. uniqueNames /\ at = "cluster" /\ made > 0 /\ reply.status = "refused"
    BY <1>2 DEF Refused, FaultInv
  <2>2. Stuck
    BY <2>1 DEF Stuck, IInv, Running
  <2>3. uniqueNames' = uniqueNames /\ reply' = NoReply
    BY <1>2 DEF Refused, RetryOrAbandon, Abandon, Begin, servers
  <2>4. reply'.status # "refused"
    BY <2>3 DEF NoReply
  <2> QED BY <2>1, <2>2, <2>3, <2>4, StuckStays DEF FaultInv
<1>3. CASE ClusterCreated
  <2>1. at = "cluster" /\ reply.cluster \in Nat \ {0} /\ Record(at, reply.cluster)
    BY <1>3 DEF ClusterCreated, Answered, IInv, Replied, TypeOK
  <2> QED BY <2>1, RecordOn
<1>4. CASE SettingPatched \/ CredentialCreated
  <2>1. at # "none" /\ \E c \in 1..made : Record(at, c)
    BY <1>4, InputsAgree DEF SettingPatched, CredentialCreated, Resources
  <2> QED BY <2>1, RecordOn DEF IInv, TypeOK
<1>5. CASE FetchToken \/ WaitConnected \/ DownloadKubeconfig
  <2>1. at # "none" /\ \E c \in 1..made : Record(at, c)
    BY <1>5, InputsAgree
    DEF FetchToken, TokenCluster, WaitConnected, DownloadKubeconfig, KubeconfigCluster,
        Resources
  <2> QED BY <2>1, RecordOn DEF IInv, TypeOK
<1> QED BY <1>1, <1>2, <1>3, <1>4, <1>5 DEF Provider

LEMMA ServersFail ==
    ASSUME IInv, FaultInv, [Next]_vars, Servers PROVE FaultInv'
<1>1. UNCHANGED <<uniqueNames, at, saved, runs, faults>>
  BY DEF Servers, Handle, HandleCluster, HandleSetting, HandleCredential, Answer,
         TokenAppears, Join
<1>2. Going' = Going
  BY <1>1 DEF Going
<1>3. made' \in {made, made + 1} /\ made \in Nat
  <2>1. made \in Nat
    BY DEF IInv, TypeOK
  <2>2. made' = made \/ made' = made + 1
    BY DEF Servers, Handle, HandleCluster, HandleSetting, HandleCredential, Answer,
           TokenAppears, Join
  <2> QED BY <2>1, <2>2
<1>4. reply'.status = "refused" /\ reply' # reply => uniqueNames /\ at = "cluster" /\ made > 0
  <2>1. ASSUME NEW m \in wire, HandleCluster(m), reply'.status = "refused", reply' # reply
        PROVE  uniqueNames /\ at = "cluster" /\ made > 0
    BY <2>1 DEF HandleCluster, Answer, InFlight
  <2>2. ASSUME NEW m \in wire, HandleSetting(m) \/ HandleCredential(m), reply' # reply
        PROVE  reply'.status # "refused"
    BY <2>2 DEF HandleSetting, HandleCredential, Answer
  <2> QED BY <2>1, <2>2 DEF Servers, Handle, TokenAppears, Join
<1>5. reply'.status = "refused" => uniqueNames /\ at = "cluster" /\ made > 0
  <2>1. CASE reply' = reply
    BY <2>1 DEF FaultInv
  <2> QED BY <1>4, <2>1
<1>6. made > 0 => made' > 0
  BY <1>3
<1> QED BY <1>1, <1>2, <1>5, <1>6, OnKeeps

LEMMA FaultsFail ==
    ASSUME IInv, FaultInv, [Next]_vars, Faults PROVE FaultInv'
<1>1. at # "none" /\ faults' = faults + 1
  BY DEF Faults, LoginFails, AttemptFails, PollFails, Crash, Fault, IInv, Running, Polls
<1>2. CASE Abandon
  BY <1>1, <1>2, AbandonCosts
<1>3. CASE ~Abandon
  <2>1. /\ UNCHANGED <<uniqueNames, made, at, saved, runs>>
        /\ reply' \in {reply, NoReply}
    BY <1>3
    DEF Faults, LoginFails, AttemptFails, PollFails, Crash, RetryOrAbandon, servers
  <2>2. Going' = Going
    BY <2>1 DEF Going
  <2>3. reply'.status = "refused" => reply.status = "refused"
    BY <2>1 DEF NoReply
  <2>4. reply'.status = "refused" => uniqueNames /\ at' = "cluster" /\ made' > 0
    BY <2>1, <2>3 DEF FaultInv
  <2> QED BY <1>1, <2>1, <2>2, <2>4, OnKeeps
<1> QED BY <1>2, <1>3

LEMMA StartRunFails ==
    ASSUME IInv, FaultInv, [Next]_vars, StartRun PROVE FaultInv'
<1>1. /\ at = "none" /\ runs' = runs + 1 /\ faults' = faults /\ saved' = saved
      /\ uniqueNames' = uniqueNames /\ reply' = NoReply /\ at' \in Resources
      /\ \E r \in Resources : saved[r] = 0
  BY DEF StartRun, Begin, servers
<1>2. saved["credential"] = 0
  BY <1>1 DEF IInv, Chain, Resources
<1>3. Going = 0 /\ Going' = 1
  BY <1>1, <1>2 DEF Going, Resources
<1>4. runs \in Nat /\ faults \in Nat
  BY DEF IInv, TypeOK
<1>5. reply'.status # "refused"
  BY <1>1 DEF NoReply
<1> QED BY <1>1, <1>3, <1>4, <1>5, StuckStays DEF FaultInv

\* Reruns are not punished for what went before: whatever was lost, handled late, recorded
\* or left behind, no more runs fail than there were faults, but for the one known trap.
THEOREM RunsFailForFaults == Spec => []FailuresAreFaults
<1>1. Init => FaultInv
  BY DEF Init, FaultInv, NoReply, Going, Resources
<1>2. IInv /\ FaultInv /\ [Next]_vars => FaultInv'
  <2>1. ASSUME IInv, FaultInv, [Next]_vars, UNCHANGED vars PROVE FaultInv'
    BY <2>1, OnKeeps DEF vars, servers, FaultInv, Going
  <2> QED BY <2>1, StartRunFails, ProviderFails, ServersFail, FaultsFail DEF Next
<1>3. IInv /\ FaultInv => FailuresAreFaults
  <2> SUFFICES ASSUME IInv, FaultInv PROVE FailuresAreFaults
    OBVIOUS
  <2>1. runs \in Nat /\ faults \in Nat /\ Going \in {0, 1}
    BY DEF IInv, TypeOK, Going
  <2> QED BY <2>1 DEF FaultInv, FailuresAreFaults
<1> QED BY <1>1, <1>2, <1>3, Invariance, PTL DEF Spec
=============================================================================
