------------------------------ MODULE Lifecycle ------------------------------
(***************************************************************************)
(* The dynamic resources over the life of a stack: run after run of        *)
(* `pulumi up`, with a configuration that changes in between, a Rancher    *)
(* server that is rebuilt, a Harvester that another Rancher takes over,    *)
(* `pulumi refresh` and `pulumi destroy`.  What a provider's diff(),       *)
(* update() and read() do, or that it has none, is all that decides what   *)
(* becomes of such a change.  Requests are atomic and fail only for cause: *)
(* retries and lost answers are the subject of Bootstrap, HarvesterImport. *)
(*                                                                         *)
(* External: the engine.  It compares inputs where a provider has no       *)
(* diff(), passes recorded outputs to the diff() of one that has, records  *)
(* no outputs where a provider has no update(), keeps them where it has no *)
(* read(), and orders resources by what they use.                          *)
(***************************************************************************)
EXTENDS Naturals, FiniteSets

CONSTANTS
    Names,      \* of the Harvester cluster
    Passwords,  \* of the Rancher admin
    Versions,   \* of a UI plugin
    Repos,      \* GitRepos of a FleetRepo
    Addresses,  \* of the Rancher VM
    MaxChanges, \* changes of the configuration and of the servers
    MaxFaults   \* requests of FleetRepo that fail without cause

Bootstrap == "bootstrap password"

ASSUME LifecycleAssumption ==
    /\ MaxChanges \in Nat
    /\ MaxFaults \in Nat
    /\ Bootstrap \notin Passwords

\* The providers, named by what they keep: VmIpAddress, RemoteKubeconfig,
\* BootstrapAdminPassword, RancherApp, FleetRepo, HarvesterCluster,
\* ClusterRegistrationToken, HarvesterSetting, KubeWait, RancherKubeconfig and
\* CloudCredential.  FleetRepo is the package's; the sample program does without it.
Resources == {"address", "vmKubeconfig", "password", "app", "repos", "cluster", "token",
              "setting", "wait", "kubeconfig", "credential"}

\* What a resource's arguments and dependsOn name.
Uses(r) ==
    CASE r = "address" -> {}
      [] r = "vmKubeconfig" -> {"address"}
      [] r = "password" -> {"vmKubeconfig"}
      [] r \in {"app", "repos"} -> {"password"}
      [] r = "cluster" -> {"password", "app"}
      [] r = "token" -> {"vmKubeconfig", "cluster", "app"}
      [] r = "setting" -> {"token", "app"}
      [] r = "wait" -> {"vmKubeconfig", "cluster", "setting"}
      [] r = "kubeconfig" -> {"password", "cluster", "wait"}
      [] r = "credential" -> {"password", "cluster", "kubeconfig"}

VARIABLES
    config,     \* what the program is run with: [name, password, version, repos]
    vm,         \* the Rancher VM: [epoch, ip]; a rebuilt one has the next epoch
    rancher,    \* that server's [admin, plugin, clusters, credentials, gitrepos]
    registered, \* the cluster that Harvester registers itself as, 0 if none of ours
    saved,      \* the stack: of each resource created its inputs, outputs and epoch
    todo,       \* resources this run has not come to
    failed,     \* resources this run failed at
    running,
    complete,   \* a run succeeded and nothing has changed since
    noticed,    \* Harvester was not taken over since the last refresh
    changes, faults

world == <<rancher, registered>>
runVars == <<todo, failed, running, complete>>
vars == <<config, vm, world, saved, runVars, noticed, changes, faults>>

\* A server as it comes up: Rancher generates a bootstrap password.
NewServer == [admin |-> Bootstrap, plugin |-> "none", clusters |-> {}, credentials |-> {},
              gitrepos |-> {}]

Init ==
    /\ config \in [name : Names, password : Passwords, version : Versions,
                   repos : (SUBSET Repos) \ {{}}]
    /\ vm \in [epoch : {1}, ip : Addresses]
    /\ rancher = NewServer
    /\ registered = 0
    /\ saved = [r \in {} |-> {}]
    /\ todo = {} /\ failed = {} /\ running = FALSE
    /\ complete = FALSE /\ noticed = TRUE
    /\ changes = 0 /\ faults = 0

\* Plausible bug: what is of an earlier server is taken for not created.
CreatedHere(r) == r \in DOMAIN saved /\ saved[r].epoch = vm.epoch

\* The stack has the resource.
Created(r) == r \in DOMAIN saved
Out(r) == saved[r].out

\* The inputs the program gives a resource, as far as they can change.
In(r) ==
    CASE r = "address" -> [vm |-> "rancher"]
      [] r = "vmKubeconfig" -> [hostname |-> Out("address")]
      [] r = "password" -> [kubeconfig |-> Out("vmKubeconfig"), password |-> config.password]
      [] r = "app" -> [rancher |-> Out("password"), version |-> config.version]
      [] r = "repos" -> [rancher |-> Out("password"), repos |-> config.repos]
      [] r = "cluster" -> [rancher |-> Out("password"), name |-> config.name]
      [] r = "token" -> [kubeconfig |-> Out("vmKubeconfig"), cluster |-> Out("cluster")]
      [] r = "setting" -> [value |-> Out("token")]
      [] r = "wait" -> [kubeconfig |-> Out("vmKubeconfig"), cluster |-> Out("cluster")]
      [] r = "kubeconfig" -> [rancher |-> Out("password"), cluster |-> Out("cluster")]
      [] r = "credential" ->
           [rancher |-> Out("password"), name |-> config.name, cluster |-> Out("cluster"),
            kubeconfig |-> Out("kubeconfig")]

\* create() succeeds: the host answers, the password logs in, the kubeconfig is of this
\* server, the object is there.
Works(r, in) ==
    CASE r \in {"address", "setting"} -> TRUE
      [] r = "vmKubeconfig" -> in.hostname = vm.ip
      [] r = "password" -> in.kubeconfig = vm.epoch /\ rancher.admin = Bootstrap
      [] r \in {"app", "cluster", "credential"} -> in.rancher = rancher.admin
      [] r = "repos" -> in.rancher = rancher.admin /\ in.repos \cap rancher.gitrepos = {}
      [] r = "token" -> in.kubeconfig = vm.epoch /\ in.cluster \in rancher.clusters
      [] r = "wait" ->
           /\ in.kubeconfig = vm.epoch
           /\ in.cluster \in rancher.clusters /\ registered = in.cluster
      [] r = "kubeconfig" -> in.rancher = rancher.admin /\ in.cluster \in rancher.clusters

\* What create() changes on the server.  A server is given one cluster at most here, so
\* that the epoch will do for its ID.
Effect(r, in) ==
    CASE r = "password" -> [rancher EXCEPT !.admin = in.password]
      [] r = "app" -> [rancher EXCEPT !.plugin = in.version]
      [] r = "repos" -> [rancher EXCEPT !.gitrepos = @ \cup in.repos]
      [] r = "cluster" -> [rancher EXCEPT !.clusters = @ \cup {vm.epoch}]
      [] r = "credential" ->
           [rancher EXCEPT !.credentials = @ \cup {[id |-> Cardinality(@) + 1, of |-> in]}]
      [] OTHER -> rancher

\* Plausible bug: the outputs hold the bootstrap token, which logs nobody in any more.
ResultIsBootstrap(r, in) ==
    CASE r = "address" -> vm.ip
      [] r \in {"vmKubeconfig", "cluster"} -> vm.epoch
      [] r = "password" -> Bootstrap
      [] r \in {"token", "kubeconfig"} -> in.cluster
      [] OTHER -> 0

\* What create() adds to its inputs as outputs.
Result(r, in) ==
    CASE r = "address" -> vm.ip
      [] r \in {"vmKubeconfig", "cluster"} -> vm.epoch
      [] r = "password" -> in.password
      [] r \in {"token", "kubeconfig"} -> in.cluster
      [] OTHER -> 0

\* The stack's record of r; "outs" are the inputs that are among the outputs, "wiped" that
\* there are no outputs any more, "epoch" the server of the creation.
Record(r, ins, outs, out, wiped, epoch) ==
    saved' = [s \in DOMAIN saved \cup {r} |->
                IF s = r THEN [ins |-> ins, outs |-> outs, out |-> out, wiped |-> wiped,
                               epoch |-> epoch]
                ELSE saved[s]]

\* diff() of each provider; those not named have none.
Differs(r, in) ==
    CASE r = "password" -> FALSE
      [] r = "vmKubeconfig" -> saved[r].outs.hostname # in.hostname
      [] r = "repos" -> saved[r].outs.repos # in.repos
      [] r = "setting" -> saved[r].outs.value # in.value
      [] r = "kubeconfig" -> saved[r].outs.rancher # in.rancher
      [] r \in {"app", "credential"} -> saved[r].outs # in
      [] OTHER -> saved[r].ins # in

\* app.ts:59 reads olds.rancher.server.
DiffThrows(r) == r = "app" /\ saved[r].wiped

Finish(r) ==
    /\ todo' = todo \ {r}
    /\ UNCHANGED <<config, vm, failed, running, complete, noticed, changes, faults>>

\* Plausible bug: a rejected resource is tried again by the same run.
FailAndRetry(r) ==
    /\ failed' = failed \cup {r}
    /\ UNCHANGED <<config, vm, registered, saved, todo, running, complete, noticed, changes>>

Fail(r) ==
    /\ todo' = todo \ {r}
    /\ failed' = failed \cup {r}
    /\ UNCHANGED <<config, vm, registered, saved, running, complete, noticed, changes>>

\* The run comes to r: all it uses is done.
Due(r) == running /\ r \in todo /\ Uses(r) \cap (todo \cup failed) = {}

\* create(), also as update() calls it.
Apply(r, in) ==
    /\ Works(r, in)
    /\ rancher' = Effect(r, in)
    /\ registered' = IF r = "setting" THEN in.value ELSE registered

Create(r) ==
    /\ Due(r) /\ ~Created(r)
    /\ Apply(r, In(r))
    /\ Record(r, In(r), In(r), Result(r, In(r)), FALSE, vm.epoch)
    /\ Finish(r)

\* Nothing differs: the new inputs are recorded, with the old outputs.
Same(r) ==
    /\ Due(r) /\ Created(r)
    /\ ~DiffThrows(r) /\ ~Differs(r, In(r))
    /\ Record(r, In(r), saved[r].outs, saved[r].out, saved[r].wiped, saved[r].epoch)
    /\ UNCHANGED world
    /\ Finish(r)

\* Plausible bug: the setting is kept, and with it what Harvester was told by others.
CreatesAgainButSetting == {"address", "vmKubeconfig", "kubeconfig", "credential"}

\* update() that calls create(news).
CreatesAgain == {"address", "vmKubeconfig", "setting", "kubeconfig", "credential"}

\* update() that returns its olds.
KeepsOuts == {"password", "repos", "cluster", "token"}

\* Plausible bug: update() returns olds when it has created.
ForgetsNews(r) == saved[r].outs

\* The outputs that update() returns when it has created: the new inputs, and more.
UpdatedOuts(r) == In(r)

Update(r) ==
    /\ Due(r) /\ Created(r)
    /\ ~DiffThrows(r) /\ Differs(r, In(r))
    /\ \/ /\ r \in CreatesAgain
          /\ Apply(r, In(r))
          /\ Record(r, In(r), UpdatedOuts(r), Result(r, In(r)), FALSE, vm.epoch)
       \/ /\ r \in KeepsOuts
          /\ Record(r, In(r), saved[r].outs, saved[r].out, FALSE, saved[r].epoch)
          /\ UNCHANGED world
       \/ /\ r \notin CreatesAgain \cup KeepsOuts
          /\ Record(r, In(r), saved[r].outs, saved[r].out, TRUE, saved[r].epoch)
          /\ UNCHANGED world
    /\ Finish(r)

\* create(), update() or diff() rejects.
Reject(r) ==
    /\ Due(r)
    /\ \/ ~Created(r) /\ ~Works(r, In(r))
       \/ /\ Created(r) /\ ~DiffThrows(r) /\ Differs(r, In(r))
          /\ r \in CreatesAgain /\ ~Works(r, In(r))
       \/ Created(r) /\ DiffThrows(r)
    /\ r # "repos"
    /\ UNCHANGED <<rancher, faults>>
    /\ Fail(r)

\* Promise.all rejects with the first POST that fails, a conflict or a fault; the others
\* go on: those of GitRepos that were not there succeed or not.
RejectRepos ==
    LET in == In("repos")
    IN  /\ Due("repos") /\ ~Created("repos")
        /\ \/ in.rancher # rancher.admin /\ UNCHANGED <<rancher, faults>>
           \/ /\ in.rancher = rancher.admin
              /\ faults' = IF Works("repos", in) THEN faults + 1 ELSE faults
              /\ faults' <= MaxFaults
              /\ \E new \in SUBSET in.repos :
                   rancher' = [rancher EXCEPT !.gitrepos = @ \cup new]
        /\ Fail("repos")

\* pulumi up.
StartUp ==
    /\ ~running
    /\ running' = TRUE
    /\ todo' = Resources /\ failed' = {}
    /\ UNCHANGED <<config, vm, world, saved, complete, noticed, changes, faults>>

\* The run is over, or stops short of what it could still do when something failed.
EndUp ==
    /\ running
    /\ todo = {} \/ failed # {}
    /\ running' = FALSE
    /\ complete' = (todo = {} /\ failed = {})
    /\ todo' = {} /\ failed' = {}
    /\ UNCHANGED <<config, vm, world, saved, noticed, changes, faults>>

Up ==
    \/ StartUp \/ EndUp \/ RejectRepos
    \/ \E r \in Resources : Create(r) \/ Same(r) \/ Update(r) \/ Reject(r)

Change ==
    /\ ~running
    /\ changes < MaxChanges
    /\ changes' = changes + 1
    /\ complete' = FALSE
    /\ UNCHANGED <<todo, failed, running, faults>>

\* The configuration, or a version in versions.ts, is edited.
Configure ==
    /\ Change
    /\ \/ \E n \in Names \ {config.name} : config' = [config EXCEPT !.name = n]
       \/ \E p \in Passwords \ {config.password} : config' = [config EXCEPT !.password = p]
       \/ \E v \in Versions \ {config.version} : config' = [config EXCEPT !.version = v]
       \/ \E s \in (SUBSET Repos) \ {{}, config.repos} : config' = [config EXCEPT !.repos = s]
    /\ UNCHANGED <<vm, world, saved, noticed>>

\* The VM is lost and made again, with Rancher on it, at this address or another.
Rebuild ==
    /\ Change
    /\ \E a \in Addresses : vm' = [epoch |-> vm.epoch + 1, ip |-> a]
    /\ rancher' = NewServer
    /\ UNCHANGED <<config, registered, saved, noticed>>

\* Another Rancher imports the same Harvester.
TakeOver ==
    /\ Change
    /\ registered' = 0
    /\ noticed' = FALSE
    /\ UNCHANGED <<config, vm, rancher, saved>>

\* The read() of each provider that fetches; the token's finds what it had, or retries until
\* the refresh is given up.
Refreshed(r) ==
    CASE r = "address" -> [saved[r] EXCEPT !.out = vm.ip, !.epoch = vm.epoch]
      [] r = "setting" -> [saved[r] EXCEPT !.outs.value = registered]
      [] OTHER -> saved[r]

\* pulumi refresh.
Refresh ==
    /\ ~running
    /\ saved' = [r \in DOMAIN saved |-> Refreshed(r)]
    /\ noticed' = TRUE
    /\ complete' = FALSE
    /\ UNCHANGED <<config, vm, world, todo, failed, running, changes, faults>>

\* pulumi destroy: every delete() of a dynamic resource does nothing, and the VM goes with
\* the server on it.  Harvester stays as it is.
Destroy ==
    /\ Change
    /\ saved' = [r \in {} |-> {}]
    /\ \E a \in Addresses : vm' = [epoch |-> vm.epoch + 1, ip |-> a]
    /\ rancher' = NewServer
    /\ noticed' = TRUE
    /\ UNCHANGED <<config, registered>>

Next == Up \/ Configure \/ Rebuild \/ TakeOver \/ Refresh \/ Destroy

Spec == Init /\ [][Next]_vars

\* Somebody runs pulumi up again and again, and each run comes to its end; nobody has to
\* change, refresh or destroy anything.
FairSpec == Spec /\ WF_vars(Up)

-----------------------------------------------------------------------------
TypeOK ==
    /\ config \in [name : Names, password : Passwords, version : Versions, repos : SUBSET Repos]
    /\ vm \in [epoch : Nat \ {0}, ip : Addresses]
    /\ rancher.admin \in Passwords \cup {Bootstrap}
    /\ rancher.plugin \in Versions \cup {"none"}
    /\ rancher.clusters \subseteq {vm.epoch}
    /\ rancher.gitrepos \subseteq Repos
    /\ registered \in 0..vm.epoch
    /\ DOMAIN saved \subseteq Resources
    /\ \A r \in DOMAIN saved : Uses(r) \subseteq DOMAIN saved /\ saved[r].epoch \in 1..vm.epoch
    /\ todo \subseteq Resources /\ failed \subseteq Resources \ todo
    /\ running \in BOOLEAN /\ complete \in BOOLEAN /\ noticed \in BOOLEAN
    /\ changes \in 0..MaxChanges /\ faults \in 0..MaxFaults

\* The stack holds something of a server that is no more.
Lost == \E r \in DOMAIN saved : saved[r].epoch # vm.epoch

\* RancherApp has no outputs left for its diff() to read.
Wedged == Created("app") /\ saved["app"].wiped

\* Repos of an earlier, rejected creation are in the way of the next.
Conflict == ~Created("repos") /\ config.repos \cap rancher.gitrepos # {}

\* The password on record is of a server that is no more.
PasswordLost ==
    "password" \in DOMAIN saved /\ saved["password"].epoch # vm.epoch

\* A server that was rebuilt after its password was recorded is left as it came up: no
\* run, update or refresh bootstraps it, imports Harvester or installs a plugin, although
\* runs may succeed.  Only pulumi destroy gets out of this.
RebuiltIsLost ==
    [][/\ PasswordLost => PasswordLost' \/ DOMAIN saved' = {}
       /\ PasswordLost' => rancher' = NewServer]_vars

\* After a run that succeeds, Harvester is registered as the cluster on record, and a cloud
\* credential of the configured name holds a kubeconfig of it: whatever was renamed in
\* between, and if Harvester was taken over, once a refresh has seen that.
ImportIsWhole ==
    complete /\ noticed /\ ~Lost =>
        /\ Out("password") = rancher.admin
        /\ registered = Out("cluster") /\ registered \in rancher.clusters
        /\ \E c \in rancher.credentials :
              /\ c.of.name = config.name
              /\ c.of.cluster = registered /\ c.of.kubeconfig = registered

\* A run after one that succeeded, with nothing changed, changes nothing remote: no diff()
\* goes on reporting what its update() has already applied.
Converges == [][complete /\ complete' => UNCHANGED world]_vars

\* What a run fails at has one of these reasons and no other: a Harvester taken over
\* unnoticed, something of a server that is no more, RancherApp without its outputs; and of
\* a FleetRepo something of such a server, GitRepos that are in its way, or a request that
\* failed.  No order of edits, runs and refreshes makes a resource fail for another one's
\* stale output, or for an object that its own create() should have left there.
FailsForAReason ==
    /\ failed \ {"repos"} # {} => ~noticed \/ Lost \/ Wedged
    /\ "repos" \in failed => Lost \/ Conflict \/ faults > 0

\* Runs that are repeated succeed in the end, unless Harvester was taken over before its
\* registration was recorded and no refresh has seen that, and except on what only
\* destroying the stack, or removing things by hand, gets out of: a rebuilt server, a plugin
\* whose version was changed, GitRepos left over from a rejected creation.
UpsSucceed == []<>(complete \/ ~noticed \/ Lost \/ Wedged \/ Conflict)

\* pulumi/README.md:74 "Create/Update the infrastructure": a run that succeeds leaves the
\* plugin at the version it is configured with.
UpdatesApply == complete /\ ~Lost => rancher.plugin = config.version
=============================================================================
