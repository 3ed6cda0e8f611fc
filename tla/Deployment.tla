------------------------------ MODULE Deployment ------------------------------
(***************************************************************************)
(* The resource graph of the sample program, and the runs of `pulumi up`   *)
(* that create it: a resource is created as soon as everything that its    *)
(* inputs, its dependsOn or its parent's dependsOn name is created, in any *)
(* order and in parallel.  A run in which a creation failed starts no      *)
(* other one; the next run goes on from what is in the stack.              *)
(*                                                                         *)
(* What a resource names by a literal, or reaches through a server, does   *)
(* not order it.  Uses collects those; a creation that comes before        *)
(* something it uses is refused.                                           *)
(*                                                                         *)
(* A creation that failed, or that a killed run never recorded, may have   *)
(* taken effect.  Most providers write it again over what is there; some   *)
(* are then refused for good, see Unrepeatable.                            *)
(*                                                                         *)
(* A component is the set of its resources, and a dependsOn on it is one   *)
(* on all of them.  harvester-cloud stands for the six resources of        *)
(* HarvesterImport.  Kubernetes providers make no request and are left     *)
(* out: an edge through one goes to what it was made from.                 *)
(***************************************************************************)
EXTENDS Naturals, FiniteSets

CONSTANTS
    Configurations, \* the configurations to look at, see Options
    RepoOf,         \* the UI plugins of installPlugins, and the chart repository of each
    FleetSecrets,   \* the secrets of createFleetConfiguration
    GitRepos,       \* DefaultGitRepos
    NotTakenOver,   \* of the Kubernetes and Helm resources, those whose provider cannot write
                    \* over one it has no record of, such as a release that was left pending
    MaxRuns,        \* bound: runs of `pulumi up`
    MaxFaults       \* bound: creations a server fails, and runs killed

Options == [vlan : BOOLEAN, downloadImages : BOOLEAN, certManager : BOOLEAN,
            skipBootstrap : BOOLEAN, lizEnabled : BOOLEAN]

ASSUME DeploymentAssumption ==
    /\ Configurations \subseteq Options
    /\ MaxRuns \in Nat
    /\ MaxFaults \in Nat

VARIABLES
    config,     \* the stack's configuration
    created,    \* resources in the stack
    creating,   \* resources whose creation is under way
    rejected,   \* resources that some run tried to create before what they use
    left,       \* resources that stand on a server, unrecorded, in the way of their creation
    phase,      \* "up"; "failed", when creations under way are waited for; "down"; "done"
    runs,       \* runs so far
    faults      \* faults so far

vars == <<config, created, creating, rejected, left, phase, runs, faults>>

----------------------------------------------------------------------------
(* The resources of each part. *)

Dns == {"harvester-dns-controller"}
Addons == {"harvester-vm-dhcp-controller"}
Pools == {"vlan-pool"}
Networks == {"backbone-vlan", "vlan"}
StorageClasses == {"longhorn-single"}
Images == {"opensuse-leap-15.6", "opensuse-leap-16.0"}
HarvesterBase ==
    Addons \cup StorageClasses \cup Networks \cup Images \cup Pools
        \cup {"opensuse-full-node", "keypair"}

HarvesterVm == {"disk0", "cloudinit", "vm", "vm-ip"}

Sprouter == {"sprouter-namespace", "sprouter"}
Outrider == {"outrider-namespace", "outrider"}
Traefik == {"traefik-namespace", "traefik"}
HelmRancher == {"rancher-namespace", "rancher"}
CertManager == {"cert-manager-namespace", "cert-manager"}
ClusterIssuers == {"letsencrypt-prod", "letsencrypt-staging"}
TLS == CertManager \cup {"cloudflare-api-token"} \cup ClusterIssuers \cup {"wildcard-cert"}
Settings == {"server-url", "harvester-baremetal-container-workload"}
RancherManager ==
    Sprouter \cup Outrider \cup Traefik \cup TLS \cup HelmRancher \cup Settings

Plugins == DOMAIN RepoOf
ClusterRepos == {RepoOf[p] : p \in Plugins} \cup {"rancher-ui-plugins"}
Liz == {"rancher-ai-agent-namespace", "rancher-ai-agent", "rancher-ai-ui"}
Fleet == {"fleet-crds-wait", "all-downstream-clusters"}

\* Those the program names one by one, and with them those of its tables.
Named ==
    {"harvester-kubeconfig"} \cup Dns \cup HarvesterBase
        \cup HarvesterVm \cup {"wait-cloudinit", "vm-kubeconfig"}
        \cup RancherManager \cup {"wait-for-rancherinstallation", "rancher-bootstrap-password"}
        \cup {"harvester-cloud"} \cup Fleet \cup Liz
AllResources == Named \cup ClusterRepos \cup Plugins \cup FleetSecrets \cup GitRepos

\* No name stands in two tables, or in one and for a resource of its own.
ASSUME TablesAssumption ==
    /\ Plugins \cap (ClusterRepos \cup FleetSecrets \cup GitRepos) = {}
    /\ ClusterRepos \cap (FleetSecrets \cup GitRepos) = {}
    /\ FleetSecrets \cap GitRepos = {}
    /\ Named \cap (Plugins \cup ClusterRepos \cup FleetSecrets \cup GitRepos) = {}

\* The ones that no option leaves out.
ResourcesOf == [c \in Configurations |->
    {r \in AllResources :
        /\ r \in Dns \cup Addons \cup Pools \cup {"vlan"} => c.vlan
        /\ r \in Images => c.downloadImages
        /\ r \in TLS => c.certManager
        /\ r \in Settings => ~c.skipBootstrap
        /\ r \in Liz => c.lizEnabled}]
Resources == ResourcesOf[config]

----------------------------------------------------------------------------
(* The order the code gives them: <<r, s>> when r is created after s. *)

\* Plausible bug: images name their storage class and do not depend on it.
ImagesByName ==
    (Dns \cup HarvesterBase) \X {"harvester-kubeconfig"}
        \cup HarvesterBase \X Dns
        \cup Pools \X (Networks \cup Addons)

HarvesterOrder ==
    (Dns \cup HarvesterBase) \X {"harvester-kubeconfig"}
        \cup HarvesterBase \X Dns
        \cup Images \X StorageClasses
        \cup Pools \X (Networks \cup Addons)

VmOrder ==
    HarvesterVm \X HarvesterBase
        \cup {<<"vm", "disk0">>, <<"vm", "cloudinit">>, <<"vm-ip", "vm">>}
        \cup {"wait-cloudinit"} \X HarvesterVm
        \cup {<<"vm-kubeconfig", "wait-cloudinit">>}

\* Plausible bug: the certificate depends on the component that it is a part of.
CertificateAfterTls ==
    {<<"cert-manager", "cert-manager-namespace">>}
        \cup {"cloudflare-api-token"} \X CertManager
        \cup ClusterIssuers \X {"cloudflare-api-token"}
        \cup {"wildcard-cert"} \X TLS

\* A HelmApp is a namespace and then a release.
TlsOrder ==
    {<<"cert-manager", "cert-manager-namespace">>}
        \cup {"cloudflare-api-token"} \X CertManager
        \cup ClusterIssuers \X {"cloudflare-api-token"}
        \cup {"wildcard-cert"} \X (ClusterIssuers \cup CertManager)

InstallOrder ==
    RancherManager \X (HarvesterVm \cup {"vm-kubeconfig"})
        \cup {<<"sprouter", "sprouter-namespace">>, <<"outrider", "outrider-namespace">>,
              <<"traefik", "traefik-namespace">>, <<"rancher", "rancher-namespace">>}
        \cup {<<"rancher", "wildcard-cert">>}
        \cup Settings \X HelmRancher

PluginOrder ==
    (ClusterRepos \cup Plugins) \X {"rancher-bootstrap-password"}
        \cup {<<p, RepoOf[p]>> : p \in Plugins}

LizOrder ==
    Liz \X {"rancher-bootstrap-password"}
        \cup {<<"rancher-ai-agent", "rancher-ai-agent-namespace">>}

FleetOrder ==
    ({"fleet-crds-wait"} \cup FleetSecrets) \X {"rancher-bootstrap-password"}
        \cup {<<"all-downstream-clusters", "fleet-crds-wait">>}
        \cup GitRepos \X {"fleet-crds-wait", "all-downstream-clusters"}

\* Plausible bug: what follows the installation depends on Rancher's release alone.
WaitsForRelease ==
    {"wait-for-rancherinstallation"} \X HelmRancher
        \cup {<<"rancher-bootstrap-password", "wait-for-rancherinstallation">>}

BootstrapOrder ==
    {"wait-for-rancherinstallation"} \X RancherManager
        \cup {<<"rancher-bootstrap-password", "wait-for-rancherinstallation">>}

After ==
    HarvesterOrder \cup VmOrder \cup TlsOrder \cup InstallOrder \cup BootstrapOrder
        \cup PluginOrder \cup LizOrder \cup FleetOrder
        \cup {"harvester-cloud"} \X (Plugins \cup {"rancher-bootstrap-password"})

Predecessors(relation) ==
    [r \in AllResources |-> {s \in AllResources : <<r, s>> \in relation}]

\* An edge to a resource the configuration does not have is none.
PrerequisitesOf == Predecessors(After)
Prerequisites(r) == PrerequisitesOf[r] \cap Resources

----------------------------------------------------------------------------
(* What they use at run time: <<r, s>> when the creation of r is refused   *)
(* without s.                                                              *)

\* Storage classes, networks and the kind IPPool, which the add-on brings.
HarvesterUses ==
    Images \X StorageClasses
        \cup Pools \X (Networks \cup Addons)
        \cup {"disk0"} \X (StorageClasses \cup Images)
        \cup {"vm"} \X Networks

\* The namespace cert-manager is a literal, its kinds come with the release.
InstallUses ==
    {<<"cloudflare-api-token", "cert-manager-namespace">>}
        \cup (ClusterIssuers \cup {"wildcard-cert"}) \X {"cert-manager"}
        \cup Settings \X {"rancher"}

\* The bootstrap uses rancherUrl: an ingress, and the certificate that Sprouter copies.
RancherUses ==
    {"rancher-bootstrap-password"} \X (HelmRancher \cup Traefik \cup Sprouter \cup TLS)
        \cup (ClusterRepos \cup FleetSecrets) \X {"rancher"}
        \cup GitRepos \X {"fleet-crds-wait", "all-downstream-clusters"}

\* An app is installed with the admin password, from a repository named in the URL.
PluginUses ==
    (Plugins \cup {"rancher-ai-ui", "harvester-cloud"})
        \X {"rancher-bootstrap-password"}
        \cup {<<p, RepoOf[p]>> : p \in Plugins}
        \cup {<<"rancher-ai-ui", "rancher-ui-plugins">>}

Used == HarvesterUses \cup InstallUses \cup RancherUses \cup PluginUses
UsedBy == Predecessors(Used)
Uses(r) == UsedBy[r] \cap Resources

----------------------------------------------------------------------------
(* What an unrecorded creation leaves behind.                              *)

\* The bootstrap secret logs nobody in once the password is changed, and Rancher may refuse
\* a second cluster of one name: Bootstrap and HarvesterImport are about these two.
Unrepeatable == {"rancher-bootstrap-password", "harvester-cloud"} \cup NotTakenOver

\* Any of these creations took effect, or none.
Leave(these) == \E some \in SUBSET (these \cap Unrepeatable) : left' = left \cup some

----------------------------------------------------------------------------
(* The engine. *)

Init ==
    /\ config \in Configurations
    /\ created = {} /\ creating = {} /\ rejected = {} /\ left = {}
    /\ phase = "up" /\ runs = 1 /\ faults = 0

CanStart(r) == r \notin created \cup creating /\ Prerequisites(r) \subseteq created

Start(r) ==
    /\ phase = "up"
    /\ CanStart(r)
    /\ creating' = creating \cup {r}
    /\ UNCHANGED <<config, created, rejected, left, phase, runs, faults>>

Created(r) ==
    /\ r \in creating \ left
    /\ Uses(r) \subseteq created
    /\ created' = created \cup {r}
    /\ creating' = creating \ {r}
    /\ UNCHANGED <<config, rejected, left, phase, runs, faults>>

\* The engine starts nothing any more once a creation has failed.
FailedWith(r) ==
    /\ r \in creating
    /\ creating' = creating \ {r}
    /\ phase' = "failed"
    /\ UNCHANGED <<config, created, runs>>

Rejected(r) ==
    /\ ~(Uses(r) \subseteq created)
    /\ FailedWith(r)
    /\ rejected' = rejected \cup {r}
    /\ UNCHANGED <<left, faults>>

\* What an earlier creation left unrecorded makes the server refuse this one.
InTheWay(r) ==
    /\ r \in left
    /\ FailedWith(r)
    /\ UNCHANGED <<rejected, left, faults>>

\* The request, or the reply to one that took effect.
ServerFails(r) ==
    /\ faults < MaxFaults
    /\ FailedWith(r)
    /\ Leave({r})
    /\ faults' = faults + 1
    /\ UNCHANGED rejected

\* Plausible bug: the killed run is left in a phase of its own, from which none follows.
KilledForGood ==
    /\ phase \in {"up", "failed"}
    /\ faults < MaxFaults
    /\ faults' = faults + 1
    /\ Leave(creating)
    /\ creating' = {}
    /\ phase' = "killed"
    /\ UNCHANGED <<config, created, rejected, runs>>

Killed ==
    /\ phase \in {"up", "failed"}
    /\ faults < MaxFaults
    /\ faults' = faults + 1
    /\ Leave(creating)
    /\ creating' = {}
    /\ phase' = "down"
    /\ UNCHANGED <<config, created, rejected, runs>>

RunEnds ==
    /\ creating = {}
    /\ \/ phase = "failed" /\ phase' = "down"
       \/ phase = "up" /\ created = Resources /\ phase' = "done"
    /\ UNCHANGED <<config, created, creating, rejected, left, runs, faults>>

RunAgain ==
    /\ phase = "down"
    /\ runs < MaxRuns
    /\ phase' = "up"
    /\ runs' = runs + 1
    /\ UNCHANGED <<config, created, creating, rejected, left, faults>>

Engine ==
    \/ \E r \in Resources : Start(r) \/ Created(r) \/ Rejected(r) \/ InTheWay(r)
    \/ RunEnds

Next ==
    \/ Engine
    \/ \E r \in Resources : ServerFails(r)
    \/ Killed
    \/ RunAgain

Spec == Init /\ [][Next]_vars

\* Creations end, by an answer or a timeout, and the user runs a failed program again.
FairSpec == Spec /\ WF_vars(Engine) /\ WF_vars(RunAgain)

----------------------------------------------------------------------------

TypeOK ==
    /\ config \in Configurations
    /\ created \subseteq Resources
    /\ creating \subseteq Resources
    /\ rejected \subseteq Resources
    /\ left \subseteq Resources \cap Unrepeatable
    /\ phase \in {"up", "failed", "down", "done"}
    /\ runs \in Nat
    /\ faults \in Nat

\* What is in the stack, or on its way into it, has its prerequisites in the stack,
\* whatever failed before: a run can go on from any stack.
StackIsClosed == \A r \in created \cup creating : Prerequisites(r) \subseteq created

\* In every order and after every failure, what a resource uses by name is there
\* when it is created, but for one: rancher-ai-ui names its chart repository by a
\* literal and may come before it.
OnlyLizIsRejected == rejected \subseteq {"rancher-ai-ui"}

\* Whatever failed before, a run is never left with resources that all wait for
\* another: it creates something, waits for something, or is complete.
NeverStuck ==
    (phase = "up" /\ creating = {} /\ created # Resources) => \E r \in Resources : CanStart(r)

\* Without the AI extension, finitely many failures delay the deployment only: what the
\* stack has after a failed or killed run lets the next one finish.  The exception is a
\* creation that took effect unrecorded and cannot be repeated: the changed password and the
\* cluster whose name is taken stop every later run (Bootstrap, HarvesterImport), as does
\* what Kubernetes and Helm do not take over.
DeploymentCompletes == ~config.lizEnabled => <>(phase = "done" \/ left # {})

\* skipBootstrap skips the bootstrap, as install.ts:14 says of it.  It does not:
\* only the settings are skipped, and the password is changed all the same.
BootstrapIsSkipped ==
    config.skipBootstrap => "rancher-bootstrap-password" \notin created \cup creating
=============================================================================
