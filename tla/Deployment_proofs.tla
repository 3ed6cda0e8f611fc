-------------------------- MODULE Deployment_proofs --------------------------
(***************************************************************************)
(* Proofs about Deployment, for every choice of configurations, every      *)
(* table of plugins, secrets and Git repositories, and any number of runs  *)
(* and failures.                                                           *)
(***************************************************************************)
EXTENDS Deployment, WellFoundedInduction, TLAPS

IInv == TypeOK /\ StackIsClosed /\ OnlyLizIsRejected

-----------------------------------------------------------------------------
(* The graph.                                                              *)

LEMMA PrerequisitesAre ==
    ASSUME NEW r \in AllResources, NEW s
    PROVE  s \in Prerequisites(r) <=>
               s \in AllResources /\ <<r, s>> \in After /\ s \in Resources
BY DEF Prerequisites, PrerequisitesOf, Predecessors

LEMMA UsesAre ==
    ASSUME NEW r \in AllResources, NEW s
    PROVE  s \in Uses(r) <=>
               s \in AllResources /\ <<r, s>> \in Used /\ s \in Resources
BY DEF Uses, UsedBy, Predecessors

LEMMA ResourcesAre ==
    ASSUME config \in Configurations
    PROVE  /\ Resources \subseteq AllResources
           /\ \A r \in AllResources :
                  r \in Resources <=>
                      /\ r \in Dns \cup Addons \cup Pools \cup {"vlan"} => config.vlan
                      /\ r \in Images => config.downloadImages
                      /\ r \in TLS => config.certManager
                      /\ r \in Settings => ~config.skipBootstrap
                      /\ r \in Liz => config.lizEnabled
BY DEF Resources, ResourcesOf

\* The two resources that no option leaves out and that order the parts of the program,
\* and the secret that orders the certificate issuers.
LEMMA Milestones ==
    ASSUME config \in Configurations
    PROVE  /\ {"wait-for-rancherinstallation", "rancher-bootstrap-password"} \subseteq Resources
           /\ \A i \in ClusterIssuers : i \in Resources => "cloudflare-api-token" \in Resources
<1>1. {"wait-for-rancherinstallation", "rancher-bootstrap-password"} \subseteq Resources
  BY ResourcesAre DEF AllResources, Named, Dns, Addons, Pools, Images, TLS, Settings, Liz,
     CertManager, ClusterIssuers
<1>2. "cloudflare-api-token" \in AllResources
  BY DEF AllResources, Named, RancherManager, TLS
<1>3. ASSUME NEW i \in ClusterIssuers, i \in Resources
      PROVE  "cloudflare-api-token" \in Resources
  <2>1. config.certManager
    BY <1>3, ResourcesAre DEF TLS
  <2> QED
    BY <1>2, <2>1, ResourcesAre DEF Dns, Addons, Pools, Images, Settings, Liz
<1> QED
  BY <1>1, <1>3

-----------------------------------------------------------------------------
(* A closed stack has what a creation under way uses.                      *)

LEMMA UsesAreThere ==
    ASSUME TypeOK, StackIsClosed, NEW r \in creating, r # "rancher-ai-ui"
    PROVE  Uses(r) \subseteq created
<1>1. config \in Configurations /\ r \in Resources /\ created \subseteq Resources
  BY DEF TypeOK
<1>2. Resources \subseteq AllResources
  BY <1>1, ResourcesAre
<1>3. \A x \in created \cup creating, y \in Resources : <<x, y>> \in After => y \in created
  BY <1>1, <1>2, PrerequisitesAre DEF StackIsClosed, TypeOK
<1>4. \A y \in Resources : <<r, y>> \in After => y \in created
  BY <1>3
<1> SUFFICES ASSUME NEW s \in Resources, <<r, s>> \in Used
             PROVE  s \in created
  BY <1>1, <1>2, UsesAre
<1>5. "rancher-bootstrap-password" \in created \cup creating
        => /\ "wait-for-rancherinstallation" \in created
           /\ s \in RancherManager => s \in created
  <2> SUFFICES ASSUME "rancher-bootstrap-password" \in created \cup creating
               PROVE  /\ "wait-for-rancherinstallation" \in created
                      /\ s \in RancherManager => s \in created
    OBVIOUS
  <2>1. "wait-for-rancherinstallation" \in created
    BY <1>1, <1>3, Milestones DEF After, BootstrapOrder
  <2>2. s \in RancherManager => <<"wait-for-rancherinstallation", s>> \in After
    BY DEF After, BootstrapOrder
  <2> QED
    BY <1>3, <2>1, <2>2
<1>6. CASE <<r, s>> \in HarvesterUses
  <2>1. <<r, s>> \in HarvesterOrder \cup VmOrder
    BY <1>6 DEF HarvesterUses, HarvesterOrder, VmOrder, HarvesterBase, HarvesterVm
  <2> QED
    BY <1>4, <2>1 DEF After
<1>7. CASE <<r, s>> \in InstallUses
  <2>1. CASE r \in ClusterIssuers /\ s = "cert-manager"
    <3>1. "cloudflare-api-token" \in created
      BY <1>1, <1>4, <2>1, Milestones DEF After, TlsOrder
    <3>2. <<"cloudflare-api-token", s>> \in After
      BY <2>1 DEF After, TlsOrder, CertManager
    <3> QED
      BY <1>3, <3>1, <3>2
  <2>2. CASE r \in Settings /\ s = "rancher"
    BY <1>4, <2>2 DEF After, InstallOrder, HelmRancher
  <2>3. CASE r \in {"cloudflare-api-token", "wildcard-cert"}
             /\ s \in CertManager
    BY <1>4, <2>3 DEF After, TlsOrder
  <2> QED
    BY <1>7, <2>1, <2>2, <2>3 DEF InstallUses, CertManager
<1>8. CASE <<r, s>> \in RancherUses
  <2>1. CASE r = "rancher-bootstrap-password" /\ s \in RancherManager
    BY <1>5, <2>1
  <2>2. CASE r \in ClusterRepos \cup FleetSecrets /\ s = "rancher"
    <3>1. <<r, "rancher-bootstrap-password">> \in After
      BY <2>2 DEF After, PluginOrder, FleetOrder
    <3>2. "rancher-bootstrap-password" \in created
      BY <1>1, <1>4, <3>1, Milestones
    <3> QED
      BY <1>5, <2>2, <3>2 DEF RancherManager, HelmRancher
  <2>3. CASE <<r, s>> \in GitRepos \X {"fleet-crds-wait", "all-downstream-clusters"}
    BY <1>4, <2>3 DEF After, FleetOrder
  <2> QED
    BY <1>8, <2>1, <2>2, <2>3 DEF RancherUses, RancherManager
<1>9. CASE <<r, s>> \in PluginUses
  <2>1. CASE r \in Plugins \cup {"harvester-cloud"} /\ s = "rancher-bootstrap-password"
    BY <1>4, <2>1 DEF After, PluginOrder
  <2>2. CASE \E p \in Plugins : <<r, s>> = <<p, RepoOf[p]>>
    BY <1>4, <2>2 DEF After, PluginOrder
  <2> QED
    BY <1>9, <2>1, <2>2 DEF PluginUses
<1> QED
  BY <1>6, <1>7, <1>8, <1>9 DEF Used

-----------------------------------------------------------------------------
(* The invariant.                                                          *)

LEMMA IInvInit == ASSUME Init PROVE IInv
BY DEF Init, IInv, TypeOK, StackIsClosed, OnlyLizIsRejected

LEMMA IInvNext == ASSUME IInv, [Next]_vars PROVE IInv'
<1> USE DEF IInv, TypeOK
<1>1. ASSUME NEW r \in Resources, Start(r) PROVE IInv'
  BY <1>1 DEF Start, CanStart, StackIsClosed, OnlyLizIsRejected, Prerequisites, Resources
<1>2. ASSUME NEW r \in Resources, Created(r) PROVE IInv'
  BY <1>2 DEF Created, StackIsClosed, OnlyLizIsRejected, Prerequisites, Resources
<1>3. ASSUME NEW r \in Resources, Rejected(r) PROVE IInv'
  <2>1. r = "rancher-ai-ui"
    BY <1>3, UsesAreThere DEF Rejected, FailedWith
  <2> QED
    BY <1>3, <2>1 DEF Rejected, FailedWith, StackIsClosed, OnlyLizIsRejected,
       Prerequisites, Resources
<1>4. ASSUME NEW r \in Resources, ServerFails(r) PROVE IInv'
  BY <1>4 DEF ServerFails, FailedWith, Leave, StackIsClosed, OnlyLizIsRejected, Prerequisites,
     Resources
<1>5. ASSUME Killed PROVE IInv'
  BY <1>5 DEF Killed, Leave, StackIsClosed, OnlyLizIsRejected, Prerequisites, Resources
<1>6. ASSUME RunEnds PROVE IInv'
  BY <1>6 DEF RunEnds, StackIsClosed, OnlyLizIsRejected, Prerequisites, Resources
<1>7. ASSUME RunAgain PROVE IInv'
  BY <1>7 DEF RunAgain, StackIsClosed, OnlyLizIsRejected, Prerequisites, Resources
<1>8. ASSUME UNCHANGED vars PROVE IInv'
  BY <1>8 DEF vars, StackIsClosed, OnlyLizIsRejected, Prerequisites, Resources
<1>9. ASSUME NEW r \in Resources, InTheWay(r) PROVE IInv'
  BY <1>9 DEF InTheWay, FailedWith, StackIsClosed, OnlyLizIsRejected, Prerequisites, Resources
<1> QED
  BY <1>1, <1>2, <1>3, <1>4, <1>5, <1>6, <1>7, <1>8, <1>9 DEF Next, Engine

\* The variables of Deployment keep their types.
THEOREM TypeCorrect == Spec => []TypeOK
<1>1. IInv => TypeOK
  BY DEF IInv
<1> QED
  BY IInvInit, IInvNext, <1>1, PTL DEF Spec

\* In every configuration, for every table of plugins and repositories and after any
\* failures, only rancher-ai-ui is ever created before something it uses.
THEOREM Ordered == Spec => []OnlyLizIsRejected
<1>1. IInv => OnlyLizIsRejected
  BY DEF IInv
<1> QED
  BY IInvInit, IInvNext, <1>1, PTL DEF Spec

-----------------------------------------------------------------------------
(***************************************************************************)
(* The order is one: the levels that the code builds the deployment in,    *)
(* from the kubeconfig of Harvester to the import of Harvester.            *)
(***************************************************************************)
NamedLevel(r) ==
    IF r = "harvester-kubeconfig" THEN 0
    ELSE IF r \in Dns THEN 1
    ELSE IF r \in Addons \cup StorageClasses \cup Networks \cup {"opensuse-full-node", "keypair"}
         THEN 2
    ELSE IF r \in Images \cup Pools THEN 3
    ELSE IF r \in {"disk0", "cloudinit"} THEN 4
    ELSE IF r = "vm" THEN 5
    ELSE IF r = "vm-ip" THEN 6
    ELSE IF r = "wait-cloudinit" THEN 7
    ELSE IF r = "vm-kubeconfig" THEN 8
    ELSE IF r \in {"sprouter-namespace", "outrider-namespace", "traefik-namespace",
                   "cert-manager-namespace", "rancher-namespace"} THEN 9
    ELSE IF r \in {"sprouter", "outrider", "traefik", "cert-manager"} THEN 10
    ELSE IF r = "cloudflare-api-token" THEN 11
    ELSE IF r \in ClusterIssuers THEN 12
    ELSE IF r = "wildcard-cert" THEN 13
    ELSE IF r = "rancher" THEN 14
    ELSE IF r \in Settings THEN 15
    ELSE IF r = "wait-for-rancherinstallation" THEN 16
    ELSE IF r = "rancher-bootstrap-password" THEN 17
    ELSE IF r \in {"fleet-crds-wait", "rancher-ai-agent-namespace", "rancher-ai-ui"} THEN 18
    ELSE IF r \in {"all-downstream-clusters", "rancher-ai-agent"} THEN 19
    ELSE 20

Level(r) ==
    IF r \in GitRepos THEN 20
    ELSE IF r \in Plugins THEN 19
    ELSE IF r \in ClusterRepos \cup FleetSecrets THEN 18
    ELSE NamedLevel(r)

LEMMA TableLevels ==
    /\ \A r \in GitRepos : Level(r) = 20
    /\ \A r \in Plugins : Level(r) = 19
    /\ \A r \in ClusterRepos \cup FleetSecrets : Level(r) = 18
BY TablesAssumption DEF Level

LEMMA NamedLevels ==
    ASSUME NEW r \in Named
    PROVE  Level(r) = NamedLevel(r)
BY TablesAssumption DEF Level

\* The names of the installation, by level.
LEMMA MachineLevels ==
    /\ Level("harvester-kubeconfig") = 0
    /\ \A r \in Dns : Level(r) = 1
    /\ \A r \in HarvesterBase : Level(r) \in 2..3
    /\ \A r \in Addons \cup StorageClasses \cup Networks : Level(r) = 2
    /\ \A r \in Images \cup Pools : Level(r) = 3
    /\ Level("disk0") = 4 /\ Level("cloudinit") = 4
    /\ Level("vm") = 5 /\ Level("vm-ip") = 6
    /\ \A r \in HarvesterVm : Level(r) \in 4..6
    /\ Level("wait-cloudinit") = 7 /\ Level("vm-kubeconfig") = 8
<1> USE DEF NamedLevel, Dns, Addons, StorageClasses, Networks, Images, Pools
<1>1. \A r \in {"harvester-kubeconfig", "wait-cloudinit", "vm-kubeconfig"} \cup Dns
            \cup HarvesterBase \cup HarvesterVm : Level(r) = NamedLevel(r)
  BY NamedLevels DEF Named
<1>2. /\ NamedLevel("harvester-kubeconfig") = 0
      /\ NamedLevel("wait-cloudinit") = 7 /\ NamedLevel("vm-kubeconfig") = 8
  OBVIOUS
<1>3. \A r \in Dns : NamedLevel(r) = 1
  OBVIOUS
<1>4. \A r \in HarvesterBase : NamedLevel(r) \in 2..3
  BY DEF HarvesterBase
<1>5. \A r \in Addons \cup StorageClasses \cup Networks : r \in HarvesterBase /\ NamedLevel(r) = 2
  BY DEF HarvesterBase
<1>6. \A r \in Images \cup Pools : r \in HarvesterBase /\ NamedLevel(r) = 3
  BY DEF HarvesterBase
<1>7. /\ {"disk0", "cloudinit", "vm", "vm-ip"} = HarvesterVm
      /\ NamedLevel("disk0") = 4 /\ NamedLevel("cloudinit") = 4
      /\ NamedLevel("vm") = 5 /\ NamedLevel("vm-ip") = 6
  BY DEF HarvesterVm
<1> QED BY <1>1, <1>2, <1>3, <1>4, <1>5, <1>6, <1>7

LEMMA InstallLevels ==
    /\ \A r \in RancherManager : Level(r) \in 9..15
    /\ \A r \in {"sprouter-namespace", "outrider-namespace", "traefik-namespace",
                 "cert-manager-namespace", "rancher-namespace"} : Level(r) = 9
    /\ \A r \in {"sprouter", "outrider", "traefik", "cert-manager"} : Level(r) = 10
    /\ \A r \in CertManager : Level(r) \in 9..10
    /\ Level("cloudflare-api-token") = 11
    /\ \A r \in ClusterIssuers : Level(r) = 12
    /\ Level("wildcard-cert") = 13 /\ Level("rancher") = 14
    /\ \A r \in HelmRancher : Level(r) \in 9..14
    /\ \A r \in Settings : Level(r) = 15
<1> USE DEF NamedLevel, Dns, Addons, StorageClasses, Networks, Images, Pools, Sprouter, Outrider,
            Traefik, HelmRancher, CertManager, ClusterIssuers, TLS, Settings
<1>1. \A r \in RancherManager : Level(r) = NamedLevel(r)
  BY NamedLevels DEF Named
<1>2. /\ {"sprouter-namespace", "outrider-namespace", "traefik-namespace",
          "cert-manager-namespace", "rancher-namespace"} \subseteq RancherManager
      /\ {"sprouter", "outrider", "traefik", "cert-manager", "cloudflare-api-token",
          "wildcard-cert", "rancher"} \subseteq RancherManager
      /\ ClusterIssuers \cup Settings \cup CertManager \cup HelmRancher \subseteq RancherManager
  BY DEF RancherManager
<1>3. \A r \in {"sprouter-namespace", "outrider-namespace", "traefik-namespace",
                "cert-manager-namespace", "rancher-namespace"} : NamedLevel(r) = 9
  OBVIOUS
<1>4. \A r \in {"sprouter", "outrider", "traefik", "cert-manager"} : NamedLevel(r) = 10
  OBVIOUS
<1>5. /\ NamedLevel("cloudflare-api-token") = 11
      /\ NamedLevel("wildcard-cert") = 13 /\ NamedLevel("rancher") = 14
  OBVIOUS
<1>6. (\A r \in ClusterIssuers : NamedLevel(r) = 12) /\ (\A r \in Settings : NamedLevel(r) = 15)
  OBVIOUS
<1>7. \A r \in CertManager : Level(r) \in 9..10
  BY <1>1, <1>2, <1>3, <1>4
<1>8. \A r \in HelmRancher : Level(r) \in 9..14
  BY <1>1, <1>2, <1>3, <1>5
<1>9. \A r \in RancherManager : Level(r) \in 9..15
  BY <1>1, <1>3, <1>4, <1>5, <1>6 DEF RancherManager
<1> QED BY <1>1, <1>2, <1>3, <1>4, <1>5, <1>6, <1>7, <1>8, <1>9

LEMMA RestLevels ==
    /\ Level("wait-for-rancherinstallation") = 16
    /\ Level("rancher-bootstrap-password") = 17
    /\ Level("fleet-crds-wait") = 18 /\ Level("all-downstream-clusters") = 19
    /\ Level("rancher-ai-agent-namespace") = 18 /\ Level("rancher-ai-agent") = 19
    /\ Level("rancher-ai-ui") = 18
    /\ Level("harvester-cloud") = 20
<1>1. \A r \in {"wait-for-rancherinstallation", "rancher-bootstrap-password",
                "harvester-cloud"} \cup Fleet \cup Liz : Level(r) = NamedLevel(r)
  BY NamedLevels DEF Named
<1>2. /\ {"fleet-crds-wait", "all-downstream-clusters"} \subseteq Fleet
      /\ {"rancher-ai-agent-namespace", "rancher-ai-agent", "rancher-ai-ui"} \subseteq Liz
  BY DEF Fleet, Liz
<1>3. /\ NamedLevel("wait-for-rancherinstallation") = 16
      /\ NamedLevel("rancher-bootstrap-password") = 17
      /\ NamedLevel("fleet-crds-wait") = 18 /\ NamedLevel("all-downstream-clusters") = 19
      /\ NamedLevel("rancher-ai-agent-namespace") = 18 /\ NamedLevel("rancher-ai-agent") = 19
      /\ NamedLevel("rancher-ai-ui") = 18
      /\ NamedLevel("harvester-cloud") = 20
  BY DEF NamedLevel, Dns, Addons, StorageClasses, Networks, Images, Pools, ClusterIssuers,
         Settings
<1> QED BY <1>1, <1>2, <1>3

LEMMA LevelTypes == \A r \in AllResources : Level(r) \in 0..20
<1>1. \A r \in Named : Level(r) \in 0..20
  BY MachineLevels, InstallLevels, RestLevels DEF Named, Fleet, Liz
<1> QED BY <1>1, TableLevels DEF AllResources

\* Every edge of the graph goes down.
LEMMA OrderDescends ==
    ASSUME NEW r, NEW s, <<r, s>> \in After
    PROVE  Level(s) < Level(r)
<1>1. CASE <<r, s>> \in HarvesterOrder
  <2>1. CASE r \in Dns \cup HarvesterBase /\ s = "harvester-kubeconfig"
    BY <2>1, MachineLevels
  <2>2. CASE r \in HarvesterBase /\ s \in Dns
    BY <2>2, MachineLevels
  <2>3. CASE (r \in Images /\ s \in StorageClasses) \/ (r \in Pools /\ s \in Networks \cup Addons)
    BY <2>3, MachineLevels
  <2> QED BY <1>1, <2>1, <2>2, <2>3 DEF HarvesterOrder
<1>2. CASE <<r, s>> \in VmOrder
  BY <1>2, MachineLevels DEF VmOrder
<1>3. CASE <<r, s>> \in TlsOrder
  BY <1>3, InstallLevels DEF TlsOrder
<1>4. CASE <<r, s>> \in InstallOrder
  <2>1. CASE r \in RancherManager /\ s \in HarvesterVm \cup {"vm-kubeconfig"}
    BY <2>1, MachineLevels, InstallLevels
  <2>2. CASE r \in Settings /\ s \in HelmRancher
    BY <2>2, InstallLevels
  <2>3. CASE <<r, s>> \in {<<"sprouter", "sprouter-namespace">>,
                           <<"outrider", "outrider-namespace">>,
                           <<"traefik", "traefik-namespace">>, <<"rancher", "rancher-namespace">>,
                           <<"rancher", "wildcard-cert">>}
    BY <2>3, InstallLevels
  <2> QED BY <1>4, <2>1, <2>2, <2>3 DEF InstallOrder
<1>5. CASE <<r, s>> \in BootstrapOrder
  BY <1>5, InstallLevels, RestLevels DEF BootstrapOrder
<1>6. CASE <<r, s>> \in PluginOrder
  <2>1. CASE r \in ClusterRepos \cup Plugins /\ s = "rancher-bootstrap-password"
    BY <2>1, TableLevels, RestLevels
  <2>2. CASE \E p \in Plugins : <<r, s>> = <<p, RepoOf[p]>>
    BY <2>2, TableLevels DEF ClusterRepos
  <2> QED BY <1>6, <2>1, <2>2 DEF PluginOrder
<1>7. CASE <<r, s>> \in LizOrder
  BY <1>7, RestLevels DEF LizOrder, Liz
<1>8. CASE <<r, s>> \in FleetOrder
  BY <1>8, TableLevels, RestLevels DEF FleetOrder
<1>9. CASE r = "harvester-cloud" /\ s \in Plugins \cup {"rancher-bootstrap-password"}
  BY <1>9, TableLevels, RestLevels
<1> QED BY <1>1, <1>2, <1>3, <1>4, <1>5, <1>6, <1>7, <1>8, <1>9 DEF After

\* A set of naturals that is not empty has a least member.
LEMMA LeastOne ==
    ASSUME NEW S \in SUBSET Nat, S # {}
    PROVE  \E n \in S : \A m \in S : ~(m < n)
<1>1. PICK n \in S : \A m \in S : <<m, n>> \notin OpToRel(<, Nat)
  BY NatLessThanWellFounded, WFMin, Zenon
<1>2. \A m \in S : m < n => <<m, n>> \in OpToRel(<, Nat)
  BY Zenon DEF OpToRel
<1> QED BY <1>1, <1>2, Zenon

\* Whatever is not created, something can be that is not under way.
LEMMA OneCanStart ==
    ASSUME TypeOK, creating = {}, created # Resources
    PROVE  \E r \in Resources : CanStart(r)
<1>1. /\ created \subseteq Resources /\ Resources \subseteq AllResources
      /\ config \in Configurations
  BY ResourcesAre DEF TypeOK
<1> DEFINE Missing == Resources \ created
           Levels == {Level(r) : r \in Missing}
<1>2. Levels \in SUBSET Nat /\ Levels # {}
  BY <1>1, LevelTypes
<1>3. PICK n \in Levels : \A m \in Levels : ~(m < n)
  BY <1>2, LeastOne
<1>4. PICK r \in Missing : n = Level(r)
  BY <1>3
<1>5. Prerequisites(r) \subseteq created
  <2> SUFFICES ASSUME NEW s \in Prerequisites(r), s \notin created PROVE FALSE
    OBVIOUS
  <2>1. s \in Missing /\ Level(s) < Level(r)
    BY <1>1, <1>4, PrerequisitesAre, OrderDescends
  <2> QED BY <1>3, <1>4, <2>1
<1>6. CanStart(r)
  BY <1>4, <1>5 DEF CanStart
<1> QED BY <1>4, <1>6

\* In every configuration, for every table of plugins, secrets and repositories and after
\* any failures, a run that waits for nothing and is not complete has something to create.
THEOREM NotStuck == Spec => []NeverStuck
<1>1. IInv => NeverStuck
  BY OneCanStart DEF IInv, NeverStuck
<1> QED
  BY IInvInit, IInvNext, <1>1, PTL DEF Spec
===============================================================================
