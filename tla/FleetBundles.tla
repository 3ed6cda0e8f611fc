----------------------------- MODULE FleetBundles -----------------------------
(***************************************************************************)
(* The applications of apps/ on one downstream cluster.  Each directory    *)
(* with a fleet.yaml is a bundle; its GitRepo or its overrideTargets say   *)
(* for which labels the cluster gets it, its dependsOn which bundles must  *)
(* be ready before it is installed.  What its pods need besides, a pull    *)
(* secret, a storage class or a GPU, another bundle brings, and no file    *)
(* orders the two.  A user adds and removes labels at any time.  The nodes *)
(* have the disks and the GPU that the labels take for granted.            *)
(*                                                                         *)
(* External: Fleet.  It reads the GitRepos one by one, installs a bundle   *)
(* on a cluster that it targets once some bundle there matches each of its *)
(* selectors and all that match are ready, tries again for as long as that *)
(* or the installation fails, and uninstalls what is not targeted any more *)
(* in no particular order.                                                 *)
(***************************************************************************)
EXTENDS Naturals, FiniteSets

CONSTANTS
    Names,      \* of the bundles that are followed
    MaxChanges, \* labels that are added or removed
    MaxLapses   \* times that pods which were ready are not any more

\* overrideTargets, and the labels of one clusterSelector each; provides and dependsOn;
\* what the pods use and a bundle brings; and the cluster-wide objects of the chart
\* that Helm lets one release own.
Bundle(repo, name, selectors) ==
    [repo |-> repo, name |-> name, selectors |-> selectors, provides |-> {}, after |-> {},
     values |-> FALSE, uses |-> {}, creates |-> {}, owns |-> {}]

ApplicationCollection ==
    [Bundle("base", "application-collection", {}) EXCEPT
        !.provides = {"application-collection"}, !.values = TRUE,
        !.creates = {"application-collection"}]
ClusterRepositories ==
    [Bundle("base", "cluster-repositories", {}) EXCEPT
        !.provides = {"cluster-repositories"}, !.after = {"application-collection"}]
IngressCloudflare ==
    [Bundle("base", "ingress-cloudflare", {"needs-ingress-cloudflare"}) EXCEPT !.values = TRUE]
LabSetup == Bundle("base", "lab-setup", {})
Sprouter == Bundle("base", "sprouter", {})
StorageClass ==
    [Bundle("base", "storage-class", {"needs-storage"}) EXCEPT !.creates = {"longhorn-single"}]
SuseRegistry ==
    [Bundle("base", "suse-registry", {}) EXCEPT
        !.provides = {"suse-registry"}, !.values = TRUE, !.creates = {"suse-registry"}]
Traefik == Bundle("base", "traefik", {"needs-traefik"})

CertManager ==
    [Bundle("appco", "cert-manager", {}) EXCEPT
        !.provides = {"cert-manager"}, !.uses = {"application-collection"}]
CertManagerConfig ==
    [Bundle("appco", "cert-manager-config", {}) EXCEPT
        !.after = {"cert-manager"}, !.values = TRUE]
\* Plausible bug: the operator comes with its own label only.
CloudnativePgAlone ==
    [Bundle("appco", "cloudnative-pg", {"needs-cnpg"}) EXCEPT !.provides = {"cnpg"}]
CloudnativePg ==
    [Bundle("appco", "cloudnative-pg", {"needs-cnpg", "needs-sbomscanner"}) EXCEPT
        !.provides = {"cnpg"}]
Metallb ==
    [Bundle("appco", "metallb", {"needs-metallb"}) EXCEPT
        !.provides = {"load-balancer"}, !.uses = {"application-collection"}]
Ollama ==
    [Bundle("appco", "ollama", {"needs-ollama"}) EXCEPT
        !.provides = {"ollama"}, !.uses = {"application-collection", "nvidia.com/gpu"}]
\* Plausible bug: the storage comes with the other product's label.
SuseStorageAsLonghorn ==
    [Bundle("appco", "suse-storage", {"needs-longhorn"}) EXCEPT
        !.provides = {"longhorn"}, !.uses = {"application-collection"}, !.owns = {"longhorn"}]
SuseStorage ==
    [Bundle("appco", "suse-storage", {"needs-storage"}) EXCEPT
        !.provides = {"longhorn"}, !.uses = {"application-collection"}, !.owns = {"longhorn"}]

KubewardenCrds ==
    [Bundle("platform", "kubewarden-crds", {"needs-kubewarden"}) EXCEPT
        !.provides = {"kubewarden-crds"}]
KubewardenController ==
    [Bundle("platform", "kubewarden-controller", {"needs-kubewarden"}) EXCEPT
        !.provides = {"kubewarden-controller"}, !.after = {"kubewarden-crds"}]
KubewardenDefaults ==
    [Bundle("platform", "kubewarden-defaults", {"needs-kubewarden"}) EXCEPT
        !.provides = {"kubewarden-defaults"}, !.after = {"kubewarden-controller"},
        !.uses = {"application-collection"}]
Longhorn ==
    [Bundle("platform", "longhorn", {"needs-longhorn"}) EXCEPT
        !.provides = {"longhorn"}, !.owns = {"longhorn"}]
\* Plausible bug: it provides another label than its configuration waits for.
SbomScannerMisnamed ==
    [Bundle("platform", "sbomscanner", {"needs-sbomscanner"}) EXCEPT
        !.provides = {"sbom-scanner"}, !.after = {"cnpg"}, !.uses = {"longhorn-single"}]
SbomScanner ==
    [Bundle("platform", "sbomscanner", {"needs-sbomscanner"}) EXCEPT
        !.provides = {"sbomscanner"}, !.after = {"cnpg"}, !.uses = {"longhorn-single"}]
SbomScannerConfig ==
    [Bundle("platform", "sbomscanner-config", {"needs-sbomscanner"}) EXCEPT
        !.after = {"sbomscanner"}]
SuseObservability ==
    [Bundle("platform", "suse-observability", {"needs-observability"}) EXCEPT
        !.provides = {"suse-observability"}, !.values = TRUE, !.uses = {"longhorn-single"}]
SuseSecurityCrd ==
    [Bundle("platform", "suse-security-crd", {"needs-security"}) EXCEPT
        !.provides = {"neuvector-crd"}]
SuseSecurity ==
    [Bundle("platform", "suse-security", {"needs-security"}) EXCEPT
        !.provides = {"neuvector"}, !.after = {"neuvector-crd"}]

PrivateRegistry ==
    [Bundle("suse", "private-registry", {"needs-private-registry"}) EXCEPT
        !.provides = {"harbor"}, !.uses = {"suse-registry"}]
PrivateRegistryProxy ==
    [Bundle("suse", "private-registry-proxy", {"needs-private-registry"}) EXCEPT
        !.after = {"harbor"}, !.values = TRUE]
Forgejo ==
    [Bundle("thirdparty", "forgejo", {"needs-forgejo"}) EXCEPT !.provides = {"forgejo"}]
NvidiaGpuOperator ==
    [Bundle("thirdparty", "nvidia-gpu-operator", {"needs-gpu-operator"}) EXCEPT
        !.provides = {"nvidia-gpu-operator"}, !.creates = {"nvidia.com/gpu"}]
AppcoCve == Bundle("demos", "appco-cve", {"needs-cve-demo"})
LizCve == [Bundle("demos", "liz-cve", {"needs-cve-demo"}) EXCEPT !.uses = {"longhorn-single"}]
\* Broken on purpose; what some of its pods wait for is a ConfigMap that is nowhere.
LizDemos ==
    [Bundle("demos", "liz-demos", {"needs-liz-demos"}) EXCEPT !.uses = {"missing config"}]
ObsSattrack == Bundle("demos", "obs-sattrack", {"needs-obs-demo"})

Base == {ApplicationCollection, ClusterRepositories, IngressCloudflare, LabSetup, Sprouter,
         StorageClass, SuseRegistry, Traefik}
Appco == {CertManager, CertManagerConfig, CloudnativePg, Metallb, Ollama, SuseStorage}
Platform == {KubewardenCrds, KubewardenController, KubewardenDefaults, Longhorn, SbomScanner,
             SbomScannerConfig, SuseObservability, SuseSecurityCrd, SuseSecurity}
Others == {PrivateRegistry, PrivateRegistryProxy, Forgejo, NvidiaGpuOperator, AppcoCve,
           LizCve, LizDemos, ObsSattrack}
AllBundles == Base \cup Appco \cup Platform \cup Others

\* The GitRepos whose targets are the group of all downstream clusters; the others' are [].
TargetsAllClusters == {"base", "appco"}

Bundles == {b \in AllBundles : b.name \in Names}
Repos == {b.repo : b \in Bundles}
Labels == UNION {b.selectors : b \in Bundles}

\* Whatever a bundle that is followed waits for is followed too.
ASSUME FleetAssumption ==
    /\ MaxChanges \in Nat
    /\ MaxLapses \in Nat
    /\ \A b \in Bundles, p \in AllBundles : b.after \cap p.provides # {} => p \in Bundles

\* And what the pods need, with what it reaches them through.
ASSUME SuppliersAssumption ==
    /\ \A b \in Bundles, p \in AllBundles : b.uses \cap p.creates # {} => p \in Bundles
    /\ {Sprouter, SuseStorage} \subseteq Bundles

VARIABLES
    labels,  \* of the cluster
    read,    \* the GitRepos that Fleet has read
    secrets, \* whether fleet-secrets has been copied to the cluster's kube-system
    status,  \* of each bundle: "absent", "installed" or "ready"
    changes, \* of the labels, so far
    lapses

vars == <<labels, read, secrets, status, changes, lapses>>

Init ==
    /\ labels = {}
    /\ read = {}
    /\ secrets = FALSE
    /\ status = [b \in Bundles |-> "absent"]
    /\ changes = 0
    /\ lapses = 0

\* Plausible bug: two labels of one clusterSelector, which must both be there.
WantedForAll(b, ls) ==
    IF b.selectors = {} THEN b.repo \in TargetsAllClusters ELSE b.selectors \subseteq ls

\* overrideTargets take the place of the GitRepo's own targets.
Wanted(b, ls) ==
    IF b.selectors = {} THEN b.repo \in TargetsAllClusters ELSE b.selectors \cap ls # {}

\* Plausible bug: a bundle of a GitRepo that was not read.
TargetedUnread(b) == Wanted(b, labels)

Targeted(b) == b.repo \in read /\ Wanted(b, labels)
Present(b) == status[b] # "absent"

Matches(l) == {p \in Bundles : l \in p.provides}

\* External: dependsOn, and the values of a Secret of the cluster, which must be there.
Installable(b) ==
    /\ \A l \in b.after :
          LET there == {p \in Matches(l) : Targeted(p) \/ Present(p)}
          IN  there # {} /\ \A p \in there : status[p] = "ready"
    /\ b.values => secrets

\* External: Helm refuses to take over an object of another release.
Refused(b) == \E c \in Bundles \ {b} : Present(c) /\ c.owns \cap b.owns # {}

\* What hands it to the pods: Longhorn the volumes of its class, the operator's device
\* plugin the GPU, and Sprouter the secrets.
Carriers(u) ==
    CASE u = "longhorn-single" -> Matches("longhorn")
      [] u = "nvidia.com/gpu" -> Matches("nvidia-gpu-operator")
      [] OTHER -> Bundles \cap {Sprouter}

Supplied(u) ==
    /\ \E p \in Bundles : u \in p.creates /\ Present(p)
    /\ \E p \in Carriers(u) : status[p] = "ready"

ChangeLabels ==
    /\ changes < MaxChanges
    /\ \E l \in Labels : labels' = IF l \in labels THEN labels \ {l} ELSE labels \cup {l}
    /\ changes' = changes + 1
    /\ UNCHANGED <<read, secrets, status, lapses>>

ReadRepo(r) ==
    /\ r \notin read
    /\ read' = read \cup {r}
    /\ UNCHANGED <<labels, secrets, status, changes, lapses>>

\* Outrider copies the secret that createFleetConfiguration annotates.
CopySecrets ==
    /\ ~secrets
    /\ secrets' = TRUE
    /\ UNCHANGED <<labels, read, status, changes, lapses>>

Install(b) ==
    /\ Targeted(b)
    /\ status[b] = "absent"
    /\ Installable(b)
    /\ ~Refused(b)
    /\ status' = [status EXCEPT ![b] = "installed"]
    /\ UNCHANGED <<labels, read, secrets, changes, lapses>>

GetReady(b) ==
    /\ status[b] = "installed"
    /\ \A u \in b.uses : Supplied(u)
    /\ status' = [status EXCEPT ![b] = "ready"]
    /\ UNCHANGED <<labels, read, secrets, changes, lapses>>

Lapse(b) ==
    /\ status[b] = "ready"
    /\ lapses < MaxLapses
    /\ status' = [status EXCEPT ![b] = "installed"]
    /\ lapses' = lapses + 1
    /\ UNCHANGED <<labels, read, secrets, changes>>

Uninstall(b) ==
    /\ Present(b)
    /\ ~Targeted(b)
    /\ status' = [status EXCEPT ![b] = "absent"]
    /\ UNCHANGED <<labels, read, secrets, changes, lapses>>

Next ==
    \/ ChangeLabels
    \/ \E r \in Repos : ReadRepo(r)
    \/ CopySecrets
    \/ \E b \in Bundles : Install(b) \/ GetReady(b) \/ Lapse(b) \/ Uninstall(b)

Spec == Init /\ [][Next]_vars

\* Fleet tries each thing again until it succeeds.
FairSpec ==
    /\ Spec
    /\ \A r \in Repos : WF_vars(ReadRepo(r))
    /\ WF_vars(CopySecrets)
    /\ \A b \in Bundles : WF_vars(Install(b)) /\ WF_vars(GetReady(b)) /\ WF_vars(Uninstall(b))
-------------------------------------------------------------------------------
TypeOK ==
    /\ labels \subseteq Labels
    /\ read \subseteq Repos
    /\ secrets \in BOOLEAN
    /\ status \in [Bundles -> {"absent", "installed", "ready"}]
    /\ \A b \in Bundles : Present(b) => b.repo \in read
    /\ changes \in 0..MaxChanges
    /\ lapses \in 0..MaxLapses

\* A dependsOn never waits for a bundle that the same labels do not bring: the selectors of
\* every bundle are among those of each label it waits for (the overrideTargets and dependsOn
\* of the fleet.yaml files, which name each other only by labels).
DependenciesComeAlong ==
    \A b \in Bundles : Wanted(b, labels) =>
        \A l \in b.after : \E p \in Matches(l) : Wanted(p, labels)

\* While a bundle that is installed keeps its label, no bundle it waited for is taken from
\* under it, whatever other labels come and go: needs-cnpg may go, needs-sbomscanner keeps
\* the operator (the two overrideTargets of cloudnative-pg).  Once its own label is gone the
\* two go in any order, so a label that is put back at once may find half of them.
KeptWhileNeeded ==
    [][\A b, p \in Bundles :
          /\ Present(b) /\ Wanted(b, labels)
          /\ Present(p) /\ b.after \cap p.provides # {}
          => Present(p)']_vars

\* The pods want a class or a GPU that no label of this cluster brings.
Lacks(b) == \E u \in b.uses : ~\E p \in Bundles : u \in p.creates /\ Wanted(p, labels)

\* Such a bundle is never ready, and what waits for it is not installed.
Held(b) == Lacks(b) \/ \E p \in Bundles : b.after \cap p.provides # {} /\ Lacks(p)

\* What the labels ask for is there, all of it ready, and nothing else.  Left out are what
\* wants longhorn-single on a cluster without needs-storage, and Ollama, which wants a GPU,
\* on one without needs-gpu-operator: neither is a dependsOn of theirs; the demo that is
\* broken on purpose; and, of the two bundles that install Longhorn, the one that came second.
AsAsked ==
    \A b \in Bundles :
       IF Wanted(b, labels)
       THEN status[b] = "ready" \/ Held(b) \/ Refused(b)
       ELSE ~Present(b)

\* Fleet has nothing to install or uninstall, and no pod can still get ready.
AtRest ==
    /\ read = Repos /\ secrets
    /\ \A b \in Bundles :
          /\ Targeted(b) /\ ~Present(b) => ~Installable(b) \/ Refused(b)
          /\ Present(b) => Targeted(b)
          /\ status[b] = "installed" => \E u \in b.uses : ~Supplied(u)

\* Fleet comes to rest nowhere else: no bundle waits for another that waits as well, for a
\* name that nothing bears, or for storage, a class or a secret that its labels do not bring.
RestIsAsAsked == AtRest => AsAsked

\* Whatever the order in which labels come and go and GitRepos and secrets arrive, the
\* cluster ends up with what its labels ask for (the add-ons that a label alone enables).
LabelsSuffice == <>[]AsAsked
=============================================================================
