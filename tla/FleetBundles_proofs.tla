------------------------ MODULE FleetBundles_proofs ------------------------
(***************************************************************************)
(* What holds of FleetBundles for every set of bundles that is followed,   *)
(* the whole of apps/ among them, and for any number of changes.           *)
(***************************************************************************)
EXTENDS FleetBundles, TLAPS

LEMMA BaseWaits ==
    ASSUME NEW b \in Base
    PROVE  b.after = {} \/ b \in {ClusterRepositories}
<1>1. ApplicationCollection.after = {}
  BY DEF ApplicationCollection, Bundle
<1>2. IngressCloudflare.after = {}
  BY DEF IngressCloudflare, Bundle
<1>3. LabSetup.after = {}
  BY DEF LabSetup, Bundle
<1>4. Sprouter.after = {}
  BY DEF Sprouter, Bundle
<1>5. StorageClass.after = {}
  BY DEF StorageClass, Bundle
<1>6. SuseRegistry.after = {}
  BY DEF SuseRegistry, Bundle
<1>7. Traefik.after = {}
  BY DEF Traefik, Bundle
<1> QED BY <1>1, <1>2, <1>3, <1>4, <1>5, <1>6, <1>7 DEF Base

LEMMA AppcoWaits ==
    ASSUME NEW b \in Appco
    PROVE  b.after = {} \/ b \in {CertManagerConfig}
<1>1. CertManager.after = {}
  BY DEF CertManager, Bundle
<1>2. CloudnativePg.after = {}
  BY DEF CloudnativePg, Bundle
<1>3. Metallb.after = {}
  BY DEF Metallb, Bundle
<1>4. Ollama.after = {}
  BY DEF Ollama, Bundle
<1>5. SuseStorage.after = {}
  BY DEF SuseStorage, Bundle
<1> QED BY <1>1, <1>2, <1>3, <1>4, <1>5 DEF Appco

LEMMA PlatformWaits ==
    ASSUME NEW b \in Platform
    PROVE  \/ b.after = {}
           \/ b \in {KubewardenController, KubewardenDefaults, SbomScanner, SbomScannerConfig,
                    SuseSecurity}
<1>1. KubewardenCrds.after = {}
  BY DEF KubewardenCrds, Bundle
<1>2. Longhorn.after = {}
  BY DEF Longhorn, Bundle
<1>3. SuseObservability.after = {}
  BY DEF SuseObservability, Bundle
<1>4. SuseSecurityCrd.after = {}
  BY DEF SuseSecurityCrd, Bundle
<1> QED BY <1>1, <1>2, <1>3, <1>4 DEF Platform

LEMMA OthersWaits ==
    ASSUME NEW b \in Others
    PROVE  b.after = {} \/ b \in {PrivateRegistryProxy}
<1>1. PrivateRegistry.after = {}
  BY DEF PrivateRegistry, Bundle
<1>2. Forgejo.after = {}
  BY DEF Forgejo, Bundle
<1>3. NvidiaGpuOperator.after = {}
  BY DEF NvidiaGpuOperator, Bundle
<1>4. AppcoCve.after = {}
  BY DEF AppcoCve, Bundle
<1>5. LizCve.after = {}
  BY DEF LizCve, Bundle
<1>6. ObsSattrack.after = {}
  BY DEF ObsSattrack, Bundle
<1>7. LizDemos.after = {}
  BY DEF LizDemos, Bundle
<1> QED BY <1>1, <1>2, <1>3, <1>4, <1>5, <1>6, <1>7 DEF Others

-----------------------------------------------------------------------------
\* The labels some dependsOn names, and the bundles that bear them.
Awaited == {"application-collection", "cert-manager", "cnpg", "harbor",
            "kubewarden-controller", "kubewarden-crds", "neuvector-crd", "sbomscanner"}

LEMMA BaseProvides ==
    ASSUME NEW p \in Base
    PROVE  p.provides \cap Awaited = {} \/ p \in {ApplicationCollection}
<1>1. ClusterRepositories.provides \cap Awaited = {}
  BY DEF ClusterRepositories, Bundle, Awaited
<1>2. IngressCloudflare.provides \cap Awaited = {}
  BY DEF IngressCloudflare, Bundle, Awaited
<1>3. LabSetup.provides \cap Awaited = {}
  BY DEF LabSetup, Bundle, Awaited
<1>4. Sprouter.provides \cap Awaited = {}
  BY DEF Sprouter, Bundle, Awaited
<1>5. StorageClass.provides \cap Awaited = {}
  BY DEF StorageClass, Bundle, Awaited
<1>6. SuseRegistry.provides \cap Awaited = {}
  BY DEF SuseRegistry, Bundle, Awaited
<1>7. Traefik.provides \cap Awaited = {}
  BY DEF Traefik, Bundle, Awaited
<1> QED BY <1>1, <1>2, <1>3, <1>4, <1>5, <1>6, <1>7 DEF Base

LEMMA AppcoProvides ==
    ASSUME NEW p \in Appco
    PROVE  p.provides \cap Awaited = {} \/ p \in {CertManager, CloudnativePg}
<1>1. CertManagerConfig.provides \cap Awaited = {}
  BY DEF CertManagerConfig, Bundle, Awaited
<1>2. Metallb.provides \cap Awaited = {}
  BY DEF Metallb, Bundle, Awaited
<1>3. Ollama.provides \cap Awaited = {}
  BY DEF Ollama, Bundle, Awaited
<1>4. SuseStorage.provides \cap Awaited = {}
  BY DEF SuseStorage, Bundle, Awaited
<1> QED BY <1>1, <1>2, <1>3, <1>4 DEF Appco

LEMMA PlatformProvides ==
    ASSUME NEW p \in Platform
    PROVE  \/ p.provides \cap Awaited = {}
           \/ p \in {KubewardenCrds, KubewardenController, SbomScanner, SuseSecurityCrd}
<1>1. KubewardenDefaults.provides \cap Awaited = {}
  BY DEF KubewardenDefaults, Bundle, Awaited
<1>2. Longhorn.provides \cap Awaited = {}
  BY DEF Longhorn, Bundle, Awaited
<1>3. SbomScannerConfig.provides \cap Awaited = {}
  BY DEF SbomScannerConfig, Bundle, Awaited
<1>4. SuseObservability.provides \cap Awaited = {}
  BY DEF SuseObservability, Bundle, Awaited
<1>5. SuseSecurity.provides \cap Awaited = {}
  BY DEF SuseSecurity, Bundle, Awaited
<1> QED BY <1>1, <1>2, <1>3, <1>4, <1>5 DEF Platform

LEMMA OthersProvides ==
    ASSUME NEW p \in Others
    PROVE  p.provides \cap Awaited = {} \/ p \in {PrivateRegistry}
<1>1. PrivateRegistryProxy.provides \cap Awaited = {}
  BY DEF PrivateRegistryProxy, Bundle, Awaited
<1>2. Forgejo.provides \cap Awaited = {}
  BY DEF Forgejo, Bundle, Awaited
<1>3. NvidiaGpuOperator.provides \cap Awaited = {}
  BY DEF NvidiaGpuOperator, Bundle, Awaited
<1>4. AppcoCve.provides \cap Awaited = {}
  BY DEF AppcoCve, Bundle, Awaited
<1>5. LizCve.provides \cap Awaited = {}
  BY DEF LizCve, Bundle, Awaited
<1>6. ObsSattrack.provides \cap Awaited = {}
  BY DEF ObsSattrack, Bundle, Awaited
<1>7. LizDemos.provides \cap Awaited = {}
  BY DEF LizDemos, Bundle, Awaited
<1> QED BY <1>1, <1>2, <1>3, <1>4, <1>5, <1>6, <1>7 DEF Others

\* The bundles that wait, and those that are waited for.
Waiters ==
    {ClusterRepositories, CertManagerConfig, KubewardenController, KubewardenDefaults,
     SbomScanner, SbomScannerConfig, SuseSecurity, PrivateRegistryProxy}
Providers ==
    {ApplicationCollection, CertManager, CloudnativePg, KubewardenCrds, KubewardenController,
     SbomScanner, SuseSecurityCrd, PrivateRegistry}

\* What a bundle says of itself.
Declares(b, repo, selectors, after, provides) ==
    b.repo = repo /\ b.selectors = selectors /\ b.after = after /\ b.provides = provides

LEMMA Declared ==
    /\ Declares(ClusterRepositories, "base", {}, {"application-collection"},
                {"cluster-repositories"})
    /\ Declares(CertManagerConfig, "appco", {}, {"cert-manager"}, {})
    /\ Declares(KubewardenController, "platform", {"needs-kubewarden"},
                {"kubewarden-crds"}, {"kubewarden-controller"})
    /\ Declares(KubewardenDefaults, "platform", {"needs-kubewarden"},
                {"kubewarden-controller"}, {"kubewarden-defaults"})
    /\ Declares(SbomScanner, "platform", {"needs-sbomscanner"}, {"cnpg"}, {"sbomscanner"})
    /\ Declares(SbomScannerConfig, "platform", {"needs-sbomscanner"}, {"sbomscanner"}, {})
    /\ Declares(SuseSecurity, "platform", {"needs-security"}, {"neuvector-crd"},
                {"neuvector"})
    /\ Declares(PrivateRegistryProxy, "suse", {"needs-private-registry"}, {"harbor"}, {})
    /\ Declares(ApplicationCollection, "base", {}, {}, {"application-collection"})
    /\ Declares(CertManager, "appco", {}, {}, {"cert-manager"})
    /\ Declares(CloudnativePg, "appco", {"needs-cnpg", "needs-sbomscanner"}, {}, {"cnpg"})
    /\ Declares(PrivateRegistry, "suse", {"needs-private-registry"}, {}, {"harbor"})
    /\ Declares(KubewardenCrds, "platform", {"needs-kubewarden"}, {}, {"kubewarden-crds"})
    /\ Declares(SuseSecurityCrd, "platform", {"needs-security"}, {}, {"neuvector-crd"})
<1>1. Declares(ClusterRepositories, "base", {}, {"application-collection"},
               {"cluster-repositories"})
  BY DEF ClusterRepositories, Bundle, Declares
<1>2. Declares(CertManagerConfig, "appco", {}, {"cert-manager"}, {})
  BY DEF CertManagerConfig, Bundle, Declares
<1>3. Declares(KubewardenController, "platform", {"needs-kubewarden"},
               {"kubewarden-crds"}, {"kubewarden-controller"})
  BY DEF KubewardenController, Bundle, Declares
<1>4. Declares(KubewardenDefaults, "platform", {"needs-kubewarden"},
               {"kubewarden-controller"}, {"kubewarden-defaults"})
  BY DEF KubewardenDefaults, Bundle, Declares
<1>5. Declares(SbomScanner, "platform", {"needs-sbomscanner"}, {"cnpg"}, {"sbomscanner"})
  BY DEF SbomScanner, Bundle, Declares
<1>6. Declares(SbomScannerConfig, "platform", {"needs-sbomscanner"}, {"sbomscanner"}, {})
  BY DEF SbomScannerConfig, Bundle, Declares
<1>7. Declares(SuseSecurity, "platform", {"needs-security"}, {"neuvector-crd"},
               {"neuvector"})
  BY DEF SuseSecurity, Bundle, Declares
<1>8. Declares(PrivateRegistryProxy, "suse", {"needs-private-registry"}, {"harbor"}, {})
  BY DEF PrivateRegistryProxy, Bundle, Declares
<1>9. Declares(ApplicationCollection, "base", {}, {}, {"application-collection"})
  BY DEF ApplicationCollection, Bundle, Declares
<1>10. Declares(CertManager, "appco", {}, {}, {"cert-manager"})
  BY DEF CertManager, Bundle, Declares
<1>11. Declares(CloudnativePg, "appco", {"needs-cnpg", "needs-sbomscanner"}, {}, {"cnpg"})
  BY DEF CloudnativePg, Bundle, Declares
<1>12. Declares(PrivateRegistry, "suse", {"needs-private-registry"}, {}, {"harbor"})
  BY DEF PrivateRegistry, Bundle, Declares
<1>13. Declares(KubewardenCrds, "platform", {"needs-kubewarden"}, {}, {"kubewarden-crds"})
  BY DEF KubewardenCrds, Bundle, Declares
<1>14. Declares(SuseSecurityCrd, "platform", {"needs-security"}, {}, {"neuvector-crd"})
  BY DEF SuseSecurityCrd, Bundle, Declares
<1> QED BY <1>1, <1>2, <1>3, <1>4, <1>5, <1>6, <1>7,
          <1>8, <1>9, <1>10, <1>11, <1>12, <1>13, <1>14

\* The labels that bring a bundle bring what it waits for.
LEMMA ComeAlong ==
    ASSUME NEW b \in AllBundles, NEW p \in AllBundles, b.after \cap p.provides # {},
           NEW ls, Wanted(b, ls)
    PROVE  Wanted(p, ls)
<1>1. b \in Waiters
  BY BaseWaits, AppcoWaits, PlatformWaits, OthersWaits
     DEF Waiters, AllBundles
<1>2. b.after \subseteq Awaited
  BY <1>1, Declared DEF Declares, Awaited, Waiters
<1>3. p \in Providers
  BY <1>2, BaseProvides, AppcoProvides, PlatformProvides, OthersProvides
     DEF Providers, AllBundles
<1>4. CASE b = ClusterRepositories
  BY <1>3, <1>4, Declared DEF Declares, Wanted, Providers, TargetsAllClusters
<1>5. CASE b = CertManagerConfig
  BY <1>3, <1>5, Declared DEF Declares, Wanted, Providers, TargetsAllClusters
<1>6. CASE b = KubewardenController
  BY <1>3, <1>6, Declared DEF Declares, Wanted, Providers
<1>7. CASE b = KubewardenDefaults
  BY <1>3, <1>7, Declared DEF Declares, Wanted, Providers
<1>8. CASE b = SbomScanner
  BY <1>3, <1>8, Declared DEF Declares, Wanted, Providers
<1>9. CASE b = SbomScannerConfig
  BY <1>3, <1>9, Declared DEF Declares, Wanted, Providers
<1>10. CASE b = SuseSecurity
  BY <1>3, <1>10, Declared DEF Declares, Wanted, Providers
<1>11. CASE b = PrivateRegistryProxy
  BY <1>3, <1>11, Declared DEF Declares, Wanted, Providers
<1> QED BY <1>1, <1>4, <1>5, <1>6, <1>7, <1>8, <1>9, <1>10, <1>11 DEF Waiters

-----------------------------------------------------------------------------

\* And there is something for it to wait for.
LEMMA Exists ==
    ASSUME NEW b \in Bundles, NEW l \in b.after
    PROVE  \E p \in Bundles : l \in p.provides
<1>1. b \in Waiters
  BY BaseWaits, AppcoWaits, PlatformWaits, OthersWaits
     DEF Waiters, Bundles, AllBundles
<1>2. Providers \subseteq AllBundles
  BY DEF Providers, AllBundles, Base, Appco, Platform, Others
<1>3. l \in Awaited
  BY <1>1, Declared DEF Declares, Awaited, Waiters
<1>4. PICK p \in AllBundles : l \in p.provides
  BY <1>2, <1>3, Declared DEF Declares, Awaited, Providers
<1>5. p \in Bundles
  BY <1>4, FleetAssumption
<1> QED BY <1>4, <1>5
-----------------------------------------------------------------------------
LEMMA WantedComeAlong == DependenciesComeAlong
<1> SUFFICES ASSUME NEW b \in Bundles, Wanted(b, labels), NEW l \in b.after
             PROVE  \E p \in Matches(l) : Wanted(p, labels)
  BY DEF DependenciesComeAlong
<1>1. PICK p \in Bundles : l \in p.provides
  BY Exists
<1>2. b \in AllBundles /\ p \in AllBundles
  BY DEF Bundles
<1>3. Wanted(p, labels)
  BY <1>1, <1>2, ComeAlong
<1> QED BY <1>1, <1>3 DEF Matches

\* Whatever labels a cluster has, they bring each bundle with all that it waits for: the
\* selectors and the dependsOn of all of apps/ agree.
THEOREM Complete == Spec => []DependenciesComeAlong
BY WantedComeAlong, PTL

\* The variables are of their types, and nothing is installed from a GitRepo that was not read.
THEOREM TypeCorrect == Spec => []TypeOK
<1> USE FleetAssumption
<1>1. ASSUME Init PROVE TypeOK
  <2>1. status \in [Bundles -> {"absent", "installed", "ready"}] /\ \A b \in Bundles : ~Present(b)
    BY <1>1 DEF Init, Present
  <2>2. changes \in 0..MaxChanges /\ lapses \in 0..MaxLapses
    BY <1>1, FleetAssumption DEF Init
  <2> QED BY <1>1, <2>1, <2>2 DEF Init, TypeOK
<1>2. ASSUME TypeOK, [Next]_vars PROVE TypeOK'
  <2> USE <1>2 DEF TypeOK, Present
  <2>1. CASE ChangeLabels
    BY <2>1 DEF ChangeLabels
  <2>2. ASSUME NEW r \in Repos, ReadRepo(r) PROVE TypeOK'
    BY <2>2 DEF ReadRepo
  <2>3. CASE CopySecrets
    BY <2>3 DEF CopySecrets
  <2>4. ASSUME NEW b \in Bundles, Install(b) PROVE TypeOK'
    BY <2>4 DEF Install, Targeted
  <2>5. ASSUME NEW b \in Bundles, GetReady(b) PROVE TypeOK'
    BY <2>5 DEF GetReady
  <2>6. ASSUME NEW b \in Bundles, Lapse(b) PROVE TypeOK'
    BY <2>6 DEF Lapse
  <2>7. ASSUME NEW b \in Bundles, Uninstall(b) PROVE TypeOK'
    BY <2>7 DEF Uninstall
  <2>8. CASE UNCHANGED vars
    BY <2>8 DEF vars
  <2> QED BY <1>2, <2>1, <2>2, <2>3, <2>4, <2>5, <2>6, <2>7, <2>8 DEF Next
<1> QED BY <1>1, <1>2, PTL DEF Spec

\* Nothing that an installed bundle waited for is uninstalled while the labels still ask
\* for that bundle: a bundle that is there comes from a GitRepo that was read, so only its
\* labels could take it away, and by ComeAlong they do not.
THEOREM Kept == Spec => KeptWhileNeeded
<1>1. ASSUME TypeOK, [Next]_vars,
             NEW b \in Bundles, NEW p \in Bundles, Present(b), Wanted(b, labels),
             Present(p), b.after \cap p.provides # {}
      PROVE  Present(p)'
  <2>1. Targeted(p)
    <3>1. b \in AllBundles /\ p \in AllBundles
      BY DEF Bundles
    <3>2. Wanted(p, labels)
      BY <1>1, <3>1, ComeAlong
    <3> QED BY <1>1, <3>2 DEF TypeOK, Targeted
  <2> USE <1>1 DEF TypeOK, Present
  <2>2. CASE ChangeLabels \/ CopySecrets \/ UNCHANGED vars \/ \E r \in Repos : ReadRepo(r)
    BY <2>2 DEF ChangeLabels, CopySecrets, ReadRepo, vars
  <2>3. ASSUME NEW c \in Bundles, Install(c) \/ GetReady(c) \/ Lapse(c)
        PROVE  Present(p)'
    BY <2>3 DEF Install, GetReady, Lapse
  <2>4. ASSUME NEW c \in Bundles, Uninstall(c) PROVE Present(p)'
    <3>1. c # p
      BY <2>1, <2>4 DEF Uninstall
    <3> QED BY <2>4, <3>1 DEF Uninstall
  <2> QED BY <1>1, <2>2, <2>3, <2>4 DEF Next
<1>2. TypeOK /\ [Next]_vars =>
        \A b, p \in Bundles :
           /\ Present(b) /\ Wanted(b, labels)
           /\ Present(p) /\ b.after \cap p.provides # {}
           => Present(p)'
  BY <1>1
<1> QED BY <1>2, TypeCorrect, PTL DEF Spec, KeptWhileNeeded

-----------------------------------------------------------------------------
(***************************************************************************)
(* Where Fleet comes to rest.                                              *)
(***************************************************************************)

\* The bundles that other bundles' pods need something of, or that own something.
Suppliers == {ApplicationCollection, StorageClass, SuseRegistry, SuseStorage, Longhorn,
              NvidiaGpuOperator}

Supplies(b) == b.creates # {} \/ b.owns # {}

LEMMA BaseSupplies ==
    ASSUME NEW b \in Base
    PROVE  Supplies(b) => b \in Suppliers
<1>1. ~Supplies(ClusterRepositories)
  BY DEF ClusterRepositories, Bundle, Supplies
<1>2. ~Supplies(IngressCloudflare)
  BY DEF IngressCloudflare, Bundle, Supplies
<1>3. ~Supplies(LabSetup)
  BY DEF LabSetup, Bundle, Supplies
<1>4. ~Supplies(Sprouter)
  BY DEF Sprouter, Bundle, Supplies
<1>5. ~Supplies(Traefik)
  BY DEF Traefik, Bundle, Supplies
<1> QED BY <1>1, <1>2, <1>3, <1>4, <1>5 DEF Base, Suppliers

LEMMA AppcoSupplies ==
    ASSUME NEW b \in Appco
    PROVE  Supplies(b) => b \in Suppliers
<1>1. ~Supplies(CertManager)
  BY DEF CertManager, Bundle, Supplies
<1>2. ~Supplies(CertManagerConfig)
  BY DEF CertManagerConfig, Bundle, Supplies
<1>3. ~Supplies(CloudnativePg)
  BY DEF CloudnativePg, Bundle, Supplies
<1>4. ~Supplies(Metallb)
  BY DEF Metallb, Bundle, Supplies
<1>5. ~Supplies(Ollama)
  BY DEF Ollama, Bundle, Supplies
<1> QED BY <1>1, <1>2, <1>3, <1>4, <1>5 DEF Appco, Suppliers

LEMMA PlatformSupplies ==
    ASSUME NEW b \in Platform
    PROVE  Supplies(b) => b \in Suppliers
<1>1. ~Supplies(KubewardenCrds)
  BY DEF KubewardenCrds, Bundle, Supplies
<1>2. ~Supplies(KubewardenController)
  BY DEF KubewardenController, Bundle, Supplies
<1>3. ~Supplies(KubewardenDefaults)
  BY DEF KubewardenDefaults, Bundle, Supplies
<1>4. ~Supplies(SbomScanner)
  BY DEF SbomScanner, Bundle, Supplies
<1>5. ~Supplies(SbomScannerConfig)
  BY DEF SbomScannerConfig, Bundle, Supplies
<1>6. ~Supplies(SuseObservability)
  BY DEF SuseObservability, Bundle, Supplies
<1>7. ~Supplies(SuseSecurityCrd)
  BY DEF SuseSecurityCrd, Bundle, Supplies
<1>8. ~Supplies(SuseSecurity)
  BY DEF SuseSecurity, Bundle, Supplies
<1> QED BY <1>1, <1>2, <1>3, <1>4, <1>5, <1>6, <1>7, <1>8 DEF Platform, Suppliers

LEMMA OthersSupplies ==
    ASSUME NEW b \in Others
    PROVE  Supplies(b) => b \in Suppliers
<1>1. ~Supplies(PrivateRegistry)
  BY DEF PrivateRegistry, Bundle, Supplies
<1>2. ~Supplies(PrivateRegistryProxy)
  BY DEF PrivateRegistryProxy, Bundle, Supplies
<1>3. ~Supplies(Forgejo)
  BY DEF Forgejo, Bundle, Supplies
<1>4. ~Supplies(AppcoCve)
  BY DEF AppcoCve, Bundle, Supplies
<1>5. ~Supplies(LizCve)
  BY DEF LizCve, Bundle, Supplies
<1>6. ~Supplies(LizDemos)
  BY DEF LizDemos, Bundle, Supplies
<1>7. ~Supplies(ObsSattrack)
  BY DEF ObsSattrack, Bundle, Supplies
<1> QED BY <1>1, <1>2, <1>3, <1>4, <1>5, <1>6, <1>7 DEF Others, Suppliers

\* What a supplier says of itself.
Brings(b, values, uses, creates, owns) ==
    b.values = values /\ b.uses = uses /\ b.creates = creates /\ b.owns = owns

LEMMA SuppliersDeclare ==
    /\ Declares(ApplicationCollection, "base", {}, {}, {"application-collection"})
    /\ Declares(StorageClass, "base", {"needs-storage"}, {}, {})
    /\ Declares(SuseRegistry, "base", {}, {}, {"suse-registry"})
    /\ Declares(SuseStorage, "appco", {"needs-storage"}, {}, {"longhorn"})
    /\ Declares(Longhorn, "platform", {"needs-longhorn"}, {}, {"longhorn"})
    /\ Declares(Sprouter, "base", {}, {}, {})
    /\ Declares(NvidiaGpuOperator, "thirdparty", {"needs-gpu-operator"}, {},
                {"nvidia-gpu-operator"})
<1>1. Declares(ApplicationCollection, "base", {}, {}, {"application-collection"})
  BY DEF ApplicationCollection, Bundle, Declares
<1>2. Declares(StorageClass, "base", {"needs-storage"}, {}, {})
  BY DEF StorageClass, Bundle, Declares
<1>3. Declares(SuseRegistry, "base", {}, {}, {"suse-registry"})
  BY DEF SuseRegistry, Bundle, Declares
<1>4. Declares(SuseStorage, "appco", {"needs-storage"}, {}, {"longhorn"})
  BY DEF SuseStorage, Bundle, Declares
<1>5. Declares(Longhorn, "platform", {"needs-longhorn"}, {}, {"longhorn"})
  BY DEF Longhorn, Bundle, Declares
<1>6. Declares(Sprouter, "base", {}, {}, {})
  BY DEF Sprouter, Bundle, Declares
<1>7. Declares(NvidiaGpuOperator, "thirdparty", {"needs-gpu-operator"}, {},
               {"nvidia-gpu-operator"})
  BY DEF NvidiaGpuOperator, Bundle, Declares
<1> QED BY <1>1, <1>2, <1>3, <1>4, <1>5, <1>6, <1>7

LEMMA SuppliersBring ==
    /\ Brings(ApplicationCollection, TRUE, {}, {"application-collection"}, {})
    /\ Brings(StorageClass, FALSE, {}, {"longhorn-single"}, {})
    /\ Brings(SuseRegistry, TRUE, {}, {"suse-registry"}, {})
    /\ Brings(SuseStorage, FALSE, {"application-collection"}, {}, {"longhorn"})
    /\ Brings(Longhorn, FALSE, {}, {}, {"longhorn"})
    /\ Brings(Sprouter, FALSE, {}, {}, {})
    /\ Brings(NvidiaGpuOperator, FALSE, {}, {"nvidia.com/gpu"}, {})
<1>1. Brings(ApplicationCollection, TRUE, {}, {"application-collection"}, {})
  BY DEF ApplicationCollection, Bundle, Brings
<1>2. Brings(StorageClass, FALSE, {}, {"longhorn-single"}, {})
  BY DEF StorageClass, Bundle, Brings
<1>3. Brings(SuseRegistry, TRUE, {}, {"suse-registry"}, {})
  BY DEF SuseRegistry, Bundle, Brings
<1>4. Brings(SuseStorage, FALSE, {"application-collection"}, {}, {"longhorn"})
  BY DEF SuseStorage, Bundle, Brings
<1>5. Brings(Longhorn, FALSE, {}, {}, {"longhorn"})
  BY DEF Longhorn, Bundle, Brings
<1>6. Brings(Sprouter, FALSE, {}, {}, {})
  BY DEF Sprouter, Bundle, Brings
<1>7. Brings(NvidiaGpuOperator, FALSE, {}, {"nvidia.com/gpu"}, {})
  BY DEF NvidiaGpuOperator, Bundle, Brings
<1> QED BY <1>1, <1>2, <1>3, <1>4, <1>5, <1>6, <1>7

\* What is waited for owns nothing, and what that waits for in its turn needs nothing.
LEMMA Awaiteds ==
    /\ \A p \in Providers : p.owns = {}
    /\ \A p \in Providers : p.after = {} \/ p \in {KubewardenController, SbomScanner}
    /\ \A p \in {KubewardenCrds, CloudnativePg} : p.uses = {} /\ p.after = {}
<1>1. ApplicationCollection.owns = {} /\ ApplicationCollection.after = {}
  BY DEF ApplicationCollection, Bundle
<1>2. CertManager.owns = {} /\ CertManager.after = {}
  BY DEF CertManager, Bundle
<1>3. CloudnativePg.owns = {} /\ CloudnativePg.after = {} /\ CloudnativePg.uses = {}
  BY DEF CloudnativePg, Bundle
<1>4. KubewardenCrds.owns = {} /\ KubewardenCrds.after = {} /\ KubewardenCrds.uses = {}
  BY DEF KubewardenCrds, Bundle
<1>5. KubewardenController.owns = {}
  BY DEF KubewardenController, Bundle
<1>6. SbomScanner.owns = {}
  BY DEF SbomScanner, Bundle
<1>7. SuseSecurityCrd.owns = {} /\ SuseSecurityCrd.after = {}
  BY DEF SuseSecurityCrd, Bundle
<1>8. PrivateRegistry.owns = {} /\ PrivateRegistry.after = {}
  BY DEF PrivateRegistry, Bundle
<1> QED BY <1>1, <1>2, <1>3, <1>4, <1>5, <1>6, <1>7, <1>8 DEF Providers

-----------------------------------------------------------------------------
\* At rest a bundle that is wanted, and that no other one is in the way of, is ready if what
\* it waits for is and what its pods use is there.
LEMMA ReadyAtRest ==
    ASSUME TypeOK, AtRest, NEW b \in Bundles, Wanted(b, labels), ~Refused(b),
           \A p \in Bundles : b.after \cap p.provides # {} => status[p] = "ready",
           \A u \in b.uses : Supplied(u)
    PROVE  status[b] = "ready"
<1>1. Targeted(b)
  BY DEF AtRest, Targeted, Repos
<1>2. Installable(b)
  <2>1. ASSUME NEW l \in b.after
        PROVE  LET there == {p \in Matches(l) : Targeted(p) \/ Present(p)}
               IN  there # {} /\ \A p \in there : status[p] = "ready"
    <3>1. PICK p \in Bundles : l \in p.provides
      BY Exists
    <3>2. Present(p)
      BY <2>1, <3>1 DEF Present
    <3> QED BY <2>1, <3>1, <3>2 DEF Matches
  <2> QED BY <2>1 DEF Installable, AtRest
<1>3. Present(b) /\ status[b] # "installed"
  BY <1>1, <1>2 DEF AtRest
<1>4. status[b] \in {"absent", "installed", "ready"}
  BY DEF TypeOK
<1> QED BY <1>3, <1>4 DEF Present

\* One that waits for nothing and needs nothing is there, and ready.
LEMMA PlainAtRest ==
    ASSUME TypeOK, AtRest, NEW b \in Bundles, Wanted(b, labels), b.owns = {}, b.after = {}
    PROVE  Present(b) /\ (b.uses = {} => status[b] = "ready")
<1>1. ~Refused(b) /\ Targeted(b)
  BY DEF Refused, AtRest, Targeted, Repos
<1>2. Installable(b)
  BY DEF Installable, AtRest
<1> QED BY <1>1, <1>2, ReadyAtRest DEF AtRest

\* At rest what a bundle brings that the labels ask for reaches the pods.
LEMMA SuppliedAtRest ==
    ASSUME TypeOK, AtRest, NEW u, NEW p \in Bundles, u \in p.creates, Wanted(p, labels)
    PROVE  Supplied(u)
<1>1. p \in {ApplicationCollection, SuseRegistry, StorageClass, NvidiaGpuOperator}
  <2>1. p \in Suppliers
    BY BaseSupplies, AppcoSupplies, PlatformSupplies, OthersSupplies
       DEF Bundles, AllBundles, Supplies
  <2> QED BY <2>1, SuppliersBring DEF Suppliers, Brings
<1>2. Present(p)
  BY <1>1, PlainAtRest, SuppliersDeclare, SuppliersBring DEF Declares, Brings
<1>3. Sprouter \in Bundles /\ status[Sprouter] = "ready"
  <2>1. Wanted(Sprouter, labels)
    BY SuppliersDeclare DEF Declares, Wanted, TargetsAllClusters
  <2> QED
    BY <2>1, SuppliersAssumption, PlainAtRest, SuppliersDeclare, SuppliersBring
       DEF Declares, Brings
<1>4. CASE p \in {ApplicationCollection, SuseRegistry}
  <2>1. u # "longhorn-single" /\ u # "nvidia.com/gpu"
    BY <1>4, SuppliersBring DEF Brings
  <2> QED BY <1>2, <1>3, <2>1 DEF Supplied, Carriers
<1>5. CASE p = StorageClass
  <2>1. "needs-storage" \in labels
    BY <1>5, SuppliersDeclare DEF Declares, Wanted
  <2>2. SuseStorage \in Bundles /\ Wanted(SuseStorage, labels)
    BY <2>1, SuppliersAssumption, SuppliersDeclare DEF Declares, Wanted
  <2>3. \E q \in Matches("longhorn") : status[q] = "ready"
    <3>1. CASE Refused(SuseStorage)
      <4>1. PICK c \in Bundles \ {SuseStorage} : Present(c) /\ c.owns \cap SuseStorage.owns # {}
        BY <3>1 DEF Refused
      <4>2. c \in Suppliers
        BY <4>1, BaseSupplies, AppcoSupplies, PlatformSupplies, OthersSupplies
           DEF Bundles, AllBundles, Supplies
      <4>3. c = Longhorn
        BY <4>1, <4>2, SuppliersBring DEF Suppliers, Brings
      <4>4. status[c] # "installed"
        BY <4>1, <4>3, SuppliersBring DEF Brings, AtRest
      <4>5. status[c] = "ready"
        BY <4>1, <4>4 DEF TypeOK, Present
      <4> QED BY <4>3, <4>5, SuppliersDeclare DEF Declares, Matches
    <3>2. CASE ~Refused(SuseStorage)
      <4>1. ApplicationCollection \in Bundles
        <5>1. ApplicationCollection \in AllBundles
          BY DEF AllBundles, Base
        <5>2. SuseStorage.uses \cap ApplicationCollection.creates # {}
          BY SuppliersBring DEF Brings
        <5> QED BY <2>2, <5>1, <5>2, SuppliersAssumption
      <4>2. Present(ApplicationCollection)
        <5>1. Wanted(ApplicationCollection, labels)
          BY SuppliersDeclare DEF Declares, Wanted, TargetsAllClusters
        <5> QED BY <4>1, <5>1, PlainAtRest, SuppliersDeclare, SuppliersBring DEF Declares, Brings
      <4>3. \A v \in SuseStorage.uses : Supplied(v)
        <5>1. Supplied("application-collection")
          BY <1>3, <4>1, <4>2, SuppliersBring DEF Supplied, Carriers, Brings
        <5> QED BY <5>1, SuppliersBring DEF Brings
      <4>4. status[SuseStorage] = "ready"
        BY <2>2, <3>2, <4>3, ReadyAtRest, SuppliersDeclare DEF Declares
      <4> QED BY <2>2, <4>4, SuppliersDeclare DEF Declares, Matches
    <3> QED BY <3>1, <3>2
  <2>4. u = "longhorn-single"
    BY <1>5, SuppliersBring DEF Brings
  <2> QED BY <1>2, <2>3, <2>4 DEF Supplied, Carriers
<1>6. CASE p = NvidiaGpuOperator
  <2>1. u = "nvidia.com/gpu"
    BY <1>6, SuppliersBring DEF Brings
  <2>2. status[p] = "ready" /\ p \in Matches("nvidia-gpu-operator")
    BY <1>6, PlainAtRest, SuppliersDeclare, SuppliersBring DEF Declares, Brings, Matches
  <2> QED BY <1>2, <2>1, <2>2 DEF Supplied, Carriers
<1> QED BY <1>1, <1>4, <1>5, <1>6

\* What a bundle waits for is ready, unless it lacks a class or a GPU.
LEMMA AwaitedAtRest ==
    ASSUME TypeOK, AtRest, NEW b \in Bundles, NEW p \in Bundles, b.after \cap p.provides # {},
           Wanted(b, labels), ~Lacks(p)
    PROVE  status[p] = "ready"
<1>1. b \in AllBundles /\ p \in AllBundles
  BY DEF Bundles
<1>2. b \in Waiters /\ p \in Providers
  <2>1. b \in Waiters
    BY <1>1, BaseWaits, AppcoWaits, PlatformWaits, OthersWaits DEF Waiters, AllBundles
  <2>2. b.after \subseteq Awaited
    BY <2>1, Declared DEF Declares, Awaited, Waiters
  <2> QED
    BY <1>1, <2>1, <2>2, BaseProvides, AppcoProvides, PlatformProvides, OthersProvides
       DEF Providers, AllBundles
<1>3. Wanted(p, labels)
  BY <1>1, ComeAlong
<1>4. ~Refused(p)
  BY <1>2, Awaiteds DEF Refused
<1>5. \A u \in p.uses : Supplied(u)
  BY SuppliedAtRest DEF Lacks
<1>6. ASSUME NEW q \in Bundles, p.after \cap q.provides # {} PROVE status[q] = "ready"
  <2>1. q \in AllBundles /\ p \in {KubewardenController, SbomScanner}
    BY <1>2, <1>6, Awaiteds DEF Bundles
  <2>2. p.after \subseteq {"kubewarden-crds", "cnpg"}
    BY <2>1, Declared DEF Declares
  <2>3. q \in Providers
    BY <1>6, <2>1, <2>2, BaseProvides, AppcoProvides, PlatformProvides, OthersProvides
       DEF Providers, AllBundles, Awaited
  <2>4. q \in {KubewardenCrds, CloudnativePg}
    BY <1>6, <2>2, <2>3, Declared DEF Declares, Providers
  <2>5. Wanted(q, labels)
    BY <1>1, <1>3, <1>6, <2>1, ComeAlong
  <2> QED BY <2>3, <2>4, <2>5, Awaiteds, PlainAtRest
<1> QED BY <1>3, <1>4, <1>5, <1>6, ReadyAtRest

\* Fleet comes to rest only when a cluster has what its labels ask for, and nothing else:
\* all of apps/, whichever of its bundles are followed, has no two that wait for each other
\* and no label that leaves out what its bundles wait for, but for the storage class, the
\* GPU and the second Longhorn that AsAsked names.
THEOREM Rest == Spec => []RestIsAsAsked
<1>1. ASSUME TypeOK, AtRest, NEW b \in Bundles
      PROVE  IF Wanted(b, labels)
             THEN status[b] = "ready" \/ Held(b) \/ Refused(b)
             ELSE ~Present(b)
  <2>1. CASE ~Wanted(b, labels)
    BY <1>1, <2>1 DEF AtRest, Targeted
  <2>2. ASSUME Wanted(b, labels), ~Held(b), ~Refused(b) PROVE status[b] = "ready"
    <3>1. \A p \in Bundles : b.after \cap p.provides # {} => status[p] = "ready"
      BY <1>1, <2>2, AwaitedAtRest DEF Held
    <3>2. \A u \in b.uses : Supplied(u)
      BY <1>1, <2>2, SuppliedAtRest DEF Held, Lacks
    <3> QED BY <1>1, <2>2, <3>1, <3>2, ReadyAtRest
  <2> QED BY <2>1, <2>2
<1>2. TypeOK => RestIsAsAsked
  BY <1>1 DEF RestIsAsAsked, AsAsked
<1> QED BY <1>2, TypeCorrect, PTL
=============================================================================
