--------------------------- MODULE Lifecycle_proofs ---------------------------
(***************************************************************************)
(* Proofs about Lifecycle for any configuration values, addresses and      *)
(* numbers of changes: its types; that nothing but pulumi destroy takes up *)
(* a server that was rebuilt after its password was recorded; that a run   *)
(* which succeeds leaves the import whole and nothing for the next one to  *)
(* do; and that a run fails at nothing without one of the named reasons.   *)
(***************************************************************************)
EXTENDS Lifecycle, TLAPS

\* A server always has the same fields.
ServerInv == DOMAIN rancher = {"admin", "plugin", "clusters", "credentials", "gitrepos"}

\* What is created holds values of the right kind.
OutsInv ==
    /\ "password" \in DOMAIN saved => Out("password") \in Passwords
    /\ \A r \in DOMAIN saved :
          r \in {"vmKubeconfig", "cluster", "token", "kubeconfig"} => Out(r) \in 1..vm.epoch
    /\ \A r \in DOMAIN saved : DOMAIN saved[r] = {"ins", "outs", "out", "wiped", "epoch"}

\* A run has created all it has come to, but for its failures.
RunInv == running => Resources \ (todo \cup failed) \subseteq DOMAIN saved

\* The state half of RebuiltIsLost.
BareInv == PasswordLost => rancher = NewServer

Inv == TypeOK /\ ServerInv /\ OutsInv /\ RunInv /\ BareInv

-----------------------------------------------------------------------------
LEMMA InPassword ==
    \A r \in {"app", "repos", "cluster", "kubeconfig", "credential"} :
       In(r).rancher = Out("password") /\ "password" \in Uses(r)
BY DEF In, Uses

LEMMA InRest ==
    /\ In("password").password = config.password
    /\ In("app").version = config.version
    /\ In("repos").repos = config.repos
    /\ In("setting").value = Out("token") /\ "token" \in Uses("setting")
    /\ In("token").cluster = Out("cluster") /\ "cluster" \in Uses("token")
    /\ In("kubeconfig").cluster = Out("cluster") /\ "cluster" \in Uses("kubeconfig")
BY DEF In, Uses

\* What a resource uses has been created when the run comes to it.
LEMMA DueCreated ==
    ASSUME Inv, NEW r \in Resources, Due(r)
    PROVE  Uses(r) \subseteq DOMAIN saved
<1>1. Uses(r) \subseteq Resources
  BY DEF Uses, Resources
<1> QED BY <1>1 DEF Due, Inv, RunInv

\* Nobody logs in to a server whose admin has its bootstrap password still.
LEMMA NoLogin ==
    ASSUME Inv, PasswordLost, NEW r \in {"app", "repos", "cluster", "kubeconfig", "credential"}
    PROVE  ~Works(r, In(r))
<1>1. Out("password") \in Passwords /\ rancher.admin = Bootstrap
  BY DEF Inv, OutsInv, BareInv, PasswordLost, NewServer
<1>2. Out("password") # rancher.admin
  BY <1>1, LifecycleAssumption
<1>3. In(r).rancher # rancher.admin
  BY <1>2, InPassword
<1> QED BY <1>3 DEF Works

LEMMA InitInv == Init => Inv
<1> SUFFICES ASSUME Init PROVE Inv
  OBVIOUS
<1>1. DOMAIN saved = {} /\ rancher = NewServer /\ vm.epoch = 1
  BY DEF Init
<1>2. TypeOK
  <2>1. /\ rancher.admin = Bootstrap /\ rancher.plugin = "none"
        /\ rancher.clusters = {} /\ rancher.gitrepos = {}
    BY <1>1 DEF NewServer
  <2>2. config \in [name : Names, password : Passwords, version : Versions, repos : SUBSET Repos]
        /\ vm \in [epoch : Nat \ {0}, ip : Addresses]
    BY DEF Init
  <2>3. running \in BOOLEAN /\ complete \in BOOLEAN /\ noticed \in BOOLEAN
    BY DEF Init
  <2> QED BY <1>1, <2>1, <2>2, <2>3, LifecycleAssumption DEF Init, TypeOK
<1> QED
  BY <1>1, <1>2
  DEF Init, Inv, ServerInv, OutsInv, RunInv, BareInv, PasswordLost, NewServer

\* create() leaves a server of its kind, and an ID that Harvester may register as.
LEMMA ApplyTypes ==
    ASSUME Inv, NEW r \in Resources, Due(r), Apply(r, In(r))
    PROVE  /\ rancher'.admin \in Passwords \cup {Bootstrap}
           /\ rancher'.plugin \in Versions \cup {"none"}
           /\ rancher'.clusters \subseteq {vm.epoch}
           /\ rancher'.gitrepos \subseteq Repos
           /\ DOMAIN rancher' = {"admin", "plugin", "clusters", "credentials", "gitrepos"}
           /\ registered' \in 0..vm.epoch
<1>1. rancher' = Effect(r, In(r))
  BY DEF Apply
<1>2. /\ config.password \in Passwords /\ config.version \in Versions
      /\ config.repos \subseteq Repos
  BY DEF Inv, TypeOK
<1> DEFINE Kind(s) ==
      /\ s.admin \in Passwords \cup {Bootstrap}
      /\ s.plugin \in Versions \cup {"none"}
      /\ s.clusters \subseteq {vm.epoch}
      /\ s.gitrepos \subseteq Repos
      /\ DOMAIN s = {"admin", "plugin", "clusters", "credentials", "gitrepos"}
<1>k. Kind(rancher)
  BY DEF Inv, TypeOK, ServerInv
<1>3. ASSUME r = "password" PROVE Kind(rancher')
  <2>1. rancher' = [rancher EXCEPT !.admin = config.password]
    BY <1>1, <1>3, InRest DEF Effect
  <2> QED BY <1>k, <1>2, <2>1
<1>4. ASSUME r = "app" PROVE Kind(rancher')
  <2>1. rancher' = [rancher EXCEPT !.plugin = config.version]
    BY <1>1, <1>4, InRest DEF Effect
  <2> QED BY <1>k, <1>2, <2>1
<1>5. ASSUME r = "repos" PROVE Kind(rancher')
  <2>1. rancher' = [rancher EXCEPT !.gitrepos = @ \cup config.repos]
    BY <1>1, <1>5, InRest DEF Effect
  <2> QED BY <1>k, <1>2, <2>1
<1>6. ASSUME r = "cluster" PROVE Kind(rancher')
  <2>1. rancher' = [rancher EXCEPT !.clusters = @ \cup {vm.epoch}]
    BY <1>1, <1>6 DEF Effect
  <2> QED BY <1>k, <2>1
<1>7. ASSUME r = "credential" PROVE Kind(rancher')
  <2>1. PICK c : rancher' = [rancher EXCEPT !.credentials = c]
    BY <1>1, <1>7 DEF Effect
  <2> QED BY <1>k, <2>1
<1>8. ASSUME r \notin {"password", "app", "repos", "cluster", "credential"} PROVE Kind(rancher')
  <2>1. rancher' = rancher
    BY <1>1, <1>8 DEF Effect
  <2> QED BY <1>k, <2>1
<1>9. registered' \in 0..vm.epoch
  <2>1. CASE r = "setting"
    <3>1. "token" \in DOMAIN saved
      BY <2>1, DueCreated, InRest
    <3>2. Out("token") \in 1..vm.epoch
      BY <3>1 DEF Inv, OutsInv
    <3> QED BY <2>1, <3>2, InRest DEF Apply, Inv, TypeOK
  <2>2. CASE r # "setting"
    BY <2>2 DEF Apply, Inv, TypeOK
  <2> QED BY <2>1, <2>2
<1> QED BY <1>3, <1>4, <1>5, <1>6, <1>7, <1>8, <1>9

-----------------------------------------------------------------------------
LEMMA Recorded ==
    ASSUME NEW r, NEW ins, NEW outs, NEW out, NEW wiped, NEW epoch,
           Record(r, ins, outs, out, wiped, epoch)
    PROVE  /\ DOMAIN saved' = DOMAIN saved \cup {r}
           /\ saved'[r].epoch = epoch /\ saved'[r].out = out
           /\ DOMAIN saved'[r] = {"ins", "outs", "out", "wiped", "epoch"}
           /\ \A s \in DOMAIN saved : s # r => saved'[s] = saved[s]
BY DEF Record

\* A resource that is created, kept or updated, with what that needs to keep Inv.
LEMMA RegisterKeeps ==
    ASSUME Inv, NEW r \in Resources, Due(r), Finish(r),
           NEW ins, NEW outs, NEW out, NEW wiped, NEW epoch \in 1..vm.epoch,
           Record(r, ins, outs, out, wiped, epoch),
           rancher'.admin \in Passwords \cup {Bootstrap},
           rancher'.plugin \in Versions \cup {"none"},
           rancher'.clusters \subseteq {vm.epoch},
           rancher'.gitrepos \subseteq Repos,
           DOMAIN rancher' = {"admin", "plugin", "clusters", "credentials", "gitrepos"},
           registered' \in 0..vm.epoch,
           r = "password" => out \in Passwords,
           r \in {"vmKubeconfig", "cluster", "token", "kubeconfig"} => out \in 1..vm.epoch,
           r = "password" /\ PasswordLost => epoch = saved[r].epoch,
           r = "password" /\ ~PasswordLost => epoch = vm.epoch,
           PasswordLost => rancher' = rancher
    PROVE  Inv' /\ (PasswordLost => PasswordLost')
<1>1. /\ DOMAIN saved' = DOMAIN saved \cup {r}
      /\ saved'[r].epoch = epoch /\ saved'[r].out = out
      /\ DOMAIN saved'[r] = {"ins", "outs", "out", "wiped", "epoch"}
      /\ \A s \in DOMAIN saved : s # r => saved'[s] = saved[s]
  BY Recorded
<1>2. /\ todo' = todo \ {r}
      /\ UNCHANGED <<config, vm, failed, running, complete, noticed, changes, faults>>
  BY DEF Finish
<1>3. Uses(r) \subseteq DOMAIN saved
  BY DueCreated
<1>4. TypeOK'
  <2>1. \A s \in DOMAIN saved' :
           Uses(s) \subseteq DOMAIN saved' /\ saved'[s].epoch \in 1..vm'.epoch
    BY <1>1, <1>2, <1>3 DEF Inv, TypeOK
  <2>2. DOMAIN saved' \subseteq Resources /\ todo' \subseteq Resources
        /\ failed' \subseteq Resources \ todo'
    BY <1>1, <1>2 DEF Inv, TypeOK
  <2>3. running' \in BOOLEAN /\ complete' \in BOOLEAN /\ noticed' \in BOOLEAN
    BY <1>2 DEF Inv, TypeOK
  <2>4. /\ config' \in [name : Names, password : Passwords, version : Versions,
                        repos : SUBSET Repos]
        /\ vm' \in [epoch : Nat \ {0}, ip : Addresses] /\ vm' = vm
        /\ changes' \in 0..MaxChanges /\ faults' \in 0..MaxFaults
    BY <1>2 DEF Inv, TypeOK
  <2> QED BY <2>1, <2>2, <2>3, <2>4 DEF TypeOK
<1>5. ServerInv'
  BY DEF ServerInv
<1>6. OutsInv'
  <2>1. "password" \in DOMAIN saved' => saved'["password"].out \in Passwords
    BY <1>1 DEF Inv, OutsInv, Out
  <2>2. \A s \in DOMAIN saved' : s \in {"vmKubeconfig", "cluster", "token", "kubeconfig"} =>
           saved'[s].out \in 1..vm'.epoch
    BY <1>1, <1>2 DEF Inv, OutsInv, Out
  <2>3. \A s \in DOMAIN saved' :
           DOMAIN saved'[s] = {"ins", "outs", "out", "wiped", "epoch"}
    BY <1>1 DEF Inv, OutsInv
  <2> QED BY <2>1, <2>2, <2>3 DEF OutsInv, Out
<1>7. RunInv'
  BY <1>1, <1>2 DEF Inv, RunInv
<1>8. PasswordLost' <=> PasswordLost
  BY <1>1, <1>2 DEF PasswordLost
<1>9. BareInv'
  BY <1>8 DEF Inv, BareInv, NewServer
<1> QED BY <1>4, <1>5, <1>6, <1>7, <1>8, <1>9 DEF Inv

\* A server with a lost password is not changed by what needs a login, and by nothing else.
LEMMA BareApply ==
    ASSUME Inv, PasswordLost, NEW r \in Resources \ {"password"}, Apply(r, In(r))
    PROVE  rancher' = rancher
<1>1. r \notin {"app", "repos", "cluster", "kubeconfig", "credential"}
  BY NoLogin DEF Apply
<1>2. r # "password"
  OBVIOUS
<1> QED BY <1>1, <1>2 DEF Apply, Effect

LEMMA ResultTypes ==
    ASSUME Inv, NEW r \in Resources, Due(r)
    PROVE  /\ r = "password" => Result(r, In(r)) \in Passwords
           /\ r \in {"vmKubeconfig", "cluster", "token", "kubeconfig"} =>
                Result(r, In(r)) \in 1..vm.epoch
<1>1. vm.epoch \in Nat \ {0} /\ config.password \in Passwords
  BY DEF Inv, TypeOK
<1>2. ASSUME r = "password" PROVE Result(r, In(r)) \in Passwords
  BY <1>1, <1>2, InRest DEF Result
<1>3. ASSUME r \in {"vmKubeconfig", "cluster"} PROVE Result(r, In(r)) \in 1..vm.epoch
  BY <1>1, <1>3 DEF Result
<1>4. ASSUME r \in {"token", "kubeconfig"} PROVE Result(r, In(r)) \in 1..vm.epoch
  <2>1. In(r).cluster = Out("cluster") /\ "cluster" \in DOMAIN saved
    BY <1>4, DueCreated, InRest
  <2>2. Out("cluster") \in 1..vm.epoch
    BY <2>1 DEF Inv, OutsInv
  <2>3. Result(r, In(r)) = In(r).cluster
    BY <1>4 DEF Result
  <2> QED BY <2>1, <2>2, <2>3
<1> QED BY <1>2, <1>3, <1>4

LEMMA WorldTypes ==
    ASSUME Inv, UNCHANGED world
    PROVE  /\ rancher'.admin \in Passwords \cup {Bootstrap}
           /\ rancher'.plugin \in Versions \cup {"none"}
           /\ rancher'.clusters \subseteq {vm.epoch}
           /\ rancher'.gitrepos \subseteq Repos
           /\ DOMAIN rancher' = {"admin", "plugin", "clusters", "credentials", "gitrepos"}
           /\ registered' \in 0..vm.epoch
           /\ rancher' = rancher
BY DEF Inv, TypeOK, ServerInv, world

LEMMA CreateKeeps ==
    ASSUME Inv, NEW r \in Resources, Create(r)
    PROVE  Inv' /\ (PasswordLost => PasswordLost')
<1>1. /\ Due(r) /\ Apply(r, In(r)) /\ Finish(r) /\ r \notin DOMAIN saved
      /\ Record(r, In(r), In(r), Result(r, In(r)), FALSE, vm.epoch)
  BY DEF Create, Created
<1>2. PasswordLost => r # "password"
  BY <1>1 DEF PasswordLost
<1>3. PasswordLost => rancher' = rancher
  BY <1>1, <1>2, BareApply
<1>4. vm.epoch \in 1..vm.epoch
  BY DEF Inv, TypeOK
<1> QED BY <1>1, <1>2, <1>3, <1>4, ApplyTypes, ResultTypes, RegisterKeeps

\* Outputs and epoch that are kept.
LEMMA KeptTypes ==
    ASSUME Inv, NEW r \in DOMAIN saved
    PROVE  /\ saved[r].epoch \in 1..vm.epoch
           /\ r = "password" => saved[r].out \in Passwords
           /\ r \in {"vmKubeconfig", "cluster", "token", "kubeconfig"} =>
                saved[r].out \in 1..vm.epoch
           /\ r = "password" /\ ~PasswordLost => saved[r].epoch = vm.epoch
BY DEF Inv, TypeOK, OutsInv, Out, PasswordLost

LEMMA SameKeeps ==
    ASSUME Inv, NEW r \in Resources, Same(r)
    PROVE  Inv' /\ (PasswordLost => PasswordLost')
<1>1. /\ Due(r) /\ r \in DOMAIN saved /\ Finish(r) /\ UNCHANGED world
      /\ Record(r, In(r), saved[r].outs, saved[r].out, saved[r].wiped, saved[r].epoch)
  BY DEF Same, Created
<1> QED BY <1>1, KeptTypes, WorldTypes, RegisterKeeps

LEMMA UpdateKeeps ==
    ASSUME Inv, NEW r \in Resources, Update(r)
    PROVE  Inv' /\ (PasswordLost => PasswordLost')
<1>1. Due(r) /\ r \in DOMAIN saved /\ Finish(r) /\ r # "password"
  BY DEF Update, Created, Differs
<1>2. ASSUME NEW wiped, UNCHANGED world,
             Record(r, In(r), saved[r].outs, saved[r].out, wiped, saved[r].epoch)
      PROVE  Inv' /\ (PasswordLost => PasswordLost')
  BY <1>1, <1>2, KeptTypes, WorldTypes, RegisterKeeps
<1>3. ASSUME Apply(r, In(r)),
             Record(r, In(r), UpdatedOuts(r), Result(r, In(r)), FALSE, vm.epoch)
      PROVE  Inv' /\ (PasswordLost => PasswordLost')
  <2>1. PasswordLost => rancher' = rancher
    BY <1>1, <1>3, BareApply
  <2>2. vm.epoch \in 1..vm.epoch
    BY DEF Inv, TypeOK
  <2> QED BY <1>1, <1>3, <2>1, <2>2, ApplyTypes, ResultTypes, RegisterKeeps
<1> QED BY <1>2, <1>3 DEF Update

-----------------------------------------------------------------------------
LEMMA FailKeeps ==
    ASSUME Inv, NEW r \in Resources, Due(r), Fail(r), faults' \in 0..MaxFaults,
           NEW new \in SUBSET Repos,
           \/ rancher' = rancher
           \/ ~PasswordLost /\ rancher' = [rancher EXCEPT !.gitrepos = @ \cup new]
    PROVE  Inv' /\ (PasswordLost => PasswordLost')
<1>1. /\ todo' = todo \ {r} /\ failed' = failed \cup {r}
      /\ UNCHANGED <<config, vm, registered, saved, running, complete, noticed, changes>>
  BY DEF Fail
<1>2. /\ rancher'.admin = rancher.admin /\ rancher'.plugin = rancher.plugin
      /\ rancher'.clusters = rancher.clusters /\ rancher'.gitrepos \subseteq Repos
      /\ DOMAIN rancher' = DOMAIN rancher
  BY DEF Inv, TypeOK, ServerInv
<1>3. TypeOK'
  <2>1. running' \in BOOLEAN /\ complete' \in BOOLEAN /\ noticed' \in BOOLEAN
    BY <1>1 DEF Inv, TypeOK
  <2>2. todo' \subseteq Resources /\ failed' \subseteq Resources \ todo'
    BY <1>1 DEF Inv, TypeOK
  <2> QED BY <1>1, <1>2, <2>1, <2>2 DEF Inv, TypeOK
<1>4. ServerInv' /\ RunInv'
  BY <1>1, <1>2 DEF Inv, ServerInv, RunInv
<1>5. OutsInv' /\ (PasswordLost' <=> PasswordLost)
  BY <1>1 DEF Inv, OutsInv, Out, PasswordLost
<1>6. BareInv'
  BY <1>5 DEF Inv, BareInv, NewServer
<1> QED BY <1>3, <1>4, <1>5, <1>6 DEF Inv

LEMMA RejectKeeps ==
    ASSUME Inv, NEW r \in Resources, Reject(r)
    PROVE  Inv' /\ (PasswordLost => PasswordLost')
<1>1. Due(r) /\ Fail(r) /\ rancher' = rancher /\ faults' = faults
  BY DEF Reject
<1>2. faults' \in 0..MaxFaults
  BY <1>1 DEF Inv, TypeOK
<1> QED BY <1>1, <1>2, FailKeeps

LEMMA RejectReposKeeps ==
    ASSUME Inv, RejectRepos
    PROVE  Inv' /\ (PasswordLost => PasswordLost')
<1>1. Due("repos") /\ Fail("repos") /\ "repos" \in Resources
  BY DEF RejectRepos, Resources
<1>2. CASE UNCHANGED <<rancher, faults>>
  BY <1>1, <1>2, FailKeeps DEF Inv, TypeOK
<1>3. CASE /\ In("repos").rancher = rancher.admin
           /\ faults' = IF Works("repos", In("repos")) THEN faults + 1 ELSE faults
           /\ faults' <= MaxFaults
           /\ \E new \in SUBSET In("repos").repos :
                 rancher' = [rancher EXCEPT !.gitrepos = @ \cup new]
  <2>1. PICK new \in SUBSET In("repos").repos :
           rancher' = [rancher EXCEPT !.gitrepos = @ \cup new]
    BY <1>3
  <2>2. In("repos").repos \subseteq Repos
    BY InRest DEF Inv, TypeOK
  <2>3. ~PasswordLost
    <3>1. In("repos").rancher = Out("password")
      BY InPassword
    <3>2. PasswordLost => Out("password") \in Passwords /\ rancher.admin = Bootstrap
      BY DEF Inv, OutsInv, BareInv, PasswordLost, NewServer
    <3> QED BY <1>3, <3>1, <3>2, LifecycleAssumption
  <2>4. faults' \in 0..MaxFaults
    BY <1>3, LifecycleAssumption DEF Inv, TypeOK
  <2> QED BY <1>1, <2>1, <2>2, <2>3, <2>4, FailKeeps
<1> QED BY <1>2, <1>3 DEF RejectRepos

\* The steps that leave the server and the stack alone.
LEMMA RunStepKeeps ==
    ASSUME Inv, StartUp \/ EndUp
    PROVE  Inv' /\ (PasswordLost => PasswordLost')
<1>1. UNCHANGED <<config, vm, rancher, registered, saved, noticed, changes, faults>>
  BY DEF StartUp, EndUp, world
<1>2. /\ todo' \subseteq Resources /\ failed' = {}
      /\ running' => todo' = Resources
      /\ running' \in BOOLEAN /\ complete' \in BOOLEAN
  BY DEF StartUp, EndUp, Inv, TypeOK
<1>3. TypeOK'
  BY <1>1, <1>2 DEF Inv, TypeOK
<1>4. ServerInv' /\ RunInv' /\ OutsInv' /\ (PasswordLost' <=> PasswordLost)
  BY <1>1, <1>2 DEF Inv, ServerInv, RunInv, OutsInv, Out, PasswordLost
<1>5. BareInv'
  BY <1>1, <1>4 DEF Inv, BareInv, NewServer
<1> QED BY <1>3, <1>4, <1>5 DEF Inv

LEMMA ChangeTypes ==
    ASSUME Inv, Change
    PROVE  /\ changes' \in 0..MaxChanges /\ faults' \in 0..MaxFaults
           /\ todo' \subseteq Resources /\ failed' \subseteq Resources \ todo'
           /\ ~running' /\ running' \in BOOLEAN /\ complete' \in BOOLEAN
<1>1. changes \in 0..MaxChanges /\ changes < MaxChanges /\ changes' = changes + 1
  BY DEF Change, Inv, TypeOK
<1>2. changes' \in 0..MaxChanges
  BY <1>1, LifecycleAssumption
<1>3. /\ faults' \in 0..MaxFaults /\ todo' \subseteq Resources
      /\ failed' \subseteq Resources \ todo'
  BY DEF Change, Inv, TypeOK
<1>4. ~running' /\ running' \in BOOLEAN /\ complete' \in BOOLEAN
  BY DEF Change, Inv, TypeOK
<1> QED BY <1>2, <1>3, <1>4

LEMMA ConfigureKeeps ==
    ASSUME Inv, Configure
    PROVE  Inv' /\ (PasswordLost => PasswordLost')
<1>1. Change /\ UNCHANGED <<vm, rancher, registered, saved, noticed>>
  BY DEF Configure, world
<1>2. config' \in [name : Names, password : Passwords, version : Versions, repos : SUBSET Repos]
  BY DEF Configure, Inv, TypeOK
<1>3. TypeOK'
  BY <1>1, <1>2, ChangeTypes DEF Inv, TypeOK
<1>4. ServerInv' /\ RunInv' /\ OutsInv' /\ (PasswordLost' <=> PasswordLost)
  BY <1>1, ChangeTypes DEF Inv, ServerInv, RunInv, OutsInv, Out, PasswordLost
<1>5. BareInv'
  BY <1>1, <1>4 DEF Inv, BareInv, NewServer
<1> QED BY <1>3, <1>4, <1>5 DEF Inv

LEMMA TakeOverKeeps ==
    ASSUME Inv, TakeOver
    PROVE  Inv' /\ (PasswordLost => PasswordLost')
<1>1. Change /\ UNCHANGED <<config, vm, rancher, saved>> /\ registered' = 0 /\ noticed' = FALSE
  BY DEF TakeOver
<1>2. TypeOK'
  <2>1. 0 \in 0..vm.epoch
    BY DEF Inv, TypeOK
  <2>2. noticed' \in BOOLEAN
    BY <1>1
  <2> QED BY <1>1, <2>1, <2>2, ChangeTypes DEF Inv, TypeOK
<1>3. ServerInv' /\ RunInv' /\ OutsInv' /\ (PasswordLost' <=> PasswordLost)
  BY <1>1, ChangeTypes DEF Inv, ServerInv, RunInv, OutsInv, Out, PasswordLost
<1>4. BareInv'
  BY <1>1, <1>3 DEF Inv, BareInv, NewServer
<1> QED BY <1>2, <1>3, <1>4 DEF Inv

\* A server as it comes up, for whatever stack.
LEMMA NewServerTypes ==
    ASSUME Inv, Change, NEW a \in Addresses, vm' = [epoch |-> vm.epoch + 1, ip |-> a],
           rancher' = NewServer, registered' = registered, config' = config,
           noticed' \in BOOLEAN, saved' = saved \/ DOMAIN saved' = {}
    PROVE  Inv' /\ vm'.epoch = vm.epoch + 1 /\ vm.epoch \in Nat
<1>1. vm' \in [epoch : Nat \ {0}, ip : Addresses] /\ vm'.epoch = vm.epoch + 1 /\ vm.epoch \in Nat
  BY DEF Inv, TypeOK
<1>2. /\ rancher'.admin = Bootstrap /\ rancher'.plugin = "none"
      /\ rancher'.clusters = {} /\ rancher'.gitrepos = {} /\ ServerInv'
  BY DEF NewServer, ServerInv
<1>3. DOMAIN saved' \subseteq Resources
      /\ \A r \in DOMAIN saved' :
            Uses(r) \subseteq DOMAIN saved' /\ saved'[r].epoch \in 1..vm'.epoch
  BY <1>1 DEF Inv, TypeOK
<1>e. 1..vm.epoch \subseteq 1..vm'.epoch /\ registered' \in 0..vm'.epoch
  BY <1>1 DEF Inv, TypeOK
<1>4. TypeOK'
  <2>1. config' \in [name : Names, password : Passwords, version : Versions,
                     repos : SUBSET Repos]
    BY DEF Inv, TypeOK
  <2> QED BY <1>1, <1>2, <1>3, <1>e, <2>1, ChangeTypes DEF TypeOK
<1>5. OutsInv'
  <2>1. CASE DOMAIN saved' = {}
    BY <2>1 DEF OutsInv
  <2>2. CASE saved' = saved
    BY <1>e, <2>2 DEF Inv, OutsInv, Out
  <2> QED BY <2>1, <2>2
<1>r. RunInv'
  BY ChangeTypes DEF RunInv
<1>6. BareInv'
  BY DEF BareInv, NewServer
<1> QED BY <1>1, <1>2, <1>4, <1>5, <1>r, <1>6 DEF Inv

LEMMA RebuildKeeps ==
    ASSUME Inv, Rebuild
    PROVE  Inv' /\ (PasswordLost => PasswordLost')
<1>1. Change /\ rancher' = NewServer /\ UNCHANGED <<config, registered, saved, noticed>>
  BY DEF Rebuild
<1>2. PICK a \in Addresses : vm' = [epoch |-> vm.epoch + 1, ip |-> a]
  BY DEF Rebuild
<1>3. Inv' /\ vm'.epoch = vm.epoch + 1 /\ vm.epoch \in Nat
  BY <1>1, <1>2, NewServerTypes DEF Inv, TypeOK
<1>4. PasswordLost => PasswordLost'
  BY <1>1, <1>3 DEF Inv, TypeOK, PasswordLost
<1> QED BY <1>3, <1>4

LEMMA DestroyKeeps == ASSUME Inv, Destroy PROVE Inv' /\ DOMAIN saved' = {}
<1>1. /\ Change /\ rancher' = NewServer /\ DOMAIN saved' = {} /\ noticed' \in BOOLEAN
      /\ UNCHANGED <<config, registered>>
  BY DEF Destroy
<1>2. PICK a \in Addresses : vm' = [epoch |-> vm.epoch + 1, ip |-> a]
  BY DEF Destroy
<1> QED BY <1>1, <1>2, NewServerTypes

LEMMA RefreshKeeps ==
    ASSUME Inv, Refresh
    PROVE  Inv' /\ (PasswordLost => PasswordLost')
<1>1. /\ UNCHANGED <<config, vm, rancher, registered, todo, failed, running, changes, faults>>
      /\ noticed' = TRUE /\ complete' = FALSE
      /\ saved' = [r \in DOMAIN saved |-> Refreshed(r)]
  BY DEF Refresh, world
<1>2. /\ DOMAIN saved' = DOMAIN saved
      /\ \A r \in DOMAIN saved : r \notin {"address", "setting"} => saved'[r] = saved[r]
  BY <1>1 DEF Refreshed
<1>3. \A r \in DOMAIN saved : saved'[r].epoch \in {saved[r].epoch, vm.epoch}
  <2> SUFFICES ASSUME NEW r \in DOMAIN saved
               PROVE  saved'[r].epoch \in {saved[r].epoch, vm.epoch}
    OBVIOUS
  <2>1. CASE r = "address"
    <3>1. "epoch" \in DOMAIN saved[r] /\ "out" \in DOMAIN saved[r]
      BY DEF Inv, OutsInv
    <3>2. saved'[r] = [saved[r] EXCEPT !.out = vm.ip, !.epoch = vm.epoch]
      BY <1>1, <2>1 DEF Refreshed
    <3> QED BY <3>1, <3>2
  <2>2. CASE r = "setting"
    <3>1. PICK v : saved'[r] = [saved[r] EXCEPT !.outs = v]
      BY <1>1, <2>2 DEF Refreshed
    <3> QED BY <3>1 DEF Inv, OutsInv
  <2>3. CASE r \notin {"address", "setting"}
    BY <1>2, <2>3
  <2> QED BY <2>1, <2>2, <2>3
<1>d. \A r \in DOMAIN saved : DOMAIN saved'[r] = DOMAIN saved[r]
  <2> SUFFICES ASSUME NEW r \in DOMAIN saved
               PROVE  DOMAIN saved'[r] = DOMAIN saved[r]
    OBVIOUS
  <2>1. CASE r = "address"
    BY <1>1, <2>1 DEF Refreshed
  <2>2. CASE r = "setting"
    BY <1>1, <2>2 DEF Refreshed
  <2> QED BY <1>2, <2>1, <2>2
<1>4. TypeOK'
  <2>1. vm.epoch \in 1..vm.epoch
    BY DEF Inv, TypeOK
  <2>2. \A r \in DOMAIN saved' :
           Uses(r) \subseteq DOMAIN saved' /\ saved'[r].epoch \in 1..vm'.epoch
    BY <1>1, <1>2, <1>3, <2>1 DEF Inv, TypeOK
  <2>3. running' \in BOOLEAN /\ complete' \in BOOLEAN /\ noticed' \in BOOLEAN
    BY <1>1 DEF Inv, TypeOK
  <2> QED BY <1>1, <1>2, <2>2, <2>3 DEF Inv, TypeOK
<1>5. ServerInv' /\ RunInv' /\ OutsInv' /\ (PasswordLost' <=> PasswordLost)
  BY <1>1, <1>2, <1>d DEF Inv, ServerInv, RunInv, OutsInv, Out, PasswordLost
<1>6. BareInv'
  BY <1>1, <1>5 DEF Inv, BareInv, NewServer
<1> QED BY <1>4, <1>5, <1>6 DEF Inv

LEMMA StutterKeeps ==
    ASSUME Inv, UNCHANGED vars
    PROVE  Inv' /\ (PasswordLost => PasswordLost')
<1> USE DEF vars, world, runVars
<1>1. TypeOK'
  BY DEF Inv, TypeOK
<1>2. ServerInv' /\ RunInv' /\ OutsInv' /\ (PasswordLost' <=> PasswordLost)
  BY DEF Inv, ServerInv, RunInv, OutsInv, Out, PasswordLost
<1>3. BareInv'
  BY <1>2 DEF Inv, BareInv, NewServer
<1> QED BY <1>1, <1>2, <1>3 DEF Inv

LEMMA InvStep ==
    ASSUME Inv, [Next]_vars
    PROVE  /\ Inv'
           /\ PasswordLost => PasswordLost' \/ DOMAIN saved' = {}
<1>1. CASE Up
  BY <1>1, CreateKeeps, SameKeeps, UpdateKeeps, RejectKeeps, RejectReposKeeps, RunStepKeeps
  DEF Up
<1>2. CASE Configure \/ Rebuild \/ TakeOver \/ Refresh
  BY <1>2, ConfigureKeeps, RebuildKeeps, TakeOverKeeps, RefreshKeeps
<1>3. CASE Destroy
  BY <1>3, DestroyKeeps
<1>4. CASE UNCHANGED vars
  BY <1>4, StutterKeeps
<1> QED BY <1>1, <1>2, <1>3, <1>4 DEF Next

LEMMA Invariance == Spec => []Inv
<1>1. Inv /\ [Next]_vars => Inv'
  BY InvStep
<1> QED BY <1>1, InitInv, PTL DEF Spec

-----------------------------------------------------------------------------
\* The stack, the servers and the run keep their types: a resource is recorded only with
\* all that it uses, and nothing names a cluster that no server ever had.
THEOREM TypeCorrect == Spec => []TypeOK
<1>1. Inv => TypeOK
  BY DEF Inv
<1> QED BY <1>1, Invariance, PTL

\* A server that was rebuilt behind a recorded password is never taken up again by any
\* number of runs, updates and refreshes, and whatever the configuration is changed to.
THEOREM Rebuilt == Spec => RebuiltIsLost
<1> DEFINE Lose == /\ PasswordLost => PasswordLost' \/ DOMAIN saved' = {}
                   /\ PasswordLost' => rancher' = NewServer
<1>1. Inv /\ [Next]_vars => [Lose]_vars
  <2> SUFFICES ASSUME Inv, [Next]_vars PROVE Lose
    OBVIOUS
  <2>1. Inv' /\ (PasswordLost => PasswordLost' \/ DOMAIN saved' = {})
    BY InvStep
  <2>2. NewServer' = NewServer
    BY DEF NewServer
  <2> QED BY <2>1, <2>2 DEF Inv, BareInv
<1>2. Spec => [][Lose]_vars
  <2> HIDE DEF Lose
  <2> QED BY <1>1, Invariance, PTL DEF Spec
<1> QED BY <1>2 DEF RebuiltIsLost

-----------------------------------------------------------------------------
(***************************************************************************)
(* What the stack says of the servers, resource by resource: it is the     *)
(* inductive half of ImportIsWhole, Converges and FailsForAReason.         *)
(***************************************************************************)

\* A resource of the server that is there now.
Here(r) == Created(r) /\ saved[r].epoch = vm.epoch

\* The password on record is the server's, and nothing that needs it is older.
PasswordInv ==
    /\ ~Created("password") => rancher.admin = Bootstrap
    /\ Here("password") => Out("password") = rancher.admin
    /\ \A r \in DOMAIN saved \ {"address", "vmKubeconfig"} :
          saved["password"].epoch <= saved[r].epoch

AddressInv ==
    /\ Created("address") => saved["address"].ins = In("address")
    /\ Here("address") => Out("address") = vm.ip

\* The cluster on record is what the token and the kubeconfig are of, and the server's.
ClusterInv ==
    /\ \A r \in {"vmKubeconfig", "cluster"} : Created(r) => Out(r) = saved[r].epoch
    /\ \A r \in {"token", "kubeconfig"} : Created(r) => Out(r) = Out("cluster")
    /\ Here("cluster") => vm.epoch \in rancher.clusters

\* Harvester is registered as its setting says, but for a take-over that is not noticed.
SettingInv ==
    Created("setting") =>
        /\ DOMAIN saved["setting"].outs = {"value"}
        /\ noticed => saved["setting"].outs.value = registered

CredentialInv ==
    Here("credential") => \E c \in rancher.credentials : c.of = saved["credential"].outs

Served == PasswordInv /\ AddressInv /\ ClusterInv /\ SettingInv /\ CredentialInv

\* The program gives a resource what it gave it before if that has its outputs still.
LEMMA InStable ==
    ASSUME NEW r \in Resources, config' = config,
           \A s \in Uses(r) : Out(s)' = Out(s)
    PROVE  In(r)' = In(r)
<1>1. CASE r \in {"address", "vmKubeconfig", "password"}
  BY <1>1 DEF In, Uses
<1>2. CASE r \in {"app", "repos", "cluster"}
  BY <1>2 DEF In, Uses
<1>3. CASE r \in {"token", "setting", "wait"}
  BY <1>3 DEF In, Uses
<1>4. CASE r \in {"kubeconfig", "credential"}
  BY <1>4 DEF In, Uses
<1> QED BY <1>1, <1>2, <1>3, <1>4 DEF Resources

\* All but the address and the kubeconfig of the VM is created after the password.
LEMMA PasswordFirst ==
    ASSUME Inv, NEW r \in Resources \ {"address", "vmKubeconfig", "password"},
           Uses(r) \subseteq DOMAIN saved
    PROVE  "password" \in DOMAIN saved
<1>1. \A s \in DOMAIN saved : Uses(s) \subseteq DOMAIN saved
  BY DEF Inv, TypeOK
<1>2. CASE r \in {"app", "repos", "cluster", "kubeconfig", "credential"}
  BY <1>2, InPassword
<1>3. CASE r \in {"token", "wait", "setting"}
  <2>1. "app" \in DOMAIN saved \/ "cluster" \in DOMAIN saved
    BY <1>3 DEF Uses
  <2> QED BY <2>1, <1>1, InPassword
<1> QED BY <1>2, <1>3 DEF Resources

\* What create() leaves alone on the servers.
LEMMA EffectKeeps ==
    ASSUME Inv, NEW r \in Resources, Apply(r, In(r))
    PROVE  /\ r # "password" => rancher'.admin = rancher.admin
           /\ r # "app" => rancher'.plugin = rancher.plugin
           /\ r # "repos" => rancher'.gitrepos = rancher.gitrepos
           /\ rancher.gitrepos \subseteq rancher'.gitrepos
           /\ r # "cluster" => rancher'.clusters = rancher.clusters
           /\ r # "credential" => rancher'.credentials = rancher.credentials
           /\ r # "setting" => registered' = registered
<1>1. rancher' = Effect(r, In(r))
  BY DEF Apply
<1>2. r # "setting" => registered' = registered
  BY DEF Apply
<1>s. DOMAIN rancher = {"admin", "plugin", "clusters", "credentials", "gitrepos"}
  BY DEF Inv, ServerInv
<1>3. CASE r = "password"
  BY <1>1, <1>2, <1>3, <1>s DEF Effect
<1>4. CASE r = "app"
  BY <1>1, <1>2, <1>4, <1>s DEF Effect
<1>5. CASE r = "repos"
  BY <1>1, <1>2, <1>5, <1>s DEF Effect
<1>6. CASE r = "cluster"
  BY <1>1, <1>2, <1>6, <1>s DEF Effect
<1>7. CASE r = "credential"
  BY <1>1, <1>2, <1>7, <1>s DEF Effect
<1>8. CASE r \notin {"password", "app", "repos", "cluster", "credential"}
  BY <1>1, <1>2, <1>8 DEF Effect
<1> QED BY <1>3, <1>4, <1>5, <1>6, <1>7, <1>8

\* A resource that is kept, with new inputs on record.
LEMMA KeptServes ==
    ASSUME Inv, Served, NEW r \in DOMAIN saved, NEW wiped,
           Record(r, In(r), saved[r].outs, saved[r].out, wiped, saved[r].epoch),
           UNCHANGED <<config, vm, rancher, registered, noticed>>
    PROVE  Served'
<1>1. /\ DOMAIN saved' = DOMAIN saved
      /\ \A s \in DOMAIN saved : /\ saved'[s].out = saved[s].out
                                 /\ saved'[s].outs = saved[s].outs
                                 /\ saved'[s].epoch = saved[s].epoch
                                 /\ saved'[s].ins = IF s = r THEN In(r) ELSE saved[s].ins
  BY DEF Record
<1>2. PasswordInv'
  <2>1. \A s \in DOMAIN saved \ {"address", "vmKubeconfig"} : "password" \in DOMAIN saved
    BY PasswordFirst DEF Inv, TypeOK
  <2> QED BY <1>1, <2>1 DEF Served, PasswordInv, Created, Here, Out
<1>3. AddressInv'
  <2>1. In("address")' = In("address")
    BY DEF In
  <2> QED BY <1>1, <2>1 DEF Served, AddressInv, Created, Here, Out
<1>4. ClusterInv'
  <2>1. \A s \in {"token", "kubeconfig"} : s \in DOMAIN saved => "cluster" \in DOMAIN saved
    BY InRest DEF Inv, TypeOK
  <2> QED BY <1>1, <2>1 DEF Served, ClusterInv, Created, Here, Out
<1>5. SettingInv' /\ CredentialInv'
  BY <1>1 DEF Served, SettingInv, CredentialInv, Created, Here
<1> QED BY <1>2, <1>3, <1>4, <1>5 DEF Served

\* A resource that is created, or created again by its update().
LEMMA AppliedServes ==
    ASSUME Inv, Served, NEW r \in Resources, Due(r), Apply(r, In(r)), Finish(r),
           r \notin DOMAIN saved \/ r \in CreatesAgain,
           Record(r, In(r), In(r), Result(r, In(r)), FALSE, vm.epoch)
    PROVE  Served'
<1>1. /\ DOMAIN saved' = DOMAIN saved \cup {r}
      /\ saved'[r].ins = In(r) /\ saved'[r].outs = In(r)
      /\ saved'[r].out = Result(r, In(r)) /\ saved'[r].epoch = vm.epoch
      /\ \A s \in DOMAIN saved : s # r => saved'[s] = saved[s]
  BY DEF Record
<1>2. UNCHANGED <<config, vm, noticed>>
  BY DEF Finish
<1>3. \A s \in DOMAIN saved : Uses(s) \subseteq DOMAIN saved /\ s \in Resources
  BY DEF Inv, TypeOK
<1>4. Uses(r) \subseteq DOMAIN saved
  BY DueCreated
<1>5. \A s \in DOMAIN saved : saved[s].epoch \in Nat /\ saved[s].epoch <= vm.epoch
  BY DEF Inv, TypeOK
<1>6. \A s \in DOMAIN saved \ {"address", "vmKubeconfig"} : "password" \in DOMAIN saved
  BY <1>3, PasswordFirst
<1>7. PasswordInv'
  <2>1. CASE r = "password"
    <3>1. r \notin DOMAIN saved
      BY <2>1 DEF CreatesAgain
    <3>2. \A s \in DOMAIN saved' \ {"address", "vmKubeconfig"} : s = "password"
      BY <1>1, <1>6, <2>1, <3>1
    <3>3. vm.epoch \in Nat
      BY DEF Inv, TypeOK
    <3>4. \A s \in DOMAIN saved' \ {"address", "vmKubeconfig"} :
             saved'["password"].epoch <= saved'[s].epoch
      BY <1>1, <2>1, <3>2, <3>3
    <3>5. rancher'.admin = config.password
      BY <2>1, InRest DEF Apply, Effect, Inv, ServerInv
    <3>6. saved'["password"].out = config.password
      BY <1>1, <2>1, InRest DEF Result
    <3> QED BY <1>1, <2>1, <3>4, <3>5, <3>6 DEF PasswordInv, Created, Here, Out
  <2>2. CASE r # "password"
    <3>1. rancher'.admin = rancher.admin
      BY <2>2, EffectKeeps
    <3>2. r \notin {"address", "vmKubeconfig"} => "password" \in DOMAIN saved
      BY <1>4, <2>2, PasswordFirst
    <3>3. \A s \in DOMAIN saved' \ {"address", "vmKubeconfig"} :
             saved'["password"].epoch <= saved'[s].epoch
      BY <1>1, <1>5, <1>6, <2>2, <3>2 DEF Served, PasswordInv
    <3> QED BY <1>1, <1>2, <2>2, <3>1, <3>3 DEF Served, PasswordInv, Created, Here, Out
  <2> QED BY <2>1, <2>2
<1>8. AddressInv'
  <2>1. In("address")' = In("address")
    BY DEF In
  <2>2. CASE r = "address"
    <3>1. saved'["address"].out = vm.ip
      BY <1>1, <2>2 DEF Result
    <3> QED BY <1>1, <1>2, <2>1, <2>2, <3>1 DEF AddressInv, Created, Here, Out
  <2>3. CASE r # "address"
    BY <1>1, <1>2, <2>1, <2>3 DEF Served, AddressInv, Created, Here, Out
  <2> QED BY <2>2, <2>3
<1>9. ClusterInv'
  <2>1. CASE r = "cluster"
    <3>1. r \notin DOMAIN saved
      BY <2>1 DEF CreatesAgain
    <3>2. "token" \notin DOMAIN saved /\ "kubeconfig" \notin DOMAIN saved
      BY <1>3, <2>1, <3>1, InRest
    <3>3. saved'["cluster"].out = vm.epoch
      BY <1>1, <2>1 DEF Result
    <3>4. vm.epoch \in rancher'.clusters
      BY <2>1 DEF Apply, Effect, Inv, ServerInv
    <3> QED
      BY <1>1, <1>2, <2>1, <3>2, <3>3, <3>4 DEF Served, ClusterInv, Created, Here, Out
  <2>2. CASE r = "vmKubeconfig"
    <3>1. saved'["vmKubeconfig"].out = vm.epoch
      BY <1>1, <2>2 DEF Result
    <3>2. rancher'.clusters = rancher.clusters
      BY <2>2, EffectKeeps
    <3>3. \A s \in {"token", "kubeconfig"} : s \in DOMAIN saved => "cluster" \in DOMAIN saved
      BY <1>3, InRest
    <3> QED
      BY <1>1, <1>2, <2>2, <3>1, <3>2, <3>3 DEF Served, ClusterInv, Created, Here, Out
  <2>3. CASE r \in {"token", "kubeconfig"}
    <3>1. saved'[r].out = Out("cluster") /\ "cluster" \in DOMAIN saved
      BY <1>1, <1>4, <2>3, InRest DEF Result
    <3>2. rancher'.clusters = rancher.clusters
      BY <2>3, EffectKeeps
    <3>3. \A s \in {"token", "kubeconfig"} : s \in DOMAIN saved => "cluster" \in DOMAIN saved
      BY <1>3, InRest
    <3> QED
      BY <1>1, <1>2, <2>3, <3>1, <3>2, <3>3 DEF Served, ClusterInv, Created, Here, Out
  <2>4. CASE r \notin {"cluster", "vmKubeconfig", "token", "kubeconfig"}
    <3>1. rancher'.clusters = rancher.clusters
      BY <2>4, EffectKeeps
    <3>2. \A s \in {"token", "kubeconfig"} : s \in DOMAIN saved => "cluster" \in DOMAIN saved
      BY <1>3, InRest
    <3> QED BY <1>1, <1>2, <2>4, <3>1, <3>2 DEF Served, ClusterInv, Created, Here, Out
  <2> QED BY <2>1, <2>2, <2>3, <2>4
<1>10. SettingInv'
  <2>1. CASE r = "setting"
    <3>1. In("setting") = [value |-> Out("token")]
      BY DEF In
    <3>2. registered' = Out("token")
      BY <2>1, <3>1 DEF Apply
    <3> QED BY <1>1, <2>1, <3>1, <3>2 DEF SettingInv, Created
  <2>2. CASE r # "setting"
    BY <1>1, <1>2, <2>2, EffectKeeps DEF Served, SettingInv, Created
  <2> QED BY <2>1, <2>2
<1>11. CredentialInv'
  <2>1. CASE r = "credential"
    <3>1. rancher'.credentials = rancher.credentials \cup
             {[id |-> Cardinality(rancher.credentials) + 1, of |-> In(r)]}
      BY <2>1 DEF Apply, Effect, Inv, ServerInv
    <3>2. [id |-> Cardinality(rancher.credentials) + 1, of |-> In(r)].of = In(r)
      OBVIOUS
    <3>3. \E c \in rancher'.credentials : c.of = In(r)
      BY <3>1, <3>2
    <3> QED BY <1>1, <2>1, <3>3 DEF CredentialInv
  <2>2. CASE r # "credential"
    BY <1>1, <1>2, <2>2, EffectKeeps DEF Served, CredentialInv, Created, Here
  <2> QED BY <2>1, <2>2
<1> QED BY <1>7, <1>8, <1>9, <1>10, <1>11 DEF Served

\* A step that leaves the stack and, but for GitRepos, the servers alone.
LEMMA QuietServes ==
    ASSUME Inv, Served, UNCHANGED <<vm, registered, saved, noticed>>,
           rancher'.admin = rancher.admin, rancher'.clusters = rancher.clusters,
           rancher'.credentials = rancher.credentials
    PROVE  Served'
<1>1. In("address")' = In("address")
  BY DEF In
<1>2. PasswordInv' /\ AddressInv' /\ ClusterInv'
  BY <1>1 DEF Served, PasswordInv, AddressInv, ClusterInv, Created, Here, Out
<1>3. SettingInv' /\ CredentialInv'
  BY DEF Served, SettingInv, CredentialInv, Created, Here
<1> QED BY <1>2, <1>3 DEF Served

\* A server that is new to all that is on record.
LEMMA RebuildServes ==
    ASSUME Inv, Served, Rebuild
    PROVE  Served'
<1>1. /\ rancher' = NewServer /\ vm'.epoch = vm.epoch + 1
      /\ UNCHANGED <<config, registered, saved, noticed>>
  BY DEF Rebuild
<1>2. \A r \in DOMAIN saved : saved[r].epoch # vm'.epoch
  BY <1>1 DEF Inv, TypeOK
<1>3. \A r : ~Here(r)'
  BY <1>1, <1>2 DEF Here, Created
<1>4. In("address")' = In("address")
  BY DEF In
<1>5. PasswordInv' /\ AddressInv' /\ ClusterInv'
  BY <1>1, <1>3, <1>4
  DEF Served, PasswordInv, AddressInv, ClusterInv, Created, Out, NewServer
<1>6. SettingInv' /\ CredentialInv'
  BY <1>1, <1>3 DEF Served, SettingInv, CredentialInv, Created
<1> QED BY <1>5, <1>6 DEF Served

\* Nothing is on record.
LEMMA BlankServes ==
    ASSUME DOMAIN saved = {}, rancher.admin = Bootstrap
    PROVE  Served
BY DEF Served, PasswordInv, AddressInv, ClusterInv, SettingInv, CredentialInv, Created, Here

LEMMA TakeOverServes ==
    ASSUME Inv, Served, TakeOver
    PROVE  Served'
<1>1. UNCHANGED <<config, vm, rancher, saved>> /\ noticed' = FALSE
  BY DEF TakeOver
<1>2. In("address")' = In("address")
  BY DEF In
<1>3. PasswordInv' /\ AddressInv' /\ ClusterInv'
  BY <1>1, <1>2 DEF Served, PasswordInv, AddressInv, ClusterInv, Created, Here, Out
<1>4. SettingInv' /\ CredentialInv'
  BY <1>1 DEF Served, SettingInv, CredentialInv, Created, Here
<1> QED BY <1>3, <1>4 DEF Served

\* A refresh finds the address and the registration as they are.
LEMMA RefreshServes ==
    ASSUME Inv, Served, Refresh
    PROVE  Served'
<1>1. /\ UNCHANGED <<config, vm, rancher, registered>>
      /\ saved' = [r \in DOMAIN saved |-> Refreshed(r)]
  BY DEF Refresh, world
<1>2. /\ DOMAIN saved' = DOMAIN saved
      /\ \A r \in DOMAIN saved : r \notin {"address", "setting"} => saved'[r] = saved[r]
  BY <1>1 DEF Refreshed
<1>3. \A r \in DOMAIN saved : DOMAIN saved[r] = {"ins", "outs", "out", "wiped", "epoch"}
  BY DEF Inv, OutsInv
<1>4. "address" \in DOMAIN saved =>
        /\ saved'["address"].ins = saved["address"].ins
        /\ saved'["address"].out = vm.ip
  <2> SUFFICES ASSUME "address" \in DOMAIN saved
               PROVE  /\ saved'["address"].ins = saved["address"].ins
                      /\ saved'["address"].out = vm.ip
    OBVIOUS
  <2>1. saved'["address"] = [saved["address"] EXCEPT !.out = vm.ip, !.epoch = vm.epoch]
    BY <1>1 DEF Refreshed
  <2>2. DOMAIN saved["address"] = {"ins", "outs", "out", "wiped", "epoch"}
    BY <1>3
  <2> QED BY <2>1, <2>2
<1>5. "setting" \in DOMAIN saved =>
        /\ saved'["setting"].epoch = saved["setting"].epoch
        /\ DOMAIN saved'["setting"].outs = {"value"}
        /\ saved'["setting"].outs.value = registered
  <2> SUFFICES ASSUME "setting" \in DOMAIN saved
               PROVE  /\ saved'["setting"].epoch = saved["setting"].epoch
                      /\ DOMAIN saved'["setting"].outs = {"value"}
                      /\ saved'["setting"].outs.value = registered
    OBVIOUS
  <2>1. saved'["setting"] = [saved["setting"] EXCEPT !.outs.value = registered]
    BY <1>1 DEF Refreshed
  <2>2. DOMAIN saved["setting"] = {"ins", "outs", "out", "wiped", "epoch"}
    BY <1>3
  <2>3. DOMAIN saved["setting"].outs = {"value"}
    BY DEF Served, SettingInv, Created
  <2> QED BY <2>1, <2>2, <2>3
<1>6. PasswordInv'
  <2>1. \A s \in DOMAIN saved \ {"address", "vmKubeconfig"} : "password" \in DOMAIN saved
    BY PasswordFirst DEF Inv, TypeOK
  <2>2. \A s \in DOMAIN saved \ {"address"} : saved'[s].epoch = saved[s].epoch
    BY <1>2, <1>5
  <2> QED BY <1>1, <1>2, <2>1, <2>2 DEF Served, PasswordInv, Created, Here, Out
<1>7. AddressInv'
  <2>1. In("address")' = In("address")
    BY DEF In
  <2> QED BY <1>1, <1>2, <1>4, <2>1 DEF Served, AddressInv, Created, Here, Out
<1>8. ClusterInv'
  <2>1. \A s \in {"token", "kubeconfig"} : s \in DOMAIN saved => "cluster" \in DOMAIN saved
    BY InRest DEF Inv, TypeOK
  <2> QED BY <1>1, <1>2, <2>1 DEF Served, ClusterInv, Created, Here, Out
<1>9. SettingInv' /\ CredentialInv'
  BY <1>1, <1>2, <1>5 DEF Served, SettingInv, CredentialInv, Created, Here
<1> QED BY <1>6, <1>7, <1>8, <1>9 DEF Served

-----------------------------------------------------------------------------
(***************************************************************************)
(* What a run knows of the resources it has come to.                       *)
(***************************************************************************)
RestInv == ~running => todo = {} /\ failed = {}

\* A run comes to a resource when it has done, and not failed at, all that it uses.
OrderInv ==
    /\ "address" \notin failed
    /\ running => \A r \in Resources \ todo : Uses(r) \cap (todo \cup failed) = {}

\* There is nothing for update() to create again.
Clean(r) == Created(r) /\ (r \in CreatesAgain => ~Differs(r, In(r)))

CleanInv ==
    /\ running => \A r \in Resources \ (todo \cup failed) : Clean(r)
    /\ complete => \A r \in Resources : Clean(r)

FullInv == Inv /\ Served /\ RestInv /\ OrderInv /\ CleanInv /\ FailsForAReason

LEMMA UsesOthers == \A r \in Resources : r \notin Uses(r) /\ Uses(r) \subseteq Resources
BY DEF Resources, Uses

LEMMA OrderKeeps ==
    ASSUME OrderInv, NEW r \in Resources, Due(r), running' = running, todo' = todo \ {r},
           failed' = failed \/ (r # "address" /\ failed' = failed \cup {r})
    PROVE  OrderInv'
<1>1. /\ running /\ r \in todo /\ Uses(r) \cap (todo \cup failed) = {}
      /\ \A s \in Resources \ todo : Uses(s) \cap (todo \cup failed) = {}
  BY DEF Due, OrderInv
<1>2. todo' \cup failed' \subseteq todo \cup failed
  BY <1>1
<1>3. \A s \in Resources \ todo' : s = r \/ s \in Resources \ todo
  OBVIOUS
<1>4. \A s \in Resources \ todo' : Uses(s) \cap (todo' \cup failed') = {}
  BY <1>1, <1>2, <1>3
<1> QED BY <1>4 DEF OrderInv

\* A run comes to the VM's address and kubeconfig before it comes to anything that can fail.
LEMMA MachineFirst ==
    ASSUME OrderInv, running, NEW r \in Resources \ todo
    PROVE  /\ r # "address" => "address" \notin todo
           /\ r \notin {"address", "vmKubeconfig"} => "vmKubeconfig" \notin todo
<1>1. \A s \in Resources \ todo : Uses(s) \cap todo = {}
  BY DEF OrderInv
<1>2. /\ "password" \notin todo => "vmKubeconfig" \notin todo
      /\ "vmKubeconfig" \notin todo => "address" \notin todo
  BY <1>1 DEF Resources, Uses
<1>3. "app" \notin todo => "password" \notin todo
  BY <1>1 DEF Resources, Uses
<1>4. CASE r \in {"address", "vmKubeconfig", "password", "app"}
  BY <1>2, <1>3, <1>4
<1>5. CASE r \in {"repos", "cluster", "kubeconfig", "credential"}
  <2>1. "password" \in Uses(r)
    BY <1>5, InPassword
  <2>2. "password" \notin todo
    BY <1>1, <2>1
  <2> QED BY <1>2, <1>5, <2>2
<1>6. CASE r \in {"token", "wait"}
  <2>1. "vmKubeconfig" \in Uses(r)
    BY <1>6 DEF Uses
  <2> QED BY <1>1, <1>2, <2>1
<1>7. CASE r = "setting"
  <2>1. "app" \in Uses(r)
    BY <1>7 DEF Uses
  <2> QED BY <1>1, <1>2, <1>3, <2>1
<1> QED BY <1>4, <1>5, <1>6, <1>7 DEF Resources

\* Whatever is stale, one of these is.
LEMMA LostIs ==
    ASSUME Inv, PasswordInv, Lost
    PROVE  PasswordLost \/ \E s \in {"address", "vmKubeconfig"} \cap DOMAIN saved :
                              saved[s].epoch # vm.epoch
<1>1. PICK r \in DOMAIN saved : saved[r].epoch # vm.epoch
  BY DEF Lost
<1>2. CASE r \in {"address", "vmKubeconfig", "password"}
  BY <1>1, <1>2 DEF PasswordLost
<1>3. CASE r \notin {"address", "vmKubeconfig", "password"}
  <2>1. "password" \in DOMAIN saved
    BY <1>3, PasswordFirst DEF Inv, TypeOK
  <2>2. saved["password"].epoch <= saved[r].epoch
    BY <1>3 DEF PasswordInv
  <2>3. /\ saved["password"].epoch \in Nat /\ saved[r].epoch \in Nat /\ vm.epoch \in Nat
        /\ saved[r].epoch <= vm.epoch
    BY <2>1 DEF Inv, TypeOK
  <2>4. saved["password"].epoch # vm.epoch
    BY <1>1, <2>2, <2>3
  <2> QED BY <2>1, <2>4 DEF PasswordLost
<1> QED BY <1>2, <1>3

-----------------------------------------------------------------------------
\* Outputs that are kept are given on as they were.
LEMMA InKept ==
    ASSUME Inv, config' = config, NEW r \in DOMAIN saved,
           \A s \in DOMAIN saved : saved'[s].out = saved[s].out
    PROVE  In(r)' = In(r)
<1>1. r \in Resources /\ Uses(r) \subseteq DOMAIN saved
  BY DEF Inv, TypeOK
<1>2. \A s \in Uses(r) : Out(s)' = Out(s)
  BY <1>1 DEF Out
<1> QED BY <1>1, <1>2, InStable

LEMMA CleanWhenKept ==
    ASSUME Inv, CleanInv, NEW r \in DOMAIN saved, Finish(r),
           r \in CreatesAgain => ~Differs(r, In(r)), NEW wiped,
           Record(r, In(r), saved[r].outs, saved[r].out, wiped, saved[r].epoch)
    PROVE  CleanInv'
<1>1. /\ todo' = todo \ {r}
      /\ UNCHANGED <<config, vm, failed, running, complete, noticed, changes, faults>>
  BY DEF Finish
<1>2. /\ DOMAIN saved' = DOMAIN saved
      /\ \A s \in DOMAIN saved : /\ saved'[s].out = saved[s].out
                                 /\ saved'[s].outs = saved[s].outs
                                 /\ saved'[s].ins = IF s = r THEN In(r) ELSE saved[s].ins
  BY DEF Record
<1>3. \A s \in DOMAIN saved : In(s)' = In(s)
  BY <1>1, <1>2, InKept
<1>4. ASSUME NEW s \in Resources, Clean(s) \/ s = r PROVE Clean(s)'
  <2>1. s \in DOMAIN saved
    BY <1>4 DEF Clean, Created
  <2>2. ASSUME s \in CreatesAgain PROVE ~Differs(s, In(s))'
    <3>1. ~Differs(s, In(s))
      BY <1>4, <2>2 DEF Clean
    <3>2. In(s)' = In(s)
      BY <2>1, <1>3
    <3>3. CASE s = "address"
      BY <1>2, <2>1, <3>1, <3>2, <3>3 DEF Differs
    <3>4. CASE s \in {"vmKubeconfig", "setting", "kubeconfig", "credential"}
      BY <1>2, <2>1, <3>1, <3>2, <3>4 DEF Differs
    <3> QED BY <2>2, <3>3, <3>4 DEF CreatesAgain
  <2>3. (s \in CreatesAgain)' => s \in CreatesAgain
    BY DEF CreatesAgain
  <2> QED BY <1>2, <2>1, <2>2, <2>3 DEF Clean, Created
<1>5. running' => \A s \in Resources \ (todo' \cup failed') : Clean(s)'
  BY <1>1, <1>4 DEF CleanInv
<1>6. complete' => \A s \in Resources : Clean(s)'
  BY <1>1, <1>4 DEF CleanInv
<1> QED BY <1>5, <1>6 DEF CleanInv, Resources

LEMMA CleanWhenApplied ==
    ASSUME Inv, OrderInv, CleanInv, NEW r \in Resources, Due(r), Finish(r), ~Clean(r),
           Record(r, In(r), In(r), Result(r, In(r)), FALSE, vm.epoch)
    PROVE  CleanInv'
<1>1. /\ todo' = todo \ {r}
      /\ UNCHANGED <<config, vm, failed, running, complete, noticed, changes, faults>>
  BY DEF Finish
<1>2. /\ DOMAIN saved' = DOMAIN saved \cup {r}
      /\ saved'[r].ins = In(r) /\ saved'[r].outs = In(r)
      /\ \A s \in DOMAIN saved : s # r => saved'[s] = saved[s]
  BY DEF Record
<1>3. ~complete
  BY DEF CleanInv
<1>4. Uses(r) \subseteq DOMAIN saved /\ r \notin Uses(r)
  BY DueCreated, UsesOthers
<1>5. Clean(r)'
  <2>1. In(r)' = In(r)
    <3>1. \A s \in Uses(r) : Out(s)' = Out(s)
      BY <1>2, <1>4 DEF Out
    <3> QED BY <1>1, <3>1, InStable
  <2>2. ASSUME r \in CreatesAgain PROVE ~Differs(r, In(r))'
    BY <1>2, <2>1, <2>2 DEF CreatesAgain, Differs
  <2>3. (r \in CreatesAgain)' => r \in CreatesAgain
    BY DEF CreatesAgain
  <2> QED BY <1>2, <2>2, <2>3 DEF Clean, Created
<1>6. ASSUME NEW s \in Resources \ (todo \cup failed) PROVE Clean(s)'
  <2>1. Clean(s) /\ s \in DOMAIN saved /\ r \in todo
    BY DEF CleanInv, Due, Clean, Created
  <2>2. Uses(s) \subseteq DOMAIN saved /\ r \notin Uses(s) /\ s # r
    BY <2>1 DEF OrderInv, Due, Inv, TypeOK
  <2>3. In(s)' = In(s)
    <3>1. \A t \in Uses(s) : Out(t)' = Out(t)
      BY <1>2, <2>2 DEF Out
    <3> QED BY <1>1, <3>1, InStable
  <2>4. saved'[s] = saved[s]
    BY <1>2, <2>1, <2>2
  <2>5. Differs(s, In(s))' <=> Differs(s, In(s))
    BY <2>3, <2>4 DEF Differs
  <2>6. (s \in CreatesAgain)' => s \in CreatesAgain
    BY DEF CreatesAgain
  <2> QED BY <1>2, <2>1, <2>5, <2>6 DEF Clean, Created
<1>7. running' => \A s \in Resources \ (todo' \cup failed') : Clean(s)'
  BY <1>1, <1>5, <1>6
<1> QED BY <1>1, <1>3, <1>7 DEF CleanInv, Resources

\* The stack and the configuration are left alone, and a run gets no further than to fail.
LEMMA CleanWhenUnchanged ==
    ASSUME CleanInv, UNCHANGED <<config, saved>>,
           running' => running /\ todo \cup failed \subseteq todo' \cup failed',
           complete' => complete \/ (running /\ todo = {} /\ failed = {})
    PROVE  CleanInv'
<1>1. \A s : Clean(s)' <=> Clean(s)
  <2>1. ASSUME NEW s PROVE In(s)' = In(s)
    BY DEF In, Out
  <2> QED BY <2>1 DEF Clean, Created, Differs, CreatesAgain
<1> QED BY <1>1 DEF CleanInv, Resources

-----------------------------------------------------------------------------
\* With nothing stale and no take-over that went unnoticed, create() succeeds, whether the
\* run calls it or update() does.
LEMMA WorksNow ==
    ASSUME Inv, Served, CleanInv, NEW r \in Resources \ {"repos"}, Due(r),
           r \notin DOMAIN saved \/ r \in CreatesAgain, ~Lost, noticed
    PROVE  Works(r, In(r))
<1>1. \A s \in DOMAIN saved : Here(s) /\ Uses(s) \subseteq DOMAIN saved
  BY DEF Lost, Here, Created, Inv, TypeOK
<1>2. Uses(r) \subseteq DOMAIN saved
  BY DueCreated
<1>3. "cluster" \in DOMAIN saved => Out("cluster") = vm.epoch /\ vm.epoch \in rancher.clusters
  BY <1>1 DEF Served, ClusterInv, Created, Here
<1>4. "vmKubeconfig" \in DOMAIN saved => Out("vmKubeconfig") = vm.epoch
  BY <1>1 DEF Served, ClusterInv, Created, Here
<1>5. "password" \in DOMAIN saved => Out("password") = rancher.admin
  BY <1>1 DEF Served, PasswordInv
<1>6. CASE r \in {"address", "setting"}
  BY <1>6 DEF Works
<1>7. CASE r = "vmKubeconfig"
  <2>1. In(r).hostname = Out("address") /\ "address" \in DOMAIN saved
    BY <1>2, <1>7 DEF In, Uses
  <2> QED BY <1>1, <1>7, <2>1 DEF Works, Served, AddressInv
<1>8. CASE r = "password"
  <2>1. In(r).kubeconfig = Out("vmKubeconfig") /\ "vmKubeconfig" \in DOMAIN saved
    BY <1>2, <1>8 DEF In, Uses
  <2>2. "password" \notin DOMAIN saved
    BY <1>8 DEF CreatesAgain
  <2> QED BY <1>4, <1>8, <2>1, <2>2 DEF Works, Served, PasswordInv, Created
<1>9. CASE r \in {"app", "cluster", "credential"}
  BY <1>2, <1>5, <1>9, InPassword DEF Works
<1>10. CASE r = "kubeconfig"
  <2>1. In(r).cluster = Out("cluster") /\ "cluster" \in DOMAIN saved
    BY <1>2, <1>10, InRest
  <2>2. In(r).rancher = rancher.admin
    BY <1>2, <1>5, <1>10, InPassword
  <2> QED BY <1>3, <1>10, <2>1, <2>2 DEF Works
<1>11. CASE r = "token"
  <2>1. /\ In(r).kubeconfig = Out("vmKubeconfig") /\ "vmKubeconfig" \in DOMAIN saved
        /\ In(r).cluster = Out("cluster") /\ "cluster" \in DOMAIN saved
    BY <1>2, <1>11 DEF In, Uses
  <2> QED BY <1>3, <1>4, <1>11, <2>1 DEF Works
<1>12. CASE r = "wait"
  <2>1. /\ In(r).kubeconfig = Out("vmKubeconfig") /\ "vmKubeconfig" \in DOMAIN saved
        /\ In(r).cluster = Out("cluster") /\ "cluster" \in DOMAIN saved
        /\ "setting" \in Uses(r) /\ "setting" \in Resources
    BY <1>2, <1>12 DEF In, Uses, Resources
  <2>2. "setting" \in Resources \ (todo \cup failed) /\ running
    BY <2>1 DEF Due
  <2>3. "setting" \in DOMAIN saved /\ saved["setting"].outs.value = In("setting").value
    BY <2>2 DEF CleanInv, Clean, Created, CreatesAgain, Differs
  <2>4. registered = Out("token")
    BY <2>3, InRest DEF Served, SettingInv, Created
  <2>5. Out("token") = Out("cluster")
    <3>1. "token" \in DOMAIN saved
      BY <1>1, <2>3, InRest
    <3> QED BY <3>1 DEF Served, ClusterInv, Created
  <2> QED BY <1>3, <1>4, <1>12, <2>1, <2>4, <2>5 DEF Works
<1> QED BY <1>6, <1>7, <1>8, <1>9, <1>10, <1>11, <1>12 DEF Resources

\* A reason that there was is there still when the run has gone on to r.
LEMMA ReasonsStay ==
    ASSUME Inv, PasswordInv, OrderInv, FailsForAReason, NEW r \in Resources, Due(r), Finish(r),
           DOMAIN saved' = DOMAIN saved \cup {r},
           \A s \in DOMAIN saved : s # r => saved'[s] = saved[s],
           PasswordLost => PasswordLost', r = "app" => ~Wedged,
           rancher.gitrepos \subseteq rancher'.gitrepos
    PROVE  FailsForAReason'
<1>1. /\ running /\ r \in todo
      /\ UNCHANGED <<config, vm, failed, running, complete, noticed, changes, faults>>
  BY DEF Due, Finish
<1>2. SUFFICES ASSUME failed # {} PROVE FailsForAReason'
  BY <1>1 DEF FailsForAReason
<1>3. PICK s \in failed : s \in Resources \ todo /\ s # "address"
  BY <1>2 DEF OrderInv, Inv, TypeOK
<1>4. "address" \notin todo /\ "vmKubeconfig" \notin todo
  <2>1. "address" \notin todo
    BY <1>1, <1>3, MachineFirst
  <2>2. CASE s = "vmKubeconfig"
    BY <1>3, <2>1, <2>2
  <2>3. CASE s # "vmKubeconfig"
    BY <1>1, <1>3, <2>1, <2>3, MachineFirst
  <2> QED BY <2>2, <2>3
<1>5. Lost => Lost'
  <2>1. PasswordLost' => Lost'
    BY DEF PasswordLost, Lost
  <2>2. ASSUME NEW t \in {"address", "vmKubeconfig"} \cap DOMAIN saved,
               saved[t].epoch # vm.epoch
        PROVE  Lost'
    <3>1. t # r /\ t \in DOMAIN saved' /\ saved'[t] = saved[t]
      BY <1>1, <1>4, <2>2
    <3> QED BY <1>1, <2>2, <3>1 DEF Lost
  <2> QED BY <2>1, <2>2, LostIs
<1>6. Wedged => Wedged'
  BY DEF Wedged, Created
<1>7. "repos" \in failed /\ Conflict => Conflict'
  <2>1. "repos" \in failed => r # "repos"
    BY <1>1 DEF Inv, TypeOK
  <2> QED BY <1>1, <2>1 DEF Conflict, Created
<1> QED BY <1>1, <1>5, <1>6, <1>7 DEF FailsForAReason

LEMMA CreateFull ==
    ASSUME FullInv, NEW r \in Resources, Create(r)
    PROVE  FullInv' /\ (complete => UNCHANGED world)
<1>1. /\ Due(r) /\ r \notin DOMAIN saved /\ Apply(r, In(r)) /\ Finish(r)
      /\ Record(r, In(r), In(r), Result(r, In(r)), FALSE, vm.epoch)
  BY DEF Create, Created
<1>2. Inv' /\ (PasswordLost => PasswordLost')
  BY CreateKeeps DEF FullInv
<1>3. Served'
  BY <1>1, AppliedServes DEF FullInv
<1>4. ~Clean(r) /\ ~complete
  BY <1>1 DEF Clean, Created, FullInv, CleanInv
<1>5. RestInv' /\ OrderInv' /\ CleanInv'
  <2>1. /\ running /\ todo' = todo \ {r}
        /\ UNCHANGED <<config, vm, failed, running, complete, noticed, changes, faults>>
    BY <1>1 DEF Due, Finish
  <2> QED BY <1>1, <1>4, <2>1, OrderKeeps, CleanWhenApplied DEF FullInv, RestInv
<1>6. FailsForAReason'
  <2>1. /\ DOMAIN saved' = DOMAIN saved \cup {r}
        /\ \A s \in DOMAIN saved : s # r => saved'[s] = saved[s]
    BY <1>1 DEF Record
  <2>2. r = "app" => ~Wedged
    BY <1>1 DEF Wedged, Created
  <2>3. rancher.gitrepos \subseteq rancher'.gitrepos
    BY <1>1, EffectKeeps DEF FullInv
  <2> QED BY <1>1, <1>2, <2>1, <2>2, <2>3, ReasonsStay DEF FullInv, Served
<1> QED BY <1>2, <1>3, <1>4, <1>5, <1>6 DEF FullInv

\* Same() and the updates that create nothing.
LEMMA KeptFull ==
    ASSUME FullInv, NEW r \in DOMAIN saved, Due(r), Finish(r), UNCHANGED world,
           r \in CreatesAgain => ~Differs(r, In(r)), ~DiffThrows(r), NEW wiped,
           Record(r, In(r), saved[r].outs, saved[r].out, wiped, saved[r].epoch),
           Inv', PasswordLost => PasswordLost'
    PROVE  FullInv'
<1>1. /\ running /\ todo' = todo \ {r} /\ r \in Resources
      /\ UNCHANGED <<config, vm, failed, running, complete, noticed, changes, faults>>
      /\ UNCHANGED <<rancher, registered>>
  BY DEF Due, Finish, FullInv, Inv, TypeOK, world
<1>2. Served'
  BY <1>1, KeptServes DEF FullInv
<1>3. RestInv' /\ OrderInv' /\ CleanInv'
  BY <1>1, OrderKeeps, CleanWhenKept DEF FullInv, RestInv
<1>4. FailsForAReason'
  <2>1. /\ DOMAIN saved' = DOMAIN saved \cup {r}
        /\ \A s \in DOMAIN saved : s # r => saved'[s] = saved[s]
    BY DEF Record
  <2>2. r = "app" => ~Wedged
    BY DEF Wedged, DiffThrows
  <2> QED BY <1>1, <2>1, <2>2, ReasonsStay DEF FullInv, Served
<1> QED BY <1>2, <1>3, <1>4 DEF FullInv

LEMMA SameFull ==
    ASSUME FullInv, NEW r \in Resources, Same(r)
    PROVE  FullInv' /\ UNCHANGED world
<1>1. /\ Due(r) /\ r \in DOMAIN saved /\ Finish(r) /\ UNCHANGED world
      /\ ~DiffThrows(r) /\ ~Differs(r, In(r))
      /\ Record(r, In(r), saved[r].outs, saved[r].out, saved[r].wiped, saved[r].epoch)
  BY DEF Same, Created
<1>2. Inv' /\ (PasswordLost => PasswordLost')
  BY SameKeeps DEF FullInv
<1> QED BY <1>1, <1>2, KeptFull

LEMMA UpdateFull ==
    ASSUME FullInv, NEW r \in Resources, Update(r)
    PROVE  FullInv' /\ (complete => UNCHANGED world)
<1>1. Due(r) /\ r \in DOMAIN saved /\ Finish(r) /\ ~DiffThrows(r) /\ Differs(r, In(r))
  BY DEF Update, Created
<1>2. Inv' /\ (PasswordLost => PasswordLost')
  BY UpdateKeeps DEF FullInv
<1>3. ASSUME NEW wiped, UNCHANGED world, r \notin CreatesAgain,
             Record(r, In(r), saved[r].outs, saved[r].out, wiped, saved[r].epoch)
      PROVE  FullInv' /\ UNCHANGED world
  BY <1>1, <1>2, <1>3, KeptFull
<1>4. ASSUME r \in CreatesAgain, Apply(r, In(r)),
             Record(r, In(r), In(r), Result(r, In(r)), FALSE, vm.epoch)
      PROVE  FullInv' /\ ~complete
  <2>1. ~Clean(r) /\ ~complete
    BY <1>1, <1>4 DEF Clean, FullInv, CleanInv
  <2>2. Served'
    BY <1>1, <1>4, AppliedServes DEF FullInv
  <2>3. RestInv' /\ OrderInv' /\ CleanInv'
    <3>1. /\ running /\ todo' = todo \ {r}
          /\ UNCHANGED <<config, vm, failed, running, complete, noticed, changes, faults>>
      BY <1>1 DEF Due, Finish
    <3> QED BY <1>1, <1>4, <2>1, <3>1, OrderKeeps, CleanWhenApplied DEF FullInv, RestInv
  <2>4. FailsForAReason'
    <3>1. /\ DOMAIN saved' = DOMAIN saved \cup {r}
          /\ \A s \in DOMAIN saved : s # r => saved'[s] = saved[s]
      BY <1>4 DEF Record
    <3>2. r = "app" => ~Wedged
      BY <1>4 DEF CreatesAgain
    <3>3. rancher.gitrepos \subseteq rancher'.gitrepos
      BY <1>4, EffectKeeps DEF FullInv
    <3> QED BY <1>1, <1>2, <3>1, <3>2, <3>3, ReasonsStay DEF FullInv, Served
  <2> QED BY <1>2, <2>1, <2>2, <2>3, <2>4 DEF FullInv
<1> QED BY <1>3, <1>4 DEF Update, UpdatedOuts, KeepsOuts, CreatesAgain

\* A resource that fails, for a reason if it is not a FleetRepo, and for one of those of a
\* FleetRepo if it is.
LEMMA FailFull ==
    ASSUME FullInv, Inv', NEW r \in Resources \ {"address"}, Due(r), Fail(r),
           rancher'.admin = rancher.admin, rancher'.clusters = rancher.clusters,
           rancher'.credentials = rancher.credentials,
           rancher.gitrepos \subseteq rancher'.gitrepos, faults \in Nat, faults' \in Nat,
           faults <= faults', r # "repos" => ~noticed \/ Lost \/ Wedged,
           r = "repos" => Lost \/ Conflict' \/ faults' > 0
    PROVE  FullInv'
<1>1. /\ running /\ todo' = todo \ {r} /\ failed' = failed \cup {r}
      /\ UNCHANGED <<config, vm, registered, saved, running, complete, noticed, changes>>
  BY DEF Due, Fail
<1>2. Served'
  BY <1>1, QuietServes DEF FullInv
<1>3. RestInv' /\ OrderInv'
  BY <1>1, OrderKeeps DEF FullInv, RestInv
<1>4. CleanInv'
  <2>1. todo \cup failed \subseteq todo' \cup failed'
    BY <1>1
  <2> QED BY <1>1, <2>1, CleanWhenUnchanged DEF FullInv
<1>5. FailsForAReason'
  <2>1. (Lost <=> Lost') /\ (Wedged <=> Wedged') /\ (Conflict => Conflict')
    BY <1>1 DEF Lost, Wedged, Conflict, Created
  <2> QED BY <1>1, <2>1 DEF FullInv, FailsForAReason
<1> QED BY <1>2, <1>3, <1>4, <1>5 DEF FullInv

LEMMA RejectFull ==
    ASSUME FullInv, NEW r \in Resources, Reject(r)
    PROVE  FullInv' /\ UNCHANGED world
<1>1. /\ Due(r) /\ r # "repos" /\ Fail(r) /\ UNCHANGED <<rancher, faults>>
      /\ UNCHANGED world
  BY DEF Reject, Fail, world
<1>2. Inv'
  BY RejectKeeps DEF FullInv
<1>3. r # "address"
  <2>1. "address" \in DOMAIN saved => ~Differs("address", In("address"))
    BY DEF FullInv, Served, AddressInv, Created, Differs
  <2> QED BY <2>1 DEF Reject, Works, DiffThrows, Created
<1>4. ~noticed \/ Lost \/ Wedged
  <2>1. CASE DiffThrows(r) /\ r \in DOMAIN saved
    BY <2>1 DEF DiffThrows, Wedged, Created
  <2>2. CASE (r \notin DOMAIN saved \/ r \in CreatesAgain) /\ ~Works(r, In(r))
    BY <1>1, <2>2, WorksNow DEF FullInv
  <2> QED BY <2>1, <2>2 DEF Reject, Created
<1>5. faults \in Nat
  BY LifecycleAssumption DEF FullInv, Inv, TypeOK
<1> QED BY <1>1, <1>2, <1>3, <1>4, <1>5, FailFull

LEMMA RejectReposFull ==
    ASSUME FullInv, RejectRepos
    PROVE  FullInv' /\ ~complete
<1>1. /\ Due("repos") /\ "repos" \notin DOMAIN saved /\ Fail("repos")
      /\ "repos" \in Resources \ {"address"}
  BY DEF RejectRepos, Created, Resources
<1>2. Inv'
  BY RejectReposKeeps DEF FullInv
<1>3. ~complete
  BY <1>1 DEF FullInv, CleanInv, Clean, Created
<1>4. faults \in Nat
  BY LifecycleAssumption DEF FullInv, Inv, TypeOK
<1>5. In("repos").rancher = Out("password") /\ In("repos").repos = config.repos
  BY InPassword, InRest
<1>6. CASE In("repos").rancher # rancher.admin /\ UNCHANGED <<rancher, faults>>
  <2>1. "password" \in DOMAIN saved
    BY <1>1, DueCreated, InPassword DEF FullInv
  <2>2. Lost
    BY <1>5, <1>6, <2>1 DEF FullInv, Served, PasswordInv, Here, Created, Lost
  <2> QED BY <1>1, <1>2, <1>3, <1>4, <1>6, <2>2, FailFull
<1>7. CASE /\ In("repos").rancher = rancher.admin
           /\ faults' = IF Works("repos", In("repos")) THEN faults + 1 ELSE faults
           /\ faults' <= MaxFaults
           /\ \E new \in SUBSET In("repos").repos :
                 rancher' = [rancher EXCEPT !.gitrepos = @ \cup new]
  <2>1. PICK new \in SUBSET In("repos").repos :
           rancher' = [rancher EXCEPT !.gitrepos = @ \cup new]
    BY <1>7
  <2>2. /\ rancher'.admin = rancher.admin /\ rancher'.clusters = rancher.clusters
        /\ rancher'.credentials = rancher.credentials
        /\ rancher.gitrepos \subseteq rancher'.gitrepos
    BY <2>1 DEF FullInv, Inv, ServerInv
  <2>3. faults' \in Nat /\ faults <= faults'
    BY <1>4, <1>7
  <2>4. Conflict' \/ faults' > 0
    <3>1. CASE Works("repos", In("repos"))
      BY <1>4, <1>7, <3>1
    <3>2. CASE ~Works("repos", In("repos"))
      <4>1. config.repos \cap rancher.gitrepos # {}
        BY <1>5, <1>7, <3>2 DEF Works
      <4>2. config' = config /\ saved' = saved
        BY <1>1 DEF Fail
      <4> QED BY <1>1, <2>2, <4>1, <4>2 DEF Conflict, Created
    <3> QED BY <3>1, <3>2
  <2> QED BY <1>1, <1>2, <1>3, <1>4, <2>2, <2>3, <2>4, FailFull
<1> QED BY <1>6, <1>7 DEF RejectRepos

LEMMA RunStepFull ==
    ASSUME FullInv, StartUp \/ EndUp
    PROVE  FullInv' /\ UNCHANGED world
<1>1. /\ UNCHANGED <<config, vm, rancher, registered, saved, noticed, changes, faults>>
      /\ UNCHANGED world
  BY DEF StartUp, EndUp, world
<1>2. /\ failed' = {} /\ (~running' => todo' = {}) /\ (running' => todo' = Resources)
      /\ running' \in BOOLEAN
      /\ complete' => complete \/ (running /\ todo = {} /\ failed = {})
  <2>1. CASE StartUp
    BY <2>1 DEF StartUp
  <2>2. CASE EndUp
    BY <2>2 DEF EndUp
  <2> QED BY <2>1, <2>2
<1>3. Inv'
  BY RunStepKeeps DEF FullInv
<1>4. Served'
  BY <1>1, QuietServes DEF FullInv
<1>5. RestInv' /\ OrderInv' /\ FailsForAReason'
  <2>1. (running' => \A r \in Resources \ todo' : Uses(r) \cap (todo' \cup failed') = {})
    BY <1>2
  <2> QED BY <1>2, <2>1 DEF RestInv, OrderInv, FailsForAReason, Resources
<1>6. CleanInv'
  <2>1. CASE running
    BY <1>1, <1>2, <2>1, CleanWhenUnchanged DEF FullInv, EndUp, StartUp
  <2>2. CASE ~running
    <3>1. (\A r : Clean(r)' <=> Clean(r)) /\ StartUp
      <4>1. ASSUME NEW r PROVE In(r)' = In(r)
        BY <1>1 DEF In, Out
      <4> QED BY <1>1, <2>2, <4>1 DEF Clean, Created, Differs, CreatesAgain, EndUp
    <3> QED BY <1>2, <3>1 DEF FullInv, CleanInv, StartUp, Resources
  <2> QED BY <2>1, <2>2
<1> QED BY <1>1, <1>3, <1>4, <1>5, <1>6 DEF FullInv

\* Between the runs: what is done, and what a run fails at, is nothing.
LEMMA ChangeFull ==
    ASSUME FullInv, Inv', Served', ~running, ~running', ~complete',
           todo' = todo, failed' = failed
    PROVE  FullInv'
<1>1. todo' = {} /\ failed' = {}
  BY DEF FullInv, RestInv
<1>2. RestInv' /\ OrderInv' /\ CleanInv' /\ FailsForAReason'
  BY <1>1 DEF RestInv, OrderInv, CleanInv, FailsForAReason
<1> QED BY <1>2 DEF FullInv

LEMMA BetweenFull ==
    ASSUME FullInv, Configure \/ Rebuild \/ TakeOver \/ Refresh \/ Destroy
    PROVE  FullInv' /\ ~complete'
<1>1. ~running /\ ~running' /\ ~complete' /\ todo' = todo /\ failed' = failed
  BY DEF Configure, Rebuild, TakeOver, Refresh, Destroy, Change
<1>2. Inv'
  BY ConfigureKeeps, RebuildKeeps, TakeOverKeeps, RefreshKeeps, DestroyKeeps DEF FullInv
<1>3. Served'
  <2>1. CASE Configure
    <3>1. UNCHANGED <<vm, rancher, registered, saved, noticed>>
      BY <2>1 DEF Configure, world
    <3> QED BY <3>1, QuietServes DEF FullInv
  <2>2. CASE Destroy
    <3>1. DOMAIN saved' = {} /\ rancher' = NewServer
      BY <2>2 DEF Destroy
    <3>2. Here("password")' = FALSE /\ rancher'.admin = Bootstrap
      BY <3>1 DEF Here, Created, NewServer
    <3> QED
      BY <3>1, <3>2
      DEF Served, PasswordInv, AddressInv, ClusterInv, SettingInv, CredentialInv, Created, Here
  <2> QED BY <2>1, <2>2, RebuildServes, TakeOverServes, RefreshServes DEF FullInv
<1> QED BY <1>1, <1>2, <1>3, ChangeFull

LEMMA StutterFull == ASSUME FullInv, UNCHANGED vars PROVE FullInv' /\ UNCHANGED world
<1>1. UNCHANGED world /\ UNCHANGED <<config, vm, rancher, registered, saved, noticed>>
      /\ UNCHANGED <<todo, failed, running, complete, faults>>
  BY DEF vars, world, runVars
<1>2. Inv' /\ Served'
  BY <1>1, StutterKeeps, QuietServes DEF FullInv
<1>3. RestInv' /\ OrderInv'
  BY <1>1 DEF FullInv, RestInv, OrderInv, Resources, Uses
<1>4. CleanInv'
  BY <1>1, CleanWhenUnchanged DEF FullInv
<1>5. FailsForAReason'
  BY <1>1 DEF FullInv, FailsForAReason, Lost, Wedged, Conflict, Created
<1> QED BY <1>1, <1>2, <1>3, <1>4, <1>5 DEF FullInv

\* The whole invariant is kept, and a stack that is complete leaves the servers alone.
LEMMA FullStep ==
    ASSUME FullInv, [Next]_vars
    PROVE  FullInv' /\ (complete /\ complete' => UNCHANGED world)
<1>1. CASE Up
  BY <1>1, CreateFull, SameFull, UpdateFull, RejectFull, RejectReposFull, RunStepFull DEF Up
<1>2. CASE Configure \/ Rebuild \/ TakeOver \/ Refresh \/ Destroy
  BY <1>2, BetweenFull
<1>3. CASE UNCHANGED vars
  BY <1>3, StutterFull
<1> QED BY <1>1, <1>2, <1>3 DEF Next

LEMMA InitFull == Init => FullInv
<1> SUFFICES ASSUME Init PROVE FullInv
  OBVIOUS
<1>1. /\ DOMAIN saved = {} /\ rancher = NewServer /\ todo = {} /\ failed = {}
      /\ ~running /\ ~complete
  BY DEF Init
<1>2. Served
  BY <1>1, BlankServes DEF NewServer
<1>3. RestInv /\ OrderInv /\ CleanInv /\ FailsForAReason
  BY <1>1 DEF RestInv, OrderInv, CleanInv, FailsForAReason
<1> QED BY <1>2, <1>3, InitInv DEF FullInv

LEMMA FullInvariance == Spec => []FullInv
<1>1. FullInv /\ [Next]_vars => FullInv'
  BY FullStep
<1> QED BY <1>1, InitFull, PTL DEF Spec

-----------------------------------------------------------------------------
\* Whatever was edited, refreshed or taken over before it, a run that succeeds leaves
\* Harvester registered as the cluster on record, and Rancher with a credential of the
\* configured name for it.
THEOREM WholeImport == Spec => []ImportIsWhole
<1>1. FullInv => ImportIsWhole
  <2> SUFFICES ASSUME FullInv, complete, noticed, ~Lost
               PROVE  /\ Out("password") = rancher.admin
                      /\ registered = Out("cluster") /\ registered \in rancher.clusters
                      /\ \E c \in rancher.credentials :
                            /\ c.of.name = config.name
                            /\ c.of.cluster = registered /\ c.of.kubeconfig = registered
    BY DEF ImportIsWhole
  <2>1. \A r \in Resources : Here(r) /\ Clean(r)
    BY DEF FullInv, CleanInv, Clean, Created, Here, Lost
  <2>2. Out("password") = rancher.admin
    BY <2>1 DEF FullInv, Served, PasswordInv, Resources
  <2>3. /\ Out("token") = Out("cluster") /\ Out("kubeconfig") = Out("cluster")
        /\ Out("cluster") \in rancher.clusters
    BY <2>1 DEF FullInv, Served, ClusterInv, Resources, Here
  <2>4. registered = Out("cluster")
    <3>1. saved["setting"].outs.value = In("setting").value
      BY <2>1 DEF Resources, Clean, CreatesAgain, Differs
    <3> QED BY <2>1, <2>3, <3>1, InRest DEF FullInv, Served, SettingInv, Resources, Here
  <2>5. PICK c \in rancher.credentials : c.of = In("credential")
    <3>1. saved["credential"].outs = In("credential")
      BY <2>1 DEF Resources, Clean, CreatesAgain, Differs
    <3> QED BY <2>1, <3>1 DEF FullInv, Served, CredentialInv, Resources
  <2>6. /\ c.of.name = config.name /\ c.of.cluster = Out("cluster")
        /\ c.of.kubeconfig = Out("kubeconfig")
    BY <2>5 DEF In
  <2> QED BY <2>2, <2>3, <2>4, <2>6
<1> QED BY <1>1, FullInvariance, PTL

\* However often it is run again, a stack that is complete changes nothing on a server.
THEOREM RunsConverge == Spec => Converges
<1> DEFINE Rest == complete /\ complete' => UNCHANGED world
<1>1. FullInv /\ [Next]_vars => [Rest]_vars
  BY FullStep
<1>2. Spec => [][Rest]_vars
  <2> HIDE DEF Rest
  <2> QED BY <1>1, FullInvariance, PTL DEF Spec
<1> QED BY <1>2 DEF Converges

\* A run fails at a resource only for one of the reasons that the code gives it.
THEOREM Reasons == Spec => []FailsForAReason
<1>1. FullInv => FailsForAReason
  BY DEF FullInv
<1> QED BY <1>1, FullInvariance, PTL
===============================================================================
