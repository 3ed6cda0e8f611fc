# Verification of the Rancher Prime lab setup

The repository builds a Rancher lab: a Pulumi program (TypeScript) prepares a Harvester
cluster, makes a VM with k3s on it, installs Rancher there, sets its admin password,
imports Harvester into Rancher, installs UI plugins and hands the rest to Fleet; a Helm
chart gives Harbor its proxy caches. The program has little data and no threads. What is
hard in it is the time between a request and its answer: every resource is created by an
asynchronous `create()` that polls, retries, times out and may be killed, against servers
that handle a request whether or not anybody still waits for the answer, and a run that
failed is simply run again on top of what it left behind.

Sources are named relative to `src/`; `components/` stands for `src/pulumi/components/`.

## Inventory

| Component | Source | State | Operations | Correct when |
| --- | --- | --- | --- | --- |
| `waitFor` | `components/utils/src/functions/waitfor.ts` | deadline, the await it is suspended at | delay, probe, sleep, settle | it settles once, in bounded time, and does not flood the server |
| probes of `waitFor` | `install/bootstrap.ts`, `resources/kubewait.ts`, `clusterregistrationtoken.ts`, `clusterid.ts`, `ipaddress.ts`, `bridge.ts`, `kubeconfig/remote.ts` | requests of a probe, their attempts | send, retry, give up, read the answer | retries do not carry a probe out of the loop's reach, and an object that is not there yet is waited for |
| `BootstrapAdminPassword` | `components/rancher/src/install/bootstrap.ts` | bootstrap token, password, the stack's record | fetch token, log in, change, verify, record | the recorded password is the server's |
| `loginToRancher` | `components/utils/src/functions/login.ts` | attempts | post, retry | bounded, as part of the bootstrap |
| `RancherClient` | `components/utils/src/rancher-client.ts` | token, attempts | login, get, post, patch, put, checkStatusCode | a retried request does no harm that its caller does not notice |
| Harvester import | `components/rancher/src/cloud/harvester/*`, `resources/cloudcredential.ts`, `components/harvester/src/resources/setting.ts` | six resources in the stack; clusters, credentials and a setting on the servers | create cluster, read token, write setting, wait, download kubeconfig, create credential | Harvester joins the recorded cluster, and the credential is that cluster's |
| Harbor proxy Job | `apps/suse/private-registry/proxy/templates/job-setup.yaml` | REG_ID; Harbor's registries and projects | install jq, create registry, look it up, create project, restart | every project caches its own registry and none is missed |
| kubeconfig resources | `components/utils/src/resources/kubeconfig/*` | the kubeconfig in the stack | read over SSH, download, diff, update | the kubeconfig is a complete file of the cluster that exists |
| Rancher installation | `components/rancher/src/install/*`, `components/common/src/*` | Helm releases, certificates, settings | install in dependency order | nothing is configured before it exists |
| apps, settings, plugins | `components/rancher/src/resources/*`, `plugins/*` | catalog apps, settings | install, poll, diff, update | reruns converge |
| `FleetRepo` | `components/rancher/src/fleet/repo.ts` | GitRepos | create all, diff, update, delete | reruns converge and leave no orphans |
| Harvester VM | `components/harvester/src/vm/*`, `network/bridge.ts` | VM, its address | create, poll the address | the address is the VM's IPv4 address |
| Harvester base | `components/harvester/src/base/*` | storage classes, networks, images | declare | order only |
| cloud-init, `deepMerge` | `components/utils/src/cloud-init.ts`, `processors.ts`, `merge.ts` | none | fold of pure functions | the configuration has every processor's part |
| sample program | `pulumi/sample-setup/*` | the resource graph | create in parallel, respecting dependencies | every resource comes after what it needs |
| Fleet bundles | `fleet/*.yaml`, `apps/**/fleet.yaml` | labels of a cluster, status of its bundles | add or remove a label, read a GitRepo, install, get ready, uninstall | labels bring a bundle together with what it waits for |
| manual scripts | `Install-rancher-*/*.sh` | none | run by hand | - |
| CRD packages | `components/*-crds` | none | generated types | - |

How they interact: the engine calls `create()`, `diff()` and `update()` of a provider and
records what they return; the outputs of one resource are the inputs of others and order
them, and `dependsOn` orders the ones that share no value. Providers share no memory: they
meet on the servers (Rancher, Harvester, Harbor) and in the stack. What Fleet installs shares
nothing with them but the secret `fleet-secrets`. `waitFor` is called with
a callback, the probe, which in turn is a request of got with retries of its own.

Hard behaviours, each listed under `hazards` in `PROJECT.json` at its line: retries of
requests that are not idempotent; requests handled after they were given up; runs killed
between an effect and its recording; two retry loops nested in one another; a timeout that
is only looked at between probes; a script that takes any answer for a success; values
fetched before an await and used after it; `diff()` and `update()` that do not see what
changed.

## Modules

| Module | Models | Checked by |
| --- | --- | --- |
| `Settlement` | abstract: a promise settles once, in bounded time | - |
| `WaitFor` | `waitFor()` with its clock | `wait_for` |
| `Probes` | the eight callers of `waitFor()` with the requests of their probes; uses `WaitFor` as an instance | `probes`, `registration_token_poll` |
| `PasswordRotation` | abstract: one rotation, recorded truthfully | - |
| `Bootstrap` | `BootstrapAdminPassword` over several runs of `pulumi up` | `bootstrap` |
| `ClusterImport` | abstract: choose a cluster, join it, record its credential | - |
| `HarvesterImport` | the six resources of `HarvesterCloudProvider` over several runs | `import` |
| `HarborProxy` | the Harbor Job and its restarts | `harbor_proxy*` |
| `Deployment` (`MCDeployment`) | the resource graph of the sample program, over several runs | `deployment*` |
| `Lifecycle` (`MCLifecycle`) | `diff()`, `update()`, `read()`, `delete()` of the dynamic resources, over the life of a stack | `lifecycle*` |
| `FleetBundles` | the bundles of `apps/` on one downstream cluster | `fleet_bundles` |
| `*_proofs` | theorems about the module of that name | the proof checker |

Operators whose comment begins with "Plausible bug" are mutated forms of the definition
after them, used to see that a property notices the bug; nothing else refers to them.

### WaitFor

`pc` is the await the call is suspended at: the initial delay, the probe, the sleep. The
clock moves only there and only as far as the await lasts, which is how a single-threaded
event loop with timers behaves; a probe takes any time up to `ProbeTime`. A probe resolves
with a value, with an empty value, with `undefined` or `null`, or rejects. `StartProbing`
computes the deadline after the delay, as line 26 does; `ProbeResolves` is the body of the
loop; `ProbeThrows` is the missing catch.

* `SettledInTime`: the latest settlement is `delay + timeout - 1 + interval + probe`. The
  bound is exact: with one unit less it is violated.
* `PollingRate`: probes are an interval apart, and a timeout is not reported early.
* `KeepsPromise`: the loop implements `Settlement`, liveness included.

Two comments of the file are looser than the code: the "overall timeout" of line 7 does not
include the delay, the last interval and the last probe, and the "truthy" of line 2 is a
comparison with `undefined` and `null`, so that an empty value ends the loop.

### Probes

One call of `waitFor()` by the caller `kind`: its loop is an instance of `WaitFor`, its probe
is one or two requests (`request`), each with attempts and backoffs (`attempt`, `phase`), and
what it polls for is absent, partial or ready (`object`) and improves at any time
(`Progress`). got is external. What is used of it (12.6.1) is that a `calculateDelay` of the
program's own decides alone: it is asked after every failed attempt, error statuses and POSTs
included, `retry.limit` is not looked at, and 0 ends the retries.

What the callers make of an object that is not ready is `Reads`, and differs:

| Caller | absent | partial | ready |
| --- | --- | --- | --- |
| bootstrap token, registration token, VM address, bridge | a status outside 2xx: got retries, then rejects | no value: polled again (the bridge may also throw) | value |
| `KubeWait` | any error is another poll | polled again | value |
| `ClusterId` | throws at once | value | value |
| VM address without a network name | as above | polled again | throws: `res.body` of a body |
| `RemoteKubeconfig` | polled again | empty file taken for an answer | value |

* `IsAWaitFor`: when retries are bounded, probe and loop together are a `WaitFor` whose
  `ProbeTime` is the worst case of the retries, so that its bounds carry over.
* `RejectedForAReason`: the reasons for which a call is rejected before its deadline, in
  full; with a server that works only the object's absence is left of them.
* `ClusterIsAskedForOnce`: the `waitFor()` around the cluster lookup never polls twice.
* `SettlesUnlessSilent`: every call ends, but for an SSH session that goes silent after its
  handshake. ssh2 bounds the handshake only and the program sets no keepalive.
* Finding: `EndsByItsTimeout` fails for the registration token, whose `calculateDelay` never
  returns 0.

### Bootstrap

Variables are the server (`gen`, `serverPw`, `secret`), the network (`wire`, `reply`), the
run (`pc`, `token`, `password`, `attempt`) and the stack (`saved`, `savedGen`). One action
per await of `create()`: `FetchToken`, `LoginWithToken`, `SettleDelay`, `SendChange`,
`ChangeAccepted` or `ChangeAttemptFails`, `Verify`, `Save`. `Handle` is the server, which may
handle a request at any later time, even in another run; `Crash` kills the run at any
await; `Rebuild` replaces the VM between runs; `RunUnchanged` is a run in which `diff()` sees
no change.

* `SavedPasswordWorks`: a recorded password opens the server it was recorded for.
* `LockoutIsPermanent`: once the password was changed and no run knows to what, no later
  run finds out. The code has this weakness, the property states its exact extent, and a
  change that made reruns recover would have to change the property.
* `ImplementsRotation`: the runs implement `PasswordRotation`.
* `EveryRunEnds`: a run that is not killed ends.

### HarvesterImport

The six resources are created one after the other: each names an output of an earlier one
or depends on it (`Successor`). `saved` is the stack. A resource that requests logs in
(`Login`, `LoginFails`) and then sends up to `Retries + 1` attempts (`Attempt`); the servers
handle any request on the wire at any time. `made` counts the clusters of the given name at
Rancher, so an ID is a number and the first one is what a lookup by name would find.
`uniqueNames`, chosen in `Init`, is what Rancher does with a second cluster of one name; the
code has to live with either.

The poll of the token is one step here, its clock is in `Probes`; it is done when the
token of the recorded cluster exists. The login retries `Retries` times like every request
of `RancherClient.baseGot` (the `retryLimit` argument of `login()` is only logged).

* `CredentialWorks`: a recorded credential exists and holds the kubeconfig of the cluster
  Harvester is connected to.
* `OrphansPerFault`: retried POSTs leave at most one cluster or credential behind per fault.
* `FailuresAreFaults`: no more runs fail than there were faults, so nothing that a failed run
  leaves behind makes the next one fail, but for the trap of `StuckIsPermanent`.
* `ImplementsImport`: the whole implements `ClusterImport`; in particular Harvester never
  joins a cluster other than the recorded one.
* `ImportCompletes`: finitely many faults delay the import only, and with unique names nothing
  but a lost answer to the first POST stops it.
* `StuckIsPermanent`: that lost answer stops every later run, as `create()` does not look for
  the cluster it made.

### HarborProxy

The script command by command. A curl without `--fail` exits 0 for any status, so an error
answer goes unnoticed (`erred`); a failed connection ends the script under `-e`, whether or
not Harbor got the request, and the container starts again from the top, at most
`BackoffLimit` times.

* `LinkedToItsRegistry`: no project is linked to another's registry, although `REG_ID` is one
  variable.
* `CompleteUnlessErred`: a Job that completes has created everything unless Harbor answered
  with an error.
* Finding: `DoneIsTrue`, the log's "Done", is not true after an error answer.

### Deployment

The graph is a relation: `After` has a pair for each input, `dependsOn` or parent's
`dependsOn` of the source, one definition per file. A `dependsOn` that is spread over and
replaced is gone, as in `setupClusterIssuer`. `ResourcesOf` leaves out what a configuration
leaves out. `Used` is what the program knows and the engine does not: names written as
literals, kinds that come with a chart, servers reached by URL. `Start` issues a creation
when its prerequisites are recorded, `Created`, `Rejected`, `InTheWay` and `ServerFails` are
its ends, `RunAgain` goes on from the stack. The configuration is fixed: a changed one would need
updates, which are the subject of `Lifecycle`.

* `OnlyLizIsRejected`: `Used` follows from `After` on every path and after any failure, with
  one exception, `rancher-ai-ui`, which the code lets race with its repository.
* `NeverStuck`, `DeploymentCompletes`: no circle in any configuration, and every stack that
  a failed run leaves can be completed, unless `left` is not empty (below). With the AI extension
  the second one does not hold: each run may lose the race again before the repository is
  created.
* Finding: `BootstrapIsSkipped`, of the comment on `skipBootstrap`.

A creation whose server fails, or that is under way when a run is killed, may have taken
effect without being recorded. `left` has those that are then in the way of every later run
(`Unrepeatable`): the password change, after which the bootstrap secret logs nobody in, and the
first cluster where Rancher wants names unique, as `LockoutIsPermanent` of `Bootstrap` and
`StuckIsPermanent` of `HarvesterImport` say in detail; and `NotTakenOver`, a choice among the
Kubernetes and Helm resources, for whose providers, which are external, it stands open what
they take over (a Helm release that is left pending is not). The other dynamic providers read,
write the same thing again, or make a second one that nothing refuses. Nothing removes what is in `left`: the way out is by hand or
by `pulumi destroy`.

`harvester-cloud` stands for the six resources of `HarvesterImport`, which come one after the
other. A storage class is counted as used by the disk in every configuration, as it is when
an image of the user's is configured.

### Lifecycle

The engine asks `diff()` whether a resource changed and `update()` to apply it, and here the
providers differ most: some have no `diff()` and their inputs are compared, some compare part
of the inputs with what an earlier `create()` returned, some have no `update()`, some return
their old outputs from it, and no `delete()` does anything. Variables are the configuration
(`config`), the Rancher VM (`vm`, whose `epoch` tells a rebuilt server from the old one), that
server (`rancher`), the cluster Harvester is registered as (`registered`), the stack
(`saved`: inputs, those inputs that are among the outputs, output, epoch) and the run. A run
comes to each resource once, by `Create`, `Same`, `Update`, `Reject` or, for the parallel
POSTs of `FleetRepo`, `RejectRepos`. Between runs `Configure` changes the configuration,
`Rebuild` the server, `TakeOver` Harvester's registration; `Refresh` is `pulumi refresh` and
`Destroy` is `pulumi destroy`. Requests are atomic: what becomes of lost answers is in
`Bootstrap` and `HarvesterImport`.

* `RebuiltIsLost`: once the server of a recorded password was rebuilt, no run, update or
  refresh touches the new one, although runs may succeed: at the same address nothing differs.
  Only `pulumi destroy` leads out.
* `ImportIsWhole`: after a successful run Harvester is registered as the cluster on record and
  a credential of the configured name holds its kubeconfig, whatever was renamed or taken
  over in between, provided that a refresh has seen a takeover.
* `Converges`: a run after a successful one, with nothing changed, changes nothing remote.
* `UpsSucceed`: repeated runs succeed, with the exceptions it names. A Harvester that another
  Rancher takes over before `KubeWait` was recorded makes every run fail until a refresh, as
  the recorded setting still has the value it is given (`noticed`).
* `FailsForAReason`: what a run may fail at, and why: the same reasons, and for `FleetRepo` a
  request that failed. It is the part of `UpsSucceed` that can be said of a state, and says more:
  no resource ever fails for the stale output of another.
* Finding: `UpdatesApply`. `RancherApp` has a `diff()` but no `update()`: a changed plugin
  version is taken for applied, and the run after that throws in `diff()`.

A server is given one cluster at most, so the epoch serves as its ID. After a rebuild a
refresh may not end at all, as the token's `read()` polls without end (the finding of
`Probes`); `Refreshed` is what a refresh that does end finds. A new cluster ID comes only with a
new server or after a destroy, so that `RancherKubeconfig`, whose `diff()` does not compare it,
is not met with one by itself (`pulumi up --replace` could). `FleetRepo` is exported by the
package and the sample program does without it.

### FleetBundles

A record per `fleet.yaml`: the GitRepo it belongs to, the labels that bring it, the labels it
provides and waits for (`dependsOn`), whether its values come from `fleet-secrets`, and, from
its values and manifests, the pull secret, storage class or GPU its pods use, those it brings,
and the cluster-wide objects of its chart. `status` is what is installed; labels are added
and removed (`ChangeLabels`), GitRepos are read and the secret is copied in any order, pods
that were ready may fail (`Lapse`). Fleet, Helm and Sprouter are external. So are the nodes: they
have the disks for Longhorn and the GPU that the operator of `needs-gpu-operator` registers.

* `DependenciesComeAlong`: a bundle is never wanted without what it waits for. The files name
  each other by labels only, so a selector changed in one file would break another.
* `KeptWhileNeeded`: while a bundle keeps its label, nothing it waited for is taken from under
  it. `needs-cnpg` may go, `needs-sbomscanner` keeps the operator. When its own label goes the
  two are uninstalled in any order, so a label that is put back at once may find half of them.
* `RestIsAsAsked`: Fleet has nothing left to do (`AtRest`) only when the cluster has what its
  labels ask for (`AsAsked`): no bundle waits for one that waits itself, for a label nothing
  provides, or for a secret nothing brings.
* `LabelsSuffice`: the cluster ends up with what its labels ask for, all of it ready, and
  nothing else.

`AsAsked` makes these exceptions, and no others: users of `longhorn-single` on a cluster without
`needs-storage`, and Ollama, whose pods ask for a GPU (`ollama/fleet.yaml:9-18`), on one without
`needs-gpu-operator`, as no `dependsOn` names what they need; `needs-longhorn` together with
`needs-storage`, whose two charts install the same objects; and `liz-demos`, which is broken on
purpose.

The documents ask for more than the files do. `README-Full-Instructions.md:210` advises one label
at a time, storage first; the two properties hold of every order. `README.md:25` says that
`needs-security` requires Longhorn to be installed, but the bundle names no such `dependsOn` and
its values switch the volume off (`suse-security/app/values.yaml`, `pvc: enabled: false`), so it
uses no storage in the model either.

Storage that is uninstalled under a user is not prevented by anything and is not claimed.
Two values that do not fit the charts were seen on the way and are data to the model:
`fleet.ts:126` provides `email` for cert-manager where the chart reads
`letsencrypt.prod.email`, and the `registry.credential` of the Harbor values is not the
`registries[].credential` that the Job reads.

## Runs and bounds

| Run | Bounds | Why they are enough |
| --- | --- | --- |
| `wait_for` | delay 1, interval 2, timeout 7, probe 3 | the interval does not divide the timeout, a probe outlasts an interval: the check one tick before the deadline happens. Any other values are covered by the theorems |
| `probes` | 3 and 2 retries, timeout 4, interval 2, probe 10 | a probe that outlasts the deadline by more than an interval, every retry used, a retry in the last probe, each kind of object at each time |
| `registration_token_poll` | units of 5 s, the code's retry options | counterexample |
| `bootstrap` | two passwords, three runs, one rebuild, the code's retry limits | two earlier runs with different passwords can have requests in flight; a configured password is the case of runs that choose the same; the order of more passwords or runs adds nothing that tells them apart |
| `import` | 2 retries (the code's), 4 faults, 5 runs | 3 faults use up one request's retries, one more hits another resource or the rerun; a run more than faults, so that the last run can succeed |
| `harbor_proxy` | 3 registries, 2 restarts | a `REG_ID` left over from a registry before, and an interruption of a restarted script |
| `harbor_proxy_done` | 1 registry | counterexample |
| `deployment` | 3 of 32 configurations, two plugins with two repositories, one secret, one Git repository, 2 runs, 1 failure or killed run, `rancher` for `NotTakenOver` | each option is on and off; one of each thing that may be left behind; entries of one table differ in their name only. The theorem covers all configurations and tables |
| `deployment_skipped` | `skipBootstrap` alone | counterexample |
| `lifecycle` | two values of each that may change, two GitRepos, 2 changes, 1 fault, any number of runs and refreshes; the life begins with the first name, password, version and address, which are alike | a change and its reversal, or two changes that meet in one run; a list of GitRepos that shrinks, grows or is replaced, and one POST that goes on while the other fails; what a third change would find is a stack of the same kinds of records |
| `lifecycle_update` | 2 versions, 1 change | counterexample |
| `fleet_bundles` | 10 of the 31 bundles, their 6 labels, 3 changes of them, 1 lapse | the bundle that two labels bring and its users, both Longhorns, the class, the GPU and the pull secret, a label put back or another added while its bundles go; the other bundles repeat these patterns. The theorems cover all of them |

Deadlock is not checked where the modelled life of the stack is over (runs used up, Job
ended, every bundle as its labels ask); `WaitFor` and `Probes` stutter explicitly when settled
or silent, `Lifecycle` never stops, and these three check it.

## Fairness

* `WaitFor`: `WF(Next)`. Timers fire and probes end, so some step happens; which one is left
  open.
* `Probes`: `WF(Steps)`, the program's own steps. Requests have a `timeout.request` and SSH a
  `readyTimeout`; that the object ever appears is not assumed, nor that a silent session ends.
* `Bootstrap`: `WF(Provider)` for a run's own steps only. `ChangeAttemptFails` is always
  possible while an answer is awaited (`timeout.request`), so nothing is assumed of the server.
* `HarvesterImport`: `WF` of the provider's steps, of the servers together (Rancher fills
  tokens in, handles requests, an agent connects), and of the user who runs `pulumi up`
  again. The last two are assumptions about the environment; the two liveness properties
  claim nothing without them, and are about what the program does with a working one.
  Faults are never fair.
* `Deployment`: `WF` of the engine, whose creations end by an answer or a timeout (what a
  registration token without one does is a finding of its own), and of the user's next run.
* `Lifecycle`: `WF(Up)`. Somebody runs `pulumi up` again and each run ends. Nobody has to
  change, refresh or destroy anything.
* `FleetBundles`: `WF` of reading each GitRepo, copying the secret, and installing,
  uninstalling and becoming ready of each bundle: Fleet and Kubernetes try again until they
  succeed. Labels and failing pods are not fair.
* `HarborProxy`: `WF(Next)`. Commands end and the controller restarts the container.

## Proofs

All theorems hold for every value of the constants under the module's named assumptions.

* `WaitFor_proofs`: the inductive invariant `TimeInv` says where the clock can be at each
  await relative to `since` and to the deadline. `SettledInTime` alone is not inductive: it
  says nothing of how late a sleep may have begun. A second invariant counts probes for
  `PollingRate`. `ImplementsSettlement` maps each step to `Tick`, `Settle` or a stutter.
* `Bootstrap_proofs`: `Inv` says that each request on the wire names the bootstrap token as
  current password, so that at most one is ever accepted by a server, and that a run whose
  change was answered with success knows the server's password. From it follow
  `SavedPasswordWorks`, `LockoutIsPermanent` and the refinement of `PasswordRotation`.
  `RunsRunOut` bounds a run: `RunLeft` counts the steps it may still take if it fails as often as
  it may, each of its own steps lowers it, and nothing around it raises it.
* `HarvesterImport_proofs`: `IInv` says that the stack is a prefix of the six resources, all
  about the recorded cluster (`Chain`), that every setting or credential on the wire names
  that cluster (`Sent`), and that Harvester can only have been told of it (`Harvester`).
  Without `Sent` a late request could undo the rest. `TypeOK`, `CredentialWorks`,
  `StuckIsPermanent` and the refinement of `ClusterImport` follow. `CountInv` proves
  `OrphansPerFault`: it counts, besides what was made, the POSTs on the wire (`Posts`) and those
  that may still be sent without another fault (`Spent`). `FaultInv` proves `FailuresAreFaults`:
  every run but the one that goes on has cost a fault, and the only refusal is that of a second
  cluster, which comes when the import is stuck already.
* `Probes_proofs`: assumes that the registration token is not among the callers (`Counted`),
  whose retries are not counted. The invariant bounds the time since the probe began by what
  its earlier requests, attempts and backoffs can have taken; with it every step is a step of
  `WaitFor` or stutters.
* `Lifecycle_proofs`: the recorded password is none that a fresh server accepts (`OutsInv`), all
  that logs in has been given it (`RunInv`), and no provider replaces it, so a server rebuilt
  behind it stays bare (`BareInv`). `RebuiltIsLost` follows. For the rest `FullInv` says of each
  resource what its record is worth once a run has passed it (`Served`): the password opens the
  server, the cluster exists there, the setting holds that cluster's token, the credential its
  kubeconfig. That is not inductive by itself, since a run is in the middle of its resources
  most of the time and may have failed at some: `OrderInv` says that what a passed resource uses
  was passed before it without failing, and `CleanInv` that a passed resource has nothing left
  for its `update()` to create again. `ImportIsWhole`, `Converges` and `FailsForAReason` follow.
* `FleetBundles_proofs`: `ComeAlong` goes through the bundles of `apps/` and shows for each
  label waited for that the bundles providing it are wanted whenever the waiting one is.
  `DependenciesComeAlong` and `KeptWhileNeeded` follow for any choice of bundles that is closed
  under `dependsOn`. `RestIsAsAsked` goes from bundles that wait for nothing to those that wait
  for them: what is plain is ready at rest (`PlainAtRest`), so what it creates is supplied
  (`SuppliedAtRest`), so what is awaited is ready (`AwaitedAtRest`). It assumes besides that the
  choice is closed under what pods use (`SuppliersAssumption`), which takes the operator along
  with Ollama.
* `HarborProxy_proofs`: `Inv` adds that `REG_ID`, when it is used, is what Harbor holds for
  the registry at hand, and which turns of the range are complete. `WorkRunsOut` gives the Job
  at most `(BackoffLimit + 1) * (3 * N + 1)` commands: each lowers `WorkLeft`, a failing one because
  the script it starts again has no more commands than a whole script.
* `Deployment_proofs`: what is in the stack or on its way into it has its prerequisites in
  the stack (`StackIsClosed`), whatever failed. `UsesAreThere` then follows each pair of `Used`
  along at most three edges of `After`; the only pair without a path is the exception.
  For `NeverStuck` each resource is given a number (`Level`) that every edge of `After` descends
  (`OrderDescends`), so that of the resources still missing one of the least number can be
  started. It assumes that the tables a user fills share no name (`TablesAssumption`).

Only model-checked: the liveness properties (`SettlesUnlessSilent`, `EveryRunEnds`, `JobEnds`,
`ImportCompletes`, `DeploymentCompletes`, `UpsSucceed`, `LabelsSuffice`) and the liveness part of
the refinement `KeepsPromise`, as the prover does not reason about fairness and ENABLED. Of four of
them the part that is about states is proved: `FailuresAreFaults`, `NeverStuck`, `FailsForAReason`
and `RestIsAsAsked`. Of `EveryRunEnds` and `JobEnds` it is proved that only so many steps can be
taken (`RunsRunOut`, `WorkRunsOut`); that one can be taken until the end is model-checked.

## Not modelled

* The generated CRD packages (`components/*-crds`), which are nine tenths of the lines of the
  repository, are types without behaviour.
* The cloud-init processors, `deepMerge`, `stripMargin` and `noProvider` are pure functions over
  text and options. Their one hazard, two configurations that share a network object
  (`processors.ts:231`), takes `NetworkConfiguration`; the sample program uses `DhcpInterface`
  (`infrastructure.ts:66`), which then makes a network of its own for each.
* `RancherLogin` is used by no program; its `diff()` is always true.
* Helm charts and templates but for the Harbor Job, `apps/local` (Authentik on the Rancher
  cluster), `fleet/harvester-setup.yaml`, `sso.ts`, which nothing calls, and the manual scripts
  `Install-rancher-*`.
* Values, names, wording, logging and the rewriting of a kubeconfig's YAML.

External and modelled only as this code uses them: got, ssh2, the Pulumi engine (children of a
component wait for the component's `dependsOn`; a provider without `diff` is compared by
inputs), Rancher, Harvester, Harbor, Fleet, Helm, Sprouter and the Kubernetes Job controller.
