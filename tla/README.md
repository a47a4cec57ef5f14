# A TLA+ model of kontainer-engine

kontainer-engine creates, updates and removes Kubernetes clusters at cloud
providers. It is used in two ways: as a command line, which keeps its clusters
under the user's home directory, and as a library inside Rancher, which starts
one driver server per operation and brings its own store. This directory holds
TLA+ modules of the parts that decide whether a cluster that costs money is
ever lost, made twice or reported usable when it is not, the TLC configurations
that check them on small instances, and TLAPS proofs of the central properties.
File and line references are to the repository (`cluster/cluster.go` is
`src/cluster/cluster.go` in `PROJECT.json`).

## The system and its parts

| Part | Source | State it keeps | Operations | Hard because |
|---|---|---|---|---|
| Cluster lifecycle | `cluster/cluster.go`, `cluster/backup.go` | the record of a cluster (status, certificates, metadata, token) and its in-memory copy | Create, Update, PostCheck, GenerateServiceAccount, ETCDSave/Restore/RemoveSnapshot, Remove | each operation is a sequence of store writes and driver calls, any of which may fail or be the last one before the process dies; the next operation decides on the status it finds |
| gRPC plumbing | `types/rpc_server.go`, `types/rpc_client.go` | one server and one connection per operation | Serve, Stop, Close, and one method per driver operation | an error has to carry the driver's ClusterInfo; a call may be carried out and its answer lost |
| Engine service | `service/service.go` | the running driver of each operation | Start, convertCluster (health check), the operation, Stop | a goroutine or a child process, a port that is free again between picking and listening, two unbuffered channels and a timeout |
| Log stream | `logstream/logstream.go` | a channel of 100 events, a closed flag, a registry | write, Close | writers and closers race, and a writer sends with the mutex held |
| Command line store | `store/clistore.go`, `store/filestore.go`, `utils/utils.go` | one kubeconfig for all clusters, a directory per cluster | Store, PersistStatus, Remove, SetEnv, GetAllClusterFromStore | several files per operation, no transaction, commands may be killed |
| Commands | `cmd/*.go`, `main.go` | none | create, update, rm, env, ls, inspect, ... | `rm --force` removes the record whatever the driver said |
| EKS driver | `drivers/eks/eks_driver.go` | the state in the metadata | Create, Update, SetVersion, PostCheck, Remove | three stacks, a control plane, a key pair and a ConfigMap, each made by its own call, all found again on a retry |
| GKE driver | `drivers/gke/gke_driver.go` | the state in the metadata | the same and SetClusterSize | an update is up to four requests, each followed by a wait; a busy cluster refuses requests |
| AKS driver | `drivers/aks/aks_driver.go` | the state in the metadata | the same; Create and Update are one function | a polling loop with two retry counters, resources that depend on each other |
| RKE driver | `drivers/rke/rke_driver.go` | the full state with the certificates, in the metadata and in a temporary directory | the same and the etcd operations | the state travels between metadata, files and hosts, and a call may fail on some of the hosts |
| Import driver, service account token | `drivers/import/`, `drivers/util/utils.go` | objects in the Kubernetes API | GenerateServiceAccountToken, RemoveLegacyServiceAccount | each is several requests, retried by the drivers on what earlier attempts and other callers made |
| Driver options | `drivers/options/options.go`, `service.go` (flatten), `cluster.go` (flattenIfNotExist), `cmd/utils.go` | the recorded state, as JSON in the metadata | GetConfig, the merge in Create, Update and the backup calls, lookup by alias | Go maps are visited in any order; a field has several names; what is left out is filled in from the record |

How they interact: a caller (a command, or Rancher through `EngineService`)
builds a `*Cluster` and calls one of its methods. The method reads the record
with `restore`, writes intermediate statuses with `PersistStatus`, asks
`ConfigGetter` for the options and calls the driver over gRPC, in the same
process or in a child. What the driver answers is folded into the `*Cluster`
(`transformClusterInfo`) and written with `Store`. The store and the provider
are the only things that outlive the process. Nothing in the code stops two
callers from working on the same name.

What makes the parts correct, in one line each:

* lifecycle: as long as resources exist, the record leads to them; a cluster
  that is called Running is usable; a created cluster is not created again;
* service: every operation ends, talks to its own driver and releases it;
* log stream: no panic, no lost event, Close returns;
* store: where a file that was complete can be lost, and nowhere else; what was removed
  is gone;
* drivers: success means that everything asked for is there (or gone), whatever
  earlier attempts left behind, and every call returns;
* service account: a token that is handed out has its rights, and a retry is not
  stopped by what an earlier attempt made;
* options: an update keeps what it is not given, applies what it is given, and
  never moves the cluster away from its record by itself.

## The modules

| Module | Models | State and actions |
|---|---|---|
| `ClusterLifecycle` | `cluster.go`, `backup.go`, the error path of the gRPC methods, `cmd/remove.go` | `store` is what `PersistStore.Get` would return, `cloud` what the provider has, `c[p]` the `*Cluster` of caller `p`, `pc[p]` its next call. One action per call on the store or the driver; `Driver.Create` is three actions (it rejects its options, it touches the provider, it returns), so that a death in the middle is a behaviour |
| `LogStream` | `logstream.go` | the two mutexes, the `closed` flag and the channel; one action per lock, check, send, close, unlock. Its definitions begin with `Log` (`LogSpec`, `LogTypeOK`), so that one module can extend it and `DriverServer` |
| `DriverServer` | `RunningDriver.Start/Stop` and `convertCluster` in `service.go`, `Serve/Stop` in `rpc_server.go` | per operation: the caller, its Serve goroutine or child process, the connection; shared: who listens on which port. The timer of Start may fire at any time. A cancelled context kills the child in a step of its own, after the operation has returned or before |
| `CLIStore` | `clistore.go`, `filestore.go`, `utils.WriteToFile` | every file with its content (absent, torn, whole); one action per system call that changes one, each of which may fail, the deferred removal of the temporary file included |
| `ClusterContract` | what the lifecycle promises | an abstract specification: the record is absent, open, created or failed, the provider has nothing, a part or all of the cluster, and what went wrong outside the engine only grows. `ClusterLifecycle` instantiates it with `Meaning(store)` and `mishap` |
| `EKSDriver`, `GKEDriver`, `AKSDriver` | the three cloud drivers | what exists at the provider, the metadata, the next request of the call; the provider's own progress (marked external in the map) |
| `RKEDriver` | `rke_driver.go` | the PKI on each host, the metadata, the state file of the call, the hosts that `TunnelHosts` does not reach (`inactive`); one action per call into the vendored rke library, which may fail after any host, skips the hosts that are out of reach and in a removal or a reconciliation only warns about them |
| `ServiceAccount` | `drivers/util/utils.go`, PostCheck and RemoveLegacyServiceAccount of the drivers | the objects in the cluster, the secret of the account; one action per request, several callers |
| `DriverOptions` | `options.go`, GetConfig and `flatten`, the merge loops, `flattenIfNotExist`, getStateFromOptions and storeState of aks, the flags of the commands | the recorded state, the options of the call, the stack of objects being flattened; one action per element of a map. `Parts` gives the elements of an object at any depth. Init, Next and Spec begin with `Options`, for the same reason |
| `ClusterLifecycleProofs`, `CLIStoreProofs`, `EKSDriverProofs`, `GKEDriverProofs`, `RKEDriverProofs`, `ServiceAccountProofs` | | theorems and proofs, each about the module it is named after; that the lifecycle implements its contract is in the first |
| `PlumbingProofs`, `AKSDriverProofs` | | the same about `LogStream` and `DriverServer`, and about `DriverOptions` and `AKSDriver` |
| `MC...` | | instances for TLC |

`ClusterLifecycle` sees a driver as the drivers' modules justify it: a Create
may leave a part behind, an error of Create carries metadata once the options
were parsed, Remove needs the metadata, and a Remove that reports success has removed
what the driver knew of (what rke leaves on a host out of reach is in `RKEDriver`
only). It sees the store as atomic; what the
files behind the command line's store do in between is `CLIStore`.

Abstractions of data: a record is its status and the set of non-empty fields
among CA certificate, metadata and token; credentials are a generation;
versions and node counts are small numbers; a PKI is a number; an option value is
a set of strings (of one, unless it is a list), and nine fields of the aks state
stand for the forty that are handled alike; requests, names and messages are left
out. All control is kept: every early return of the operations is a
disjunct.

Definitions named as mutants in their comment are plausible mistakes (a dropped
guard, a wrong bound). They are used by no action; replacing the original by the
mutant must make TLC report the property listed with it in `PROJECT.json`.

## What the runs check

Run one with `tlc -workers 2 -config <run>.cfg <module>`.

| Run | Module | Distinct states | Checks |
|---|---|---|---|
| `lifecycle_service` | `MCClusterLifecycle` | 50 538 | Rancher: all operations, one at a time, with crashes, store errors and lost calls. `MetadataCoversCloud`: without faults the record leads to the resources. `RunningIsUsable`: Running means up, with metadata and token. `NoDuplicateCreate`: no Create of a cluster that exists. `OrphanOnlyByForce`: only a forced removal leaves resources without a record, faults included. `ImplementsContract`: the refinement of `ClusterContract`, faults included |
| `lifecycle_concurrent` | `MCClusterLifecycle` | 2 112 137 | two commands on one name that do not wait for each other, the aks kind of driver. `CreatedHasMetadata`: a record that is taken for created has its metadata |
| `logstream` | `MCLogStream` | 8 672 | two writers, two closers. `NoPanic`, `NothingLost` (order and content), `CloseReturns` |
| `driver_server` | `MCDriverServer` | 96 782 | a builtin driver and a child process with two ports. `StopAfterHealthCheck`: Stop never meets a nil server once the health check has passed. `NothingLeftBehind`: an operation that returned has closed its connection, stopped its server and had its child killed, which it does not wait for. `RightDriver`: the operation reaches its own driver. `StartReturns`: Start returns unless `net.Listen` fails after the five seconds. `DriverEnds`: the Serve goroutine of a driver that answered and the child process end |
| `store` | `MCCLIStore` | 7 218 298 | two clusters that share the kubeconfig, one command killed between any two system calls or with any of them failing. `NeverLost`: a file that was complete is lost between `os.Remove` and `os.Rename` of WriteToFile or with its cluster, and nowhere else. `RemoveForgets`: a successful Remove leaves nothing. `StoredUsable`: without a fault a stored cluster keeps its entry and its certificates |
| `eks_driver` | `MCEKSDriver` | 429 373 | all faults, every call with any version. `CreateComplete`, `RemoveSweeps`. `RecordedVersionRuns`: the record claims no version newer than the one that runs, unless a retried Create met an older control plane. `CallsReturn`: unless AWS fails the update that is waited for |
| `gke_driver` | `MCGKEDriver` | 988 961 | all faults, every call with any of eight wishes. `Settled`: success means that the cluster runs what was asked for, unless Create met a cluster made for other options. `RemoveSweeps`. `CallsReturn`: unless the call waits for a cluster in ERROR or DEGRADED |
| `aks_driver` | `MCAKSDriver` | 8 151 | all faults. `Settled`, `DependenciesFirst`, `CallsReturn` |
| `rke_driver` | `MCRKEDriver` | 2 648 903 | two nodes, every call failing after any host, any of the hosts out of reach, the engine killed. `Deployed`: success means that every node runs the recorded PKI. `RecordLeads`: the record names every host with components but the strays (below). `RemoveSweeps`: a successful Remove leaves nothing but strays. `PKIKept`: a PKI is made once |
| `service_account` | `MCServiceAccount` | 1 223 889 | two callers on one cluster, each driver, up to three failing requests, lost answers or deaths. `TokenIsAdmin`, `RetryTolerant`, `LegacyGone` |
| `driver_options` | `MCDriverOptions` | 8 129 670 | every sequence of service calls and commands over eight inputs that omit, change, nest, repeat and mistype fields. `PlaceKept`: the record leads to every cluster that was made, unless a caller gave another subscription. `NothingForgotten`: an Update of the service keeps what it is not given. `GivenApplied`: a field that is given is applied |
| `gke_node_version` | `MCGKEDriver` | violated | `NodeVersionApplied`: GKE's Update logs the new node version (`gke_driver.go:668`), sends the old one (line 671) and records the new one |

Every module has a type invariant `TypeOK` (`LogTypeOK` and `OptionsTypeOK`
in `LogStream` and `DriverOptions`); the runs of the lifecycle, the log
stream and the store list it, the other models satisfy it on the same instances.

### Other behaviours the model shows

The modules say in their properties what excuses these; the `MC` modules keep
the unexcused property, which TLC refutes when it is added to a configuration.

* `RunningHasToken` (`MCClusterLifecycle`, `Ops = {"create"}`, command line,
  faults `{"crash"}`): a process that dies after `PersistStatus(PostCheck)` and
  before `Store` (`cluster.go:141`) leaves Post-Checking; the next Create takes
  the cluster for complete and marks it Running, and no token was ever stored.
* `ExistsMeansCreated` (`MCClusterLifecycle`, create and
  generateServiceAccount, no faults): GenerateServiceAccount marks a record
  whose creation failed as Updating (`cluster.go:157`); when the driver then
  fails, Create reports an existing cluster.
* `NoDuplicateCreate` with `UpsertDriver = TRUE` and the service frontend: an
  Update of the aks driver answers with an empty Status, `Store` writes it, and
  the next Create of the running cluster calls `Driver.Create`.
* `KubeconfigCurrent` (`MCCLIStore`, two generations, no faults): a second Store leaves the old
  credentials in the kubeconfig (`clistore.go:176`).
* `EnvContextUsable` (`MCCLIStore`, no faults): `env` of a cluster that only has
  a status makes a context current that the kubeconfig does not have.
* `ForceRemoves` (`MCCLIStore`, no faults): `rm --force` before any kubeconfig
  exists drops the error of the second removal and leaves the record.
* `NothingEverLost` (`MCCLIStore`): WriteToFile removes the file before it renames the
  temporary one over it (`utils.go:36`). A command that is killed in between, or whose
  `os.Rename` fails (the deferred `os.Remove` then takes the temporary file as well),
  loses the kubeconfig of all clusters or the record of one.
* `StartAlwaysReturns` (`MCDriverServer`): Start takes five seconds of silence for
  success and then waits on `addr` (`service.go:432`). When `net.Listen` fails after
  that, Start and Serve wait for each other forever.
* `ChildDeadAtReturn` (`MCDriverServer`): `r.cancel()` (`service.go:502`) has the child
  killed by a goroutine of `exec`, nobody waits for it, and its port may be in use for
  a while after the operation.
* A builtin driver whose options convertCluster rejects is stopped before the health
  check (`service.go:188`): Stop may meet the nil server (`rpc_server.go:157`) and panic.
  `StopAfterHealthCheck` is about the calls that passed the check.
* `RecordedVersionAlwaysRuns` (`MCEKSDriver`): a Create that is retried with a newer
  version records it (`eks_driver.go:583`) and tolerates the control plane of the earlier
  attempt (line 684). The record is then ahead of the cluster, and an Update to that
  version does nothing.
* `AlwaysSettled` (`MCGKEDriver`): a Create that is retried with other options meets
  alreadyExists (`gke_driver.go:583`) and answers success with the version and the size
  of the first attempt.
* `CallsAlwaysReturn` (`MCGKEDriver`, `FairSpec`, faults `{"status"}`): waitCluster
  (`gke_driver.go:902`) and waitNodePool (line 937) know no status but RUNNING; a cluster
  in ERROR or DEGRADED, or a pool in ERROR or RUNNING_WITH_ERROR, is polled forever.
* `UpdateReturns` (`MCEKSDriver`, `FairSpec`, faults `{"update"}`): the loop of
  `waitForClusterUpdateReady` (`eks_driver.go:1407`) ends only with Successful.
  An update that AWS ends as Failed is polled forever.
* `RecoveryAwaited` (`MCAKSDriver`, faults `{"provision"}`): AKS announces that it
  waits for a failed cluster to recover (`aks_driver.go:880`); the same status
  falls through to the error at line 892, and `failedCount` never passes 1.
* `CreateCreates` (`MCRKEDriver`): Create only logs an error of ClusterInit
  (`rke_driver.go:500`) and goes on; `Deployed` excuses it (`warned`).
* `RemoveRemoves` and `RecordAlwaysLeads` (`MCRKEDriver`): hosts keep components that
  the record does not lead to, or that a successful Remove leaves (`strays`): those that
  a killed call or a failed Update had touched, those that a retried Create or an
  ETCDRestore with another configuration dropped, and those out of reach. `TunnelHosts`
  puts an unreachable host aside, ClusterRemove succeeds without it
  (rke `cmd/remove.go:68`), and a reconciliation that cannot clean a dropped host warns
  and goes on (rke `cluster/reconcile.go:83`).
* RestoreEtcdSnapshot logs a provisioning that reached only some of the hosts as a
  warning and returns it as an error all the same.
* `PlaceAlwaysKept` (`MCDriverOptions`): the subscription is an ordinary option
  (`aks_driver.go:413`) that picks the client of put and delete (line 568), and is not
  among the metadata that win (line 1084). A retried Create or an Update with another
  subscription makes a second cluster; after success the record leads to the new one,
  after a failed Update to the old one, and Remove deletes that one only. The base URL,
  which picks the Azure cloud, is in the same position.
* `LegacyTokenRemoved` (`MCServiceAccount`): RemoveLegacyServiceAccount of eks
  returns nil when it cannot get a clientset (`eks_driver.go:1503`).
* In `ServiceAccount`, a lookup of the cluster role that fails for any reason
  leads to Create (`utils.go:66`), and a role that exists is an error there: two
  overlapping callers may stop each other once; `RetryTolerant` speaks of calls
  that meet no other.
* `CommandKeepsFields` (`MCDriverOptions`): `getDriverOpts` sets every flag, given
  or not (`cmd/utils.go:38`), and aks looks these names up first. An update with
  `--kubernetes-version` and `--client-id` records a node count of 0 and no tags;
  without `--client-id` it is rejected, although the record has one.
* `OldKeyApplied` (`MCDriverOptions`): the state is flattened under
  `agentOsdiskSize`, which is looked up before `osDiskSizeGb`
  (`aks_driver.go:430`): once recorded, a disk size given under the old key is
  ignored. `publicKeyContents` is in the same position.
* A location or resource group that made Create fail is recorded with the failure
  and wins over the corrected one of the next attempt (`cluster.go:119`). An empty
  list of tags does not clear the recorded ones. A value of the wrong JSON type is
  ignored. Tags given as an object become options: one named `location` competes
  with the location, by the order of a Go map.
* `RetryTolerant` (`MCEKSDriver`, faults `{"api"}`): `createConfigMap` tolerates
  a conflict, but an object that exists is a different error
  (`eks_driver.go:861`), so a retry after that point fails.

## Bounds

* `MaxFailures = 5` (health check), `MaxDeletes = 11` (requests of GKE's Remove),
  `Retries = 5` and `MaxFailed = 3` (AKS) are the code's own numbers.
* `Capacity = 1` and `MaxWrites = 2` in `logstream`: the code has 100 and no
  limit; one slot makes the channel full and empty around every step, and the
  proof of `NoPanic` holds for every capacity.
* `MaxVersion = 2`, `MaxNodes = 2`: enough to tell the old value from the new.
* `store`: two `Names`, so that one cluster's write meets the entry of another;
  two generations of credentials, one without client keys, so that two certificates are
  equal, and one without any certificate; `MaxFaults = 1`: the proofs hold for any number.
* `eks_driver`: `Choices` are what the user brings along: network and role, or a key pair.
* `gke_driver`: `MCWants` has two complete wishes and every change alone; a zero is a
  field that is not asked for.
* `rke_driver`: two nodes, so that a configuration can gain, lose and exchange one;
  `MaxTries = 3` is the code's. A PKI number that is nowhere in use is taken again,
  which keeps the model finite without a bound on the number of calls.
* `service_account`: two callers, `MaxFaults = 3`; `MaxPolls = 5` and the attempts
  per driver are the code's.
* `driver_options`: five configurations and three sets of flags, each of which
  makes one thing happen (named in `MCDriverOptions`), objects inside objects
  and a second subscription included; calls are unbounded. A flag that the command does not have ends it in the
  parser and is no call. Whole numbers only: `int64(float64)` is the identity on them.
  No list has two tags of one name, of which the driver would keep the last.
* Two callers in `lifecycle_concurrent`; operations per caller are unbounded in
  all runs. The proofs hold for every set of callers.

Symmetry (of callers, names or nodes) is used in `lifecycle_concurrent`, `store`,
`rke_driver` and `service_account`, which check invariants and action properties
and no liveness. Deadlock is checked except in `logstream` and `driver_server`,
where the goroutines end.

## Fairness

* `LogStream`: strong fairness of taking a mutex (Go's mutex hands over to a
  waiter that starves), weak fairness of every other step, and a reader that
  keeps reading, as the loop of the consumer does. Closers do call Close.
  Nothing obliges a writer to write.
* `DriverServer`: weak fairness of the goroutines, the one of `exec` that kills a child
  whose context is cancelled included, and of the child process. Nothing is assumed of
  how long `net.Listen` takes.
* Drivers: a call that can go on does, and the provider ends what it has begun
  (GKE in RUNNING, ERROR or DEGRADED; EKS and AKS well or badly; nothing is assumed of a
  recovery at Azure or a repair at Google). A failing request never counts as progress: fairness is
  stated of the steps that are not such a failure. Nothing obliges anybody to
  call an operation.
* `ClusterLifecycle`, `CLIStore`, `RKEDriver`, `ServiceAccount` and
  `DriverOptions` are checked for safety only: whether a driver's call returns is
  the cloud drivers' question, and the loops of the others are counted.

## What is proved

With `tlapm <module>.tla`; every theorem holds for all values of the constants
that satisfy the named assumption of the module.

`ClusterLifecycleProofs`, from `LifecycleAssumption`:

* `TypeCorrect`: `Spec => []TypeOK`.
* `CreatedKeepsMetadata`: `Spec => []CreatedHasMetadata` for any number of
  overlapping callers and every fault, if the callers only create, update,
  remove and ask the driver (`CoreCallers`; with GenerateServiceAccount it is
  false, see above). `CreatedHasMetadata` is not inductive: a caller writes what
  it holds in memory, so the in-memory copies have to be constrained too.
  `MetadataInv` adds, for each caller, that its copy is blank or described as
  well, that it has metadata at the points where the code goes on to write a
  created status, and that a Create that found an existing cluster holds one of
  the created statuses.
* `NoSilentOrphan`: `Spec => OrphanOnlyByForce`, if operations on the name are
  serialized or there are no removals (`CallerDiscipline`). Its invariant
  `OrphanInv` says that a caller about to touch the provider has a record in the
  store, that at most one caller is active when they are serialized, and that
  the provider has nothing left when a successful removal deletes the record.
  Without the discipline it is false: a Remove may delete the record under a
  running Create.

and in its second part, about EngineService:

* `LifecycleImplementsContract`: `Spec => ImplementsContract` for every set of
  callers, operations and faults, if the caller is EngineService with a driver
  whose Update edits the cluster it is given (`ServiceCaller`). What a step means
  to the contract depends on what the caller remembers: Create writes Creating
  over a record it has read before, PostCheck writes Post-Checking without looking
  at the provider. `ContractInv` therefore says for every label what the store
  (`StoreAt`), the provider (`CloudAt`) and the in-memory cluster (`MemoryAt`)
  are when a caller is there, that one caller is active, that a record with an
  unsettled status is an excused one or belongs to a running Create, and that an
  unfinished one has no token. Each lemma `...Kept` shows of one group of actions
  that they keep the invariant's part of the acting caller and are a step of the
  contract; `KeptInv` puts the parts together. The excuses in the contract
  (`lapses`) are needed: TLC refutes the refinement without any one of them.
* `RunningMeansUsable`: `Spec => []RunningIsUsable`, `RecordCoversCloud`:
  `Spec => []MetadataCoversCloud` and `CreatesOnce`: `Spec => NoDuplicateCreate`,
  for the same caller. `ContractInv` knows where a caller is but not what the
  operations before it left; `RecordInv` adds that a finished record is that of a
  cluster that is up, that the record covers the provider whenever no caller is
  between touching the provider and writing, and what each caller holds in memory
  of it. It is inductive only together with `ContractInv`.

`PlumbingProofs`, first part, from `LogStreamAssumption`:

* `NeverPanics`: `LogSpec => []NoPanic` for any number of writers and closers and
  any capacity. `PanicInv` says who holds the mutex in the critical section,
  that the channel is open at the send and at the close, and that the channel is
  closed with the flag unset only between the two statements of Close, under the
  mutex.
* `LogTypeCorrect`: `LogSpec => []LogTypeOK`, the bound on the channel included. `TypeInv`
  adds that only a writer is at the send, and that a writer that has begun a
  Write has not used up its writes.
* `NothingIsLost`: `LogSpec => []NothingLost` for any number of writers, closers and
  writes. The property is inductive with the types and `PanicInv`: a send appends the writer's
  next event, a receive moves the head of the channel to what was received, and
  neither changes `Stream`, the two together, anywhere else.

and its second part, from `DriverServerAssumption`, for any number of overlapping
operations and any set of ports:

* `HealthCheckOrdersStop`: `Spec => []StopAfterHealthCheck`, `ReturnsClean`:
  `Spec => []NothingLeftBehind` and `OwnDriverAnswers`: `Spec => []RightDriver`.
  `ServerInv` ties, for each operation, the label of Start to that of its Serve
  goroutine (they meet on two unbuffered channels), says that a listener that is
  held is on the operation's own port, and that a passed health check means a
  server that was made. What returns has had its child killed by its own cancel; the
  death is another step. A step of another operation is `Harmless`: it neither
  moves this one nor takes a port that is in use.

`CLIStoreProofs`, from `CLIStoreAssumption`, for any clusters, credentials and
number of faults (the assumption says that the kubeconfig is no cluster's file):

* `StoreTypes`: `Spec => []TypeOK`; `RemovesForget`: `Spec => []RemoveForgets`;
  `StoredStaysUsable`: `Spec => []StoredUsable`; `NoFileIsLost`:
  `Spec => NeverLost`. `StoreInv` says which files a command has left to write
  (`Targets`, `pending`), that what it has written is whole on disk with the bytes
  meant for it, that the kubeconfig it is about to write has lost the removed
  entry and no other, and, as long as there was no fault, that every stored
  cluster is usable but for the one file that is being exchanged. `NoFileIsLost` goes
  through the system calls: each writes in place only what is not there, and only
  `os.Remove` with a complete temporary file takes a whole file away.

`EKSDriverProofs`, from `EKSAssumption`, for any number of versions and every fault:

* `CreatesCompletely`: `Spec => []CreateComplete`, `RemovesEverything`:
  `Spec => []RemoveSweeps` and `RecordedVersionsRun`:
  `Spec => []RecordedVersionRuns`. All three speak of calls that have succeeded;
  `CreateInv` and `RemoveInv` say for each label which parts are built or gone by
  then, and that nothing but Remove takes a part away. `VersionInv` follows an
  update from the request to the metadata: a finished update has the requested
  version, and what is about to be recorded runs, unless the record is `ahead`: a
  retried Create met a control plane older than the one it asked for.

`GKEDriverProofs`, from `GKEAssumption`, for any number of versions and nodes and every
fault:

* `AnswersAreSettled`: `Spec => []Settled` and `RemovesEverything`:
  `Spec => []RemoveSweeps`. An update is up to four requests, each followed by a
  wait, and what it asked for first has to survive the later ones. `GoalInv` speaks
  of Google's goal: once the request for the master or the nodes is behind the call,
  the goal has the value and the cluster runs or is waited for; a cluster
  that runs has reached its goal, also after a fault; and a Create that met
  "alreadyExists" either asked for what the cluster was made for or is the exception that
  `Settled` names (`other`).

`RKEDriverProofs`, from `RKEAssumption`, for any finite set of nodes, with calls that
fail after any host and an engine that dies anywhere:

* `AnswersAreDeployed`: `Spec => []Deployed`, `RecordIsALead`:
  `Spec => []RecordLeads`, `RemovesEverything`: `Spec => []RemoveSweeps` and
  `PKIIsKept`: `Spec => PKIKept`. The state is in three places, and `StepInv` says
  how they agree: the state file with the metadata it was restored from
  (`FileInv`), the metadata with the configuration (`RecordInv`), and both with the
  hosts (`LeadInv`: every host with components is in the record, in the
  state file of the running call, or a stray; a host that was dropped, or that a
  Remove did not reach, becomes a stray). `FreshPKIExists` shows by counting
  that the finite set of PKI numbers always has an unused one, so that the reuse
  of numbers never hides a behaviour.

`ServiceAccountProofs`, for any number of callers, every driver and every fault:

* `TokensAreAdmin`: `Spec => []TokenIsAdmin` and `RemovalsRemove`:
  `Spec => []LegacyGone`. Neither is inductive: both speak of calls that have
  returned. `AccountInv` says what a caller at each label can rely on
  (`Built(label)`: what the requests before it made, or found made by another),
  and that the legacy account is gone once the binding is looked for. A step of
  one caller is `Harmless` to the others: it takes away no object that a token
  needs and brings no legacy object back.
* `RetriesAreTolerant`: `Spec => []RetryTolerant`. `CalmInv` adds that a call that
  is still calm runs alone and that the object it is about to make is not there,
  and the one it is about to delete is: what it has looked up is not stale.

`AKSDriverProofs`, first part, from `OptionsAssumption`, for every set of
configurations and of command lines, objects nested to any depth, and every order in
which the maps are visited:

* `PlaceIsKept`: `OptionsSpec => []PlaceKept`, `NothingIsForgotten`:
  `OptionsSpec => NothingForgotten` and `GivenIsApplied`: `OptionsSpec => GivenApplied`.
  All three speak of the end of a call; `OptionsInv` follows the options there. While a
  configuration is flattened, every option is that of one of its elements, and every
  element has set its option or is still below the stack (`FlattenInv`, `Waiting`);
  from then on a given field stays under its first key (`GivenInv`), the record has
  its say under the keys of the metadata seen so far (`MergeInv`), nothing but the caller
  and the record decides on the subscription (`SubscriptionInv`), and a field that
  is left out has no option but the one read from the recorded JSON (`KeptInv`,
  `StateInv`). The argument rests on facts about the tables of the driver, each a
  lemma: no two fields share a key (`KeysDiffer`), the JSON name of a field is one
  of its keys (`StateKeyKnown`), and the keys that the merge sets belong to name,
  resource group and location (`MergedKeys`). An alias added to the wrong field
  would break one of them.
* The assumption says that `Parts` obeys its recursive definition (the objects of an
  object are in its domain, so a configuration may nest as deep as it likes) and that
  a list given as a flag has a value.

and its second part, about `AKSDriver`, for any versions, sizes, operations and faults:

* `SuccessIsSettled`: `Spec => []Settled` and `DependenciesComeFirst`:
  `Spec => []DependenciesFirst`. `DriverInv` says which call is at which
  step, that nobody but the call changes the cluster between its put and its answer
  while Azure, which may fail and recover, does not change what was put, and that the
  group and the workspace exist whenever a cluster does or is about to be put. The
  last part is why SetVersion and SetClusterSize, which ensure neither, are safe:
  they have got a cluster first.

Each inductive invariant was first checked by TLC on the instance of its run (that
of the store on two generations of credentials as well).

Only model-checked: all liveness (`CloseReturns`, `StartReturns`,
`DriverEnds`, and `CallsReturn` of the three cloud drivers), because the
prover handles neither fairness nor ENABLED. Every safety property that a passing
run checks is proved.

## What is not modelled

* The insides of the vendored rke library: `RKEDriver` has what its calls do to the state
  file and to the hosts, reachable or not. Certificate rotation, states of rke before the full state, and the kubeconfig
  file that PostCheck writes are left out. The state file stays in the temporary
  directory after the call (`rke_driver.go:471`); no
  later call reads it.
* Create of the import driver, which parses a kubeconfig; its Update and Remove do
  nothing. The token of gke is Google's access token and no service account.
* Of the options of aks: displayName, which GetConfig sets next to the name
  (`service.go:88`), and the other fields that are looked up and recorded like the nine.
  An agent pool without a name: its profile, and with it the node count, is then not sent
  (`aks_driver.go:781`).
* Options of eks and gke: their state is recorded under Go's field names, so that
  nothing of it comes back as an option. Of rke the options are one YAML document.
* `types/drivers.pb.go` is generated; `drivers/eks/templates.go` is data for
  AWS; `utils/writer.go` prints tables; `example/` is an example.
* Help and listings of the commands; the jail and the environment of a child
  process; getters that only read.
* Two commands that edit the kubeconfig at the same time: nothing in the code
  orders them, so the second write wins.

## Status

`ClusterLifecycle` with its contract, `LogStream`, `DriverServer`, `CLIStore`, the four
drivers, `ServiceAccount` and `DriverOptions` are modelled and checked, and the safety
properties of all of them are proved. Left for later: the options of the gke and eks
drivers, should their states ever be recorded under the names of their options, and a
refinement that puts a driver's module in the place of the driver in
`ClusterLifecycle`.
