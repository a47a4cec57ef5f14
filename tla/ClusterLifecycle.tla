-------------------------- MODULE ClusterLifecycle --------------------------
(***************************************************************************)
(* The life of ONE cluster name: the operations of cluster/cluster.go and  *)
(* cluster/backup.go, one step per call they make on the persistent store  *)
(* or on the driver, with the error plumbing of the gRPC client and server *)
(* between them.  Processes are the callers: `kontainer-engine` command    *)
(* lines or goroutines inside Rancher, each with its own *Cluster value.   *)
(*                                                                         *)
(* The store is the one of the PersistentStore interface: every write is   *)
(* atomic here (the files behind the command line's store are a component  *)
(* of their own).  The cloud provider is external: it is modelled from how *)
(* the drivers treat it, as the state of the resources of this cluster.    *)
(***************************************************************************)
EXTENDS Integers, FiniteSets

CONSTANTS
  Procs,        \* the callers
  Ops,          \* the operations they may start, a subset of Operations
  Frontend,     \* "cli": the *Cluster starts as the stored one; "service": blank
  UpsertDriver, \* TRUE: Update is the same call as Create and answers with a
                \* new ClusterInfo (aks); FALSE: Update edits the one it got
  Serialized,   \* TRUE: the caller never runs two operations on a name at once
  Faults        \* what may go wrong outside the program

Operations == {"create", "update", "generateServiceAccount", "etcdRestore",
               "driverOnly", "remove", "forceRemove", "rmForce"}
RemoveOps  == {"remove", "forceRemove", "rmForce"}
FaultKinds == {"crash", "store", "rpc"}
Mishaps    == FaultKinds \cup {"removeFailed", "forced", "marked"}

ASSUME LifecycleAssumption ==
  /\ Ops \subseteq Operations
  /\ Frontend \in {"cli", "service"}
  /\ UpsertDriver \in BOOLEAN
  /\ Serialized \in BOOLEAN
  /\ Faults \subseteq FaultKinds

VARIABLES
  store,   \* what PersistStore.Get(name) would return
  cloud,   \* the resources at the provider: "none", "partial" or "up"
  pc,      \* where each caller is; "idle" between operations
  op,      \* the operation each caller runs
  c,       \* each caller's in-memory *Cluster
  info,    \* "retry" when Driver.Create gets a non-nil ClusterInfo, else "nil"
  mishap   \* history: the faults so far, removals that failed or were forced, and
           \* clusters that were marked Updating before they had a token

vars == <<store, cloud, pc, op, c, info, mishap>>

-----------------------------------------------------------------------------
(* The *Cluster value: its Status and which of the fields that later steps *)
(* look at are non-empty (RootCACert, Metadata, ServiceAccountToken).      *)

PreCreating == "Pre-Creating"
Creating    == "Creating"
PostCheck   == "Post-Checking"
Running     == "Running"
Error       == "Error"
Updating    == "Updating"
Initialized == "Init"
NoStatus    == ""

Status  == {PreCreating, Creating, PostCheck, Running, Error, Updating,
            Initialized, NoStatus}
Field   == {"ca", "metadata", "token"}
Cluster == [status : Status, has : SUBSET Field]

\* &Cluster{...} of NewCluster: no status, no field
Blank    == [status |-> NoStatus, has |-> {}]
\* Get(name) finds nothing
NoRecord == [status |-> "absent", has |-> {}]
\* the &types.ClusterInfo{} with the driver's state in Metadata that every
\* Driver.Create answers with once it has parsed its options
FreshInfo == [status |-> NoStatus, has |-> {"metadata"}]

\* where an operation starts
Entry(o) == CASE o = "create"                 -> "create.init"
              [] o = "update"                 -> "update.restore"
              [] o = "generateServiceAccount" -> "gensa.restore"
              [] o = "etcdRestore"            -> "etcd.restore"
              [] o = "driverOnly"             -> "aux.restore"
              [] OTHER                        -> "remove.restore"

PC == {"idle", "create.init", "create.restore", "create.exists", "create.pre",
       "create.config", "create.driver", "create.cloud", "create.running",
       "create.fail", "post.persist", "post.driver", "post.store",
       "update.restore", "update.config", "update.driver", "update.cloud",
       "gensa.restore", "gensa.persist", "gensa.driver", "gensa.store",
       "etcd.restore", "etcd.persist", "etcd.driver",
       "aux.restore", "aux.driver",
       "remove.restore", "remove.driver", "remove.store", "remove.forced",
       "remove.again"}

TypeOK ==
  /\ store \in Cluster \cup {NoRecord}
  /\ cloud \in {"none", "partial", "up"}
  /\ pc \in [Procs -> PC]
  /\ op \in [Procs -> Operations \cup {"none"}]
  /\ c \in [Procs -> Cluster]
  /\ info \in [Procs -> {"nil", "retry"}]
  /\ mishap \subseteq Mishaps

Init ==
  /\ store = NoRecord
  /\ cloud = "none"
  /\ pc = [p \in Procs |-> "idle"]
  /\ op = [p \in Procs |-> "none"]
  /\ c = [p \in Procs |-> Blank]
  /\ info = [p \in Procs |-> "nil"]
  /\ mishap = {}

-----------------------------------------------------------------------------
(* Building blocks.                                                        *)

Goto(p, l) ==
  pc' = [pc EXCEPT ![p] = l]

\* the operation returns; the process forgets its *Cluster
Return(p) ==
  /\ pc' = [pc EXCEPT ![p] = "idle"]
  /\ op' = [op EXCEPT ![p] = "none"]
  /\ c' = [c EXCEPT ![p] = Blank]
  /\ info' = [info EXCEPT ![p] = "nil"]

Continue(p, l) ==
  /\ Goto(p, l)
  /\ UNCHANGED <<op, c, info>>

Fault(f) ==
  /\ f \in Faults
  /\ mishap' = mishap \cup {f}

\* PersistStatus gets the Cluster by value: it writes the whole in-memory value
\* with the given status, and the in-memory Status does not change
PersistStatus(p, status) ==
  /\ store' = [c[p] EXCEPT !.status = status]
  /\ UNCHANGED mishap

StoreFails ==
  /\ Fault("store")
  /\ UNCHANGED store

\* mutant of Restored: the error of Get is not looked at
RestoredUnchecked(p) ==
  /\ c' = [c EXCEPT ![p] = store]
  /\ UNCHANGED mishap

\* c.restore(): every field from the stored cluster
Restored(p) ==
  /\ store # NoRecord
  /\ c' = [c EXCEPT ![p] = store]
  /\ UNCHANGED mishap

\* Get fails: there is no record, or the store does not answer
RestoreFails ==
  \/ store = NoRecord /\ UNCHANGED mishap
  \/ Fault("store")

\* mutant of PostFailed: the error leaves Create without its status Error
PostFailedSilently(p) == Return(p)

\* PostCheck returns an error: Create turns it into status Error, Update and
\* ETCDRestore hand it to their caller
PostFailed(p) ==
  IF op[p] = "create" THEN Continue(p, "create.fail") ELSE Return(p)

\* A caller starts an operation.  service.go builds a blank Cluster with
\* NewCluster; the commands take the stored one (FromCluster,
\* GetAllClusterFromStore) and, but for create, stop when there is none
Begin(p, o) ==
  /\ pc[p] = "idle"
  /\ Serialized => \A q \in Procs : pc[q] = "idle"
  /\ Frontend = "cli" /\ o # "create" => store # NoRecord
  /\ pc' = [pc EXCEPT ![p] = Entry(o)]
  /\ op' = [op EXCEPT ![p] = o]
  /\ c' = [c EXCEPT ![p] = IF Frontend = "cli" /\ store # NoRecord
                             THEN store ELSE Blank]
  /\ UNCHANGED <<store, cloud, info, mishap>>

-----------------------------------------------------------------------------
(* Create, createInner, create and PostCheck.                              *)

\* a stored cluster with certificates and no status was imported: mark it
CreateInit(p) ==
  /\ pc[p] = "create.init"
  /\ Continue(p, "create.restore")
  /\ IF "ca" \in c[p].has /\ c[p].status = NoStatus
       THEN PersistStatus(p, Initialized) \/ StoreFails
       ELSE UNCHANGED <<store, mishap>>
  /\ UNCHANGED cloud

\* mutant of AlreadyCreated: a cluster whose update failed is created again
AlreadyCreatedButUpdating == {Running, PostCheck, Initialized}

\* the statuses createInner takes for "already exists"
AlreadyCreated == {Updating, Running, PostCheck, Initialized}

\* createInner up to the call of create: the error of restore is dropped, and
\* then the Status in memory, whatever it is, decides
CreateRestore(p) ==
  /\ pc[p] = "create.restore"
  /\ \/ Restored(p)
     \/ RestoreFails /\ UNCHANGED c
  /\ IF c'[p].status \in AlreadyCreated
       THEN Goto(p, "create.exists") /\ UNCHANGED info
       ELSE /\ Goto(p, "create.pre")
            /\ info' = [info EXCEPT ![p] = IF c'[p].status = Error
                                             THEN "retry" ELSE "nil"]
  /\ UNCHANGED <<store, cloud, op>>

\* ErrClusterExists: Create persists Running, drops the store's error, returns
CreateExists(p) ==
  /\ pc[p] = "create.exists"
  /\ PersistStatus(p, Running) \/ StoreFails
  /\ Return(p)
  /\ UNCHANGED cloud

CreatePre(p) ==
  /\ pc[p] = "create.pre"
  /\ \/ PersistStatus(p, PreCreating) /\ Continue(p, "create.config")
     \/ StoreFails /\ Continue(p, "create.fail")
  /\ UNCHANGED cloud

\* the record says Creating before the provider is asked for anything
PersistCreating(p) == PersistStatus(p, Creating)

\* GetConfig, then PersistStatus(Creating)
CreateConfig(p) ==
  /\ pc[p] = "create.config"
  /\ \/ UNCHANGED <<store, mishap>> /\ Continue(p, "create.fail")
     \/ PersistCreating(p) /\ Continue(p, "create.driver")
     \/ StoreFails /\ Continue(p, "create.fail")
  /\ UNCHANGED cloud

\* Driver.Create answers with an error before it asks the provider for
\* anything: without info, or with info when its state was already stored
DriverCreateRejects(p) ==
  /\ pc[p] = "create.driver"
  /\ \E in \in {c[p], FreshInfo} : c' = [c EXCEPT ![p] = in]
  /\ Goto(p, "create.fail")
  /\ UNCHANGED <<store, cloud, op, info, mishap>>

\* the first request that makes or adopts resources
DriverCreateTouches(p) ==
  /\ pc[p] = "create.driver"
  /\ cloud' = IF cloud = "none" THEN "partial" ELSE cloud
  /\ Continue(p, "create.cloud")
  /\ UNCHANGED <<store, mishap>>

\* mutant of FailedCreateInfo: the server answers an error without info, as it
\* does for Update
FailedCreateInfoDropped(p) == c[p]

\* what create sees of the info of a failed Driver.Create: GrpcServer.Create
\* puts the error into info.CreateError, grpcClient.Create takes it out again
FailedCreateInfo(p) == FreshInfo

\* Driver.Create ends.  An error travels with info inside the answer
\* (CreateError), so transformClusterInfo runs in both cases; only when the
\* call itself is lost is info nil
DriverCreateReturns(p) ==
  /\ pc[p] = "create.cloud"
  /\ \/ /\ cloud' = "up"
        /\ c' = [c EXCEPT ![p] = FreshInfo]
        /\ Goto(p, "post.persist")
        /\ UNCHANGED mishap
     \/ /\ c' = [c EXCEPT ![p] = FailedCreateInfo(p)]
        /\ Goto(p, "create.fail")
        /\ UNCHANGED <<cloud, mishap>>
     \/ /\ Fault("rpc")
        /\ Goto(p, "create.fail")
        /\ UNCHANGED <<cloud, c>>
  /\ UNCHANGED <<store, op, info>>

\* Cluster.PostCheck, shared by Create, Update and ETCDRestore
PostPersist(p) ==
  /\ pc[p] = "post.persist"
  /\ \/ PersistStatus(p, PostCheck) /\ Continue(p, "post.driver")
     \/ StoreFails /\ PostFailed(p)
  /\ UNCHANGED cloud

\* Driver.PostCheck succeeds only on a cluster that answers and that the
\* metadata leads to; it adds the CA and the service account's token
PostCheckSucceeds(p) ==
  /\ cloud = "up"
  /\ "metadata" \in c[p].has
  /\ c' = [c EXCEPT ![p].has = @ \cup {"ca", "token"}]

PostDriver(p) ==
  /\ pc[p] = "post.driver"
  /\ \/ PostCheckSucceeds(p) /\ Goto(p, "post.store") /\ UNCHANGED <<op, info>>
     \/ PostFailed(p)
  /\ UNCHANGED <<store, cloud, mishap>>

PostStore(p) ==
  /\ pc[p] = "post.store"
  /\ \/ /\ PersistStatus(p, c[p].status)
        /\ IF op[p] = "create" THEN Continue(p, "create.running") ELSE Return(p)
     \/ StoreFails /\ PostFailed(p)
  /\ UNCHANGED cloud

\* the last line of Create
CreateRunning(p) ==
  /\ pc[p] = "create.running"
  /\ PersistStatus(p, Running) \/ StoreFails
  /\ Return(p)
  /\ UNCHANGED cloud

\* mutant of CreateFail: the test for ErrClusterExists is inverted
CreateFailInverted(p) ==
  /\ pc[p] = "create.fail"
  /\ PersistStatus(p, Running) \/ StoreFails
  /\ Return(p)
  /\ UNCHANGED cloud

\* the error branch of Create
CreateFail(p) ==
  /\ pc[p] = "create.fail"
  /\ PersistStatus(p, Error) \/ StoreFails
  /\ Return(p)
  /\ UNCHANGED cloud

-----------------------------------------------------------------------------
(* Update.                                                                 *)

UpdateRestore(p) ==
  /\ pc[p] = "update.restore"
  /\ \/ /\ Restored(p)
        /\ store.status \notin {PreCreating, Creating}
        /\ IF store.status = Error
             THEN /\ op' = [op EXCEPT ![p] = "create"]
                  /\ Goto(p, "create.init")
             ELSE Goto(p, "update.config") /\ UNCHANGED op
        /\ UNCHANGED info
     \/ /\ store.status \in {PreCreating, Creating}
        /\ UNCHANGED mishap
        /\ Return(p)
     \/ RestoreFails /\ Return(p)
  /\ UNCHANGED <<store, cloud>>

UpdateConfig(p) ==
  /\ pc[p] = "update.config"
  /\ \/ UNCHANGED <<store, mishap>> /\ Return(p)
     \/ PersistStatus(p, Updating) /\ Continue(p, "update.driver")
     \/ StoreFails /\ Return(p)
  /\ UNCHANGED cloud

\* Driver.Update that edits the ClusterInfo it was given (eks, gke, rke): an
\* error drops the answer, so the stored cluster stays as Update left it
DriverUpdate(p) ==
  /\ pc[p] = "update.driver"
  /\ ~UpsertDriver
  /\ \/ /\ cloud = "up"
        /\ "metadata" \in c[p].has
        /\ Continue(p, "post.persist")
     \/ Return(p)
  /\ UNCHANGED <<store, cloud, mishap>>

\* aks: Update is createOrUpdate, and makes the cluster when it is missing
DriverUpsertRejects(p) ==
  /\ pc[p] = "update.driver"
  /\ UpsertDriver
  /\ Return(p)
  /\ UNCHANGED <<store, cloud, mishap>>

DriverUpsertTouches(p) ==
  /\ pc[p] = "update.driver"
  /\ UpsertDriver
  /\ cloud' = IF cloud = "none" THEN "partial" ELSE cloud
  /\ Continue(p, "update.cloud")
  /\ UNCHANGED <<store, mishap>>

DriverUpsertReturns(p) ==
  /\ pc[p] = "update.cloud"
  /\ \/ /\ cloud' = "up"
        /\ c' = [c EXCEPT ![p] = FreshInfo]
        /\ Goto(p, "post.persist")
        /\ UNCHANGED <<op, info>>
     \/ Return(p) /\ UNCHANGED cloud
  /\ UNCHANGED <<store, mishap>>

-----------------------------------------------------------------------------
(* GenerateServiceAccount and ETCDRestore, and the operations that only    *)
(* read the record and call the driver (ETCDSave, ETCDRemoveSnapshot,      *)
(* RemoveLegacyServiceAccount).                                            *)

GenerateRestore(p) ==
  /\ pc[p] = "gensa.restore"
  /\ \/ Restored(p) /\ Goto(p, "gensa.persist") /\ UNCHANGED <<op, info>>
     \/ RestoreFails /\ Return(p)
  /\ UNCHANGED <<store, cloud>>

\* PersistStatus(Updating), whatever the status of the record was
MarkUpdating(p) ==
  /\ store' = [c[p] EXCEPT !.status = Updating]
  /\ mishap' = IF "token" \in c[p].has THEN mishap ELSE mishap \cup {"marked"}

GeneratePersist(p) ==
  /\ pc[p] = "gensa.persist"
  /\ \/ MarkUpdating(p) /\ Continue(p, "gensa.driver")
     \/ StoreFails /\ Return(p)
  /\ UNCHANGED cloud

GenerateDriver(p) ==
  /\ pc[p] = "gensa.driver"
  /\ \/ PostCheckSucceeds(p) /\ Goto(p, "gensa.store") /\ UNCHANGED <<op, info>>
     \/ Return(p)
  /\ UNCHANGED <<store, cloud, mishap>>

\* Store with the Status that restore read, not with Updating
GenerateStore(p) ==
  /\ pc[p] = "gensa.store"
  /\ PersistStatus(p, c[p].status) \/ StoreFails
  /\ Return(p)
  /\ UNCHANGED cloud

\* getDriverOps: restore, then GetConfig
ETCDOptions(p) ==
  /\ pc[p] = "etcd.restore"
  /\ \/ Restored(p) /\ Goto(p, "etcd.persist") /\ UNCHANGED <<op, info>>
     \/ Return(p) /\ UNCHANGED mishap
     \/ RestoreFails /\ Return(p)
  /\ UNCHANGED <<store, cloud>>

ETCDPersist(p) ==
  /\ pc[p] = "etcd.persist"
  /\ \/ MarkUpdating(p) /\ Continue(p, "etcd.driver")
     \/ StoreFails /\ Return(p)
  /\ UNCHANGED cloud

DriverETCDRestore(p) ==
  /\ pc[p] = "etcd.driver"
  /\ \/ /\ cloud = "up"
        /\ "metadata" \in c[p].has
        /\ Continue(p, "post.persist")
     \/ Return(p)
  /\ UNCHANGED <<store, cloud, mishap>>

AuxRestore(p) ==
  /\ pc[p] = "aux.restore"
  /\ \/ Restored(p) /\ Goto(p, "aux.driver") /\ UNCHANGED <<op, info>>
     \/ RestoreFails /\ Return(p)
  /\ UNCHANGED <<store, cloud>>

AuxDriver(p) ==
  /\ pc[p] = "aux.driver"
  /\ Return(p)
  /\ UNCHANGED <<store, cloud, mishap>>

-----------------------------------------------------------------------------
(* Remove, and the command `rm`, which always passes forceRemove.          *)

\* Cluster.Remove returns an error: `rm --force` then removes the record
RemoveFailed(p) ==
  IF op[p] = "rmForce" THEN Continue(p, "remove.again") ELSE Return(p)

\* a missing record is success for a store that answers with a Kubernetes
\* NotFound; the command line's store answers with an error of its own
RemoveRestore(p) ==
  /\ pc[p] = "remove.restore"
  /\ \/ Restored(p) /\ Goto(p, "remove.driver") /\ UNCHANGED <<op, info>>
     \/ /\ store = NoRecord
        /\ UNCHANGED mishap
        /\ IF Frontend = "cli" THEN RemoveFailed(p) ELSE Return(p)
     \/ Fault("store") /\ RemoveFailed(p)
  /\ UNCHANGED <<store, cloud>>

\* mutant of ForceNeeded: an error of the driver no longer stops Remove
ForceNeededNever(p) == FALSE

\* !forceRemove: Remove gives up when the driver fails
ForceNeeded(p) == op[p] = "remove"

\* Driver.Remove finds the resources through the metadata; it may fail with
\* some of them deleted, and it fails when there is no metadata.  A driver that
\* reports success is taken at its word: what the rke driver leaves on a host
\* that it does not reach is no longer in cloud (RKEDriver has it)
DriverRemove(p) ==
  /\ pc[p] = "remove.driver"
  /\ \/ /\ "metadata" \in c[p].has
        /\ cloud' = "none"
        /\ Continue(p, "remove.store")
        /\ UNCHANGED mishap
     \/ /\ \/ UNCHANGED cloud
           \/ "metadata" \in c[p].has /\ cloud = "up" /\ cloud' = "partial"
        /\ IF ForceNeeded(p)
             THEN Return(p) /\ mishap' = mishap \cup {"removeFailed"}
             ELSE /\ Continue(p, "remove.forced")
                  /\ mishap' = mishap \cup {"removeFailed", "forced"}
  /\ UNCHANGED store

\* PersistStore.Remove after Driver.Remove succeeded ("remove.store") or failed
\* with forceRemove ("remove.forced")
RemoveStore(p) ==
  /\ pc[p] \in {"remove.store", "remove.forced"}
  /\ \/ store' = NoRecord /\ Return(p) /\ UNCHANGED mishap
     \/ StoreFails /\ RemoveFailed(p)
  /\ UNCHANGED cloud

\* rm --force: the record goes whatever Cluster.Remove said
RemoveAgain(p) ==
  /\ pc[p] = "remove.again"
  /\ \/ store' = NoRecord /\ mishap' = mishap \cup {"forced"}
     \/ StoreFails
  /\ Return(p)
  /\ UNCHANGED cloud

-----------------------------------------------------------------------------
\* the process dies between two calls, or inside a call of the driver
Crash(p) ==
  /\ pc[p] # "idle"
  /\ Fault("crash")
  /\ Return(p)
  /\ UNCHANGED <<store, cloud>>

CreateNext(p) ==
  \/ CreateInit(p) \/ CreateRestore(p) \/ CreateExists(p) \/ CreatePre(p)
  \/ CreateConfig(p) \/ DriverCreateRejects(p) \/ DriverCreateTouches(p)
  \/ DriverCreateReturns(p) \/ CreateRunning(p) \/ CreateFail(p)

PostNext(p) ==
  PostPersist(p) \/ PostDriver(p) \/ PostStore(p)

UpdateNext(p) ==
  \/ UpdateRestore(p) \/ UpdateConfig(p) \/ DriverUpdate(p)
  \/ DriverUpsertRejects(p) \/ DriverUpsertTouches(p) \/ DriverUpsertReturns(p)

OtherNext(p) ==
  \/ GenerateRestore(p) \/ GeneratePersist(p) \/ GenerateDriver(p)
  \/ GenerateStore(p) \/ ETCDOptions(p) \/ ETCDPersist(p)
  \/ DriverETCDRestore(p) \/ AuxRestore(p) \/ AuxDriver(p)

RemoveNext(p) ==
  RemoveRestore(p) \/ DriverRemove(p) \/ RemoveStore(p) \/ RemoveAgain(p)

Next ==
  \E p \in Procs :
    \/ \E o \in Ops : Begin(p, o)
    \/ CreateNext(p) \/ PostNext(p) \/ UpdateNext(p) \/ OtherNext(p)
    \/ RemoveNext(p)
    \/ Crash(p)

Spec == Init /\ [][Next]_vars

-----------------------------------------------------------------------------
(* Properties.                                                             *)

AllIdle == \A p \in Procs : pc[p] = "idle"

\* Between operations, and as long as nothing outside the program failed, the
\* record of a cluster that has resources at the provider holds the metadata
\* Remove needs to find them: a failed Create keeps the info of the driver
\* (CreateError in types/rpc_server.go and rpc_client.go), a retried one, a
\* failed Update or PostCheck never overwrites it with a blank value.
MetadataCoversCloud ==
  AllIdle /\ mishap = {} /\ cloud # "none" => "metadata" \in store.has

\* A record that says Running is a cluster that is up and has the service
\* account token, whatever sequence of failing operations and lost calls led
\* there.  It needs a driver whose Update keeps the info, no process death, no
\* store error, no removal under way or stopped half way, and no
\* GenerateServiceAccount or ETCDRestore of a cluster that was never finished:
\* both mark it Updating, which createInner takes for created.
RunningIsUsable ==
  /\ store.status = Running
  /\ \A p \in Procs : pc[p] # "remove.store"
  /\ mishap \cap {"crash", "store", "removeFailed", "marked"} = {}
  => cloud = "up" /\ {"metadata", "token"} \subseteq store.has

\* createInner's check "if it is already created": Driver.Create is called
\* without a ClusterInfo only when the provider has nothing of this cluster.
\* Forgetting the cluster (a forced removal), a lost write or a dead process
\* excuse it.
NoDuplicateCreate ==
  [][\A p \in Procs :
       /\ pc[p] # "create.driver" /\ pc'[p] = "create.driver"
       /\ cloud # "none"
       /\ mishap \cap {"crash", "store", "forced"} = {}
       => info[p] = "retry"]_vars

\* the steps OrphanOnlyByForce allows
OrphanStep ==
  cloud' # "none" /\ store' = NoRecord =>
    \/ cloud # "none" /\ store = NoRecord
    \/ \E p \in Procs : /\ pc[p] \in {"remove.forced", "remove.again"}
                         /\ op[p] \in {"forceRemove", "rmForce"}

\* Crashes, lost calls and store errors included, the one step that may leave
\* resources at the provider without a record is a forced removal, which the
\* comment in Cluster.Remove allows ("Check for stray resources").
OrphanOnlyByForce == [][OrphanStep]_vars

\* However callers overlap, die or lose calls: a record that createInner takes
\* for a created cluster holds the metadata through which Update and Remove
\* find it.  It needs callers that create, update and remove only:
\* GenerateServiceAccount and ETCDRestore mark a failed create as Updating.
CreatedHasMetadata ==
  store.status \in {Updating, Running, PostCheck, Initialized}
    => "metadata" \in store.has

-----------------------------------------------------------------------------
(* The contract with a caller that runs one operation at a time.           *)

\* what a record means to the contract; Create stores the finished cluster with
\* an empty status just before it writes Running
Meaning(r) ==
  CASE r = NoRecord -> "none"
    [] r.status \in {PreCreating, Creating} -> "open"
    [] r.status = Error -> "failed"
    [] OTHER -> "created"

Contract == INSTANCE ClusterContract
              WITH record <- Meaning(store), lapses <- mishap

\* The operations of cluster.go and backup.go, one at a time and through every
\* fault, implement the contract: a created cluster is not opened again, what is
\* not up is not recorded as created, resources appear only under a record that
\* says Creating, and go before it does.  It needs a driver whose Update edits
\* the cluster it is given and a caller that starts from a blank *Cluster.
ImplementsContract == Contract!Spec
=============================================================================
