----------------------- MODULE ClusterLifecycleProofs -----------------------
(***************************************************************************)
(* Proofs about ClusterLifecycle, for every set of callers and every       *)
(* choice of the other constants, in two parts.  The first is about        *)
(* callers that may overlap: the types, CreatedHasMetadata and             *)
(* OrphanOnlyByForce.  The second is about EngineService, whose calls on a *)
(* cluster do not overlap: the lifecycle implements ClusterContract, and   *)
(* what the same invariant says of the record: RunningIsUsable,            *)
(* MetadataCoversCloud and NoDuplicateCreate.                              *)
(***************************************************************************)
EXTENDS ClusterLifecycle, TLAPS

\* A process returns: the parts of the state that belong to the processes keep
\* their types.
LEMMA ReturnType ==
  ASSUME TypeOK, NEW p \in Procs, Return(p)
  PROVE  /\ pc' \in [Procs -> PC]
         /\ op' \in [Procs -> Operations \cup {"none"}]
         /\ c' \in [Procs -> Cluster]
         /\ info' \in [Procs -> {"nil", "retry"}]
  <1>1. Blank \in Cluster
    BY DEF Blank, Cluster, Status, Field, NoStatus
  <1>2. "idle" \in PC
    BY DEF PC
  <1> QED
    BY <1>1, <1>2 DEF TypeOK, Return

\* Writing the in-memory cluster with a status of the program keeps the type of
\* the store.
LEMMA PersistType ==
  ASSUME TypeOK, NEW p \in Procs, NEW s \in Status, PersistStatus(p, s)
  PROVE  /\ store' \in Cluster
         /\ mishap' \subseteq Mishaps
  BY DEF TypeOK, PersistStatus, Cluster

\* Marking a cluster Updating keeps the types and leaves a record.
LEMMA MarkType ==
  ASSUME TypeOK, NEW p \in Procs, MarkUpdating(p)
  PROVE  /\ store' \in Cluster
         /\ mishap' \subseteq Mishaps
  BY DEF TypeOK, MarkUpdating, Mishaps, Cluster, Status, Updating

\* A store error changes the history only.
LEMMA StoreFailsType ==
  ASSUME TypeOK, StoreFails
  PROVE  /\ store' \in Cluster \cup {NoRecord}
         /\ mishap' \subseteq Mishaps
  BY LifecycleAssumption DEF TypeOK, StoreFails, Fault, FaultKinds, Mishaps

\* Reading the record, or failing to.
LEMMA RestoreType ==
  ASSUME TypeOK, NEW p \in Procs
  PROVE  /\ Restored(p) => /\ c' \in [Procs -> Cluster]
                           /\ c'[p] = store
                           /\ mishap' \subseteq Mishaps
         /\ RestoreFails => mishap' \subseteq Mishaps
  BY LifecycleAssumption DEF TypeOK, Restored, RestoreFails, Fault, FaultKinds, Mishaps

\* A successful Driver.PostCheck adds fields and keeps the status.
LEMMA PostCheckType ==
  ASSUME TypeOK, NEW p \in Procs, PostCheckSucceeds(p)
  PROVE  /\ c' \in [Procs -> Cluster]
         /\ c'[p].status = c[p].status
         /\ "metadata" \in c'[p].has
         /\ \A q \in Procs : q # p => c'[q] = c[q]
  BY DEF TypeOK, PostCheckSucceeds, Cluster, Field

USE DEF Continue, Goto

\* The statuses the program persists.
LEMMA StatusConstants ==
  /\ {PreCreating, Creating, PostCheck, Running, Error, Updating, Initialized,
      NoStatus} \subseteq Status
  /\ FreshInfo \in Cluster
  BY DEF Status, Cluster, FreshInfo, Field, NoStatus

\* The steps of create and createInner keep the types.
LEMMA CreateTypeStep ==
  ASSUME TypeOK, NEW p \in Procs, CreateNext(p)
  PROVE  TypeOK'
  <1> USE DEF TypeOK, PC
  <1>1. CASE CreateInit(p)
    BY <1>1, PersistType, StoreFailsType, StatusConstants DEF CreateInit
  <1>2. CASE CreateRestore(p)
    BY <1>2, RestoreType DEF CreateRestore
  <1>3. CASE CreateExists(p)
    BY <1>3, PersistType, StoreFailsType, StatusConstants, ReturnType DEF CreateExists
  <1>4. CASE CreatePre(p)
    BY <1>4, PersistType, StoreFailsType, StatusConstants DEF CreatePre
  <1>5. CASE CreateConfig(p)
    BY <1>5, PersistType, StoreFailsType, StatusConstants
       DEF CreateConfig, PersistCreating
  <1>6. CASE DriverCreateRejects(p)
    BY <1>6, StatusConstants DEF DriverCreateRejects
  <1>7. CASE DriverCreateTouches(p)
    BY <1>7 DEF DriverCreateTouches
  <1>8. CASE DriverCreateReturns(p)
    <2>1. c' \in [Procs -> Cluster]
      BY <1>8, StatusConstants DEF DriverCreateReturns, FailedCreateInfo
    <2>2. pc' \in [Procs -> PC]
      BY <1>8 DEF DriverCreateReturns
    <2>3. mishap' \subseteq Mishaps
      BY <1>8 DEF DriverCreateReturns, Fault, FaultKinds, Mishaps
    <2>4. cloud' \in {"none", "partial", "up"}
      BY <1>8 DEF DriverCreateReturns
    <2> QED
      BY <1>8, <2>1, <2>2, <2>3, <2>4 DEF DriverCreateReturns
  <1>9. CASE CreateRunning(p)
    BY <1>9, PersistType, StoreFailsType, StatusConstants, ReturnType DEF CreateRunning
  <1>10. CASE CreateFail(p)
    BY <1>10, PersistType, StoreFailsType, StatusConstants, ReturnType DEF CreateFail
  <1> QED
    BY <1>1, <1>2, <1>3, <1>4, <1>5, <1>6, <1>7, <1>8, <1>9, <1>10 DEF CreateNext

\* The steps of PostCheck keep the types.
LEMMA PostTypeStep ==
  ASSUME TypeOK, NEW p \in Procs, PostNext(p)
  PROVE  TypeOK'
  <1> USE DEF TypeOK, PC
  <1>1. CASE PostPersist(p)
    BY <1>1, PersistType, StoreFailsType, StatusConstants, ReturnType
       DEF PostPersist, PostFailed
  <1>2. CASE PostDriver(p)
    BY <1>2, ReturnType, PostCheckType DEF PostDriver, PostFailed
  <1>3. CASE PostStore(p)
    <2>1. c[p].status \in Status
      BY DEF Cluster
    <2> QED
      BY <1>3, <2>1, PersistType, StoreFailsType, ReturnType DEF PostStore, PostFailed
  <1> QED
    BY <1>1, <1>2, <1>3 DEF PostNext

\* The steps of Update keep the types.
LEMMA UpdateTypeStep ==
  ASSUME TypeOK, NEW p \in Procs, UpdateNext(p)
  PROVE  TypeOK'
  <1> USE DEF TypeOK, PC
  <1>1. CASE UpdateRestore(p)
    BY <1>1, RestoreType, ReturnType DEF UpdateRestore, Operations
  <1>2. CASE UpdateConfig(p)
    BY <1>2, PersistType, StoreFailsType, StatusConstants, ReturnType DEF UpdateConfig
  <1>3. CASE DriverUpdate(p)
    BY <1>3, ReturnType DEF DriverUpdate
  <1>4. CASE DriverUpsertRejects(p)
    BY <1>4, ReturnType DEF DriverUpsertRejects
  <1>5. CASE DriverUpsertTouches(p)
    BY <1>5 DEF DriverUpsertTouches
  <1>6. CASE DriverUpsertReturns(p)
    BY <1>6, StatusConstants, ReturnType DEF DriverUpsertReturns
  <1> QED
    BY <1>1, <1>2, <1>3, <1>4, <1>5, <1>6 DEF UpdateNext

\* GenerateServiceAccount, the etcd operations and the operations that only
\* ask the driver keep the types.
LEMMA OtherTypeStep ==
  ASSUME TypeOK, NEW p \in Procs, OtherNext(p)
  PROVE  TypeOK'
  <1> USE DEF TypeOK, PC
  <1>1. CASE GenerateRestore(p)
    BY <1>1, RestoreType, ReturnType DEF GenerateRestore
  <1>2. CASE GeneratePersist(p)
    BY <1>2, MarkType, StoreFailsType, ReturnType DEF GeneratePersist
  <1>3. CASE GenerateDriver(p)
    BY <1>3, ReturnType, PostCheckType DEF GenerateDriver
  <1>4. CASE GenerateStore(p)
    <2>1. c[p].status \in Status
      BY DEF Cluster
    <2> QED
      BY <1>4, <2>1, PersistType, StoreFailsType, ReturnType DEF GenerateStore
  <1>5. CASE ETCDOptions(p)
    BY <1>5, RestoreType, ReturnType DEF ETCDOptions
  <1>6. CASE ETCDPersist(p)
    BY <1>6, MarkType, StoreFailsType, ReturnType DEF ETCDPersist
  <1>7. CASE DriverETCDRestore(p)
    BY <1>7, ReturnType DEF DriverETCDRestore
  <1>8. CASE AuxRestore(p)
    BY <1>8, RestoreType, ReturnType DEF AuxRestore
  <1>9. CASE AuxDriver(p)
    BY <1>9, ReturnType DEF AuxDriver
  <1> QED
    BY <1>1, <1>2, <1>3, <1>4, <1>5, <1>6, <1>7, <1>8, <1>9 DEF OtherNext

\* The steps of Remove keep the types.
LEMMA RemoveTypeStep ==
  ASSUME TypeOK, NEW p \in Procs, RemoveNext(p)
  PROVE  TypeOK'
  <1> USE DEF TypeOK, PC
  <1>1. CASE RemoveRestore(p)
    <2>1. CASE Restored(p) /\ Goto(p, "remove.driver") /\ UNCHANGED <<op, info>>
      BY <1>1, <2>1, RestoreType DEF RemoveRestore
    <2>2. CASE UNCHANGED mishap /\ (RemoveFailed(p) \/ Return(p))
      BY <1>1, <2>2, ReturnType DEF RemoveRestore, RemoveFailed
    <2>3. CASE Fault("store") /\ RemoveFailed(p)
      <3>1. mishap' \subseteq Mishaps
        BY <2>3, LifecycleAssumption DEF Fault, FaultKinds, Mishaps
      <3> QED
        BY <1>1, <2>3, <3>1, ReturnType DEF RemoveRestore, RemoveFailed
    <2> QED
      BY <1>1, <2>1, <2>2, <2>3 DEF RemoveRestore
  <1>2. CASE DriverRemove(p)
    BY <1>2, ReturnType DEF DriverRemove, Mishaps
  <1>3. CASE RemoveStore(p)
    BY <1>3, ReturnType, StoreFailsType DEF RemoveStore, RemoveFailed
  <1>4. CASE RemoveAgain(p)
    BY <1>4, ReturnType, StoreFailsType DEF RemoveAgain, Mishaps
  <1> QED
    BY <1>1, <1>2, <1>3, <1>4 DEF RemoveNext

\* Every state the operations of cluster.go reach is well typed: in particular
\* no Get error ever ends up as an in-memory cluster.
THEOREM TypeCorrect == Spec => []TypeOK
  <1>1. Init => TypeOK
    <2>1. Blank \in Cluster
      BY DEF Blank, Cluster, Status, Field, NoStatus
    <2> QED
      BY <2>1 DEF Init, TypeOK, PC
  <1>2. TypeOK /\ [Next]_vars => TypeOK'
    <2> SUFFICES ASSUME TypeOK, [Next]_vars PROVE TypeOK'
      OBVIOUS
    <2>1. ASSUME NEW p \in Procs, NEW o \in Ops, Begin(p, o) PROVE TypeOK'
      <3>1. Entry(o) \in PC
        BY DEF Entry, PC
      <3>2. Blank \in Cluster
        BY DEF Blank, Cluster, Status, Field, NoStatus
      <3> QED
        BY <2>1, <3>1, <3>2, LifecycleAssumption DEF Begin, TypeOK
    <2>2. ASSUME NEW p \in Procs, Crash(p) PROVE TypeOK'
      BY <2>2, ReturnType, LifecycleAssumption DEF Crash, TypeOK, Fault, FaultKinds, Mishaps
    <2>3. CASE UNCHANGED vars
      BY <2>3 DEF vars, TypeOK
    <2> QED
      BY <2>1, <2>2, <2>3, CreateTypeStep, PostTypeStep, UpdateTypeStep,
         OtherTypeStep, RemoveTypeStep DEF Next
  <1> QED
    BY <1>1, <1>2, PTL DEF Spec

-----------------------------------------------------------------------------
(* CreatedHasMetadata, for callers that overlap in any way.                *)

\* the callers only create, update and remove
CoreCallers == Ops \cap {"generateServiceAccount", "etcdRestore"} = {}

\* a value whose status stands for a created cluster has metadata
Described(r) ==
  r.status \in {Updating, Running, PostCheck, Initialized, NoStatus}
    => "metadata" \in r.has

\* where the in-memory cluster is that of a created one
KnowsCluster == {"post.persist", "post.driver", "post.store", "create.running",
                 "update.config", "update.driver", "update.cloud"}
SidePC == {"gensa.restore", "gensa.persist", "gensa.driver", "gensa.store",
           "etcd.restore", "etcd.persist", "etcd.driver"}

\* The inductive invariant: it speaks of each record and each in-memory value
\* on its own, which is why no interleaving can break it.
MetadataInv ==
  /\ Described(store)
  /\ \A p \in Procs :
       /\ c[p] = Blank \/ Described(c[p])
       /\ pc[p] \in KnowsCluster => "metadata" \in c[p].has
       /\ pc[p] = "create.exists" => c[p].status \in AlreadyCreated
       /\ pc[p] \notin SidePC

\* PersistStatus keeps the store described when it writes a status that is not
\* one of a created cluster, or a value that has metadata.
LEMMA PersistDescribed ==
  ASSUME TypeOK, NEW p \in Procs, NEW s \in Status, PersistStatus(p, s),
         s \in {PreCreating, Creating, Error} \/ "metadata" \in c[p].has
  PROVE  Described(store)'
  BY DEF TypeOK, PersistStatus, Described, Cluster, PreCreating, Creating, Error,
         Updating, Running, PostCheck, Initialized, NoStatus

\* A process that returns forgets its cluster and leaves every other one alone.
LEMMA ReturnMetadata ==
  ASSUME TypeOK, MetadataInv, NEW p \in Procs, Return(p), Described(store)'
  PROVE  MetadataInv'
  BY DEF TypeOK, MetadataInv, Return, KnowsCluster, SidePC

\* A process that goes on to a label that asks nothing of its cluster, or with
\* a cluster that has metadata.
LEMMA MoveMetadata ==
  ASSUME TypeOK, MetadataInv, NEW p \in Procs, NEW l \in PC,
         pc' = [pc EXCEPT ![p] = l], Described(store)',
         \A q \in Procs : q # p => c'[q] = c[q],
         c'[p] = Blank \/ Described(c'[p]),
         l \in KnowsCluster => "metadata" \in c'[p].has,
         l = "create.exists" => c'[p].status \in AlreadyCreated,
         l \notin SidePC
  PROVE  MetadataInv'
  BY DEF TypeOK, MetadataInv

\* An in-memory cluster with a status of a created one, or with certificates,
\* is not the blank one, so it has metadata.
LEMMA KnownDescribed ==
  ASSUME TypeOK, MetadataInv, NEW p \in Procs,
         \/ c[p].status \in AlreadyCreated
         \/ "ca" \in c[p].has /\ c[p].status = NoStatus
  PROVE  "metadata" \in c[p].has
  <1>0. Blank.status = NoStatus /\ Blank.has = {} /\ NoStatus \notin AlreadyCreated
    BY DEF AlreadyCreated, Blank, Updating, Running, PostCheck, Initialized, NoStatus
  <1>1. c[p] # Blank
    BY <1>0
  <1>2. Described(c[p])
    BY <1>1 DEF MetadataInv
  <1> QED
    BY <1>2 DEF Described, AlreadyCreated

\* The ClusterInfo that a driver answers Create with has metadata.
LEMMA FreshDescribed == Described(FreshInfo) /\ "metadata" \in FreshInfo.has
  BY DEF Described, FreshInfo

\* create and createInner take a cluster for created, in the store and in
\* memory, only with its metadata.
LEMMA CreateMetadataStep ==
  ASSUME TypeOK, MetadataInv, NEW p \in Procs, CreateNext(p)
  PROVE  MetadataInv'
  <1> USE StatusConstants
  <1>0. Described(store) /\ (c[p] = Blank \/ Described(c[p]))
    BY DEF MetadataInv
  <1>1. CASE CreateInit(p)
    <2>1. Described(store)'
      BY <1>0, <1>1, PersistDescribed, KnownDescribed DEF CreateInit, StoreFails, Described
    <2> QED
      BY <1>0, <1>1, <2>1, MoveMetadata DEF CreateInit, KnowsCluster, SidePC, PC
  <1>2. CASE CreateRestore(p)
    <2>1. /\ \A q \in Procs : q # p => c'[q] = c[q]
          /\ c'[p] = Blank \/ Described(c'[p])
      BY <1>0, <1>2 DEF CreateRestore, Restored, TypeOK
    <2>2. Described(store)'
      BY <1>0, <1>2 DEF CreateRestore, Described
    <2>3. CASE c'[p].status \in AlreadyCreated
      <3>1. pc' = [pc EXCEPT ![p] = "create.exists"]
        BY <1>2, <2>3 DEF CreateRestore
      <3> QED
        BY <2>1, <2>2, <2>3, <3>1, MoveMetadata DEF KnowsCluster, SidePC, PC
    <2>4. CASE c'[p].status \notin AlreadyCreated
      <3>1. pc' = [pc EXCEPT ![p] = "create.pre"]
        BY <1>2, <2>4 DEF CreateRestore
      <3> QED
        BY <2>1, <2>2, <3>1, MoveMetadata DEF KnowsCluster, SidePC, PC
    <2> QED
      BY <2>3, <2>4
  <1>3. CASE CreateExists(p)
    <2>1. "metadata" \in c[p].has
      BY <1>3, KnownDescribed DEF CreateExists, MetadataInv
    <2>2. Described(store)'
      BY <1>0, <1>3, <2>1, PersistDescribed DEF CreateExists, StoreFails, Described
    <2> QED
      BY <1>3, <2>2, ReturnMetadata DEF CreateExists
  <1>4. CASE CreatePre(p)
    <2>1. Described(store)'
      BY <1>0, <1>4, PersistDescribed DEF CreatePre, StoreFails, Described
    <2> QED
      BY <1>0, <1>4, <2>1, MoveMetadata DEF CreatePre, KnowsCluster, SidePC, PC
  <1>5. CASE CreateConfig(p)
    <2>1. Described(store)'
      BY <1>0, <1>5, PersistDescribed DEF CreateConfig, PersistCreating, StoreFails, Described
    <2> QED
      BY <1>0, <1>5, <2>1, MoveMetadata DEF CreateConfig, KnowsCluster, SidePC, PC
  <1>6. CASE DriverCreateRejects(p)
    <2>1. /\ \A q \in Procs : q # p => c'[q] = c[q]
          /\ c'[p] = Blank \/ Described(c'[p])
      BY <1>0, <1>6, FreshDescribed DEF DriverCreateRejects, TypeOK
    <2>2. Described(store)'
      BY <1>0, <1>6 DEF DriverCreateRejects, Described
    <2> QED
      BY <1>6, <2>1, <2>2, MoveMetadata DEF DriverCreateRejects, KnowsCluster, SidePC, PC
  <1>7. CASE DriverCreateTouches(p)
    <2>1. Described(store)'
      BY <1>0, <1>7 DEF DriverCreateTouches, Described
    <2> QED
      BY <1>0, <1>7, <2>1, MoveMetadata DEF DriverCreateTouches, KnowsCluster, SidePC, PC
  <1>8. CASE DriverCreateReturns(p)
    <2>1. Described(store)'
      BY <1>0, <1>8 DEF DriverCreateReturns, Described
    <2>2. CASE c' = [c EXCEPT ![p] = FreshInfo]
      <3>1. c'[p] = FreshInfo /\ \A q \in Procs : q # p => c'[q] = c[q]
        BY <2>2 DEF TypeOK
      <3> QED
        BY <1>8, <2>1, <3>1, FreshDescribed, MoveMetadata
           DEF DriverCreateReturns, KnowsCluster, SidePC, PC
    <2>3. CASE UNCHANGED c /\ pc' = [pc EXCEPT ![p] = "create.fail"]
      BY <1>0, <2>1, <2>3, MoveMetadata DEF KnowsCluster, SidePC, PC
    <2> QED
      BY <1>8, <2>2, <2>3 DEF DriverCreateReturns, FailedCreateInfo
  <1>9. CASE CreateRunning(p)
    <2>1. "metadata" \in c[p].has
      BY <1>9 DEF CreateRunning, MetadataInv, KnowsCluster
    <2>2. Described(store)'
      BY <1>0, <1>9, <2>1, PersistDescribed DEF CreateRunning, StoreFails, Described
    <2> QED
      BY <1>9, <2>2, ReturnMetadata DEF CreateRunning
  <1>10. CASE CreateFail(p)
    <2>1. Described(store)'
      BY <1>0, <1>10, PersistDescribed DEF CreateFail, StoreFails, Described
    <2> QED
      BY <1>10, <2>1, ReturnMetadata DEF CreateFail
  <1> QED
    BY <1>1, <1>2, <1>3, <1>4, <1>5, <1>6, <1>7, <1>8, <1>9, <1>10 DEF CreateNext

\* PostCheck persists statuses of a created cluster, with the metadata that
\* Create or Update handed over.
LEMMA PostMetadataStep ==
  ASSUME TypeOK, MetadataInv, NEW p \in Procs, PostNext(p)
  PROVE  MetadataInv'
  <1> USE StatusConstants
  <1>0. /\ Described(store) /\ (c[p] = Blank \/ Described(c[p]))
        /\ c[p].status \in Status
        /\ "metadata" \in c[p].has
    BY DEF MetadataInv, TypeOK, Cluster, PostNext, PostPersist, PostDriver,
           PostStore, KnowsCluster
  <1>a. Described(c[p])
    BY <1>0 DEF Described
  <1>1. CASE PostPersist(p)
    <2>1. Described(store)'
      BY <1>0, <1>1, PersistDescribed DEF PostPersist, StoreFails, Described
    <2> QED
      BY <1>0, <1>1, <2>1, MoveMetadata, ReturnMetadata
         DEF PostPersist, PostFailed, KnowsCluster, SidePC, PC
  <1>2. CASE PostDriver(p)
    <2>1. Described(store)'
      BY <1>0, <1>2 DEF PostDriver, Described
    <2>2. CASE PostCheckSucceeds(p) /\ pc' = [pc EXCEPT ![p] = "post.store"]
      <3>1. Described(c'[p])
        BY <1>a, <2>2, PostCheckType DEF Described
      <3> QED
        BY <2>1, <2>2, <3>1, PostCheckType, MoveMetadata DEF KnowsCluster, SidePC, PC
    <2>3. CASE PostFailed(p)
      BY <1>0, <2>1, <2>3, MoveMetadata, ReturnMetadata
         DEF PostFailed, KnowsCluster, SidePC, PC
    <2> QED
      BY <1>2, <2>2, <2>3 DEF PostDriver
  <1>3. CASE PostStore(p)
    <2>1. Described(store)'
      BY <1>0, <1>3, PersistDescribed DEF PostStore, StoreFails, Described
    <2> QED
      BY <1>0, <1>3, <2>1, MoveMetadata, ReturnMetadata
         DEF PostStore, PostFailed, KnowsCluster, SidePC, PC
  <1> QED
    BY <1>1, <1>2, <1>3 DEF PostNext

\* Update refuses a record without metadata and writes nothing less.
LEMMA UpdateMetadataStep ==
  ASSUME TypeOK, MetadataInv, NEW p \in Procs, UpdateNext(p)
  PROVE  MetadataInv'
  <1> USE StatusConstants
  <1>0. Described(store) /\ (c[p] = Blank \/ Described(c[p]))
    BY DEF MetadataInv
  <1>1. CASE UpdateRestore(p)
    <2>1. Described(store)'
      BY <1>0, <1>1 DEF UpdateRestore, Described
    <2>2. CASE Return(p)
      BY <2>1, <2>2, ReturnMetadata
    <2>3. CASE Restored(p)
      <3>1. c'[p] = store /\ \A q \in Procs : q # p => c'[q] = c[q]
        BY <2>3 DEF Restored, TypeOK
      <3>2. CASE pc' = [pc EXCEPT ![p] = "create.init"]
        BY <1>0, <2>1, <3>1, <3>2, MoveMetadata DEF KnowsCluster, SidePC, PC
      <3>3. CASE /\ pc' = [pc EXCEPT ![p] = "update.config"]
                 /\ store.status \notin {PreCreating, Creating, Error}
        <4>1. "metadata" \in store.has
          BY <1>0, <2>3, <3>3 DEF Restored, TypeOK, Cluster, Status, Described
        <4> QED
          BY <1>0, <2>1, <3>1, <3>3, <4>1, MoveMetadata DEF KnowsCluster, SidePC, PC
      <3> QED
        BY <1>1, <2>2, <3>2, <3>3 DEF UpdateRestore
    <2> QED
      BY <1>1, <2>2, <2>3 DEF UpdateRestore
  <1>2. CASE UpdateConfig(p)
    <2>1. "metadata" \in c[p].has
      BY <1>2 DEF UpdateConfig, MetadataInv, KnowsCluster
    <2>2. Described(store)'
      BY <1>0, <1>2, <2>1, PersistDescribed DEF UpdateConfig, StoreFails, Described
    <2> QED
      BY <1>0, <1>2, <2>1, <2>2, MoveMetadata, ReturnMetadata
         DEF UpdateConfig, KnowsCluster, SidePC, PC
  <1>3. CASE DriverUpdate(p)
    <2>1. Described(store)'
      BY <1>0, <1>3 DEF DriverUpdate, Described
    <2> QED
      BY <1>0, <1>3, <2>1, MoveMetadata, ReturnMetadata
         DEF DriverUpdate, KnowsCluster, SidePC, PC
  <1>4. CASE DriverUpsertRejects(p)
    <2>1. Described(store)'
      BY <1>0, <1>4 DEF DriverUpsertRejects, Described
    <2> QED
      BY <1>4, <2>1, ReturnMetadata DEF DriverUpsertRejects
  <1>5. CASE DriverUpsertTouches(p)
    <2>1. Described(store)' /\ "metadata" \in c[p].has
      BY <1>0, <1>5 DEF DriverUpsertTouches, Described, MetadataInv, KnowsCluster
    <2> QED
      BY <1>0, <1>5, <2>1, MoveMetadata DEF DriverUpsertTouches, KnowsCluster, SidePC, PC
  <1>6. CASE DriverUpsertReturns(p)
    <2>1. Described(store)'
      BY <1>0, <1>6 DEF DriverUpsertReturns, Described
    <2>2. CASE Return(p)
      BY <2>1, <2>2, ReturnMetadata
    <2>3. CASE /\ c' = [c EXCEPT ![p] = FreshInfo]
               /\ pc' = [pc EXCEPT ![p] = "post.persist"]
      <3>1. c'[p] = FreshInfo /\ \A q \in Procs : q # p => c'[q] = c[q]
        BY <2>3 DEF TypeOK
      <3>2. "post.persist" \in PC \ (SidePC \cup {"create.exists"})
        BY DEF SidePC, PC
      <3>3. Described(c'[p]) /\ "metadata" \in c'[p].has
        BY <3>1, FreshDescribed
      <3> QED
        BY <2>1, <2>3, <3>1, <3>2, <3>3, MoveMetadata
    <2> QED
      BY <1>6, <2>2, <2>3 DEF DriverUpsertReturns
  <1> QED
    BY <1>1, <1>2, <1>3, <1>4, <1>5, <1>6 DEF UpdateNext

\* GenerateServiceAccount and ETCDRestore never run; the driver-only operations
\* write nothing.
LEMMA OtherMetadataStep ==
  ASSUME TypeOK, MetadataInv, NEW p \in Procs, OtherNext(p)
  PROVE  MetadataInv'
  <1>1. AuxRestore(p) \/ AuxDriver(p)
    BY DEF MetadataInv, SidePC, OtherNext, GenerateRestore, GeneratePersist,
           GenerateDriver, GenerateStore, ETCDOptions, ETCDPersist, DriverETCDRestore
  <1>2. Described(store) /\ Described(store)'
    BY <1>1 DEF AuxRestore, AuxDriver, MetadataInv, Described
  <1>3. CASE AuxRestore(p)
    <2>1. CASE Return(p)
      BY <1>2, <2>1, ReturnMetadata
    <2>2. CASE Restored(p) /\ pc' = [pc EXCEPT ![p] = "aux.driver"]
      <3>1. c'[p] = store /\ \A q \in Procs : q # p => c'[q] = c[q]
        BY <2>2 DEF Restored, TypeOK
      <3> QED
        BY <1>2, <2>2, <3>1, MoveMetadata DEF KnowsCluster, SidePC, PC
    <2> QED
      BY <1>3, <2>1, <2>2 DEF AuxRestore
  <1>4. CASE AuxDriver(p)
    BY <1>2, <1>4, ReturnMetadata DEF AuxDriver
  <1> QED
    BY <1>1, <1>3, <1>4

\* Remove deletes the record or leaves it as it was.
LEMMA RemoveMetadataStep ==
  ASSUME TypeOK, MetadataInv, NEW p \in Procs, RemoveNext(p)
  PROVE  MetadataInv'
  <1>0. /\ Described(store) /\ (c[p] = Blank \/ Described(c[p]))
        /\ Described(NoRecord)
    BY DEF MetadataInv, Described, NoRecord, Updating, Running, PostCheck,
           Initialized, NoStatus
  <1>1. CASE RemoveRestore(p)
    <2>1. Described(store)'
      BY <1>0, <1>1 DEF RemoveRestore, Described
    <2>2. CASE Restored(p) /\ pc' = [pc EXCEPT ![p] = "remove.driver"]
      <3>1. c'[p] = store /\ \A q \in Procs : q # p => c'[q] = c[q]
        BY <2>2 DEF Restored, TypeOK
      <3> QED
        BY <1>0, <2>1, <2>2, <3>1, MoveMetadata DEF KnowsCluster, SidePC, PC
    <2>3. CASE RemoveFailed(p) \/ Return(p)
      BY <1>0, <2>1, <2>3, MoveMetadata, ReturnMetadata
         DEF RemoveFailed, KnowsCluster, SidePC, PC
    <2> QED
      BY <1>1, <2>2, <2>3 DEF RemoveRestore
  <1>2. CASE DriverRemove(p)
    <2>1. Described(store)'
      BY <1>0, <1>2 DEF DriverRemove, Described
    <2> QED
      BY <1>0, <1>2, <2>1, MoveMetadata, ReturnMetadata
         DEF DriverRemove, KnowsCluster, SidePC, PC
  <1>3. CASE RemoveStore(p)
    <2>1. Described(store)'
      BY <1>0, <1>3 DEF RemoveStore, StoreFails, Described
    <2> QED
      BY <1>0, <1>3, <2>1, MoveMetadata, ReturnMetadata
         DEF RemoveStore, RemoveFailed, KnowsCluster, SidePC, PC
  <1>4. CASE RemoveAgain(p)
    <2>1. Described(store)'
      BY <1>0, <1>4 DEF RemoveAgain, StoreFails, Described
    <2> QED
      BY <1>4, <2>1, ReturnMetadata DEF RemoveAgain
  <1> QED
    BY <1>1, <1>2, <1>3, <1>4 DEF RemoveNext

\* Whatever callers that create, update and remove do to each other, and
\* whenever they die or lose a call: the record of a cluster that Create takes
\* for created has the metadata that leads to its resources.
THEOREM CreatedKeepsMetadata ==
  ASSUME CoreCallers
  PROVE  Spec => []CreatedHasMetadata
  <1>1. Init => MetadataInv
    BY DEF Init, MetadataInv, Described, NoRecord, KnowsCluster, SidePC, Updating,
           Running, PostCheck, Initialized, NoStatus
  <1>2. TypeOK /\ MetadataInv /\ [Next]_vars => MetadataInv'
    <2> SUFFICES ASSUME TypeOK, MetadataInv, [Next]_vars PROVE MetadataInv'
      OBVIOUS
    <2>1. ASSUME NEW p \in Procs, NEW o \in Ops, Begin(p, o) PROVE MetadataInv'
      <3>1. /\ Described(store) /\ Described(store)'
            /\ Described(NoRecord)
        BY <2>1 DEF Begin, MetadataInv, Described, NoRecord, Updating, Running,
                    PostCheck, Initialized, NoStatus
      <3>2. Entry(o) \in PC \ (KnowsCluster \cup SidePC \cup {"create.exists"})
        BY CoreCallers DEF CoreCallers, Entry, PC, KnowsCluster, SidePC
      <3>3. /\ c'[p] = Blank \/ Described(c'[p])
            /\ \A q \in Procs : q # p => c'[q] = c[q]
        BY <2>1, <3>1 DEF Begin, TypeOK
      <3> QED
        BY <2>1, <3>1, <3>2, <3>3, MoveMetadata DEF Begin
    <2>2. ASSUME NEW p \in Procs, Crash(p) PROVE MetadataInv'
      BY <2>2, ReturnMetadata DEF Crash, MetadataInv, Described
    <2>3. CASE UNCHANGED vars
      BY <2>3 DEF vars, MetadataInv, Described
    <2> QED
      BY <2>1, <2>2, <2>3, CreateMetadataStep, PostMetadataStep, UpdateMetadataStep,
         OtherMetadataStep, RemoveMetadataStep DEF Next
  <1>3. MetadataInv => CreatedHasMetadata
    BY DEF MetadataInv, Described, CreatedHasMetadata
  <1> QED
    BY <1>1, <1>2, <1>3, TypeCorrect, PTL DEF Spec

-----------------------------------------------------------------------------
(* OrphanOnlyByForce, for callers that are serialized or never remove.     *)

\* one operation at a time on this name, or no caller that removes it
CallerDiscipline == Serialized \/ Ops \cap RemoveOps = {}

\* inside these steps the provider may be asked to make something
Working  == {"create.driver", "create.cloud", "update.driver", "update.cloud"}
RemovePC == {"remove.restore", "remove.driver", "remove.store", "remove.forced",
             "remove.again"}

\* The inductive invariant: while a driver makes resources the record is there,
\* and an unforced removal reaches the record only after the resources are gone.
OrphanInv ==
  /\ Serialized => \A p, q \in Procs : pc[p] # "idle" /\ pc[q] # "idle" => p = q
  /\ \A p \in Procs :
       /\ pc[p] # "idle" => op[p] \in Ops \cup {"create"}
       /\ pc[p] \in RemovePC => op[p] \in Ops \cap RemoveOps
       /\ pc[p] = "remove.forced" => op[p] \in {"forceRemove", "rmForce"}
       /\ pc[p] = "remove.again" => op[p] = "rmForce"
       /\ pc[p] \in Working => store # NoRecord
       /\ pc[p] = "remove.store" => cloud = "none"

\* what a step of process p that is not part of a removal does
BuildStep(p) ==
  /\ pc[p] # "idle"
  /\ \A q \in Procs : q # p => pc'[q] = pc[q] /\ op'[q] = op[q]
  /\ pc'[p] \notin RemovePC
  /\ pc'[p] # "idle" => op'[p] \in {op[p], "create"}
  /\ store # NoRecord => store' # NoRecord
  /\ cloud' # cloud => store # NoRecord
  /\ pc'[p] \in Working => store' # NoRecord

\* PersistStatus leaves a record.
LEMMA PersistLeavesRecord ==
  ASSUME TypeOK, NEW p \in Procs, NEW s \in Status, PersistStatus(p, s)
  PROVE  store' # NoRecord
  <1>1. store'.status = s
    BY DEF TypeOK, PersistStatus, Cluster
  <1>2. NoRecord.status = "absent" /\ "absent" \notin Status
    BY DEF NoRecord, Status, PreCreating, Creating, PostCheck, Running, Error,
           Updating, Initialized, NoStatus
  <1> QED
    BY <1>1, <1>2

\* So does marking a cluster Updating.
LEMMA MarkLeavesRecord ==
  ASSUME TypeOK, NEW p \in Procs, MarkUpdating(p)
  PROVE  store' # NoRecord
  <1>1. store'.status = Updating
    BY DEF TypeOK, MarkUpdating, Cluster
  <1> QED
    BY <1>1 DEF NoRecord, Updating

\* create and createInner touch the provider only with a record in the store.
LEMMA CreateBuildStep ==
  ASSUME TypeOK, OrphanInv, NEW p \in Procs, CreateNext(p)
  PROVE  BuildStep(p)
  <1> USE StatusConstants DEF BuildStep, TypeOK, RemovePC, Working, Return
  <1>0. /\ pc[p] \in Working => store # NoRecord
        /\ c[p].status \in Status
    BY DEF OrphanInv, Cluster
  <1>1. CASE CreateInit(p)
    BY <1>0, <1>1, PersistLeavesRecord DEF CreateInit, StoreFails
  <1>2. CASE CreateRestore(p)
    BY <1>0, <1>2 DEF CreateRestore
  <1>3. CASE CreateExists(p)
    BY <1>0, <1>3, PersistLeavesRecord DEF CreateExists, StoreFails
  <1>4. CASE CreatePre(p)
    BY <1>0, <1>4, PersistLeavesRecord DEF CreatePre, StoreFails
  <1>5. CASE CreateConfig(p)
    BY <1>0, <1>5, PersistLeavesRecord DEF CreateConfig, PersistCreating, StoreFails
  <1>6. CASE DriverCreateRejects(p)
    BY <1>0, <1>6 DEF DriverCreateRejects
  <1>7. CASE DriverCreateTouches(p)
    BY <1>0, <1>7 DEF DriverCreateTouches
  <1>8. CASE DriverCreateReturns(p)
    BY <1>0, <1>8 DEF DriverCreateReturns
  <1>9. CASE CreateRunning(p)
    BY <1>0, <1>9, PersistLeavesRecord DEF CreateRunning, StoreFails
  <1>10. CASE CreateFail(p)
    BY <1>0, <1>10, PersistLeavesRecord DEF CreateFail, StoreFails
  <1> QED
    BY <1>1, <1>2, <1>3, <1>4, <1>5, <1>6, <1>7, <1>8, <1>9, <1>10 DEF CreateNext

\* PostCheck runs with a record in the store and keeps it.
LEMMA PostBuildStep ==
  ASSUME TypeOK, OrphanInv, NEW p \in Procs, PostNext(p)
  PROVE  BuildStep(p)
  <1> USE StatusConstants DEF BuildStep, TypeOK, RemovePC, Working, Return
  <1>0. /\ pc[p] \in Working => store # NoRecord
        /\ c[p].status \in Status
    BY DEF OrphanInv, Cluster
  <1>1. CASE PostPersist(p)
    BY <1>0, <1>1, PersistLeavesRecord DEF PostPersist, PostFailed, StoreFails
  <1>2. CASE PostDriver(p)
    BY <1>0, <1>2 DEF PostDriver, PostFailed
  <1>3. CASE PostStore(p)
    BY <1>0, <1>3, PersistLeavesRecord DEF PostStore, PostFailed, StoreFails
  <1> QED
    BY <1>1, <1>2, <1>3 DEF PostNext

\* Update runs with a record in the store and keeps it.
LEMMA UpdateBuildStep ==
  ASSUME TypeOK, OrphanInv, NEW p \in Procs, UpdateNext(p)
  PROVE  BuildStep(p)
  <1> USE StatusConstants DEF BuildStep, TypeOK, RemovePC, Working, Return
  <1>0. /\ pc[p] \in Working => store # NoRecord
        /\ c[p].status \in Status
    BY DEF OrphanInv, Cluster
  <1>1. CASE UpdateRestore(p)
    BY <1>0, <1>1 DEF UpdateRestore
  <1>2. CASE UpdateConfig(p)
    BY <1>0, <1>2, PersistLeavesRecord DEF UpdateConfig, StoreFails
  <1>3. CASE DriverUpdate(p)
    BY <1>0, <1>3 DEF DriverUpdate
  <1>4. CASE DriverUpsertRejects(p)
    BY <1>0, <1>4 DEF DriverUpsertRejects
  <1>5. CASE DriverUpsertTouches(p)
    BY <1>0, <1>5 DEF DriverUpsertTouches
  <1>6. CASE DriverUpsertReturns(p)
    BY <1>0, <1>6 DEF DriverUpsertReturns
  <1> QED
    BY <1>1, <1>2, <1>3, <1>4, <1>5, <1>6 DEF UpdateNext

\* The other operations of a driver never delete the record.
LEMMA OtherBuildStep ==
  ASSUME TypeOK, OrphanInv, NEW p \in Procs, OtherNext(p)
  PROVE  BuildStep(p)
  <1> USE StatusConstants DEF BuildStep, TypeOK, RemovePC, Working, Return
  <1>0. /\ pc[p] \in Working => store # NoRecord
        /\ c[p].status \in Status
    BY DEF OrphanInv, Cluster
  <1>1. CASE GenerateRestore(p)
    BY <1>0, <1>1 DEF GenerateRestore
  <1>2. CASE GeneratePersist(p)
    BY <1>0, <1>2, MarkLeavesRecord DEF GeneratePersist, StoreFails
  <1>3. CASE GenerateDriver(p)
    BY <1>0, <1>3 DEF GenerateDriver
  <1>4. CASE GenerateStore(p)
    BY <1>0, <1>4, PersistLeavesRecord DEF GenerateStore, StoreFails
  <1>5. CASE ETCDOptions(p)
    BY <1>0, <1>5 DEF ETCDOptions
  <1>6. CASE ETCDPersist(p)
    BY <1>0, <1>6, MarkLeavesRecord DEF ETCDPersist, StoreFails
  <1>7. CASE DriverETCDRestore(p)
    BY <1>0, <1>7 DEF DriverETCDRestore
  <1>8. CASE AuxRestore(p)
    BY <1>0, <1>8 DEF AuxRestore
  <1>9. CASE AuxDriver(p)
    BY <1>0, <1>9 DEF AuxDriver
  <1> QED
    BY <1>1, <1>2, <1>3, <1>4, <1>5, <1>6, <1>7, <1>8, <1>9 DEF OtherNext

\* A step that builds keeps the invariant.
LEMMA BuildKeepsInv ==
  ASSUME TypeOK, OrphanInv, CallerDiscipline, NEW p \in Procs, BuildStep(p), TypeOK'
  PROVE  OrphanInv'
  <1>1. Serialized => \A q, r \in Procs : pc'[q] # "idle" /\ pc'[r] # "idle" => q = r
    BY DEF OrphanInv, BuildStep
  <1>2. ASSUME NEW q \in Procs
        PROVE /\ pc'[q] # "idle" => op'[q] \in Ops \cup {"create"}
              /\ pc'[q] \in RemovePC => op'[q] \in Ops \cap RemoveOps
              /\ pc'[q] = "remove.forced" => op'[q] \in {"forceRemove", "rmForce"}
              /\ pc'[q] = "remove.again" => op'[q] = "rmForce"
              /\ pc'[q] \in Working => store' # NoRecord
              /\ pc'[q] = "remove.store" => cloud' = "none"
    <2>1. CASE q = p
      BY <2>1 DEF OrphanInv, BuildStep, RemovePC
    <2>2. CASE q # p
      <3>1. pc'[q] = pc[q] /\ op'[q] = op[q]
        BY <2>2 DEF BuildStep
      <3>2. pc[q] # "remove.store"
        <4>1. CASE Serialized
          BY <2>2, <4>1 DEF OrphanInv, BuildStep
        <4>2. CASE Ops \cap RemoveOps = {}
          BY <4>2 DEF OrphanInv, RemovePC
        <4> QED
          BY <4>1, <4>2 DEF CallerDiscipline
      <3> QED
        BY <3>1, <3>2 DEF OrphanInv, BuildStep
    <2> QED
      BY <2>1, <2>2
  <1> QED
    BY <1>1, <1>2 DEF OrphanInv

\* While a removal runs under the discipline, nobody else does anything.
LEMMA RemoverIsAlone ==
  ASSUME TypeOK, OrphanInv, CallerDiscipline, NEW p \in Procs, RemoveNext(p)
  PROVE  /\ Serialized
         /\ pc[p] \in RemovePC
         /\ \A q \in Procs : q # p => pc[q] = "idle"
  <1>1. pc[p] \in RemovePC
    BY DEF RemoveNext, RemoveRestore, DriverRemove, RemoveStore, RemoveAgain, RemovePC
  <1>2. Serialized
    BY <1>1 DEF OrphanInv, CallerDiscipline
  <1> QED
    BY <1>1, <1>2 DEF OrphanInv, RemovePC

\* Remove deletes the record after the driver deleted the resources, or by
\* force.
LEMMA RemoveKeepsInv ==
  ASSUME TypeOK, OrphanInv, CallerDiscipline, NEW p \in Procs, RemoveNext(p)
  PROVE  OrphanInv'
  <1>0. /\ \A q \in Procs : q # p => pc[q] = "idle"
        /\ op[p] \in Ops \cap RemoveOps
    BY RemoverIsAlone DEF OrphanInv
  <1>1. \A q \in Procs : q # p => pc'[q] = "idle"
    BY <1>0 DEF RemoveNext, RemoveRestore, DriverRemove, RemoveStore, RemoveAgain,
               RemoveFailed, Return, TypeOK
  <1>2. pc'[p] = "idle" \/ (pc'[p] \in RemovePC /\ op'[p] = op[p])
    BY DEF RemoveNext, RemoveRestore, DriverRemove, RemoveStore, RemoveAgain,
           RemoveFailed, Return, TypeOK, RemovePC
  <1>3. pc'[p] = "remove.forced" => op[p] \in {"forceRemove", "rmForce"}
    BY <1>0 DEF RemoveNext, RemoveRestore, DriverRemove, RemoveStore, RemoveAgain,
               RemoveFailed, Return, TypeOK, ForceNeeded, RemoveOps
  <1>4. pc'[p] = "remove.again" => op[p] = "rmForce"
    BY DEF RemoveNext, RemoveRestore, DriverRemove, RemoveStore, RemoveAgain,
           RemoveFailed, Return, TypeOK
  <1>5. pc'[p] = "remove.store" => cloud' = "none"
    BY DEF RemoveNext, RemoveRestore, DriverRemove, RemoveStore, RemoveAgain,
           RemoveFailed, Return, TypeOK
  <1> QED
    BY <1>0, <1>1, <1>2, <1>3, <1>4, <1>5 DEF OrphanInv, RemovePC, Working

\* Under the caller's discipline, whatever dies, fails or is lost, resources at
\* the provider are left without a record by forced removals only.
THEOREM NoSilentOrphan ==
  ASSUME CallerDiscipline
  PROVE  Spec => OrphanOnlyByForce
  <1>1. Init => OrphanInv
    BY DEF Init, OrphanInv, RemovePC, Working
  <1>2. TypeOK /\ TypeOK' /\ OrphanInv /\ [Next]_vars => OrphanInv'
    <2> SUFFICES ASSUME TypeOK, TypeOK', OrphanInv, [Next]_vars PROVE OrphanInv'
      OBVIOUS
    <2>1. ASSUME NEW p \in Procs, NEW o \in Ops, Begin(p, o) PROVE OrphanInv'
      <3>1. /\ Entry(o) \notin Working
            /\ Entry(o) \in RemovePC => o \in RemoveOps
            /\ Entry(o) \notin {"remove.store", "remove.forced", "remove.again"}
        BY LifecycleAssumption DEF Entry, Working, RemovePC, RemoveOps, Operations
      <3> QED
        BY <2>1, <3>1 DEF Begin, OrphanInv, TypeOK
    <2>2. ASSUME NEW p \in Procs, Crash(p) PROVE OrphanInv'
      BY <2>2 DEF Crash, Return, OrphanInv, TypeOK, RemovePC, Working
    <2>3. CASE UNCHANGED vars
      BY <2>3 DEF vars, OrphanInv
    <2> QED
      BY <2>1, <2>2, <2>3, CallerDiscipline, BuildKeepsInv, RemoveKeepsInv,
         CreateBuildStep, PostBuildStep, UpdateBuildStep, OtherBuildStep DEF Next
  <1>3. TypeOK /\ OrphanInv /\ [Next]_vars => [OrphanStep]_vars
    <2> SUFFICES ASSUME TypeOK, OrphanInv, Next, cloud' # "none", store' = NoRecord,
                        ~(cloud # "none" /\ store = NoRecord)
                 PROVE  \E p \in Procs : /\ pc[p] \in {"remove.forced", "remove.again"}
                                         /\ op[p] \in {"forceRemove", "rmForce"}
      BY DEF OrphanStep
    <2>1. ASSUME NEW p \in Procs, BuildStep(p) PROVE FALSE
      BY <2>1 DEF BuildStep
    <2>2. ASSUME NEW p \in Procs, (\E o \in Ops : Begin(p, o)) \/ Crash(p) PROVE FALSE
      BY <2>2 DEF Begin, Crash
    <2>3. PICK p \in Procs : RemoveNext(p)
      BY <2>1, <2>2, CreateBuildStep, PostBuildStep, UpdateBuildStep, OtherBuildStep
         DEF Next
    <2>4. pc[p] \in {"remove.forced", "remove.again"}
      BY <2>3 DEF RemoveNext, RemoveRestore, DriverRemove, RemoveStore, RemoveAgain,
                  OrphanInv, StoreFails, TypeOK
    <2> QED
      BY <2>4 DEF OrphanInv
  <1> QED
    BY <1>1, <1>2, <1>3, TypeCorrect, PTL DEF Spec, OrphanOnlyByForce

-----------------------------------------------------------------------------
(* The second part: the contract, with EngineService as the caller.        *)

\* EngineService with a driver whose Update edits the cluster: one operation at
\* a time, each on a blank *Cluster
ServiceCaller == Serialized /\ Frontend = "service" /\ ~UpsertDriver

\* a process died or the store did not answer
Excused == mishap \cap {"crash", "store"} # {}
\* or an unfinished cluster was marked Updating
Marked  == mishap \cap {"crash", "store", "marked"} # {}

\* statuses of a cluster that was not created, and those that no operation
\* leaves behind when nothing goes wrong
Unfinished == {PreCreating, Creating, Error}
Unsettled  == {PreCreating, Creating, NoStatus}

BeginCreate == {"create.init", "create.restore"}
InCreate    == BeginCreate \cup {"create.pre", "create.config", "create.driver",
                                 "create.cloud", "create.fail"}
MidCreate   == {"create.config", "create.driver", "create.cloud", "create.fail",
                "post.persist", "create.running"}
InPost      == {"post.persist", "post.driver", "post.store"}
\* an operation on a record: it has read it, and it has marked it
HasRead     == {"update.config", "gensa.persist", "etcd.persist", "remove.driver"}
HasMarked   == {"update.driver", "gensa.driver", "gensa.store", "etcd.driver"}
OnRecord    == {"update.restore", "update.config", "update.driver", "gensa.restore",
                "gensa.persist", "gensa.driver", "gensa.store", "etcd.restore",
                "etcd.persist", "etcd.driver"}

\* the store while p is at its label
StoreAt(p) ==
  /\ pc[p] = "create.exists" => store.status \in AlreadyCreated
  /\ pc[p] = "create.pre" =>
       store = NoRecord \/ store.status \in Unfinished \/ Excused
  /\ pc[p] = "create.config" => store.status = PreCreating
  /\ pc[p] \in {"create.driver", "create.cloud"} => store.status = Creating
  /\ pc[p] = "create.fail" /\ store = NoRecord => "store" \in mishap
  /\ pc[p] = "post.persist" => store # NoRecord
  /\ pc[p] \in {"post.driver", "post.store"} => store.status = PostCheck
  /\ pc[p] = "create.running" => store.status = NoStatus
  /\ pc[p] \in HasRead => store = c[p]
  /\ pc[p] = "update.config" => store.status \notin Unfinished
  /\ pc[p] \in HasMarked => store.status = Updating

\* the provider, and the excuse of a forced removal
CloudAt(p) ==
  /\ pc[p] = "create.cloud" => cloud # "none"
  /\ pc[p] = "post.persist" => cloud = "up"
  /\ pc[p] = "remove.store" => cloud = "none"
  /\ pc[p] = "remove.forced" => "forced" \in mishap
  /\ pc[p] # "update.cloud"

\* the *Cluster of p
MemoryAt(p) ==
  /\ pc[p] \in BeginCreate => c[p] = Blank \/ c[p].status = Error
  /\ pc[p] \in InCreate /\ "token" \in c[p].has => Marked
  /\ pc[p] \in InCreate => op[p] = "create"
  /\ pc[p] \in OnRecord => op[p] # "create"
  /\ pc[p] \in InPost /\ op[p] = "create" => c[p].status = NoStatus
  /\ pc[p] \in {"post.persist", "post.driver"} /\ op[p] = "create"
       => "token" \notin c[p].has
  /\ pc[p] \in HasMarked \/ (pc[p] \in InPost /\ op[p] # "create")
       => /\ c[p].status \in Unsettled => Excused
          /\ c[p].status \in Unfinished => Marked

\* The inductive invariant: one caller runs at a time, what its label says of
\* the store, the provider and its memory holds, and what it leaves behind is a
\* settled record unless something went wrong.
ContractInv ==
  /\ \A p, q \in Procs : pc[p] # "idle" /\ pc[q] # "idle" => p = q
  /\ \A p \in Procs : StoreAt(p) /\ CloudAt(p) /\ MemoryAt(p)
  /\ store.status \in Unsettled => Excused \/ \E p \in Procs : pc[p] \in MidCreate
  /\ store.status \in Unfinished /\ "token" \in store.has => Marked

\* what a step of process p has to do: leave the others alone, keep the parts of
\* the invariant that speak of p, and be a step of the contract
Kept(p) ==
  /\ \A q \in Procs : q # p => pc'[q] = pc[q]
  /\ StoreAt(p)' /\ CloudAt(p)' /\ MemoryAt(p)'
  /\ store'.status \in Unsettled => Excused' \/ pc'[p] \in MidCreate
  /\ store'.status \in Unfinished /\ "token" \in store'.has => Marked'
  /\ Contract!Next

-----------------------------------------------------------------------------
(* Records and the calls on the store.                                     *)

\* The statuses are different from each other and from the one of NoRecord.
LEMMA Statuses ==
  /\ PreCreating = "Pre-Creating" /\ Creating = "Creating"
  /\ PostCheck = "Post-Checking" /\ Running = "Running" /\ Error = "Error"
  /\ Updating = "Updating" /\ Initialized = "Init" /\ NoStatus = ""
  /\ NoRecord.status = "absent" /\ NoRecord.has = {}
  /\ Blank.status = NoStatus /\ Blank.has = {}
  BY DEF PreCreating, Creating, PostCheck, Running, Error, Updating, Initialized,
         NoStatus, NoRecord, Blank

\* The answer of a driver's Create has no status and no token.
LEMMA FreshFields ==
  ASSUME NEW r, r = FreshInfo
  PROVE  r.status = NoStatus /\ "token" \notin r.has
  BY DEF FreshInfo

\* What a record means is decided by its status.
LEMMA Meanings ==
  ASSUME NEW r \in Cluster \cup {NoRecord}
  PROVE  /\ Meaning(r) = "none" <=> r = NoRecord
         /\ Meaning(r) = "open" <=> r.status \in {PreCreating, Creating}
         /\ Meaning(r) = "failed" <=> r.status = Error
         /\ Meaning(r) = "created" <=>
              r.status \in {Running, Updating, PostCheck, Initialized, NoStatus}
  <1>1. r # NoRecord => r \in Cluster /\ r.status \in Status
    BY DEF Cluster
  <1> QED
    BY <1>1, Statuses DEF Meaning, Status

\* PersistStatus writes the fields in memory with the given status.
LEMMA Persisted ==
  ASSUME TypeOK, NEW p \in Procs, NEW s \in Status, PersistStatus(p, s)
  PROVE  /\ store' \in Cluster /\ store' # NoRecord
         /\ store'.status = s /\ store'.has = c[p].has
         /\ mishap' = mishap
  BY PersistLeavesRecord DEF TypeOK, PersistStatus, Cluster

\* Marking a cluster Updating is noted when the cluster has no token.
LEMMA MarkedUpdating ==
  ASSUME TypeOK, NEW p \in Procs, MarkUpdating(p)
  PROVE  /\ store' \in Cluster /\ store' # NoRecord
         /\ store'.status = Updating /\ store'.has = c[p].has
         /\ mishap \subseteq mishap'
         /\ "token" \notin c[p].has => "marked" \in mishap'
  BY MarkLeavesRecord, MarkType, StatusConstants DEF TypeOK, MarkUpdating, Cluster

\* An error of the store leaves an excuse.
LEMMA StoreError ==
  ASSUME StoreFails
  PROVE  /\ store' = store
         /\ mishap \subseteq mishap' /\ "store" \in mishap'
         /\ Excused' /\ Marked'
  BY DEF StoreFails, Fault, Excused, Marked

\* Excuses are never taken back.
LEMMA ExcusesStay ==
  ASSUME mishap \subseteq mishap'
  PROVE  (Excused => Excused') /\ (Marked => Marked') /\ (Excused => Marked)
  BY DEF Excused, Marked

\* A process that returns satisfies everything that is said of running ones.
LEMMA ReturnKept ==
  ASSUME TypeOK, NEW p \in Procs, Return(p)
  PROVE  /\ \A q \in Procs : q # p => pc'[q] = pc[q]
         /\ StoreAt(p)' /\ CloudAt(p)' /\ MemoryAt(p)'
  <1>1. pc'[p] = "idle"
    BY DEF Return, TypeOK
  <1> QED
    BY <1>1 DEF Return, TypeOK, StoreAt, CloudAt, MemoryAt, BeginCreate, InCreate,
                InPost, HasRead, HasMarked, OnRecord

\* The caller that runs is the only one, so that what holds while some caller runs is
\* about its label.
LEMMA Alone ==
  ASSUME TypeOK, ContractInv, NEW p \in Procs, pc[p] # "idle"
  PROVE  /\ StoreAt(p) /\ CloudAt(p) /\ MemoryAt(p)
         /\ store.status \in Unsettled => Excused \/ pc[p] \in MidCreate
         /\ store.status \in Unfinished /\ "token" \in store.has => Marked
         /\ store \in Cluster \cup {NoRecord} /\ c[p] \in Cluster /\ c[p].status \in Status
  <1>1. \A q \in Procs : pc[q] \in MidCreate => q = p
    BY DEF ContractInv, MidCreate
  <1>2. c[p] \in Cluster /\ store \in Cluster \cup {NoRecord}
    BY DEF TypeOK
  <1>3. c[p].status \in Status
    BY <1>2 DEF Cluster
  <1> QED
    BY <1>1, <1>2, <1>3 DEF ContractInv

-----------------------------------------------------------------------------
(* The steps, action by action.                                            *)

\* create and createInner.
LEMMA CreateKept ==
  ASSUME TypeOK, TypeOK', ContractInv, ServiceCaller, NEW p \in Procs, CreateNext(p)
  PROVE  Kept(p)
  <1> USE Statuses, StatusConstants
      DEF Kept, StoreAt, CloudAt, MemoryAt, BeginCreate, InCreate, InPost, HasRead,
          HasMarked, OnRecord, MidCreate, Unsettled, Unfinished
  <1>0. /\ StoreAt(p) /\ CloudAt(p) /\ MemoryAt(p)
        /\ store.status \in Unsettled => Excused \/ pc[p] \in MidCreate
        /\ store.status \in Unfinished /\ "token" \in store.has => Marked
        /\ c[p] \in Cluster
    <2>1. pc[p] # "idle"
      BY DEF CreateNext, CreateInit, CreateRestore, CreateExists, CreatePre, CreateConfig,
             DriverCreateRejects, DriverCreateTouches, DriverCreateReturns, CreateRunning,
             CreateFail
    <2> QED
      BY <2>1, Alone
  <1>1. CASE CreateInit(p)
    <2>1. UNCHANGED <<store, mishap, cloud, c, op>>
      BY <1>0, <1>1 DEF CreateInit
    <2>2. Contract!Next
      BY <2>1 DEF Contract!Next, Contract!Lapse
    <2>3. pc[p] = "create.init" /\ Goto(p, "create.restore")
      BY <1>1 DEF CreateInit
    <2>4. pc'[p] = "create.restore" /\ \A q \in Procs : q # p => pc'[q] = pc[q]
      BY <2>3 DEF TypeOK
    <2> QED
      BY <1>0, <2>1, <2>2, <2>3, <2>4 DEF Excused, Marked
  <1>4. CASE CreatePre(p)
    <2>1. CASE StoreFails /\ Continue(p, "create.fail")
      BY <1>0, <1>4, <2>1, StoreError, ExcusesStay
         DEF CreatePre, TypeOK, Contract!Next, Contract!Lapse
    <2>2. CASE PersistStatus(p, PreCreating) /\ Continue(p, "create.config")
      <3>1. /\ store' \in Cluster /\ store'.status = PreCreating
            /\ store'.has = c[p].has /\ mishap' = mishap
        BY <2>2, Persisted
      <3>2. /\ pc[p] = "create.pre" /\ pc'[p] = "create.config"
            /\ \A q \in Procs : q # p => pc'[q] = pc[q]
            /\ UNCHANGED <<cloud, c, op>>
        BY <1>4, <2>2 DEF CreatePre, TypeOK
      <3>3. Excused' <=> Excused
        BY <3>1 DEF Excused
      <3>4. Meaning(store) = "created" => Excused
        BY <1>0, <3>2, Meanings DEF TypeOK
      <3>5. Contract!Next
        BY <3>1, <3>2, <3>3, <3>4, Meanings
           DEF Contract!Next, Contract!Open, Excused
      <3> QED
        BY <1>0, <3>1, <3>2, <3>3, <3>5, ExcusesStay
    <2> QED
      BY <1>4, <2>1, <2>2 DEF CreatePre
  <1>2. CASE CreateRestore(p)
    <2>1. /\ mishap \subseteq mishap'
          /\ \/ c'[p] = store /\ store # NoRecord
             \/ store = NoRecord /\ c'[p] = c[p]
             \/ "store" \in mishap' /\ c'[p] = c[p]
      BY <1>2 DEF CreateRestore, Restored, RestoreFails, Fault, TypeOK
    <2>2. Contract!Next
      BY <1>2, <2>1 DEF CreateRestore, Contract!Next, Contract!Lapse
    <2>3. "store" \in mishap' => Excused' /\ Marked'
      BY DEF Excused, Marked
    <2>4. /\ pc'[p] \in {"create.exists", "create.pre"}
          /\ pc'[p] = "create.exists" <=> c'[p].status \in AlreadyCreated
          /\ \A q \in Procs : q # p => pc'[q] = pc[q]
      BY <1>2 DEF CreateRestore, TypeOK
    <2>5. store \in Cluster \cup {NoRecord} /\ (store # NoRecord => store.status \in Status)
      BY DEF TypeOK, Cluster
    <2>6. UNCHANGED <<store, cloud, op>> /\ pc[p] = "create.restore"
      BY <1>2 DEF CreateRestore
    <2> QED
      BY <1>0, <2>1, <2>2, <2>3, <2>4, <2>5, <2>6, ExcusesStay DEF AlreadyCreated, Status
  <1>3. CASE CreateExists(p)
    <2>1. store \in Cluster \cup {NoRecord}
      BY DEF TypeOK
    <2>2. CASE StoreFails
      BY <1>0, <1>3, <2>2, StoreError, ExcusesStay, ReturnKept
         DEF CreateExists, Contract!Next, Contract!Lapse
    <2>3. CASE PersistStatus(p, Running)
      <3>1. Contract!Next
        <4>1. pc[p] = "create.exists" /\ cloud' = cloud
          BY <1>3 DEF CreateExists
        <4>2. store'.status = Running /\ store' \in Cluster /\ mishap' = mishap
          BY <2>3, Persisted
        <4>3. Meaning(store) = "created"
          BY <1>0, <2>1, <4>1, Meanings DEF AlreadyCreated
        <4>4. Meaning(store') = "created"
          BY <4>2, Meanings
        <4> QED
          BY <4>1, <4>2, <4>3, <4>4 DEF Contract!Next, Contract!Accept
      <3> QED
        BY <1>3, <2>3, <3>1, Persisted, ReturnKept DEF CreateExists
    <2> QED
      BY <1>3, <2>2, <2>3 DEF CreateExists
  <1>5. CASE CreateConfig(p)
    <2>0. /\ pc[p] = "create.config" /\ cloud' = cloud /\ c' = c /\ op' = op
          /\ pc'[p] \in {"create.fail", "create.driver"}
          /\ \A q \in Procs : q # p => pc'[q] = pc[q]
      BY <1>5 DEF CreateConfig, TypeOK
    <2>1. CASE UNCHANGED <<store, mishap>> /\ Continue(p, "create.fail")
      <3>1. pc'[p] = "create.fail" /\ (Marked' <=> Marked)
        BY <2>0, <2>1 DEF TypeOK, Marked
      <3> QED
        BY <1>0, <2>0, <2>1, <3>1 DEF Contract!Next, Contract!Lapse
    <2>2. CASE StoreFails /\ Continue(p, "create.fail")
      <3>1. pc'[p] = "create.fail"
        BY <2>2 DEF TypeOK
      <3> QED
        BY <1>0, <2>0, <2>2, <3>1, StoreError DEF Contract!Next, Contract!Lapse
    <2>3. CASE PersistCreating(p) /\ Continue(p, "create.driver")
      <3>1. /\ store' \in Cluster /\ store'.status = Creating
            /\ store'.has = c[p].has /\ mishap' = mishap /\ (Marked' <=> Marked)
        BY <2>3, Persisted DEF PersistCreating, Marked
      <3>2. pc'[p] = "create.driver" /\ store \in Cluster \cup {NoRecord}
        BY <2>3 DEF TypeOK
      <3>3. Contract!Next
        BY <1>0, <2>0, <3>1, <3>2, Meanings DEF Contract!Next, Contract!Open
      <3> QED
        BY <1>0, <2>0, <3>1, <3>2, <3>3
    <2> QED
      BY <1>5, <2>1, <2>2, <2>3 DEF CreateConfig
  <1>6. CASE DriverCreateRejects(p)
    <2>1. /\ pc[p] = "create.driver" /\ pc'[p] = "create.fail"
          /\ \A q \in Procs : q # p => pc'[q] = pc[q]
          /\ c'[p] \in {c[p], FreshInfo}
          /\ UNCHANGED <<store, cloud, op, mishap>> /\ (Marked' <=> Marked)
      BY <1>6 DEF DriverCreateRejects, TypeOK, Marked
    <2>2. Contract!Next
      BY <2>1 DEF Contract!Next, Contract!Lapse
    <2>3. c'[p] = c[p] \/ "token" \notin c'[p].has
      BY <2>1, FreshFields
    <2> QED
      BY <1>0, <2>1, <2>2, <2>3
  <1>7. CASE DriverCreateTouches(p)
    <2>1. /\ pc[p] = "create.driver" /\ pc'[p] = "create.cloud"
          /\ \A q \in Procs : q # p => pc'[q] = pc[q]
          /\ cloud' = IF cloud = "none" THEN "partial" ELSE cloud
          /\ UNCHANGED <<store, c, op, mishap>> /\ (Marked' <=> Marked)
      BY <1>7 DEF DriverCreateTouches, TypeOK, Marked
    <2>2. Meaning(store) = "open"
      BY <1>0, <2>1, Meanings DEF TypeOK
    <2>3. Contract!Next
      BY <2>1, <2>2 DEF Contract!Next, Contract!Lapse, Contract!Provide
    <2> QED
      BY <1>0, <2>1, <2>3
  <1>8. CASE DriverCreateReturns(p)
    <2>0. /\ pc[p] = "create.cloud" /\ store' = store /\ op' = op
          /\ pc'[p] \in {"create.fail", "post.persist"}
          /\ \A q \in Procs : q # p => pc'[q] = pc[q]
          /\ c'[p] \in {c[p], FreshInfo}
          /\ pc'[p] = "post.persist" => c'[p] = FreshInfo /\ cloud' = "up"
          /\ mishap \subseteq mishap'
          /\ cloud' \in {cloud, "up"}
      BY <1>8 DEF DriverCreateReturns, FailedCreateInfo, Fault, TypeOK
    <2>1. Meaning(store) = "open"
      BY <1>0, <2>0, Meanings DEF TypeOK
    <2>2. Contract!Next
      BY <1>0, <2>0, <2>1 DEF Contract!Next, Contract!Lapse, Contract!Provide
    <2>3. c'[p] = c[p] \/ (c'[p].status = NoStatus /\ "token" \notin c'[p].has)
      BY <2>0, FreshFields
    <2>4. Marked => Marked'
      BY <2>0, ExcusesStay
    <2>5. pc'[p] = "post.persist" => c'[p].status = NoStatus /\ "token" \notin c'[p].has
      BY <2>0, FreshFields
    <2> QED
      BY <1>0, <2>0, <2>2, <2>3, <2>4, <2>5
  <1>9. CASE CreateRunning(p)
    <2>1. CASE StoreFails
      BY <1>0, <1>9, <2>1, StoreError, ReturnKept
         DEF CreateRunning, Contract!Next, Contract!Lapse
    <2>2. CASE PersistStatus(p, Running)
      <3>1. store' \in Cluster /\ store'.status = Running /\ mishap' = mishap
        BY <2>2, Persisted
      <3>2. Meaning(store) = "created" /\ Meaning(store') = "created"
        BY <1>0, <1>9, <3>1, Meanings DEF CreateRunning, TypeOK
      <3>3. Contract!Next
        BY <1>9, <3>1, <3>2 DEF CreateRunning, Contract!Next, Contract!Accept
      <3> QED
        BY <1>9, <3>1, <3>3, ReturnKept DEF CreateRunning
    <2> QED
      BY <1>9, <2>1, <2>2 DEF CreateRunning
  <1>10. CASE CreateFail(p)
    <2>1. CASE StoreFails
      BY <1>0, <1>10, <2>1, StoreError, ReturnKept
         DEF CreateFail, Contract!Next, Contract!Lapse
    <2>2. CASE PersistStatus(p, Error)
      <3>1. /\ store' \in Cluster /\ store'.status = Error
            /\ store'.has = c[p].has /\ mishap' = mishap /\ (Marked' <=> Marked)
        BY <2>2, Persisted DEF Marked
      <3>2. pc[p] = "create.fail" /\ cloud' = cloud
        BY <1>10 DEF CreateFail
      <3>3. Meaning(store) = "none" => "store" \in mishap
        BY <1>0, <3>2, Meanings DEF TypeOK
      <3>4. Contract!Next
        BY <3>1, <3>2, <3>3, Meanings DEF Contract!Next, Contract!Fail
      <3> QED
        BY <1>0, <1>10, <3>1, <3>2, <3>4, ReturnKept DEF CreateFail
    <2> QED
      BY <1>10, <2>1, <2>2 DEF CreateFail
  <1> QED
    BY <1>1, <1>2, <1>3, <1>4, <1>5, <1>6, <1>7, <1>8, <1>9, <1>10 DEF CreateNext

\* PostCheck, which Create, Update and ETCDRestore share.
LEMMA PostKept ==
  ASSUME TypeOK, TypeOK', ContractInv, ServiceCaller, NEW p \in Procs, PostNext(p)
  PROVE  Kept(p)
  <1> USE Statuses, StatusConstants
      DEF Kept, StoreAt, CloudAt, MemoryAt, BeginCreate, InCreate, InPost, HasRead,
          HasMarked, OnRecord, MidCreate, Unsettled, Unfinished
  <1>0. /\ StoreAt(p) /\ CloudAt(p) /\ MemoryAt(p)
        /\ store.status \in Unsettled => Excused \/ pc[p] \in MidCreate
        /\ store.status \in Unfinished /\ "token" \in store.has => Marked
        /\ store \in Cluster \cup {NoRecord} /\ c[p] \in Cluster /\ c[p].status \in Status
    <2>1. pc[p] # "idle"
      BY DEF PostNext, PostPersist, PostDriver, PostStore
    <2> QED
      BY <2>1, Alone
  <1>1. CASE PostPersist(p)
    <2>0. /\ pc[p] = "post.persist" /\ cloud' = cloud
          /\ \A q \in Procs : q # p => pc'[q] = pc[q]
      <3>1. Goto(p, "post.driver") \/ Goto(p, "create.fail") \/ Goto(p, "idle")
        BY <1>1 DEF PostPersist, PostFailed, Return
      <3>2. \A q \in Procs : q # p => pc'[q] = pc[q]
        BY <3>1 DEF TypeOK
      <3> QED
        BY <1>1, <3>2 DEF PostPersist
    <2>1. CASE PersistStatus(p, PostCheck) /\ Continue(p, "post.driver")
      <3>1. /\ store' \in Cluster /\ store'.status = PostCheck /\ mishap' = mishap
            /\ pc'[p] = "post.driver" /\ c' = c /\ op' = op
        BY <2>1, Persisted DEF TypeOK
      <3>2. Contract!Next
        BY <1>0, <2>0, <3>1, Meanings DEF Contract!Next, Contract!Accept
      <3> QED
        BY <1>0, <2>0, <3>1, <3>2, ExcusesStay
    <2>2. CASE StoreFails /\ PostFailed(p)
      <3>1. Contract!Next
        BY <2>0, <2>2, StoreError DEF Contract!Next, Contract!Lapse
      <3>2. CASE op[p] = "create"
        <4>1. pc'[p] = "create.fail" /\ c' = c /\ op' = op
          BY <2>2, <3>2 DEF PostFailed, TypeOK
        <4> QED
          BY <1>0, <2>0, <2>2, <3>1, <3>2, <4>1, StoreError
      <3>3. CASE op[p] # "create"
        BY <2>0, <2>2, <3>1, <3>3, StoreError, ReturnKept DEF PostFailed
      <3> QED
        BY <3>2, <3>3
    <2> QED
      BY <1>1, <2>1, <2>2 DEF PostPersist
  <1>2. CASE PostDriver(p)
    <2>0. /\ pc[p] = "post.driver" /\ UNCHANGED <<store, cloud, mishap>>
          /\ (Excused' <=> Excused) /\ (Marked' <=> Marked)
      BY <1>2 DEF PostDriver, Excused, Marked
    <2>1. Contract!Next
      BY <2>0 DEF Contract!Next, Contract!Lapse
    <2>2. CASE PostCheckSucceeds(p) /\ Goto(p, "post.store") /\ UNCHANGED <<op, info>>
      <3>1. /\ pc'[p] = "post.store" /\ op' = op /\ c'[p].status = c[p].status
            /\ \A q \in Procs : q # p => pc'[q] = pc[q]
        BY <2>2, PostCheckType DEF TypeOK
      <3> QED
        BY <1>0, <2>0, <2>1, <3>1
    <2>3. CASE PostFailed(p) /\ op[p] = "create"
      <3>1. /\ pc'[p] = "create.fail" /\ c' = c /\ op' = op
            /\ \A q \in Procs : q # p => pc'[q] = pc[q]
        BY <2>3 DEF PostFailed, TypeOK
      <3> QED
        BY <1>0, <2>0, <2>1, <2>3, <3>1
    <2>4. CASE PostFailed(p) /\ op[p] # "create"
      BY <1>0, <2>0, <2>1, <2>4, ReturnKept DEF PostFailed
    <2> QED
      BY <1>2, <2>2, <2>3, <2>4 DEF PostDriver
  <1>3. CASE PostStore(p)
    <2>0. /\ pc[p] = "post.store" /\ cloud' = cloud
          /\ \A q \in Procs : q # p => pc'[q] = pc[q]
      <3>1. \/ Goto(p, "create.running") \/ Goto(p, "create.fail") \/ Goto(p, "idle")
        BY <1>3 DEF PostStore, PostFailed, Return
      <3>2. \A q \in Procs : q # p => pc'[q] = pc[q]
        BY <3>1 DEF TypeOK
      <3> QED
        BY <1>3, <3>2 DEF PostStore
    <2>1. ASSUME PersistStatus(p, c[p].status)
          PROVE  /\ store' \in Cluster /\ store'.status = c[p].status
                 /\ mishap' = mishap /\ Contract!Next
                 /\ (Excused' <=> Excused) /\ (Marked' <=> Marked)
      <3>1. /\ store' \in Cluster /\ store'.status = c[p].status /\ mishap' = mishap
            /\ (Excused' <=> Excused) /\ (Marked' <=> Marked)
        BY <1>0, <2>1, Persisted DEF Excused, Marked
      <3>2. Meaning(store) = "created"
        BY <1>0, <2>0, Meanings
      <3>3. Meaning(store') = "open" => Excused
        BY <1>0, <2>0, <3>1, Meanings
      <3>4. Meaning(store') \in {"open", "failed", "created"}
        BY <1>0, <3>1, Meanings DEF Status
      <3>5. Contract!Next
        BY <2>0, <3>1, <3>2, <3>3, <3>4
           DEF Contract!Next, Contract!Open, Contract!Fail, Contract!Accept, Excused
      <3> QED
        BY <3>1, <3>5
    <2>2. CASE /\ PersistStatus(p, c[p].status) /\ op[p] = "create"
               /\ Continue(p, "create.running")
      <3>1. pc'[p] = "create.running" /\ c' = c /\ op' = op
        BY <2>2 DEF TypeOK
      <3> QED
        BY <1>0, <2>0, <2>1, <2>2, <3>1
    <2>3. CASE PersistStatus(p, c[p].status) /\ op[p] # "create" /\ Return(p)
      BY <1>0, <2>0, <2>1, <2>3, ReturnKept
    <2>4. CASE StoreFails /\ PostFailed(p)
      <3>1. Contract!Next
        BY <2>0, <2>4, StoreError DEF Contract!Next, Contract!Lapse
      <3>2. CASE op[p] = "create"
        <4>1. pc'[p] = "create.fail" /\ c' = c /\ op' = op
          BY <2>4, <3>2 DEF PostFailed, TypeOK
        <4> QED
          BY <1>0, <2>0, <2>4, <3>1, <3>2, <4>1, StoreError
      <3>3. CASE op[p] # "create"
        BY <2>0, <2>4, <3>1, <3>3, StoreError, ReturnKept DEF PostFailed
      <3> QED
        BY <3>2, <3>3
    <2> QED
      BY <1>3, <2>2, <2>3, <2>4 DEF PostStore
  <1> QED
    BY <1>1, <1>2, <1>3 DEF PostNext

\* A read of the store that ends in a return or in one of the labels that have
\* read the record.
LEMMA ReadKept ==
  ASSUME TypeOK, ContractInv, NEW p \in Procs, pc[p] # "idle",
         pc[p] \notin MidCreate, UNCHANGED <<store, cloud>>, mishap \subseteq mishap',
         \/ Return(p)
         \/ /\ Restored(p)
            /\ op' = op /\ (pc[p] \in OnRecord \/ pc'[p] = "remove.driver")
            /\ \E l \in {"gensa.persist", "etcd.persist", "remove.driver"} :
                 pc' = [pc EXCEPT ![p] = l]
  PROVE  Kept(p)
  <1> USE Statuses, StatusConstants
      DEF Kept, StoreAt, CloudAt, MemoryAt, BeginCreate, InCreate, InPost, HasRead,
          HasMarked, OnRecord, MidCreate, Unsettled, Unfinished
  <1>0. /\ store.status \in Unsettled => Excused
        /\ store.status \in Unfinished /\ "token" \in store.has => Marked
        /\ MemoryAt(p)
    BY DEF ContractInv
  <1>1. Contract!Next
    BY DEF Contract!Next, Contract!Lapse
  <1>2. CASE Return(p)
    BY <1>0, <1>1, <1>2, ReturnKept, ExcusesStay
  <1>3. CASE ~Return(p)
    <2>1. PICK l \in {"gensa.persist", "etcd.persist", "remove.driver"} :
            pc' = [pc EXCEPT ![p] = l]
      BY <1>3
    <2>2. /\ pc'[p] = l /\ c'[p] = store /\ op' = op
          /\ \A q \in Procs : q # p => pc'[q] = pc[q]
      BY <1>3, <2>1 DEF Restored, TypeOK
    <2> QED
      BY <1>0, <1>1, <1>3, <2>2, ExcusesStay
  <1> QED
    BY <1>2, <1>3

\* Update.
LEMMA UpdateKept ==
  ASSUME TypeOK, TypeOK', ContractInv, ServiceCaller, NEW p \in Procs, UpdateNext(p)
  PROVE  Kept(p)
  <1> USE Statuses, StatusConstants
      DEF Kept, StoreAt, CloudAt, MemoryAt, BeginCreate, InCreate, InPost, HasRead,
          HasMarked, OnRecord, MidCreate, Unsettled, Unfinished
  <1>0. /\ StoreAt(p) /\ CloudAt(p) /\ MemoryAt(p)
        /\ store.status \in Unsettled => Excused \/ pc[p] \in MidCreate
        /\ store.status \in Unfinished /\ "token" \in store.has => Marked
        /\ store \in Cluster \cup {NoRecord} /\ c[p] \in Cluster /\ c[p].status \in Status
    <2>1. pc[p] # "idle"
      BY DEF UpdateNext, UpdateRestore, UpdateConfig, DriverUpdate, DriverUpsertRejects,
             DriverUpsertTouches, DriverUpsertReturns
    <2> QED
      BY <2>1, Alone
  <1>1. CASE UpdateRestore(p)
    <2>0. /\ pc[p] = "update.restore" /\ UNCHANGED <<store, cloud>>
          /\ mishap \subseteq mishap'
      BY <1>1 DEF UpdateRestore, Restored, RestoreFails, Fault
    <2>1. Contract!Next
      BY <2>0 DEF Contract!Next, Contract!Lapse
    <2>2. CASE Return(p)
      BY <1>0, <2>0, <2>1, <2>2, ReturnKept, ExcusesStay
    <2>3. CASE ~Return(p)
      <3>1. /\ c'[p] = store /\ store # NoRecord
            /\ store.status \notin {PreCreating, Creating}
            /\ \A q \in Procs : q # p => pc'[q] = pc[q]
            /\ \/ store.status = Error /\ pc'[p] = "create.init" /\ op'[p] = "create"
               \/ store.status # Error /\ pc'[p] = "update.config" /\ op' = op
        <4>1. /\ Restored(p) /\ store.status \notin {PreCreating, Creating}
              /\ IF store.status = Error
                   THEN op' = [op EXCEPT ![p] = "create"] /\ Goto(p, "create.init")
                   ELSE Goto(p, "update.config") /\ UNCHANGED op
          BY <1>1, <2>3 DEF UpdateRestore
        <4>2. c'[p] = store /\ store # NoRecord
          BY <4>1 DEF Restored, TypeOK
        <4>3. CASE store.status = Error
          BY <4>1, <4>2, <4>3 DEF TypeOK
        <4>4. CASE store.status # Error
          BY <4>1, <4>2, <4>4 DEF TypeOK
        <4> QED
          BY <4>3, <4>4
      <3>2. (Excused => Excused') /\ (Marked => Marked')
        BY <2>0, ExcusesStay
      <3> QED
        BY <1>0, <2>0, <2>1, <3>1, <3>2
    <2> QED
      BY <2>2, <2>3
  <1>2. CASE UpdateConfig(p)
    <2>0. pc[p] = "update.config" /\ cloud' = cloud
      BY <1>2 DEF UpdateConfig
    <2>1. CASE UNCHANGED <<store, mishap>> /\ Return(p)
      BY <1>0, <2>0, <2>1, ReturnKept, ExcusesStay DEF Contract!Next, Contract!Lapse
    <2>2. CASE StoreFails /\ Return(p)
      BY <1>0, <2>0, <2>2, ReturnKept, StoreError DEF Contract!Next, Contract!Lapse
    <2>3. CASE PersistStatus(p, Updating) /\ Continue(p, "update.driver")
      <3>1. /\ store' \in Cluster /\ store'.status = Updating /\ mishap' = mishap
            /\ pc'[p] = "update.driver" /\ c' = c /\ op' = op
            /\ \A q \in Procs : q # p => pc'[q] = pc[q]
            /\ (Excused' <=> Excused) /\ (Marked' <=> Marked)
        BY <2>3, Persisted DEF TypeOK, Excused, Marked
      <3>2. Meaning(store) = "created" /\ Meaning(store') = "created"
        BY <1>0, <2>0, <3>1, Meanings DEF Status
      <3>3. Contract!Next
        BY <2>0, <3>1, <3>2 DEF Contract!Next, Contract!Accept
      <3> QED
        BY <1>0, <2>0, <3>1, <3>3
    <2> QED
      BY <1>2, <2>1, <2>2, <2>3 DEF UpdateConfig
  <1>3. CASE DriverUpdate(p)
    <2>0. /\ pc[p] = "update.driver" /\ UNCHANGED <<store, cloud, mishap>>
          /\ (Excused' <=> Excused) /\ (Marked' <=> Marked)
      BY <1>3 DEF DriverUpdate, Excused, Marked
    <2>1. Contract!Next
      BY <2>0 DEF Contract!Next, Contract!Lapse
    <2>2. CASE Return(p)
      BY <1>0, <2>0, <2>1, <2>2, ReturnKept
    <2>3. CASE cloud = "up" /\ Continue(p, "post.persist")
      <3>1. /\ pc'[p] = "post.persist" /\ c' = c /\ op' = op
            /\ \A q \in Procs : q # p => pc'[q] = pc[q]
        BY <2>3 DEF TypeOK
      <3> QED
        BY <1>0, <2>0, <2>1, <2>3, <3>1
    <2> QED
      BY <1>3, <2>2, <2>3 DEF DriverUpdate
  <1> QED
    BY <1>0, <1>1, <1>2, <1>3 DEF UpdateNext, ServiceCaller, DriverUpsertRejects,
       DriverUpsertTouches, DriverUpsertReturns

\* PersistStatus(Updating) of GenerateServiceAccount and ETCDRestore.
LEMMA MarkKept ==
  ASSUME TypeOK, ContractInv, NEW p \in Procs, cloud' = cloud,
         pc[p] \in {"gensa.persist", "etcd.persist"},
         \/ /\ MarkUpdating(p)
            /\ \E l \in {"gensa.driver", "etcd.driver"} : Continue(p, l)
         \/ StoreFails /\ Return(p)
  PROVE  Kept(p)
  <1> USE Statuses, StatusConstants
      DEF Kept, StoreAt, CloudAt, MemoryAt, BeginCreate, InCreate, InPost, HasRead,
          HasMarked, OnRecord, MidCreate, Unsettled, Unfinished
  <1>0. /\ StoreAt(p) /\ CloudAt(p) /\ MemoryAt(p)
        /\ store.status \in Unsettled => Excused \/ pc[p] \in MidCreate
        /\ store.status \in Unfinished /\ "token" \in store.has => Marked
        /\ store \in Cluster \cup {NoRecord} /\ c[p] \in Cluster /\ c[p].status \in Status
    BY DEF ContractInv, TypeOK, Cluster
  <1>1. CASE StoreFails /\ Return(p)
    BY <1>0, <1>1, ReturnKept, StoreError DEF Contract!Next, Contract!Lapse
  <1>2. ASSUME MarkUpdating(p), NEW l \in {"gensa.driver", "etcd.driver"},
               Continue(p, l)
        PROVE  Kept(p)
    <2>1. /\ store' \in Cluster /\ store'.status = Updating
          /\ mishap \subseteq mishap'
          /\ "token" \notin c[p].has => "marked" \in mishap'
      BY <1>2, MarkedUpdating
    <2>2. /\ pc'[p] = l /\ c' = c /\ op' = op
          /\ \A q \in Procs : q # p => pc'[q] = pc[q]
      BY <1>2 DEF TypeOK
    <2>3. "marked" \in mishap' => Marked'
      BY DEF Marked
    <2>4. (Excused => Excused') /\ (Marked => Marked')
      BY <2>1, ExcusesStay
    <2>5. Meaning(store') = "created"
      BY <2>1, Meanings
    <2>6. Meaning(store) = "created" \/ Marked'
      BY <1>0, <2>1, <2>3, <2>4, Meanings DEF Status
    <2>7. Contract!Next
      BY <2>1, <2>5, <2>6 DEF Contract!Next, Contract!Accept, Marked
    <2> QED
      BY <1>0, <2>1, <2>2, <2>3, <2>4, <2>7
  <1> QED
    BY <1>1, <1>2

\* GenerateServiceAccount, ETCDRestore and the operations that only ask the
\* driver.
LEMMA OtherKept ==
  ASSUME TypeOK, TypeOK', ContractInv, ServiceCaller, NEW p \in Procs, OtherNext(p)
  PROVE  Kept(p)
  <1> USE Statuses, StatusConstants
      DEF Kept, StoreAt, CloudAt, MemoryAt, BeginCreate, InCreate, InPost, HasRead,
          HasMarked, OnRecord, MidCreate, Unsettled, Unfinished
  <1>0. /\ StoreAt(p) /\ CloudAt(p) /\ MemoryAt(p)
        /\ store.status \in Unsettled => Excused \/ pc[p] \in MidCreate
        /\ store.status \in Unfinished /\ "token" \in store.has => Marked
        /\ store \in Cluster \cup {NoRecord} /\ c[p] \in Cluster /\ c[p].status \in Status
    <2>1. pc[p] # "idle"
      BY DEF OtherNext, GenerateRestore, GeneratePersist, GenerateDriver, GenerateStore,
             ETCDOptions, ETCDPersist, DriverETCDRestore, AuxRestore, AuxDriver
    <2> QED
      BY <2>1, Alone
  <1>1. CASE GenerateRestore(p) \/ ETCDOptions(p)
    <2>1. /\ pc[p] \in {"gensa.restore", "etcd.restore"} /\ UNCHANGED <<store, cloud>>
          /\ mishap \subseteq mishap'
      BY <1>1 DEF GenerateRestore, ETCDOptions, Restored, RestoreFails, Fault
    <2> QED
      BY <1>1, <2>1, ReadKept DEF GenerateRestore, ETCDOptions
  <1>2. CASE GeneratePersist(p) \/ ETCDPersist(p)
    BY <1>2, MarkKept DEF GeneratePersist, ETCDPersist
  <1>3. CASE GenerateDriver(p)
    <2>0. /\ pc[p] = "gensa.driver" /\ UNCHANGED <<store, cloud, mishap>>
          /\ (Excused' <=> Excused) /\ (Marked' <=> Marked)
      BY <1>3 DEF GenerateDriver, Excused, Marked
    <2>1. Contract!Next
      BY <2>0 DEF Contract!Next, Contract!Lapse
    <2>2. CASE Return(p)
      BY <1>0, <2>0, <2>1, <2>2, ReturnKept
    <2>3. CASE PostCheckSucceeds(p) /\ Goto(p, "gensa.store") /\ UNCHANGED <<op, info>>
      <3>1. /\ pc'[p] = "gensa.store" /\ op' = op /\ c'[p].status = c[p].status
            /\ \A q \in Procs : q # p => pc'[q] = pc[q]
        BY <2>3, PostCheckType DEF TypeOK
      <3> QED
        BY <1>0, <2>0, <2>1, <3>1
    <2> QED
      BY <1>3, <2>2, <2>3 DEF GenerateDriver
  <1>4. CASE GenerateStore(p)
    <2>0. pc[p] = "gensa.store" /\ cloud' = cloud /\ Return(p)
      BY <1>4 DEF GenerateStore
    <2>1. CASE StoreFails
      BY <1>0, <2>0, <2>1, ReturnKept, StoreError DEF Contract!Next, Contract!Lapse
    <2>2. CASE PersistStatus(p, c[p].status)
      <3>1. /\ store' \in Cluster /\ store'.status = c[p].status /\ mishap' = mishap
            /\ (Excused' <=> Excused) /\ (Marked' <=> Marked)
        BY <1>0, <2>2, Persisted DEF Excused, Marked
      <3>2. Meaning(store) = "created"
        BY <1>0, <2>0, Meanings
      <3>3. Meaning(store') = "open" => Excused
        BY <1>0, <2>0, <3>1, Meanings
      <3>4. Meaning(store') \in {"open", "failed", "created"}
        BY <1>0, <3>1, Meanings DEF Status
      <3>5. Contract!Next
        BY <2>0, <3>1, <3>2, <3>3, <3>4
           DEF Contract!Next, Contract!Open, Contract!Fail, Contract!Accept, Excused
      <3> QED
        BY <1>0, <2>0, <3>1, <3>5, ReturnKept
    <2> QED
      BY <1>4, <2>1, <2>2 DEF GenerateStore
  <1>5. CASE DriverETCDRestore(p)
    <2>0. /\ pc[p] = "etcd.driver" /\ UNCHANGED <<store, cloud, mishap>>
          /\ (Excused' <=> Excused) /\ (Marked' <=> Marked)
      BY <1>5 DEF DriverETCDRestore, Excused, Marked
    <2>1. Contract!Next
      BY <2>0 DEF Contract!Next, Contract!Lapse
    <2>2. CASE Return(p)
      BY <1>0, <2>0, <2>1, <2>2, ReturnKept
    <2>3. CASE cloud = "up" /\ Continue(p, "post.persist")
      <3>1. /\ pc'[p] = "post.persist" /\ c' = c /\ op' = op
            /\ \A q \in Procs : q # p => pc'[q] = pc[q]
        BY <2>3 DEF TypeOK
      <3> QED
        BY <1>0, <2>0, <2>1, <2>3, <3>1
    <2> QED
      BY <1>5, <2>2, <2>3 DEF DriverETCDRestore
  <1>6. CASE AuxRestore(p)
    <2>0. /\ pc[p] = "aux.restore" /\ UNCHANGED <<store, cloud>>
          /\ mishap \subseteq mishap'
      BY <1>6 DEF AuxRestore, Restored, RestoreFails, Fault
    <2>1. Contract!Next
      BY <2>0 DEF Contract!Next, Contract!Lapse
    <2>2. CASE Return(p)
      BY <1>0, <2>0, <2>1, <2>2, ReturnKept, ExcusesStay
    <2>3. CASE Goto(p, "aux.driver")
      <3>1. /\ pc'[p] = "aux.driver"
            /\ \A q \in Procs : q # p => pc'[q] = pc[q]
        BY <2>3 DEF TypeOK
      <3> QED
        BY <1>0, <2>0, <2>1, <3>1, ExcusesStay
    <2> QED
      BY <1>6, <2>2, <2>3 DEF AuxRestore
  <1>7. CASE AuxDriver(p)
    BY <1>0, <1>7, ReturnKept, ExcusesStay DEF AuxDriver, Contract!Next, Contract!Lapse
  <1> QED
    BY <1>1, <1>2, <1>3, <1>4, <1>5, <1>6, <1>7 DEF OtherNext

\* Remove, and `rm --force` after it.
LEMMA RemoveKept ==
  ASSUME TypeOK, TypeOK', ContractInv, ServiceCaller, NEW p \in Procs, RemoveNext(p)
  PROVE  Kept(p)
  <1> USE Statuses, StatusConstants
      DEF Kept, StoreAt, CloudAt, MemoryAt, BeginCreate, InCreate, InPost, HasRead,
          HasMarked, OnRecord, MidCreate, Unsettled, Unfinished
  <1>0. /\ StoreAt(p) /\ CloudAt(p) /\ MemoryAt(p)
        /\ store.status \in Unsettled => Excused
        /\ store.status \in Unfinished /\ "token" \in store.has => Marked
        /\ store \in Cluster \cup {NoRecord} /\ c[p] \in Cluster
    BY DEF ContractInv, TypeOK, RemoveNext, RemoveRestore, DriverRemove, RemoveStore,
           RemoveAgain
  <1>1. ASSUME NEW l \in {"remove.forced", "remove.again"}, Continue(p, l),
               l = "remove.forced" => "forced" \in mishap'
        PROVE  /\ \A q \in Procs : q # p => pc'[q] = pc[q]
               /\ StoreAt(p)' /\ CloudAt(p)' /\ MemoryAt(p)'
    <2>1. pc'[p] = l /\ \A q \in Procs : q # p => pc'[q] = pc[q]
      BY <1>1 DEF TypeOK
    <2> QED
      BY <1>1, <2>1
  <1>2. ASSUME RemoveFailed(p), mishap \subseteq mishap', UNCHANGED <<store, cloud>>
        PROVE  Kept(p)
    <2>1. Contract!Next
      BY <1>2 DEF Contract!Next, Contract!Lapse
    <2> QED
      BY <1>0, <1>1, <1>2, <2>1, ReturnKept, ExcusesStay DEF RemoveFailed
  <1>3. CASE RemoveRestore(p)
    <2>1. /\ pc[p] = "remove.restore" /\ UNCHANGED <<store, cloud>>
          /\ mishap \subseteq mishap'
      BY <1>3 DEF RemoveRestore, Restored, Fault
    <2>2. CASE Restored(p) /\ Goto(p, "remove.driver") /\ UNCHANGED <<op, info>>
      <3>1. pc'[p] = "remove.driver"
        BY <2>2 DEF TypeOK
      <3> QED
        BY <2>1, <2>2, <3>1, ReadKept
    <2>3. CASE Return(p)
      BY <2>1, <2>3, ReadKept
    <2> QED
      BY <1>2, <1>3, <2>1, <2>2, <2>3 DEF RemoveRestore, ServiceCaller
  <1>4. CASE DriverRemove(p)
    <2>0. /\ pc[p] = "remove.driver" /\ store' = store /\ mishap \subseteq mishap'
          /\ cloud' = cloud \/ cloud' = "none" \/ (cloud = "up" /\ cloud' = "partial")
      BY <1>4 DEF DriverRemove
    <2>1. (Excused => Excused') /\ (Marked => Marked')
      BY <2>0, ExcusesStay
    <2>2. Meaning(store) # "none"
      <3>1. store = c[p] /\ c[p] \in Cluster
        BY <1>0, <2>0
      <3>2. store # NoRecord
        BY <3>1 DEF Cluster, Status
      <3> QED
        BY <1>0, <3>2, Meanings
    <2>3. Contract!Next
      BY <2>0, <2>2 DEF Contract!Next, Contract!Lapse, Contract!Withdraw
    <2>4. CASE cloud' = "none" /\ Continue(p, "remove.store")
      <3>1. pc'[p] = "remove.store" /\ \A q \in Procs : q # p => pc'[q] = pc[q]
        BY <2>4 DEF TypeOK
      <3> QED
        BY <1>0, <2>0, <2>1, <2>3, <2>4, <3>1
    <2>5. CASE Return(p)
      BY <1>0, <2>0, <2>1, <2>3, <2>5, ReturnKept
    <2>6. CASE Continue(p, "remove.forced") /\ "forced" \in mishap'
      BY <1>0, <1>1, <2>0, <2>1, <2>3, <2>6
    <2> QED
      BY <1>4, <2>4, <2>5, <2>6 DEF DriverRemove
  <1>5. CASE RemoveStore(p)
    <2>1. CASE StoreFails /\ RemoveFailed(p)
      BY <1>2, <1>5, <2>1, StoreError DEF RemoveStore
    <2>2. CASE store' = NoRecord /\ Return(p) /\ UNCHANGED mishap
      <3>1. Meaning(store') = "none"
        BY <2>2, Meanings
      <3>2. Contract!Next
        BY <1>0, <1>5, <2>2, <3>1 DEF RemoveStore, Contract!Next, Contract!Forget
      <3> QED
        BY <1>5, <2>2, <3>2, ReturnKept
    <2> QED
      BY <1>5, <2>1, <2>2 DEF RemoveStore
  <1>6. CASE RemoveAgain(p)
    <2>1. CASE StoreFails
      BY <1>0, <1>6, <2>1, StoreError, ReturnKept
         DEF RemoveAgain, Contract!Next, Contract!Lapse
    <2>2. CASE store' = NoRecord /\ mishap' = mishap \cup {"forced"}
      <3>1. Meaning(store') = "none"
        BY <2>2, Meanings
      <3>2. Contract!Next
        BY <1>6, <2>2, <3>1 DEF RemoveAgain, Contract!Next, Contract!Forget
      <3> QED
        BY <1>6, <2>2, <3>2, ReturnKept DEF RemoveAgain
    <2> QED
      BY <1>6, <2>1, <2>2 DEF RemoveAgain
  <1> QED
    BY <1>3, <1>4, <1>5, <1>6 DEF RemoveNext

-----------------------------------------------------------------------------
\* A step of a running process that keeps what is said of it keeps the
\* invariant: all the others are idle.
LEMMA KeptInv ==
  ASSUME ContractInv, NEW p \in Procs, pc[p] # "idle", Kept(p)
  PROVE  ContractInv'
  <1>1. ASSUME NEW q \in Procs, q # p PROVE pc[q] = "idle" /\ pc'[q] = "idle"
    BY <1>1 DEF ContractInv, Kept
  <1>2. ASSUME NEW q \in Procs PROVE (StoreAt(q) /\ CloudAt(q) /\ MemoryAt(q))'
    <2>1. CASE q = p
      BY <2>1 DEF Kept
    <2>2. CASE q # p
      BY <1>1, <2>2 DEF StoreAt, CloudAt, MemoryAt, BeginCreate, InCreate, InPost,
                        HasRead, HasMarked, OnRecord
    <2> QED
      BY <2>1, <2>2
  <1> QED
    BY <1>1, <1>2 DEF ContractInv, Kept

\* Every step keeps the invariant and is a step of the contract.
LEMMA ContractStep ==
  ASSUME ServiceCaller, TypeOK, TypeOK', ContractInv, [Next]_vars
  PROVE  ContractInv' /\ [Contract!Next]_(Contract!cvars)
  <1>1. ASSUME NEW p \in Procs, pc[p] # "idle", Kept(p)
        PROVE  ContractInv' /\ Contract!Next
    BY <1>1, KeptInv DEF Kept
  <1>2. ASSUME NEW p \in Procs, NEW o \in Ops, Begin(p, o)
        PROVE  ContractInv' /\ Contract!Next
    <2>1. /\ \A q \in Procs : pc[q] = "idle"
          /\ pc'[p] = Entry(o) /\ op'[p] = o /\ c'[p] = Blank
          /\ \A q \in Procs : q # p => pc'[q] = "idle"
          /\ UNCHANGED <<store, cloud, mishap>>
      BY <1>2 DEF Begin, ServiceCaller, TypeOK
    <2>2. Contract!Next
      BY <2>1 DEF Contract!Next, Contract!Lapse
    <2>3. /\ Entry(o) \in {"create.init", "update.restore", "gensa.restore",
                            "etcd.restore", "aux.restore", "remove.restore"}
          /\ Entry(o) = "create.init" <=> o = "create"
      BY DEF Entry
    <2>4. (Excused' <=> Excused) /\ (Marked' <=> Marked)
      BY <2>1 DEF Excused, Marked
    <2>5. "token" \notin c'[p].has
      BY <2>1 DEF Blank
    <2>6. ASSUME NEW q \in Procs PROVE (StoreAt(q) /\ CloudAt(q) /\ MemoryAt(q))'
      <3>1. pc'[q] = "idle" \/ (q = p /\ pc'[q] = Entry(o))
        BY <2>1
      <3> QED
        BY <2>1, <2>3, <2>5, <3>1
           DEF StoreAt, CloudAt, MemoryAt, BeginCreate, InCreate, InPost, HasRead,
               HasMarked, OnRecord
    <2> QED
      BY <2>1, <2>2, <2>4, <2>6 DEF ContractInv, MidCreate
  <1>3. ASSUME NEW p \in Procs, Crash(p)
        PROVE  ContractInv' /\ Contract!Next
    <2>1. /\ Excused' /\ Marked' /\ mishap \subseteq mishap'
          /\ Return(p) /\ UNCHANGED <<store, cloud>> /\ pc[p] # "idle"
      BY <1>3 DEF Crash, Fault, Excused, Marked
    <2>2. Contract!Next
      BY <2>1 DEF Contract!Next, Contract!Lapse
    <2> QED
      BY <2>1, <2>2, ReturnKept, KeptInv DEF Kept
  <1>4. CASE UNCHANGED vars
    BY <1>4 DEF vars, ContractInv, StoreAt, CloudAt, MemoryAt, Excused, Marked,
                Contract!cvars
  <1>5. ASSUME NEW p \in Procs,
               \/ CreateNext(p) \/ PostNext(p) \/ UpdateNext(p) \/ OtherNext(p)
               \/ RemoveNext(p)
        PROVE  ContractInv' /\ Contract!Next
    <2>1. Kept(p)
      BY <1>5, CreateKept, PostKept, UpdateKept, OtherKept, RemoveKept
    <2>2. pc[p] # "idle"
      BY <1>5 DEF CreateNext, CreateInit, CreateRestore, CreateExists, CreatePre,
           CreateConfig, DriverCreateRejects, DriverCreateTouches,
           DriverCreateReturns, CreateRunning, CreateFail, PostNext, PostPersist,
           PostDriver, PostStore, UpdateNext, UpdateRestore, UpdateConfig,
           DriverUpdate, DriverUpsertRejects, DriverUpsertTouches,
           DriverUpsertReturns, OtherNext, GenerateRestore, GeneratePersist,
           GenerateDriver, GenerateStore, ETCDOptions, ETCDPersist,
           DriverETCDRestore, AuxRestore, AuxDriver, RemoveNext, RemoveRestore,
           DriverRemove, RemoveStore, RemoveAgain
    <2> QED
      BY <1>1, <2>1, <2>2
  <1> QED
    BY <1>2, <1>3, <1>4, <1>5 DEF Next

\* The invariant holds.
LEMMA ContractInvHolds ==
  ASSUME ServiceCaller
  PROVE  Spec => []ContractInv
  <1>1. Init => ContractInv
    <2> SUFFICES ASSUME Init PROVE ContractInv
      OBVIOUS
    <2> QED
      BY Statuses
         DEF Init, ContractInv, StoreAt, CloudAt, MemoryAt, BeginCreate, InCreate,
             InPost, HasRead, HasMarked, OnRecord, Unsettled, Unfinished
  <1>2. TypeOK /\ TypeOK' /\ ContractInv /\ [Next]_vars => ContractInv'
    BY ServiceCaller, ContractStep
  <1> QED
    BY <1>1, <1>2, TypeCorrect, PTL DEF Spec

\* For EngineService, whatever fails or dies, the engine keeps the contract.
THEOREM LifecycleImplementsContract ==
  ASSUME ServiceCaller
  PROVE  Spec => ImplementsContract
  <1>1. Init => Contract!Init
    BY Meanings DEF Init, Contract!Init
  <1>2. TypeOK /\ TypeOK' /\ ContractInv /\ [Next]_vars => [Contract!Next]_(Contract!cvars)
    BY ServiceCaller, ContractStep
  <1> QED
    BY <1>1, <1>2, TypeCorrect, ContractInvHolds, PTL DEF Spec, ImplementsContract, Contract!Spec

-----------------------------------------------------------------------------
(* What the record says is so.                                             *)

\* nothing that RunningIsUsable, nothing that NoDuplicateCreate excuses
Sound    == mishap \cap {"crash", "store", "removeFailed", "marked"} = {}
Unforced == mishap \cap {"crash", "store", "forced"} = {}

\* the statuses of a cluster that was created
Finished == AlreadyCreated \cup {NoStatus}
Whole(r) == {"metadata", "token"} \subseteq r.has

\* what the caller holds is what it is about to write: metadata when Driver.Create,
\* Update or ETCDRestore succeeded, the token too when PostCheck did, and both when it
\* has read the record of a created cluster
UsableAt(p) ==
  /\ pc[p] = "create.exists" => c[p] = store
  /\ pc[p] = "create.fail" /\ Sound => store.status # Running
  /\ pc[p] \in InPost \cup {"create.running"} => cloud = "up" /\ "metadata" \in c[p].has
  /\ pc[p] \in {"post.store", "create.running", "gensa.store"} => cloud = "up" /\ Whole(c[p])
  /\ Sound /\ (pc[p] \in HasMarked \/ (pc[p] \in InPost /\ op[p] # "create"))
       => cloud = "up" /\ Whole(c[p])

\* Create has the metadata of what is there, and knows that there is something
CoveredAt(p) ==
  /\ mishap = {} /\ cloud # "none"
     /\ pc[p] \in {"create.pre", "create.config", "create.driver", "create.fail"}
       => "metadata" \in c[p].has
  /\ Unforced /\ pc[p] \in {"create.pre", "create.config"} /\ info[p] = "nil"
       => cloud = "none"

\* the record is ahead of or behind the provider while a caller is there
Finishing(p) == \/ pc[p] = "remove.store"
                \/ op[p] = "create" /\ pc[p] \in {"post.driver", "post.store", "create.fail"}
Recording(p) == pc[p] \in {"create.cloud", "create.fail", "post.persist"}

\* what is said of the record as long as p is the only caller that runs
RecordAt(p) ==
  /\ UsableAt(p) /\ CoveredAt(p)
  /\ Sound /\ store.status \in Finished /\ ~Finishing(p) => cloud = "up" /\ Whole(store)
  /\ mishap = {} /\ cloud # "none" /\ ~Recording(p) => "metadata" \in store.has
  /\ Unforced /\ store = NoRecord => cloud = "none"

\* The inductive invariant, on top of ContractInv: RecordAt of every caller that runs.
RecordInv ==
  /\ \A p \in Procs : UsableAt(p) /\ CoveredAt(p)
  /\ Sound /\ store.status \in Finished /\ (\A p \in Procs : ~Finishing(p))
       => cloud = "up" /\ Whole(store)
  /\ mishap = {} /\ cloud # "none" /\ (\A p \in Procs : ~Recording(p))
       => "metadata" \in store.has
  /\ Unforced /\ store = NoRecord => cloud = "none"

\* what ContractInv says of a caller that runs
ContractAt(p) ==
  /\ StoreAt(p) /\ CloudAt(p) /\ MemoryAt(p)
  /\ store.status \in Unsettled => Excused \/ pc[p] \in MidCreate
  /\ store.status \in Unfinished /\ "token" \in store.has => Marked

\* Excuses are never taken back.
LEMMA RecordExcuses ==
  ASSUME mishap \subseteq mishap'
  PROVE  /\ Sound' => Sound
         /\ Unforced' => Unforced
         /\ mishap' = {} => mishap = {} /\ Sound /\ Unforced
  BY DEF Sound, Unforced

\* the labels at which nothing is said of a caller
Plain == {"idle", "create.init", "create.restore", "update.restore", "update.config",
          "gensa.restore", "gensa.persist", "etcd.restore", "etcd.persist", "aux.restore",
          "aux.driver", "remove.restore", "remove.driver", "remove.forced", "remove.again"}

\* A step that leaves the record and the provider as they are.
LEMMA PlainRecorded ==
  ASSUME NEW p \in Procs, RecordAt(p), UNCHANGED <<store, cloud>>, mishap \subseteq mishap',
         pc'[p] \in Plain, Sound' => ~Finishing(p), mishap' = {} => ~Recording(p)
  PROVE  RecordAt(p)'
  BY RecordExcuses
     DEF RecordAt, UsableAt, CoveredAt, Plain, Whole, InPost, HasMarked, Recording, Finishing

\* A death or an error of the store excuses everything but what PostCheck relies on.
LEMMA ExcusedRecorded ==
  ASSUME NEW p \in Procs, pc'[p] \in Plain \cup {"create.fail", "create.pre"},
         mishap' \cap {"crash", "store"} # {}
  PROVE  RecordAt(p)'
  BY DEF RecordAt, UsableAt, CoveredAt, Plain, InPost, HasMarked, Sound, Unforced

\* What a process that returns leaves.
LEMMA Returned ==
  ASSUME TypeOK, NEW p \in Procs, Return(p)
  PROVE  pc'[p] = "idle" /\ "idle" \in Plain
  BY DEF Return, TypeOK, Plain

\* A process that goes on keeps what it has in memory.
LEMMA Continued ==
  ASSUME TypeOK, NEW p \in Procs, NEW l, Continue(p, l)
  PROVE  pc'[p] = l /\ c'[p] = c[p] /\ op'[p] = op[p] /\ info'[p] = info[p]
  BY DEF TypeOK

\* An error of the store: the caller gives up, goes to the error branch of Create, or
\* drops the error.
LEMMA StoreFailsRecorded ==
  ASSUME TypeOK, NEW p \in Procs, StoreFails, Return(p) \/ Continue(p, "create.fail")
  PROVE  RecordAt(p)'
  <1>1. pc'[p] \in {"idle", "create.fail"}
    BY DEF Return, TypeOK
  <1>2. mishap' \cap {"crash", "store"} # {}
    BY DEF StoreFails, Fault
  <1> QED
    BY <1>1, <1>2, ExcusedRecorded DEF Plain

\* create and createInner.
LEMMA CreateRecorded ==
  ASSUME TypeOK, TypeOK', ServiceCaller, NEW p \in Procs, ContractAt(p), RecordAt(p),
         CreateNext(p)
  PROVE  RecordAt(p)'
  <1> USE Statuses, StatusConstants
  <1> USE DEF RecordAt, UsableAt, CoveredAt, Whole, Finished, AlreadyCreated, Finishing,
              Recording, InPost, HasMarked
  <1>0. c[p] \in Cluster /\ store \in Cluster \cup {NoRecord}
    BY DEF TypeOK
  <1>1. CASE CreateInit(p)
    <2>1. UNCHANGED <<store, cloud, mishap>>
      BY <1>1 DEF CreateInit, ContractAt, MemoryAt, BeginCreate
    <2>2. pc[p] = "create.init" /\ pc'[p] = "create.restore"
      BY <1>1, Continued DEF CreateInit
    <2> QED
      BY <2>1, <2>2, PlainRecorded DEF Plain
  <1>2. CASE CreateRestore(p)
    <2>1. /\ pc[p] = "create.restore" /\ UNCHANGED <<store, cloud, op>>
          /\ c[p] = Blank \/ c[p].status = Error
          /\ store.status \in Unsettled => Excused
      BY <1>2 DEF CreateRestore, ContractAt, MemoryAt, BeginCreate, MidCreate
    <2>2. \/ pc'[p] = "create.exists" /\ c'[p].status \in AlreadyCreated
          \/ /\ pc'[p] = "create.pre" /\ c'[p].status \notin AlreadyCreated
             /\ info'[p] = "nil" => c'[p].status # Error
      BY <1>2 DEF CreateRestore, TypeOK
    <2>3. CASE mishap' \cap {"crash", "store"} # {}
      <3>1. CASE pc'[p] = "create.pre"
        BY <2>3, <3>1, ExcusedRecorded
      <3>2. CASE pc'[p] = "create.exists"
        <4>1. c'[p] = store
          <5>1. Restored(p) \/ UNCHANGED c
            BY <1>2 DEF CreateRestore
          <5>2. ASSUME UNCHANGED c PROVE FALSE
            BY <2>1, <2>2, <3>2, <5>2 DEF Blank
          <5>3. CASE Restored(p)
            BY <5>3 DEF Restored, TypeOK
          <5> QED
            BY <5>1, <5>2, <5>3
        <4>2. ~Sound' /\ ~Unforced' /\ mishap' # {}
          BY <2>3 DEF Sound, Unforced
        <4> QED
          BY <2>1, <3>2, <4>1, <4>2
      <3> QED
        BY <2>2, <3>1, <3>2
    <2>4. CASE mishap' \cap {"crash", "store"} = {}
      <3>1. /\ mishap' = mishap
            /\ \/ c'[p] = store /\ store # NoRecord
               \/ c'[p] = c[p] /\ store = NoRecord
        BY <1>2, <2>4 DEF CreateRestore, Restored, RestoreFails, Fault, TypeOK
      <3>2. (Sound' <=> Sound) /\ (Unforced' <=> Unforced) /\ ~Excused
        BY <2>4, <3>1 DEF Sound, Unforced, Excused
      <3>3. CASE pc'[p] = "create.exists"
        BY <2>1, <2>2, <3>1, <3>2, <3>3
      <3>4. CASE pc'[p] = "create.pre"
        <4>1. info'[p] = "nil" => store = NoRecord
          BY <1>0, <2>1, <2>2, <3>1, <3>2, <3>4 DEF Cluster, Status, Unsettled
        <4> QED
          BY <2>1, <3>1, <3>2, <3>4, <4>1
      <3> QED
        BY <2>2, <3>3, <3>4
    <2> QED
      BY <2>3, <2>4
  <1>3. CASE CreateExists(p)
    <2>1. CASE StoreFails
      BY <1>3, <2>1, StoreFailsRecorded DEF CreateExists
    <2>2. CASE PersistStatus(p, Running)
      <3>1. /\ pc[p] = "create.exists" /\ pc'[p] = "idle" /\ cloud' = cloud
            /\ store'.status = Running /\ store'.has = c[p].has /\ mishap' = mishap
            /\ c[p] = store /\ store.status \in AlreadyCreated /\ store' # NoRecord
        BY <1>3, <2>2, Persisted, Returned DEF CreateExists, ContractAt, StoreAt
      <3> QED
        BY <3>1, RecordExcuses
    <2> QED
      BY <1>3, <2>1, <2>2 DEF CreateExists
  <1>4. CASE CreatePre(p)
    <2>1. CASE StoreFails /\ Continue(p, "create.fail")
      BY <2>1, StoreFailsRecorded
    <2>2. CASE PersistStatus(p, PreCreating) /\ Continue(p, "create.config")
      <3>1. /\ pc[p] = "create.pre" /\ pc'[p] = "create.config" /\ cloud' = cloud
            /\ store'.status = PreCreating /\ store'.has = c[p].has /\ mishap' = mishap
            /\ c'[p] = c[p] /\ info'[p] = info[p] /\ store' # NoRecord
        BY <1>4, <2>2, Persisted, Continued DEF CreatePre
      <3> QED
        BY <3>1, RecordExcuses
    <2> QED
      BY <1>4, <2>1, <2>2 DEF CreatePre
  <1>5. CASE CreateConfig(p)
    <2>1. CASE StoreFails /\ Continue(p, "create.fail")
      BY <2>1, StoreFailsRecorded
    <2>2. CASE UNCHANGED <<store, mishap>> /\ Continue(p, "create.fail")
      <3>1. /\ pc[p] = "create.config" /\ pc'[p] = "create.fail" /\ cloud' = cloud
            /\ c'[p] = c[p] /\ store.status = PreCreating
        BY <1>5, <2>2, Continued DEF CreateConfig, ContractAt, StoreAt
      <3> QED
        BY <2>2, <3>1, RecordExcuses
    <2>3. CASE PersistCreating(p) /\ Continue(p, "create.driver")
      <3>1. /\ pc[p] = "create.config" /\ pc'[p] = "create.driver" /\ cloud' = cloud
            /\ store'.status = Creating /\ store'.has = c[p].has /\ mishap' = mishap
            /\ c'[p] = c[p] /\ store' # NoRecord
        BY <1>5, <2>3, Persisted, Continued DEF CreateConfig, PersistCreating
      <3> QED
        BY <3>1, RecordExcuses
    <2> QED
      BY <1>5, <2>1, <2>2, <2>3 DEF CreateConfig
  <1>6. CASE DriverCreateRejects(p)
    <2>1. /\ pc[p] = "create.driver" /\ pc'[p] = "create.fail"
          /\ UNCHANGED <<store, cloud, mishap>> /\ store.status = Creating
          /\ c'[p] = c[p] \/ "metadata" \in c'[p].has
      BY <1>6, FreshDescribed DEF DriverCreateRejects, ContractAt, StoreAt, TypeOK
    <2> QED
      BY <2>1, RecordExcuses
  <1>7. CASE DriverCreateTouches(p)
    <2>1. /\ pc[p] = "create.driver" /\ pc'[p] = "create.cloud"
          /\ UNCHANGED <<store, mishap>> /\ store.status = Creating
      BY <1>7, Continued DEF DriverCreateTouches, ContractAt, StoreAt
    <2> QED
      BY <2>1
  <1>8. CASE DriverCreateReturns(p)
    <2>1. pc[p] = "create.cloud" /\ UNCHANGED <<store, op>> /\ store.status = Creating
      BY <1>8 DEF DriverCreateReturns, ContractAt, StoreAt
    <2>2. op[p] = "create"
      BY <2>1 DEF ContractAt, MemoryAt, InCreate
    <2>3. \/ /\ pc'[p] = "post.persist" /\ cloud' = "up" /\ "metadata" \in c'[p].has
          \/ /\ pc'[p] = "create.fail" /\ "metadata" \in c'[p].has
          \/ /\ pc'[p] = "create.fail" /\ mishap' # {}
      BY <1>8, FreshDescribed DEF DriverCreateReturns, FailedCreateInfo, Fault, TypeOK
    <2> QED
      BY <2>1, <2>2, <2>3
  <1>9. CASE CreateRunning(p)
    <2>1. CASE StoreFails
      BY <1>9, <2>1, StoreFailsRecorded DEF CreateRunning
    <2>2. CASE PersistStatus(p, Running)
      <3>1. /\ pc[p] = "create.running" /\ pc'[p] = "idle" /\ cloud' = cloud
            /\ store'.status = Running /\ store'.has = c[p].has /\ store' # NoRecord
        BY <1>9, <2>2, Persisted, Returned DEF CreateRunning
      <3> QED
        BY <3>1
    <2> QED
      BY <1>9, <2>1, <2>2 DEF CreateRunning
  <1>10. CASE CreateFail(p)
    <2>1. CASE StoreFails
      BY <1>10, <2>1, StoreFailsRecorded DEF CreateFail
    <2>2. CASE PersistStatus(p, Error)
      <3>1. /\ pc[p] = "create.fail" /\ pc'[p] = "idle" /\ cloud' = cloud
            /\ store'.status = Error /\ store'.has = c[p].has /\ store' # NoRecord
            /\ mishap' = mishap
        BY <1>10, <2>2, Persisted, Returned DEF CreateFail
      <3> QED
        BY <3>1
    <2> QED
      BY <1>10, <2>1, <2>2 DEF CreateFail
  <1> QED
    BY <1>1, <1>2, <1>3, <1>4, <1>5, <1>6, <1>7, <1>8, <1>9, <1>10 DEF CreateNext

\* A successful Driver.PostCheck.
LEMMA PostChecked ==
  ASSUME TypeOK, NEW p \in Procs, PostCheckSucceeds(p)
  PROVE  cloud = "up" /\ "metadata" \in c'[p].has /\ "token" \in c'[p].has
  <1>1. c[p] = [status |-> c[p].status, has |-> c[p].has]
    BY DEF TypeOK, Cluster
  <1>2. c'[p].has = c[p].has \cup {"ca", "token"}
    BY <1>1 DEF PostCheckSucceeds, TypeOK
  <1> QED
    BY <1>2 DEF PostCheckSucceeds

\* A record that a caller has read is there.
LEMMA KnownRecord ==
  ASSUME TypeOK, NEW p \in Procs, ContractAt(p), pc[p] \in HasRead
  PROVE  store = c[p] /\ store \in Cluster /\ store # NoRecord
  <1>1. c[p] \in Cluster /\ c[p].status \in Status
    BY DEF TypeOK, Cluster
  <1>2. c[p] # NoRecord
    BY <1>1, Statuses, StatusConstants DEF Status
  <1> QED
    BY <1>1, <1>2 DEF ContractAt, StoreAt

\* PostCheck.
LEMMA PostRecorded ==
  ASSUME TypeOK, TypeOK', ServiceCaller, NEW p \in Procs, ContractAt(p), RecordAt(p),
         PostNext(p)
  PROVE  RecordAt(p)'
  <1> USE Statuses, StatusConstants
  <1> USE DEF RecordAt, UsableAt, CoveredAt, Whole, Finished, AlreadyCreated, Finishing,
              Recording, InPost, HasMarked
  <1>0. c[p] \in Cluster /\ store \in Cluster \cup {NoRecord}
    BY DEF TypeOK
  <1>1. ASSUME StoreFails, PostFailed(p) PROVE RecordAt(p)'
    BY <1>1, StoreFailsRecorded DEF PostFailed
  <1>2. CASE PostPersist(p)
    <2>1. CASE PersistStatus(p, PostCheck) /\ Continue(p, "post.driver")
      <3>1. /\ pc[p] = "post.persist" /\ pc'[p] = "post.driver" /\ cloud' = cloud
            /\ store'.status = PostCheck /\ store'.has = c[p].has /\ store' # NoRecord
            /\ c'[p] = c[p] /\ op'[p] = op[p] /\ mishap' = mishap
        BY <1>2, <2>1, Persisted, Continued DEF PostPersist
      <3> QED
        BY <3>1, RecordExcuses
    <2> QED
      BY <1>1, <1>2, <2>1 DEF PostPersist
  <1>3. CASE PostDriver(p)
    <2>1. pc[p] = "post.driver" /\ UNCHANGED <<store, cloud, mishap>>
      BY <1>3 DEF PostDriver
    <2>2. CASE PostCheckSucceeds(p) /\ Goto(p, "post.store") /\ UNCHANGED <<op, info>>
      <3>1. /\ pc'[p] = "post.store" /\ op'[p] = op[p]
            /\ cloud = "up" /\ {"metadata", "token"} \subseteq c'[p].has
        BY <2>2, PostChecked DEF TypeOK
      <3> QED
        BY <2>1, <3>1, RecordExcuses
    <2>3. CASE op[p] = "create" /\ Continue(p, "create.fail")
      <3>1. pc'[p] = "create.fail" /\ c'[p] = c[p] /\ op'[p] = "create"
        BY <2>3, Continued
      <3>2. store.status = PostCheck
        BY <2>1 DEF ContractAt, StoreAt
      <3> QED
        BY <2>1, <3>1, <3>2, RecordExcuses
    <2>4. CASE op[p] # "create" /\ Return(p)
      BY <2>1, <2>4, Returned, PlainRecorded
    <2> QED
      BY <1>3, <2>2, <2>3, <2>4 DEF PostDriver, PostFailed
  <1>4. CASE PostStore(p)
    <2>1. CASE /\ PersistStatus(p, c[p].status)
               /\ IF op[p] = "create" THEN Continue(p, "create.running") ELSE Return(p)
      <3>1. c[p].status \in Status
        BY <1>0 DEF Cluster
      <3>2. /\ pc[p] = "post.store" /\ cloud' = cloud
            /\ store'.has = c[p].has /\ store' # NoRecord
            /\ cloud = "up" /\ Whole(c[p])
        BY <1>4, <2>1, <3>1, Persisted DEF PostStore
      <3>3. pc'[p] = "idle" \/ (pc'[p] = "create.running" /\ c'[p] = c[p])
        BY <2>1, Returned, Continued
      <3> QED
        BY <3>2, <3>3
    <2> QED
      BY <1>1, <1>4, <2>1 DEF PostStore
  <1> QED
    BY <1>2, <1>3, <1>4 DEF PostNext

\* Update.
LEMMA UpdateRecorded ==
  ASSUME TypeOK, TypeOK', ServiceCaller, NEW p \in Procs, ContractAt(p), RecordAt(p),
         UpdateNext(p)
  PROVE  RecordAt(p)'
  <1> USE Statuses, StatusConstants
  <1>0. c[p] \in Cluster /\ store \in Cluster \cup {NoRecord}
    BY DEF TypeOK
  <1>1. CASE UpdateRestore(p)
    <2>1. /\ pc[p] = "update.restore" /\ UNCHANGED <<store, cloud>>
          /\ mishap \subseteq mishap'
          /\ pc'[p] \in {"create.init", "update.config", "idle"}
      <3>1. Goto(p, "create.init") \/ Goto(p, "update.config") \/ Goto(p, "idle")
        BY <1>1 DEF UpdateRestore, Return
      <3>2. pc'[p] \in {"create.init", "update.config", "idle"}
        BY <3>1 DEF TypeOK
      <3> QED
        BY <1>1, <3>2 DEF UpdateRestore, Restored, RestoreFails, Fault
    <2> QED
      BY <2>1, PlainRecorded DEF Plain, Finishing, Recording
  <1> USE DEF RecordAt, UsableAt, CoveredAt, Whole, Finished, AlreadyCreated, Finishing,
              Recording, InPost, HasMarked
  <1>2. CASE UpdateConfig(p)
    <2>1. /\ pc[p] = "update.config" /\ cloud' = cloud
          /\ store = c[p] /\ store.status \notin Unfinished
      BY <1>2 DEF UpdateConfig, ContractAt, StoreAt, HasRead
    <2>2. CASE UNCHANGED <<store, mishap>> /\ Return(p)
      BY <2>1, <2>2, Returned, PlainRecorded
    <2>3. CASE StoreFails /\ Return(p)
      BY <2>3, StoreFailsRecorded
    <2>4. CASE PersistStatus(p, Updating) /\ Continue(p, "update.driver")
      <3>1. /\ pc'[p] = "update.driver" /\ c'[p] = c[p] /\ mishap' = mishap
            /\ store'.status = Updating /\ store'.has = c[p].has /\ store' # NoRecord
        BY <2>4, Persisted, Continued
      <3>2. store.status \in Finished
        BY <1>0, <2>1 DEF Cluster, Status, Unfinished
      <3> QED
        BY <2>1, <3>1, <3>2, RecordExcuses
    <2> QED
      BY <1>2, <2>2, <2>3, <2>4 DEF UpdateConfig
  <1>3. CASE DriverUpdate(p)
    <2>1. pc[p] = "update.driver" /\ UNCHANGED <<store, cloud, mishap>>
      BY <1>3 DEF DriverUpdate
    <2>2. CASE Return(p)
      BY <2>1, <2>2, Returned, PlainRecorded
    <2>3. CASE cloud = "up" /\ "metadata" \in c[p].has /\ Continue(p, "post.persist")
      <3>1. pc'[p] = "post.persist" /\ c'[p] = c[p] /\ op'[p] = op[p]
        BY <2>3, Continued
      <3>2. op[p] # "create"
        BY <2>1 DEF ContractAt, MemoryAt, OnRecord
      <3> QED
        BY <2>1, <2>3, <3>1, <3>2, RecordExcuses
    <2> QED
      BY <1>3, <2>2, <2>3 DEF DriverUpdate
  <1> QED
    BY <1>1, <1>2, <1>3
       DEF UpdateNext, DriverUpsertRejects, DriverUpsertTouches, DriverUpsertReturns,
           ServiceCaller, ContractAt, CloudAt

\* GenerateServiceAccount and ETCDRestore mark the record Updating.
LEMMA MarkRecorded ==
  ASSUME TypeOK, TypeOK', NEW p \in Procs, ContractAt(p), RecordAt(p), cloud' = cloud,
         MarkUpdating(p), \/ pc[p] = "gensa.persist" /\ Continue(p, "gensa.driver")
                          \/ pc[p] = "etcd.persist" /\ Continue(p, "etcd.driver")
  PROVE  RecordAt(p)'
  <1> USE Statuses, StatusConstants
  <1>1. /\ store'.status = Updating /\ store'.has = c[p].has /\ store' # NoRecord
        /\ mishap \subseteq mishap' /\ ("token" \notin c[p].has => "marked" \in mishap')
    BY MarkedUpdating
  <1>2. /\ pc'[p] \in {"gensa.driver", "etcd.driver"} /\ c'[p] = c[p]
        /\ pc[p] \in {"gensa.persist", "etcd.persist"}
    BY Continued
  <1>3. store = c[p] /\ store \in Cluster
    BY <1>2, KnownRecord DEF HasRead
  <1>4. ASSUME Sound' PROVE cloud = "up" /\ Whole(store)
    <2>1. Sound /\ "token" \in store.has /\ ~Marked
      BY <1>1, <1>3, <1>4, RecordExcuses DEF Sound, Marked
    <2>2. store.status \in Finished
      BY <1>3, <2>1 DEF ContractAt, Unfinished, Finished, AlreadyCreated, Cluster, Status
    <2> QED
      BY <1>2, <2>1, <2>2 DEF RecordAt, Finishing
  <1>5. ASSUME mishap' = {}, cloud # "none" PROVE "metadata" \in store'.has
    BY <1>1, <1>2, <1>3, <1>5, RecordExcuses DEF RecordAt, Recording
  <1> QED
    BY <1>1, <1>2, <1>3, <1>4, <1>5
       DEF RecordAt, UsableAt, CoveredAt, Whole, HasMarked, InPost

\* GenerateServiceAccount, ETCDRestore and the operations that only ask the driver.
LEMMA OtherRecorded ==
  ASSUME TypeOK, TypeOK', ServiceCaller, NEW p \in Procs, ContractAt(p), RecordAt(p),
         OtherNext(p)
  PROVE  RecordAt(p)'
  <1> USE Statuses, StatusConstants
  <1>0. c[p] \in Cluster /\ store \in Cluster \cup {NoRecord}
    BY DEF TypeOK
  <1>1. CASE GenerateRestore(p) \/ ETCDOptions(p) \/ AuxRestore(p) \/ AuxDriver(p)
    <2>1. /\ pc[p] \in Plain /\ UNCHANGED <<store, cloud>>
          /\ mishap \subseteq mishap'
          /\ pc'[p] \in Plain
      BY <1>1 DEF GenerateRestore, ETCDOptions, AuxRestore, AuxDriver, Restored,
                  RestoreFails, Fault, Return, TypeOK, Plain
    <2> QED
      BY <2>1, PlainRecorded DEF Plain, Finishing, Recording
  <1>2. CASE GeneratePersist(p)
    BY <1>2, MarkRecorded, StoreFailsRecorded DEF GeneratePersist
  <1>3. CASE ETCDPersist(p)
    BY <1>3, MarkRecorded, StoreFailsRecorded DEF ETCDPersist
  <1> USE DEF RecordAt, UsableAt, CoveredAt, Whole, Finished, AlreadyCreated, Finishing,
              Recording, InPost, HasMarked
  <1>4. CASE GenerateDriver(p)
    <2>1. pc[p] = "gensa.driver" /\ UNCHANGED <<store, cloud, mishap>>
      BY <1>4 DEF GenerateDriver
    <2>2. CASE PostCheckSucceeds(p) /\ Goto(p, "gensa.store") /\ UNCHANGED <<op, info>>
      <3>1. /\ pc'[p] = "gensa.store"
            /\ cloud = "up" /\ {"metadata", "token"} \subseteq c'[p].has
        BY <2>2, PostChecked DEF TypeOK
      <3> QED
        BY <2>1, <3>1, RecordExcuses
    <2>3. CASE Return(p)
      BY <2>1, <2>3, Returned, PlainRecorded
    <2> QED
      BY <1>4, <2>2, <2>3 DEF GenerateDriver
  <1>5. CASE GenerateStore(p)
    <2>1. CASE StoreFails
      BY <1>5, <2>1, StoreFailsRecorded DEF GenerateStore
    <2>2. CASE PersistStatus(p, c[p].status)
      <3>1. c[p].status \in Status
        BY <1>0 DEF Cluster
      <3>2. /\ pc[p] = "gensa.store" /\ cloud' = cloud /\ pc'[p] = "idle"
            /\ store'.has = c[p].has /\ store' # NoRecord
        BY <1>5, <2>2, <3>1, Persisted, Returned DEF GenerateStore
      <3> QED
        BY <3>2
    <2> QED
      BY <1>5, <2>1, <2>2 DEF GenerateStore
  <1>6. CASE DriverETCDRestore(p)
    <2>1. pc[p] = "etcd.driver" /\ UNCHANGED <<store, cloud, mishap>>
      BY <1>6 DEF DriverETCDRestore
    <2>2. CASE Return(p)
      BY <2>1, <2>2, Returned, PlainRecorded
    <2>3. CASE cloud = "up" /\ "metadata" \in c[p].has /\ Continue(p, "post.persist")
      <3>1. pc'[p] = "post.persist" /\ c'[p] = c[p] /\ op'[p] = op[p]
        BY <2>3, Continued
      <3> QED
        BY <2>1, <2>3, <3>1, RecordExcuses
    <2> QED
      BY <1>6, <2>2, <2>3 DEF DriverETCDRestore
  <1> QED
    BY <1>1, <1>2, <1>3, <1>4, <1>5, <1>6 DEF OtherNext

\* Remove.
LEMMA RemoveRecorded ==
  ASSUME TypeOK, TypeOK', ServiceCaller, NEW p \in Procs, ContractAt(p), RecordAt(p),
         RemoveNext(p)
  PROVE  RecordAt(p)'
  <1> USE Statuses, StatusConstants
  <1>1. CASE RemoveRestore(p)
    <2>1. /\ pc[p] \in Plain /\ UNCHANGED <<store, cloud>>
          /\ mishap \subseteq mishap'
          /\ pc'[p] \in Plain
      <3>1. \/ Goto(p, "remove.driver") \/ Goto(p, "remove.again") \/ Goto(p, "idle")
        BY <1>1 DEF RemoveRestore, RemoveFailed, Return, Continue
      <3>2. pc'[p] \in Plain
        BY <3>1 DEF TypeOK, Plain, Goto
      <3>3. pc[p] \in Plain /\ UNCHANGED <<store, cloud>> /\ mishap \subseteq mishap'
        BY <1>1 DEF RemoveRestore, Restored, Fault, Plain
      <3> QED
        BY <3>2, <3>3
    <2> QED
      BY <2>1, PlainRecorded DEF Plain, Finishing, Recording
  <1> USE DEF RecordAt, UsableAt, CoveredAt, Whole, Finished, AlreadyCreated, Finishing,
              Recording, InPost, HasMarked
  <1>2. CASE DriverRemove(p)
    <2>1. pc[p] = "remove.driver" /\ store' = store /\ store # NoRecord
      BY <1>2, KnownRecord DEF DriverRemove, HasRead
    <2>2. \/ cloud' = "none" /\ pc'[p] = "remove.store"
          \/ pc'[p] \in {"idle", "remove.forced"} /\ "removeFailed" \in mishap'
      BY <1>2, Returned, Continued DEF DriverRemove
    <2>3. "removeFailed" \in mishap' => ~Sound' /\ mishap' # {}
      BY DEF Sound
    <2> QED
      BY <2>1, <2>2, <2>3
  <1>3. CASE RemoveStore(p)
    <2>1. CASE store' = NoRecord /\ Return(p) /\ UNCHANGED mishap
      <3>1. pc'[p] = "idle" /\ cloud' = cloud /\ pc[p] \in {"remove.store", "remove.forced"}
        BY <1>3, <2>1, Returned DEF RemoveStore
      <3>2. cloud = "none" \/ "forced" \in mishap'
        BY <2>1, <3>1 DEF ContractAt, CloudAt
      <3>3. "forced" \in mishap' => ~Unforced' /\ mishap' # {}
        BY DEF Unforced
      <3> QED
        BY <2>1, <3>1, <3>2, <3>3
    <2>2. CASE StoreFails /\ RemoveFailed(p)
      <3>1. pc'[p] \in {"idle", "remove.again"}
        BY <2>2, Returned, Continued DEF RemoveFailed
      <3>2. mishap' \cap {"crash", "store"} # {}
        BY <2>2 DEF StoreFails, Fault
      <3> QED
        BY <3>1, <3>2, ExcusedRecorded DEF Plain
    <2> QED
      BY <1>3, <2>1, <2>2 DEF RemoveStore
  <1>4. CASE RemoveAgain(p)
    <2>1. CASE StoreFails
      BY <1>4, <2>1, StoreFailsRecorded DEF RemoveAgain
    <2>2. CASE store' = NoRecord /\ mishap' = mishap \cup {"forced"}
      <3>1. pc'[p] = "idle"
        BY <1>4, Returned DEF RemoveAgain
      <3>2. ~Unforced' /\ mishap' # {}
        BY <2>2 DEF Unforced
      <3> QED
        BY <2>2, <3>1, <3>2
    <2> QED
      BY <1>4, <2>1, <2>2 DEF RemoveAgain
  <1> QED
    BY <1>1, <1>2, <1>3, <1>4 DEF RemoveNext

-----------------------------------------------------------------------------
\* What the two invariants say of the caller that runs.
LEMMA AtCaller ==
  ASSUME ContractInv, RecordInv, NEW p \in Procs, pc[p] # "idle"
  PROVE  ContractAt(p) /\ RecordAt(p)
  <1>1. \A q \in Procs : q # p => pc[q] = "idle"
    BY DEF ContractInv
  <1>2. \A q \in Procs : q # p => ~Finishing(q) /\ ~Recording(q) /\ pc[q] \notin MidCreate
    BY <1>1 DEF Finishing, Recording, MidCreate
  <1>3. ContractAt(p)
    BY <1>2 DEF ContractInv, ContractAt
  <1>4. RecordAt(p)
    BY <1>2 DEF RecordInv, RecordAt
  <1> QED
    BY <1>3, <1>4

\* What a caller leaves is the invariant when all the others are idle.
LEMMA RecordedInv ==
  ASSUME ContractInv, NEW p \in Procs, \A q \in Procs : q # p => pc'[q] = "idle", RecordAt(p)'
  PROVE  RecordInv'
  <1>1. \A q \in Procs : q # p => ~Finishing(q)' /\ ~Recording(q)'
    BY DEF Finishing, Recording
  <1>2. ASSUME NEW q \in Procs PROVE UsableAt(q)' /\ CoveredAt(q)'
    <2>1. CASE q = p
      BY <2>1 DEF RecordAt
    <2>2. CASE q # p
      BY <2>2 DEF UsableAt, CoveredAt, InPost, HasMarked
    <2> QED
      BY <2>1, <2>2
  <1> QED
    BY <1>1, <1>2 DEF RecordInv, RecordAt

\* A step of one caller leaves the labels of the others alone.
LEMMA OthersIdle ==
  ASSUME TypeOK, TypeOK', ServiceCaller, ContractInv, NEW p \in Procs,
         \/ CreateNext(p) \/ PostNext(p) \/ UpdateNext(p) \/ OtherNext(p)
         \/ RemoveNext(p)
  PROVE  pc[p] # "idle" /\ \A q \in Procs : q # p => pc'[q] = "idle"
  <1>1. pc[p] # "idle"
    BY DEF CreateNext, CreateInit, CreateRestore, CreateExists, CreatePre,
           CreateConfig, DriverCreateRejects, DriverCreateTouches,
           DriverCreateReturns, CreateRunning, CreateFail, PostNext, PostPersist,
           PostDriver, PostStore, UpdateNext, UpdateRestore, UpdateConfig,
           DriverUpdate, DriverUpsertRejects, DriverUpsertTouches,
           DriverUpsertReturns, OtherNext, GenerateRestore, GeneratePersist,
           GenerateDriver, GenerateStore, ETCDOptions, ETCDPersist,
           DriverETCDRestore, AuxRestore, AuxDriver, RemoveNext, RemoveRestore,
           DriverRemove, RemoveStore, RemoveAgain
  <1>2. Kept(p)
    BY CreateKept, PostKept, UpdateKept, OtherKept, RemoveKept
  <1> QED
    BY <1>1, <1>2 DEF ContractInv, Kept

\* The invariant of the record holds.
LEMMA RecordInvHolds ==
  ASSUME ServiceCaller
  PROVE  Spec => []RecordInv
  <1>1. Init => RecordInv
    BY Statuses, StatusConstants
       DEF Init, RecordInv, UsableAt, CoveredAt, InPost, HasMarked, Finished, AlreadyCreated
  <1>2. TypeOK /\ TypeOK' /\ ContractInv /\ RecordInv /\ [Next]_vars => RecordInv'
    <2> SUFFICES ASSUME TypeOK, TypeOK', ContractInv, RecordInv, [Next]_vars
                 PROVE  RecordInv'
      OBVIOUS
    <2>1. ASSUME NEW p \in Procs, NEW o \in Ops, Begin(p, o) PROVE RecordInv'
      <3>1. /\ \A q \in Procs : pc[q] = "idle"
            /\ \A q \in Procs : q # p => pc'[q] = "idle"
            /\ pc'[p] = Entry(o) /\ UNCHANGED <<store, cloud, mishap>>
        BY <2>1, ServiceCaller DEF Begin, ServiceCaller, TypeOK
      <3>2. Entry(o) \in Plain
        BY DEF Entry, Plain
      <3>3. RecordAt(p)
        BY <3>1 DEF RecordInv, RecordAt, Finishing, Recording
      <3>4. RecordAt(p)'
        BY <3>1, <3>2, <3>3, PlainRecorded DEF Finishing, Recording
      <3> QED
        BY <3>1, <3>4, RecordedInv
    <2>2. ASSUME NEW p \in Procs, Crash(p) PROVE RecordInv'
      <3>1. /\ pc[p] # "idle" /\ mishap' \cap {"crash", "store"} # {}
            /\ pc'[p] \in Plain /\ \A q \in Procs : q # p => pc'[q] = pc[q]
        BY <2>2 DEF Crash, Fault, Return, TypeOK, Plain
      <3>2. \A q \in Procs : q # p => pc'[q] = "idle"
        BY <3>1 DEF ContractInv
      <3> QED
        BY <3>1, <3>2, ExcusedRecorded, RecordedInv
    <2>3. ASSUME NEW p \in Procs,
                 \/ CreateNext(p) \/ PostNext(p) \/ UpdateNext(p) \/ OtherNext(p)
                 \/ RemoveNext(p)
          PROVE  RecordInv'
      <3>1. pc[p] # "idle" /\ \A q \in Procs : q # p => pc'[q] = "idle"
        BY <2>3, ServiceCaller, OthersIdle
      <3>2. RecordAt(p)'
        BY <2>3, <3>1, ServiceCaller, AtCaller, CreateRecorded, PostRecorded,
           UpdateRecorded, OtherRecorded, RemoveRecorded
      <3> QED
        BY <3>1, <3>2, RecordedInv
    <2>4. CASE UNCHANGED vars
      BY <2>4 DEF vars, RecordInv, UsableAt, CoveredAt, Finishing, Recording, Sound, Unforced
    <2> QED
      BY <2>1, <2>2, <2>3, <2>4 DEF Next
  <1> QED
    BY <1>1, <1>2, TypeCorrect, ContractInvHolds, PTL DEF Spec

\* A record that says Running is a cluster that is up and has the token, whatever
\* sequence of failing operations and lost calls led there.
THEOREM RunningMeansUsable ==
  ASSUME ServiceCaller
  PROVE  Spec => []RunningIsUsable
  <1>1. ContractInv /\ RecordInv => RunningIsUsable
    <2> SUFFICES ASSUME ContractInv, RecordInv, store.status = Running,
                        \A p \in Procs : pc[p] # "remove.store", Sound
                 PROVE  cloud = "up" /\ Whole(store)
      BY DEF RunningIsUsable, Sound, Whole
    <2>1. ASSUME NEW p \in Procs PROVE ~Finishing(p)
      BY Statuses, StatusConstants DEF ContractInv, RecordInv, StoreAt, UsableAt, Finishing
    <2> QED
      BY <2>1 DEF RecordInv, Finished, AlreadyCreated
  <1> QED
    BY <1>1, ContractInvHolds, RecordInvHolds, PTL

\* As long as nothing failed outside the program, the record leads to what the
\* provider has.
THEOREM RecordCoversCloud ==
  ASSUME ServiceCaller
  PROVE  Spec => []MetadataCoversCloud
  <1>1. RecordInv => MetadataCoversCloud
    BY DEF RecordInv, MetadataCoversCloud, AllIdle, Recording
  <1> QED
    BY <1>1, RecordInvHolds, PTL

\* Driver.Create is asked for a new cluster only when the provider has nothing of it.
THEOREM CreatesOnce ==
  ASSUME ServiceCaller
  PROVE  Spec => NoDuplicateCreate
  <1> DEFINE Once == \A p \in Procs :
                       /\ pc[p] # "create.driver" /\ pc'[p] = "create.driver"
                       /\ cloud # "none"
                       /\ mishap \cap {"crash", "store", "forced"} = {}
                       => info[p] = "retry"
  <1>1. TypeOK /\ ContractInv /\ RecordInv /\ [Next]_vars => [Once]_vars
    <2> SUFFICES ASSUME TypeOK, ContractInv, RecordInv, [Next]_vars,
                        NEW p \in Procs, pc[p] # "create.driver", pc'[p] = "create.driver",
                        cloud # "none", Unforced
                 PROVE  info[p] = "retry"
      BY DEF Unforced
    <2>1. pc[p] = "create.config"
      <3> USE DEF TypeOK, Return
      <3>1. PICK q \in Procs :
              \/ \E o \in Ops : Begin(q, o)
              \/ CreateNext(q) \/ PostNext(q) \/ UpdateNext(q) \/ OtherNext(q)
              \/ RemoveNext(q) \/ Crash(q)
        BY DEF Next, vars
      <3>2. ASSUME NEW o \in Ops, Begin(q, o) PROVE FALSE
        BY <3>2 DEF Begin, Entry
      <3>3. ASSUME CreateNext(q), ~CreateConfig(q) PROVE FALSE
        BY <3>3 DEF CreateNext, CreateInit, CreateRestore, CreateExists, CreatePre,
                    DriverCreateRejects, DriverCreateTouches, DriverCreateReturns,
                    CreateRunning, CreateFail
      <3>4. ASSUME PostNext(q) \/ UpdateNext(q) PROVE FALSE
        BY <3>4 DEF PostNext, PostPersist, PostDriver, PostStore, PostFailed, UpdateNext,
                    UpdateRestore, UpdateConfig, DriverUpdate, DriverUpsertRejects,
                    DriverUpsertTouches, DriverUpsertReturns
      <3>5. ASSUME OtherNext(q) PROVE FALSE
        BY <3>5 DEF OtherNext, GenerateRestore, GeneratePersist, GenerateDriver,
                    GenerateStore, ETCDOptions, ETCDPersist, DriverETCDRestore, AuxRestore,
                    AuxDriver
      <3>6. ASSUME RemoveNext(q) \/ Crash(q) PROVE FALSE
        BY <3>6 DEF RemoveNext, RemoveRestore, DriverRemove, RemoveStore, RemoveAgain,
                    RemoveFailed, Crash
      <3>7. CASE CreateConfig(q)
        BY <3>7 DEF CreateConfig
      <3> QED
        BY <3>1, <3>2, <3>3, <3>4, <3>5, <3>6, <3>7
    <2> QED
      BY <2>1 DEF RecordInv, CoveredAt, TypeOK
  <1> QED
    BY <1>1, TypeCorrect, ContractInvHolds, RecordInvHolds, PTL DEF Spec, NoDuplicateCreate
=============================================================================
