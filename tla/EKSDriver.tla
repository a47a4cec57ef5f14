----------------------------- MODULE EKSDriver ------------------------------
(***************************************************************************)
(* The EKS driver (drivers/eks/eks_driver.go) for one cluster: Create,     *)
(* Update, SetVersion and Remove, one step per call to AWS.  The driver    *)
(* keeps nothing between calls but the state in the ClusterInfo's          *)
(* metadata; it is called again after it failed or after the engine was    *)
(* killed, and finds at AWS whatever the earlier calls left there.         *)
(*                                                                         *)
(* AWS is external: CloudFormation stacks, the EKS control plane and its   *)
(* updates change on their own, as the polling loops of the driver expect. *)
(***************************************************************************)
EXTENDS Naturals, FiniteSets

CONSTANTS
  MaxVersion,  \* Kubernetes versions are 1..MaxVersion
  Choices,     \* what users bring along to Create: sets of "vpc", "role", "keyPair"
  Ops,         \* the driver's operations in use
  Faults       \* "api": a call fails; "crash": the engine is killed;
               \* "stack", "update": AWS fails to build a stack, to update

Stacks     == {"vpc", "role", "workers"}
Versions   == 1..MaxVersion
Brought    == {"vpc", "role", "keyPair"}
Operations == {"create", "update", "setVersion", "remove"}

ASSUME EKSAssumption ==
  /\ MaxVersion \in Nat \ {0}
  /\ Choices \subseteq SUBSET Brought
  /\ Ops \subseteq Operations
  /\ Faults \subseteq {"api", "crash", "stack", "update"}

VARIABLES
  given,      \* what the user brings along to Create: a VPC, a service role, a key pair's name
  stack,      \* the CloudFormation stacks, by the names of getVPCStackName, ...
  cluster,    \* the EKS control plane
  keyPairs,   \* the EC2 key pairs: "own" by getEC2KeyPairName, "named" by the user
  configMap,  \* the ConfigMap aws-auth exists in the cluster
  version,    \* the version that the control plane runs
  updating,   \* the last update of the control plane: its status and its version
  state,      \* the stored metadata["state"]: the version in it, 0 when there is none
  created,    \* history: Create succeeded and Remove has not
  ahead,      \* history: Create met a control plane older than the one it asks for
  pc,         \* where the driver is; "idle" between calls
  op,         \* the call under way: its operation and the version it asks for
  result      \* what the last call returned; "none" while one is under way

vars == <<given, stack, cluster, keyPairs, configMap, version, updating, state, created, ahead,
          pc, op, result>>
aws  == <<stack, cluster, keyPairs, configMap, version, updating>>

StackStatus  == {"absent", "inProgress", "complete", "failed", "deleting"}
UpdateStatus == {"none", "inProgress", "Successful", "Failed"}
PC == {"idle", "parse", "vpc", "vpc.wait", "role", "role.wait", "cluster",
       "cluster.wait", "key", "workers", "workers.wait", "configMap", "postCheck",
       "update.send", "update.wait", "update.record", "delete.cluster",
       "delete.role", "delete.vpc", "delete.workers", "delete.key"}
Call    == [name : Operations, version : Versions]
Outcome == {"none", "ok", "error", "apiError", "alreadyExists"}

TypeOK ==
  /\ given \subseteq Brought
  /\ stack \in [Stacks -> StackStatus]
  /\ cluster \in {"absent", "creating", "active", "failed", "deleting"}
  /\ keyPairs \subseteq {"own", "named"}
  /\ configMap \in BOOLEAN
  /\ version \in Versions
  /\ updating \in [is : UpdateStatus, to : Versions]
  /\ state \in 0..MaxVersion
  /\ created \in BOOLEAN /\ ahead \in BOOLEAN
  /\ pc \in PC
  /\ op \in Call
  /\ result \in Outcome

NoUpdate == [is |-> "none", to |-> 1]

Init ==
  /\ given = {}
  /\ stack = [s \in Stacks |-> "absent"]
  /\ cluster = "absent"
  /\ keyPairs = {} /\ configMap = FALSE
  /\ version = 1
  /\ updating = NoUpdate
  /\ state = 0
  /\ created = FALSE /\ ahead = FALSE
  /\ pc = "idle"
  /\ op = [name |-> "create", version |-> 1]
  /\ result = "none"

-----------------------------------------------------------------------------
\* The engine calls Create until it succeeds, every time with the options of that
\* attempt, Update and SetVersion after that, Remove as soon as there is metadata
\* (getState fails without)
Begin(o, v, g) ==
  /\ pc = "idle"
  /\ CASE o = "create" -> ~created
       [] o = "remove" -> state # 0 /\ v = 1
       [] OTHER -> created
  /\ given' = IF o = "create" THEN g ELSE given
  /\ op' = [name |-> o, version |-> v]
  /\ pc' = CASE o = "create" -> "parse"
             [] o = "remove" -> "delete.cluster"
             [] OTHER -> "update.send"
  /\ result' = "none"
  /\ UNCHANGED <<aws, state, created, ahead>>

Goto(l) == pc' = l /\ UNCHANGED <<op, state, created, result>>

Answer(is) ==
  /\ pc' = "idle"
  /\ result' = is
  /\ UNCHANGED op

\* storeState comes before the first call to AWS: whatever Create answers after
\* that, an error too, carries the metadata and the engine stores it
Return(is) ==
  /\ Answer(is)
  /\ state' = IF op.name = "create" THEN op.version ELSE state
  /\ created' = (created \/ (op.name = "create" /\ is = "ok"))

\* a request to AWS fails
ApiError == "api" \in Faults /\ Return("apiError")

-----------------------------------------------------------------------------
(* Create.                                                                 *)

\* getStateFromOptions, validate, which asks AWS for the images, storeState; an
\* error here answers without a ClusterInfo
Parse ==
  /\ pc = "parse"
  /\ \/ Goto("vpc")
     \/ "api" \in Faults /\ Answer("apiError") /\ UNCHANGED <<state, created>>
  /\ UNCHANGED <<given, ahead, aws>>

\* VirtualNetwork and ServiceRole of the user's replace the driver's own stack
Skipped(s) == s \in given

AfterStack(s) == CASE s = "vpc" -> "role" [] s = "role" -> "cluster" [] OTHER -> "configMap"
WaitFor(s)    == CASE s = "vpc" -> "vpc.wait" [] s = "role" -> "role.wait" [] OTHER -> "workers.wait"

\* createStack up to the polling loop: "already exists" is as good as created
CreateStack(s) ==
  /\ pc = s
  /\ \/ Skipped(s) /\ Goto(AfterStack(s)) /\ UNCHANGED stack
     \/ /\ ~Skipped(s)
        /\ stack' = [stack EXCEPT ![s] = IF @ = "absent" THEN "inProgress" ELSE @]
        /\ Goto(WaitFor(s))
     \/ ApiError /\ UNCHANGED stack
  /\ UNCHANGED <<given, ahead, cluster, keyPairs, configMap, version, updating>>

\* mutant of StackReady: whatever is not in progress is complete
StackReadyOrFailed(s) == stack[s] # "inProgress"

\* the status the loop must end with
StackReady(s) == stack[s] = "complete"

\* for status == "CREATE_IN_PROGRESS": DescribeStacks
WaitStack(s) ==
  /\ pc = WaitFor(s)
  /\ \/ StackReady(s) /\ Goto(AfterStack(s))
     \/ stack[s] \notin {"inProgress", "complete"} /\ Return("error")
     \/ stack[s] = "inProgress" /\ Goto(pc)
     \/ ApiError
  /\ UNCHANGED <<given, ahead, aws>>

\* CreateCluster: a conflict (ResourceInUse) means it is there, in whatever version
CreateCluster ==
  /\ pc = "cluster"
  /\ \/ /\ cluster' = IF cluster = "absent" THEN "creating" ELSE cluster
        /\ version' = IF cluster = "absent" THEN op.version ELSE version
        /\ configMap' = IF cluster = "absent" THEN FALSE ELSE configMap
        /\ updating' = IF cluster = "absent" THEN NoUpdate ELSE updating
        /\ ahead' = (cluster # "absent" /\ version < op.version)
        /\ Goto("cluster.wait")
     \/ ApiError /\ UNCHANGED <<cluster, version, configMap, updating, ahead>>
  /\ UNCHANGED <<given, stack, keyPairs>>

\* mutant of ClusterLost: a cluster that failed is waited for
ClusterLostOnly == {"absent"}

\* the statuses that end waitForClusterReady with an error: "FAILED", or that
\* there is no such cluster
ClusterLost == {"failed", "absent"}

\* for status != "ACTIVE": DescribeCluster
WaitCluster ==
  /\ pc = "cluster.wait"
  /\ \/ cluster = "active" /\ Goto("key")
     \/ cluster \in ClusterLost /\ Return("error")
     \/ cluster \notin ClusterLost \cup {"active"} /\ Goto(pc)
     \/ ApiError
  /\ UNCHANGED <<given, ahead, aws>>

\* CreateKeyPair, under the user's name too: a duplicate is fine
CreateKeyPair ==
  /\ pc = "key"
  /\ \/ /\ keyPairs' = keyPairs \cup {IF "keyPair" \in given THEN "named" ELSE "own"}
        /\ Goto("workers")
     \/ ApiError /\ UNCHANGED keyPairs
  /\ UNCHANGED <<given, ahead, stack, cluster, configMap, version, updating>>

\* createConfigMap lets errors.IsConflict pass, which is not what the API server
\* answers when the object is there (IsAlreadyExists)
CreateConfigMap ==
  /\ pc = "configMap"
  /\ \/ ~configMap /\ configMap' = TRUE /\ Goto("postCheck")
     \/ configMap /\ Return("alreadyExists") /\ UNCHANGED configMap
     \/ ApiError /\ UNCHANGED configMap
  /\ UNCHANGED <<given, ahead, stack, cluster, keyPairs, version, updating>>

\* the engine goes on with PostCheck; when that fails, the creation has failed
\* and is retried from the start
PostCheck ==
  /\ pc = "postCheck"
  /\ Return("ok") \/ ApiError
  /\ UNCHANGED <<given, ahead, aws>>

-----------------------------------------------------------------------------
(* Update and SetVersion.                                                  *)

\* Update asks AWS when the version differs from the recorded one, SetVersion
\* always
NeedsUpdate == op.name = "setVersion" \/ op.version # state

\* updateClusterAndWait: an update to the version that runs is an invalid
\* parameter, and then there is nothing to do; a busy or missing cluster is an
\* error
SendUpdate ==
  /\ pc = "update.send"
  /\ \/ ~NeedsUpdate /\ Return("ok") /\ UNCHANGED updating
     \/ /\ NeedsUpdate
        /\ CASE cluster # "active" \/ updating.is = "inProgress" ->
                  Return("error") /\ UNCHANGED updating
             [] op.version = version -> Goto("update.record") /\ UNCHANGED updating
             [] op.version < version -> Return("error") /\ UNCHANGED updating
             [] OTHER -> /\ updating' = [is |-> "inProgress", to |-> op.version]
                          /\ Goto("update.wait")
     \/ ApiError /\ UNCHANGED updating
  /\ UNCHANGED <<given, ahead, stack, cluster, keyPairs, configMap, version>>

\* mutant of UpdateDone: any end of the update will do
UpdateDoneAnyhow == updating.is # "inProgress"

\* what waitForClusterUpdateReady waits for
UpdateDone == updating.is = "Successful"

\* for status != "Successful": DescribeUpdate
WaitUpdate ==
  /\ pc = "update.wait"
  /\ \/ UpdateDone /\ Goto("update.record")
     \/ ~UpdateDone /\ Goto(pc)
     \/ ApiError
  /\ UNCHANGED <<given, ahead, aws>>

\* storeState of Update; SetVersion has no way to answer with a ClusterInfo
RecordVersion ==
  /\ pc = "update.record"
  /\ state' = IF op.name = "update" THEN op.version ELSE state
  /\ ahead' = (ahead /\ op.name # "update")
  /\ Answer("ok")
  /\ UNCHANGED <<given, aws, created>>

-----------------------------------------------------------------------------
(* Remove.                                                                 *)

\* DeleteCluster; not found is fine, a cluster that AWS still builds is not
DeleteCluster ==
  /\ pc = "delete.cluster"
  /\ \/ cluster # "creating" /\ Goto("delete.role")
        /\ cluster' = IF cluster = "absent" THEN "absent" ELSE "deleting"
     \/ cluster = "creating" /\ Return("error") /\ UNCHANGED cluster
     \/ ApiError /\ UNCHANGED cluster
  /\ UNCHANGED <<given, ahead, stack, keyPairs, configMap, version, updating>>

AfterDelete(s)   == CASE s = "role" -> "delete.vpc" [] s = "vpc" -> "delete.workers" [] OTHER -> "delete.key"
DeleteStackPC(s) == CASE s = "role" -> "delete.role" [] s = "vpc" -> "delete.vpc" [] OTHER -> "delete.workers"

\* mutant of Deleted: a stack that is still being built is left alone
DeletedIfBuilt(s) == IF stack[s] = "inProgress" THEN "inProgress" ELSE IF stack[s] = "absent" THEN "absent" ELSE "deleting"

\* DeleteStack of a stack that is not there succeeds
Deleted(s) == IF stack[s] = "absent" THEN "absent" ELSE "deleting"

DeleteStack(s) ==
  /\ pc = DeleteStackPC(s)
  /\ \/ stack' = [stack EXCEPT ![s] = Deleted(s)] /\ Goto(AfterDelete(s))
     \/ ApiError /\ UNCHANGED stack
  /\ UNCHANGED <<given, ahead, cluster, keyPairs, configMap, version, updating>>

\* DeleteKeyPair of the driver's own name, then Remove returns and the engine forgets the metadata
DeleteKeyPair ==
  /\ pc = "delete.key"
  /\ \/ keyPairs' = keyPairs \ {"own"} /\ state' = 0 /\ created' = FALSE /\ Answer("ok")
     \/ ApiError /\ UNCHANGED keyPairs
  /\ UNCHANGED <<given, ahead, stack, cluster, configMap, version, updating>>

\* the engine is killed; it keeps the metadata it had stored.  Killed between the
\* answer of Create and the end of PostCheck, it has stored the answer, and takes the
\* cluster for created, or it has not come so far as PersistStatus(PostCheck)
Crash ==
  /\ "crash" \in Faults
  /\ pc # "idle"
  /\ Answer("error")
  /\ \/ pc = "postCheck" /\ state' = op.version /\ created' = TRUE
     \/ UNCHANGED <<state, created>>
  /\ UNCHANGED <<given, ahead, aws>>

-----------------------------------------------------------------------------
(* AWS, external.                                                          *)

StackProgress(s) ==
  /\ \/ /\ stack[s] = "inProgress"
        /\ \/ stack' = [stack EXCEPT ![s] = "complete"]
           \/ "stack" \in Faults /\ stack' = [stack EXCEPT ![s] = "failed"]
     \/ stack[s] = "deleting" /\ stack' = [stack EXCEPT ![s] = "absent"]
  /\ UNCHANGED <<given, ahead, cluster, keyPairs, configMap, version, updating, state, created, pc, op, result>>

ClusterProgress ==
  /\ \/ /\ cluster = "creating"
        /\ \/ cluster' = "active"
           \/ "stack" \in Faults /\ cluster' = "failed"
     \/ cluster = "deleting" /\ cluster' = "absent"
  /\ UNCHANGED <<given, ahead, stack, keyPairs, configMap, version, updating, state, created, pc, op, result>>

UpdateProgress ==
  /\ updating.is = "inProgress"
  /\ \/ updating' = [updating EXCEPT !.is = "Successful"] /\ version' = updating.to
     \/ "update" \in Faults /\ updating' = [updating EXCEPT !.is = "Failed"] /\ UNCHANGED version
  /\ UNCHANGED <<given, ahead, stack, cluster, keyPairs, configMap, state, created, pc, op, result>>

-----------------------------------------------------------------------------
DriverStep ==
  \/ Parse
  \/ \E s \in Stacks : CreateStack(s) \/ WaitStack(s) \/ DeleteStack(s)
  \/ CreateCluster \/ WaitCluster \/ CreateKeyPair \/ CreateConfigMap
  \/ PostCheck
  \/ SendUpdate \/ WaitUpdate \/ RecordVersion
  \/ DeleteCluster \/ DeleteKeyPair

AWSStep == (\E s \in Stacks : StackProgress(s)) \/ ClusterProgress \/ UpdateProgress

Next ==
  \/ \E o \in Ops, v \in Versions, g \in Choices : Begin(o, v, g)
  \/ DriverStep \/ Crash \/ AWSStep

Spec == Init /\ [][Next]_vars

\* a call runs on until it returns, and AWS ends what it has begun; that a
\* request fails is never counted on
FairSpec ==
  /\ Spec
  /\ WF_vars(DriverStep /\ result' # "apiError")
  /\ \A s \in Stacks : WF_vars(StackProgress(s))
  /\ WF_vars(ClusterProgress)
  /\ WF_vars(UpdateProgress)

-----------------------------------------------------------------------------
\* Create answers success only when everything it makes is there, whatever
\* earlier attempts left half-built.
CreateComplete ==
  created /\ op.name = "create" =>
    /\ \A s \in Stacks \ given : stack[s] = "complete"
    /\ cluster = "active" /\ keyPairs # {} /\ configMap

\* When Remove answers success, the deletion of everything that some call of
\* Create made under a name of its own was asked for, also after failed and
\* interrupted attempts.
RemoveSweeps ==
  pc = "idle" /\ op.name = "remove" /\ result = "ok" =>
    /\ \A s \in Stacks : stack[s] \in {"absent", "deleting"}
    /\ cluster \in {"absent", "deleting"}
    /\ "own" \notin keyPairs

\* The metadata claims a version newer than the one the cluster runs in one case only:
\* Create was retried with a newer version, took the control plane of the earlier
\* attempt for its own, and no Update has recorded a version since.  An update is
\* recorded after it succeeded, and a lost answer only leaves the record behind.
RecordedVersionRuns == created /\ ~ahead => state <= version

\* Every call of the driver returns, with success or with an error, unless AWS
\* fails the update that it waits for.
CallsReturn ==
  pc # "idle" ~> \/ pc = "idle"
                 \/ pc = "update.wait" /\ updating.is = "Failed"
=============================================================================
