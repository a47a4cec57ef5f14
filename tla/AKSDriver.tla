----------------------------- MODULE AKSDriver ------------------------------
(***************************************************************************)
(* The AKS driver (drivers/aks/aks_driver.go) for one cluster.  Create and *)
(* Update are one function, createOrUpdate: it makes the resource group    *)
(* and the log analytics workspace if they are missing, puts the cluster   *)
(* and polls its provisioning state; the engine then calls PostCheck,      *)
(* which retries the service account token.  SetVersion and SetClusterSize *)
(* put the cluster they got back with one field changed and do not wait.   *)
(* Azure is external: provisioning states change on their own.             *)
(***************************************************************************)
EXTENDS Naturals, FiniteSets

CONSTANTS
  MaxVersion,  \* Kubernetes versions are 1..MaxVersion
  MaxNodes,    \* node counts are 1..MaxNodes
  Ops,         \* the driver's operations in use
  Faults       \* "api": a request fails; "crash": the engine is killed;
               \* "provision": Azure fails or cancels what it was asked for

MaxFailed  == 3   \* createOrUpdate: failedCount > 3
Retries    == 5   \* PostCheck: failureCount < retries
Operations == {"create", "update", "setVersion", "setSize", "remove"}

ASSUME AKSAssumption ==
  /\ MaxVersion \in Nat \ {0} /\ MaxNodes \in Nat \ {0}
  /\ Ops \subseteq Operations
  /\ Faults \subseteq {"api", "crash", "provision"}

VARIABLES
  monitoring,   \* AddonEnableMonitoring
  group,        \* the resource group exists
  workspace,    \* the log analytics workspace exists
  status,       \* the provisioning state of the cluster
  real,         \* what Azure was last asked to run
  stored,       \* the engine has metadata of this cluster
  created,      \* history: Create and PostCheck succeeded and Remove has not
  pc,           \* the next step of the call; "idle" between calls
  op,           \* the call: operation and what it asks for
  seen,         \* the cluster as SetVersion and SetClusterSize got it
  lastSeen,     \* the provisioning state the loop saw last
  failedCount,  \* of createOrUpdate
  failureCount, \* of PostCheck
  token,        \* PostCheck has a service account token
  result        \* what the last call returned

vars  == <<monitoring, group, workspace, status, real, stored, created, pc, op,
           seen, lastSeen, failedCount, failureCount, token, result>>
azure == <<group, workspace, status, real>>
local == <<seen, lastSeen, failedCount, failureCount, token>>

Shape   == [version : 1..MaxVersion, nodes : 1..MaxNodes]
Least   == [version |-> 1, nodes |-> 1]
Working == {"Creating", "Updating"}
Status  == Working \cup {"absent", "Succeeded", "Failed", "Canceled", "Deleting"}
PC      == {"idle", "parse", "group", "workspace", "put", "poll", "clientset", "token",
            "get", "set", "delete", "deleted"}
Results == {"none", "ok", "error", "apiError", "depleted", "notProvisioned"}

TypeOK ==
  /\ monitoring \in BOOLEAN /\ group \in BOOLEAN /\ workspace \in BOOLEAN
  /\ status \in Status /\ lastSeen \in Status
  /\ real \in Shape /\ seen \in Shape
  /\ stored \in BOOLEAN /\ created \in BOOLEAN /\ token \in BOOLEAN
  /\ pc \in PC
  /\ op \in [name : Operations, want : Shape]
  /\ failedCount \in 0..(MaxFailed + 1)
  /\ failureCount \in 0..Retries
  /\ result \in Results

Init ==
  /\ monitoring \in BOOLEAN
  /\ group \in BOOLEAN
  /\ workspace = FALSE
  /\ status = "absent" /\ lastSeen = "absent"
  /\ real = Least /\ seen = Least
  /\ stored = FALSE /\ created = FALSE /\ token = FALSE
  /\ pc = "idle"
  /\ op = [name |-> "create", want |-> Least]
  /\ failedCount = 0 /\ failureCount = 0
  /\ result = "none"

-----------------------------------------------------------------------------
Begin(o, want) ==
  /\ pc = "idle"
  /\ CASE o = "create" -> ~created
       [] o = "remove" -> stored /\ want = Least
       [] OTHER -> created
  /\ op' = [name |-> o, want |-> want]
  /\ pc' = CASE o \in {"create", "update"} -> "parse"
             [] o = "remove" -> "delete"
             [] OTHER -> "get"
  /\ seen' = Least /\ lastSeen' = "absent"
  /\ failedCount' = 0 /\ failureCount' = 0 /\ token' = FALSE
  /\ result' = "none"
  /\ UNCHANGED <<monitoring, azure, stored, created>>

Goto(l) == pc' = l /\ UNCHANGED <<stored, created, op, result>>

\* once it has parsed its options, every answer of createOrUpdate has the
\* metadata; the engine stores it with an error of Create, and drops the answer
\* when Update fails
Fail(why) ==
  /\ pc' = "idle"
  /\ result' = why
  /\ stored' = (stored \/ op.name = "create")
  /\ UNCHANGED <<created, op>>

\* a request to Azure fails
ApiError == "api" \in Faults /\ Fail("apiError")

-----------------------------------------------------------------------------
(* createOrUpdate.                                                         *)

\* getStateFromOptions and validate, whose errors come without a ClusterInfo;
\* then storeState and the clients
Parse ==
  /\ pc = "parse"
  /\ \/ Goto("group")
     \/ pc' = "idle" /\ result' = "error" /\ UNCHANGED <<stored, created, op>>
  /\ UNCHANGED <<monitoring, azure, local>>

\* resourceGroupExists, createResourceGroup
EnsureGroup ==
  /\ pc = "group"
  /\ \/ group' = TRUE /\ Goto("workspace")
     \/ ApiError /\ UNCHANGED group
  /\ UNCHANGED <<monitoring, workspace, status, real, local>>

\* mutant of Ensured: the workspace is not waited for
EnsuredLater == workspace

\* Get, CreateOrUpdate and thirty seconds of waiting for its result
Ensured == workspace \/ monitoring

\* ensureLogAnalyticsWorkspaceForMonitoring, with monitoring only
EnsureWorkspace ==
  /\ pc = "workspace"
  /\ \/ workspace' = Ensured /\ Goto("put")
     \/ ApiError /\ UNCHANGED workspace
  /\ UNCHANGED <<monitoring, group, status, real, local>>

\* CreateOrUpdate of the managed cluster: Azure refuses it while it is busy; the agent
\* pool has a name, as by default (without one its profile, and the count, are not sent)
Put(want) ==
  /\ status \notin Working \cup {"Deleting"}
  /\ status' = IF status = "absent" THEN "Creating" ELSE "Updating"
  /\ real' = want

Refused ==
  /\ status \in Working \cup {"Deleting"}
  /\ Fail("error")
  /\ UNCHANGED <<status, real>>

PutCluster ==
  /\ pc = "put"
  /\ \/ Put(op.want) /\ Goto("poll")
     \/ Refused
     \/ ApiError /\ UNCHANGED <<status, real>>
  /\ UNCHANGED <<monitoring, group, workspace, local>>

\* mutant of Pending: a cluster whose creation was cancelled is waited for
PendingOrCanceled == {"Creating", "Updating", "Canceled"}

\* creatingStatus, updatingStatus, upgradingStatus: poll again
Pending == {"Creating", "Updating"}

\* mutant of Provisioned: an update counts as provisioned
ProvisionedAlready == {"Succeeded", "Updating"}

\* succeededStatus
Provisioned == {"Succeeded"}

\* one turn of the loop: a failed cluster is counted, and then treated as every
\* status that is neither success nor in progress
Outcome ==
  CASE status = "Failed" /\ failedCount > MaxFailed -> "depleted"
    [] status \in Provisioned -> "ok"
    [] status \in Pending -> "again"
    [] OTHER -> "notProvisioned"

Poll ==
  /\ pc = "poll"
  /\ \/ /\ lastSeen' = status
        /\ failedCount' = IF status = "Failed" /\ failedCount <= MaxFailed
                            THEN failedCount + 1 ELSE failedCount
        /\ CASE Outcome = "ok" -> Goto("clientset")
             [] Outcome = "again" -> Goto("poll")
             [] OTHER -> Fail(Outcome)
     \/ ApiError /\ UNCHANGED <<lastSeen, failedCount>>
  /\ UNCHANGED <<monitoring, azure, seen, failureCount, token>>

-----------------------------------------------------------------------------
(* PostCheck, after Create and after Update.                               *)

\* getClientset: GetAccessProfile and its kubeconfig
GetClientset ==
  /\ pc = "clientset"
  /\ Goto("token") \/ ApiError
  /\ UNCHANGED <<monitoring, azure, local>>

Succeed ==
  /\ pc' = "idle"
  /\ result' = "ok"
  /\ stored' = (op.name # "remove")
  /\ created' = (op.name # "remove")
  /\ UNCHANGED op

\* GenerateServiceAccountToken succeeds
TokenMade ==
  /\ pc = "token"
  /\ token' = TRUE
  /\ Succeed
  /\ UNCHANGED <<monitoring, azure, seen, lastSeen, failedCount, failureCount>>

\* "retries exceeded, failing post-check"
RetriesExceeded == Fail("error")

\* failureCount < retries
RetriesLeft == failureCount < Retries

\* it fails: try again, five times
TokenFails ==
  /\ pc = "token" /\ "api" \in Faults
  /\ \/ RetriesLeft /\ failureCount' = failureCount + 1 /\ Goto("token")
     \/ ~RetriesLeft /\ RetriesExceeded /\ UNCHANGED failureCount
  /\ UNCHANGED <<monitoring, azure, seen, lastSeen, failedCount, token>>

-----------------------------------------------------------------------------
(* SetVersion, SetClusterSize, Remove.                                     *)

\* client.Get, an error when the cluster is gone
GetCluster ==
  /\ pc = "get"
  /\ \/ status # "absent" /\ seen' = real /\ Goto("set")
     \/ status = "absent" /\ Fail("error") /\ UNCHANGED seen
     \/ ApiError /\ UNCHANGED seen
  /\ UNCHANGED <<monitoring, azure, lastSeen, failedCount, failureCount, token>>

\* the cluster as it was got, with one field changed
Changed == IF op.name = "setVersion" THEN [seen EXCEPT !.version = op.want.version]
                                     ELSE [seen EXCEPT !.nodes = op.want.nodes]

SetField ==
  /\ pc = "set"
  /\ \/ Put(Changed) /\ Succeed
     \/ Refused
     \/ ApiError /\ UNCHANGED <<status, real>>
  /\ UNCHANGED <<monitoring, group, workspace, local>>

\* Delete is accepted in every state; the group and the workspace stay
DeleteCluster ==
  /\ pc = "delete"
  /\ \/ status' = (IF status = "absent" THEN "absent" ELSE "Deleting") /\ Goto("deleted")
     \/ ApiError /\ UNCHANGED status
  /\ UNCHANGED <<monitoring, group, workspace, real, local>>

\* Remove returns and the engine forgets the cluster
RemoveDone ==
  /\ pc = "deleted"
  /\ Succeed
  /\ UNCHANGED <<monitoring, azure, local>>

\* the engine is killed; killed in PostCheck, it has the metadata and takes the
\* cluster for created
Crash ==
  /\ "crash" \in Faults
  /\ pc # "idle"
  /\ pc' = "idle" /\ result' = "error"
  /\ stored' = (stored \/ pc \in {"clientset", "token"})
  /\ created' = (created \/ pc \in {"clientset", "token"})
  /\ UNCHANGED <<monitoring, azure, op, local>>

-----------------------------------------------------------------------------
(* Azure, external.                                                        *)

\* what Azure works on ends
Provision ==
  /\ \/ /\ status \in Working
        /\ \/ status' = "Succeeded"
           \/ "provision" \in Faults /\ status' \in {"Failed", "Canceled"}
     \/ status = "Deleting" /\ status' = "absent"
  /\ UNCHANGED <<monitoring, group, workspace, real, stored, created, pc, op, local, result>>

\* the recovery that createOrUpdate speaks of
Recover ==
  /\ status = "Failed" /\ status' = "Succeeded"
  /\ UNCHANGED <<monitoring, group, workspace, real, stored, created, pc, op, local, result>>

-----------------------------------------------------------------------------
DriverStep ==
  \/ Parse \/ EnsureGroup \/ EnsureWorkspace \/ PutCluster \/ Poll
  \/ GetClientset \/ TokenMade \/ TokenFails
  \/ GetCluster \/ SetField \/ DeleteCluster \/ RemoveDone

Next ==
  \/ \E o \in Ops, want \in Shape : Begin(o, want)
  \/ DriverStep \/ Crash \/ Provision \/ Recover

Spec == Init /\ [][Next]_vars

\* a call runs on until it returns, and Azure ends what it has begun; nothing is
\* assumed of Recover, and that a request fails is never counted on
FairSpec ==
  Spec /\ WF_vars(DriverStep /\ result' # "apiError") /\ WF_vars(Provision)

-----------------------------------------------------------------------------
Returned(names) == pc = "idle" /\ result = "ok" /\ op.name \in names

\* When Create or Update answers success, Azure has finished the cluster that
\* was asked for and the answer has a token, whatever earlier calls left behind.
Settled ==
  Returned({"create", "update"}) =>
    status = "Succeeded" /\ real = op.want /\ token

\* The cluster is never put before the resource group and, with monitoring, the
\* workspace that it refers to exist.
DependenciesFirst == status # "absent" => group /\ (monitoring => workspace)

\* Every call of the driver returns, also when Azure fails or cancels.
CallsReturn == pc # "idle" ~> pc = "idle"
=============================================================================
