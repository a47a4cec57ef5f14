----------------------------- MODULE GKEDriver ------------------------------
(***************************************************************************)
(* The GKE driver (drivers/gke/gke_driver.go) for one cluster: Create,     *)
(* Update, PostCheck, SetVersion, SetClusterSize and Remove, one step per  *)
(* request to Google and per polling loop.  Google is external: a request  *)
(* is answered at once and the cluster reconciles on its own, during which *)
(* it accepts no other request.  Its statuses PROVISIONING and RECONCILING *)
(* are "busy" here; "faulty" are ERROR and DEGRADED, and RUNNING_WITH_ERROR *)
(* of a node pool, which it leaves only when somebody repairs it.          *)
(***************************************************************************)
EXTENDS Naturals, FiniteSets

CONSTANTS
  MaxVersion,  \* master and node versions are 1..MaxVersion; 0 is ""
  MaxNodes,    \* node counts are 1..MaxNodes; 0 is not given
  Wants,       \* what callers ask for: versions and a number of nodes
  Ops,         \* the driver's operations in use
  Faults       \* "api": a request fails; "crash": the engine is killed;
               \* "status": the cluster becomes faulty

MaxDeletes == 11  \* requests of waitClusterRemoveExp: for i := 1; i < 12; i++
Operations == {"create", "update", "setVersion", "setSize", "remove"}
Versions   == 0..MaxVersion
Shape      == [master : Versions, node : Versions, nodes : 0..MaxNodes]

ASSUME GKEAssumption ==
  /\ MaxVersion \in Nat \ {0} /\ MaxNodes \in Nat \ {0}
  /\ Wants \subseteq Shape
  /\ Ops \subseteq Operations
  /\ Faults \subseteq {"api", "crash", "status"}

VARIABLES
  status,   \* the status of the cluster at Google
  real,     \* what it runs: master version, node version, number of nodes
  goal,     \* what it reconciles to
  stored,   \* the engine has the metadata with the driver's state
  state,    \* the driver's state, in memory while a call runs
  saved,    \* the state in the metadata, which a call starts from
  created,  \* history: the engine takes the cluster for created: Create succeeded, or
            \* came as far as PostCheck, and Remove has not
  other,    \* history: Create met a cluster that is not the one it asks for
  pc,       \* the next step of the call; "idle" between calls
  next,     \* where waitCluster returns to
  op,       \* the call: operation and the values it asks for
  tries,    \* the counter of waitClusterRemoveExp
  result    \* what the last call returned

vars   == <<status, real, goal, stored, state, saved, created, other, pc, next, op, tries,
            result>>
google == <<status, real, goal>>

Smallest == [master |-> 1, node |-> 1, nodes |-> 1]
PC == {"idle", "parse", "create", "master", "node", "size", "autoscaling", "store", "postCheck",
       "setMaster", "setNode", "setSize", "return", "wait", "delete", "deleted"}
Call == [name : Operations, want : Shape]

TypeOK ==
  /\ status \in {"absent", "busy", "RUNNING", "faulty", "deleting"}
  /\ real \in Shape /\ goal \in Shape
  /\ state \in Shape /\ saved \in Shape
  /\ stored \in BOOLEAN /\ created \in BOOLEAN /\ other \in BOOLEAN
  /\ pc \in PC /\ next \in PC
  /\ op \in Call
  /\ tries \in 0..(MaxDeletes - 1)
  /\ result \in {"none", "ok", "error", "apiError"}

Init ==
  /\ status = "absent"
  /\ real = Smallest /\ goal = Smallest
  /\ state = Smallest /\ saved = Smallest
  /\ stored = FALSE /\ created = FALSE /\ other = FALSE
  /\ pc = "idle" /\ next = "idle"
  /\ op = [name |-> "create", want |-> Smallest]
  /\ tries = 0
  /\ result = "none"

-----------------------------------------------------------------------------
\* Every attempt of Create has the options of that attempt; SetVersion,
\* SetClusterSize and Remove only need the metadata
Begin(o, want) ==
  /\ pc = "idle"
  /\ CASE o = "create" -> ~created
       [] o = "update" -> created
       [] OTHER -> stored
  /\ o = "remove"     => want = Smallest
  /\ o = "setVersion" => want.master = want.node /\ want.nodes = 0 /\ want.node # 0
  /\ o = "setSize"    => want.master = 0 /\ want.node = 0 /\ want.nodes # 0
  /\ op' = [name |-> o, want |-> want]
  /\ pc' = CASE o \in {"create", "update"} -> "parse"
             [] o = "setVersion" -> "setMaster" [] o = "setSize" -> "setSize"
             [] OTHER -> "delete"
  /\ result' = "none"
  /\ UNCHANGED <<google, stored, state, saved, created, other, next, tries>>

Goto(l) == pc' = l /\ UNCHANGED <<saved, op, tries, result>>

\* a call ends: the engine has the state s in the metadata, and the locals are gone
Return(is, s) ==
  /\ pc' = "idle" /\ next' = "idle" /\ tries' = 0
  /\ result' = is
  /\ state' = s /\ saved' = s
  /\ UNCHANGED <<google, other, op>>

\* Create answers its later errors with the metadata, Update with nil: what it did to
\* its state is lost
FailWith(why) ==
  /\ Return(why, IF op.name = "create" THEN op.want ELSE saved)
  /\ stored' = (stored \/ op.name = "create")
  /\ UNCHANGED created

Fail     == FailWith("error")
\* a request to Google fails
ApiError == "api" \in Faults /\ FailWith("apiError")

\* a request that the cluster accepts while it runs, and at times when it is faulty;
\* waitCluster follows
Request(field, v, then) ==
  /\ status \in {"RUNNING", "faulty"}
  /\ status' = "busy"
  /\ goal' = [goal EXCEPT ![field] = v]
  /\ next' = then
  /\ Goto("wait")
  /\ UNCHANGED <<real, stored, created, other>>

Refused == status # "RUNNING" /\ Fail

Skip(l) == Goto(l) /\ UNCHANGED <<google, stored, state, created, other, next>>

-----------------------------------------------------------------------------
(* Create and PostCheck.                                                   *)

\* getStateFromOpts and validate, of Create and of Update; their errors come
\* without a ClusterInfo
Parse ==
  /\ pc = "parse"
  /\ \/ Skip(IF op.name = "create" THEN "create" ELSE "master")
     \/ Return("error", saved) /\ UNCHANGED <<stored, created>>

\* the shape has the master and the nodes of a call, those that the call gives
Has(shape, want) ==
  /\ want.master # 0 => shape.master = want.master
  /\ want.nodes # 0 => shape.nodes = want.nodes

\* generateClusterCreateRequest: the node version is not sent, the nodes get the
\* master's, which Google chooses when it is not given
Requested(want) ==
  LET v == IF want.master = 0 THEN 1 ELSE want.master
  IN  [master |-> v, node |-> v, nodes |-> want.nodes]

\* Clusters.Create: "alreadyExists" is fine, whatever the cluster that exists is;
\* every later answer has metadata
CreateCluster ==
  /\ pc = "create"
  /\ \/ /\ \/ /\ status = "absent" /\ status' = "busy"
              /\ real' = Requested(op.want) /\ goal' = Requested(op.want)
              /\ other' = FALSE
           \/ /\ status # "absent"
              /\ other' = ~Has(goal, op.want)
              /\ UNCHANGED google
        /\ next' = "postCheck"
        /\ Goto("wait")
        /\ UNCHANGED <<stored, state, created>>
     \/ ApiError

\* mutant of Ready: a status that Google never has
ReadyMisspelt == {"Running"}

\* mutant of Ready: a cluster that is being changed is ready
ReadyIfBusy == {"RUNNING", "busy"}

\* the status waitCluster and waitNodePool wait for
Ready == {"RUNNING"}

\* waitCluster, waitNodePool: Get until the status is RUNNING, an error when
\* there is no such cluster any more
Wait ==
  /\ pc = "wait"
  /\ \/ status \in Ready /\ Skip(next)
     \/ status \notin Ready \cup {"absent"} /\ Skip(pc)
     \/ status = "absent" /\ Fail
     \/ ApiError

\* the engine calls PostCheck after Create: waitCluster again, then it reads the
\* endpoint and the certificates
PostCheck ==
  /\ pc = "postCheck"
  /\ \/ /\ status = "RUNNING"
        /\ created' = TRUE /\ stored' = TRUE
        /\ Return("ok", op.want)
     \/ status # "RUNNING" /\ Skip(pc)
     \/ ApiError

-----------------------------------------------------------------------------
(* Update.                                                                 *)

UpdateMaster ==
  /\ pc = "master"
  /\ \/ op.want.master = 0 /\ Skip("node")
     \/ op.want.master # 0 /\ Request("master", op.want.master, "node")
        /\ state' = [state EXCEPT !.master = op.want.master]
     \/ op.want.master # 0 /\ Refused
     \/ ApiError

\* NodePools.Update asks for the node version of the OLD state, for none when that
\* has none; the new one is only recorded
UpdateNode ==
  /\ pc = "node"
  /\ \/ op.want.node = 0 /\ Skip("size")
     \/ op.want.node # 0 /\ Request("node", IF state.node = 0 THEN goal.node ELSE state.node, "size")
        /\ state' = [state EXCEPT !.node = op.want.node]
     \/ op.want.node # 0 /\ Refused
     \/ ApiError

UpdateSize ==
  /\ pc = "size"
  /\ \/ op.want.nodes = 0 /\ Skip("autoscaling")
     \/ op.want.nodes # 0 /\ Request("nodes", op.want.nodes, "autoscaling") /\ UNCHANGED state
     \/ op.want.nodes # 0 /\ Refused
     \/ ApiError

\* SetAutoscaling when it is enabled, which changes neither version nor count
UpdateAutoscaling ==
  /\ pc = "autoscaling"
  /\ \/ Skip("store")
     \/ Request("nodes", goal.nodes, "store") /\ UNCHANGED state
     \/ Refused
     \/ ApiError

\* storeState
UpdateDone ==
  /\ pc = "store"
  /\ Return("ok", state) /\ UNCHANGED <<stored, created>>

-----------------------------------------------------------------------------
(* SetVersion, SetClusterSize, Remove.                                     *)

SetMaster ==
  /\ pc = "setMaster"
  /\ (Request("master", op.want.master, "setNode") /\ UNCHANGED state) \/ Refused \/ ApiError

SetNode ==
  /\ pc = "setNode"
  /\ (Request("node", op.want.node, "return") /\ UNCHANGED state) \/ Refused \/ ApiError

SetClusterSize ==
  /\ pc = "setSize"
  /\ (Request("nodes", op.want.nodes, "return") /\ UNCHANGED state) \/ Refused \/ ApiError

SetDone ==
  /\ pc = "return"
  /\ Return("ok", state) /\ UNCHANGED <<stored, created>>

\* mutant of BusyAtLast: the refusal counts as deleted
BusyAtLastRemoved == Skip("deleted")

\* the tries are used up: the refusal is the error of Remove
BusyAtLast == Fail

\* another turn of the loop is left after this one
TriesLeft == tries + 1 < MaxDeletes

\* Clusters.Delete, again while the cluster is busy; "notFound" is fine
Delete ==
  /\ pc = "delete"
  /\ \/ status \in {"RUNNING", "faulty"} /\ status' = "deleting" /\ Goto("deleted")
        /\ UNCHANGED <<real, goal, stored, state, created, other, next>>
     \/ status = "absent" /\ Skip("deleted")
     \/ /\ status \in {"busy", "deleting"} /\ TriesLeft
        /\ tries' = tries + 1
        /\ UNCHANGED <<google, stored, state, saved, created, other, pc, next, op, result>>
     \/ /\ status \in {"busy", "deleting"} /\ ~TriesLeft
        /\ BusyAtLast
     \/ ApiError

\* Remove returns and the engine forgets the cluster
RemoveDone ==
  /\ pc = "deleted"
  /\ stored' = FALSE /\ created' = FALSE
  /\ Return("ok", Smallest)

\* the engine is killed: what Create or Update had in memory is lost, but for a
\* Create that has come to PostCheck, whose answer PersistStatus may have stored
Crash ==
  /\ "crash" \in Faults
  /\ pc # "idle"
  /\ \/ Return("error", saved) /\ UNCHANGED <<stored, created>>
     \/ pc = "postCheck" /\ Return("error", op.want) /\ stored' = TRUE /\ created' = TRUE

-----------------------------------------------------------------------------
(* Google, external.                                                       *)

Reconcile ==
  /\ status = "busy"
  /\ status' = "RUNNING" /\ real' = goal
  /\ UNCHANGED <<goal, stored, state, saved, created, other, pc, next, op, tries, result>>

\* what Google works on fails, or the cluster breaks while it runs
Degrade ==
  /\ "status" \in Faults
  /\ status \in {"busy", "RUNNING"}
  /\ status' = "faulty"
  /\ UNCHANGED <<real, goal, stored, state, saved, created, other, pc, next, op, tries, result>>

\* somebody repairs it
Repair ==
  /\ status = "faulty"
  /\ status' = "RUNNING" /\ real' = goal
  /\ UNCHANGED <<goal, stored, state, saved, created, other, pc, next, op, tries, result>>

Vanish ==
  /\ status = "deleting"
  /\ status' = "absent"
  /\ real' = Smallest /\ goal' = Smallest
  /\ UNCHANGED <<stored, state, saved, created, other, pc, next, op, tries, result>>

-----------------------------------------------------------------------------
DriverStep ==
  \/ Parse \/ CreateCluster \/ Wait \/ PostCheck
  \/ UpdateMaster \/ UpdateNode \/ UpdateSize \/ UpdateAutoscaling \/ UpdateDone
  \/ SetMaster \/ SetNode \/ SetClusterSize \/ SetDone
  \/ Delete \/ RemoveDone

Next ==
  \/ \E o \in Ops, want \in Wants : Begin(o, want)
  \/ DriverStep \/ Crash \/ Reconcile \/ Degrade \/ Repair \/ Vanish

Spec == Init /\ [][Next]_vars

\* a call runs on until it returns, and Google ends what it has begun; neither that a
\* request fails nor that a faulty cluster is repaired is counted on
FairSpec ==
  /\ Spec
  /\ WF_vars(DriverStep /\ result' # "apiError")
  /\ WF_vars(Reconcile) /\ WF_vars(Vanish)

-----------------------------------------------------------------------------
Returned(names) == pc = "idle" /\ result = "ok" /\ op.name \in names

\* A call that answers success has waited for what it asked for: the master runs
\* the version and the pool has the nodes, whatever earlier calls that failed or
\* were killed had Google do, and whatever the cluster's status was meanwhile.  The
\* one exception is a Create that meets a cluster made for other options, which it
\* takes for its own (gke_driver.go:583).  The version of the nodes is not in it, see
\* NodeVersionApplied.
Settled ==
  Returned({"create", "update", "setVersion", "setSize"}) =>
    Has(real, op.want) \/ (op.name = "create" /\ other)

\* Remove answers success only when the cluster is gone or on its way out, a
\* cluster that was still busy with an earlier call included.
RemoveSweeps == Returned({"remove"}) => status \in {"absent", "deleting"}

\* Every call of the driver returns, unless it waits for a cluster that is in ERROR or
\* DEGRADED, a node pool in ERROR or RUNNING_WITH_ERROR: waitCluster and waitNodePool
\* know no status but RUNNING.
CallsReturn ==
  pc # "idle" ~> \/ pc = "idle"
                 \/ pc \in {"wait", "postCheck"} /\ status = "faulty"

\* "Updating node version to %v" (gke_driver.go:668): after a successful Update
\* the nodes run the version that was asked for.
NodeVersionApplied ==
  Returned({"update"}) /\ op.want.node # 0 => real.node = op.want.node
=============================================================================
