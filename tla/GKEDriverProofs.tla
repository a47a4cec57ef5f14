-------------------------- MODULE GKEDriverProofs ---------------------------
(***************************************************************************)
(* Settled and RemoveSweeps for any number of versions and nodes, any      *)
(* operations, and whatever fails.                                         *)
(***************************************************************************)
EXTENDS GKEDriver, TLAPS

\* where the call goes on: waitCluster returns to next
At == IF pc = "wait" THEN next ELSE pc

\* the labels of the calls after their parameters are checked
Creating == {"create", "postCheck"}
Updating == {"master", "node", "size", "autoscaling", "store"}
Changing == Updating \cup {"setMaster", "setNode", "setSize", "return"}
Deleting == {"delete", "deleted"}

\* the calls that change a cluster
Changes == {"update", "setVersion", "setSize"}

\* which call is at which label, with what it asks for
CallInv ==
  /\ pc = "wait" => next \in {"postCheck", "node", "size", "autoscaling", "store",
                              "setNode", "return"}
  /\ pc = "parse" => op.name \in {"create", "update"}
  /\ At \in Creating => op.name = "create"
  /\ At \in Updating => op.name = "update"
  /\ At \in {"setMaster", "setNode"} => op.name = "setVersion"
  /\ At = "setSize" => op.name = "setSize"
  /\ At \in Changing => op.name \in Changes
  /\ At \in Deleting => op.name = "remove"
  /\ op.name = "setVersion" => op.want.nodes = 0
  /\ op.name = "setSize" => op.want.master = 0

\* the request for the master or for the nodes is behind the call: it is at a later
\* label, or has succeeded
PastMaster == {"node", "size", "autoscaling", "store", "setNode", "return"}
PastNodes  == {"autoscaling", "store", "return"}
MasterPast == op.want.master # 0 /\ (Returned(Changes) \/ At \in PastMaster)
NodesPast  == op.want.nodes # 0 /\ (Returned(Changes) \/ At \in PastNodes)

\* the call has waited for its requests, or waits for the last one
Awaited == real = goal \/ pc = "wait"

\* Clusters.Create is behind a Create
ClusterPast == At = "postCheck" \/ Returned({"create"})

\* what Google works towards when the call is there
GoalInv ==
  /\ status = "RUNNING" => real = goal
  /\ ClusterPast /\ status # "absent" => other \/ Has(goal, op.want)
  /\ Returned({"create"}) => real = goal
  /\ MasterPast => goal.master = op.want.master /\ Awaited
  /\ NodesPast => goal.nodes = op.want.nodes /\ Awaited
  /\ MasterPast \/ NodesPast \/ Returned({"create"}) => status \notin {"absent", "deleting"}
  /\ pc = "deleted" \/ Returned({"remove"}) => status \in {"absent", "deleting"}

\* The inductive invariant.
DriverInv == TypeOK /\ CallInv /\ GoalInv
-----------------------------------------------------------------------------
USE DEF Goto, Return, Skip

\* The fields of a shape, and the shape that Create sends.
LEMMA Shapes ==
  /\ Smallest \in Shape
  /\ \A s \in Shape : s.master \in Versions /\ s.node \in Versions /\ s.nodes \in 0..MaxNodes
  /\ \A s \in Shape : Requested(s) \in Shape /\ Has(Requested(s), s)
  BY GKEAssumption DEF Shape, Smallest, Versions, Requested, Has

\* A request changes one field of the goal.
LEMMA RequestFields ==
  ASSUME goal \in Shape, NEW v, NEW l
  PROVE  /\ Request("master", v, l) =>
              /\ v \in Versions => goal' \in Shape
              /\ goal'.master = v /\ goal'.nodes = goal.nodes
         /\ Request("node", v, l) =>
              /\ v \in Versions => goal' \in Shape
              /\ goal'.master = goal.master /\ goal'.nodes = goal.nodes
         /\ Request("nodes", v, l) =>
              /\ v \in 0..MaxNodes => goal' \in Shape
              /\ goal'.master = goal.master /\ goal'.nodes = v
  <1>1. ASSUME Request("master", v, l)
        PROVE  /\ v \in Versions => goal' \in Shape
               /\ goal'.master = v /\ goal'.nodes = goal.nodes
    <2>1. goal' = [goal EXCEPT !.master = v]
      BY <1>1 DEF Request
    <2> QED
      BY <2>1 DEF Shape
  <1>2. ASSUME Request("node", v, l)
        PROVE  /\ v \in Versions => goal' \in Shape
               /\ goal'.master = goal.master /\ goal'.nodes = goal.nodes
    <2>1. goal' = [goal EXCEPT !.node = v]
      BY <1>2 DEF Request
    <2> QED
      BY <2>1 DEF Shape
  <1>3. ASSUME Request("nodes", v, l)
        PROVE  /\ v \in 0..MaxNodes => goal' \in Shape
               /\ goal'.master = goal.master /\ goal'.nodes = v
    <2>1. goal' = [goal EXCEPT !.nodes = v]
      BY <1>3 DEF Request
    <2> QED
      BY <2>1 DEF Shape
  <1> QED
    BY <1>1, <1>2, <1>3

\* Every state is well typed.
LEMMA TypeInit == Init => TypeOK
  <1>1. [name |-> "create", want |-> Smallest] \in Call
    BY Shapes DEF Call, Operations
  <1>2. 0 \in 0..(MaxDeletes - 1)
    BY DEF MaxDeletes
  <1>3. Smallest \in Shape
    BY Shapes
  <1> QED
    BY <1>1, <1>2, <1>3 DEF Init, TypeOK, PC

\* A call that ends leaves the types alone.
LEMMA ReturnType ==
  ASSUME TypeOK, NEW is \in {"ok", "error", "apiError"}, NEW s \in Shape, Return(is, s),
         stored' \in BOOLEAN, created' \in BOOLEAN
  PROVE  TypeOK'
  BY DEF TypeOK, google, PC, MaxDeletes

\* So does one that fails.
LEMMA FailType ==
  ASSUME TypeOK, NEW why \in {"error", "apiError"}, FailWith(why)
  PROVE  TypeOK'
  <1>1. (IF op.name = "create" THEN op.want ELSE saved) \in Shape
    BY DEF TypeOK, Call
  <1>2. stored' \in BOOLEAN /\ created' \in BOOLEAN
    BY DEF FailWith, TypeOK
  <1> QED
    BY <1>1, <1>2, ReturnType DEF FailWith

\* A request does, if it is for a value of the field, and the step types the state.
LEMMA RequestType ==
  ASSUME TypeOK, NEW f \in {"master", "node", "nodes"}, NEW v, NEW l \in PC, Request(f, v, l),
         v \in IF f = "nodes" THEN 0..MaxNodes ELSE Versions, state' \in Shape
  PROVE  TypeOK'
  <1>1. goal' \in Shape
    BY RequestFields DEF TypeOK
  <1> QED
    BY <1>1 DEF Request, TypeOK, PC

LEMMA TypeStep ==
  ASSUME TypeOK, CallInv, [Next]_vars
  PROVE  TypeOK'
  <1>0. /\ op.want \in Shape /\ goal \in Shape /\ state \in Shape /\ saved \in Shape
        /\ Smallest \in Shape
    BY Shapes DEF TypeOK, Call
  <1>1. Fail \/ ApiError \/ Refused => TypeOK'
    BY FailType DEF Fail, ApiError, Refused
  <1>2. ASSUME NEW l \in PC, Skip(l) PROVE TypeOK'
    BY <1>2 DEF TypeOK, google
  <1> USE DEF PC
  <1>3. ASSUME NEW o \in Ops, NEW want \in Wants, Begin(o, want) PROVE TypeOK'
    <2>1. o \in Operations /\ want \in Shape
      BY GKEAssumption
    <2>2. op' \in Call
      BY <1>3, <2>1 DEF Begin, Call
    <2>3. pc' \in PC
      BY <1>3 DEF Begin
    <2> QED
      BY <1>3, <2>2, <2>3 DEF Begin, TypeOK, google, MaxDeletes
  <1>4. CASE Parse
    <2>1. CASE Return("error", saved) /\ UNCHANGED <<stored, created>>
      BY <1>0, <2>1, ReturnType DEF TypeOK
    <2> QED
      BY <1>2, <1>4, <2>1 DEF Parse
  <1>5. CASE CreateCluster
    <2>1. Requested(op.want) \in Shape
      BY <1>0, Shapes
    <2> QED
      BY <1>0, <1>1, <1>5, <2>1 DEF CreateCluster, TypeOK, google, Has
  <1>6. CASE Wait
    BY <1>1, <1>2, <1>6 DEF Wait, TypeOK
  <1>7. CASE PostCheck
    <2>1. CASE Return("ok", op.want) /\ created' = TRUE /\ stored' = TRUE
      BY <1>0, <2>1, ReturnType
    <2> QED
      BY <1>1, <1>2, <1>7, <2>1 DEF PostCheck
  <1>8. CASE UpdateMaster
    <2>1. CASE Request("master", op.want.master, "node")
               /\ state' = [state EXCEPT !.master = op.want.master]
      <3>1. state' \in Shape /\ op.want.master \in Versions
        BY <1>0, <2>1 DEF Shape
      <3> QED
        BY <2>1, <3>1, RequestType
    <2> QED
      BY <1>1, <1>2, <1>8, <2>1 DEF UpdateMaster
  <1>9. CASE UpdateNode
    <2> DEFINE v == IF state.node = 0 THEN goal.node ELSE state.node
    <2>1. CASE Request("node", v, "size") /\ state' = [state EXCEPT !.node = op.want.node]
      <3>1. state' \in Shape /\ v \in Versions
        BY <1>0, <2>1 DEF Shape
      <3> QED
        BY <2>1, <3>1, RequestType
    <2> QED
      BY <1>1, <1>2, <1>9, <2>1 DEF UpdateNode
  <1>10. CASE UpdateSize
    <2>1. CASE Request("nodes", op.want.nodes, "autoscaling") /\ UNCHANGED state
      BY <1>0, <2>1, Shapes, RequestType
    <2> QED
      BY <1>1, <1>2, <1>10, <2>1 DEF UpdateSize
  <1>11. CASE UpdateAutoscaling
    <2>1. CASE Request("nodes", goal.nodes, "store") /\ UNCHANGED state
      BY <1>0, <2>1, Shapes, RequestType
    <2> QED
      BY <1>1, <1>2, <1>11, <2>1 DEF UpdateAutoscaling
  <1>12. CASE SetMaster
    <2>1. CASE Request("master", op.want.master, "setNode") /\ UNCHANGED state
      BY <1>0, <2>1, Shapes, RequestType
    <2> QED
      BY <1>1, <1>12, <2>1 DEF SetMaster
  <1>13. CASE SetNode
    <2>1. CASE Request("node", op.want.node, "return") /\ UNCHANGED state
      BY <1>0, <2>1, Shapes, RequestType
    <2> QED
      BY <1>1, <1>13, <2>1 DEF SetNode
  <1>14. CASE SetClusterSize
    <2>1. CASE Request("nodes", op.want.nodes, "return") /\ UNCHANGED state
      BY <1>0, <2>1, Shapes, RequestType
    <2> QED
      BY <1>1, <1>14, <2>1 DEF SetClusterSize
  <1>15. CASE UpdateDone \/ SetDone \/ RemoveDone
    <2>1. CASE RemoveDone
      BY <1>0, <2>1, ReturnType DEF RemoveDone
    <2>2. CASE UpdateDone \/ SetDone
      <3>1. Return("ok", state) /\ UNCHANGED <<stored, created>>
        BY <2>2 DEF UpdateDone, SetDone
      <3> QED
        BY <1>0, <3>1, ReturnType DEF TypeOK
    <2> QED
      BY <1>15, <2>1, <2>2
  <1>16. CASE Delete
    <2>1. CASE status' = "deleting" /\ Goto("deleted")
               /\ UNCHANGED <<real, goal, stored, state, created, other, next>>
      BY <2>1 DEF TypeOK
    <2>2. CASE /\ TriesLeft /\ tries' = tries + 1
               /\ UNCHANGED <<google, stored, state, saved, created, other, pc, next, op, result>>
      BY <2>2 DEF TypeOK, google, TriesLeft, MaxDeletes
    <2> QED
      BY <1>1, <1>2, <1>16, <2>1, <2>2 DEF Delete, BusyAtLast
  <1>17. CASE Crash \/ Reconcile \/ Degrade \/ Repair \/ Vanish
    <2>1. CASE Crash
      <3>1. \/ Return("error", saved) /\ UNCHANGED <<stored, created>>
            \/ Return("error", op.want) /\ stored' = TRUE /\ created' = TRUE
        BY <2>1 DEF Crash
      <3> QED
        BY <1>0, <3>1, ReturnType DEF TypeOK
    <2>2. CASE Reconcile \/ Degrade \/ Repair \/ Vanish
      BY <1>0, <2>2 DEF Reconcile, Degrade, Repair, Vanish, TypeOK
    <2> QED
      BY <1>17, <2>1, <2>2
  <1>18. CASE UNCHANGED vars
    BY <1>18 DEF vars, TypeOK
  <1> QED
    BY <1>3, <1>4, <1>5, <1>6, <1>7, <1>8, <1>9, <1>10, <1>11, <1>12, <1>13, <1>14, <1>15,
       <1>16, <1>17, <1>18 DEF Next, DriverStep

-----------------------------------------------------------------------------
(* The steps keep what the labels say.  Returned is false of a call that   *)
(* runs or has failed.                                                     *)
LabelInv == CallInv /\ GoalInv

USE DEF Returned, At, Creating, Updating, Changing, Deleting, Changes, ClusterPast

\* A call that ends with an error promises nothing.
LEMMA FailKept ==
  ASSUME LabelInv, pc' = "idle", result' \in {"error", "apiError"},
         UNCHANGED <<status, real, goal, other, op>>
  PROVE  LabelInv'
  BY DEF LabelInv, CallInv, GoalInv, MasterPast, NodesPast, Awaited, PastMaster, PastNodes

\* So does a request that is refused, or fails, and the death of the engine.
LEMMA ErrorKept ==
  ASSUME LabelInv, Fail \/ ApiError \/ Refused \/ Crash
  PROVE  LabelInv'
  BY FailKept DEF Fail, ApiError, Refused, Crash, FailWith, google

\* A call starts: nothing is behind it yet.
LEMMA BeginKept ==
  ASSUME LabelInv, NEW o \in Operations, NEW want \in Shape, Begin(o, want)
  PROVE  LabelInv'
  <1>1. /\ op' = [name |-> o, want |-> want] /\ result' = "none"
        /\ UNCHANGED <<status, real, goal, other>>
        /\ o = "setVersion" => want.nodes = 0
        /\ o = "setSize" => want.master = 0
    BY DEF Begin, google, Operations
  <1>2. pc' = CASE o \in {"create", "update"} -> "parse"
                [] o = "setVersion" -> "setMaster" [] o = "setSize" -> "setSize"
                [] OTHER -> "delete"
    BY DEF Begin
  <1>3. op'.name = o /\ op'.want = want
    BY <1>1
  <1>4. CallInv'
    BY <1>1, <1>2, <1>3 DEF CallInv, Operations
  <1>5. GoalInv'
    BY <1>1, <1>2, <1>3 DEF LabelInv, GoalInv, MasterPast, NodesPast, PastMaster, PastNodes,
                            Operations
  <1> QED
    BY <1>4, <1>5 DEF LabelInv

\* A request that Google accepts: the call waits for the goal that it has set, and
\* what was asked for before is still in it.
LEMMA RequestKept ==
  ASSUME TypeOK, LabelInv, NEW f \in {"master", "node", "nodes"}, NEW v, NEW l,
         Request(f, v, l), pc \in Changing, pc # "return", pc # "store",
         <<pc, f, l>> \in {<<"master", "master", "node">>, <<"node", "node", "size">>,
                          <<"size", "nodes", "autoscaling">>,
                          <<"autoscaling", "nodes", "store">>,
                          <<"setMaster", "master", "setNode">>, <<"setNode", "node", "return">>,
                          <<"setSize", "nodes", "return">>},
         f = "master" => v = op.want.master,
         f = "nodes" => v = IF pc = "autoscaling" THEN goal.nodes ELSE op.want.nodes
  PROVE  LabelInv'
  <1>1. /\ status' = "busy" /\ next' = l /\ pc' = "wait"
        /\ UNCHANGED <<other, op, result>>
    BY DEF Request
  <1>2. /\ f = "master" => goal'.master = v /\ goal'.nodes = goal.nodes
        /\ f = "node" => goal'.master = goal.master /\ goal'.nodes = goal.nodes
        /\ f = "nodes" => goal'.master = goal.master /\ goal'.nodes = v
    BY RequestFields DEF TypeOK
  <1>3. CallInv /\ GoalInv
    BY DEF LabelInv
  <1>4. At = pc /\ op.name \in Changes /\ (pc \in Updating => op.name = "update")
    BY <1>3 DEF CallInv
  <1>5. /\ l \in PastMaster /\ At' = l
        /\ l \in Updating => pc \in Updating
        /\ l = "setNode" => pc = "setMaster"
    BY <1>1 DEF PastMaster
  <1>6. CallInv'
    BY <1>1, <1>3, <1>4, <1>5 DEF CallInv, PastMaster
  <1>7. MasterPast' => goal'.master = op'.want.master /\ Awaited'
    <2>1. CASE f = "master"
      BY <1>1, <1>2, <2>1 DEF MasterPast, Awaited
    <2>2. CASE pc = "setSize"
      BY <1>1, <1>3, <2>2 DEF CallInv, MasterPast
    <2>3. CASE pc \in PastMaster /\ f # "master"
      BY <1>1, <1>2, <1>3, <1>4, <2>3 DEF GoalInv, MasterPast, Awaited
    <2> QED
      BY <2>1, <2>2, <2>3 DEF PastMaster
  <1>8. NodesPast' => goal'.nodes = op'.want.nodes /\ Awaited'
    <2>1. CASE pc \in {"size", "setSize"}
      BY <1>1, <1>2, <2>1 DEF NodesPast, Awaited
    <2>2. CASE pc = "setNode"
      BY <1>1, <1>3, <2>2 DEF CallInv, NodesPast
    <2>3. CASE pc = "autoscaling"
      BY <1>1, <1>2, <1>3, <1>4, <2>3 DEF GoalInv, NodesPast, Awaited, PastNodes
    <2>4. CASE pc \in {"master", "node", "setMaster"}
      BY <1>1, <1>5, <2>4 DEF NodesPast, PastNodes
    <2> QED
      BY <2>1, <2>2, <2>3, <2>4
  <1> QED
    BY <1>1, <1>4, <1>6, <1>7, <1>8 DEF LabelInv, GoalInv

\* The call goes on without asking Google for anything.
LEMMA SkipKept ==
  ASSUME LabelInv, NEW l, Skip(l), pc # "idle",
         \/ pc = "parse" /\ l = IF op.name = "create" THEN "create" ELSE "master"
         \/ pc = "wait" /\ l = next /\ status = "RUNNING"
         \/ l = pc
         \/ pc = "master" /\ l = "node" /\ op.want.master = 0
         \/ pc = "node" /\ l = "size"
         \/ pc = "size" /\ l = "autoscaling" /\ op.want.nodes = 0
         \/ pc = "autoscaling" /\ l = "store"
         \/ pc = "delete" /\ l = "deleted" /\ status = "absent"
  PROVE  LabelInv'
  <1>1. pc' = l /\ UNCHANGED <<status, real, goal, other, next, op, result>>
    BY DEF google
  <1>2. CallInv'
    BY <1>1 DEF LabelInv, CallInv
  <1>3. GoalInv'
    BY <1>1 DEF LabelInv, CallInv, GoalInv, MasterPast, NodesPast, Awaited, PastMaster,
                PastNodes
  <1> QED
    BY <1>2, <1>3 DEF LabelInv

\* A call that succeeds has all its requests behind it.
LEMMA DoneKept ==
  ASSUME LabelInv, UpdateDone \/ SetDone \/ RemoveDone
  PROVE  LabelInv'
  <1>1. CASE UpdateDone \/ SetDone
    <2>1. /\ pc \in {"store", "return"} /\ pc' = "idle" /\ result' = "ok"
          /\ UNCHANGED <<status, real, goal, other, op>>
      BY <1>1 DEF UpdateDone, SetDone, google
    <2> QED
      BY <2>1 DEF LabelInv, CallInv, GoalInv, MasterPast, NodesPast, Awaited, PastMaster,
                  PastNodes
  <1>2. CASE RemoveDone
    <2>1. /\ pc = "deleted" /\ pc' = "idle" /\ result' = "ok"
          /\ UNCHANGED <<status, real, goal, other, op>>
      BY <1>2 DEF RemoveDone, google
    <2> QED
      BY <2>1 DEF LabelInv, CallInv, GoalInv, MasterPast, NodesPast, Awaited, PastMaster,
                  PastNodes
  <1> QED
    BY <1>1, <1>2

\* Clusters.Create makes the cluster that it asks for, or finds one that it compares
\* with nothing: other says whether that one is different.
LEMMA CreateClusterKept ==
  ASSUME TypeOK, LabelInv, CreateCluster
  PROVE  LabelInv'
  <1>1. CASE ApiError
    BY <1>1, ErrorKept
  <1>2. CASE ~ApiError
    <2>1. /\ pc = "create" /\ pc' = "wait" /\ next' = "postCheck" /\ op.name = "create"
          /\ UNCHANGED <<op, result>>
          /\ \/ status' = "busy" /\ goal' = Requested(op.want)
             \/ UNCHANGED <<status, real, goal>> /\ other' = ~Has(goal, op.want)
      BY <1>2 DEF CreateCluster, google, LabelInv, CallInv
    <2>2. other' \/ Has(goal', op'.want)
      BY <2>1, Shapes DEF TypeOK, Call
    <2> QED
      BY <2>1, <2>2 DEF LabelInv, CallInv, GoalInv, MasterPast, NodesPast, PastMaster,
                        PastNodes
  <1> QED
    BY <1>1, <1>2

\* PostCheck takes the cluster for created when it runs.
LEMMA PostCheckKept ==
  ASSUME LabelInv, PostCheck
  PROVE  LabelInv'
  <1>1. CASE ApiError
    BY <1>1, ErrorKept
  <1>2. CASE status # "RUNNING" /\ Skip(pc)
    BY <1>2, SkipKept DEF PostCheck
  <1>3. CASE ~ApiError /\ status = "RUNNING"
    <2>1. /\ pc = "postCheck" /\ status = "RUNNING"
          /\ pc' = "idle" /\ result' = "ok" /\ UNCHANGED <<status, real, goal, other, op>>
      BY <1>3 DEF PostCheck, google
    <2>2. op.name = "create"
      BY <2>1 DEF LabelInv, CallInv
    <2> QED
      BY <2>1, <2>2 DEF LabelInv, CallInv, GoalInv, MasterPast, NodesPast, PastMaster,
                        PastNodes
  <1> QED
    BY <1>1, <1>2, <1>3 DEF PostCheck

\* Clusters.Delete is answered for a cluster that runs or is faulty; while it is busy it is asked
\* again, and then given up.
LEMMA DeleteKept ==
  ASSUME LabelInv, Delete
  PROVE  LabelInv'
  <1>1. CASE status' = "deleting" /\ Goto("deleted")
             /\ UNCHANGED <<real, goal, stored, state, created, other, next>>
    <2>1. pc = "delete" /\ op.name = "remove"
      BY DEF Delete, LabelInv, CallInv
    <2> QED
      BY <1>1, <2>1 DEF LabelInv, CallInv, GoalInv, MasterPast, NodesPast, PastMaster,
                        PastNodes
  <1>2. CASE status = "absent" /\ Skip("deleted")
    BY <1>2, SkipKept DEF Delete
  <1>3. CASE UNCHANGED <<google, stored, state, saved, created, other, pc, next, op, result>>
    BY <1>3 DEF google, LabelInv, CallInv, GoalInv, MasterPast, NodesPast, Awaited
  <1> QED
    BY <1>1, <1>2, <1>3, ErrorKept DEF Delete, BusyAtLast

\* Google reaches its goal or does not, or the cluster is gone.
LEMMA GoogleKept ==
  ASSUME LabelInv, Reconcile \/ Degrade \/ Repair \/ Vanish
  PROVE  LabelInv'
  <1>1. /\ UNCHANGED <<other, pc, next, op, result>>
        /\ \/ status \in {"busy", "faulty"} /\ status' = "RUNNING" /\ real' = goal /\ goal' = goal
           \/ status \in {"busy", "RUNNING"} /\ status' = "faulty" /\ UNCHANGED <<real, goal>>
           \/ status = "deleting" /\ status' = "absent" /\ real' = goal'
    BY DEF Reconcile, Degrade, Repair, Vanish
  <1>2. CallInv'
    BY <1>1 DEF LabelInv, CallInv
  <1>3. GoalInv'
    BY <1>1 DEF LabelInv, GoalInv, MasterPast, NodesPast, Awaited
  <1> QED
    BY <1>2, <1>3 DEF LabelInv

\* Each step keeps the invariant.
LEMMA LabelStep ==
  ASSUME TypeOK, LabelInv, [Next]_vars
  PROVE  LabelInv'
  <1>1. CASE \E o \in Ops, want \in Wants : Begin(o, want)
    BY <1>1, BeginKept, GKEAssumption
  <1>2. CASE Parse
    <2>1. CASE Return("error", saved)
      BY <2>1, FailKept DEF google
    <2> QED
      BY <1>2, <2>1, SkipKept DEF Parse
  <1>3. CASE Wait
    BY <1>3, SkipKept, ErrorKept DEF Wait, Ready
  <1>4. CASE UpdateMaster
    BY <1>4, SkipKept, ErrorKept, RequestKept DEF UpdateMaster
  <1>5. CASE UpdateNode
    BY <1>5, SkipKept, ErrorKept, RequestKept DEF UpdateNode
  <1>6. CASE UpdateSize
    BY <1>6, SkipKept, ErrorKept, RequestKept DEF UpdateSize
  <1>7. CASE UpdateAutoscaling
    BY <1>7, SkipKept, ErrorKept, RequestKept DEF UpdateAutoscaling
  <1>8. CASE SetMaster
    BY <1>8, ErrorKept, RequestKept DEF SetMaster
  <1>9. CASE SetNode
    BY <1>9, ErrorKept, RequestKept DEF SetNode
  <1>10. CASE SetClusterSize
    BY <1>10, ErrorKept, RequestKept DEF SetClusterSize
  <1>11. CASE UNCHANGED vars
    BY <1>11 DEF vars, LabelInv, CallInv, GoalInv, MasterPast, NodesPast, Awaited
  <1> QED
    BY <1>1, <1>2, <1>3, <1>4, <1>5, <1>6, <1>7, <1>8, <1>9, <1>10, <1>11, ErrorKept, DoneKept,
       CreateClusterKept, PostCheckKept, DeleteKept, GoogleKept DEF Next, DriverStep

\* The invariant holds in every state.
LEMMA DriverInvHolds == Spec => []DriverInv
  <1>1. Init => DriverInv
    <2>1. Init => CallInv /\ GoalInv
      BY DEF Init, CallInv, GoalInv, MasterPast, NodesPast, PastMaster, PastNodes
    <2> QED
      BY <2>1, TypeInit DEF DriverInv
  <1>2. DriverInv /\ [Next]_vars => DriverInv'
    BY TypeStep, LabelStep DEF DriverInv, LabelInv
  <1> QED
    BY <1>1, <1>2, PTL DEF Spec

\* A call that answers success has the master and the nodes that it asked for, whatever
\* calls before it that failed or were killed had Google do; only a Create that met a
\* cluster of other options answers success without.
THEOREM AnswersAreSettled == Spec => []Settled
  <1>1. DriverInv => Settled
    <2> SUFFICES ASSUME DriverInv, Returned({"create", "update", "setVersion", "setSize"})
                 PROVE  Has(real, op.want) \/ (op.name = "create" /\ other)
      BY DEF Settled
    <2>1. CASE op.name = "create"
      BY <2>1 DEF DriverInv, GoalInv
    <2>2. CASE op.name # "create"
      BY <2>2 DEF DriverInv, GoalInv, MasterPast, NodesPast, Awaited, Has
    <2> QED
      BY <2>1, <2>2
  <1> QED
    BY <1>1, DriverInvHolds, PTL

\* A Remove that succeeds leaves a cluster that is gone or on its way out, one that was
\* busy with an earlier call included.
THEOREM RemovesEverything == Spec => []RemoveSweeps
  <1>1. DriverInv => RemoveSweeps
    BY DEF DriverInv, GoalInv, RemoveSweeps
  <1> QED
    BY <1>1, DriverInvHolds, PTL
=============================================================================
