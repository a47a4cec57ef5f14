-------------------------- MODULE EKSDriverProofs ---------------------------
(***************************************************************************)
(* CreateComplete, RemoveSweeps and RecordedVersionRuns for any number of  *)
(* versions, whatever the user brings along and whatever fails.            *)
(***************************************************************************)
EXTENDS EKSDriver, TLAPS

\* the labels of the three kinds of calls
Creating == {"parse", "vpc", "vpc.wait", "role", "role.wait", "cluster", "cluster.wait",
             "key", "workers", "workers.wait", "configMap", "postCheck"}
Updating == {"update.send", "update.wait", "update.record"}
Deleting == {"delete.cluster", "delete.role", "delete.vpc", "delete.workers", "delete.key"}

\* the labels of Create after the named part is done
PastKey     == {"workers", "workers.wait", "configMap", "postCheck"}
PastCluster == {"key"} \cup PastKey
PastRole    == {"cluster", "cluster.wait"} \cup PastCluster
PastVPC     == {"role", "role.wait"} \cup PastRole

\* the labels of Create once it has asked for the control plane
Asked == {"cluster.wait"} \cup PastCluster

\* a stack is as Create needs it; a stack or a cluster is on its way out
Built(s) == s \in given \/ stack[s] = "complete"
Gone     == {"absent", "deleting"}

\* which call is at which label
CallInv ==
  /\ pc \in Creating => op.name = "create" /\ ~created
  /\ pc \in Updating => op.name \in {"update", "setVersion"}
  /\ pc \in Deleting => op.name = "remove"

\* Create is at one of the labels, or has succeeded
CreatePast(labels) == pc \in labels \/ (created /\ op.name = "create")

\* what Create has built by then
CreateInv ==
  /\ CreatePast(PastVPC) => Built("vpc")
  /\ CreatePast(PastRole) => Built("role")
  /\ CreatePast(PastCluster) => cluster = "active"
  /\ CreatePast(PastKey) => keyPairs # {}
  /\ CreatePast({"configMap", "postCheck"}) => stack["workers"] = "complete"
  /\ CreatePast({"postCheck"}) => configMap

\* Remove is at one of the labels, or has succeeded
RemovePast(labels) ==
  pc \in labels \/ (pc = "idle" /\ op.name = "remove" /\ result = "ok")

\* what Remove has asked for by then
RemoveInv ==
  /\ RemovePast(Deleting \ {"delete.cluster"}) => cluster \in Gone
  /\ RemovePast({"delete.vpc", "delete.workers", "delete.key"}) => stack["role"] \in Gone
  /\ RemovePast({"delete.workers", "delete.key"}) => stack["vpc"] \in Gone
  /\ RemovePast({"delete.key"}) => stack["workers"] \in Gone
  /\ RemovePast({}) => "own" \notin keyPairs

\* an update leads to a newer version, a finished one to its version, and what
\* Create or Update is about to record runs, unless Create met an older control plane
VersionInv ==
  /\ updating.is = "inProgress" => version < updating.to
  /\ updating.is = "Successful" => version = updating.to
  /\ pc = "update.wait" => updating.to = op.version
  /\ pc = "update.record" => op.version <= version
  /\ pc \in Asked => ahead \/ op.version <= version
  /\ created => ahead \/ state <= version

\* The inductive invariant.
DriverInv == TypeOK /\ CallInv /\ CreateInv /\ RemoveInv /\ VersionInv

-----------------------------------------------------------------------------
USE DEF Goto, Answer, Return, ApiError

\* Every state is well typed.
LEMMA TypeInit == Init => TypeOK
  <1> SUFFICES ASSUME Init PROVE TypeOK
    OBVIOUS
  <1>1. 1 \in Versions /\ 0 \in 0..MaxVersion
    BY EKSAssumption DEF Versions
  <1>2. NoUpdate \in [is : UpdateStatus, to : Versions]
    BY <1>1 DEF NoUpdate, UpdateStatus
  <1>3. [name |-> "create", version |-> 1] \in Call
    BY <1>1 DEF Call, Operations
  <1> QED
    BY <1>1, <1>2, <1>3 DEF Init, TypeOK, StackStatus, PC, Outcome

LEMMA TypeStep == TypeOK /\ [Next]_vars => TypeOK'
  <1> SUFFICES ASSUME TypeOK, [Next]_vars PROVE TypeOK'
    OBVIOUS
  <1> USE DEF TypeOK, aws
  <1>0. /\ op.version \in Versions /\ op.version \in 0..MaxVersion
        /\ 0 \in 0..MaxVersion /\ NoUpdate \in [is : UpdateStatus, to : Versions]
        /\ Ops \subseteq Operations /\ Choices \subseteq SUBSET Brought
    BY EKSAssumption DEF Call, Versions, NoUpdate, UpdateStatus
  <1>1. ASSUME NEW o \in Ops, NEW v \in Versions, NEW g \in Choices, Begin(o, v, g) PROVE TypeOK'
    BY <1>0, <1>1 DEF Begin, Call, PC, Outcome
  <1>2. CASE Parse
    BY <1>0, <1>2 DEF Parse, PC, Outcome
  <1>3. ASSUME NEW s \in Stacks, CreateStack(s) PROVE TypeOK'
    BY <1>0, <1>3 DEF CreateStack, PC, Outcome, StackStatus, Stacks, AfterStack, WaitFor
  <1>4. ASSUME NEW s \in Stacks, WaitStack(s) PROVE TypeOK'
    BY <1>0, <1>4 DEF WaitStack, PC, Outcome, Stacks, AfterStack
  <1>5. ASSUME NEW s \in Stacks, DeleteStack(s) PROVE TypeOK'
    BY <1>0, <1>5 DEF DeleteStack, Deleted, PC, Outcome, StackStatus, Stacks, AfterDelete
  <1>6. CASE CreateCluster
    BY <1>0, <1>6 DEF CreateCluster, PC, Outcome
  <1>7. CASE WaitCluster
    BY <1>0, <1>7 DEF WaitCluster, PC, Outcome
  <1>8. CASE CreateKeyPair
    BY <1>0, <1>8 DEF CreateKeyPair, PC, Outcome
  <1>9. CASE CreateConfigMap
    BY <1>0, <1>9 DEF CreateConfigMap, PC, Outcome
  <1>10. CASE PostCheck
    BY <1>0, <1>10 DEF PostCheck, PC, Outcome
  <1>11. CASE SendUpdate
    <2>1. updating' \in [is : UpdateStatus, to : Versions]
      BY <1>0, <1>11 DEF SendUpdate, UpdateStatus
    <2>2. UNCHANGED <<given, ahead, stack, cluster, keyPairs, configMap, version, op>>
      BY <1>11 DEF SendUpdate
    <2>3. /\ pc' \in PC /\ result' \in Outcome
          /\ state' \in 0..MaxVersion /\ created' \in BOOLEAN
      BY <1>0, <1>11 DEF SendUpdate, PC, Outcome
    <2> QED
      BY <2>1, <2>2, <2>3
  <1>12. CASE WaitUpdate
    BY <1>0, <1>12 DEF WaitUpdate, PC, Outcome
  <1>13. CASE RecordVersion
    BY <1>0, <1>13 DEF RecordVersion, PC, Outcome
  <1>14. CASE DeleteCluster
    BY <1>0, <1>14 DEF DeleteCluster, PC, Outcome
  <1>15. CASE DeleteKeyPair
    BY <1>0, <1>15 DEF DeleteKeyPair, PC, Outcome
  <1>16. CASE Crash
    BY <1>0, <1>16 DEF Crash, PC, Outcome
  <1>17. ASSUME NEW s \in Stacks, StackProgress(s) PROVE TypeOK'
    BY <1>0, <1>17 DEF StackProgress, StackStatus
  <1>18. CASE ClusterProgress
    BY <1>0, <1>18 DEF ClusterProgress
  <1>19. CASE UpdateProgress
    BY <1>0, <1>19 DEF UpdateProgress, UpdateStatus
  <1>20. CASE UNCHANGED vars
    BY <1>0, <1>20 DEF vars
  <1> QED
    BY <1>1, <1>2, <1>3, <1>4, <1>5, <1>6, <1>7, <1>8, <1>9, <1>10, <1>11, <1>12, <1>13,
       <1>14, <1>15, <1>16, <1>17, <1>18, <1>19, <1>20 DEF Next, DriverStep, AWSStep

-----------------------------------------------------------------------------
\* The labels of a call belong to its operation.
LEMMA CallKept ==
  ASSUME TypeOK, TypeOK', CallInv, [Next]_vars
  PROVE  CallInv'
  <1> USE DEF CallInv, Creating, Updating, Deleting, aws, Stacks, Operations
  <1>0. op.name \in Operations /\ created \in BOOLEAN
    BY DEF TypeOK, Call
  <1>1. ASSUME NEW o \in Ops, NEW v \in Versions, NEW g \in Choices, Begin(o, v, g) PROVE CallInv'
    BY <1>0, <1>1, EKSAssumption DEF Begin, TypeOK
  <1>2. CASE Parse
    BY <1>0, <1>2 DEF Parse
  <1>3. ASSUME NEW s \in Stacks, CreateStack(s) PROVE CallInv'
    BY <1>0, <1>3 DEF CreateStack, AfterStack, WaitFor, Skipped
  <1>4. ASSUME NEW s \in Stacks, WaitStack(s) PROVE CallInv'
    BY <1>0, <1>4 DEF WaitStack, AfterStack, WaitFor, StackReady
  <1>5. ASSUME NEW s \in Stacks, DeleteStack(s) PROVE CallInv'
    BY <1>0, <1>5 DEF DeleteStack, Deleted, AfterDelete, DeleteStackPC
  <1>6. CASE CreateCluster
    <2>1. pc = "cluster" /\ pc' \in {"cluster.wait", "idle"} /\ op' = op
      BY <1>0, <1>6 DEF CreateCluster
    <2>2. created' = created
      BY <1>0, <1>6, <2>1 DEF CreateCluster
    <2> QED
      BY <2>1, <2>2
  <1>7. CASE WaitCluster
    BY <1>0, <1>7 DEF WaitCluster, ClusterLost
  <1>8. CASE CreateKeyPair
    BY <1>0, <1>8 DEF CreateKeyPair
  <1>9. CASE CreateConfigMap
    BY <1>0, <1>9 DEF CreateConfigMap
  <1>10. CASE PostCheck
    BY <1>0, <1>10 DEF PostCheck
  <1>11. CASE SendUpdate
    BY <1>0, <1>11 DEF SendUpdate
  <1>12. CASE WaitUpdate
    BY <1>0, <1>12 DEF WaitUpdate, UpdateDone
  <1>13. CASE RecordVersion
    BY <1>0, <1>13 DEF RecordVersion
  <1>14. CASE DeleteCluster
    BY <1>0, <1>14 DEF DeleteCluster
  <1>15. CASE DeleteKeyPair
    BY <1>0, <1>15 DEF DeleteKeyPair
  <1>16. CASE Crash
    BY <1>0, <1>16 DEF Crash
  <1>17. ASSUME NEW s \in Stacks, StackProgress(s) PROVE CallInv'
    BY <1>0, <1>17 DEF StackProgress
  <1>18. CASE ClusterProgress
    BY <1>0, <1>18 DEF ClusterProgress
  <1>19. CASE UpdateProgress
    BY <1>0, <1>19 DEF UpdateProgress
  <1>20. CASE UNCHANGED vars
    BY <1>20 DEF vars
  <1> QED
    BY <1>1, <1>2, <1>3, <1>4, <1>5, <1>6, <1>7, <1>8, <1>9, <1>10, <1>11, <1>12, <1>13, <1>14, <1>15, <1>16, <1>17, <1>18, <1>19, <1>20 DEF Next, DriverStep, AWSStep

\* What Create has built stays until Remove.
LEMMA CreateKept ==
  ASSUME TypeOK, TypeOK', CallInv, CreateInv, [Next]_vars
  PROVE  CreateInv'
  <1> USE DEF CallInv, CreateInv, CreatePast, Built, Creating, Updating, Deleting, PastKey, PastCluster, PastRole, PastVPC, aws, Stacks
  <1>0. /\ stack \in [Stacks -> StackStatus] /\ given \subseteq {"vpc", "role", "keyPair"}
        /\ created \in BOOLEAN
    BY DEF TypeOK, Brought
  <1>1. ASSUME NEW o \in Ops, NEW v \in Versions, NEW g \in Choices, Begin(o, v, g) PROVE CreateInv'
    BY <1>0, <1>1 DEF Begin
  <1>2. CASE Parse
    BY <1>0, <1>2 DEF Parse
  <1>3. ASSUME NEW s \in Stacks, CreateStack(s) PROVE CreateInv'
    <2>1. /\ pc = s /\ pc' \in {WaitFor(s), AfterStack(s), "idle"}
          /\ pc' = AfterStack(s) => s \in given
          /\ created' = created
      BY <1>0, <1>3 DEF CreateStack, Skipped, WaitFor, AfterStack
    <2>2. /\ UNCHANGED <<given, cluster, keyPairs>>
          /\ \A t \in Stacks : stack[t] = "complete" => stack'[t] = "complete"
      BY <1>0, <1>3 DEF CreateStack
    <2> QED
      BY <1>0, <2>1, <2>2 DEF WaitFor, AfterStack
  <1>4. ASSUME NEW s \in Stacks, WaitStack(s) PROVE CreateInv'
    <2>1. /\ pc = WaitFor(s) /\ pc' \in {WaitFor(s), AfterStack(s), "idle"}
          /\ pc' = AfterStack(s) => stack[s] = "complete"
          /\ created' = created
      BY <1>0, <1>4 DEF WaitStack, StackReady, WaitFor, AfterStack
    <2>2. UNCHANGED <<given, aws>>
      BY <1>0, <1>4 DEF WaitStack
    <2> QED
      BY <2>1, <2>2 DEF WaitFor, AfterStack
  <1>5. ASSUME NEW s \in Stacks, DeleteStack(s) PROVE CreateInv'
    BY <1>0, <1>5 DEF DeleteStack, Deleted, AfterDelete, DeleteStackPC
  <1>6. CASE CreateCluster
    <2>1. pc = "cluster" /\ pc' \in {"cluster.wait", "idle"} /\ created' = created
      BY <1>0, <1>6 DEF CreateCluster
    <2>2. UNCHANGED <<given, stack>>
      BY <1>0, <1>6 DEF CreateCluster
    <2> QED
      BY <2>1, <2>2
  <1>7. CASE WaitCluster
    <2>1. /\ pc = "cluster.wait" /\ pc' \in {"cluster.wait", "key", "idle"}
          /\ pc' = "key" => cluster = "active"
          /\ created' = created
      BY <1>0, <1>7 DEF WaitCluster
    <2>2. UNCHANGED <<given, aws>>
      BY <1>0, <1>7 DEF WaitCluster
    <2> QED
      BY <2>1, <2>2
  <1>8. CASE CreateKeyPair
    <2>1. /\ pc = "key" /\ pc' \in {"workers", "idle"}
          /\ pc' = "workers" => keyPairs' # {}
          /\ created' = created
      BY <1>0, <1>8 DEF CreateKeyPair
    <2>2. UNCHANGED <<given, stack, cluster>>
      BY <1>0, <1>8 DEF CreateKeyPair
    <2> QED
      BY <2>1, <2>2
  <1>9. CASE CreateConfigMap
    BY <1>0, <1>9 DEF CreateConfigMap
  <1>10. CASE PostCheck
    BY <1>0, <1>10 DEF PostCheck
  <1>11. CASE SendUpdate
    BY <1>0, <1>11 DEF SendUpdate
  <1>12. CASE WaitUpdate
    BY <1>0, <1>12 DEF WaitUpdate, UpdateDone
  <1>13. CASE RecordVersion
    BY <1>0, <1>13 DEF RecordVersion
  <1>14. CASE DeleteCluster
    BY <1>0, <1>14 DEF DeleteCluster
  <1>15. CASE DeleteKeyPair
    BY <1>0, <1>15 DEF DeleteKeyPair
  <1>16. CASE Crash
    BY <1>0, <1>16 DEF Crash
  <1>17. ASSUME NEW s \in Stacks, StackProgress(s) PROVE CreateInv'
    BY <1>0, <1>17 DEF StackProgress
  <1>18. CASE ClusterProgress
    BY <1>0, <1>18 DEF ClusterProgress
  <1>19. CASE UpdateProgress
    BY <1>0, <1>19 DEF UpdateProgress
  <1>20. CASE UNCHANGED vars
    BY <1>20 DEF vars
  <1> QED
    BY <1>1, <1>2, <1>3, <1>4, <1>5, <1>6, <1>7, <1>8, <1>9, <1>10, <1>11, <1>12, <1>13, <1>14, <1>15, <1>16, <1>17, <1>18, <1>19, <1>20 DEF Next, DriverStep, AWSStep

\* What Remove has asked for stays asked for.
LEMMA RemoveKept ==
  ASSUME TypeOK, TypeOK', CallInv, RemoveInv, [Next]_vars
  PROVE  RemoveInv'
  <1> USE DEF CallInv, RemoveInv, RemovePast, Gone, Creating, Updating, Deleting, aws, Stacks
  <1>0. stack \in [Stacks -> StackStatus]
    BY DEF TypeOK
  <1>1. ASSUME NEW o \in Ops, NEW v \in Versions, NEW g \in Choices, Begin(o, v, g) PROVE RemoveInv'
    BY <1>0, <1>1 DEF Begin
  <1>2. CASE Parse
    BY <1>0, <1>2 DEF Parse
  <1>3. ASSUME NEW s \in Stacks, CreateStack(s) PROVE RemoveInv'
    BY <1>0, <1>3 DEF CreateStack, AfterStack, WaitFor, Skipped
  <1>4. ASSUME NEW s \in Stacks, WaitStack(s) PROVE RemoveInv'
    BY <1>0, <1>4 DEF WaitStack, AfterStack, WaitFor, StackReady
  <1>5. ASSUME NEW s \in Stacks, DeleteStack(s) PROVE RemoveInv'
    BY <1>0, <1>5 DEF DeleteStack, Deleted, AfterDelete, DeleteStackPC
  <1>6. CASE CreateCluster
    BY <1>0, <1>6 DEF CreateCluster, NoUpdate
  <1>7. CASE WaitCluster
    BY <1>0, <1>7 DEF WaitCluster, ClusterLost
  <1>8. CASE CreateKeyPair
    BY <1>0, <1>8 DEF CreateKeyPair
  <1>9. CASE CreateConfigMap
    BY <1>0, <1>9 DEF CreateConfigMap
  <1>10. CASE PostCheck
    BY <1>0, <1>10 DEF PostCheck
  <1>11. CASE SendUpdate
    BY <1>0, <1>11 DEF SendUpdate
  <1>12. CASE WaitUpdate
    BY <1>0, <1>12 DEF WaitUpdate, UpdateDone
  <1>13. CASE RecordVersion
    BY <1>0, <1>13 DEF RecordVersion
  <1>14. CASE DeleteCluster
    BY <1>0, <1>14 DEF DeleteCluster
  <1>15. CASE DeleteKeyPair
    BY <1>0, <1>15 DEF DeleteKeyPair
  <1>16. CASE Crash
    BY <1>0, <1>16 DEF Crash
  <1>17. ASSUME NEW s \in Stacks, StackProgress(s) PROVE RemoveInv'
    BY <1>0, <1>17 DEF StackProgress
  <1>18. CASE ClusterProgress
    BY <1>0, <1>18 DEF ClusterProgress
  <1>19. CASE UpdateProgress
    BY <1>0, <1>19 DEF UpdateProgress
  <1>20. CASE UNCHANGED vars
    BY <1>20 DEF vars
  <1> QED
    BY <1>1, <1>2, <1>3, <1>4, <1>5, <1>6, <1>7, <1>8, <1>9, <1>10, <1>11, <1>12, <1>13, <1>14, <1>15, <1>16, <1>17, <1>18, <1>19, <1>20 DEF Next, DriverStep, AWSStep

\* The recorded version runs.
LEMMA VersionKept ==
  ASSUME TypeOK, TypeOK', CallInv, VersionInv, [Next]_vars
  PROVE  VersionInv'
  <1> USE DEF CallInv, VersionInv, Creating, Updating, Deleting, Asked, PastCluster, PastKey, aws
  <1>0. /\ op.version \in Nat /\ version \in Nat /\ version >= 1
        /\ updating \in [is : UpdateStatus, to : Nat] /\ state \in Nat
        /\ op'.version \in Nat /\ version' \in Nat /\ version' >= 1
        /\ updating' \in [is : UpdateStatus, to : Nat] /\ state' \in Nat
        /\ created \in BOOLEAN /\ ahead \in BOOLEAN
    BY DEF TypeOK, Call, Versions
  <1>1. ASSUME NEW o \in Ops, NEW v \in Versions, NEW g \in Choices, Begin(o, v, g) PROVE VersionInv'
    BY <1>0, <1>1 DEF Begin
  <1>2. CASE Parse
    BY <1>0, <1>2 DEF Parse
  <1>3. ASSUME NEW s \in Stacks, CreateStack(s) PROVE VersionInv'
    <2>1. /\ UNCHANGED <<version, updating, ahead, op>>
          /\ pc = s /\ created' = created /\ ~created
      BY <1>0, <1>3 DEF CreateStack, Stacks
    <2>2. /\ pc' \notin {"update.wait", "update.record"}
          /\ pc' \in Asked => pc \in Asked
      BY <1>0, <1>3 DEF CreateStack, AfterStack, WaitFor, Stacks
    <2> QED
      BY <2>1, <2>2
  <1>4. ASSUME NEW s \in Stacks, WaitStack(s) PROVE VersionInv'
    BY <1>0, <1>4 DEF WaitStack, AfterStack, WaitFor, StackReady
  <1>5. ASSUME NEW s \in Stacks, DeleteStack(s) PROVE VersionInv'
    <2>1. UNCHANGED <<version, updating, ahead>> /\ pc \in Deleting
      BY <1>0, <1>5 DEF DeleteStack, DeleteStackPC
    <2>2. /\ pc' \notin {"update.wait", "update.record"} \cup Asked
          /\ UNCHANGED <<state, created>>
      BY <1>0, <1>5, <2>1 DEF DeleteStack, AfterDelete
    <2> QED
      BY <2>1, <2>2
  <1>6. CASE CreateCluster
    <2>1. /\ pc' \in {"cluster.wait", "idle"} /\ created' = created /\ ~created
          /\ op' = op
          /\ UNCHANGED <<version, updating>> \/ updating' = NoUpdate
      BY <1>0, <1>6 DEF CreateCluster
    <2>2. ASSUME pc' = "cluster.wait" PROVE ahead' \/ op.version <= version'
      <3>1. /\ version' = IF cluster = "absent" THEN op.version ELSE version
            /\ ahead' = (cluster # "absent" /\ version < op.version)
        BY <1>6, <2>2 DEF CreateCluster
      <3>2. CASE cluster # "absent" /\ version < op.version
        BY <3>1, <3>2, Zenon
      <3>3. CASE ~(cluster # "absent" /\ version < op.version)
        <4>1. version' = op.version \/ (version' = version /\ ~(version < op.version))
          BY <3>1, <3>3
        <4> QED
          BY <1>0, <4>1
      <3> QED
        BY <3>2, <3>3
    <2> QED
      BY <1>0, <2>1, <2>2 DEF NoUpdate
  <1>7. CASE WaitCluster
    BY <1>0, <1>7 DEF WaitCluster, ClusterLost
  <1>8. CASE CreateKeyPair
    BY <1>0, <1>8 DEF CreateKeyPair
  <1>9. CASE CreateConfigMap
    BY <1>0, <1>9 DEF CreateConfigMap
  <1>10. CASE PostCheck
    BY <1>0, <1>10 DEF PostCheck
  <1>11. CASE SendUpdate
    <2>1. /\ pc = "update.send" /\ UNCHANGED <<version, op, state, created, ahead>>
          /\ \/ updating' = updating /\ pc' = "idle"
             \/ updating' = updating /\ pc' = "update.record" /\ op.version = version
             \/ /\ updating' = [is |-> "inProgress", to |-> op.version]
                /\ pc' = "update.wait" /\ op.version # version /\ ~(op.version < version)
      BY <1>0, <1>11 DEF SendUpdate
    <2> QED
      BY <1>0, <2>1
  <1>12. CASE WaitUpdate
    <2>1. /\ pc = "update.wait" /\ UNCHANGED <<version, updating, op, state, created, ahead>>
          /\ \/ pc' \in {"idle", "update.wait"}
             \/ pc' = "update.record" /\ updating.is = "Successful"
      BY <1>0, <1>12 DEF WaitUpdate, UpdateDone
    <2> QED
      BY <1>0, <2>1
  <1>13. CASE RecordVersion
    BY <1>0, <1>13 DEF RecordVersion
  <1>14. CASE DeleteCluster
    <2>1. UNCHANGED <<version, updating, state, created, ahead>>
      BY <1>0, <1>14 DEF DeleteCluster
    <2>2. pc' \notin {"update.wait", "update.record"} \cup Asked
      BY <1>0, <1>14 DEF DeleteCluster
    <2> QED
      BY <2>1, <2>2
  <1>15. CASE DeleteKeyPair
    BY <1>0, <1>15 DEF DeleteKeyPair
  <1>16. CASE Crash
    BY <1>0, <1>16 DEF Crash
  <1>17. ASSUME NEW s \in Stacks, StackProgress(s) PROVE VersionInv'
    BY <1>0, <1>17 DEF StackProgress
  <1>18. CASE ClusterProgress
    BY <1>0, <1>18 DEF ClusterProgress
  <1>19. CASE UpdateProgress
    BY <1>0, <1>19 DEF UpdateProgress
  <1>20. CASE UNCHANGED vars
    BY <1>20 DEF vars
  <1> QED
    BY <1>1, <1>2, <1>3, <1>4, <1>5, <1>6, <1>7, <1>8, <1>9, <1>10, <1>11, <1>12, <1>13, <1>14, <1>15, <1>16, <1>17, <1>18, <1>19, <1>20 DEF Next, DriverStep, AWSStep

-----------------------------------------------------------------------------
\* The invariant holds.
LEMMA DriverInvHolds == Spec => []DriverInv
  <1>1. Init => DriverInv
    <2> SUFFICES ASSUME Init PROVE DriverInv
      OBVIOUS
    <2>1. CallInv /\ CreateInv /\ RemoveInv
      BY DEF Init, CallInv, CreateInv, RemoveInv, CreatePast, RemovePast, Creating, Updating,
             Deleting, PastVPC, PastRole, PastCluster, PastKey
    <2>2. VersionInv
      BY DEF Init, VersionInv, NoUpdate
    <2> QED
      BY <2>1, <2>2, TypeInit DEF DriverInv
  <1>2. DriverInv /\ [Next]_vars => DriverInv'
    BY TypeStep, CallKept, CreateKept, RemoveKept, VersionKept DEF DriverInv
  <1> QED
    BY <1>1, <1>2, PTL DEF Spec

\* Create answers success only when everything it makes is there, whatever earlier
\* attempts left half-built, and whatever the user brought along.
THEOREM CreatesCompletely == Spec => []CreateComplete
  <1>1. DriverInv => CreateComplete
    BY DEF DriverInv, TypeOK, CreateInv, CreatePast, Built, CreateComplete, Stacks
  <1> QED
    BY <1>1, DriverInvHolds, PTL

\* When Remove answers success it has asked for the deletion of everything that Create
\* makes under a name of its own.
THEOREM RemovesEverything == Spec => []RemoveSweeps
  <1>1. DriverInv => RemoveSweeps
    BY DEF DriverInv, RemoveInv, RemovePast, Gone, RemoveSweeps, Stacks
  <1> QED
    BY <1>1, DriverInvHolds, PTL

\* The metadata of a created cluster never claims a version newer than the one it runs,
\* through lost answers, failed updates and deaths of the engine.
THEOREM RecordedVersionsRun == Spec => []RecordedVersionRuns
  <1>1. DriverInv => RecordedVersionRuns
    BY DEF DriverInv, VersionInv, RecordedVersionRuns
  <1> QED
    BY <1>1, DriverInvHolds, PTL
=============================================================================
