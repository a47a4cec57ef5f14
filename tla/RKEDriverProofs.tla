-------------------------- MODULE RKEDriverProofs ---------------------------
(***************************************************************************)
(* Deployed, RecordLeads, RemoveSweeps and PKIKept for any set of nodes    *)
(* and operations, with every call failing after any host and any hosts    *)
(* out of reach.                                                           *)
(***************************************************************************)
EXTENDS RKEDriver, FiniteSetTheorems, TLAPS

\* the labels after restore, and those of ClusterUp
Working   == {"data", "init", "deploy", "reconcile", "finish", "prepare", "clean"}
Deploying == {"deploy", "reconcile", "finish"}

\* which call is at which label, with what it was given
CallInv ==
  /\ pc # "idle" /\ op.name \notin Configured => op.config = Meta.config
  /\ pc \notin {"idle", "postCheck"} /\ op.name = "create" => record.status = "Creating"
  /\ pc = "postCheck" => record.status = "Created"
  /\ pc # "idle" /\ op.name # "create" => op.info
  /\ pc \in Working => op.name \in Configured \cup {"setVersion"}
  /\ pc \in {"prepare", "clean"} => op.name = "etcdRestore"
  /\ pc = "postCheck" => op.name \in Configured
  /\ pc = "snapshot" => op.name \in {"etcdSave", "etcdRemoveSnapshot"}
  /\ pc \in {"sweep", "forget"} => op.name = "remove"
  /\ warned => op.name = "create" /\ pc \in Deploying \cup {"postCheck", "idle"}

\* the state file: its PKI is the recorded one, its hosts are those of the configuration
\* unless ClusterInit failed, and ClusterUp gets past the hosts only when there are any
FileInv ==
  /\ pc \in Working /\ op.info /\ Meta.full.pki # 0 => file.pki = Meta.full.pki
  /\ pc \in Working /\ file.desired # {} => file.pki # 0
  /\ pc \in {"data", "init"} /\ op.name = "create" => file = Restored
  /\ pc = "data" /\ op.name = "setVersion" => file.desired = op.config
  /\ pc \in Deploying /\ ~warned => file.desired = op.config
  /\ pc \in Deploying /\ warned => file.desired \in {Meta.full.desired, {}}
  /\ pc \in {"reconcile", "finish"} => file.desired # {}
  /\ pc \in {"reconcile", "finish"} => \A n \in file.desired \ inactive : hosts[n] = file.pki
  /\ pc \in {"data", "init", "deploy", "reconcile"} /\ op.name = "update"
       => file.current = Meta.full.current
  /\ pc = "finish" /\ op.name = "update"
       => \A n \in Meta.full.current \ (op.config \cup inactive) : hosts[n] = 0
  /\ pc = "forget" => \A n \in Reached : hosts[n] = 0

\* the record: a created cluster has its state and the certificates of its PKI
RecordInv ==
  /\ record.status = "Created" =>
       /\ Meta.full.desired # {}
       /\ Meta.full.pki # 0 /\ Meta.certs = Meta.full.pki
  /\ Meta.full.desired # {} => Meta.full.pki # 0
  /\ Meta.full.desired \subseteq Meta.config \cup strays

\* the hosts that ClusterUp and RestoreEtcdSnapshot may have touched
UpHosts == CASE pc \in Deploying -> file.desired
             [] pc \in {"prepare", "clean"} -> Reached
             [] OTHER -> {}

\* the record, and the state file while ClusterUp runs, lead to every host that is not
\* a stray
LeadInv ==
  \A n \in Touched \ strays :
    /\ n \in Meta.config \cup UpHosts
    /\ Meta.full.desired # {} => n \in Meta.full.desired \cup UpHosts
    /\ record.status = "Created" => hosts[n] = Meta.full.pki

\* what the last call has promised, and what it will once PostCheck succeeds
AnswerInv ==
  /\ Deployed
  /\ RemoveSweeps
  /\ pc = "postCheck" =>
       /\ Meta = Saved
       /\ \A n \in file.desired : hosts[n] = file.pki
       /\ ~warned => file.desired = op.config

\* The inductive invariant.
StepInv   == CallInv /\ FileInv /\ RecordInv /\ LeadInv /\ AnswerInv
DriverInv == TypeOK /\ StepInv

-----------------------------------------------------------------------------
\* One more element is one more at most.
LEMMA AddOne ==
  ASSUME NEW S, NEW x, NEW k \in Nat, IsFiniteSet(S), Cardinality(S) <= k
  PROVE  IsFiniteSet(S \cup {x}) /\ Cardinality(S \cup {x}) <= k + 1
  <1>1. Cardinality(S) \in Nat
    BY FS_CardinalityType
  <1> QED
    BY <1>1, FS_AddElement

\* A PKI that is not in use can always be found when the state file has none.
LEMMA FreshPKIExists ==
  ASSUME TypeOK, file.pki = 0
  PROVE  FreshPKI \in PKI \ {0}
  <1> DEFINE N == Cardinality(Nodes)
             onHosts == {hosts[n] : n \in Nodes}
             taken == (onHosts \cup {Meta.full.pki}) \cup {Meta.certs}
  <1>1. N \in Nat /\ IsFiniteSet(Nodes)
    BY RKEAssumption, FS_CardinalityType
  <1>2. IsFiniteSet(onHosts) /\ Cardinality(onHosts) <= N
    <2>1. hosts \in Surjection(Nodes, onHosts)
      BY DEF TypeOK, Surjection
    <2> HIDE DEF onHosts
    <2> QED
      BY <1>1, <2>1, FS_Surjection
  <1> HIDE DEF N, onHosts
  <1>3. /\ IsFiniteSet(onHosts \cup {Meta.full.pki})
        /\ Cardinality(onHosts \cup {Meta.full.pki}) <= N + 1
    BY <1>1, <1>2, AddOne
  <1>4. IsFiniteSet(taken) /\ Cardinality(taken) <= N + 2
    <2> DEFINE some == onHosts \cup {Meta.full.pki}
    <2>1. IsFiniteSet(some) /\ Cardinality(some) <= N + 1 /\ N + 1 \in Nat
      BY <1>1, <1>3
    <2> HIDE DEF some
    <2>2. IsFiniteSet(some \cup {Meta.certs}) /\ Cardinality(some \cup {Meta.certs}) <= (N + 1) + 1
      BY <2>1, AddOne
    <2>3. (N + 1) + 1 = N + 2
      BY <1>1
    <2> QED
      BY <2>2, <2>3 DEF some
  <1>5. PKI \ {0} = 1..(N + 3)
    BY <1>1 DEF PKI, N
  <1>6. Cardinality(1..(N + 3)) = N + 3
    BY <1>1, FS_Interval
  <1>7. ~ (PKI \ {0} \subseteq taken)
    <2> SUFFICES ASSUME 1..(N + 3) \subseteq taken PROVE FALSE
      BY <1>5
    <2>1. Cardinality(1..(N + 3)) <= Cardinality(taken)
      BY <1>4, FS_Subset
    <2> QED
      BY <1>1, <1>4, <1>6, <2>1, FS_CardinalityType
  <1>8. \E p \in PKI \ {0} :
          p \notin {hosts[n] : n \in Nodes} \cup {Meta.full.pki, Meta.certs, file.pki}
    BY <1>7 DEF onHosts
  <1> QED
    BY <1>8 DEF FreshPKI
-----------------------------------------------------------------------------
\* Every state is well typed.
LEMMA TypeInit == Init => TypeOK
  <1> SUFFICES ASSUME Init PROVE TypeOK
    OBVIOUS
  <1>1. 0 \in PKI
    BY RKEAssumption, FS_CardinalityType DEF PKI
  <1>2. NoState \in FullState
    BY <1>1 DEF NoState, FullState
  <1>3. NoMetadata \in Metadata
    BY <1>1, <1>2 DEF NoMetadata, Metadata
  <1>4. record \in [status : Status, meta : Metadata]
    BY <1>3 DEF Init, Status
  <1>5. op \in [name : Operations, config : SUBSET Nodes, info : BOOLEAN]
    BY DEF Init, Operations
  <1>6. tries \in 0..(MaxTries - 1)
    BY DEF Init, MaxTries
  <1> QED
    BY <1>1, <1>2, <1>4, <1>5, <1>6 DEF Init, TypeOK, PC

LEMMA TypeStep == TypeOK /\ [Next]_vars => TypeOK'
  <1> SUFFICES ASSUME TypeOK, [Next]_vars PROVE TypeOK'
    OBVIOUS
  <1> USE DEF TypeOK, Goto, Return, Failing, FailNil, FailUp, UpFails, Lose, Touched, Up, call,
              PC, Meta
  <1>1. 0 \in PKI
    BY RKEAssumption, FS_CardinalityType DEF PKI
  <1>2. NoState \in FullState
    BY <1>1 DEF NoState, FullState
  <1>3. NoMetadata \in Metadata
    BY <1>1, <1>2 DEF NoMetadata, Metadata
  <1>4. /\ record.status \in Status /\ Meta \in Metadata
        /\ Meta.config \subseteq Nodes /\ Meta.full \in FullState /\ Meta.certs \in PKI
        /\ file.pki \in PKI /\ file.desired \subseteq Nodes /\ file.current \subseteq Nodes
        /\ op.name \in Operations /\ op.config \subseteq Nodes /\ op.info \in BOOLEAN
    BY DEF Metadata, FullState
  <1>5. FailedMetadata \in Metadata /\ Saved \in Metadata
    BY <1>1, <1>4 DEF FailedMetadata, Saved, Metadata
  <1>6. \A s \in Status, m \in Metadata :
          [status |-> s, meta |-> m] \in [status : Status, meta : Metadata]
    OBVIOUS
  <1>7. \A s \in Status : [record EXCEPT !.status = s] \in [status : Status, meta : Metadata]
    OBVIOUS
  <1>8. ASSUME FailNil PROVE record' \in [status : Status, meta : Metadata] /\ strays' \subseteq Nodes
    BY <1>7, <1>8, <1>4 DEF Status
  <1>9. ASSUME FailUp PROVE record' \in [status : Status, meta : Metadata] /\ strays' \subseteq Nodes
    BY <1>8, <1>9, <1>4, <1>5, <1>6 DEF Status
  <1>t. \A l : Goto(l) => inactive' \subseteq Nodes
    BY DEF TunnelHosts
  <1>10. ASSUME NEW o \in Ops, NEW c \in SUBSET Nodes, Begin(o, c) PROVE TypeOK'
    <2>1. record' \in [status : Status, meta : Metadata]
      BY <1>10, <1>7, <1>4 DEF Begin, Status
    <2>2. op' \in [name : Operations, config : SUBSET Nodes, info : BOOLEAN]
      BY <1>10, RKEAssumption DEF Begin
    <2>3. tries' \in 0..(MaxTries - 1)
      BY <1>10 DEF Begin, MaxTries
    <2> QED
      BY <1>10, <1>2, <2>1, <2>2, <2>3 DEF Begin
  <1>11. CASE Parse
    BY <1>11, <1>t, <1>8 DEF Parse
  <1>12. CASE Restore
    BY <1>12, <1>t, <1>8, <1>2, <1>4 DEF Restore, Restored, AfterRestore
  <1>13. CASE GetData
    BY <1>13, <1>t, <1>8 DEF GetData
  <1>14. CASE ClusterInit
    <2>1. file' \in FullState
      BY <1>14, <1>4, FreshPKIExists DEF ClusterInit, FullState
    <2> QED
      BY <1>14, <1>t, <1>8, <2>1 DEF ClusterInit
  <1>15. CASE Deploy
    BY <1>15, <1>t, <1>9, <1>4 DEF Deploy
  <1>16. CASE Reconcile
    <2>1. file' \in FullState /\ hosts' \in [Nodes -> PKI]
      BY <1>16, <1>1, <1>4 DEF Reconcile, FullState
    <2> QED
      BY <1>16, <1>t, <1>9, <2>1 DEF Reconcile
  <1>17. CASE Finish
    <2>1. record' \in [status : Status, meta : Metadata] /\ strays' \subseteq Nodes
      BY <1>17, <1>4, <1>5, <1>6, <1>9 DEF Finish, Dropped, Status
    <2> QED
      BY <1>17, <2>1 DEF Finish
  <1>18. CASE PostCheck
    BY <1>18, <1>8 DEF PostCheck, TriesLeft, MaxTries
  <1>19. CASE Snapshot
    BY <1>19, <1>8 DEF Snapshot
  <1>20. CASE PrepareBackup
    <2>1. file' \in FullState
      BY <1>20, <1>4 DEF PrepareBackup, FullState
    <2> QED
      BY <1>20, <1>8, <1>t, <1>4, <2>1 DEF PrepareBackup, Reached
  <1>21. CASE CleanupNodes
    BY <1>21, <1>8, <1>1, <1>4 DEF CleanupNodes, Clean, Reached
  <1>22. CASE ClusterRemove
    BY <1>22, <1>8, <1>1, <1>4 DEF ClusterRemove, Clean, Reached
  <1>23. CASE RemoveDone
    BY <1>23, <1>3, <1>6 DEF RemoveDone, Status
  <1>24. CASE Crash
    BY <1>24 DEF Crash
  <1>25. CASE UNCHANGED vars
    BY <1>25 DEF vars
  <1> QED
    BY <1>10, <1>11, <1>12, <1>13, <1>14, <1>15, <1>16, <1>17, <1>18, <1>19, <1>20, <1>21,
       <1>22, <1>23, <1>24, <1>25 DEF Next, DriverStep
-----------------------------------------------------------------------------
\* the call ends with an error and leaves the metadata as it is
Lost ==
  /\ pc' = "idle" /\ result' = "error"
  /\ Meta' = Meta /\ record'.status \in {record.status, "Error"}
  /\ strays' = strays \cup (Touched \ Named(Meta))
  /\ UNCHANGED <<hosts, file, op, warned>>

\* Every failure but that of ClusterUp in Create, and the end of the engine, is of this kind.
LEMMA FailureIsLost ==
  ASSUME TypeOK, \/ FailNil /\ UNCHANGED <<hosts, file, op, warned>>
                 \/ Crash
  PROVE  Lost
  <1>1. record = [status |-> record.status, meta |-> record.meta]
    BY DEF TypeOK
  <1>2. CASE FailNil /\ UNCHANGED <<hosts, file, op, warned>>
    <2>1. record' = [status |-> IF op.name = "create" THEN "Error" ELSE record.status,
                     meta |-> Meta]
      BY <1>1, <1>2 DEF FailNil, Meta
    <2>2. Meta' = Meta /\ record'.status \in {record.status, "Error"}
      BY <2>1 DEF Meta
    <2> QED
      BY <1>2, <2>2 DEF FailNil, Lost, Lose, Return, Meta
  <1>3. CASE Crash
    BY <1>3 DEF Crash, Lost, Lose, Return, Meta, call
  <1> QED
    BY <1>2, <1>3

LEMMA LostKept ==
  ASSUME DriverInv, Lost
  PROVE  StepInv'
  <1> USE DEF DriverInv, StepInv, Lost
  <1>1. CallInv'
    BY DEF CallInv, Working
  <1>2. FileInv'
    BY DEF FileInv, Working, Deploying
  <1>3. RecordInv'
    BY DEF RecordInv
  <1>4. LeadInv'
    BY DEF LeadInv, UpHosts, Touched, Named, Deploying
  <1>5. AnswerInv'
    BY DEF AnswerInv, Deployed, RemoveSweeps, Returned
  <1> QED
    BY <1>1, <1>2, <1>3, <1>4, <1>5

\* An error of ClusterUp in Create: the record takes over the configuration and the
\* state file of this attempt.
LEMMA UpFailsKept ==
  ASSUME DriverInv, pc \in Deploying, UpFails, Up
  PROVE  StepInv'
  <1>1. CASE op.name # "create"
    BY <1>1, FailureIsLost, LostKept DEF UpFails, FailUp, Up, DriverInv
  <1>2. CASE op.name = "create"
    <2>1. /\ pc' = "idle" /\ result' = "error" /\ record'.status = "Error"
          /\ Meta'.config = op.config /\ Meta'.full = file
          /\ strays' = strays \cup (Meta.config \ op.config)
          /\ UNCHANGED <<hosts, file, op, warned>>
      BY <1>2 DEF UpFails, FailUp, FailedMetadata, Return, Up, Meta
    <2>2. CallInv /\ FileInv /\ RecordInv /\ LeadInv /\ warned \in BOOLEAN
      BY DEF DriverInv, StepInv, TypeOK
    <2>3. /\ file.desired # {} => file.pki # 0
          /\ \/ file.desired = op.config
             \/ file.desired \in {Meta.full.desired, {}}
      BY <2>2 DEF FileInv, Deploying, Working
    <2>4. Meta.full.desired \subseteq Meta.config \cup strays
      BY <2>2 DEF RecordInv
    <2>5. CallInv'
      BY <2>1, <2>2 DEF CallInv, Working
    <2>6. FileInv'
      BY <2>1 DEF FileInv, Working, Deploying
    <2>7. RecordInv'
      BY <2>1, <2>3, <2>4 DEF RecordInv
    <2>8. LeadInv'
      <3> SUFFICES ASSUME NEW n \in Touched, n \notin strays'
                   PROVE  n \in op.config /\ (file.desired # {} => n \in file.desired)
        BY <2>1 DEF LeadInv, Touched
      <3>1. /\ n \in Meta.config \cup file.desired
            /\ Meta.full.desired # {} => n \in Meta.full.desired \cup file.desired
        BY <2>1, <2>2 DEF LeadInv, UpHosts, Deploying
      <3> QED
        BY <2>1, <2>3, <2>4, <3>1
    <2>9. AnswerInv'
      BY <2>1 DEF AnswerInv, Deployed, RemoveSweeps, Returned
    <2> QED
      BY <2>5, <2>6, <2>7, <2>8, <2>9 DEF StepInv
  <1> QED
    BY <1>1, <1>2
-----------------------------------------------------------------------------
\* A step that leaves the record alone, at most cleans hosts and does not end the call.
LEMMA QuietKept ==
  ASSUME DriverInv, pc' \notin {"idle", "postCheck"},
         UNCHANGED <<record, strays>>, UpHosts \subseteq UpHosts',
         \A m \in Nodes : hosts'[m] \in {hosts[m], 0}
  PROVE  RecordInv' /\ LeadInv' /\ AnswerInv'
  <1>1. RecordInv'
    BY DEF DriverInv, StepInv, RecordInv, Meta
  <1>2. LeadInv'
    <2>1. LeadInv /\ Meta' = Meta
      BY DEF DriverInv, StepInv, Meta
    <2>2. \A n \in Touched' : n \in Touched /\ hosts'[n] = hosts[n]
      BY DEF Touched
    <2> QED
      BY <2>1, <2>2 DEF LeadInv
  <1>3. AnswerInv'
    BY DEF AnswerInv, Deployed, RemoveSweeps, Returned
  <1> QED
    BY <1>1, <1>2, <1>3

\* A call begins.
LEMMA BeginKept ==
  ASSUME DriverInv, NEW o \in Ops, NEW c \in SUBSET Nodes, Begin(o, c)
  PROVE  StepInv'
  <1>1. /\ pc = "idle" /\ pc' = "parse" /\ ~warned'
        /\ Meta' = Meta /\ UNCHANGED <<hosts, strays>>
        /\ o = "create" => record'.status = "Creating"
        /\ record'.status = "Created" => record.status = "Created"
        /\ o \notin Configured => c = Meta.config
        /\ op' = [name |-> o, config |-> c, info |-> o # "create" \/ record.status = "Error"]
    BY DEF Begin, Meta, DriverInv, TypeOK
  <1>2. op'.name = o /\ op'.config = c /\ (o # "create" => op'.info)
    BY <1>1
  <1>3. CallInv'
    BY <1>1, <1>2 DEF CallInv, Working
  <1>4. FileInv'
    BY <1>1 DEF FileInv, Working, Deploying
  <1>5. RecordInv'
    BY <1>1 DEF DriverInv, StepInv, RecordInv
  <1>6. LeadInv'
    BY <1>1 DEF DriverInv, StepInv, LeadInv, Touched, UpHosts, Deploying
  <1>7. AnswerInv'
    BY <1>1 DEF AnswerInv, Deployed, RemoveSweeps, Returned
  <1> QED
    BY <1>3, <1>4, <1>5, <1>6, <1>7 DEF StepInv

\* getYAML and the configuration.
LEMMA ParseKept ==
  ASSUME DriverInv, Parse
  PROVE  StepInv'
  <1>1. CASE Failing
    BY <1>1, FailureIsLost, LostKept DEF Failing, DriverInv, call
  <1>2. CASE Goto("restore") /\ UNCHANGED <<hosts, snapshot, call>>
    <2>1. pc = "parse" /\ pc' = "restore" /\ UNCHANGED <<hosts, record, strays, file, op, warned>>
      BY <1>2 DEF Goto, call, Parse
    <2>2. RecordInv' /\ LeadInv' /\ AnswerInv'
      BY <2>1, QuietKept DEF UpHosts, Deploying
    <2>3. CallInv'
      BY <2>1 DEF DriverInv, StepInv, CallInv, Working, Deploying, Meta
    <2>4. FileInv'
      BY <2>1 DEF FileInv, Working, Deploying
    <2> QED
      BY <2>2, <2>3, <2>4 DEF StepInv
  <1> QED
    BY <1>1, <1>2 DEF Parse

\* The directory gets the state file of the record.
LEMMA RestoreKept ==
  ASSUME DriverInv, Restore
  PROVE  StepInv'
  <1>1. CASE Failing
    BY <1>1, FailureIsLost, LostKept DEF Failing, DriverInv, call
  <1>2. CASE /\ file' = Restored
             /\ Goto(AfterRestore)
             /\ UNCHANGED <<hosts, snapshot, op, warned, tries>>
    <2>1. /\ pc = "restore" /\ pc' = AfterRestore /\ file' = Restored
          /\ UNCHANGED <<hosts, record, strays, op, warned>> /\ Meta' = Meta /\ Restored' = Restored
      BY <1>2 DEF Goto, Restore, Restored, Meta
    <2>2. pc' \in {"data", "init", "sweep", "snapshot"}
      BY <2>1 DEF AfterRestore
    <2>3. RecordInv' /\ LeadInv' /\ AnswerInv'
      BY <2>1, <2>2, QuietKept DEF UpHosts, Deploying
    <2>4. op.name \in Operations /\ CallInv /\ RecordInv
      BY DEF DriverInv, StepInv, TypeOK
    <2>5. /\ pc' \in {"data", "init"} => op.name \in Configured \cup {"setVersion"}
          /\ pc' = "sweep" => op.name = "remove"
          /\ pc' = "snapshot" => op.name \in {"etcdSave", "etcdRemoveSnapshot"}
      BY <2>1, <2>4 DEF AfterRestore, Operations, Configured
    <2>6. CallInv'
      BY <2>1, <2>2, <2>4, <2>5 DEF CallInv, Working, Deploying
    <2>7. op.name = "update" => op.info
      BY <2>1, <2>4 DEF CallInv
    <2>8. Restored.desired # {} => Restored.pki # 0
      BY <2>4 DEF RecordInv, Restored, NoState
    <2>9. pc' = "data" => op.name # "setVersion"
      BY <2>1 DEF AfterRestore, Configured
    <2>10. FileInv'
      BY <2>1, <2>2, <2>5, <2>7, <2>8, <2>9 DEF FileInv, Working, Deploying, Restored
    <2> QED
      BY <2>3, <2>6, <2>10 DEF StepInv
  <1>3. CASE op.name = "remove" /\ Goto("sweep") /\ UNCHANGED <<hosts, snapshot, call>>
    <2>1. /\ pc = "restore" /\ pc' = "sweep" /\ op.name = "remove" /\ Meta' = Meta
          /\ UNCHANGED <<hosts, record, strays, file, op, warned>>
      BY <1>3 DEF Goto, call, Restore, Meta
    <2>2. RecordInv' /\ LeadInv' /\ AnswerInv'
      BY <2>1, QuietKept DEF UpHosts, Deploying
    <2>3. CallInv'
      BY <2>1 DEF DriverInv, StepInv, CallInv, Working, Deploying
    <2>4. FileInv'
      BY <2>1 DEF FileInv, Working, Deploying
    <2> QED
      BY <2>2, <2>3, <2>4 DEF StepInv
  <1> QED
    BY <1>1, <1>2, <1>3 DEF Restore

\* getData
LEMMA GetDataKept ==
  ASSUME DriverInv, GetData
  PROVE  StepInv'
  <1>1. CASE Failing
    BY <1>1, FailureIsLost, LostKept DEF Failing, DriverInv, call
  <1>2. CASE ~Failing
    <2>1. /\ pc = "data" /\ Meta' = Meta /\ Restored' = Restored
          /\ pc' = CASE op.name = "setVersion" -> "deploy"
                     [] op.name = "etcdRestore" -> "prepare"
                     [] OTHER -> "init"
          /\ UNCHANGED <<hosts, record, strays, file, op, warned>>
      BY <1>2 DEF Goto, call, GetData, Meta, Restored
    <2>2. /\ pc' \in {"deploy", "prepare", "init"}
          /\ pc' = "deploy" => op.name = "setVersion"
          /\ pc' = "prepare" => op.name = "etcdRestore"
      BY <2>1
    <2>3. RecordInv' /\ LeadInv' /\ AnswerInv'
      BY <2>1, <2>2, QuietKept DEF UpHosts, Deploying
    <2>4. CallInv /\ FileInv /\ warned \in BOOLEAN
      BY DEF DriverInv, StepInv, TypeOK
    <2>5. CallInv'
      BY <2>1, <2>2, <2>4 DEF CallInv, Working, Deploying
    <2>6. FileInv'
      BY <2>1, <2>2, <2>4 DEF FileInv, CallInv, Working, Deploying
    <2> QED
      BY <2>3, <2>5, <2>6 DEF StepInv
  <1> QED
    BY <1>1, <1>2
\* ClusterInit: the state file of the call.
LEMMA ClusterInitKept ==
  ASSUME DriverInv, ClusterInit
  PROVE  StepInv'
  <1>1. /\ CallInv /\ FileInv /\ op.name \in Operations /\ warned \in BOOLEAN
        /\ file = [pki |-> file.pki, desired |-> file.desired, current |-> file.current]
    BY DEF DriverInv, StepInv, TypeOK, FullState
  <1>2. pc = "init" /\ ~warned
    BY <1>1 DEF ClusterInit, CallInv, Deploying
  <1>3. CASE Failing
    BY <1>3, FailureIsLost, LostKept DEF Failing, DriverInv, call
  <1>4. CASE ~Failing
    <2>1. /\ pc' = IF op.name = "setVersion" THEN "data" ELSE "deploy"
          /\ Meta' = Meta /\ UNCHANGED <<hosts, record, strays, op>>
      BY <1>4 DEF ClusterInit, Goto, Meta
    <2>2. \/ /\ ~warned'
             /\ file' = [file EXCEPT !.pki = IF @ = 0 THEN FreshPKI ELSE @, !.desired = op.config]
          \/ warned' /\ op.name = "create" /\ file' = file
      BY <1>2, <1>4 DEF ClusterInit
    <2>3. RecordInv' /\ LeadInv' /\ AnswerInv'
      BY <1>2, <2>1, QuietKept DEF UpHosts, Deploying
    <2>4. CallInv'
      BY <1>1, <1>2, <2>1, <2>2 DEF CallInv, Working, Deploying
    <2>5. CASE ~warned'
      <3>1. /\ file'.desired = op.config /\ file'.current = file.current
            /\ file'.pki = IF file.pki = 0 THEN FreshPKI ELSE file.pki
        BY <1>1, <2>2, <2>5
      <3>2. file'.pki # 0 /\ (file.pki # 0 => file'.pki = file.pki)
        BY <3>1, FreshPKIExists DEF DriverInv
      <3> QED
        BY <1>1, <1>2, <2>1, <2>3, <2>4, <2>5, <3>1, <3>2 DEF StepInv, FileInv, Working, Deploying
    <2>6. CASE warned'
      <3>1. file' = file /\ op.name = "create" /\ pc' = "deploy"
        BY <2>1, <2>2, <2>6
      <3>2. file.desired \in {Meta.full.desired, {}}
        BY <1>1, <1>2, <3>1 DEF FileInv, Restored, NoState
      <3> QED
        BY <1>1, <1>2, <2>1, <2>3, <2>4, <2>6, <3>1, <3>2 DEF StepInv, FileInv, Working, Deploying
    <2> QED
      BY <2>2, <2>5, <2>6
  <1> QED
    BY <1>3, <1>4

-----------------------------------------------------------------------------
\* ClusterUp puts the certificates on a host, gets past the hosts or fails.
LEMMA DeployKept ==
  ASSUME DriverInv, Deploy
  PROVE  StepInv'
  <1>1. pc = "deploy" /\ UNCHANGED <<op, warned>>
    BY DEF Deploy, Up
  <1>2. CallInv /\ FileInv /\ RecordInv /\ LeadInv /\ hosts \in [Nodes -> PKI]
    BY DEF DriverInv, StepInv, TypeOK
  <1>3. CASE UpFails
    BY <1>1, <1>3, UpFailsKept DEF Deploy, Deploying
  <1>4. CASE /\ file.desired \ inactive # {}
             /\ \A n \in file.desired \ inactive : hosts[n] = file.pki
             /\ Goto("reconcile") /\ UNCHANGED <<hosts, file>>
    <2>1. /\ pc' = "reconcile" /\ file.desired # {} /\ Meta' = Meta
          /\ UNCHANGED <<hosts, file, record, strays, inactive>>
      BY <1>4 DEF Goto, Meta
    <2>2. RecordInv' /\ LeadInv' /\ AnswerInv'
      BY <1>1, <2>1, QuietKept DEF UpHosts, Deploying
    <2>3. CallInv'
      BY <1>1, <1>2, <2>1 DEF CallInv, Working, Deploying
    <2>4. FileInv'
      BY <1>1, <1>2, <1>4, <2>1 DEF FileInv, Working, Deploying
    <2> QED
      BY <2>2, <2>3, <2>4 DEF StepInv
  <1>5. ASSUME NEW n \in file.desired, hosts' = [hosts EXCEPT ![n] = file.pki],
               Goto(pc), UNCHANGED file
        PROVE  StepInv'
    <2>1. pc' = "deploy" /\ Meta' = Meta /\ UNCHANGED <<file, record, strays>>
      BY <1>1, <1>5 DEF Goto, Meta
    <2>2. RecordInv'
      BY <1>2, <2>1 DEF RecordInv
    <2>3. record.status = "Created" => file.pki = Meta.full.pki
      BY <1>1, <1>2 DEF CallInv, FileInv, RecordInv, Working
    <2>4. LeadInv'
      <3>1. UpHosts' = file.desired /\ UpHosts = file.desired
        BY <1>1, <2>1 DEF UpHosts, Deploying
      <3>2. \A m \in Touched' : m = n \/ (m \in Touched /\ hosts'[m] = hosts[m])
        BY <1>2, <1>5 DEF Touched
      <3>3. n \in Nodes => hosts'[n] = file.pki
        BY <1>2, <1>5
      <3>4. Touched' \subseteq Nodes
        BY DEF Touched
      <3> QED
        BY <1>2, <1>5, <2>1, <2>3, <3>1, <3>2, <3>3, <3>4 DEF LeadInv
    <2>5. CallInv'
      BY <1>1, <1>2, <2>1 DEF CallInv, Working, Deploying
    <2>6. FileInv'
      BY <1>1, <1>2, <2>1 DEF FileInv, Working, Deploying
    <2>7. AnswerInv'
      BY <2>1 DEF AnswerInv, Deployed, RemoveSweeps, Returned
    <2> QED
      BY <2>2, <2>4, <2>5, <2>6, <2>7 DEF StepInv
  <1> QED
    BY <1>3, <1>4, <1>5 DEF Deploy

\* ClusterUp cleans a host that is not wanted any more, or is through with them.
LEMMA ReconcileKept ==
  ASSUME DriverInv, Reconcile
  PROVE  StepInv'
  <1>1. pc = "reconcile" /\ UNCHANGED <<op, warned>>
    BY DEF Reconcile, Up
  <1>2. /\ CallInv /\ FileInv /\ hosts \in [Nodes -> PKI] /\ warned \in BOOLEAN
        /\ file = [pki |-> file.pki, desired |-> file.desired, current |-> file.current]
        /\ file.current \subseteq Nodes /\ file.desired \subseteq Nodes
    BY DEF DriverInv, StepInv, TypeOK, FullState
  <1>3. CASE UpFails
    BY <1>1, <1>3, UpFailsKept DEF Reconcile, Deploying
  <1>4. ASSUME NEW n \in Nodes \ file.desired, hosts' = [hosts EXCEPT ![n] = 0], Goto(pc),
               UNCHANGED file
        PROVE  StepInv'
    <2>1. /\ pc' = "reconcile" /\ Meta' = Meta /\ UNCHANGED <<file, record, strays, inactive>>
          /\ \A m \in Nodes : hosts'[m] \in {hosts[m], 0}
          /\ \A m \in file.desired : hosts'[m] = hosts[m]
      BY <1>1, <1>2, <1>4 DEF Goto, Meta
    <2>2. RecordInv' /\ LeadInv' /\ AnswerInv'
      BY <1>1, <2>1, QuietKept DEF UpHosts, Deploying
    <2>3. CallInv'
      BY <1>1, <1>2, <2>1 DEF CallInv, Working, Deploying
    <2>4. FileInv'
      BY <1>1, <1>2, <2>1 DEF FileInv, Working, Deploying
    <2> QED
      BY <2>2, <2>3, <2>4 DEF StepInv
  <1>5. CASE /\ {n \in file.current \ (file.desired \cup inactive) : hosts[n] # 0} = {}
             /\ file' = [file EXCEPT !.current = file.desired \ inactive]
             /\ Goto("finish")
             /\ UNCHANGED hosts
    <2>1. /\ pc' = "finish" /\ Meta' = Meta /\ UNCHANGED <<hosts, record, strays, inactive>>
          /\ file'.pki = file.pki /\ file'.desired = file.desired
      BY <1>2, <1>5 DEF Goto, Meta
    <2>2. RecordInv' /\ LeadInv' /\ AnswerInv'
      BY <1>1, <2>1, QuietKept DEF UpHosts, Deploying
    <2>3. CallInv'
      BY <1>1, <1>2, <2>1 DEF CallInv, Working, Deploying
    <2>4. op.name = "update"
            => \A n \in Meta.full.current \ (op.config \cup inactive) : hosts[n] = 0
      BY <1>1, <1>2, <1>5 DEF FileInv, CallInv, Deploying
    <2>5. FileInv'
      BY <1>1, <1>2, <2>1, <2>4 DEF FileInv, Working, Deploying
    <2> QED
      BY <2>2, <2>3, <2>5 DEF StepInv
  <1> QED
    BY <1>2, <1>3, <1>4, <1>5 DEF Reconcile
\* ClusterUp returns: the record takes over the configuration and the state file, and
\* leads to every host that is not a stray.
LEMMA FinishKept ==
  ASSUME DriverInv, Finish
  PROVE  StepInv'
  <1>1. pc = "finish" /\ UNCHANGED <<op, warned>>
    BY DEF Finish, Up
  <1>2. /\ CallInv /\ FileInv /\ RecordInv /\ LeadInv
        /\ op.name \in Operations /\ warned \in BOOLEAN
    BY DEF DriverInv, StepInv, TypeOK
  <1>3. /\ file.desired # {} /\ file.pki # 0
        /\ \A n \in file.desired \ inactive : hosts[n] = file.pki
        /\ op.name \in {"create", "update", "etcdRestore", "setVersion"}
        /\ warned => op.name = "create" /\ file.desired = Meta.full.desired
        /\ ~warned => file.desired = op.config
        /\ record.status = "Created" /\ op.name # "create" => file.pki = Meta.full.pki
    BY <1>1, <1>2 DEF CallInv, FileInv, RecordInv, Working, Deploying, Configured
  <1>4. CASE UpFails
    BY <1>1, <1>4, UpFailsKept DEF Finish, Deploying
  <1>5. CASE Complete /\ op.name = "setVersion" /\ ~UpFails
    <2>1. /\ pc' = "idle" /\ result' = "ok" /\ Meta' = Meta
          /\ UNCHANGED <<hosts, file, record>>
          /\ strays' = strays \cup (Touched \ Named(Meta))
      BY <1>5 DEF Finish, Return, Lose, Meta
    <2>2. CallInv'
      BY <1>1, <1>2, <2>1 DEF CallInv, Working, Deploying
    <2>3. FileInv'
      BY <2>1 DEF FileInv, Working, Deploying
    <2>4. RecordInv'
      BY <1>2, <2>1 DEF RecordInv
    <2>5. LeadInv'
      BY <1>2, <2>1 DEF LeadInv, UpHosts, Touched, Named, Deploying
    <2>6. op.config = Meta.config
      BY <1>1, <1>2, <1>5 DEF CallInv, Configured
    <2>7. record.status = "Created" =>
            Meta.certs = Meta.full.pki /\ \A n \in Meta.config : hosts[n] = Meta.full.pki
      BY <1>2, <1>3, <1>5, <2>6 DEF RecordInv, Complete
    <2>8. AnswerInv'
      BY <1>1, <1>5, <2>1, <2>7 DEF AnswerInv, Deployed, RemoveSweeps, Returned
    <2> QED
      BY <2>2, <2>3, <2>4, <2>5, <2>8 DEF StepInv
  <1>6. CASE Complete /\ op.name # "setVersion" /\ ~UpFails
    <2>1. /\ pc' = "postCheck" /\ record'.status = "Created" /\ Meta' = Saved
          /\ UNCHANGED <<hosts, file>>
          /\ strays' = {n \in strays : hosts[n] # file.pki \/ n \notin Named(Meta')}
                       \cup Dropped
      BY <1>6 DEF Finish, Meta
    <2>2. /\ Meta'.config = op.config /\ Meta'.full = file /\ Meta'.certs = file.pki
          /\ Saved' = Saved
      BY <1>1, <2>1 DEF Saved
    <2>3. Named(Meta') = op.config \cap file.desired
      BY <2>2 DEF Named
    <2>4. \A n \in file.desired : hosts[n] = file.pki
      BY <1>3, <1>6 DEF Complete
    <2>5. CallInv'
      BY <1>1, <1>2, <1>3, <1>6, <2>1 DEF CallInv, Working, Deploying, Configured
    <2>6. FileInv'
      BY <2>1 DEF FileInv, Working, Deploying
    <2>7. file.desired \subseteq op.config \cup strays'
      <3>1. CASE ~warned
        BY <1>3, <3>1
      <3>2. CASE warned
        <4>1. file.desired \subseteq Meta.config \cup strays
          BY <1>2, <1>3, <3>2 DEF RecordInv
        <4> QED
          BY <1>3, <2>1, <2>3, <3>2, <4>1 DEF Dropped
      <3> QED
        BY <1>2, <3>1, <3>2
    <2>8. RecordInv'
      BY <1>3, <2>2, <2>7 DEF RecordInv
    <2>9. LeadInv'
      <3> SUFFICES ASSUME NEW n \in Touched, n \notin strays'
                   PROVE  n \in op.config /\ n \in file.desired /\ hosts[n] = file.pki
        BY <2>1, <2>2 DEF LeadInv, Touched
      <3>1. CASE n \in strays
        BY <2>1, <2>3, <3>1
      <3>2. CASE n \notin strays
        <4>1. /\ n \in Meta.config \cup file.desired /\ hosts[n] # 0
              /\ Meta.full.desired # {} => n \in Meta.full.desired \cup file.desired
          BY <1>1, <1>2, <3>2 DEF LeadInv, UpHosts, Deploying, Touched
        <4>2. CASE op.name = "create" /\ warned
          <5>1. Meta.full.desired \subseteq Meta.config \cup strays
            BY <1>2 DEF RecordInv
          <5> QED
            BY <1>3, <2>1, <2>4, <3>2, <4>1, <4>2, <5>1 DEF Dropped
        <4>3. CASE op.name = "create" /\ ~warned
          BY <1>3, <2>1, <2>4, <4>1, <4>3 DEF Dropped
        <4>4. CASE op.name = "etcdRestore"
          BY <1>3, <2>1, <2>4, <4>1, <4>4 DEF Dropped
        <4>5. CASE op.name = "update"
          <5>1. \A m \in Meta.full.current \ (op.config \cup inactive) : hosts[m] = 0
            BY <1>1, <1>2, <4>5 DEF FileInv
          <5> QED
            BY <1>3, <2>1, <2>4, <4>1, <4>5, <5>1 DEF Dropped
        <4> QED
          BY <1>2, <1>3, <1>6, <4>2, <4>3, <4>4, <4>5
      <3> QED
        BY <3>1, <3>2
    <2>10. AnswerInv'
      BY <1>1, <1>3, <2>1, <2>2, <2>4 DEF AnswerInv, Deployed, RemoveSweeps, Returned
    <2> QED
      BY <2>5, <2>6, <2>8, <2>9, <2>10 DEF StepInv
  <1> QED
    BY <1>4, <1>5, <1>6 DEF Finish

\* PostCheck succeeds, tries again or gives up.
LEMMA PostCheckKept ==
  ASSUME DriverInv, PostCheck
  PROVE  StepInv'
  <1>1. pc = "postCheck" /\ UNCHANGED <<hosts, file, op, warned>>
    BY DEF PostCheck
  <1>2. /\ CallInv /\ FileInv /\ RecordInv /\ LeadInv /\ AnswerInv
        /\ op.name \in Operations /\ warned \in BOOLEAN
    BY DEF DriverInv, StepInv, TypeOK
  <1>3. CASE FailNil
    BY <1>1, <1>3, FailureIsLost, LostKept DEF DriverInv
  <1>4. CASE ~FailNil
    <2>1. \/ pc' = "idle" /\ result' = "ok"
          \/ pc' = "postCheck"
      BY <1>1, <1>4 DEF PostCheck, Return, Goto
    <2>2. UNCHANGED <<record, strays>> /\ Meta' = Meta
      BY <1>4 DEF PostCheck, Goto, Meta
    <2>3. CallInv'
      BY <1>1, <1>2, <2>1, <2>2 DEF CallInv, Working, Deploying
    <2>4. FileInv'
      BY <2>1 DEF FileInv, Working, Deploying
    <2>5. RecordInv'
      BY <1>2, <2>2 DEF RecordInv
    <2>6. LeadInv'
      BY <1>1, <1>2, <2>1, <2>2 DEF LeadInv, UpHosts, Touched, Deploying
    <2>7. AnswerInv'
      <3>1. /\ Meta = Saved /\ op.name \in Configured
            /\ \A n \in file.desired : hosts[n] = file.pki
            /\ ~warned => file.desired = op.config
        BY <1>1, <1>2 DEF AnswerInv, CallInv
      <3>2. Saved.config = op.config /\ Saved.full = file /\ Saved.certs = file.pki /\ Saved' = Saved
        BY <1>1 DEF Saved
      <3>3. Deployed'
        BY <1>1, <2>2, <3>1, <3>2 DEF Deployed, Returned
      <3>4. RemoveSweeps'
        BY <1>1, <3>1 DEF RemoveSweeps, Returned, Configured
      <3> QED
        BY <1>1, <2>2, <3>1, <3>2, <3>3, <3>4 DEF AnswerInv
    <2> QED
      BY <2>3, <2>4, <2>5, <2>6, <2>7 DEF StepInv
  <1> QED
    BY <1>3, <1>4

-----------------------------------------------------------------------------
\* ETCDSave and ETCDRemoveSnapshot
LEMMA SnapshotKept ==
  ASSUME DriverInv, Snapshot
  PROVE  StepInv'
  <1>1. CASE Failing
    BY <1>1, FailureIsLost, LostKept DEF Failing, DriverInv, call
  <1>2. CASE ~Failing
    <2>1. /\ pc = "snapshot" /\ pc' = "idle" /\ Meta' = Meta
          /\ UNCHANGED <<hosts, record, strays, file, op, warned>>
      BY <1>2 DEF Snapshot, Return, call, Meta
    <2>2. CallInv /\ RecordInv /\ LeadInv
      BY DEF DriverInv, StepInv
    <2>3. CallInv'
      BY <2>1, <2>2 DEF CallInv, Working, Deploying
    <2>4. FileInv'
      BY <2>1 DEF FileInv, Working, Deploying
    <2>5. RecordInv'
      BY <2>1, <2>2 DEF RecordInv
    <2>6. LeadInv'
      BY <2>1, <2>2 DEF LeadInv, UpHosts, Touched, Deploying
    <2>7. AnswerInv'
      BY <2>1, <2>2 DEF AnswerInv, CallInv, Deployed, RemoveSweeps, Returned, Configured
    <2> QED
      BY <2>3, <2>4, <2>5, <2>6, <2>7 DEF StepInv
  <1> QED
    BY <1>1, <1>2

\* RestoreEtcdSnapshot puts the certificates on a host, or the state file forgets what
\* was deployed.
LEMMA PrepareBackupKept ==
  ASSUME DriverInv, PrepareBackup
  PROVE  StepInv'
  <1>1. CallInv /\ FileInv /\ RecordInv /\ LeadInv /\ hosts \in [Nodes -> PKI]
    BY DEF DriverInv, StepInv, TypeOK
  <1>2. CASE Failing
    BY <1>2, FailureIsLost, LostKept DEF Failing, DriverInv, call
  <1>3. CASE /\ file' = [file EXCEPT !.current = {}]
             /\ Goto("clean")
             /\ UNCHANGED <<hosts, snapshot, op, warned, tries>>
    <2>1. file = [pki |-> file.pki, desired |-> file.desired, current |-> file.current]
      BY DEF DriverInv, TypeOK, FullState
    <2>2. /\ pc = "prepare" /\ pc' = "clean" /\ Meta' = Meta
          /\ UNCHANGED <<hosts, record, strays, op, warned, inactive>>
          /\ file'.pki = file.pki /\ file'.desired = file.desired
      BY <1>3, <2>1 DEF PrepareBackup, Goto, Meta
    <2>3. RecordInv' /\ LeadInv' /\ AnswerInv'
      BY <2>2, QuietKept DEF UpHosts, Deploying, Reached
    <2>4. CallInv'
      BY <1>1, <2>2 DEF CallInv, Working, Deploying
    <2>5. FileInv'
      BY <1>1, <2>2 DEF FileInv, CallInv, Working, Deploying
    <2> QED
      BY <2>3, <2>4, <2>5 DEF StepInv
  <1>4. ASSUME NEW n \in Reached, hosts' = [hosts EXCEPT ![n] = file.pki],
               file.pki # 0, Goto(pc), UNCHANGED call
        PROVE  StepInv'
    <2>1. /\ pc = "prepare" /\ pc' = "prepare" /\ Meta' = Meta
          /\ UNCHANGED <<file, op, warned, record, strays, inactive>>
      BY <1>4 DEF PrepareBackup, Goto, call, Meta
    <2>2. RecordInv'
      BY <1>1, <2>1 DEF RecordInv
    <2>3. record.status = "Created" => file.pki = Meta.full.pki
      BY <1>1, <2>1 DEF CallInv, FileInv, RecordInv, Working
    <2>4. LeadInv'
      <3>1. UpHosts' = Reached /\ UpHosts = Reached
        BY <2>1 DEF UpHosts, Deploying, Reached
      <3>2. \A m \in Touched' : m = n \/ (m \in Touched /\ hosts'[m] = hosts[m])
        BY <1>1, <1>4 DEF Touched
      <3>3. n \in Nodes => hosts'[n] = file.pki
        BY <1>1, <1>4
      <3>4. Touched' \subseteq Nodes
        BY DEF Touched
      <3> QED
        BY <1>1, <1>4, <2>1, <2>3, <3>1, <3>2, <3>3, <3>4 DEF LeadInv
    <2>5. CallInv'
      BY <1>1, <2>1 DEF CallInv, Working, Deploying
    <2>6. FileInv'
      BY <1>1, <2>1 DEF FileInv, CallInv, Working, Deploying
    <2>7. AnswerInv'
      BY <2>1 DEF AnswerInv, Deployed, RemoveSweeps, Returned
    <2> QED
      BY <2>2, <2>4, <2>5, <2>6, <2>7 DEF StepInv
  <1> QED
    BY <1>2, <1>3, <1>4 DEF PrepareBackup

\* A host of the configuration is cleaned, or all that are reached are, on the way to the
\* next label.
LEMMA CleanKept ==
  ASSUME DriverInv, NEW then,
         \/ pc = "clean" /\ then = "init"
         \/ pc = "sweep" /\ then = "forget",
         Clean(then)
  PROVE  StepInv'
  <1>1. CallInv /\ FileInv /\ LeadInv /\ hosts \in [Nodes -> PKI] /\ op.config \subseteq Nodes
    BY DEF DriverInv, StepInv, TypeOK
  <1>2. CASE Failing
    BY <1>2, FailureIsLost, LostKept DEF Failing, DriverInv, call
  <1>3. CASE ~Failing
    <2>1. /\ UNCHANGED <<record, strays, file, op, warned, inactive>> /\ Meta' = Meta
          /\ pc' \in {pc, then} /\ (pc' = then => \A n \in Reached : hosts'[n] = 0)
          /\ \A m \in Nodes : hosts'[m] \in {hosts[m], 0}
      BY <1>1, <1>3 DEF Clean, Goto, call, Meta, Reached
    <2>2. Reached' = Reached
      BY <2>1 DEF Reached
    <2>3. \A n \in Touched' : n \in Touched /\ hosts'[n] = hosts[n]
      BY <2>1 DEF Touched
    <2>4. LeadInv'
      <3>1. \A n \in Touched' : n \in UpHosts => n \in UpHosts'
        BY <2>1, <2>2 DEF UpHosts, Touched, Deploying
      <3> QED
        BY <1>1, <2>1, <2>3, <3>1 DEF LeadInv
    <2>5. RecordInv'
      BY <2>1 DEF DriverInv, StepInv, RecordInv
    <2>6. AnswerInv'
      BY <2>1 DEF AnswerInv, Deployed, RemoveSweeps, Returned
    <2>7. CallInv'
      BY <1>1, <2>1 DEF CallInv, Working, Deploying
    <2>8. FileInv'
      BY <1>1, <2>1, <2>2 DEF FileInv, CallInv, Working, Deploying
    <2> QED
      BY <2>4, <2>5, <2>6, <2>7, <2>8 DEF StepInv
  <1> QED
    BY <1>2, <1>3

\* The engine forgets a cluster whose hosts are clean.
LEMMA RemoveDoneKept ==
  ASSUME DriverInv, RemoveDone
  PROVE  StepInv'
  <1>1. /\ pc = "forget" /\ pc' = "idle" /\ record'.status = "none"
        /\ Meta' = NoMetadata /\ strays' = (strays \cup inactive) \cap Touched
        /\ UNCHANGED <<hosts, file, op, warned>>
    BY DEF RemoveDone, Return, call, Meta
  <1>2. CallInv /\ FileInv /\ LeadInv
    BY DEF DriverInv, StepInv
  <1>3. /\ op.name = "remove" /\ op.config = Meta.config
        /\ \A n \in op.config \ inactive : hosts[n] = 0
    BY <1>1, <1>2 DEF CallInv, FileInv, Configured, Reached
  <1>4. Touched \subseteq strays \cup inactive
    BY <1>1, <1>2, <1>3 DEF LeadInv, UpHosts, Touched, Deploying
  <1>5. Touched' = Touched
    BY <1>1 DEF Touched
  <1>6. CallInv'
    BY <1>1, <1>2, <1>3 DEF CallInv, Working, Deploying
  <1>7. FileInv'
    BY <1>1 DEF FileInv, Working, Deploying
  <1>8. RecordInv'
    BY <1>1 DEF RecordInv, NoMetadata, NoState
  <1>9. LeadInv'
    BY <1>1, <1>4, <1>5 DEF LeadInv
  <1>10. AnswerInv'
    BY <1>1, <1>3, <1>4, <1>5 DEF AnswerInv, Deployed, RemoveSweeps, Returned
  <1> QED
    BY <1>6, <1>7, <1>8, <1>9, <1>10 DEF StepInv

-----------------------------------------------------------------------------
\* The inductive invariant holds at the start and every step keeps it.
LEMMA DriverInvStep == DriverInv /\ [Next]_vars => DriverInv'
  <1> SUFFICES ASSUME DriverInv, [Next]_vars PROVE DriverInv'
    OBVIOUS
  <1>1. TypeOK'
    BY TypeStep DEF DriverInv
  <1>2. StepInv'
    <2>1. CASE ClusterRemove
      BY <2>1, CleanKept DEF ClusterRemove
    <2>2. CASE CleanupNodes
      BY <2>2, CleanKept DEF CleanupNodes
    <2>3. CASE Crash
      BY <2>3, FailureIsLost, LostKept DEF DriverInv
    <2>4. CASE UNCHANGED vars
      BY <2>4 DEF vars, DriverInv, StepInv, CallInv, FileInv, RecordInv, LeadInv, AnswerInv,
                  Meta, Touched, UpHosts, Reached, Deployed, RemoveSweeps, Returned, Saved, Restored
    <2> QED
      BY <2>1, <2>2, <2>3, <2>4, BeginKept, ParseKept, RestoreKept, GetDataKept, ClusterInitKept,
         DeployKept, ReconcileKept, FinishKept, PostCheckKept, SnapshotKept, PrepareBackupKept,
         RemoveDoneKept DEF Next, DriverStep
  <1> QED
    BY <1>1, <1>2 DEF DriverInv

LEMMA DriverInvHolds == Spec => []DriverInv
  <1>1. Init => DriverInv
    <2> SUFFICES ASSUME Init PROVE StepInv
      BY TypeInit DEF DriverInv
    <2> USE DEF Init
    <2>1. CallInv /\ FileInv
      BY DEF CallInv, FileInv, Working, Deploying
    <2>2. RecordInv
      BY DEF RecordInv, Meta, NoMetadata, NoState
    <2>3. LeadInv
      BY DEF LeadInv, Touched
    <2>4. AnswerInv
      BY DEF AnswerInv, Deployed, RemoveSweeps, Returned
    <2> QED
      BY <2>1, <2>2, <2>3, <2>4 DEF StepInv
  <1> QED
    BY <1>1, DriverInvStep, PTL DEF Spec

\* A Create, Update, SetVersion or ETCDRestore that succeeds has every node of the configuration
\* running with the recorded PKI, and the recorded credentials belong to it.
THEOREM AnswersAreDeployed == Spec => []Deployed
  <1>1. DriverInv => Deployed
    BY DEF DriverInv, StepInv, AnswerInv
  <1> QED
    BY <1>1, DriverInvHolds, PTL

\* The record of a created cluster names every host that has its components and has
\* the PKI that runs there, but for hosts of answers that were lost, hosts that a retried
\* Create or an ETCDRestore dropped, and hosts out of reach.
THEOREM RecordIsALead == Spec => []RecordLeads
  <1>1. DriverInv => RecordLeads
    <2> SUFFICES ASSUME DriverInv, pc = "idle", record.status = "Created",
                        NEW n \in Touched \ strays
                 PROVE  n \in Meta.config /\ hosts[n] = Meta.full.pki
      BY DEF RecordLeads
    <2> QED
      BY DEF DriverInv, StepInv, LeadInv, UpHosts, Deploying
  <1> QED
    BY <1>1, DriverInvHolds, PTL

\* A successful Remove leaves no host with components but those it did not reach and
\* those of answers that were lost.
THEOREM RemovesEverything == Spec => []RemoveSweeps
  <1>1. DriverInv => RemoveSweeps
    BY DEF DriverInv, StepInv, AnswerInv
  <1> QED
    BY <1>1, DriverInvHolds, PTL
\* The PKI of a cluster is made once: no call that is given the recorded full state
\* replaces it by another.
THEOREM PKIIsKept == Spec => PKIKept
  <1> DEFINE Kept == op.info /\ Meta.full.pki # 0 /\ record'.status # "none" =>
                       record'.meta.full.pki = Meta.full.pki
  <1>1. ASSUME DriverInv, [Next]_vars PROVE Kept
    <2> SUFFICES ASSUME op.info, Meta.full.pki # 0, record'.status # "none"
                 PROVE  record'.meta.full.pki = Meta.full.pki
      OBVIOUS
    <2>1. TypeOK /\ FileInv
      BY <1>1 DEF DriverInv, StepInv
    <2>2. pc \in Deploying => file.pki = Meta.full.pki
      BY <2>1 DEF FileInv, Working, Deploying
    <2>3. ASSUME record'.meta = Meta PROVE record'.meta.full.pki = Meta.full.pki
      BY <2>3
    <2>4. ASSUME FailNil PROVE record'.meta = Meta
      BY <2>1, <2>4 DEF FailNil, TypeOK, Meta
    <2>5. ASSUME UpFails PROVE record'.meta = Meta \/ record'.meta.full = file
      BY <2>4, <2>5 DEF UpFails, FailUp, FailedMetadata
    <2>6. ASSUME NEW o \in Ops, NEW c \in SUBSET Nodes, Begin(o, c) PROVE record'.meta = Meta
      BY <2>1, <2>6 DEF Begin, TypeOK, Meta
    <2>7. CASE Deploy
      BY <2>2, <2>5, <2>7 DEF Deploy, Deploying, Goto, Meta
    <2>8. CASE Reconcile
      BY <2>2, <2>5, <2>8 DEF Reconcile, Deploying, Goto, Meta
    <2>9. CASE Finish
      BY <2>2, <2>5, <2>9 DEF Finish, Deploying, Saved, Meta
    <2>10. CASE RemoveDone
      BY <2>10 DEF RemoveDone
    <2>11. ASSUME Parse \/ Restore \/ GetData \/ ClusterInit \/ PostCheck \/ Snapshot
                  \/ PrepareBackup \/ CleanupNodes \/ ClusterRemove \/ Crash \/ UNCHANGED vars
           PROVE  record'.meta = Meta
      BY <2>4, <2>11 DEF Parse, Restore, GetData, ClusterInit, PostCheck, Snapshot,
           PrepareBackup, CleanupNodes, ClusterRemove, Clean, Crash, vars, Failing, Goto, Meta
    <2> QED
      BY <1>1, <2>3, <2>6, <2>7, <2>8, <2>9, <2>10, <2>11 DEF Next, DriverStep
  <1>2. DriverInv /\ [Next]_vars => [Kept]_vars
    BY <1>1
  <1> QED
    BY <1>2, DriverInvHolds, PTL DEF Spec, PKIKept

=============================================================================
