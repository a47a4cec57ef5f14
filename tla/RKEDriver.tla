----------------------------- MODULE RKEDriver ------------------------------
(***************************************************************************)
(* The RKE driver (drivers/rke/rke_driver.go) for one cluster: the nodes   *)
(* of its configuration, and the full state, with the cluster's PKI, that  *)
(* travels between the metadata of the engine's record, a file in a        *)
(* temporary directory and the hosts.  Of the vendored library rke the     *)
(* model has what ClusterInit, ClusterUp, RestoreEtcdSnapshot and          *)
(* ClusterRemove do to the file and to the hosts: each may fail half way,  *)
(* and goes on without the hosts it cannot reach.                          *)
(*                                                                         *)
(* A PKI is a number, 0 is none.  A number that is nowhere in use any more *)
(* is taken again, so that |Nodes| + 3 of them are always enough.          *)
(***************************************************************************)
EXTENDS Naturals, FiniteSets

CONSTANTS
  Nodes,   \* the hosts
  Ops,     \* the driver's operations in use
  Faults   \* "crash": the engine is killed; "unreachable": a host does not answer

Operations == {"create", "update", "setVersion", "etcdSave", "etcdRemoveSnapshot",
               "etcdRestore", "remove"}

ASSUME RKEAssumption ==
  /\ IsFiniteSet(Nodes) /\ Nodes # {}
  /\ Ops \subseteq Operations
  /\ Faults \subseteq {"crash", "unreachable"}

MaxTries == 3                     \* of PostCheck: for i := 0; i < 3; i++
PKI      == 0..(Cardinality(Nodes) + 3)

VARIABLES
  hosts,     \* the PKI of the components on each host
  snapshot,  \* the etcd snapshot is on the hosts
  record,    \* the engine's record: Status and Metadata
  file,      \* cluster.rkestate in the temporary directory of the call
  pc,        \* the next step of the call; "idle" between calls
  op,        \* the call: operation and the nodes of the configuration it is given
  warned,    \* Create has gone on after an error of ClusterInit
  inactive,  \* the hosts that rke does not get a connection to: InactiveHosts
  tries,     \* the counter of PostCheck
  result,    \* what the last call returned
  strays     \* history: the hosts that the record no longer leads to (see Lose,
             \* Dropped and RemoveDone)

vars == <<hosts, snapshot, record, file, pc, op, warned, inactive, tries, result, strays>>
call == <<file, op, warned, tries>>

\* FullState of rke: the certificate bundle, the configuration that is wanted
\* and the one that was deployed last
FullState == [pki : PKI, desired : SUBSET Nodes, current : SUBSET Nodes]
NoState   == [pki |-> 0, desired |-> {}, current |-> {}]

\* Metadata: "Config" by its nodes, "fullState", and by their PKI the entries
\* "RootCA", "ClientCert", "ClientKey" and "Certs"
Metadata   == [config : SUBSET Nodes, full : FullState, certs : PKI]
NoMetadata == [config |-> {}, full |-> NoState, certs |-> 0]

\* Updating, Post-Checking and Running all count as created for the engine, which
\* makes "Marked" out of Creating and Error too: ETCDRestore was called for a cluster
\* that no call has brought up
Status == {"none", "Creating", "Error", "Marked", "Created"}
PC == {"idle", "parse", "restore", "data", "init", "deploy", "reconcile", "finish",
       "postCheck", "forget", "prepare", "clean", "snapshot", "sweep"}

TypeOK ==
  /\ hosts \in [Nodes -> PKI]
  /\ snapshot \in BOOLEAN /\ warned \in BOOLEAN
  /\ record \in [status : Status, meta : Metadata]
  /\ file \in FullState
  /\ pc \in PC
  /\ op \in [name : Operations, config : SUBSET Nodes, info : BOOLEAN]
  /\ tries \in 0..(MaxTries - 1)
  /\ result \in {"none", "ok", "error"}
  /\ inactive \subseteq Nodes /\ strays \subseteq Nodes

Init ==
  /\ hosts = [n \in Nodes |-> 0]
  /\ snapshot = FALSE /\ warned = FALSE
  /\ record = [status |-> "none", meta |-> NoMetadata]
  /\ file = NoState
  /\ pc = "idle"
  /\ op = [name |-> "create", config |-> {}, info |-> FALSE]
  /\ tries = 0
  /\ result = "none"
  /\ inactive = {} /\ strays = {}

-----------------------------------------------------------------------------
(* A call begins and returns.                                              *)

Meta    == record.meta
Touched == {n \in Nodes : hosts[n] # 0}

\* the operations that take the configuration from their options; the others
\* take it from the metadata
Configured == {"create", "update", "etcdRestore"}

\* the engine hands the record on to every call but Create, which gets it only
\* when the status is Error.  Only Create and Update look at the status
Begin(o, c) ==
  /\ pc = "idle"
  /\ CASE o = "create" -> record.status \notin {"Marked", "Created"}
       [] o = "update" -> record.status \in {"Marked", "Created"}
       [] OTHER -> record.status # "none"
  /\ IF o \in Configured THEN c # {} ELSE c = Meta.config
  /\ op' = [name |-> o, config |-> c, info |-> o # "create" \/ record.status = "Error"]
  /\ record' = [record EXCEPT !.status =
                  CASE o = "create" -> "Creating"
                    [] o = "etcdRestore" /\ @ # "Created" -> "Marked"
                    [] OTHER -> @]
  /\ pc' = "parse"
  /\ file' = NoState /\ warned' = FALSE /\ tries' = 0 /\ result' = "none"
  /\ UNCHANGED <<hosts, snapshot, inactive, strays>>

\* TunnelHosts, at the start of ClusterUp, RestoreEtcdSnapshot and ClusterRemove: a
\* host that cannot be reached is only warned about
TunnelHosts == IF "unreachable" \in Faults THEN SUBSET Nodes ELSE {{}}

Goto(l) ==
  /\ pc' = l
  /\ inactive' \in IF l # pc /\ l \in {"deploy", "prepare", "sweep"} THEN TunnelHosts ELSE {inactive}
  /\ UNCHANGED <<record, result, strays>>

Return(r) == pc' = "idle" /\ result' = r /\ inactive' = {}

Named(m) == m.config \cap m.full.desired

\* the hosts that a call has touched and that the record, the configuration and
\* the full state, does not name are lost with the answer of the call
Lose == strays' = strays \cup (Touched \ Named(record'.meta))

\* mutant of FailedMetadata: the error comes without a ClusterInfo
FailedMetadataDropped == Meta

\* Create answers an error of ClusterUp with the configuration and the state file
FailedMetadata == [config |-> op.config, full |-> file, certs |-> 0]

\* an error with nil in place of the ClusterInfo, or of Update and ETCDRestore,
\* whose answer the engine drops with it
FailNil ==
  /\ record' = [record EXCEPT !.status = IF op.name = "create" THEN "Error" ELSE @]
  /\ Lose
  /\ Return("error")

\* an error of ClusterUp; the nodes of an earlier attempt of Create which the
\* configuration does not have any more are left as they are
FailUp ==
  /\ IF op.name = "create"
       THEN /\ record' = [status |-> "Error", meta |-> FailedMetadata]
            /\ strays' = strays \cup (Meta.config \ op.config)
            /\ Return("error")
       ELSE FailNil

Failing == FailNil /\ UNCHANGED <<hosts, snapshot, call>>

-----------------------------------------------------------------------------
(* From the call to ClusterUp.                                             *)

\* getYAML and ConvertToRkeConfig
Parse ==
  /\ pc = "parse"
  /\ \/ Goto("restore") /\ UNCHANGED <<hosts, snapshot, call>>
     \/ Failing

\* mutant of Restored: the state in the metadata is not written to the directory
RestoredEmpty == NoState

\* restore: what the new directory holds
Restored == IF op.info THEN Meta.full ELSE NoState

AfterRestore ==
  CASE op.name \in Configured -> "data"
    [] op.name = "setVersion" -> "init"
    [] op.name = "remove" -> "sweep"
    [] OTHER -> "snapshot"

\* Remove goes on when there is no directory
Restore ==
  /\ pc = "restore"
  /\ \/ /\ file' = Restored
        /\ Goto(AfterRestore)
        /\ UNCHANGED <<hosts, snapshot, op, warned, tries>>
     \/ op.name # "remove" /\ Failing
     \/ op.name = "remove" /\ Goto("sweep") /\ UNCHANGED <<hosts, snapshot, call>>

\* getData, which SetVersion calls between ClusterInit and ClusterUp
GetData ==
  /\ pc = "data"
  /\ \/ /\ Goto(CASE op.name = "setVersion" -> "deploy"
                  [] op.name = "etcdRestore" -> "prepare"
                  [] OTHER -> "init")
        /\ UNCHANGED <<hosts, snapshot, call>>
     \/ Failing

\* a PKI that was never in use
FreshPKI == CHOOSE p \in PKI \ {0} :
  p \notin {hosts[n] : n \in Nodes} \cup {Meta.full.pki, Meta.certs, file.pki}

\* ClusterInit: the state file gets the wanted configuration and keeps
\* its certificates, or gets new ones when it has none.  Create goes on after an
\* error, with the state file as it was.
ClusterInit ==
  /\ pc = "init"
  /\ LET after == IF op.name = "setVersion" THEN "data" ELSE "deploy"
     IN \/ /\ file' = [file EXCEPT !.pki = IF @ = 0 THEN FreshPKI ELSE @,
                                   !.desired = op.config]
           /\ Goto(after)
           /\ UNCHANGED <<hosts, snapshot, op, warned, tries>>
        \/ /\ op.name = "create"
           /\ warned' = TRUE
           /\ Goto(after)
           /\ UNCHANGED <<hosts, snapshot, file, op, tries>>
        \/ op.name # "create" /\ Failing

-----------------------------------------------------------------------------
(* ClusterUp.                                                              *)

Up == UNCHANGED <<snapshot, op, warned, tries>>

UpFails == FailUp /\ UNCHANGED <<hosts, file>>

\* SetUpHosts puts the certificates on the hosts of the state file, without the
\* inactive ones, in any order.  Without such a host it is an error
Deploy ==
  /\ pc = "deploy" /\ Up
  /\ LET up == file.desired \ inactive
     IN \/ \E n \in up :
             /\ hosts[n] # file.pki
             /\ hosts' = [hosts EXCEPT ![n] = file.pki]
             /\ Goto(pc)
             /\ UNCHANGED file
        \/ /\ up # {} /\ \A n \in up : hosts[n] = file.pki
           /\ Goto("reconcile")
           /\ UNCHANGED <<hosts, file>>
        \/ UpFails

\* ReconcileCluster cleans the hosts that were deployed and are not wanted any more,
\* and warns of those it cannot reach; then UpdateClusterCurrentState, with the
\* configuration that TunnelHosts has taken the inactive hosts from
Reconcile ==
  /\ pc = "reconcile" /\ Up
  /\ LET unwanted == {n \in file.current \ (file.desired \cup inactive) : hosts[n] # 0}
     IN \/ \E n \in unwanted :
             /\ hosts' = [hosts EXCEPT ![n] = 0]
             /\ Goto(pc)
             /\ UNCHANGED file
        \/ /\ unwanted = {}
           /\ file' = [file EXCEPT !.current = file.desired \ inactive]
           /\ Goto("finish")
           /\ UNCHANGED hosts
        \/ UpFails

\* checkAllIncluded: a wanted host that was left out is an error at the very end, which
\* RestoreEtcdSnapshot logs as a warning and returns all the same
Complete == file.desired \cap inactive = {}

\* the hosts that the configuration does not have any more and that may keep their
\* components: Update has those cleaned which the recorded state says were deployed
Dropped ==
  {n \in Meta.config \ op.config :
     op.name = "update" => n \in inactive \/ n \notin Meta.full.current}

\* mutant of Saved: the state file stays in the directory
SavedWithoutState == [config |-> op.config, full |-> NoState, certs |-> file.pki]

\* the metadata of a successful answer: save after the literal of Create, or after
\* updateMetadata
Saved == [config |-> op.config, full |-> file, certs |-> file.pki]

\* ClusterUp returns.  Create, Update and ETCDRestore answer with the metadata, which
\* the engine persists before PostCheck; what SetVersion saves stays in memory.
Finish ==
  /\ pc = "finish" /\ Up
  /\ \/ /\ Complete
        /\ IF op.name = "setVersion"
             THEN Return("ok") /\ UNCHANGED record /\ Lose
             ELSE /\ record' = [status |-> "Created", meta |-> Saved]
                  /\ strays' = {n \in strays : hosts[n] # file.pki \/ n \notin Named(record'.meta)}
                               \cup Dropped
                  /\ pc' = "postCheck" /\ UNCHANGED <<inactive, result>>
        /\ UNCHANGED <<hosts, file>>
     \/ UpFails

\* another turn of the loop is left after this one
TriesLeft == tries + 1 < MaxTries

\* PostCheck asks the cluster for its version and makes the token with the
\* certificates of the metadata
PostCheck ==
  /\ pc = "postCheck"
  /\ \/ /\ \E n \in Nodes : hosts[n] = Meta.certs
        /\ Return("ok")
        /\ UNCHANGED <<record, strays, tries>>
     \/ /\ TriesLeft
        /\ tries' = tries + 1
        /\ Goto(pc)
     \/ /\ ~TriesLeft
        /\ FailNil
        /\ UNCHANGED tries
  /\ UNCHANGED <<hosts, snapshot, file, op, warned>>

-----------------------------------------------------------------------------
(* Snapshots and Remove.                                                   *)

\* ETCDSave and ETCDRemoveSnapshot
Snapshot ==
  /\ pc = "snapshot"
  /\ \/ /\ snapshot' = (op.name = "etcdSave")
        /\ op.config # {}
        /\ Return("ok")
        /\ UNCHANGED <<hosts, record, strays, call>>
     \/ Failing

\* the hosts of the configuration that the call was given, without the inactive ones
Reached == op.config \ inactive

\* RestoreEtcdSnapshot: the state file forgets what was deployed; DeployRestoreCerts
\* and PrepareBackup need the certificates and the snapshot, before anything is cleaned
PrepareBackup ==
  /\ pc = "prepare"
  /\ \/ /\ file.pki # 0
        /\ \E n \in Reached :
             hosts[n] # file.pki /\ hosts' = [hosts EXCEPT ![n] = file.pki]
        /\ Goto(pc)
        /\ UNCHANGED <<snapshot, call>>
     \/ /\ file.pki # 0 /\ snapshot
        /\ file' = [file EXCEPT !.current = {}]
        /\ Goto("clean")
        /\ UNCHANGED <<hosts, snapshot, op, warned, tries>>
     \/ Failing

\* CleanupNodes, of one host at least
Clean(then) ==
  \/ \E n \in Reached :
       /\ hosts[n] # 0
       /\ hosts' = [hosts EXCEPT ![n] = 0]
       /\ Goto(pc)
       /\ UNCHANGED <<snapshot, call>>
  \/ /\ Reached # {} /\ \A n \in Reached : hosts[n] = 0
     /\ Goto(then)
     /\ UNCHANGED <<hosts, snapshot, call>>
  \/ Failing

CleanupNodes == pc = "clean" /\ Clean("init")

ClusterRemove == pc = "sweep" /\ Clean("forget")

\* the engine deletes the record, also when hosts have not been reached
RemoveDone ==
  /\ pc = "forget"
  /\ record' = [status |-> "none", meta |-> NoMetadata]
  /\ strays' = (strays \cup inactive) \cap Touched
  /\ Return("ok")
  /\ UNCHANGED <<hosts, snapshot, call>>

\* the engine is killed
Crash ==
  /\ "crash" \in Faults
  /\ pc # "idle"
  /\ Return("error")
  /\ record' = record
  /\ Lose
  /\ UNCHANGED <<hosts, snapshot, call>>

-----------------------------------------------------------------------------
DriverStep ==
  \/ Parse \/ Restore \/ GetData \/ ClusterInit \/ Deploy \/ Reconcile \/ Finish \/ PostCheck
  \/ Snapshot \/ PrepareBackup \/ CleanupNodes \/ ClusterRemove \/ RemoveDone

Next ==
  \/ \E o \in Ops, c \in SUBSET Nodes : Begin(o, c)
  \/ DriverStep \/ Crash

Spec == Init /\ [][Next]_vars

-----------------------------------------------------------------------------
Returned(names) == pc = "idle" /\ result = "ok" /\ op.name \in names

\* A Create, Update, SetVersion or ETCDRestore that answers success has every node of the
\* configuration running with the PKI of the recorded full state, and the recorded
\* credentials belong to it, whatever was left by calls that failed or were killed.
\* Create does not promise it when it went on after an error of ClusterInit, nor
\* SetVersion when it is called for a cluster that no call has brought up.
Deployed ==
  Returned(Configured \cup {"setVersion"}) /\ ~warned /\ record.status = "Created" =>
    /\ \A n \in Meta.config : hosts[n] = Meta.full.pki
    /\ Meta.certs = Meta.full.pki

\* The record of a created cluster leads to every host with its components: it names
\* the host and has the PKI that runs there.  The exceptions are hosts of a call
\* whose answer was lost, hosts that a retried Create or an ETCDRestore dropped, and
\* hosts that were not reached by the Update that dropped them or by an earlier Remove.
RecordLeads ==
  pc = "idle" /\ record.status = "Created" =>
    \A n \in Touched \ strays : n \in Meta.config /\ hosts[n] = Meta.full.pki

\* After a successful Remove no host has components, but for the same exceptions and
\* the hosts it did not reach; a Create that failed half way is removed completely.
RemoveSweeps == Returned({"remove"}) => Touched \subseteq strays

\* The PKI of a cluster is made once: a call that is given the recorded full state
\* never replaces it by another, through any number of failed retries and updates.
PKIKept ==
  [][op.info /\ Meta.full.pki # 0 /\ record'.status # "none" =>
       record'.meta.full.pki = Meta.full.pki]_vars
=============================================================================
