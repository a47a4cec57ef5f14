--------------------------- MODULE DriverOptions ----------------------------
(***************************************************************************)
(* The options of a call on their way to the driver and into the record,   *)
(* for the aks driver, the one whose recorded state comes back as options: *)
(* GetConfig flattens the configuration of the service (service.go) or     *)
(* takes the flags of a command (cmd/utils.go), Create, Update and the     *)
(* backup calls merge the recorded metadata and state into them            *)
(* (cluster.go, backup.go), the driver looks every field up under its      *)
(* aliases (options.go), and storeState records the result.  The maps of   *)
(* Go are ranged over in any order: one step per element.                  *)
(*                                                                         *)
(* A value is a set of strings, with one element unless it is a list.  An  *)
(* element of a JSON object is [key, kind, val, sub]: sub has the elements *)
(* of an object, and val these as "key=value" strings.                     *)
(***************************************************************************)
EXTENDS Naturals, Sequences, FiniteSetsExt

CONSTANTS
  Configs,    \* the configurations the service may be called with
  Commands,   \* the flags the command line may be called with, as such elements
  MalFormed,  \* the tags that are not of the form key=value
  Parts       \* the elements of an object at any depth, labels not looked into

Nested(e) == e.kind = "map" /\ e.key # "labels"

\* Parts is defined by recursion over the objects; a list given as a flag has a value
ASSUME OptionsAssumption ==
  /\ Configs \cup Commands \subseteq DOMAIN Parts
  /\ \A o \in DOMAIN Parts :
       /\ \A e \in o : Nested(e) => e.sub \in DOMAIN Parts
       /\ Parts[o] = o \cup UNION {Parts[e.sub] : e \in {d \in o : Nested(d)}}
  /\ \A c \in Commands : \A e \in c : e.kind = "slice" => e.val # {}

Zero(type) ==
  CASE type = "string" -> {""} [] type = "int" -> {"0"} [] type = "slice" -> {}

(* The fields of the driver's state that the model tells apart: their type, the
   keys they are looked up under, and their name and kind in the recorded JSON. *)
Type == [name |-> "string", subscriptionId |-> "string", resourceGroup |-> "string",
         location |-> "string", clientId |-> "string", count |-> "int", osDisk |-> "int",
         version |-> "string", tags |-> "slice"]

Fields == DOMAIN Type

Keys == [name |-> <<"name">>, subscriptionId |-> <<"subscription-id", "subscriptionId">>,
         resourceGroup |-> <<"resource-group", "resourceGroup">>,
         location |-> <<"location">>, clientId |-> <<"client-id", "clientId">>,
         count |-> <<"count">>,
         osDisk |-> <<"agent-osdisk-size", "agentOsdiskSize", "os-disk-size", "osDiskSizeGb">>,
         version |-> <<"kubernetes-version", "kubernetesVersion">>, tags |-> <<"tags">>]

JSONKey == [name |-> "name", subscriptionId |-> "subscriptionId",
            resourceGroup |-> "resourceGroup", location |-> "location",
            clientId |-> "clientId", count |-> "count", osDisk |-> "agentOsdiskSize",
            version |-> "kubernetesVersion", tags |-> "tags"]

Required == {"name", "subscriptionId", "resourceGroup", "location", "clientId"}

VARIABLES
  recordStatus, \* of the record: "none", "error" or "created"
  record,       \* the driver's state in the metadata of the record, or NoState
  phase,        \* "idle", "flatten", "names", "merge", "state" or "drive"
  operation,    \* the call of the driver that the options are for
  source,       \* "service" or "command"
  config,       \* what the caller gave
  opts,         \* types.DriverOptions, as a function of type and key
  stack,        \* the objects being flattened, the innermost first
  left,         \* the keys of the metadata that the loop has not seen
  answer,       \* of the last call
  clusters,     \* history: the clusters at Azure, by subscription, group and name
  moved         \* history: the places of the record whose subscription a caller changed

optionVars ==
  <<recordStatus, record, phase, operation, source, config, opts, stack, left, answer,
    clusters, moved>>
call == <<operation, source, config>>

NoState == [f \in {} |-> {}]

ClusterName == {"c1"}

OptionsTypeOK ==
  /\ recordStatus \in {"none", "error", "created"}
  /\ DOMAIN record \in {{}, Fields}
  /\ phase \in {"idle", "flatten", "names", "merge", "state", "drive"}
  /\ operation \in {"create", "update", "etcd"}
  /\ source \in {"service", "command"}
  /\ config \in Configs \cup Commands
  /\ DOMAIN opts \subseteq {"string", "int", "slice"} \X STRING
  /\ left \subseteq {"resource-group", "location", "state"}
  /\ answer \in {"ok", "error"}

OptionsInit ==
  /\ recordStatus = "none" /\ record = NoState
  /\ phase = "idle" /\ operation = "create" /\ source = "service" /\ config \in Configs
  /\ opts = NoState /\ stack = <<>> /\ left = {} /\ answer = "error"
  /\ clusters = {} /\ moved = {}

-----------------------------------------------------------------------------
(* GetConfig.                                                              *)

\* the flags of create and of update, and the value of one that is not given
Flags(command) == IF command = "create" THEN Fields \ {"name"}
                                        ELSE {"count", "version", "tags", "clientId"}

Default(f) == CASE f = "location" -> {"eastus"} [] f = "version" -> {"1.11.5"}
                [] OTHER -> Zero(Type[f])

\* the option a flag sets
FlagOption(f) == <<Type[f], Keys[f][1]>>

\* getDriverOpts: every flag is set, given or not
getDriverOpts(command, given) ==
  LET value(f) == {e \in given : <<e.kind, e.key>> = FlagOption(f)}
  IN [o \in {FlagOption(f) : f \in Flags(command)} |->
        LET f == CHOOSE g \in Flags(command) : FlagOption(g) = o
        IN IF value(f) = {} THEN Default(f) ELSE (CHOOSE e \in value(f) : TRUE).val]

\* a flag that the command does not have ends it before the call
Accepted(command, given) ==
  \A e \in given : \E f \in Flags(command) : <<e.kind, e.key>> = FlagOption(f)

\* Create is for a cluster that is not created, and Update of one that failed is a
\* Create; the commands have no backup calls, and "etcd" is ETCDSave or
\* ETCDRemoveSnapshot, which the driver does not implement
BeginCall(command, from, given) ==
  /\ phase = "idle"
  /\ IF command = "create" THEN recordStatus # "created" ELSE recordStatus # "none"
  /\ from = "command" => command # "etcd" /\ Accepted(command, given)
  /\ operation' = IF command = "update" /\ recordStatus = "error" THEN "create" ELSE command
  /\ source' = from /\ config' = given
  /\ IF from = "service" THEN phase' = "flatten" /\ opts' = NoState /\ stack' = <<given>>
                         ELSE /\ phase' = "names" /\ stack' = <<>>
                              /\ opts' = getDriverOpts(command, given)
  /\ left' = {}
  /\ UNCHANGED <<recordStatus, record, answer, clusters, moved>>

\* m[k] = v of a Go map
Assign(m, k, v) == [x \in DOMAIN m \cup {k} |-> IF x = k THEN v ELSE m[x]]

\* null and a list without strings set no option
Ignored(e) == e.kind = "null" \/ (e.kind = "slice" /\ e.val = {})

\* the option an element sets: an object becomes a list
Option(e) == <<IF e.kind = "map" THEN "slice" ELSE e.kind, e.key>>

\* a value is set, whatever was there
flatten(o, e) == IF Ignored(e) THEN o ELSE Assign(o, Option(e), e.val)

\* mutant of flattenIfNotExist: the recorded value is set, whatever was there
flattenIfNotExistAlways(o, e) == flatten(o, e)

\* a value is set unless there is one
flattenIfNotExist(o, e) == IF Option(e) \in DOMAIN o THEN o ELSE flatten(o, e)

\* mutant of Listed: labels in both cases
ListedLabels(key) == key = "labels"

\* the objects that become a list: labels of the configuration, tags of the state
Listed(key) == key = (IF phase = "flatten" THEN "labels" ELSE "tags")

\* the next element, in no order: another object is flattened before the rest
Visit ==
  /\ phase \in {"flatten", "state"} /\ stack # <<>>
  /\ \E e \in Head(stack) :
       LET rest == <<Head(stack) \ {e}>> \o Tail(stack)
       IN IF e.kind = "map" /\ ~Listed(e.key)
            THEN stack' = <<e.sub>> \o rest /\ UNCHANGED opts
            ELSE /\ stack' = rest
                 /\ opts' = IF phase = "flatten" THEN flatten(opts, e)
                                              ELSE flattenIfNotExist(opts, e)
  /\ UNCHANGED <<recordStatus, record, phase, call, left, answer, clusters, moved>>

\* an object has been flattened
Leave ==
  /\ phase \in {"flatten", "state"} /\ stack # <<>> /\ Head(stack) = {}
  /\ stack' = Tail(stack)
  /\ phase' = IF Len(stack) > 1 THEN phase ELSE IF phase = "flatten" THEN "names" ELSE "merge"
  /\ UNCHANGED <<recordStatus, record, call, opts, left, answer, clusters, moved>>

\* the name is that of the cluster, whatever the configuration says; displayName, which
\* is set next to it, is one of the fields that are left out
SetName ==
  /\ phase = "names"
  /\ opts' = Assign(opts, <<"string", "name">>, ClusterName)
  /\ left' = IF record = NoState THEN {} ELSE {"resource-group", "location", "state"}
  /\ phase' = "merge"
  /\ UNCHANGED <<recordStatus, record, call, stack, answer, clusters, moved>>

-----------------------------------------------------------------------------
(* The record is merged into the options.                                  *)

Metadata(key) == IF key = "location" THEN record.location ELSE record.resourceGroup

\* the recorded JSON; zero values are left out, the tags are an object
StateJSON(st) ==
  {[key |-> JSONKey[f], kind |-> IF f = "tags" THEN "map" ELSE Type[f],
    val |-> st[f], sub |-> {}] : f \in {g \in Fields : st[g] # Zero(Type[g])}}

\* mutant of MergeValue: what the caller gave stays
MergeValueKeeping(key, val) ==
  IF <<"string", key>> \in DOMAIN opts THEN opts ELSE Assign(opts, <<"string", key>>, val)

\* the metadata win
MergeValue(key, val) == Assign(opts, <<"string", key>>, val)

\* the next key of the metadata, in no order; Create hands the state on unread,
\* Update and the backup calls flatten it
MergeKey ==
  /\ phase = "merge"
  /\ \E key \in left :
       /\ left' = left \ {key}
       /\ IF key = "state" /\ operation # "create"
            THEN phase' = "state" /\ stack' = <<StateJSON(record)>> /\ UNCHANGED opts
            ELSE /\ opts' = MergeValue(key, IF key = "state" THEN {"json"} ELSE Metadata(key))
                 /\ UNCHANGED <<phase, stack>>
  /\ UNCHANGED <<recordStatus, record, call, answer, clusters, moved>>

Merged ==
  /\ phase = "merge" /\ left = {}
  /\ phase' = "drive"
  /\ UNCHANGED <<recordStatus, record, call, opts, stack, left, answer, clusters, moved>>

-----------------------------------------------------------------------------
(* The driver.                                                             *)

\* the first key that is there; a value of another type is not
GetValueFromDriverOptions(o, type, keys) ==
  LET present == {i \in DOMAIN keys : <<type, keys[i]>> \in DOMAIN o}
  IN IF present = {} THEN Zero(type) ELSE o[<<type, keys[Min(present)]>>]

\* a tag that is no pair is dropped; a list has no two tags of one name
Parsed(f, val) == IF f = "tags" THEN val \ MalFormed ELSE val

getStateFromOptions ==
  [f \in Fields |-> Parsed(f, GetValueFromDriverOptions(opts, Type[f], Keys[f]))]

validate(st) == \A f \in Required : st[f] # Zero(Type[f])

\* the client that puts and deletes is one for the subscription, and for the base URL,
\* which is an ordinary option like it and left out
Place(st) == <<st.subscriptionId, st.resourceGroup, st.name>>

\* the places to which a caller's other subscription takes the cluster, and the one it leaves
Subscriptions ==
  {e.val : e \in {d \in Parts[config] : \E i \in DOMAIN Keys["subscriptionId"] :
                   d.kind = "string" /\ d.key = Keys["subscriptionId"][i]}}

Moves ==
  IF record = NoState \/ Subscriptions \subseteq {record.subscriptionId} THEN {}
  ELSE {<<s, record.resourceGroup, record.name>> : s \in Subscriptions \cup {record.subscriptionId}}

\* a state that is not valid ends the call before anything is recorded
Reject ==
  /\ phase = "drive"
  /\ operation = "etcd" \/ ~validate(getStateFromOptions)
  /\ phase' = "idle" /\ answer' = "error"
  /\ recordStatus' = IF operation = "create" THEN "error" ELSE recordStatus
  /\ UNCHANGED <<record, call, opts, stack, left, clusters, moved>>

\* the cluster is put, completely or not: Create records the state in both cases,
\* Update when it succeeds
Drive ==
  /\ phase = "drive" /\ operation # "etcd"
  /\ LET st == getStateFromOptions
     IN /\ validate(st)
        /\ clusters' = clusters \cup {Place(st)}
        /\ \/ record' = st /\ recordStatus' = "created" /\ answer' = "ok"
           \/ operation = "create" /\ record' = st /\ recordStatus' = "error" /\ answer' = "error"
           \/ operation = "update" /\ answer' = "error" /\ UNCHANGED <<record, recordStatus>>
  /\ moved' = moved \cup Moves
  /\ phase' = "idle"
  /\ UNCHANGED <<call, opts, stack, left>>

\* Remove deletes the cluster that the record leads to, and the record; the histories
\* forget what a move has left behind
Remove ==
  /\ phase = "idle" /\ record # NoState
  /\ clusters' = (clusters \ {Place(record)}) \ moved /\ moved' = {}
  /\ recordStatus' = "none" /\ record' = NoState
  /\ UNCHANGED <<phase, call, opts, stack, left, answer>>

-----------------------------------------------------------------------------
OptionsNext ==
  \/ \E o \in {"create", "update", "etcd"}, c \in Configs : BeginCall(o, "service", c)
  \/ \E o \in {"create", "update"}, c \in Commands : BeginCall(o, "command", c)
  \/ Visit \/ Leave \/ SetName \/ MergeKey \/ Merged
  \/ Reject \/ Drive \/ Remove

OptionsSpec == OptionsInit /\ [][OptionsNext]_optionVars

-----------------------------------------------------------------------------
(* What the caller gave for a field: the elements of its type, at any depth, *)
(* under the first of its keys.                                            *)
Elements == Parts[config]

GivenUnder(f, i) ==
  {e \in Elements : /\ e.kind = Type[f] /\ e.key = Keys[f][i]
                    /\ Type[f] = "slice" => e.val # {}}

GivenAt(f) == {i \in DOMAIN Keys[f] : GivenUnder(f, i) # {}}

Given(f) == {Parsed(f, e.val) : e \in GivenUnder(f, Min(GivenAt(f)))}

\* the call of the driver has succeeded
Succeeded == phase = "drive" /\ phase' = "idle" /\ answer' = "ok"

\* The record leads to every cluster that was made, through failed creations, retries
\* and updates with other values and whatever the order of the maps: name and resource
\* group of the first attempt stay, and so does the subscription unless a caller gives
\* another one; Remove then deletes all that there is.  A caller that gives another
\* subscription gets a second cluster there, and the record leads to one of the two.
PlaceKept == clusters \subseteq moved \cup IF record = NoState THEN {} ELSE {Place(record)}

\* An Update of the service keeps the recorded value of every field that the
\* configuration leaves out, although nobody hands the old state to the aks driver:
\* it comes back through the JSON, the flattening and the lookup by alias.
NothingForgotten ==
  [][Succeeded /\ operation = "update" /\ source = "service" =>
       \A f \in Fields : GivenAt(f) = {} => record'[f] = record[f]]_optionVars

\* A field that the caller gives is applied: it is never displaced by the recorded
\* one, except where the record has to win (name, resource group, location) and where
\* it is given under a key that is looked up after that of the recorded state.
GivenApplied ==
  [][Succeeded =>
       \A f \in Fields \ {"name"} :
         /\ GivenAt(f) # {}
         /\ record # NoState => f \notin {"resourceGroup", "location"}
         /\ operation = "update" =>
              \E i \in DOMAIN Keys[f] : Keys[f][i] = JSONKey[f] /\ Min(GivenAt(f)) <= i
         => record'[f] \in Given(f)]_optionVars
=============================================================================
