--------------------------- MODULE AKSDriverProofs ---------------------------
(***************************************************************************)
(* Proofs about the aks driver, in two parts.  The first is about the      *)
(* options of its calls (DriverOptions), for every set of configurations   *)
(* and of command lines: PlaceKept, NothingForgotten and GivenApplied.     *)
(* The second is about the calls themselves (AKSDriver), for all versions, *)
(* sizes, operations and faults: Settled and DependenciesFirst.            *)
(***************************************************************************)
EXTENDS DriverOptions, AKSDriver, SequenceTheorems, TLAPS

\* the option of a field under its i-th key
Key(f, i) == <<Type[f], Keys[f][i]>>

\* the option a recorded field comes back as
StateKey(f) == <<Type[f], JSONKey[f]>>

\* an element that sets an option of its own kind
Sets(e) == e.kind # "map" /\ ~Ignored(e)

\* an element that Visit has not reached
Waiting(e) ==
  \E i \in 1..Len(stack) :
    \/ e \in stack[i]
    \/ \E d \in stack[i] : Nested(d) /\ e \in Parts[d.sub]

\* the elements of the configuration; what is below one of them belongs to it as well
Reachable ==
  {d \in Elements : Nested(d) => d.sub \in DOMAIN Parts /\ Parts[d.sub] \subseteq Elements}

\* What is recorded: a created cluster has a state, and only a created one is updated.
RecordInv ==
  /\ recordStatus \in {"none", "error", "created"} /\ operation \in {"create", "update", "etcd"}
  /\ record # NoState => DOMAIN record = Fields /\ record.name = ClusterName
                         /\ record.tags \cap MalFormed = {}
  /\ recordStatus = "created" => record # NoState
  /\ phase # "idle" /\ operation = "update" => recordStatus = "created"

\* While a configuration is flattened, every option is that of an element, and every
\* element has set its option or waits for it.
FlattenInv ==
  phase = "flatten" =>
    /\ source = "service" /\ config \in Configs
    /\ stack \in Seq(SUBSET Reachable)
    /\ \A o \in DOMAIN opts :
         o # <<"slice", "labels">> =>
           \E e \in Elements : Sets(e) /\ Option(e) = o /\ opts[o] = e.val
    /\ \A e \in Elements : Sets(e) => Option(e) \in DOMAIN opts \/ Waiting(e)

Merging == phase \in {"merge", "state", "drive"}

\* What the record has to win: the name from the start, the place once its key of the
\* metadata has been seen.
MergeInv ==
  /\ left \subseteq {"resource-group", "location", "state"}
  /\ Merging => /\ <<"string", "name">> \in DOMAIN opts
                /\ opts[<<"string", "name">>] = ClusterName
                /\ record = NoState => left = {}
  /\ Merging /\ record # NoState /\ "resource-group" \notin left =>
       /\ <<"string", "resource-group">> \in DOMAIN opts
       /\ opts[<<"string", "resource-group">>] = record.resourceGroup
  /\ Merging /\ record # NoState /\ "location" \notin left =>
       /\ <<"string", "location">> \in DOMAIN opts
       /\ opts[<<"string", "location">>] = record.location
  /\ phase = "drive" => left = {}

\* The recorded state is one object, read for Update and the backup calls only.
StateInv ==
  phase = "state" => /\ operation # "create" /\ record # NoState /\ "state" \notin left
                     /\ Len(stack) = 1 /\ stack = <<stack[1]>>
                     /\ stack[1] \subseteq StateJSON(record)

\* m is the first key that the caller gives the field under, and the record has no say
FirstGiven(f, m) ==
  /\ f \in Fields \ {"name"}
  /\ m \in GivenAt(f) /\ \A i \in GivenAt(f) : m <= i
  /\ record # NoState => f \notin {"resourceGroup", "location"}
  /\ operation = "update" => \E i \in DOMAIN Keys[f] : Keys[f][i] = JSONKey[f] /\ m <= i

\* what a given field finds when the driver looks it up
Applied(f, m) ==
  /\ Key(f, m) \in DOMAIN opts
  /\ \E e \in GivenUnder(f, m) : opts[Key(f, m)] = e.val
  /\ \A i \in DOMAIN Keys[f] : i < m => Key(f, i) \notin DOMAIN opts

\* What the caller gave is in the options from the end of GetConfig on.
GivenInv ==
  phase = "names" \/ Merging =>
    \A f \in Fields, m \in Nat : operation # "etcd" /\ FirstGiven(f, m) => Applied(f, m)

\* a field of an Update of the service that comes from the recorded state
Left(f) ==
  /\ operation = "update" /\ source = "service"
  /\ f \in Fields \ {"name", "resourceGroup", "location"}
  /\ GivenAt(f) = {}

\* A field that is not given has no option but the recorded one, and this one once the
\* state has been read.
KeptInv ==
  \A f \in Fields : Left(f) =>
    /\ phase = "names" \/ Merging =>
         \A i \in DOMAIN Keys[f] : Key(f, i) \in DOMAIN opts =>
           Keys[f][i] = JSONKey[f] /\ opts[Key(f, i)] = record[f]
    /\ phase \in {"merge", "drive"} /\ "state" \notin left /\ record[f] # Zero(Type[f]) =>
         StateKey(f) \in DOMAIN opts
    /\ phase = "state" /\ record[f] # Zero(Type[f]) =>
         \/ StateKey(f) \in DOMAIN opts
         \/ \E e \in stack[1] : Option(e) = StateKey(f)

\* what the driver may find for the subscription
Known == {{""}} \cup Subscriptions \cup IF record = NoState THEN {} ELSE {record.subscriptionId}

\* Nothing but the caller and the record decides on the subscription.
SubscriptionInv ==
  phase = "names" \/ Merging =>
    \A i \in DOMAIN Keys["subscriptionId"] :
      Key("subscriptionId", i) \in DOMAIN opts => opts[Key("subscriptionId", i)] \in Known

OptionsInv == /\ RecordInv /\ FlattenInv /\ MergeInv /\ StateInv
              /\ GivenInv /\ KeptInv /\ SubscriptionInv /\ PlaceKept

-----------------------------------------------------------------------------
(* Lemmas about the tables, the maps and the stack.                        *)

\* The fields by name.
LEMMA FieldNames ==
  Fields = {"name", "subscriptionId", "resourceGroup", "location", "clientId",
            "count", "osDisk", "version", "tags"}
  BY DEF Fields, Type

\* A field has between one and four keys.
LEMMA KeyNumbers ==
  ASSUME NEW f \in Fields
  PROVE  DOMAIN Keys[f] \subseteq 1..4 /\ 1 \in DOMAIN Keys[f]
  BY FieldNames DEF Keys

\* No two fields share a key, and no field has a key twice.
LEMMA KeysDiffer ==
  ASSUME NEW f \in Fields, NEW g \in Fields,
         NEW i \in DOMAIN Keys[f], NEW j \in DOMAIN Keys[g], Keys[f][i] = Keys[g][j]
  PROVE  f = g /\ i = j
  BY FieldNames DEF Keys

\* The recorded name of a field is one of its keys.
LEMMA StateKeyKnown ==
  ASSUME NEW f \in Fields
  PROVE  \E i \in DOMAIN Keys[f] : JSONKey[f] = Keys[f][i]
  BY FieldNames DEF Keys, JSONKey

\* So a recorded field comes back as an option of this field only.
LEMMA StateKeysDiffer ==
  ASSUME NEW f \in Fields, NEW g \in Fields, NEW i \in DOMAIN Keys[f],
         StateKey(g) = Key(f, i)
  PROVE  f = g /\ Keys[f][i] = JSONKey[f]
  <1>1. JSONKey[g] = Keys[f][i]
    BY DEF StateKey, Key
  <1> QED
    BY <1>1, StateKeyKnown, KeysDiffer

\* The options that the merge sets belong to name, resource group and location.
LEMMA MergedKeys ==
  ASSUME NEW f \in Fields, NEW i \in DOMAIN Keys[f]
  PROVE  /\ Keys[f][i] = "name" => f = "name"
         /\ Keys[f][i] = "resource-group" => f = "resourceGroup"
         /\ Keys[f][i] = "location" => f = "location"
         /\ Keys[f][i] \notin {"state", "labels"}
  BY FieldNames DEF Keys

\* flattenIfNotExist keeps what is there and adds at most the option of the element.
LEMMA FlattenKeeps ==
  ASSUME NEW o, NEW e
  PROVE  /\ DOMAIN o \subseteq DOMAIN flattenIfNotExist(o, e)
         /\ \A x \in DOMAIN o : flattenIfNotExist(o, e)[x] = o[x]
         /\ \A x \in DOMAIN flattenIfNotExist(o, e) :
              x \in DOMAIN o \/ (x = Option(e) /\ flattenIfNotExist(o, e)[x] = e.val)
         /\ ~Ignored(e) => Option(e) \in DOMAIN flattenIfNotExist(o, e)
  <1>1. CASE Option(e) \in DOMAIN o \/ Ignored(e)
    BY <1>1 DEF flattenIfNotExist, flatten
  <1>2. CASE Option(e) \notin DOMAIN o /\ ~Ignored(e)
    <2>1. flattenIfNotExist(o, e) = Assign(o, Option(e), e.val)
      BY <1>2 DEF flattenIfNotExist, flatten
    <2>2. DOMAIN flattenIfNotExist(o, e) = DOMAIN o \cup {Option(e)}
          /\ flattenIfNotExist(o, e)[Option(e)] = e.val
          /\ \A x \in DOMAIN o : flattenIfNotExist(o, e)[x] = o[x]
      BY <1>2, <2>1 DEF Assign
    <2> QED
      BY <2>2
  <1> QED
    BY <1>1, <1>2

\* The smallest of a set of numbers.
LEMMA MinIs ==
  ASSUME NEW S \in SUBSET Nat, NEW m \in S, \A y \in S : m <= y
  PROVE  Min(S) = m
  <1>1. Min(S) \in S /\ \A y \in S : Min(S) <= y
    BY DEF Min
  <1>2. \A x \in S : (\A y \in S : x <= y) => x = m
    OBVIOUS
  <1> QED
    BY <1>1, <1>2

\* A set of key numbers that is not empty has a smallest one.
LEMMA MinExists ==
  ASSUME NEW S \in SUBSET (1..4), S # {}
  PROVE  \E m \in S : \A y \in S : m <= y
  <1>1. CASE 1 \in S
    BY <1>1
  <1>2. CASE 1 \notin S /\ 2 \in S
    BY <1>2
  <1>3. CASE 1 \notin S /\ 2 \notin S /\ 3 \in S
    BY <1>3
  <1>4. CASE 1 \notin S /\ 2 \notin S /\ 3 \notin S
    <2>1. \A y \in S : y = 4
      BY <1>4
    <2>2. PICK m \in S : m = 4
      BY <2>1
    <2>3. \A y \in S : m <= y
      BY <2>1, <2>2
    <2> QED
      BY <2>3
  <1> QED
    BY <1>1, <1>2, <1>3, <1>4

\* The stack with another innermost object.
LEMMA TopReplaced ==
  ASSUME NEW S, NEW s \in Seq(SUBSET S), s # <<>>, NEW a \in SUBSET S
  PROVE  /\ <<a>> \o Tail(s) \in Seq(SUBSET S)
         /\ Len(<<a>> \o Tail(s)) = Len(s)
         /\ (<<a>> \o Tail(s))[1] = a
         /\ \A i \in 2..Len(s) : (<<a>> \o Tail(s))[i] = s[i]
  <1>1. Tail(s) \in Seq(SUBSET S) /\ Len(Tail(s)) = Len(s) - 1 /\ Len(s) \in Nat \ {0}
        /\ \A i \in 1..(Len(s) - 1) : Tail(s)[i] = s[i + 1]
    OBVIOUS
  <1>2. <<a>> \in Seq(SUBSET S) /\ Len(<<a>>) = 1 /\ <<a>>[1] = a
    OBVIOUS
  <1>3. <<a>> \o Tail(s) \in Seq(SUBSET S) /\ Len(<<a>> \o Tail(s)) = Len(s)
    BY <1>1, <1>2
  <1>4. (<<a>> \o Tail(s))[1] = a
    BY <1>1, <1>2
  <1>5. ASSUME NEW i \in 2..Len(s) PROVE (<<a>> \o Tail(s))[i] = s[i]
    BY <1>1, <1>2
  <1> QED
    BY <1>3, <1>4, <1>5

\* The stack with one more object.
LEMMA Pushed ==
  ASSUME NEW S, NEW s \in Seq(SUBSET S), NEW a \in SUBSET S
  PROVE  /\ <<a>> \o s \in Seq(SUBSET S)
         /\ Len(<<a>> \o s) = Len(s) + 1
         /\ (<<a>> \o s)[1] = a
         /\ \A i \in 1..Len(s) : (<<a>> \o s)[i + 1] = s[i]
  <1>1. <<a>> \in Seq(SUBSET S) /\ Len(<<a>>) = 1 /\ <<a>>[1] = a /\ Len(s) \in Nat
    OBVIOUS
  <1>2. <<a>> \o s \in Seq(SUBSET S) /\ Len(<<a>> \o s) = Len(s) + 1
    BY <1>1
  <1>3. (<<a>> \o s)[1] = a
    BY <1>1
  <1>4. ASSUME NEW i \in 1..Len(s) PROVE (<<a>> \o s)[i + 1] = s[i]
    BY <1>1
  <1> QED
    BY <1>2, <1>3, <1>4

\* The driver finds the first key that is there.
LEMMA LookupFirst ==
  ASSUME NEW o, NEW f \in Fields, NEW m \in DOMAIN Keys[f], Key(f, m) \in DOMAIN o,
         \A i \in DOMAIN Keys[f] : i < m => Key(f, i) \notin DOMAIN o
  PROVE  GetValueFromDriverOptions(o, Type[f], Keys[f]) = o[Key(f, m)]
  <1> DEFINE present == {i \in DOMAIN Keys[f] : <<Type[f], Keys[f][i]>> \in DOMAIN o}
  <1>1. present \in SUBSET Nat /\ m \in present
    BY KeyNumbers DEF Key
  <1>2. \A y \in present : m <= y
    <2> SUFFICES ASSUME NEW y \in present PROVE m <= y
      OBVIOUS
    <2>1. y \in Nat /\ m \in Nat /\ ~(y < m)
      BY <1>1 DEF Key
    <2> QED
      BY <2>1
  <1>3. Min(present) = m
    BY <1>1, <1>2, MinIs
  <1>4. GetValueFromDriverOptions(o, Type[f], Keys[f])
          = IF present = {} THEN Zero(Type[f]) ELSE o[<<Type[f], Keys[f][Min(present)]>>]
    BY DEF GetValueFromDriverOptions
  <1> QED
    BY <1>1, <1>3, <1>4 DEF Key

\* It finds the zero value when there is none.
LEMMA LookupNone ==
  ASSUME NEW o, NEW f \in Fields, \A i \in DOMAIN Keys[f] : Key(f, i) \notin DOMAIN o
  PROVE  GetValueFromDriverOptions(o, Type[f], Keys[f]) = Zero(Type[f])
  <1>1. {i \in DOMAIN Keys[f] : <<Type[f], Keys[f][i]>> \in DOMAIN o} = {}
    BY DEF Key
  <1> QED
    BY <1>1 DEF GetValueFromDriverOptions

-----------------------------------------------------------------------------
(* The state that the driver makes of its options.                         *)

\* The state has every field, and no tag that is not a pair.
LEMMA StateShape ==
  /\ DOMAIN getStateFromOptions = Fields
  /\ getStateFromOptions # NoState
  /\ getStateFromOptions.tags \cap MalFormed = {}
  /\ \A f \in Fields : getStateFromOptions[f]
                         = Parsed(f, GetValueFromDriverOptions(opts, Type[f], Keys[f]))
  <1>1. DOMAIN getStateFromOptions = Fields
        /\ \A f \in Fields : getStateFromOptions[f]
                               = Parsed(f, GetValueFromDriverOptions(opts, Type[f], Keys[f]))
    BY DEF getStateFromOptions
  <1>2. getStateFromOptions # NoState
    BY <1>1, FieldNames DEF NoState
  <1>3. getStateFromOptions["tags"]
          = GetValueFromDriverOptions(opts, Type["tags"], Keys["tags"]) \ MalFormed
    BY <1>1, FieldNames DEF Parsed
  <1>4. getStateFromOptions.tags \cap MalFormed = {}
    BY <1>3
  <1> QED
    BY <1>1, <1>2, <1>4

\* Its name is that of the cluster, its place that of the record if there is one.
LEMMA StatePlace ==
  ASSUME MergeInv, phase = "drive"
  PROVE  /\ getStateFromOptions.name = ClusterName
         /\ record # NoState => /\ getStateFromOptions.resourceGroup = record.resourceGroup
                                /\ getStateFromOptions.location = record.location
  <1>1. left = {} /\ Merging
    BY DEF MergeInv, Merging
  <1>2. getStateFromOptions.name = ClusterName
    <2>1. Key("name", 1) = <<"string", "name">> /\ 1 \in DOMAIN Keys["name"] /\ "name" \in Fields
      BY FieldNames DEF Key, Type, Keys
    <2>2. \A i \in DOMAIN Keys["name"] : ~(i < 1)
      BY <2>1, KeyNumbers
    <2>3. GetValueFromDriverOptions(opts, Type["name"], Keys["name"]) = ClusterName
      BY <1>1, <2>1, <2>2, LookupFirst DEF MergeInv
    <2> QED
      BY <2>1, <2>3, StateShape DEF Parsed
  <1>3. ASSUME record # NoState PROVE getStateFromOptions.resourceGroup = record.resourceGroup
    <2>1. /\ Key("resourceGroup", 1) = <<"string", "resource-group">>
          /\ 1 \in DOMAIN Keys["resourceGroup"] /\ "resourceGroup" \in Fields
      BY FieldNames DEF Key, Type, Keys
    <2>2. \A i \in DOMAIN Keys["resourceGroup"] : ~(i < 1)
      BY <2>1, KeyNumbers
    <2>3. GetValueFromDriverOptions(opts, Type["resourceGroup"], Keys["resourceGroup"])
            = record.resourceGroup
      BY <1>1, <1>3, <2>1, <2>2, LookupFirst DEF MergeInv
    <2> QED
      BY <2>1, <2>3, StateShape DEF Parsed
  <1>4. ASSUME record # NoState PROVE getStateFromOptions.location = record.location
    <2>1. /\ Key("location", 1) = <<"string", "location">>
          /\ 1 \in DOMAIN Keys["location"] /\ "location" \in Fields
      BY FieldNames DEF Key, Type, Keys
    <2>2. \A i \in DOMAIN Keys["location"] : ~(i < 1)
      BY <2>1, KeyNumbers
    <2>3. GetValueFromDriverOptions(opts, Type["location"], Keys["location"]) = record.location
      BY <1>1, <1>4, <2>1, <2>2, LookupFirst DEF MergeInv
    <2> QED
      BY <2>1, <2>3, StateShape DEF Parsed
  <1> QED
    BY <1>2, <1>3, <1>4

\* A valid state has the recorded subscription or one that the caller gave.
LEMMA StateSubscription ==
  ASSUME SubscriptionInv, phase = "drive", validate(getStateFromOptions)
  PROVE  \/ getStateFromOptions.subscriptionId \in Subscriptions
         \/ record # NoState /\ getStateFromOptions.subscriptionId = record.subscriptionId
  <1> DEFINE f == "subscriptionId"
             v == GetValueFromDriverOptions(opts, Type[f], Keys[f])
  <1>1. f \in Fields /\ Type[f] = "string" /\ DOMAIN Keys[f] = 1..2
    BY FieldNames DEF Type, Keys
  <1>2. getStateFromOptions.subscriptionId = v
    BY <1>1, StateShape DEF Parsed
  <1>3. v # {""}
    BY <1>1, <1>2 DEF validate, Required, Zero
  <1>4. \A i \in DOMAIN Keys[f] : Key(f, i) \in DOMAIN opts => opts[Key(f, i)] \in Known
    BY DEF SubscriptionInv, Merging
  <1> HIDE DEF f, v
  <1>5. v \in Known
    <2>1. CASE Key(f, 1) \in DOMAIN opts
      <3>1. v = opts[Key(f, 1)]
        BY <1>1, <2>1, LookupFirst DEF v
      <3> QED
        BY <1>1, <1>4, <2>1, <3>1
    <2>2. CASE Key(f, 1) \notin DOMAIN opts /\ Key(f, 2) \in DOMAIN opts
      <3>1. \A i \in DOMAIN Keys[f] : i < 2 => i = 1
        BY <1>1
      <3>2. v = opts[Key(f, 2)]
        BY <1>1, <2>2, <3>1, LookupFirst DEF v
      <3> QED
        BY <1>1, <1>4, <2>2, <3>2
    <2>3. CASE Key(f, 1) \notin DOMAIN opts /\ Key(f, 2) \notin DOMAIN opts
      <3>1. \A i \in DOMAIN Keys[f] : i = 1 \/ i = 2
        BY <1>1
      <3>2. v = Zero(Type[f])
        BY <1>1, <2>3, <3>1, LookupNone DEF v
      <3> QED
        BY <1>1, <1>3, <3>2 DEF Zero
    <2> QED
      BY <2>1, <2>2, <2>3
  <1> QED
    BY <1>2, <1>3, <1>5 DEF Known

\* A given field has a value that the caller gave.
LEMMA StateGiven ==
  ASSUME GivenInv, phase = "drive", operation # "etcd", NEW f \in Fields, NEW m \in Nat,
         FirstGiven(f, m)
  PROVE  Min(GivenAt(f)) = m /\ getStateFromOptions[f] \in Given(f)
  <1>1. GivenAt(f) \in SUBSET Nat /\ m \in GivenAt(f) /\ \A i \in GivenAt(f) : m <= i
    BY KeyNumbers DEF FirstGiven, GivenAt
  <1>2. Min(GivenAt(f)) = m
    BY <1>1, MinIs
  <1>3. Applied(f, m)
    BY DEF GivenInv, Merging
  <1>4. m \in DOMAIN Keys[f]
    BY <1>1 DEF GivenAt
  <1>5. PICK e \in GivenUnder(f, m) : opts[Key(f, m)] = e.val
    BY <1>3 DEF Applied
  <1>6. GetValueFromDriverOptions(opts, Type[f], Keys[f]) = e.val
    BY <1>3, <1>4, <1>5, LookupFirst DEF Applied
  <1>7. Parsed(f, e.val) \in Given(f)
    BY <1>2 DEF Given
  <1> QED
    BY <1>2, <1>6, <1>7, StateShape

\* A field that an Update of the service leaves out has its recorded value.
LEMMA StateKept ==
  ASSUME RecordInv, MergeInv, KeptInv, phase = "drive", operation = "update", source = "service",
         NEW f \in Fields, GivenAt(f) = {}
  PROVE  getStateFromOptions[f] = record[f]
  <1>1. record # NoState /\ record.name = ClusterName /\ record.tags \cap MalFormed = {}
    BY DEF RecordInv
  <1>2. CASE f \in {"name", "resourceGroup", "location"}
    BY <1>1, <1>2, StatePlace
  <1>3. CASE f \notin {"name", "resourceGroup", "location"}
    <2>1. Left(f) /\ left = {}
      BY <1>3 DEF Left, MergeInv
    <2>2. /\ \A i \in DOMAIN Keys[f] : Key(f, i) \in DOMAIN opts =>
               Keys[f][i] = JSONKey[f] /\ opts[Key(f, i)] = record[f]
          /\ record[f] # Zero(Type[f]) => StateKey(f) \in DOMAIN opts
      BY <2>1 DEF KeptInv, Merging
    <2>3. GetValueFromDriverOptions(opts, Type[f], Keys[f]) = record[f]
      <3>1. CASE \E i \in DOMAIN Keys[f] : Key(f, i) \in DOMAIN opts
        <4>1. PICK m \in DOMAIN Keys[f] : Key(f, m) \in DOMAIN opts
          BY <3>1
        <4>2. \A i \in DOMAIN Keys[f] : i < m => Key(f, i) \notin DOMAIN opts
          <5> SUFFICES ASSUME NEW i \in DOMAIN Keys[f], i < m, Key(f, i) \in DOMAIN opts
                       PROVE  FALSE
            OBVIOUS
          <5>1. Keys[f][i] = Keys[f][m]
            BY <2>2, <4>1
          <5>2. i = m /\ i \in Nat
            BY <5>1, KeysDiffer, KeyNumbers
          <5> QED
            BY <5>2
        <4> QED
          BY <2>2, <4>1, <4>2, LookupFirst
      <3>2. CASE \A i \in DOMAIN Keys[f] : Key(f, i) \notin DOMAIN opts
        <4>1. PICK i \in DOMAIN Keys[f] : JSONKey[f] = Keys[f][i]
          BY StateKeyKnown
        <4>2. record[f] = Zero(Type[f])
          BY <2>2, <3>2, <4>1 DEF StateKey, Key
        <4> QED
          BY <3>2, <4>2, LookupNone
      <3> QED
        BY <3>1, <3>2
    <2>4. Parsed(f, record[f]) = record[f]
      BY <1>1 DEF Parsed
    <2> QED
      BY <2>3, <2>4, StateShape
  <1> QED
    BY <1>2, <1>3

-----------------------------------------------------------------------------
(* Every step preserves the invariant, part by part.                       *)

\* The record and the clusters: only Drive and Remove change them, and a state that
\* is driven is at the place of the record.
LEMMA RecordStep ==
  ASSUME OptionsInv, [OptionsNext]_optionVars
  PROVE  RecordInv' /\ PlaceKept'
  <1> USE DEF OptionsInv
  <1>1. ASSUME NEW o \in {"create", "update", "etcd"}, NEW from, NEW given,
               BeginCall(o, from, given)
        PROVE  RecordInv' /\ PlaceKept'
    BY <1>1 DEF BeginCall, RecordInv, PlaceKept, Place
  <1>2. CASE Visit \/ Leave
    BY <1>2 DEF Visit, Leave, call, RecordInv, PlaceKept, Place
  <1>3. CASE SetName \/ MergeKey \/ Merged
    BY <1>3 DEF SetName, MergeKey, Merged, call, RecordInv, PlaceKept, Place
  <1>4. CASE Reject
    BY <1>4 DEF Reject, call, RecordInv, PlaceKept, Place
  <1>5. CASE Drive
    <2> DEFINE st == getStateFromOptions
               place == IF record = NoState THEN {} ELSE {Place(record)}
    <2>1. /\ phase = "drive" /\ operation # "etcd" /\ phase' = "idle" /\ validate(st)
          /\ clusters' = clusters \cup {Place(st)} /\ moved' = moved \cup Moves
          /\ operation' = operation
          /\ \/ record' = st /\ recordStatus' = "created"
             \/ operation = "create" /\ record' = st /\ recordStatus' = "error"
             \/ operation = "update" /\ UNCHANGED <<record, recordStatus>>
      BY <1>5 DEF Drive, call
    <2>2. DOMAIN st = Fields /\ st # NoState /\ st.tags \cap MalFormed = {}
      BY StateShape
    <2>3. st.name = ClusterName /\ (record # NoState => st.resourceGroup = record.resourceGroup)
      BY <2>1, StatePlace
    <2>4. \/ st.subscriptionId \in Subscriptions
          \/ record # NoState /\ st.subscriptionId = record.subscriptionId
      BY <2>1, StateSubscription
    <2>5. operation = "update" => record # NoState
      BY <2>1 DEF RecordInv
    <2> HIDE DEF st
    <2>6. RecordInv'
      BY <2>1, <2>2, <2>3 DEF RecordInv
    <2>7. record # NoState =>
            Place(st) = Place(record) \/ {Place(st), Place(record)} \subseteq Moves
      <3> SUFFICES ASSUME record # NoState, st.subscriptionId # record.subscriptionId
                   PROVE  {Place(st), Place(record)} \subseteq Moves
        BY <2>3 DEF Place, RecordInv
      <3>1. Moves = {<<s, record.resourceGroup, record.name>> :
                       s \in Subscriptions \cup {record.subscriptionId}}
        BY <2>4 DEF Moves
      <3>2. Place(st) = <<st.subscriptionId, record.resourceGroup, record.name>>
        BY <2>3 DEF Place, RecordInv
      <3> QED
        BY <2>4, <3>1, <3>2 DEF Place
    <2>8. clusters \subseteq moved \cup place
      BY DEF PlaceKept
    <2>9. CASE record' = st
      <3>1. Place(record)' = Place(st) /\ record' # NoState
        BY <2>2, <2>9 DEF Place
      <3>2. clusters' \subseteq moved' \cup {Place(st)}
        BY <2>1, <2>7, <2>8
      <3> QED
        BY <2>6, <3>1, <3>2 DEF PlaceKept, NoState
    <2>10. CASE operation = "update" /\ UNCHANGED <<record, recordStatus>>
      <3>1. Place(record)' = Place(record)
        BY <2>10 DEF Place
      <3>2. clusters' \subseteq moved' \cup {Place(record)}
        BY <2>1, <2>5, <2>7, <2>8, <2>10
      <3> QED
        BY <2>5, <2>6, <2>10, <3>1, <3>2 DEF PlaceKept, NoState
    <2> QED
      BY <2>1, <2>9, <2>10
  <1>6. CASE Remove
    BY <1>6 DEF Remove, call, RecordInv, PlaceKept, Place, NoState
  <1>7. CASE UNCHANGED optionVars
    BY <1>7 DEF optionVars, RecordInv, PlaceKept, Place
  <1> QED
    BY <1>1, <1>2, <1>3, <1>4, <1>5, <1>6, <1>7 DEF OptionsNext

\* The options of the name, the resource group and the location.
LEMMA MergeStep ==
  ASSUME OptionsInv, [OptionsNext]_optionVars
  PROVE  MergeInv'
  <1> USE DEF OptionsInv, Merging
  <1>1. ASSUME NEW o, NEW from, NEW given, BeginCall(o, from, given) PROVE MergeInv'
    BY <1>1 DEF BeginCall, MergeInv
  <1>2. CASE Visit
    <2>1. UNCHANGED <<record, phase, left>>
      BY <1>2 DEF Visit
    <2>2. CASE phase = "flatten"
      BY <2>1, <2>2 DEF MergeInv
    <2>3. CASE phase = "state"
      <3>1. /\ DOMAIN opts \subseteq DOMAIN opts'
            /\ \A x \in DOMAIN opts : opts'[x] = opts[x]
        BY <1>2, <2>3, FlattenKeeps DEF Visit
      <3> QED
        BY <2>1, <2>3, <3>1 DEF MergeInv
    <2> QED
      BY <1>2, <2>2, <2>3 DEF Visit
  <1>3. CASE Leave
    BY <1>3 DEF Leave, MergeInv
  <1>4. CASE SetName
    <2>1. opts' = Assign(opts, <<"string", "name">>, ClusterName) /\ phase' = "merge"
          /\ left' = (IF record = NoState THEN {} ELSE {"resource-group", "location", "state"})
          /\ record' = record
      BY <1>4 DEF SetName
    <2>2. <<"string", "name">> \in DOMAIN opts' /\ opts'[<<"string", "name">>] = ClusterName
      BY <2>1 DEF Assign
    <2> QED
      BY <2>1, <2>2 DEF MergeInv, ClusterName, NoState
  <1>5. CASE MergeKey
    <2>1. PICK key \in left :
            /\ left' = left \ {key}
            /\ IF key = "state" /\ operation # "create"
                 THEN phase' = "state" /\ stack' = <<StateJSON(record)>> /\ UNCHANGED opts
                 ELSE /\ opts' = MergeValue(key, IF key = "state" THEN {"json"} ELSE Metadata(key))
                      /\ UNCHANGED <<phase, stack>>
      BY <1>5 DEF MergeKey
    <2>2. phase = "merge" /\ record' = record /\ record # NoState
      BY <1>5, <2>1 DEF MergeKey, MergeInv
    <2>3. CASE key = "state" /\ operation # "create"
      BY <2>1, <2>2, <2>3 DEF MergeInv, ClusterName, NoState
    <2>4. CASE ~(key = "state" /\ operation # "create")
      <3> DEFINE v == IF key = "state" THEN {"json"} ELSE Metadata(key)
      <3>1. /\ DOMAIN opts' = DOMAIN opts \cup {<<"string", key>>}
            /\ opts'[<<"string", key>>] = v
            /\ \A x \in DOMAIN opts : x # <<"string", key>> => opts'[x] = opts[x]
            /\ UNCHANGED phase
        BY <2>1, <2>4 DEF MergeValue, Assign
      <3>2. key = "location" => v = record.location
        BY DEF Metadata
      <3>3. key = "resource-group" => v = record.resourceGroup
        BY DEF Metadata
      <3>4. key # "name"
        BY <2>1 DEF MergeInv
      <3> HIDE DEF v
      <3> QED
        BY <2>1, <2>2, <3>1, <3>2, <3>3, <3>4 DEF MergeInv, ClusterName, NoState
    <2> QED
      BY <2>3, <2>4
  <1>6. CASE Merged
    BY <1>6 DEF Merged, MergeInv, ClusterName, NoState
  <1>7. CASE Reject \/ Drive \/ Remove
    BY <1>7 DEF Reject, Drive, Remove, MergeInv
  <1>8. CASE UNCHANGED optionVars
    BY <1>8 DEF optionVars, MergeInv
  <1> QED
    BY <1>1, <1>2, <1>3, <1>4, <1>5, <1>6, <1>7, <1>8 DEF OptionsNext

\* The elements of the recorded JSON: each is the option of a field that is not zero.
LEMMA StateElement ==
  ASSUME NEW st, NEW e \in StateJSON(st)
  PROVE  /\ \E g \in Fields : Option(e) = StateKey(g) /\ e.val = st[g]
         /\ ~Ignored(e)
         /\ e.kind = "map" => e.key = "tags"
  <1>1. PICK g \in Fields :
          e = [key |-> JSONKey[g], kind |-> IF g = "tags" THEN "map" ELSE Type[g],
               val |-> st[g], sub |-> {}]
    BY DEF StateJSON
  <1>2. e.key = JSONKey[g] /\ e.val = st[g] /\ e.kind = IF g = "tags" THEN "map" ELSE Type[g]
    BY <1>1
  <1>3. (g = "tags" => Type[g] = "slice" /\ JSONKey[g] = "tags")
        /\ (g # "tags" => Type[g] \in {"string", "int"})
    BY FieldNames DEF Type, JSONKey
  <1>4. Option(e) = StateKey(g)
    BY <1>2, <1>3 DEF Option, StateKey
  <1> QED
    BY <1>2, <1>3, <1>4 DEF Ignored

\* Every field that is not zero has its element.
LEMMA StateElementOf ==
  ASSUME NEW st, NEW g \in Fields, st[g] # Zero(Type[g])
  PROVE  \E e \in StateJSON(st) : Option(e) = StateKey(g)
  <1> DEFINE e == [key |-> JSONKey[g], kind |-> IF g = "tags" THEN "map" ELSE Type[g],
                   val |-> st[g], sub |-> {}]
  <1>1. e \in StateJSON(st)
    BY DEF StateJSON
  <1>2. e.key = JSONKey[g] /\ e.kind = IF g = "tags" THEN "map" ELSE Type[g]
    OBVIOUS
  <1>3. (g = "tags" => Type[g] = "slice") /\ (g # "tags" => Type[g] \in {"string", "int"})
    BY FieldNames DEF Type
  <1> HIDE DEF e
  <1>4. Option(e) = StateKey(g)
    BY <1>2, <1>3 DEF Option, StateKey
  <1> QED
    BY <1>1, <1>4

\* A step of flattenIfNotExist over the recorded state.
LEMMA VisitState ==
  ASSUME StateInv, Visit, phase = "state"
  PROVE  /\ UNCHANGED <<recordStatus, record, phase, operation, source, config, left>>
         /\ \E e \in stack[1] : /\ e \in StateJSON(record)
                                /\ stack' = <<stack[1] \ {e}>>
                                /\ opts' = flattenIfNotExist(opts, e)
  <1>1. UNCHANGED <<recordStatus, record, phase, operation, source, config, left>>
    BY DEF Visit, call
  <1>2. stack = <<stack[1]>> /\ stack[1] \subseteq StateJSON(record)
    BY DEF StateInv
  <1>3. Head(stack) = stack[1] /\ Tail(stack) = <<>>
    <2>1. ASSUME NEW a PROVE Head(<<a>>) = a /\ Tail(<<a>>) = <<>>
      OBVIOUS
    <2> QED
      BY <1>2, <2>1
  <1>4. PICK e \in Head(stack) :
          LET rest == <<Head(stack) \ {e}>> \o Tail(stack)
          IN IF e.kind = "map" /\ ~Listed(e.key)
               THEN stack' = <<e.sub>> \o rest /\ UNCHANGED opts
               ELSE /\ stack' = rest
                    /\ opts' = IF phase = "flatten" THEN flatten(opts, e)
                                                 ELSE flattenIfNotExist(opts, e)
    BY DEF Visit
  <1>5. e \in StateJSON(record)
    BY <1>2, <1>3
  <1>6. e.kind = "map" => Listed(e.key)
    BY <1>5, StateElement DEF Listed
  <1>7. stack' = <<stack[1] \ {e}>> \o <<>> /\ opts' = flattenIfNotExist(opts, e)
    BY <1>3, <1>4, <1>6
  <1>8. <<stack[1] \ {e}>> \o <<>> = <<stack[1] \ {e}>>
    OBVIOUS
  <1> QED
    BY <1>1, <1>3, <1>5, <1>7, <1>8

\* The object of the recorded state.
LEMMA StateStep ==
  ASSUME OptionsInv, [OptionsNext]_optionVars
  PROVE  StateInv'
  <1> USE DEF OptionsInv
  <1>1. ASSUME NEW o, NEW from, NEW given, BeginCall(o, from, given) PROVE StateInv'
    BY <1>1 DEF BeginCall, StateInv
  <1>2. CASE Visit /\ phase = "state"
    <2>1. PICK e \in stack[1] : stack' = <<stack[1] \ {e}>>
      BY <1>2, VisitState
    <2>2. UNCHANGED <<record, phase, operation, left>>
      BY <1>2, VisitState
    <2>3. StateJSON(record)' = StateJSON(record) /\ NoState' = NoState
      BY <2>2 DEF StateJSON, NoState
    <2>4. Len(stack') = 1 /\ stack'[1] = stack[1] \ {e}
      BY <2>1
    <2> QED
      BY <1>2, <2>1, <2>2, <2>3, <2>4 DEF StateInv
  <1>3. CASE Visit /\ phase # "state"
    BY <1>3 DEF Visit, StateInv
  <1>4. CASE Leave
    BY <1>4 DEF Leave, StateInv
  <1>5. CASE MergeKey
    <2>1. CASE phase' # "state"
      BY <2>1 DEF StateInv
    <2>2. CASE phase' = "state"
      <3>1. /\ operation # "create" /\ "state" \in left /\ left' = left \ {"state"}
            /\ stack' = <<StateJSON(record)>> /\ record' = record /\ operation' = operation
        BY <1>5, <2>2 DEF MergeKey, call
      <3>2. record # NoState
        BY <1>5, <3>1 DEF MergeKey, MergeInv, Merging
      <3>3. StateJSON(record)' = StateJSON(record) /\ NoState' = NoState
        BY <3>1 DEF StateJSON, NoState
      <3>4. Len(stack') = 1 /\ stack'[1] = StateJSON(record)
        BY <3>1
      <3> QED
        BY <3>1, <3>2, <3>3, <3>4 DEF StateInv
    <2> QED
      BY <2>1, <2>2
  <1>6. CASE SetName \/ Merged \/ Reject \/ Drive \/ Remove
    BY <1>6 DEF SetName, Merged, Reject, Drive, Remove, StateInv
  <1>7. CASE UNCHANGED optionVars
    <2>1. StateJSON(record)' = StateJSON(record) /\ NoState' = NoState
      BY <1>7 DEF StateJSON, NoState, optionVars
    <2> QED
      BY <1>7, <2>1 DEF optionVars, StateInv
  <1> QED
    BY <1>1, <1>2, <1>3, <1>4, <1>5, <1>6, <1>7 DEF OptionsNext

\* What the caller gave is the same throughout a call.
LEMMA GivenUnchanged ==
  ASSUME UNCHANGED config
  PROVE  /\ Elements' = Elements /\ Reachable' = Reachable
         /\ \A f, i : GivenUnder(f, i)' = GivenUnder(f, i)
         /\ \A f : GivenAt(f)' = GivenAt(f)
  <1>1. Elements' = Elements
    BY DEF Elements
  <1> QED
    BY <1>1 DEF Reachable, Nested, GivenUnder, GivenAt

\* The elements of an object are those it has itself and those of its objects.
LEMMA PartsOf ==
  ASSUME NEW o \in DOMAIN Parts
  PROVE  /\ o \subseteq Parts[o]
         /\ \A e \in o : Nested(e) => e.sub \in DOMAIN Parts /\ Parts[e.sub] \subseteq Parts[o]
         /\ \A x \in Parts[o] : x \in o \/ \E d \in o : Nested(d) /\ x \in Parts[d.sub]
  <1>1. /\ \A e \in o : Nested(e) => e.sub \in DOMAIN Parts
        /\ Parts[o] = o \cup UNION {Parts[e.sub] : e \in {d \in o : Nested(d)}}
    BY OptionsAssumption
  <1> QED
    BY <1>1

\* A step of flatten over the configuration: an object is entered.
LEMMA EnterObject ==
  ASSUME FlattenInv, phase = "flatten", stack # <<>>, NEW e \in Head(stack),
         Nested(e),
         stack' = <<e.sub>> \o (<<Head(stack) \ {e}>> \o Tail(stack)),
         UNCHANGED <<phase, source, config, opts>>
  PROVE  FlattenInv'
  <1> DEFINE rest == <<Head(stack) \ {e}>> \o Tail(stack)
  <1>1. stack \in Seq(SUBSET Reachable) /\ config \in Configs /\ source = "service"
    BY DEF FlattenInv
  <1>2. Len(stack) \in Nat \ {0} /\ Head(stack) = stack[1] /\ stack[1] \subseteq Reachable
    BY <1>1
  <1>3. Head(stack) \ {e} \in SUBSET Reachable /\ e \in Reachable /\ e \in Elements
    BY <1>2 DEF Reachable
  <1>4. e.sub \in DOMAIN Parts /\ e.sub \in SUBSET Reachable
    <2>1. e.sub \in DOMAIN Parts /\ Parts[e.sub] \subseteq Elements
      BY <1>3 DEF Reachable
    <2> QED
      BY <2>1, PartsOf DEF Reachable
  <1>5. /\ rest \in Seq(SUBSET Reachable) /\ Len(rest) = Len(stack)
        /\ rest[1] = Head(stack) \ {e}
        /\ \A i \in 2..Len(stack) : rest[i] = stack[i]
    BY <1>1, <1>3, TopReplaced
  <1> HIDE DEF rest
  <1>6. /\ <<e.sub>> \o rest \in Seq(SUBSET Reachable) /\ Len(<<e.sub>> \o rest) = Len(stack) + 1
        /\ (<<e.sub>> \o rest)[1] = e.sub
        /\ \A i \in 1..Len(stack) : (<<e.sub>> \o rest)[i + 1] = rest[i]
    BY <1>4, <1>5, Pushed
  <1>7. stack' = <<e.sub>> \o rest
    BY DEF rest
  <1>8. ASSUME NEW i \in 1..Len(stack), NEW x \in stack[i], x # e
        PROVE  i + 1 \in 1..Len(stack') /\ x \in stack'[i + 1]
    <2>1. i + 1 \in 1..(Len(stack) + 1) /\ (<<e.sub>> \o rest)[i + 1] = rest[i]
      BY <1>2, <1>6
    <2>2. i + 1 \in 1..Len(stack') /\ stack'[i + 1] = rest[i]
      BY <1>6, <1>7, <2>1
    <2>3. x \in rest[i]
      <3>1. CASE i = 1
        BY <1>2, <1>5, <1>8, <3>1
      <3>2. CASE i # 1
        BY <1>2, <1>5, <1>8, <3>2
      <3> QED
        BY <3>1, <3>2
    <2> QED
      BY <2>2, <2>3
  <1>9. 1 \in 1..Len(stack') /\ stack'[1] = e.sub
    BY <1>2, <1>6, <1>7
  <1>10. ASSUME NEW x \in Elements, Sets(x), Waiting(x) PROVE Waiting(x)'
    <2>1. PICK i \in 1..Len(stack) :
            \/ x \in stack[i]
            \/ \E d \in stack[i] : Nested(d) /\ x \in Parts[d.sub]
      BY <1>10 DEF Waiting
    <2>2. CASE x \in stack[i]
      <3>1. x # e
        BY <1>10 DEF Sets, Nested
      <3> QED
        BY <1>8, <2>2, <3>1 DEF Waiting
    <2>3. ASSUME NEW d \in stack[i], Nested(d), x \in Parts[d.sub]
          PROVE  Waiting(x)'
      <3>1. CASE d = e
        <4>1. x \in e.sub \/ \E c \in e.sub : Nested(c) /\ x \in Parts[c.sub]
          BY <1>4, <2>3, <3>1, PartsOf
        <4> QED
          BY <1>9, <4>1 DEF Waiting, Nested
      <3>2. CASE d # e
        BY <1>8, <2>3, <3>2 DEF Waiting, Nested
      <3> QED
        BY <3>1, <3>2
    <2> QED
      BY <2>1, <2>2, <2>3
  <1>11. Elements' = Elements /\ Reachable' = Reachable
    BY GivenUnchanged
  <1>12. stack' \in Seq(SUBSET Reachable)
    BY <1>6, <1>7
  <1>13. /\ \A o \in DOMAIN opts :
              o # <<"slice", "labels">> =>
                \E x \in Elements : Sets(x) /\ Option(x) = o /\ opts[o] = x.val
         /\ \A x \in Elements : Sets(x) => Option(x) \in DOMAIN opts \/ Waiting(x)
    BY DEF FlattenInv
  <1>14. \A x \in Elements : Sets(x) => Option(x) \in DOMAIN opts \/ Waiting(x)'
    BY <1>10, <1>13
  <1> QED
    BY <1>1, <1>11, <1>12, <1>13, <1>14 DEF FlattenInv, Sets, Option, Ignored

\* Another element sets its option.
LEMMA SetOption ==
  ASSUME FlattenInv, phase = "flatten", stack # <<>>, NEW e \in Head(stack),
         ~Nested(e),
         stack' = <<Head(stack) \ {e}>> \o Tail(stack), opts' = flatten(opts, e),
         UNCHANGED <<phase, source, config>>
  PROVE  FlattenInv'
  <1>1. stack \in Seq(SUBSET Reachable) /\ config \in Configs /\ source = "service"
    BY DEF FlattenInv
  <1>2. Len(stack) \in Nat \ {0} /\ Head(stack) = stack[1] /\ stack[1] \subseteq Reachable
    BY <1>1
  <1>3. Head(stack) \ {e} \in SUBSET Reachable /\ e \in Reachable /\ e \in Elements
    BY <1>2 DEF Reachable
  <1>4. /\ stack' \in Seq(SUBSET Reachable) /\ Len(stack') = Len(stack)
        /\ stack'[1] = Head(stack) \ {e}
        /\ \A i \in 2..Len(stack) : stack'[i] = stack[i]
    BY <1>1, <1>3, TopReplaced
  <1>5. ASSUME NEW i \in 1..Len(stack), NEW x \in stack[i], x # e
        PROVE  i \in 1..Len(stack') /\ x \in stack'[i]
    <2>1. CASE i = 1
      BY <1>2, <1>4, <1>5, <2>1
    <2>2. CASE i # 1
      BY <1>2, <1>4, <1>5, <2>2
    <2> QED
      BY <2>1, <2>2
  <1>6. ASSUME NEW x \in Elements, x # e, Waiting(x) PROVE Waiting(x)'
    <2>1. PICK i \in 1..Len(stack) :
            \/ x \in stack[i]
            \/ \E d \in stack[i] : Nested(d) /\ x \in Parts[d.sub]
      BY <1>6 DEF Waiting
    <2> QED
      BY <1>5, <1>6, <2>1 DEF Waiting, Nested
  <1>7. /\ DOMAIN opts \subseteq DOMAIN opts'
        /\ Sets(e) => Option(e) \in DOMAIN opts'
        /\ \A o \in DOMAIN opts' : \/ o \in DOMAIN opts /\ opts'[o] = opts[o]
                                   \/ ~Ignored(e) /\ o = Option(e) /\ opts'[o] = e.val
    <2>1. CASE Ignored(e)
      BY <2>1 DEF flatten, Sets
    <2>2. CASE ~Ignored(e)
      <3>1. opts' = Assign(opts, Option(e), e.val)
        BY <2>2 DEF flatten
      <3> QED
        BY <2>2, <3>1 DEF Assign
    <2> QED
      BY <2>1, <2>2
  <1>8. ~Ignored(e) /\ Option(e) # <<"slice", "labels">> => Sets(e)
    BY DEF Sets, Option, Nested
  <1>9. /\ \A o \in DOMAIN opts :
              o # <<"slice", "labels">> =>
                \E x \in Elements : Sets(x) /\ Option(x) = o /\ opts[o] = x.val
        /\ \A x \in Elements : Sets(x) => Option(x) \in DOMAIN opts \/ Waiting(x)
    BY DEF FlattenInv
  <1>10. \A o \in DOMAIN opts' :
           o # <<"slice", "labels">> =>
             \E x \in Elements : Sets(x) /\ Option(x) = o /\ opts'[o] = x.val
    BY <1>3, <1>7, <1>8, <1>9
  <1>11. \A x \in Elements : Sets(x) => Option(x) \in DOMAIN opts' \/ Waiting(x)'
    BY <1>6, <1>7, <1>9
  <1>12. Elements' = Elements /\ Reachable' = Reachable
    BY GivenUnchanged
  <1> QED
    BY <1>1, <1>4, <1>10, <1>11, <1>12 DEF FlattenInv, Sets, Option, Ignored

\* Flattening goes on or ends.
LEMMA FlattenStep ==
  ASSUME OptionsInv, [OptionsNext]_optionVars
  PROVE  FlattenInv'
  <1> USE DEF OptionsInv
  <1>1. ASSUME NEW o, NEW c \in Configs, BeginCall(o, "service", c) PROVE FlattenInv'
    <2>1. /\ phase' = "flatten" /\ source' = "service" /\ config' = c
          /\ opts' = NoState /\ stack' = <<c>>
      BY <1>1 DEF BeginCall
    <2>2. /\ c \in DOMAIN Parts /\ c \subseteq Reachable'
          /\ \A x \in Elements' : x \in c \/ \E d \in c : Nested(d) /\ x \in Parts[d.sub]
      <3>1. c \in DOMAIN Parts
        BY OptionsAssumption
      <3>2. Elements' = Parts[c]
        BY <2>1 DEF Elements
      <3> QED
        BY <3>1, <3>2, PartsOf DEF Reachable, Nested
    <2>3. stack' \in Seq(SUBSET Reachable') /\ Len(stack') = 1 /\ stack'[1] = c
      BY <2>1, <2>2
    <2>4. \A x \in Elements' : Waiting(x)'
      BY <2>2, <2>3 DEF Waiting, Nested
    <2>5. DOMAIN opts' = {}
      BY <2>1 DEF NoState
    <2> QED
      BY <1>1, <2>1, <2>3, <2>4, <2>5 DEF FlattenInv
  <1>2. ASSUME NEW o, NEW c, BeginCall(o, "command", c) PROVE FlattenInv'
    BY <1>2 DEF BeginCall, FlattenInv
  <1>3. CASE Visit /\ phase = "flatten"
    <2>1. stack # <<>> /\ UNCHANGED <<phase, source, config>>
      BY <1>3 DEF Visit, call
    <2>2. PICK e \in Head(stack) :
            LET rest == <<Head(stack) \ {e}>> \o Tail(stack)
            IN IF e.kind = "map" /\ ~Listed(e.key)
                 THEN stack' = <<e.sub>> \o rest /\ UNCHANGED opts
                 ELSE /\ stack' = rest
                      /\ opts' = IF phase = "flatten" THEN flatten(opts, e)
                                                   ELSE flattenIfNotExist(opts, e)
      BY <1>3 DEF Visit
    <2>3. e.kind = "map" /\ ~Listed(e.key) <=> Nested(e)
      BY <1>3 DEF Listed, Nested
    <2>4. CASE Nested(e)
      BY <1>3, <2>1, <2>2, <2>3, <2>4, EnterObject
    <2>5. CASE ~Nested(e)
      BY <1>3, <2>1, <2>2, <2>3, <2>5, SetOption
    <2> QED
      BY <2>4, <2>5
  <1>4. CASE Visit /\ phase # "flatten"
    BY <1>4 DEF Visit, FlattenInv
  <1>5. CASE Leave
    <2>1. CASE phase' # "flatten"
      BY <2>1 DEF FlattenInv
    <2>2. CASE phase' = "flatten"
      <3>1. /\ phase = "flatten" /\ stack # <<>> /\ Head(stack) = {} /\ stack' = Tail(stack)
            /\ Len(stack) > 1 /\ UNCHANGED <<source, config, opts>>
        BY <1>5, <2>2 DEF Leave, call
      <3>2. stack \in Seq(SUBSET Reachable)
        BY <3>1 DEF FlattenInv
      <3>3. /\ stack' \in Seq(SUBSET Reachable) /\ Len(stack') = Len(stack) - 1
            /\ Len(stack) \in Nat /\ stack[1] = {}
            /\ \A i \in 1..(Len(stack) - 1) : stack'[i] = stack[i + 1]
        BY <3>1, <3>2
      <3>4. ASSUME NEW x, Waiting(x) PROVE Waiting(x)'
        <4>1. PICK i \in 1..Len(stack) :
                \/ x \in stack[i]
                \/ \E d \in stack[i] : Nested(d) /\ x \in Parts[d.sub]
          BY <3>4 DEF Waiting
        <4>2. i # 1
          BY <3>3, <4>1
        <4>3. i - 1 \in 1..Len(stack') /\ stack'[i - 1] = stack[i]
          BY <3>3, <4>2
        <4> QED
          BY <4>1, <4>3 DEF Waiting, Nested
      <3>5. Elements' = Elements /\ Reachable' = Reachable
        BY <3>1, GivenUnchanged
      <3> QED
        BY <2>2, <3>1, <3>3, <3>4, <3>5 DEF FlattenInv, Sets, Option, Ignored
    <2> QED
      BY <2>1, <2>2
  <1>6. CASE SetName \/ MergeKey \/ Merged \/ Reject \/ Drive \/ Remove
    BY <1>6 DEF SetName, MergeKey, Merged, Reject, Drive, Remove, FlattenInv
  <1>7. CASE UNCHANGED optionVars
    <2>1. Elements' = Elements /\ Reachable' = Reachable /\ \A x : Waiting(x)' <=> Waiting(x)
      BY <1>7, GivenUnchanged DEF optionVars, Waiting, Nested
    <2> QED
      BY <1>7, <2>1 DEF optionVars, FlattenInv, Sets, Option, Ignored
  <1> QED
    BY <1>1, <1>2, <1>3, <1>4, <1>5, <1>6, <1>7 DEF OptionsNext

\* An option of a field that flattening has set is one the caller gave.
LEMMA Provenance ==
  ASSUME FlattenInv, phase = "flatten", NEW f \in Fields, NEW i \in DOMAIN Keys[f],
         Key(f, i) \in DOMAIN opts
  PROVE  \E e \in GivenUnder(f, i) : opts[Key(f, i)] = e.val
  <1>1. Key(f, i) # <<"slice", "labels">>
    BY MergedKeys DEF Key
  <1>2. PICK e \in Elements : Sets(e) /\ Option(e) = Key(f, i) /\ opts[Key(f, i)] = e.val
    BY <1>1 DEF FlattenInv
  <1>3. e.kind = Type[f] /\ e.key = Keys[f][i]
    BY <1>2 DEF Sets, Option, Key
  <1>4. Type[f] = "slice" => e.val # {}
    BY <1>2, <1>3 DEF Sets, Ignored
  <1> QED
    BY <1>2, <1>3, <1>4 DEF GivenUnder

\* A flag that the caller gives is set to a value that it gives.
LEMMA FlagGiven ==
  ASSUME NEW c \in Commands, NEW command \in {"create", "update"}, Accepted(command, c),
         NEW f \in Fields, NEW i \in DOMAIN Keys[f],
         NEW e \in c, e.kind = Type[f], e.key = Keys[f][i]
  PROVE  /\ i = 1
         /\ Key(f, 1) \in DOMAIN getDriverOpts(command, c)
         /\ \E d \in c : /\ d.kind = Type[f] /\ d.key = Keys[f][1]
                         /\ Type[f] = "slice" => d.val # {}
                         /\ getDriverOpts(command, c)[Key(f, 1)] = d.val
  <1>1. Flags(command) \subseteq Fields
    BY FieldNames DEF Flags
  <1>2. PICK g \in Flags(command) : <<e.kind, e.key>> = FlagOption(g)
    BY DEF Accepted
  <1>3. Keys[g][1] = Keys[f][i] /\ 1 \in DOMAIN Keys[g]
    BY <1>1, <1>2, KeyNumbers DEF FlagOption
  <1>4. f = g /\ i = 1
    BY <1>1, <1>3, KeysDiffer
  <1>5. ASSUME NEW h \in Flags(command), FlagOption(h) = Key(f, 1) PROVE h = f
    <2>1. Keys[h][1] = Keys[f][1] /\ 1 \in DOMAIN Keys[h] /\ 1 \in DOMAIN Keys[f]
      BY <1>1, <1>5, KeyNumbers DEF FlagOption, Key
    <2> QED
      BY <1>1, <2>1, KeysDiffer
  <1>6. f \in Flags(command) /\ FlagOption(f) = Key(f, 1)
    BY <1>2, <1>4 DEF FlagOption, Key
  <1>7. (CHOOSE h \in Flags(command) : FlagOption(h) = Key(f, 1)) = f
    BY <1>5, <1>6
  <1> DEFINE value == {d \in c : <<d.kind, d.key>> = FlagOption(f)}
  <1>8. e \in value
    BY <1>2, <1>4
  <1> DEFINE first == CHOOSE d \in value : TRUE
  <1>9. first \in value
    BY <1>8
  <1>10. /\ Key(f, 1) \in DOMAIN getDriverOpts(command, c)
         /\ getDriverOpts(command, c)[Key(f, 1)] = first.val
    BY <1>6, <1>7, <1>8 DEF getDriverOpts
  <1>11. first \in c /\ first.kind = Type[f] /\ first.key = Keys[f][1]
    BY <1>9 DEF FlagOption
  <1>12. first.kind = "slice" => first.val # {}
    BY <1>11, OptionsAssumption
  <1> QED
    BY <1>4, <1>10, <1>11, <1>12

\* What is given stays applied while options of other fields and later keys are set.
LEMMA AppliedKept ==
  ASSUME NEW f \in Fields, NEW m \in DOMAIN Keys[f], Applied(f, m), UNCHANGED config,
         Key(f, m) \in DOMAIN opts', opts'[Key(f, m)] = opts[Key(f, m)],
         \A i \in DOMAIN Keys[f] : i < m /\ Key(f, i) \in DOMAIN opts' => Key(f, i) \in DOMAIN opts
  PROVE  Applied(f, m)'
  <1>1. GivenUnder(f, m)' = GivenUnder(f, m)
    BY GivenUnchanged
  <1>2. Key(f, m)' = Key(f, m) /\ \A i : Key(f, i)' = Key(f, i)
    BY DEF Key, Type, Keys
  <1>3. \E e \in GivenUnder(f, m) : opts'[Key(f, m)] = e.val
    BY DEF Applied
  <1>4. \A i \in DOMAIN Keys[f] : i < m => Key(f, i) \notin DOMAIN opts'
    BY DEF Applied
  <1>5. Keys' = Keys
    BY DEF Keys
  <1> QED
    BY <1>1, <1>2, <1>3, <1>4, <1>5 DEF Applied

\* Which fields are given and left out does not change in a call.
LEMMA FirstGivenUnchanged ==
  ASSUME UNCHANGED <<operation, source, config, record>>, NEW f, NEW m
  PROVE  (FirstGiven(f, m)' <=> FirstGiven(f, m)) /\ (Left(f)' <=> Left(f))
  <1>1. GivenAt(f)' = GivenAt(f)
    BY GivenUnchanged
  <1> QED
    BY <1>1 DEF FirstGiven, Left, Fields, Type, Keys, JSONKey, NoState

\* What the caller gave is in the options at the end of GetConfig, and stays there.
LEMMA GivenStep ==
  ASSUME OptionsInv, [OptionsNext]_optionVars
  PROVE  GivenInv'
  <1> USE DEF OptionsInv, Merging
  <1>0. ASSUME NEW f \in Fields, NEW m, FirstGiven(f, m)
        PROVE  /\ m \in DOMAIN Keys[f] /\ f # "name"
               /\ record # NoState => f \notin {"resourceGroup", "location"}
    BY <1>0 DEF FirstGiven, GivenAt
  <1>1. ASSUME NEW o, NEW c, BeginCall(o, "service", c) PROVE GivenInv'
    BY <1>1 DEF BeginCall, GivenInv
  <1>2. ASSUME NEW o \in {"create", "update"}, NEW c \in Commands, BeginCall(o, "command", c)
        PROVE  GivenInv'
    <2> SUFFICES ASSUME NEW f \in Fields, NEW m \in Nat, FirstGiven(f, m)' PROVE Applied(f, m)'
      BY DEF GivenInv, Fields, Type
    <2>1. config' = c /\ opts' = getDriverOpts(o, c) /\ Accepted(o, c)
      BY <1>2 DEF BeginCall
    <2>2. Elements' = c
      <3>1. c \in DOMAIN Parts
        BY OptionsAssumption
      <3>2. ASSUME NEW e \in c PROVE ~Nested(e)
        <4>1. PICK g \in Fields : e.kind = Type[g]
          BY <2>1, FieldNames DEF Accepted, FlagOption, Flags
        <4> QED
          BY <4>1, FieldNames DEF Nested, Type
      <3> QED
        BY <2>1, <3>1, <3>2, PartsOf DEF Elements
    <2>3. /\ GivenUnder(f, m)'
               = {e \in c : /\ e.kind = Type[f] /\ e.key = Keys[f][m]
                            /\ Type[f] = "slice" => e.val # {}}
          /\ m \in DOMAIN Keys[f] /\ GivenUnder(f, m)' # {}
      BY <2>2 DEF FirstGiven, GivenAt, GivenUnder, Type, Keys
    <2>4. PICK e \in c : e.kind = Type[f] /\ e.key = Keys[f][m]
      BY <2>3
    <2>5. m = 1 /\ Key(f, 1) \in DOMAIN opts'
      BY <2>1, <2>3, <2>4, FlagGiven
    <2>6. PICK d \in c : /\ d.kind = Type[f] /\ d.key = Keys[f][1]
                         /\ Type[f] = "slice" => d.val # {}
                         /\ opts'[Key(f, 1)] = d.val
      BY <2>1, <2>3, <2>4, FlagGiven
    <2>7. \E e2 \in GivenUnder(f, m)' : opts'[Key(f, m)] = e2.val
      BY <2>3, <2>5, <2>6
    <2>8. \A i \in DOMAIN Keys[f] : ~(i < m)
      BY <2>5, KeyNumbers
    <2> QED
      BY <2>5, <2>7, <2>8 DEF Applied, Key, Type, Keys
  <1>3. CASE Visit /\ phase = "flatten"
    BY <1>3 DEF Visit, GivenInv
  <1>4. CASE Visit /\ phase = "state"
    <2> SUFFICES ASSUME NEW f \in Fields, NEW m \in Nat, operation' # "etcd", FirstGiven(f, m)'
                 PROVE  Applied(f, m)'
      BY DEF GivenInv, Fields, Type
    <2>1. UNCHANGED <<record, phase, operation, source, config>>
      BY <1>4, VisitState
    <2>2. PICK e \in StateJSON(record) : opts' = flattenIfNotExist(opts, e)
      BY <1>4, VisitState
    <2>3. FirstGiven(f, m) /\ m \in DOMAIN Keys[f]
      BY <2>1, <1>0, FirstGivenUnchanged
    <2>4. Applied(f, m)
      BY <1>4, <2>1, <2>3 DEF GivenInv
    <2>5. operation = "update"
      BY <1>4, <2>1 DEF StateInv, RecordInv
    <2>6. PICK j \in DOMAIN Keys[f] : Keys[f][j] = JSONKey[f] /\ m <= j
      BY <2>3, <2>5 DEF FirstGiven
    <2>7. PICK g \in Fields : Option(e) = StateKey(g)
      BY StateElement
    <2>8. ASSUME NEW i \in DOMAIN Keys[f], i < m, Key(f, i) \in DOMAIN opts'
          PROVE  Key(f, i) \in DOMAIN opts
      <3> SUFFICES ASSUME Key(f, i) = StateKey(g) PROVE FALSE
        BY <2>2, <2>7, <2>8, FlattenKeeps
      <3>1. Keys[f][i] = Keys[f][j]
        BY <2>6, StateKeysDiffer
      <3>2. i = j /\ i \in Nat
        BY <3>1, KeysDiffer, KeyNumbers
      <3> QED
        BY <2>6, <2>8, <3>2
    <2>9. Key(f, m) \in DOMAIN opts' /\ opts'[Key(f, m)] = opts[Key(f, m)]
      BY <2>2, <2>4, FlattenKeeps DEF Applied
    <2> QED
      BY <2>1, <2>3, <2>4, <2>8, <2>9, AppliedKept
  <1>5. CASE Leave /\ phase = "flatten"
    <2> SUFFICES ASSUME NEW f \in Fields, NEW m \in Nat, FirstGiven(f, m)', phase' = "names"
                 PROVE  Applied(f, m)'
      BY <1>5 DEF GivenInv, Fields, Type, Leave
    <2>1. /\ UNCHANGED <<record, operation, source, config, opts>> /\ stack # <<>>
          /\ Head(stack) = {} /\ ~(Len(stack) > 1)
      BY <1>5 DEF Leave, call
    <2>2. FirstGiven(f, m) /\ m \in DOMAIN Keys[f]
      BY <2>1, <1>0, FirstGivenUnchanged
    <2>3. PICK e \in GivenUnder(f, m) : TRUE
      BY <2>2 DEF FirstGiven, GivenAt
    <2>4. /\ e \in Elements /\ e.kind = Type[f] /\ e.key = Keys[f][m]
          /\ Type[f] = "slice" => e.val # {}
      BY <2>3 DEF GivenUnder
    <2>5. Type[f] \in {"string", "int", "slice"}
      BY FieldNames DEF Type
    <2>6. Sets(e) /\ Option(e) = Key(f, m)
      BY <2>4, <2>5 DEF Sets, Ignored, Option, Key
    <2>7. ~Waiting(e)
      <3>1. stack \in Seq(SUBSET Reachable)
        BY <1>5 DEF FlattenInv
      <3>2. Len(stack) \in Nat \ {0} /\ Head(stack) = stack[1]
        BY <2>1, <3>1
      <3>3. \A i \in 1..Len(stack) : stack[i] = {}
        BY <2>1, <3>2
      <3> QED
        BY <3>3 DEF Waiting
    <2>8. Key(f, m) \in DOMAIN opts
      BY <1>5, <2>4, <2>6, <2>7 DEF FlattenInv
    <2>9. \E d \in GivenUnder(f, m) : opts[Key(f, m)] = d.val
      BY <1>5, <2>2, <2>8, Provenance
    <2>10. ASSUME NEW i \in DOMAIN Keys[f], i < m PROVE Key(f, i) \notin DOMAIN opts
      <3> SUFFICES ASSUME Key(f, i) \in DOMAIN opts PROVE FALSE
        OBVIOUS
      <3>1. GivenUnder(f, i) # {}
        BY <1>5, Provenance
      <3>2. m <= i /\ i \in Nat
        BY <2>2, <3>1, KeyNumbers DEF FirstGiven, GivenAt
      <3> QED
        BY <2>10, <3>2
    <2>11. Applied(f, m)
      BY <2>8, <2>9, <2>10 DEF Applied
    <2> QED
      BY <2>1, <2>2, <2>8, <2>11, AppliedKept
  <1>6. CASE (Leave /\ phase = "state") \/ Merged
    <2> SUFFICES ASSUME NEW f \in Fields, NEW m \in Nat, operation' # "etcd", FirstGiven(f, m)'
                 PROVE  Applied(f, m)'
      BY DEF GivenInv, Fields, Type
    <2>1. UNCHANGED <<record, operation, source, config, opts>> /\ Merging
      BY <1>6 DEF Leave, Merged, call
    <2>2. FirstGiven(f, m) /\ m \in DOMAIN Keys[f]
      BY <2>1, <1>0, FirstGivenUnchanged
    <2>3. Applied(f, m)
      BY <2>1, <2>2 DEF GivenInv
    <2> QED
      BY <2>1, <2>2, <2>3, AppliedKept DEF Applied
  <1>7. CASE SetName
    <2> SUFFICES ASSUME NEW f \in Fields, NEW m \in Nat, operation' # "etcd", FirstGiven(f, m)'
                 PROVE  Applied(f, m)'
      BY DEF GivenInv, Fields, Type
    <2>1. /\ UNCHANGED <<record, operation, source, config>> /\ phase = "names"
          /\ opts' = Assign(opts, <<"string", "name">>, ClusterName)
      BY <1>7 DEF SetName, call
    <2>2. FirstGiven(f, m) /\ m \in DOMAIN Keys[f] /\ f # "name"
      BY <2>1, <1>0, FirstGivenUnchanged
    <2>3. Applied(f, m)
      BY <2>1, <2>2 DEF GivenInv
    <2>4. \A i \in DOMAIN Keys[f] : Key(f, i) # <<"string", "name">>
      BY <2>2, MergedKeys DEF Key
    <2>5. /\ DOMAIN opts' = DOMAIN opts \cup {<<"string", "name">>}
          /\ \A x \in DOMAIN opts : x # <<"string", "name">> => opts'[x] = opts[x]
      BY <2>1 DEF Assign
    <2> QED
      BY <2>1, <2>2, <2>3, <2>4, <2>5, AppliedKept DEF Applied
  <1>8. CASE MergeKey
    <2> SUFFICES ASSUME NEW f \in Fields, NEW m \in Nat, operation' # "etcd", FirstGiven(f, m)'
                 PROVE  Applied(f, m)'
      BY DEF GivenInv, Fields, Type
    <2>1. UNCHANGED <<record, operation, source, config>> /\ phase = "merge"
      BY <1>8 DEF MergeKey, call
    <2>2. FirstGiven(f, m) /\ m \in DOMAIN Keys[f]
      BY <2>1, <1>0, FirstGivenUnchanged
    <2>3. Applied(f, m)
      BY <2>1, <2>2 DEF GivenInv
    <2>4. PICK key \in left :
            \/ UNCHANGED opts
            \/ opts' = MergeValue(key, IF key = "state" THEN {"json"} ELSE Metadata(key))
      BY <1>8 DEF MergeKey
    <2>5. /\ DOMAIN opts \subseteq DOMAIN opts'
          /\ DOMAIN opts' \subseteq DOMAIN opts \cup {<<"string", key>>}
          /\ \A x \in DOMAIN opts : x # <<"string", key>> => opts'[x] = opts[x]
      BY <2>4 DEF MergeValue, Assign
    <2>6. f \notin {"name", "resourceGroup", "location"}
      BY <1>0, <2>1, <2>2, <2>4 DEF MergeInv
    <2>7. key \in {"resource-group", "location", "state"}
      BY <2>4 DEF MergeInv
    <2>8. \A i \in DOMAIN Keys[f] : Key(f, i) # <<"string", key>>
      BY <2>6, <2>7, MergedKeys DEF Key
    <2> QED
      BY <2>1, <2>2, <2>3, <2>5, <2>8, AppliedKept DEF Applied
  <1>9. CASE Reject \/ Drive \/ Remove
    BY <1>9 DEF Reject, Drive, Remove, GivenInv
  <1>10. CASE UNCHANGED optionVars
    <2> SUFFICES ASSUME NEW f \in Fields, NEW m \in Nat, operation' # "etcd", FirstGiven(f, m)',
                        phase = "names" \/ Merging
                 PROVE  Applied(f, m)'
      BY <1>10 DEF GivenInv, Fields, Type, optionVars
    <2>1. UNCHANGED <<record, operation, source, config, opts>>
      BY <1>10 DEF optionVars
    <2>2. FirstGiven(f, m) /\ m \in DOMAIN Keys[f]
      BY <2>1, <1>0, FirstGivenUnchanged
    <2>3. Applied(f, m)
      BY <2>1, <2>2 DEF GivenInv
    <2> QED
      BY <2>1, <2>2, <2>3, AppliedKept DEF Applied
  <1>11. CASE Visit
    BY <1>3, <1>4, <1>11 DEF Visit
  <1>12. CASE Leave
    BY <1>5, <1>6, <1>12 DEF Leave
  <1> QED
    BY <1>1, <1>2, <1>7, <1>8, <1>6, <1>9, <1>10, <1>11, <1>12 DEF OptionsNext

\* A flag has its default or a value that the caller gives.
LEMMA FlagValue ==
  ASSUME NEW c \in Commands, NEW command \in {"create", "update"},
         NEW f \in Fields, NEW i \in DOMAIN Keys[f],
         Key(f, i) \in DOMAIN getDriverOpts(command, c)
  PROVE  \/ getDriverOpts(command, c)[Key(f, i)] = Default(f)
         \/ \E d \in c : /\ d.kind = Type[f] /\ d.key = Keys[f][i]
                         /\ getDriverOpts(command, c)[Key(f, i)] = d.val
  <1>1. Flags(command) \subseteq Fields
    BY FieldNames DEF Flags
  <1>2. \E g \in Flags(command) : FlagOption(g) = Key(f, i)
    BY DEF getDriverOpts
  <1> DEFINE g == CHOOSE h \in Flags(command) : FlagOption(h) = Key(f, i)
             value == {d \in c : <<d.kind, d.key>> = FlagOption(g)}
  <1>3. g \in Flags(command) /\ FlagOption(g) = Key(f, i)
    BY <1>2
  <1>4. getDriverOpts(command, c)[Key(f, i)]
          = IF value = {} THEN Default(g) ELSE (CHOOSE d \in value : TRUE).val
    BY <1>2 DEF getDriverOpts
  <1> HIDE DEF g
  <1>5. g = f
    <2>1. g \in Fields /\ 1 \in DOMAIN Keys[g] /\ Keys[g][1] = Keys[f][i]
      BY <1>1, <1>3, KeyNumbers DEF FlagOption, Key
    <2> QED
      BY <2>1, KeysDiffer
  <1>6. CASE value = {}
    BY <1>4, <1>5, <1>6
  <1>7. CASE value # {}
    <2>1. PICK d \in value : d = CHOOSE x \in value : TRUE
      BY <1>7
    <2>2. d.kind = Type[f] /\ d.key = Keys[f][i]
      BY <1>3, <2>1 DEF Key
    <2> QED
      BY <1>4, <1>7, <2>1, <2>2
  <1> QED
    BY <1>6, <1>7

\* The subscription comes from the caller or from the record.
LEMMA SubscriptionStep ==
  ASSUME OptionsInv, [OptionsNext]_optionVars
  PROVE  SubscriptionInv'
  <1> USE DEF OptionsInv, Merging
  <1> DEFINE f == "subscriptionId"
             Found == \A i \in DOMAIN Keys[f] :
                        Key(f, i) \in DOMAIN opts => opts[Key(f, i)] \in Known
  <1>0. /\ f \in Fields /\ Type[f] = "string" /\ Default(f) = {""}
        /\ (phase = "names" \/ Merging)' /\ Found' => SubscriptionInv'
        /\ ~(phase = "names" \/ Merging)' => SubscriptionInv'
        /\ phase = "names" \/ Merging => Found
    BY FieldNames DEF SubscriptionInv, Type, Default, Zero
  <1>a. ASSUME UNCHANGED <<config, record>> PROVE Known' = Known
    BY <1>a DEF Known, Subscriptions, NoState, Keys
  <1>b. \A i : Key(f, i)' = Key(f, i) /\ Keys' = Keys
    BY DEF Key, Type, Keys
  <1>c. ASSUME UNCHANGED <<config, record, opts>>, Found PROVE Found'
    BY <1>a, <1>b, <1>c
  <1>d. ASSUME UNCHANGED <<config, record>>, Found,
               \A i \in DOMAIN Keys[f] :
                 Key(f, i) \in DOMAIN opts' =>
                   \/ Key(f, i) \in DOMAIN opts /\ opts'[Key(f, i)] = opts[Key(f, i)]
                   \/ opts'[Key(f, i)] \in Known
        PROVE  Found'
    BY <1>a, <1>b, <1>d
  <1> HIDE DEF f, Found
  <1>1. ASSUME NEW o, NEW c, BeginCall(o, "service", c) PROVE SubscriptionInv'
    BY <1>0, <1>1 DEF BeginCall
  <1>2. ASSUME NEW o \in {"create", "update"}, NEW c \in Commands, BeginCall(o, "command", c)
        PROVE  SubscriptionInv'
    <2>1. config' = c /\ opts' = getDriverOpts(o, c) /\ phase' = "names"
      BY <1>2 DEF BeginCall
    <2>2. c \subseteq Parts[c]
      BY OptionsAssumption, PartsOf
    <2>3. ASSUME NEW i \in DOMAIN Keys[f], Key(f, i) \in DOMAIN opts'
          PROVE  opts'[Key(f, i)] \in Known'
      <3>1. CASE opts'[Key(f, i)] = {""}
        BY <3>1 DEF Known
      <3>2. ASSUME NEW d \in c, d.kind = Type[f], d.key = Keys[f][i], opts'[Key(f, i)] = d.val
            PROVE  opts'[Key(f, i)] \in Known'
        <4>1. d.val \in Subscriptions'
          BY <1>0, <2>1, <2>2, <3>2 DEF Subscriptions, Keys, f
        <4> QED
          BY <3>2, <4>1 DEF Known
      <3>3. f \in Fields /\ Key(f, i) \in DOMAIN getDriverOpts(o, c)
        BY <1>0, <2>1, <2>3
      <3>4. \/ getDriverOpts(o, c)[Key(f, i)] = Default(f)
            \/ \E d \in c : /\ d.kind = Type[f] /\ d.key = Keys[f][i]
                            /\ getDriverOpts(o, c)[Key(f, i)] = d.val
        BY <3>3, FlagValue
      <3> QED
        BY <1>0, <2>1, <3>1, <3>2, <3>4
    <2>4. Found'
      BY <1>b, <2>3 DEF Found
    <2> QED
      BY <1>0, <2>1, <2>4
  <1>3. CASE Visit /\ phase = "flatten"
    BY <1>0, <1>3 DEF Visit
  <1>4. CASE Visit /\ phase = "state"
    <2>1. UNCHANGED <<record, phase, config>>
      BY <1>4, VisitState
    <2>2. PICK e \in StateJSON(record) : opts' = flattenIfNotExist(opts, e)
      BY <1>4, VisitState
    <2>3. PICK g \in Fields : Option(e) = StateKey(g) /\ e.val = record[g]
      BY <2>2, StateElement
    <2>4. \A i \in DOMAIN Keys[f] : Key(f, i) # Option(e) \/ e.val \in Known
      <3> SUFFICES ASSUME NEW i \in DOMAIN Keys[f], Key(f, i) = StateKey(g)
                   PROVE  record[g] \in Known
        BY <2>3
      <3>1. f = g
        BY <1>0, StateKeysDiffer
      <3> QED
        BY <1>4, <3>1 DEF Known, StateInv, f
    <2>5. \A x \in DOMAIN opts' : \/ x \in DOMAIN opts /\ opts'[x] = opts[x]
                                  \/ x = Option(e) /\ opts'[x] = e.val
      BY <2>2, FlattenKeeps
    <2>6. Found'
      BY <1>0, <1>4, <1>d, <2>1, <2>4, <2>5
    <2> QED
      BY <1>0, <1>4, <2>1, <2>6
  <1>5. CASE Leave /\ phase = "flatten"
    <2>1. UNCHANGED <<record, config, opts>>
      BY <1>5 DEF Leave, call
    <2>2. ASSUME NEW i \in DOMAIN Keys[f], Key(f, i) \in DOMAIN opts PROVE opts[Key(f, i)] \in Known
      <3>1. PICK e \in GivenUnder(f, i) : opts[Key(f, i)] = e.val
        BY <1>0, <1>5, <2>2, Provenance
      <3>2. e.val \in Subscriptions
        BY <1>0, <2>2, <3>1 DEF GivenUnder, Elements, Subscriptions, f
      <3> QED
        BY <3>1, <3>2 DEF Known
    <2>3. Found
      BY <2>2 DEF Found
    <2> QED
      BY <1>0, <1>c, <2>1, <2>3
  <1>6. CASE (Leave /\ phase = "state") \/ Merged
    <2>1. UNCHANGED <<record, config, opts>> /\ Merging
      BY <1>6 DEF Leave, Merged, call
    <2> QED
      BY <1>0, <1>c, <2>1
  <1>7. CASE SetName
    <2>1. /\ UNCHANGED <<record, config>> /\ phase = "names"
          /\ opts' = Assign(opts, <<"string", "name">>, ClusterName)
      BY <1>7 DEF SetName, call
    <2>2. \A i \in DOMAIN Keys[f] : Key(f, i) # <<"string", "name">>
      BY <1>0, MergedKeys DEF Key, f
    <2>3. \A x \in DOMAIN opts' : \/ x \in DOMAIN opts /\ opts'[x] = opts[x]
                                  \/ x = <<"string", "name">> /\ opts'[x] = ClusterName
      BY <2>1 DEF Assign
    <2>4. Found'
      BY <1>0, <1>d, <2>1, <2>2, <2>3
    <2> QED
      BY <1>0, <2>4
  <1>8. CASE MergeKey
    <2>1. UNCHANGED <<record, config>> /\ phase = "merge"
      BY <1>8 DEF MergeKey, call
    <2>2. PICK key \in left :
            \/ UNCHANGED opts
            \/ opts' = MergeValue(key, IF key = "state" THEN {"json"} ELSE Metadata(key))
      BY <1>8 DEF MergeKey
    <2>3. CASE UNCHANGED opts
      BY <1>0, <1>c, <2>1, <2>3
    <2>4. CASE opts' = MergeValue(key, IF key = "state" THEN {"json"} ELSE Metadata(key))
      <3> DEFINE v == IF key = "state" THEN {"json"} ELSE Metadata(key)
      <3>1. \A x \in DOMAIN opts' : \/ x \in DOMAIN opts /\ opts'[x] = opts[x]
                                    \/ x = <<"string", key>> /\ opts'[x] = v
        BY <2>4 DEF MergeValue, Assign
      <3>2. key \in {"resource-group", "location", "state"}
        BY <2>2 DEF MergeInv
      <3>3. \A i \in DOMAIN Keys[f] : Key(f, i) # <<"string", key>>
        BY <1>0, <3>2, MergedKeys DEF Key, f
      <3> HIDE DEF v
      <3>4. Found'
        BY <1>0, <1>d, <2>1, <3>1, <3>3
      <3> QED
        BY <1>0, <3>4
    <2> QED
      BY <2>2, <2>3, <2>4
  <1>9. CASE Reject \/ Drive \/ Remove
    BY <1>0, <1>9 DEF Reject, Drive, Remove
  <1>10. CASE UNCHANGED optionVars
    <2>1. UNCHANGED <<phase, record, config, opts>>
      BY <1>10 DEF optionVars
    <2> QED
      BY <1>0, <1>c, <2>1
  <1>11. CASE Visit
    BY <1>3, <1>4, <1>11 DEF Visit
  <1>12. CASE Leave
    BY <1>5, <1>6, <1>12 DEF Leave
  <1> QED
    BY <1>1, <1>2, <1>6, <1>7, <1>8, <1>9, <1>10, <1>11, <1>12 DEF OptionsNext

\* The option of a field that is left out: none before the state is read, then the
\* recorded one.
LEMMA KeptStep ==
  ASSUME OptionsInv, [OptionsNext]_optionVars
  PROVE  KeptInv'
  <1> USE DEF OptionsInv, Merging
  <1> DEFINE Only(f) == \A i \in DOMAIN Keys[f] : Key(f, i) \in DOMAIN opts =>
                          Keys[f][i] = JSONKey[f] /\ opts[Key(f, i)] = record[f]
             Read(f) == record[f] # Zero(Type[f]) => StateKey(f) \in DOMAIN opts
             Unread(f) == record[f] # Zero(Type[f]) =>
                            \/ StateKey(f) \in DOMAIN opts
                            \/ \E e \in stack[1] : Option(e) = StateKey(f)
  <1>0. KeptInv' <=> \A f \in Fields : Left(f)' =>
          /\ (phase = "names" \/ Merging)' => Only(f)'
          /\ (phase \in {"merge", "drive"} /\ "state" \notin left)' => Read(f)'
          /\ (phase = "state")' => Unread(f)'
    BY DEF KeptInv, Fields, Type
  <1>a. ASSUME NEW f \in Fields, Left(f)
        PROVE  /\ f \notin {"name", "resourceGroup", "location"}
               /\ operation = "update" /\ source = "service" /\ GivenAt(f) = {}
               /\ phase = "names" \/ Merging => Only(f)
               /\ phase \in {"merge", "drive"} /\ "state" \notin left => Read(f)
               /\ phase = "state" => Unread(f)
    BY <1>a DEF KeptInv, Left
  <1>b. ASSUME NEW f \in Fields, Left(f)', UNCHANGED <<operation, source, config, record>>
        PROVE  Left(f)
    BY <1>b, FirstGivenUnchanged
  <1>c. ASSUME NEW f, UNCHANGED <<record, opts>>
        PROVE  (Only(f) => Only(f)') /\ (Read(f) => Read(f)')
    BY <1>c DEF Key, StateKey, Type, Keys, JSONKey, Zero
  <1>1. ASSUME NEW o, NEW c, BeginCall(o, "service", c) PROVE KeptInv'
    BY <1>0, <1>1 DEF BeginCall
  <1>2. ASSUME NEW o, NEW c, BeginCall(o, "command", c) PROVE KeptInv'
    BY <1>0, <1>2 DEF BeginCall, Left
  <1>3. CASE Visit /\ phase = "flatten"
    BY <1>0, <1>3 DEF Visit
  <1>4. CASE Visit /\ phase = "state"
    <2> SUFFICES ASSUME NEW f \in Fields, Left(f)' PROVE Only(f)' /\ Unread(f)'
      BY <1>0, <1>4, VisitState
    <2>1. UNCHANGED <<record, phase, operation, source, config>>
      BY <1>4, VisitState
    <2>2. PICK e \in stack[1] : /\ e \in StateJSON(record) /\ stack' = <<stack[1] \ {e}>>
                                /\ opts' = flattenIfNotExist(opts, e)
      BY <1>4, VisitState
    <2>3. Only(f) /\ Unread(f)
      BY <1>4, <1>a, <1>b, <2>1
    <2>4. PICK g \in Fields : Option(e) = StateKey(g) /\ e.val = record[g]
      BY <2>2, StateElement
    <2>5. ~Ignored(e)
      BY <2>2, StateElement
    <2>6. /\ DOMAIN opts \subseteq DOMAIN opts'
          /\ \A x \in DOMAIN opts : opts'[x] = opts[x]
          /\ \A x \in DOMAIN opts' : x \in DOMAIN opts \/ (x = Option(e) /\ opts'[x] = e.val)
          /\ Option(e) \in DOMAIN opts'
      BY <2>2, <2>5, FlattenKeeps
    <2>7. ASSUME NEW i \in DOMAIN Keys[f], Key(f, i) \in DOMAIN opts'
          PROVE  Keys[f][i] = JSONKey[f] /\ opts'[Key(f, i)] = record[f]
      <3>1. CASE Key(f, i) \in DOMAIN opts
        BY <2>3, <2>6, <3>1
      <3>2. CASE Key(f, i) = StateKey(g) /\ opts'[Key(f, i)] = e.val
        BY <2>4, <3>2, StateKeysDiffer
      <3> QED
        BY <2>4, <2>6, <2>7, <3>1, <3>2
    <2>8. stack'[1] = stack[1] \ {e}
      BY <2>2
    <2>9. record[f] # Zero(Type[f]) =>
            StateKey(f) \in DOMAIN opts' \/ \E d \in stack'[1] : Option(d) = StateKey(f)
      BY <2>3, <2>6, <2>8
    <2>10. Only(f)'
      BY <2>1, <2>7 DEF Key, Type, Keys, JSONKey
    <2>11. Unread(f)'
      BY <2>1, <2>9 DEF StateKey, Type, JSONKey, Option, Zero
    <2> QED
      BY <2>10, <2>11
  <1>5. CASE Leave /\ phase = "flatten"
    <2> SUFFICES ASSUME NEW f \in Fields, Left(f)', phase' \in {"flatten", "names"} PROVE Only(f)'
      BY <1>0, <1>5 DEF Leave
    <2>1. UNCHANGED <<record, operation, source, config, opts>>
      BY <1>5 DEF Leave, call
    <2>2. GivenAt(f) = {}
      BY <1>a, <1>b, <2>1
    <2>3. \A i \in DOMAIN Keys[f] : Key(f, i) \notin DOMAIN opts
      <3> SUFFICES ASSUME NEW i \in DOMAIN Keys[f], Key(f, i) \in DOMAIN opts PROVE FALSE
        OBVIOUS
      <3>1. GivenUnder(f, i) # {}
        BY <1>5, Provenance
      <3> QED
        BY <2>2, <3>1 DEF GivenAt
    <2> QED
      BY <1>c, <2>1, <2>3
  <1>6. CASE Leave /\ phase = "state"
    <2> SUFFICES ASSUME NEW f \in Fields, Left(f)', phase' = "merge" PROVE Only(f)' /\ Read(f)'
      <3>1. phase' = "merge"
        BY <1>6 DEF Leave, StateInv
      <3> QED
        BY <1>0, <3>1
    <2>1. UNCHANGED <<record, operation, source, config, opts>> /\ Head(stack) = {}
      BY <1>6 DEF Leave, call
    <2>2. stack[1] = {}
      <3>1. ASSUME NEW a PROVE Head(<<a>>) = a
        OBVIOUS
      <3> QED
        BY <1>6, <2>1, <3>1 DEF StateInv
    <2>3. Only(f) /\ Read(f)
      BY <1>6, <1>a, <1>b, <2>1, <2>2
    <2> QED
      BY <1>c, <2>1, <2>3
  <1>7. CASE SetName
    <2> SUFFICES ASSUME NEW f \in Fields, Left(f)' PROVE Only(f)' /\ "state" \in left'
      BY <1>0, <1>7 DEF SetName
    <2>1. /\ UNCHANGED <<recordStatus, record, operation, source, config>> /\ phase = "names"
          /\ opts' = Assign(opts, <<"string", "name">>, ClusterName)
          /\ left' = (IF record = NoState THEN {} ELSE {"resource-group", "location", "state"})
      BY <1>7 DEF SetName, call
    <2>2. Only(f) /\ f # "name" /\ operation = "update"
      BY <1>a, <1>b, <2>1
    <2>3. record # NoState
      BY <2>1, <2>2 DEF RecordInv
    <2>4. \A i \in DOMAIN Keys[f] : Key(f, i) # <<"string", "name">>
      BY <2>2, MergedKeys DEF Key
    <2>5. /\ DOMAIN opts' = DOMAIN opts \cup {<<"string", "name">>}
          /\ \A x \in DOMAIN opts : x # <<"string", "name">> => opts'[x] = opts[x]
      BY <2>1 DEF Assign
    <2>6. \A i \in DOMAIN Keys[f] : Key(f, i) \in DOMAIN opts' =>
            Keys[f][i] = JSONKey[f] /\ opts'[Key(f, i)] = record[f]
      BY <2>2, <2>4, <2>5
    <2>7. Only(f)'
      BY <2>1, <2>6 DEF Key, Type, Keys, JSONKey
    <2> QED
      BY <2>1, <2>3, <2>7
  <1>8. CASE MergeKey
    <2>1. PICK key \in left :
            /\ left' = left \ {key}
            /\ IF key = "state" /\ operation # "create"
                 THEN phase' = "state" /\ stack' = <<StateJSON(record)>> /\ UNCHANGED opts
                 ELSE /\ opts' = MergeValue(key, IF key = "state" THEN {"json"} ELSE Metadata(key))
                      /\ UNCHANGED <<phase, stack>>
      BY <1>8 DEF MergeKey
    <2>2. UNCHANGED <<record, operation, source, config>> /\ phase = "merge"
      BY <1>8 DEF MergeKey, call
    <2>3. CASE key = "state" /\ operation # "create"
      <3> SUFFICES ASSUME NEW f \in Fields, Left(f)' PROVE Only(f)' /\ Unread(f)'
        BY <1>0, <2>1, <2>3
      <3>1. Only(f)'
        BY <1>a, <1>b, <1>c, <2>1, <2>2, <2>3
      <3>2. stack'[1] = StateJSON(record)
        BY <2>1, <2>3
      <3>3. record[f] # Zero(Type[f]) => \E e \in stack'[1] : Option(e) = StateKey(f)
        BY <3>2, StateElementOf
      <3>4. Unread(f)'
        BY <2>2, <3>3 DEF StateKey, Type, JSONKey, Option, Zero
      <3> QED
        BY <3>1, <3>4
    <2>4. CASE ~(key = "state" /\ operation # "create")
      <3> SUFFICES ASSUME NEW f \in Fields, Left(f)'
                   PROVE  Only(f)' /\ ("state" \notin left' => Read(f)')
        BY <1>0, <2>1, <2>2, <2>4
      <3>1. /\ Only(f) /\ f \notin {"name", "resourceGroup", "location"} /\ operation = "update"
            /\ "state" \notin left => Read(f)
        BY <1>a, <1>b, <2>2
      <3>2. key \in {"resource-group", "location"}
        BY <2>1, <2>4, <3>1 DEF MergeInv
      <3>3. \A i \in DOMAIN Keys[f] : Key(f, i) # <<"string", key>>
        BY <3>1, <3>2, MergedKeys DEF Key
      <3>4. /\ DOMAIN opts' = DOMAIN opts \cup {<<"string", key>>}
            /\ \A x \in DOMAIN opts : x # <<"string", key>> => opts'[x] = opts[x]
        BY <2>1, <2>4 DEF MergeValue, Assign
      <3>5. \A i \in DOMAIN Keys[f] : Key(f, i) \in DOMAIN opts' =>
              Keys[f][i] = JSONKey[f] /\ opts'[Key(f, i)] = record[f]
        BY <3>1, <3>3, <3>4
      <3>6. Only(f)'
        BY <2>2, <3>5 DEF Key, Type, Keys, JSONKey
      <3>7. "state" \notin left' => "state" \notin left
        BY <2>1, <3>2
      <3>8. "state" \notin left' => Read(f)'
        BY <2>2, <3>1, <3>4, <3>7 DEF StateKey, Type, JSONKey, Zero
      <3> QED
        BY <3>6, <3>8
    <2> QED
      BY <2>3, <2>4
  <1>9. CASE Merged
    <2> SUFFICES ASSUME NEW f \in Fields, Left(f)' PROVE Only(f)' /\ Read(f)'
      BY <1>0, <1>9 DEF Merged
    <2>1. UNCHANGED <<record, operation, source, config, opts>> /\ phase = "merge" /\ left = {}
      BY <1>9 DEF Merged, call
    <2>2. Only(f) /\ Read(f)
      BY <1>a, <1>b, <2>1
    <2> QED
      BY <1>c, <2>1, <2>2
  <1>10. CASE Reject \/ Drive \/ Remove
    <2>1. phase' = "idle"
      BY <1>10 DEF Reject, Drive, Remove
    <2> QED
      BY <1>0, <2>1
  <1>11. CASE UNCHANGED optionVars
    <2>1. UNCHANGED <<record, operation, source, config, opts, phase, left, stack>>
      BY <1>11 DEF optionVars
    <2>2. ASSUME NEW f \in Fields, Left(f)'
          PROVE  /\ phase = "names" \/ Merging => Only(f)'
                 /\ phase \in {"merge", "drive"} /\ "state" \notin left => Read(f)'
      BY <1>a, <1>b, <1>c, <2>1, <2>2
    <2>3. ASSUME NEW f \in Fields, Left(f)', phase = "state" PROVE Unread(f)'
      <3>1. Unread(f)
        BY <1>a, <1>b, <2>1, <2>3
      <3> QED
        BY <2>1, <3>1 DEF StateKey, Type, JSONKey, Option, Zero
    <2> QED
      BY <1>0, <2>1, <2>2, <2>3
  <1>12. CASE Visit
    BY <1>3, <1>4, <1>12 DEF Visit
  <1>13. CASE Leave
    BY <1>5, <1>6, <1>13 DEF Leave
  <1> QED
    BY <1>1, <1>2, <1>7, <1>8, <1>9, <1>10, <1>11, <1>12, <1>13 DEF OptionsNext

-----------------------------------------------------------------------------
(* The theorems about the options.                                         *)

\* The invariant holds.
LEMMA OptionsInvHolds == OptionsSpec => []OptionsInv
  <1>1. OptionsInit => OptionsInv
    <2> SUFFICES ASSUME OptionsInit PROVE OptionsInv
      OBVIOUS
    <2> USE DEF OptionsInit
    <2>1. RecordInv
      BY DEF RecordInv
    <2>2. FlattenInv /\ StateInv /\ GivenInv
      BY DEF FlattenInv, StateInv, GivenInv, Merging
    <2>3. MergeInv /\ KeptInv /\ SubscriptionInv
      BY DEF MergeInv, KeptInv, SubscriptionInv, Merging
    <2>4. PlaceKept
      BY DEF PlaceKept
    <2> QED
      BY <2>1, <2>2, <2>3, <2>4 DEF OptionsInv
  <1>2. OptionsInv /\ [OptionsNext]_optionVars => OptionsInv'
    BY RecordStep, MergeStep, StateStep, FlattenStep, GivenStep, KeptStep, SubscriptionStep
       DEF OptionsInv
  <1> QED
    BY <1>1, <1>2, PTL DEF OptionsSpec

\* The record leads to every cluster that was made, through failed creations, retries
\* and updates with other values, for all configurations, all command lines and
\* every order in which the maps are ranged over, unless a caller gives another
\* subscription than the recorded one.
THEOREM PlaceIsKept == OptionsSpec => []PlaceKept
  <1>1. OptionsInv => PlaceKept
    BY DEF OptionsInv
  <1> QED
    BY <1>1, OptionsInvHolds, PTL

\* When the driver succeeds, the record is what it made of its options.
LEMMA SuccessRecorded ==
  ASSUME [OptionsNext]_optionVars, Succeeded
  PROVE  phase = "drive" /\ operation # "etcd" /\ record' = getStateFromOptions
  <1>1. phase = "drive" /\ phase' = "idle" /\ answer' = "ok"
    BY DEF Succeeded
  <1>2. ASSUME NEW o, NEW from, NEW given PROVE ~BeginCall(o, from, given)
    BY <1>1 DEF BeginCall
  <1>3. ~(Visit \/ Leave \/ SetName \/ MergeKey \/ Merged \/ Reject \/ Remove)
    BY <1>1 DEF Visit, Leave, SetName, MergeKey, Merged, Reject, Remove
  <1>4. ~UNCHANGED optionVars
    BY <1>1 DEF optionVars
  <1>5. Drive
    BY <1>2, <1>3, <1>4 DEF OptionsNext
  <1> QED
    BY <1>1, <1>5 DEF Drive

\* An Update of the service keeps the recorded value of every field that its
\* configuration leaves out.
THEOREM NothingIsForgotten == OptionsSpec => NothingForgotten
  <1> DEFINE Kept == Succeeded /\ operation = "update" /\ source = "service" =>
                       \A f \in Fields : GivenAt(f) = {} => record'[f] = record[f]
  <1>1. OptionsInv /\ [OptionsNext]_optionVars => [Kept]_optionVars
    <2> SUFFICES ASSUME OptionsInv, [OptionsNext]_optionVars, Succeeded,
                        operation = "update", source = "service",
                        NEW f \in Fields, GivenAt(f) = {}
                 PROVE  record'[f] = record[f]
      OBVIOUS
    <2>1. phase = "drive" /\ record' = getStateFromOptions
      BY SuccessRecorded
    <2>2. getStateFromOptions[f] = record[f]
      BY <2>1, StateKept DEF OptionsInv
    <2> QED
      BY <2>1, <2>2
  <1> QED
    BY <1>1, OptionsInvHolds, PTL DEF OptionsSpec, NothingForgotten

\* A field that the caller gives is applied, on the first call and on every later one,
\* unless the record has to win or its recorded key is looked up before the given one.
THEOREM GivenIsApplied == OptionsSpec => GivenApplied
  <1> DEFINE Counts(f) ==
               /\ GivenAt(f) # {}
               /\ record # NoState => f \notin {"resourceGroup", "location"}
               /\ operation = "update" => \E i \in DOMAIN Keys[f] :
                                     Keys[f][i] = JSONKey[f] /\ Min(GivenAt(f)) <= i
             Given1 == Succeeded =>
                         \A f \in Fields \ {"name"} : Counts(f) => record'[f] \in Given(f)
  <1>1. OptionsInv /\ [OptionsNext]_optionVars => [Given1]_optionVars
    <2> SUFFICES ASSUME OptionsInv, [OptionsNext]_optionVars, Succeeded,
                        NEW f \in Fields \ {"name"}, Counts(f)
                 PROVE  record'[f] \in Given(f)
      OBVIOUS
    <2>1. phase = "drive" /\ operation # "etcd" /\ record' = getStateFromOptions
      BY SuccessRecorded
    <2>2. GivenAt(f) \in SUBSET (1..4)
      BY KeyNumbers DEF GivenAt
    <2>3. PICK m \in GivenAt(f) : \A y \in GivenAt(f) : m <= y
      BY <2>2, MinExists
    <2>4. m \in Nat /\ Min(GivenAt(f)) = m
      BY <2>2, <2>3, MinIs
    <2>5. FirstGiven(f, m)
      BY <2>3, <2>4 DEF FirstGiven
    <2>6. getStateFromOptions[f] \in Given(f)
      BY <2>1, <2>4, <2>5, StateGiven DEF OptionsInv
    <2> QED
      BY <2>1, <2>6
  <1> QED
    BY <1>1, OptionsInvHolds, PTL DEF OptionsSpec, GivenApplied

-----------------------------------------------------------------------------
(* The calls of the driver.                                                *)

Deploying == {"poll", "clientset", "token"}

\* The inductive invariant, in three parts.  Which call is at which step:
CallInv ==
  /\ pc \in Deploying \cup {"parse", "group", "workspace", "put"} =>
       op.name \in {"create", "update"}
  /\ pc \in {"get", "set"} => op.name \notin {"create", "update"}
  /\ pc \in {"delete", "deleted"} => op.name = "remove"

\* between the put and the answer nobody else changes the cluster,
PutInv ==
  /\ pc \in Deploying => real = op.want /\ status \notin {"absent", "Deleting"}
  /\ pc \in {"clientset", "token"} => status = "Succeeded"

Dependencies == group /\ (monitoring => workspace)

\* and what the cluster refers to is there whenever it may be put: after the two steps
\* that ensure it and, for SetVersion and SetClusterSize, because a cluster was got.
DependenciesInv ==
  /\ pc = "workspace" => group
  /\ pc \in Deploying \cup {"put", "set"} \/ status # "absent" => Dependencies

DriverInv == CallInv /\ PutInv /\ DependenciesInv /\ Settled

\* Every step of the driver, of the engine and of Azure preserves the invariant.
LEMMA DriverInvStep ==
  ASSUME DriverInv, [Next]_vars
  PROVE  DriverInv'
  <1> USE DEF DriverInv, CallInv, PutInv, DependenciesInv, Dependencies, Deploying,
              Settled, Returned, Goto, Fail, ApiError, azure, local, Working
  <1>1. ASSUME NEW o \in Ops, NEW want \in Shape, Begin(o, want) PROVE DriverInv'
    <2>1. /\ pc' = CASE o \in {"create", "update"} -> "parse"
                     [] o = "remove" -> "delete"
                     [] OTHER -> "get"
          /\ op' = [name |-> o, want |-> want] /\ result' = "none"
          /\ UNCHANGED <<monitoring, group, workspace, status>>
      BY <1>1 DEF Begin
    <2>2. op'.name = o
      BY <2>1
    <2>3. CASE o \in {"create", "update"}
      BY <2>1, <2>2, <2>3
    <2>4. CASE o = "remove"
      BY <2>1, <2>2, <2>4
    <2>5. CASE o \notin {"create", "update", "remove"}
      BY <2>1, <2>2, <2>5
    <2> QED
      BY <2>3, <2>4, <2>5
  <1>2. CASE Parse
    BY <1>2 DEF Parse
  <1>3. CASE EnsureGroup
    BY <1>3 DEF EnsureGroup
  <1>4. CASE EnsureWorkspace
    BY <1>4 DEF EnsureWorkspace, Ensured
  <1>5. CASE PutCluster
    BY <1>5 DEF PutCluster, Put, Refused
  <1>6. CASE Poll
    BY <1>6 DEF Poll, Outcome, Provisioned, Pending
  <1>7. CASE GetClientset
    BY <1>7 DEF GetClientset
  <1>8. CASE TokenMade
    BY <1>8 DEF TokenMade, Succeed
  <1>9. CASE TokenFails
    BY <1>9 DEF TokenFails, RetriesExceeded
  <1>10. CASE GetCluster
    BY <1>10 DEF GetCluster
  <1>11. CASE SetField
    BY <1>11 DEF SetField, Put, Refused, Succeed
  <1>12. CASE DeleteCluster
    BY <1>12 DEF DeleteCluster
  <1>13. CASE RemoveDone
    BY <1>13 DEF RemoveDone, Succeed
  <1>14. CASE Crash
    BY <1>14 DEF Crash
  <1>15. CASE Provision
    BY <1>15 DEF Provision
  <1>16. CASE Recover
    BY <1>16 DEF Recover
  <1>17. CASE UNCHANGED vars
    BY <1>17 DEF vars
  <1>18. ASSUME Next PROVE DriverInv'
    BY <1>1, <1>2, <1>3, <1>4, <1>5, <1>6, <1>7, <1>8, <1>9, <1>10, <1>11, <1>12, <1>13,
       <1>14, <1>15, <1>16, <1>18 DEF Next, DriverStep
  <1> QED
    BY <1>17, <1>18

\* The invariant holds.
LEMMA DriverInvHolds == Spec => []DriverInv
  <1>1. Init => DriverInv
    BY DEF Init, DriverInv, CallInv, PutInv, DependenciesInv, Deploying,
           Settled, Returned
  <1>2. DriverInv /\ [Next]_vars => DriverInv'
    BY DriverInvStep
  <1> QED
    BY <1>1, <1>2, PTL DEF Spec

\* When Create or Update answers success, Azure has finished the cluster that was asked
\* for and the answer has a token, whatever failed, crashed or raced before.
THEOREM SuccessIsSettled == Spec => []Settled
  <1>1. DriverInv => Settled
    BY DEF DriverInv
  <1> QED
    BY <1>1, DriverInvHolds, PTL

\* The cluster is never put before the resource group and, with monitoring, the
\* workspace that it refers to exist.
THEOREM DependenciesComeFirst == Spec => []DependenciesFirst
  <1>1. DriverInv => DependenciesFirst
    BY DEF DriverInv, DependenciesInv, Dependencies, DependenciesFirst
  <1> QED
    BY <1>1, DriverInvHolds, PTL
=============================================================================
