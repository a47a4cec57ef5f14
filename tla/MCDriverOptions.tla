-------------------------- MODULE MCDriverOptions ---------------------------
(***************************************************************************)
(* DriverOptions for TLC: a first configuration, and others that omit,     *)
(* change, nest, misspell and mistype fields of it.                        *)
(***************************************************************************)
EXTENDS DriverOptions

El(key, kind, val) == [key |-> key, kind |-> kind, val |-> val, sub |-> {}]
Obj(key, val, sub) == [key |-> key, kind |-> "map", val |-> val, sub |-> sub]

Group == El("resourceGroup", "string", {"g1"})
Sub(s) == El("subscriptionId", "string", {s})
Client == El("clientId", "string", {"id"})
Tagged == El("tags", "slice", {"team=a", "bad"})

MCMalFormed == {"bad"}

MCConfigs ==
  { \* complete; a tag that is no pair
    {Sub("s1"), Group, El("location", "string", {"l1"}), Client, Tagged},
    \* the old key of the disk size
    {Sub("s1"), Group, El("location", "string", {"l1"}), Client, El("osDiskSizeGb", "int", {"30"})},
    \* nothing that is recorded; a count that is no number; no tags
    {El("count", "string", {"2"}), El("tags", "slice", {}), El("kubernetesVersion", "null", {})},
    \* the tags as an object, one of them named like a field; another place and name
    {Sub("s2"), El("resourceGroup", "string", {"g2"}), El("location", "string", {"l2"}), Client,
     El("name", "string", {"other"}),
     Obj("tags", {"location=l3"}, {El("location", "string", {"l3"})})},
    \* an option twice, at two depths, the new key of the disk size below, and labels
    {El("count", "int", {"1"}),
     Obj("pool", {"count=3", "disk"},
         {El("count", "int", {"3"}),
          Obj("disk", {"agentOsdiskSize=50"}, {El("agentOsdiskSize", "int", {"50"})})}),
     Obj("labels", {"count=5"}, {El("count", "int", {"5"})})} }

MCCommands ==
  { {El("subscription-id", "string", {"s1"}), El("resource-group", "string", {"g2"}),
     El("client-id", "string", {"id"}), El("count", "int", {"2"})},
    {El("client-id", "string", {"id"}), El("kubernetes-version", "string", {"1.12"})},
    {El("count", "int", {"3"})} }

\* the configurations, the command lines and the objects in them
Subs(S) == {e.sub : e \in UNION S}
MCObjects == MCConfigs \cup MCCommands \cup Subs(MCConfigs) \cup Subs(Subs(MCConfigs))

MCParts[o \in MCObjects] == o \cup UNION {MCParts[e.sub] : e \in {d \in o : Nested(d)}}

-----------------------------------------------------------------------------
(* What one may take for granted and does not hold; no configuration lists *)
(* these, README.md has the behaviours that refute them.                   *)

\* PlaceKept whatever the callers give: one record leads to all that was made.
PlaceAlwaysKept == clusters \subseteq IF record = NoState THEN {} ELSE {Place(record)}

\* NothingForgotten of the command line too: an update with one flag changes one field.
CommandKeepsFields ==
  [][Succeeded /\ operation = "update" =>
       \A f \in Fields : GivenAt(f) = {} => record'[f] = record[f]]_optionVars

\* GivenApplied for every key that the driver knows.
OldKeyApplied ==
  [][Succeeded /\ operation = "update" =>
       \A f \in Fields \ {"name", "resourceGroup", "location"} :
         GivenAt(f) # {} => record'[f] \in Given(f)]_optionVars
=============================================================================
