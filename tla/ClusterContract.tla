-------------------------- MODULE ClusterContract ---------------------------
(***************************************************************************)
(* What the engine promises of one cluster name to a caller that runs one  *)
(* operation at a time, without the steps in between: a record that is     *)
(* absent, open (an attempt to create was begun), created or failed, the   *)
(* resources at the provider, and what went wrong outside the engine.      *)
(* ClusterLifecycle implements it (ImplementsContract there).              *)
(***************************************************************************)
VARIABLES
  record,  \* "none", "open", "created" or "failed"
  cloud,   \* "none", "partial" or "up"
  lapses   \* what excuses the engine; only grows

cvars == <<record, cloud, lapses>>

Init ==
  /\ record = "none"
  /\ cloud = "none"
  /\ lapses = {}

\* an attempt to create: a created cluster is not opened again, unless a process
\* died before it had written that the cluster was created, or a read failed
Open ==
  /\ record = "created" => lapses' \cap {"crash", "store"} # {}
  /\ record' = "open"
  /\ UNCHANGED cloud

\* resources appear and grow while the record says that somebody is at work
Provide ==
  /\ record = "open"
  /\ \/ cloud = "none" /\ cloud' = "partial"
     \/ cloud # "none" /\ cloud' = "up"
  /\ UNCHANGED record

\* the record says created of a cluster that is up; GenerateServiceAccount and
\* ETCDRestore also say it of one that was never finished
Accept ==
  /\ \/ cloud = "up"
     \/ record = "created"
     \/ lapses' \cap {"marked", "crash", "store"} # {}
  /\ record' = "created"
  /\ UNCHANGED cloud

\* an attempt fails: the cluster is not usable, or the engine could not write
\* down that it is
Fail ==
  /\ record = "none" => "store" \in lapses
  /\ record' = "failed"
  /\ UNCHANGED cloud

\* a removal deletes some or all resources while the record is still there
Withdraw ==
  /\ record # "none"
  /\ cloud' = "none" \/ (cloud = "up" /\ cloud' = "partial")
  /\ UNCHANGED record

\* the record goes when the resources are gone, or when the caller forced it
Forget ==
  /\ cloud = "none" \/ "forced" \in lapses'
  /\ record' = "none"
  /\ UNCHANGED cloud

Lapse ==
  UNCHANGED <<record, cloud>>

Next ==
  /\ lapses \subseteq lapses'
  /\ Open \/ Provide \/ Accept \/ Fail \/ Withdraw \/ Forget \/ Lapse

Spec == Init /\ [][Next]_cvars
=============================================================================
