---------------------------- MODULE MCRKEDriver -----------------------------
(***************************************************************************)
(* RKEDriver for TLC: two nodes, so that a configuration can gain and lose *)
(* one.                                                                    *)
(***************************************************************************)
EXTENDS RKEDriver, TLC

NodeSymmetry == Permutations(Nodes)

-----------------------------------------------------------------------------
(* What the code says of itself and does not hold; no configuration lists  *)
(* these, README.md has the behaviours that refute them.                   *)

\* "Create creates the rke cluster" (rke_driver.go:136): after a successful Create
\* the nodes of its configuration run the cluster.
CreateCreates ==
  Returned({"create"}) => \A n \in op.config : hosts[n] = Meta.full.pki

\* The record of a created cluster leads to every host that has its components, those
\* included that a call without an answer touched or a call could not reach.
RecordAlwaysLeads ==
  pc = "idle" /\ record.status = "Created" =>
    \A n \in Touched : n \in Meta.config /\ hosts[n] = Meta.full.pki

\* "Remove removes the cluster" (rke_driver.go:409): after a successful Remove no
\* host has components of it.
RemoveRemoves == Returned({"remove"}) => Touched = {}
=============================================================================
