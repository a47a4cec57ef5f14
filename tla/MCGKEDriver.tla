---------------------------- MODULE MCGKEDriver -----------------------------
(***************************************************************************)
(* GKEDriver for TLC: two versions and two sizes, so that an update that   *)
(* is not applied can be told from one that is.                            *)
(***************************************************************************)
EXTENDS GKEDriver, TLC

\* two clusters to create or to update to, and each change alone
MCWants ==
  {[master |-> w[1], node |-> w[2], nodes |-> w[3]] :
     w \in {<<1, 1, 1>>, <<2, 2, 2>>, <<2, 0, 0>>, <<0, 2, 0>>, <<0, 0, 1>>, <<0, 0, 2>>,
            <<1, 1, 0>>, <<2, 2, 0>>}}

-----------------------------------------------------------------------------
(* What does not hold without the exceptions that Settled and CallsReturn  *)
(* name; no configuration lists these, README.md has the behaviours.       *)

\* A Create that is retried with other options finds the cluster of the first attempt
\* and answers success with the version and the size of that one.
AlwaysSettled ==
  Returned({"create", "update", "setVersion", "setSize"}) => Has(real, op.want)

\* waitCluster and waitNodePool poll for ever when the status is ERROR or DEGRADED.
CallsAlwaysReturn == pc # "idle" ~> pc = "idle"
=============================================================================
