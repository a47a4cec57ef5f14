---------------------------- MODULE MCAKSDriver -----------------------------
(***************************************************************************)
(* AKSDriver for TLC: two versions and two sizes, so that SetVersion and   *)
(* SetClusterSize have a field to change and one to leave alone.           *)
(***************************************************************************)
EXTENDS AKSDriver, TLC

-----------------------------------------------------------------------------
(* What the code says of itself and does not hold; no configuration lists  *)
(* this, README.md has the behaviour that refutes it.                      *)

\* "marked as failed but waiting for recovery: retries left %v"
\* (aks_driver.go:880): the first Failed does not end createOrUpdate.
RecoveryAwaited == result = "notProvisioned" => lastSeen # "Failed"
=============================================================================
