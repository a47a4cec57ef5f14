---------------------------- MODULE MCEKSDriver -----------------------------
(***************************************************************************)
(* EKSDriver for TLC: two versions, so that there is one update.           *)
(***************************************************************************)
EXTENDS EKSDriver, TLC

-----------------------------------------------------------------------------
(* What the code says of itself and does not hold; no configuration lists  *)
(* these, README.md has the behaviours that refute them.                   *)

\* "Cluster %s previously failed to create" (cluster.go:187): Create is called
\* again after a failure and takes what an earlier call made for done.
RetryTolerant == result # "alreadyExists"

\* RecordedVersionRuns without the excuse: a Create that is retried with a newer
\* version records it (eks_driver.go:583), and tolerates the older control plane
\* (eks_driver.go:684).  An Update to the recorded version then has nothing to do.
RecordedVersionAlwaysRuns == created => state <= version

\* "Waiting for cluster [%s] update to finish updating" (eks_driver.go:1410):
\* once AWS has ended the update, Update and SetVersion return.
UpdateReturns == pc = "update.wait" ~> pc = "idle"
=============================================================================
