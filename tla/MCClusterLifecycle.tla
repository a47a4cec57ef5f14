------------------------- MODULE MCClusterLifecycle -------------------------
(***************************************************************************)
(* Instances of ClusterLifecycle for TLC.                                  *)
(***************************************************************************)
EXTENDS ClusterLifecycle, TLC

\* EngineService's methods, as Rancher calls them
ServiceOps == {"create", "update", "generateServiceAccount", "etcdRestore",
               "driverOnly", "remove", "forceRemove"}
\* the commands create, update, rm and rm --force
CommandOps == {"create", "update", "forceRemove", "rmForce"}

\* the callers differ in nothing but their names
Symmetry == Permutations(Procs)

-----------------------------------------------------------------------------
(* What the code says of itself and does not hold; no configuration lists  *)
(* these, README.md has the behaviours that refute them.                   *)

\* createInner: "Cluster %s already exists." and the error "cluster already
\* exists": Create says so only of a cluster that was created.
ExistsMeansCreated ==
  (\E p \in Procs : pc[p] = "create.exists") => cloud # "none"

\* README.md: "A serviceAccountToken which binds to the clusterAdmin is
\* automatically created for you": no cluster is Running without it.
RunningHasToken ==
  store.status = Running => "token" \in store.has
=============================================================================
