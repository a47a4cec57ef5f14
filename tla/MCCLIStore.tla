----------------------------- MODULE MCCLIStore -----------------------------
(***************************************************************************)
(* CLIStore for TLC: two clusters, so that the shared kubeconfig matters,  *)
(* with credentials without client keys or without any certificate, and a  *)
(* fault.                                                                  *)
(***************************************************************************)
EXTENDS CLIStore, TLC

NameSymmetry == Permutations(Names)

-----------------------------------------------------------------------------
(* What the code says of itself and does not hold; no configuration lists  *)
(* these, README.md has the behaviours that refute them.                   *)

\* NeverLost without the window: a command that is killed, or whose os.Rename fails,
\* between os.Remove and os.Rename (utils.go:36-40) loses the kubeconfig of all
\* clusters, or the record of one.
NothingEverLost ==
  [][\A f \in File : Holds(f) /\ ~Holds(f)' =>
       phase = "removeAll" /\ f \in Dir(cmd.name)]_vars

\* "store kube config file" (clistore.go:67): after Store the kubeconfig has the
\* credentials of the cluster that was stored.
KubeconfigCurrent ==
  phase = "idle" /\ done.ok /\ done.cmd.op = "Store" =>
    fs[Kube].val.entry[done.cmd.name] = done.cmd.gen

\* "Current context is set to ..." (clistore.go:121): the context that env made
\* current is one of the kubeconfig.
EnvContextUsable ==
  phase = "idle" /\ done.ok /\ done.cmd.op = "SetEnv" =>
    fs[Kube].val.entry[done.cmd.name] # NoGen

\* "force to remove a cluster" (cmd/remove.go:21): when rm --force reports the
\* cluster removed, the store has no record of it.
ForceRemoves ==
  phase = "idle" /\ done.ok /\ done.cmd.op \in {"rmForce", "rmIgnore"} =>
    fs[Config(done.cmd.name)].st = "absent"
=============================================================================
