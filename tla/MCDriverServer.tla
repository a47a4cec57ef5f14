--------------------------- MODULE MCDriverServer ---------------------------
(***************************************************************************)
(* DriverServer for TLC: two operations that race for two ports.           *)
(***************************************************************************)
EXTENDS DriverServer, TLC

\* Not a property of the code, whose Start blocks when net.Listen fails after the
\* five seconds: StartReturns without that excuse.
StartAlwaysReturns ==
  \A x \in Builtin : caller[x] = "select" ~> caller[x] \notin {"select", "recvAddr"}

\* Not a property of the code, which does not wait for the child it had killed:
\* NothingLeftBehind with the child dead when the operation returns.
ChildDeadAtReturn ==
  \A x \in Callers : caller[x] = "returned" => plugin[x] \notin {"starting", "running"}
=============================================================================
