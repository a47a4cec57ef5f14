---------------------------- MODULE DriverServer ----------------------------
(***************************************************************************)
(* One operation of EngineService (service/service.go): it starts a driver *)
(* server on a port it picked, checks that the driver answers, runs the    *)
(* operation over gRPC, closes the connection and stops the driver.        *)
(* A builtin driver is served by a goroutine (GrpcServer.Serve in          *)
(* types/rpc_server.go) that talks to Start over two unbuffered channels;  *)
(* any other driver is a child process.  Several operations run at once    *)
(* and share the host's ports.                                             *)
(***************************************************************************)
EXTENDS Integers, FiniteSets

CONSTANTS
  Callers,     \* operations of the service under way
  Builtin,     \* the callers whose driver is builtin
  Ports        \* the ephemeral ports of the host

MaxFailures == 5  \* convertCluster gives up when failures > 5

ASSUME DriverServerAssumption ==
  /\ Builtin \subseteq Callers
  /\ "free" \notin Callers /\ "none" \notin Ports

VARIABLES
  caller,     \* what the operation does next
  result,     \* what it returns
  port,       \* the port it picked, "none" before
  serve,      \* where its Serve goroutine is
  grpcServer, \* the field GrpcServer.grpcServer
  plugin,     \* its child process
  owner,      \* who listens on each port
  conn,       \* the gRPC client connection
  failures,   \* the counter of convertCluster
  cancelled,  \* the context of its child process is cancelled
  healthy,    \* history: GetCapabilities answered
  late        \* history: the five seconds were over before net.Listen had succeeded

vars == <<caller, result, port, serve, grpcServer, plugin, owner, conn, failures,
          cancelled, healthy, late>>

CallerPC == {"start", "spawn", "select", "recvAddr", "sleep", "convert", "verify",
             "operate", "close", "stop", "returned", "panicked"}
ServePC  == {"off", "listen", "sendErr", "sendAddr", "newServer", "serve",
             "serving", "sendServeErr", "done"}

TypeOK ==
  /\ caller \in [Callers -> CallerPC]
  /\ result \in [Callers -> {"none", "ok", "error"}]
  /\ port \in [Callers -> Ports \cup {"none"}]
  /\ serve \in [Callers -> ServePC]
  /\ grpcServer \in [Callers -> {"nil", "made", "stopped"}]
  /\ plugin \in [Callers -> {"none", "starting", "running", "dead"}]
  /\ owner \in [Ports -> Callers \cup {"free"}]
  /\ conn \in [Callers -> {"none", "open", "closed"}]
  /\ failures \in [Callers -> 0..(MaxFailures + 1)]
  /\ cancelled \in [Callers -> BOOLEAN]
  /\ healthy \in [Callers -> BOOLEAN]
  /\ late \in [Callers -> BOOLEAN]

Init ==
  /\ caller = [x \in Callers |-> "start"]
  /\ result = [x \in Callers |-> "none"]
  /\ port = [x \in Callers |-> "none"]
  /\ serve = [x \in Callers |-> "off"]
  /\ grpcServer = [x \in Callers |-> "nil"]
  /\ plugin = [x \in Callers |-> "none"]
  /\ owner = [p \in Ports |-> "free"]
  /\ conn = [x \in Callers |-> "none"]
  /\ failures = [x \in Callers |-> 0]
  /\ cancelled = [x \in Callers |-> FALSE]
  /\ healthy = [x \in Callers |-> FALSE]
  /\ late = [x \in Callers |-> FALSE]

-----------------------------------------------------------------------------
(* Helpers.                                                                *)

CallerAt(x, l) == caller' = [caller EXCEPT ![x] = l]
ServeAt(x, l)  == serve' = [serve EXCEPT ![x] = l]

Fail(x, l) ==
  /\ result' = [result EXCEPT ![x] = "error"]
  /\ CallerAt(x, l)

\* the operation whose driver listens on p answers gRPC calls
Answers(p) ==
  /\ owner[p] # "free"
  /\ \/ serve[owner[p]] = "serving" /\ grpcServer[owner[p]] = "made"
     \/ plugin[owner[p]] = "running"

\* a listener is closed: its port is free again
Release(x) ==
  owner' = [p \in Ports |-> IF owner[p] = x THEN "free" ELSE owner[p]]

-----------------------------------------------------------------------------
(* RunningDriver.Start.                                                    *)

\* net.Listen on port 0, Addr, Close: the port is known and free again
PickPort(x) ==
  /\ caller[x] = "start"
  /\ \/ /\ \E p \in Ports :
             /\ owner[p] = "free"
             /\ port' = [port EXCEPT ![x] = p]
        /\ CallerAt(x, "spawn")
        /\ UNCHANGED result
     \/ Fail(x, "returned") /\ UNCHANGED port
  /\ UNCHANGED <<serve, grpcServer, plugin, owner, conn, failures,
                 cancelled, healthy, late>>

\* builtin: look the driver up, go r.Server.Serve
SpawnServe(x) ==
  /\ caller[x] = "spawn" /\ x \in Builtin
  /\ \/ ServeAt(x, "listen") /\ CallerAt(x, "select") /\ UNCHANGED result
     \/ Fail(x, "returned") /\ UNCHANGED serve
  /\ UNCHANGED <<port, grpcServer, plugin, owner, conn, failures,
                 cancelled, healthy, late>>

\* mutant of SelectError: the error is not looked at
SelectErrorIgnored(x) ==
  /\ caller[x] = "select"
  /\ serve[x] = "sendErr"
  /\ CallerAt(x, "recvAddr")
  /\ UNCHANGED <<result, port, serve, grpcServer, plugin, owner, conn, failures,
                 cancelled, healthy, late>>

\* case err = <-errChan
SelectError(x) ==
  /\ caller[x] = "select"
  /\ serve[x] = "sendErr"
  /\ ServeAt(x, "done")
  /\ Fail(x, "returned")
  /\ UNCHANGED <<port, grpcServer, plugin, owner, conn, failures,
                 cancelled, healthy, late>>

\* case <-time.After(5 * time.Second): "assume it won't error", wherever Serve is
SelectTimeout(x) ==
  /\ caller[x] = "select"
  /\ late' = [late EXCEPT ![x] = serve[x] # "sendAddr"]
  /\ CallerAt(x, "recvAddr")
  /\ UNCHANGED <<result, port, serve, grpcServer, plugin, owner, conn, failures,
                 cancelled, healthy>>

\* r.listenAddress = <-addr
RecvAddr(x) ==
  /\ caller[x] = "recvAddr"
  /\ serve[x] = "sendAddr"
  /\ ServeAt(x, "newServer")
  /\ CallerAt(x, "convert")
  /\ UNCHANGED <<result, port, grpcServer, plugin, owner, conn, failures,
                 cancelled, healthy, late>>

\* a child process: credentials, jail, cmd.Start
SpawnPlugin(x) ==
  /\ caller[x] = "spawn" /\ x \notin Builtin
  /\ \/ /\ plugin' = [plugin EXCEPT ![x] = "starting"]
        /\ CallerAt(x, "sleep")
        /\ UNCHANGED result
     \/ Fail(x, "returned") /\ UNCHANGED plugin
  /\ UNCHANGED <<port, serve, grpcServer, owner, conn, failures,
                 cancelled, healthy, late>>

\* time.Sleep(5 * time.Second), whatever the child has done by then
SleepOver(x) ==
  /\ caller[x] = "sleep"
  /\ CallerAt(x, "convert")
  /\ UNCHANGED <<result, port, serve, grpcServer, plugin, owner, conn, failures,
                 cancelled, healthy, late>>

\* external: the child listens on the port it was told (ServeOrDie), or dies
PluginUp(x) ==
  /\ plugin[x] = "starting"
  /\ IF owner[port[x]] = "free"
       THEN /\ plugin' = [plugin EXCEPT ![x] = "running"]
            /\ owner' = [owner EXCEPT ![port[x]] = x]
       ELSE plugin' = [plugin EXCEPT ![x] = "dead"] /\ UNCHANGED owner
  /\ UNCHANGED <<caller, result, port, serve, grpcServer, conn, failures,
                 cancelled, healthy, late>>

-----------------------------------------------------------------------------
(* GrpcServer.Serve, in its goroutine.                                     *)

\* mutant of ListenOutcome: an address in use is not reported
ListenOutcomeIgnored(x) == "sendAddr"

\* net.Listen fails when somebody took the port since PickPort
ListenOutcome(x) == IF owner[port[x]] = "free" THEN "sendAddr" ELSE "sendErr"

Listen(x) ==
  /\ serve[x] = "listen"
  /\ ServeAt(x, ListenOutcome(x))
  /\ owner' = IF owner[port[x]] = "free" THEN [owner EXCEPT ![port[x]] = x] ELSE owner
  /\ UNCHANGED <<caller, result, port, grpcServer, plugin, conn, failures,
                 cancelled, healthy, late>>

\* s.grpcServer = grpc.NewServer(), only after the address was handed over
NewGrpcServer(x) ==
  /\ serve[x] = "newServer"
  /\ grpcServer' = [grpcServer EXCEPT ![x] = "made"]
  /\ ServeAt(x, "serve")
  /\ UNCHANGED <<caller, result, port, plugin, owner, conn, failures,
                 cancelled, healthy, late>>

\* s.grpcServer.Serve(listen): a server that was stopped before closes the
\* listener and returns ErrServerStopped, which Serve sends to errChan
ServeCall(x) ==
  /\ serve[x] = "serve"
  /\ IF grpcServer[x] = "stopped"
       THEN ServeAt(x, "sendServeErr") /\ Release(x)
       ELSE ServeAt(x, "serving") /\ UNCHANGED owner
  /\ UNCHANGED <<caller, result, port, grpcServer, plugin, conn, failures,
                 cancelled, healthy, late>>

\* mutant of ServeEnds: errChan <- err without looking at err
ServeEndsReporting(x) ==
  /\ serve[x] = "serving"
  /\ grpcServer[x] = "stopped"
  /\ ServeAt(x, "sendServeErr")
  /\ UNCHANGED <<caller, result, port, grpcServer, plugin, owner, conn, failures,
                 cancelled, healthy, late>>

\* Serve of a server that is stopped while it runs returns nil
ServeEnds(x) ==
  /\ serve[x] = "serving"
  /\ grpcServer[x] = "stopped"
  /\ ServeAt(x, "done")
  /\ UNCHANGED <<caller, result, port, grpcServer, plugin, owner, conn, failures,
                 cancelled, healthy, late>>

-----------------------------------------------------------------------------
(* convertCluster, the operation, the deferred Close and Stop.             *)

\* the driver's name from the spec, NewCluster
Convert(x) ==
  /\ caller[x] = "convert"
  /\ \/ Fail(x, "stop") /\ UNCHANGED conn
     \/ /\ conn' = [conn EXCEPT ![x] = "open"]
        /\ CallerAt(x, "verify")
        /\ UNCHANGED result
  /\ UNCHANGED <<port, serve, grpcServer, plugin, owner, failures,
                 cancelled, healthy, late>>

\* mutant of Verified: the first answer is not waited for
VerifiedUnasked(x) == TRUE

\* GetCapabilities answers
Verified(x) == Answers(port[x])

VerifyOk(x) ==
  /\ caller[x] = "verify"
  /\ Verified(x)
  /\ healthy' = [healthy EXCEPT ![x] = TRUE]
  /\ CallerAt(x, "operate")
  /\ UNCHANGED <<result, port, serve, grpcServer, plugin, owner, conn,
                 failures, cancelled, late>>

\* mutant of GiveUp: the error return does not close the connection
GiveUpLeaking(x) ==
  /\ Fail(x, "stop")
  /\ UNCHANGED <<conn, failures>>

\* Driver.Close and the error
GiveUp(x) ==
  /\ conn' = [conn EXCEPT ![x] = "closed"]
  /\ Fail(x, "stop")
  /\ UNCHANGED failures

\* failures > 5
Exhausted(x) == failures[x] > MaxFailures

VerifyFails(x) ==
  /\ caller[x] = "verify"
  /\ \/ Exhausted(x) /\ GiveUp(x)
     \/ /\ ~Exhausted(x)
        /\ failures' = [failures EXCEPT ![x] = @ + 1]
        /\ UNCHANGED <<caller, result, conn>>
  /\ UNCHANGED <<port, serve, grpcServer, plugin, owner, cancelled, healthy, late>>

\* cls.Create, Update, Remove, ... with its result
Operate(x) ==
  /\ caller[x] = "operate"
  /\ \E r \in {"ok", "error"} : result' = [result EXCEPT ![x] = r]
  /\ CallerAt(x, "close")
  /\ UNCHANGED <<port, serve, grpcServer, plugin, owner, conn, failures,
                 cancelled, healthy, late>>

\* defer cls.Driver.Close()
CloseConn(x) ==
  /\ caller[x] = "close"
  /\ conn' = [conn EXCEPT ![x] = "closed"]
  /\ CallerAt(x, "stop")
  /\ UNCHANGED <<result, port, serve, grpcServer, plugin, owner, failures,
                 cancelled, healthy, late>>

\* defer runningDriver.Stop() of a builtin driver: s.grpcServer.Stop() on the
\* field that Serve assigns in its goroutine; it closes the listeners the
\* server already serves
StopServer(x) ==
  /\ grpcServer[x] # "nil"
  /\ grpcServer' = [grpcServer EXCEPT ![x] = "stopped"]
  /\ IF serve[x] = "serving" THEN Release(x) ELSE UNCHANGED owner
  /\ CallerAt(x, "returned")

StopBuiltin(x) ==
  /\ caller[x] = "stop" /\ x \in Builtin
  /\ \/ StopServer(x)
     \/ /\ grpcServer[x] = "nil"        \* a nil pointer is dereferenced
        /\ CallerAt(x, "panicked")
        /\ UNCHANGED <<grpcServer, owner>>
  /\ UNCHANGED <<result, port, serve, plugin, conn, failures, cancelled, healthy, late>>

\* defer runningDriver.Stop() of a child process: r.cancel(), and nobody waits
StopPlugin(x) ==
  /\ caller[x] = "stop" /\ x \notin Builtin
  /\ cancelled' = [cancelled EXCEPT ![x] = TRUE]
  /\ CallerAt(x, "returned")
  /\ UNCHANGED <<result, port, serve, grpcServer, plugin, owner, conn, failures, healthy, late>>

\* external: the goroutine of exec.CommandContext kills the child, at any time after
Kill(x) ==
  /\ cancelled[x]
  /\ plugin[x] \in {"starting", "running"}
  /\ plugin' = [plugin EXCEPT ![x] = "dead"]
  /\ Release(x)
  /\ UNCHANGED <<caller, result, port, serve, grpcServer, conn, failures,
                 cancelled, healthy, late>>

-----------------------------------------------------------------------------
StartStep(x) ==
  \/ PickPort(x) \/ SpawnServe(x) \/ SelectError(x) \/ SelectTimeout(x)
  \/ RecvAddr(x) \/ SpawnPlugin(x) \/ SleepOver(x)

ServeStep(x) ==
  Listen(x) \/ NewGrpcServer(x) \/ ServeCall(x) \/ ServeEnds(x)

UseStep(x) ==
  \/ Convert(x) \/ VerifyOk(x) \/ VerifyFails(x) \/ Operate(x) \/ CloseConn(x)
  \/ StopBuiltin(x) \/ StopPlugin(x)

ChildStep(x) == PluginUp(x) \/ Kill(x)

Next == \E x \in Callers : StartStep(x) \/ ServeStep(x) \/ ChildStep(x) \/ UseStep(x)

Spec == Init /\ [][Next]_vars

\* goroutines that can run do, those of exec included; a driver's work ends
FairSpec ==
  /\ Spec
  /\ \A x \in Callers : /\ WF_vars(StartStep(x))
                        /\ WF_vars(ServeStep(x))
                        /\ WF_vars(UseStep(x))
                        /\ WF_vars(ChildStep(x))
                        /\ WF_vars(Kill(x))

-----------------------------------------------------------------------------
\* Once GetCapabilities has answered, Stop finds the server that Serve assigned
\* in its goroutine: the health check of convertCluster is what orders the two.
StopAfterHealthCheck ==
  \A x \in Callers : caller[x] = "panicked" => ~healthy[x]

\* No way out of an operation leaves the connection open, the panic of Stop on a nil
\* server included.  One that returned has stopped the server it made and has had
\* the death of its child process asked for, on every error path of Start,
\* convertCluster and the operation.  (The panic ends the process, unless a caller
\* of the library recovers from it: then the server it missed goes on serving.)
NothingLeftBehind ==
  \A x \in Callers :
    /\ caller[x] \in {"returned", "panicked"} => conn[x] # "open"
    /\ caller[x] = "returned" =>
         /\ grpcServer[x] # "made"
         /\ plugin[x] \in {"starting", "running"} => cancelled[x]

\* An operation with a builtin driver talks to its own driver although the port
\* was free for everybody between Close in Start and Listen in Serve.
RightDriver ==
  \A x \in Builtin : caller[x] = "operate" => owner[port[x]] = x

\* Start returns, with an address or with an error, but for one way: the five seconds
\* were over before net.Listen was, and then net.Listen failed.  Start then waits on
\* addr and Serve on errChan.
StartReturns ==
  \A x \in Builtin :
    caller[x] = "select" ~> \/ caller[x] \notin {"select", "recvAddr"}
                            \/ late[x] /\ serve[x] = "sendErr"

\* What an operation started ends after it: the Serve goroutine of a driver that
\* answered, which is not left on errChan that nobody reads any more, and the child
\* process, which is killed with nobody waiting for it.
DriverEnds ==
  \A x \in Callers :
    IF x \in Builtin THEN (caller[x] = "returned" /\ healthy[x]) ~> serve[x] = "done"
                     ELSE caller[x] = "returned" ~> plugin[x] \notin {"starting", "running"}
=============================================================================
