--------------------------- MODULE PlumbingProofs ---------------------------
(***************************************************************************)
(* Proofs about the plumbing between the service and its drivers, in two   *)
(* parts.  The log stream, for any number of writers, closers and events   *)
(* and any capacity: NoPanic, NothingLost and the types.  The driver       *)
(* servers, for any number of operations, any of them with a builtin       *)
(* driver, and any ports: StopAfterHealthCheck, NothingLeftBehind and      *)
(* RightDriver.                                                            *)
(***************************************************************************)
EXTENDS LogStream, DriverServer, SequenceTheorems, TLAPS

-----------------------------------------------------------------------------
(* The log stream.                                                         *)

\* between l.Lock() and l.Unlock()
Holding == {"check", "send", "unlock", "close", "mark"}

\* The inductive invariant.  The channel is closed before l.closed says so, and
\* the gap between the two is inside the critical section of the closer.
PanicInv ==
  /\ panics = "none"
  /\ \A p \in Procs :
       /\ pc[p] \in Holding => mutex = p
       /\ pc[p] \in {"send", "close"} => chanClosed = "open"
  /\ chanClosed = "closed" /\ closed = "open" => \E p \in Procs : pc[p] = "mark"

\* what the proof needs of the types
PcType == pc \in [Procs -> PC] /\ closed \in {"open", "closed"}
          /\ chanClosed \in {"open", "closed"} /\ mutex \in Procs \cup {"free"}

\* The control state keeps its type.
LEMMA PcTypeCorrect == LogSpec => []PcType
  <1>1. LogInit => PcType
    BY DEF LogInit, PcType, PC
  <1>2. PcType /\ [LogNext]_logVars => PcType'
    <2> SUFFICES ASSUME PcType, [LogNext]_logVars PROVE PcType'
      OBVIOUS
    <2> USE DEF PcType, PC, Goto
    <2>1. ASSUME NEW p \in Procs, Step(p) PROVE PcType'
      BY <2>1 DEF Step, Call, Lock, Check, NextAfterCheck, Send, CloseChannel, Mark,
                  Unlock, LockGlobal, Delete, UnlockGlobal
    <2>2. CASE Read
      BY <2>2 DEF Read
    <2>3. CASE UNCHANGED logVars
      BY <2>3 DEF logVars
    <2> QED
      BY <2>1, <2>2, <2>3 DEF LogNext
  <1> QED
    BY <1>1, <1>2, PTL DEF LogSpec

\* The invariant of the channel and the mutex holds.
LEMMA PanicInvHolds == LogSpec => []PanicInv
  <1>1. LogInit => PanicInv
    BY DEF LogInit, PanicInv, Holding
  <1>2. PcType /\ PanicInv /\ [LogNext]_logVars => PanicInv'
    <2> SUFFICES ASSUME PcType, PanicInv, [LogNext]_logVars PROVE PanicInv'
      OBVIOUS
    <2>0. "free" \notin Procs
      BY LogStreamAssumption DEF Procs
    <2> USE <2>0 DEF PcType, PanicInv, Holding, Goto
    <2>1. ASSUME NEW p \in Procs, Step(p) PROVE PanicInv'
      <3>1. CASE Call(p)
        BY <3>1 DEF Call
      <3>2. CASE Lock(p)
        BY <3>2 DEF Lock
      <3>3. CASE Check(p)
        BY <3>3 DEF Check, NextAfterCheck
      <3>4. CASE Send(p)
        BY <3>4 DEF Send
      <3>5. CASE CloseChannel(p)
        BY <3>5 DEF CloseChannel
      <3>6. CASE Mark(p)
        BY <3>6 DEF Mark
      <3>7. CASE Unlock(p)
        BY <3>7 DEF Unlock
      <3>8. CASE LockGlobal(p)
        BY <3>8 DEF LockGlobal
      <3>9. CASE Delete(p)
        BY <3>9 DEF Delete
      <3>10. CASE UnlockGlobal(p)
        BY <3>10 DEF UnlockGlobal
      <3> QED
        BY <2>1, <3>1, <3>2, <3>3, <3>4, <3>5, <3>6, <3>7, <3>8, <3>9, <3>10 DEF Step
    <2>2. CASE Read
      BY <2>2 DEF Read
    <2>3. CASE UNCHANGED logVars
      BY <2>3 DEF logVars
    <2> QED
      BY <2>1, <2>2, <2>3 DEF LogNext
  <1> QED
    BY <1>1, <1>2, PcTypeCorrect, PTL DEF LogSpec

\* However many goroutines write and close, none sends on the closed channel
\* and none closes it twice.
THEOREM NeverPanics == LogSpec => []NoPanic
  <1>1. PanicInv => NoPanic
    BY DEF PanicInv, NoPanic
  <1> QED
    BY <1>1, PanicInvHolds, PTL

-----------------------------------------------------------------------------
\* LogTypeOK is not inductive: that a writer stays within its bound is decided when
\* it is called, several steps before it sends.
TypeInv ==
  /\ LogTypeOK
  /\ \A p \in Procs :
       /\ pc[p] = "send" => p \in Writers
       /\ p \in Writers /\ pc[p] \in {"lock", "check", "send"} => sent[p] < MaxWrites

\* The invariant of the types holds.
LEMMA TypeInvHolds == LogSpec => []TypeInv
  <1>1. LogInit => TypeInv
    BY LogStreamAssumption DEF LogInit, TypeInv, LogTypeOK, PC
  <1>2. TypeInv /\ [LogNext]_logVars => TypeInv'
    <2> SUFFICES ASSUME TypeInv, [LogNext]_logVars PROVE TypeInv'
      OBVIOUS
    <2> USE LogStreamAssumption DEF TypeInv, LogTypeOK, PC, Goto, Procs
    <2>1. ASSUME NEW p \in Procs, Step(p), ~Send(p) PROVE TypeInv'
      BY <2>1 DEF Step, Call, Lock, Check, NextAfterCheck, CloseChannel, Mark,
                  Unlock, LockGlobal, Delete, UnlockGlobal
    <2>2. ASSUME NEW p \in Procs, Send(p) PROVE TypeInv'
      <3>1. p \in Writers /\ sent[p] \in 0..MaxWrites /\ sent[p] < MaxWrites
        BY <2>2 DEF Send
      <3>2. <<p, sent[p] + 1>> \in Event
        BY <3>1 DEF Event
      <3>3. queue' \in Seq(Event) /\ Len(queue') <= Capacity
        <4>1. CASE queue' = queue
          BY <4>1
        <4>2. CASE ~Full /\ queue' = Append(queue, <<p, sent[p] + 1>>)
          <5> DEFINE e == <<p, sent[p] + 1>>
          <5>1. e \in Event /\ queue \in Seq(Event) /\ queue' = Append(queue, e)
            BY <3>2, <4>2
          <5>2. Len(queue) \in Nat /\ Capacity \in Nat /\ Len(queue) < Capacity
            BY <4>2, <5>1 DEF Full
          <5> HIDE DEF e
          <5>3. queue' \in Seq(Event) /\ Len(queue') = Len(queue) + 1
            BY <5>1
          <5> QED
            BY <5>2, <5>3
        <4> QED
          BY <2>2, <4>1, <4>2 DEF Send
      <3>4. sent' \in [Writers -> 0..MaxWrites]
        BY <2>2, <3>1 DEF Send
      <3> QED
        BY <2>2, <3>1, <3>3, <3>4 DEF Send
    <2>3. CASE Read
      <3>1. Head(queue) \in Event /\ Tail(queue) \in Seq(Event)
            /\ Len(Tail(queue)) <= Capacity
        BY <2>3 DEF Read
      <3>2. got' \in Seq(Event)
        BY <2>3, <3>1 DEF Read
      <3> QED
        BY <2>3, <3>1, <3>2 DEF Read
    <2>4. CASE UNCHANGED logVars
      BY <2>4 DEF logVars
    <2> QED
      BY <2>1, <2>2, <2>3, <2>4 DEF LogNext
  <1> QED
    BY <1>1, <1>2, PTL DEF LogSpec

\* Every state is well typed; in particular the channel never holds more events
\* than its capacity, which a writer that finds it full waits for.
THEOREM LogTypeCorrect == LogSpec => []LogTypeOK
  <1>1. TypeInv => LogTypeOK
    BY DEF TypeInv
  <1> QED
    BY <1>1, TypeInvHolds, PTL

-----------------------------------------------------------------------------
\* A send adds its event at the end of the stream.
LEMMA StreamAppend ==
  ASSUME NEW S, NEW s \in Seq(S), NEW t \in Seq(S), NEW e \in S
  PROVE  s \o Append(t, e) = Append(s \o t, e)
  <1>1. s \o Append(t, e) \in Seq(S) /\ Append(s \o t, e) \in Seq(S)
    OBVIOUS
  <1>2. /\ Len(s \o Append(t, e)) = Len(s) + Len(t) + 1
        /\ Len(Append(s \o t, e)) = Len(s) + Len(t) + 1
    OBVIOUS
  <1>3. \A i \in 1..(Len(s) + Len(t) + 1) : (s \o Append(t, e))[i] = Append(s \o t, e)[i]
    OBVIOUS
  <1> QED
    BY <1>1, <1>2, <1>3, SeqEqual

\* A receive leaves the stream as it is.
LEMMA StreamShift ==
  ASSUME NEW S, NEW s \in Seq(S), NEW t \in Seq(S), t # <<>>
  PROVE  Append(s, Head(t)) \o Tail(t) = s \o t
  <1>1. Append(s, Head(t)) \o Tail(t) \in Seq(S) /\ s \o t \in Seq(S)
    OBVIOUS
  <1>2. /\ Len(Append(s, Head(t)) \o Tail(t)) = Len(s) + Len(t)
        /\ Len(s \o t) = Len(s) + Len(t)
    OBVIOUS
  <1>3. \A i \in 1..(Len(s) + Len(t)) : (Append(s, Head(t)) \o Tail(t))[i] = (s \o t)[i]
    OBVIOUS
  <1> QED
    BY <1>1, <1>2, <1>3, SeqEqual

\* Nothing that was written is lost, doubled or overtaken by a later event of the
\* same writer, for any number of writers and closers and any capacity.
THEOREM NothingIsLost == LogSpec => []NothingLost
  <1>1. LogInit => NothingLost
    BY DEF LogInit, NothingLost, Stream
  <1>2. TypeInv /\ PanicInv /\ NothingLost /\ [LogNext]_logVars => NothingLost'
    <2> SUFFICES ASSUME TypeInv, PanicInv, NothingLost, [LogNext]_logVars PROVE NothingLost'
      OBVIOUS
    <2>0. /\ queue \in Seq(Event) /\ got \in Seq(Event) /\ Stream \in Seq(Event)
          /\ sent \in [Writers -> Nat]
      BY LogStreamAssumption DEF TypeInv, LogTypeOK, Stream
    <2>1. ASSUME NEW p \in Procs, Send(p) PROVE NothingLost'
      <3> DEFINE e == <<p, sent[p] + 1>>
      <3>1. /\ p \in Writers /\ e \in Event
            /\ queue' = Append(queue, e) /\ got' = got
            /\ sent' = [sent EXCEPT ![p] = @ + 1]
        BY <2>1, LogStreamAssumption DEF Send, PanicInv, TypeInv, LogTypeOK, Event
      <3>2. Stream' = Append(Stream, e)
        BY <2>0, <3>1, StreamAppend DEF Stream
      <3>3. /\ Len(Stream') = Len(Stream) + 1 /\ Stream'[Len(Stream) + 1] = e
            /\ \A i \in 1..Len(Stream) : Stream'[i] = Stream[i]
            /\ Len(Stream) \in Nat
        BY <2>0, <3>1, <3>2, AppendProperties
      <3>4. \A i \in 1..Len(Stream) : Stream[i][1] \in Writers /\ Stream[i][2] \in Nat
        BY <2>0 DEF Event
      <3>5. /\ e[1] = p /\ e[2] = sent[p] + 1 /\ sent'[p] = sent[p] + 1
            /\ \A w \in Writers : w # p => sent'[w] = sent[w]
            /\ \A w \in Writers : sent[w] \in Nat
        BY <2>0, <3>1
      <3> DEFINE n == Len(Stream)
      <3>6. ASSUME NEW w \in Writers, NEW k \in 1..sent'[w]
            PROVE  \E i \in 1..Len(Stream') : Stream'[i] = <<w, k>>
        <4>1. CASE w = p /\ k = sent[p] + 1
          BY <3>3, <4>1
        <4>2. CASE k \in 1..sent[w]
          <5>1. PICK i \in 1..n : Stream[i] = <<w, k>>
            BY <4>2 DEF NothingLost
          <5> QED
            BY <3>3, <5>1
        <4> QED
          BY <3>5, <4>1, <4>2
      <3> HIDE DEF e
      <3>7. ASSUME NEW i \in 1..Len(Stream') PROVE Stream'[i][2] <= sent'[Stream'[i][1]]
        <4>1. CASE i = n + 1
          BY <3>1, <3>3, <3>5, <4>1
        <4>2. CASE i \in 1..n
          <5>1. Stream[i][2] <= sent[Stream[i][1]] /\ Stream'[i] = Stream[i]
            BY <3>3, <4>2 DEF NothingLost
          <5>2. /\ Stream[i][1] \in Writers /\ Stream[i][2] \in Nat
                /\ sent[Stream[i][1]] \in Nat
            BY <3>4, <3>5, <4>2
          <5>3. sent[Stream[i][1]] <= sent'[Stream[i][1]]
            BY <3>5, <5>2
          <5>4. sent'[Stream[i][1]] \in Nat
            BY <3>5, <5>2
          <5> QED
            BY <5>1, <5>2, <5>3, <5>4
        <4> QED
          BY <3>3, <4>1, <4>2
      <3>8. ASSUME NEW i \in 1..Len(Stream'), NEW j \in 1..Len(Stream'),
                   i < j, Stream'[i][1] = Stream'[j][1]
            PROVE  Stream'[i][2] < Stream'[j][2]
        <4>1. i \in 1..n /\ Stream'[i] = Stream[i] /\ Stream[i][2] <= sent[Stream[i][1]]
          BY <3>3, <3>8 DEF NothingLost
        <4>2. CASE j = n + 1
          BY <3>1, <3>3, <3>4, <3>5, <3>8, <4>1, <4>2
        <4>3. CASE j \in 1..n
          BY <3>3, <3>8, <4>1, <4>3 DEF NothingLost
        <4> QED
          BY <3>3, <4>2, <4>3
      <3> QED
        BY <3>6, <3>7, <3>8 DEF NothingLost
    <2>2. CASE Read
      <3>1. Stream' = Stream /\ sent' = sent
        BY <2>0, <2>2, StreamShift DEF Read, Stream
      <3> QED
        BY <3>1 DEF NothingLost
    <2>3. ASSUME NEW p \in Procs, Step(p), ~Send(p) PROVE NothingLost'
      <3>1. Stream' = Stream /\ sent' = sent
        BY <2>3 DEF Step, Call, Lock, Check, CloseChannel, Mark, Unlock, LockGlobal, Delete,
                    UnlockGlobal, Stream
      <3> QED
        BY <3>1 DEF NothingLost
    <2>4. CASE UNCHANGED logVars
      <3>1. Stream' = Stream /\ sent' = sent
        BY <2>4 DEF logVars, Stream
      <3> QED
        BY <3>1 DEF NothingLost
    <2> QED
      BY <2>1, <2>2, <2>3, <2>4 DEF LogNext
  <1> QED
    BY <1>1, <1>2, TypeInvHolds, PanicInvHolds, PTL DEF LogSpec

-----------------------------------------------------------------------------
(* The driver servers.                                                     *)

\* the labels of an operation before Serve runs, and after Start
Early  == {"start", "spawn"}
Using  == {"convert", "verify", "operate", "close", "stop"}

\* the labels of Serve before the server is made, and while it holds the listener
Unmade    == {"off", "listen", "sendErr", "sendAddr", "newServer"}
Listening == {"sendAddr", "newServer", "serve"}

\* how far Serve is when the operation of a builtin driver is at its label; a child
\* process has no Serve, a builtin driver no child process
ServeInv(x) ==
  /\ x \notin Builtin => serve[x] = "off" /\ caller[x] \notin {"select", "recvAddr", "panicked"}
  /\ x \in Builtin => plugin[x] = "none" /\ caller[x] # "sleep"
  /\ caller[x] \in Early => serve[x] = "off" /\ plugin[x] = "none"
  /\ caller[x] = "select" => serve[x] \in {"listen", "sendErr", "sendAddr"}
  /\ caller[x] = "recvAddr" => serve[x] \in {"listen", "sendErr", "sendAddr"}
  /\ caller[x] \in Using /\ x \in Builtin => serve[x] \in {"newServer", "serve", "serving"}
  /\ caller[x] = "returned" => serve[x] \notin Unmade \/ serve[x] = "off"
  /\ serve[x] \in Unmade => grpcServer[x] = "nil"
  /\ serve[x] \in {"serve", "serving"} => grpcServer[x] # "nil"
  /\ grpcServer[x] = "stopped" => caller[x] = "returned"

\* the port is picked before anybody listens, and the listener of Serve keeps it
PortInv(x) ==
  /\ caller[x] = "spawn" \/ serve[x] # "off" \/ plugin[x] = "starting" => port[x] \in Ports
  /\ \/ serve[x] \in Listening
     \/ serve[x] = "serving" /\ grpcServer[x] = "made"
     => owner[port[x]] = x

\* the connection, the server and the child process along the operation
UseInv(x) ==
  /\ caller[x] \in {"verify", "operate", "close"} \/ conn[x] # "open"
  /\ caller[x] = "returned" => grpcServer[x] # "made"
  /\ caller[x] = "returned" /\ plugin[x] \in {"starting", "running"} => cancelled[x]
  /\ healthy[x] => caller[x] \in {"operate", "close", "stop", "returned"}
  /\ healthy[x] /\ x \in Builtin => grpcServer[x] # "nil"
  /\ caller[x] \in {"operate", "close"} => healthy[x]

CallerInv(x) == ServeInv(x) /\ PortInv(x) /\ UseInv(x)

\* The inductive invariant.
ServerInv == TypeOK /\ \A x \in Callers : CallerInv(x)
-----------------------------------------------------------------------------
USE DEF CallerAt, ServeAt, Fail

\* Every state is well typed.
LEMMA TypeStep ==
  ASSUME TypeOK, NEW x \in Callers, CallerInv(x),
         StartStep(x) \/ ServeStep(x) \/ ChildStep(x) \/ UseStep(x)
  PROVE  TypeOK'
  <1> USE DEF TypeOK, CallerPC, ServePC
  <1>1. CASE PickPort(x)
    BY <1>1 DEF PickPort
  <1>2. CASE SpawnServe(x)
    BY <1>2 DEF SpawnServe
  <1>3. CASE SelectError(x)
    BY <1>3 DEF SelectError
  <1>4. CASE SelectTimeout(x)
    BY <1>4 DEF SelectTimeout
  <1>5. CASE RecvAddr(x)
    BY <1>5 DEF RecvAddr
  <1>6. CASE SpawnPlugin(x)
    BY <1>6 DEF SpawnPlugin
  <1>7. CASE SleepOver(x)
    BY <1>7 DEF SleepOver
  <1>8. CASE PluginUp(x)
    BY <1>8 DEF PluginUp, CallerInv, PortInv
  <1>9. CASE Listen(x)
    BY <1>9 DEF Listen, ListenOutcome, CallerInv, PortInv
  <1>10. CASE NewGrpcServer(x)
    BY <1>10 DEF NewGrpcServer
  <1>11. CASE ServeCall(x)
    BY <1>11 DEF ServeCall, Release
  <1>12. CASE ServeEnds(x)
    BY <1>12 DEF ServeEnds
  <1>13. CASE Convert(x)
    BY <1>13 DEF Convert
  <1>14. CASE VerifyOk(x)
    BY <1>14 DEF VerifyOk
  <1>15. CASE VerifyFails(x)
    BY <1>15 DEF VerifyFails, GiveUp, Exhausted, MaxFailures
  <1>16. CASE Operate(x)
    BY <1>16 DEF Operate
  <1>17. CASE CloseConn(x)
    BY <1>17 DEF CloseConn
  <1>18. CASE StopBuiltin(x)
    BY <1>18 DEF StopBuiltin, StopServer, Release
  <1>19. CASE StopPlugin(x)
    BY <1>19 DEF StopPlugin
  <1>20. CASE Kill(x)
    BY <1>20 DEF Kill, Release
  <1> QED
    BY <1>1, <1>2, <1>3, <1>4, <1>5, <1>6, <1>7, <1>8, <1>9, <1>10, <1>11,
       <1>12, <1>13, <1>14, <1>15, <1>16, <1>17, <1>18, <1>19, <1>20
       DEF StartStep, ServeStep, ChildStep, UseStep

-----------------------------------------------------------------------------
\* what a step of x does to the other operations: theirs is left alone, and so is
\* every port that somebody else listens on
Harmless(x) ==
  /\ \A y \in Callers \ {x} :
       /\ caller'[y] = caller[y] /\ serve'[y] = serve[y] /\ grpcServer'[y] = grpcServer[y]
       /\ plugin'[y] = plugin[y] /\ port'[y] = port[y] /\ conn'[y] = conn[y]
       /\ healthy'[y] = healthy[y] /\ cancelled'[y] = cancelled[y]
  /\ \A p \in Ports : owner[p] \notin {"free", x} => owner'[p] = owner[p]

\* A harmless step keeps the invariant of the others.
LEMMA HarmlessKeeps ==
  ASSUME TypeOK, NEW x \in Callers, Harmless(x), NEW y \in Callers, y # x, CallerInv(y)
  PROVE  CallerInv(y)'
  <1>1. /\ caller'[y] = caller[y] /\ serve'[y] = serve[y] /\ grpcServer'[y] = grpcServer[y]
        /\ plugin'[y] = plugin[y] /\ port'[y] = port[y] /\ conn'[y] = conn[y]
        /\ healthy'[y] = healthy[y] /\ cancelled'[y] = cancelled[y]
    BY DEF Harmless
  <1>2. ServeInv(y)'
    BY <1>1 DEF CallerInv, ServeInv
  <1>3. PortInv(y)'
    <2>1. port[y] \in Ports /\ owner[port[y]] = y => owner'[port[y]] = y
      BY DriverServerAssumption DEF Harmless
    <2>2. PortInv(y)
      BY DEF CallerInv
    <2> QED
      BY <1>1, <2>1, <2>2 DEF PortInv, Listening
  <1>4. UseInv(y)'
    BY <1>1 DEF CallerInv, UseInv
  <1> QED
    BY <1>2, <1>3, <1>4 DEF CallerInv

\* Every step is harmless: a listener takes only a free port, and a port is given up
\* only by its owner.
LEMMA StepsAreHarmless ==
  ASSUME TypeOK, NEW x \in Callers,
         StartStep(x) \/ ServeStep(x) \/ ChildStep(x) \/ UseStep(x)
  PROVE  Harmless(x)
  <1> USE DEF TypeOK, Harmless
  <1>1. CASE StartStep(x)
    BY <1>1 DEF StartStep, PickPort, SpawnServe, SelectError, SelectTimeout, RecvAddr,
                SpawnPlugin, SleepOver
  <1>2. CASE Listen(x)
    BY <1>2 DEF Listen
  <1>3. CASE ChildStep(x)
    BY <1>3 DEF ChildStep, PluginUp, Kill, Release
  <1>4. CASE NewGrpcServer(x) \/ ServeCall(x) \/ ServeEnds(x)
    BY <1>4 DEF NewGrpcServer, ServeCall, ServeEnds, Release
  <1>5. CASE Convert(x) \/ VerifyOk(x) \/ VerifyFails(x) \/ Operate(x) \/ CloseConn(x)
    BY <1>5 DEF Convert, VerifyOk, VerifyFails, Operate, CloseConn, GiveUp
  <1>6. CASE StopBuiltin(x) \/ StopPlugin(x)
    BY <1>6 DEF StopBuiltin, StopServer, StopPlugin, Release
  <1> QED
    BY <1>1, <1>2, <1>3, <1>4, <1>5, <1>6 DEF ServeStep, UseStep

-----------------------------------------------------------------------------
\* The part of Start.
LEMMA StartKeeps ==
  ASSUME TypeOK, NEW x \in Callers, CallerInv(x), StartStep(x)
  PROVE  CallerInv(x)'
  <1> USE DEF TypeOK, CallerInv, ServeInv, PortInv, UseInv, Early, Using, Unmade, Listening
  <1>1. CASE PickPort(x)
    BY <1>1 DEF PickPort
  <1>2. CASE SpawnServe(x)
    BY <1>2 DEF SpawnServe
  <1>3. CASE SelectError(x)
    BY <1>3 DEF SelectError
  <1>4. CASE SelectTimeout(x)
    BY <1>4 DEF SelectTimeout
  <1>5. CASE RecvAddr(x)
    BY <1>5 DEF RecvAddr
  <1>6. CASE SpawnPlugin(x)
    BY <1>6 DEF SpawnPlugin
  <1>7. CASE SleepOver(x)
    BY <1>7 DEF SleepOver
  <1> QED
    BY <1>1, <1>2, <1>3, <1>4, <1>5, <1>6, <1>7 DEF StartStep

\* The goroutine of Serve and the child process.
LEMMA ServeKeeps ==
  ASSUME TypeOK, NEW x \in Callers, CallerInv(x), ServeStep(x) \/ ChildStep(x)
  PROVE  CallerInv(x)'
  <1> USE DEF TypeOK, CallerInv, ServeInv, PortInv, UseInv, Early, Using, Unmade, Listening
  <1>1. CASE Listen(x)
    BY <1>1 DEF Listen, ListenOutcome
  <1>2. CASE NewGrpcServer(x)
    BY <1>2 DEF NewGrpcServer
  <1>3. CASE ServeCall(x)
    BY <1>3 DEF ServeCall, Release
  <1>4. CASE ServeEnds(x)
    BY <1>4 DEF ServeEnds
  <1>5. CASE PluginUp(x)
    BY <1>5 DEF PluginUp
  <1>6. CASE Kill(x)
    BY <1>6 DEF Kill, Release
  <1> QED
    BY <1>1, <1>2, <1>3, <1>4, <1>5, <1>6 DEF ServeStep, ChildStep

\* convertCluster, the operation, Close and Stop.
LEMMA UseKeeps ==
  ASSUME TypeOK, NEW x \in Callers, CallerInv(x), UseStep(x)
  PROVE  CallerInv(x)'
  <1> USE DEF TypeOK, CallerInv, ServeInv, PortInv, UseInv, Early, Using, Unmade, Listening
  <1>1. CASE Convert(x)
    BY <1>1 DEF Convert
  <1>2. CASE VerifyOk(x)
    BY <1>2 DEF VerifyOk, Verified, Answers
  <1>3. CASE VerifyFails(x)
    BY <1>3 DEF VerifyFails, GiveUp
  <1>4. CASE Operate(x)
    BY <1>4 DEF Operate
  <1>5. CASE CloseConn(x)
    BY <1>5 DEF CloseConn
  <1>6. CASE StopBuiltin(x)
    BY <1>6 DEF StopBuiltin, StopServer, Release
  <1>7. CASE StopPlugin(x)
    BY <1>7 DEF StopPlugin
  <1> QED
    BY <1>1, <1>2, <1>3, <1>4, <1>5, <1>6, <1>7 DEF UseStep

-----------------------------------------------------------------------------
\* The inductive invariant holds.
LEMMA ServerInvHolds == Spec => []ServerInv
  <1>1. Init => ServerInv
    BY DEF Init, ServerInv, TypeOK, CallerPC, ServePC, MaxFailures, CallerInv, ServeInv, PortInv,
           UseInv, Early, Using, Unmade, Listening
  <1>2. ServerInv /\ [Next]_vars => ServerInv'
    <2> SUFFICES ASSUME ServerInv, [Next]_vars PROVE ServerInv'
      OBVIOUS
    <2>1. ASSUME NEW x \in Callers,
                 StartStep(x) \/ ServeStep(x) \/ ChildStep(x) \/ UseStep(x)
          PROVE  ServerInv'
      <3>1. TypeOK /\ CallerInv(x)
        BY DEF ServerInv
      <3>2. TypeOK' /\ Harmless(x)
        BY <2>1, <3>1, TypeStep, StepsAreHarmless
      <3>3. CallerInv(x)'
        BY <2>1, <3>1, StartKeeps, ServeKeeps, UseKeeps
      <3>4. ASSUME NEW y \in Callers, y # x PROVE CallerInv(y)'
        BY <3>1, <3>2, <3>4, HarmlessKeeps DEF ServerInv
      <3> QED
        BY <3>2, <3>3, <3>4 DEF ServerInv
    <2>2. CASE UNCHANGED vars
      BY <2>2 DEF vars, ServerInv, TypeOK, CallerInv, ServeInv, PortInv, UseInv
    <2> QED
      BY <2>1, <2>2 DEF Next
  <1> QED
    BY <1>1, <1>2, PTL DEF Spec

\* Stop never meets the nil server of a driver that has passed the health check.
THEOREM HealthCheckOrdersStop == Spec => []StopAfterHealthCheck
  <1>1. ServerInv => StopAfterHealthCheck
    BY DEF ServerInv, CallerInv, UseInv, StopAfterHealthCheck
  <1> QED
    BY <1>1, ServerInvHolds, PTL

\* An operation that ended has closed its connection, and one that returned has
\* stopped its server or had its child process killed.
THEOREM ReturnsClean == Spec => []NothingLeftBehind
  <1>1. ServerInv => NothingLeftBehind
    BY DEF ServerInv, CallerInv, UseInv, NothingLeftBehind, Using
  <1> QED
    BY <1>1, ServerInvHolds, PTL

\* An operation with a builtin driver is answered by its own driver, whoever else
\* was given the same port.
THEOREM OwnDriverAnswers == Spec => []RightDriver
  <1>1. ServerInv => RightDriver
    <2> SUFFICES ASSUME ServerInv, NEW x \in Builtin, caller[x] = "operate"
                 PROVE  owner[port[x]] = x
      BY DEF RightDriver
    <2>1. x \in Callers /\ TypeOK /\ ServeInv(x) /\ PortInv(x) /\ UseInv(x)
      BY DriverServerAssumption DEF ServerInv, CallerInv
    <2>2. grpcServer[x] = "made" /\ serve[x] \in {"serve", "serving"}
      BY <2>1 DEF ServeInv, UseInv, TypeOK, Using, Unmade
    <2> QED
      BY <2>1, <2>2 DEF PortInv, Listening
  <1> QED
    BY <1>1, ServerInvHolds, PTL
=============================================================================
