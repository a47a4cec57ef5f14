------------------------------ MODULE LogStream ------------------------------
(***************************************************************************)
(* logstream/logstream.go: one loggerStream, the goroutines that write to  *)
(* it, the ones that close it, the reader of its channel and the global    *)
(* registry `logs` in which GetCtx (types/rpc_server.go) looks it up.      *)
(* A write sends on the channel while it holds the stream's mutex.         *)
(***************************************************************************)
EXTENDS Integers, Sequences, FiniteSets

CONSTANTS
  Writers,    \* goroutines that call Infof or Warnf
  Closers,    \* goroutines that call Close
  Capacity,   \* of the channel: 100 in newLoggerStream
  MaxWrites   \* bound: calls per writer

ASSUME LogStreamAssumption ==
  /\ Writers \cap Closers = {}
  /\ "free" \notin Writers \cup Closers
  /\ Capacity \in Nat \ {0}
  /\ MaxWrites \in Nat

Procs == Writers \cup Closers

VARIABLES
  pc,          \* what each goroutine does next
  mutex,       \* who holds l.Mutex, or "free"
  global,      \* who holds the package's lock, or "free"
  closed,      \* the field l.closed
  chanClosed,  \* the channel itself is closed
  queue,       \* the events in the channel, oldest first
  sent,        \* history: number of events each writer has sent
  got,         \* history: the events the reader received
  registered,  \* the stream is in logs
  panics       \* history: sends on, or closes of, a closed channel

logVars == <<pc, mutex, global, closed, chanClosed, queue, sent, got, registered, panics>>

PC == {"idle", "lock", "check", "send", "unlock", "close", "mark", "delist",
       "delete", "unlockGlobal", "done"}

Event == Writers \X (1..MaxWrites)

LogTypeOK ==
  /\ pc \in [Procs -> PC]
  /\ mutex \in Procs \cup {"free"}
  /\ global \in Procs \cup {"free"}
  /\ closed \in {"open", "closed"}
  /\ chanClosed \in {"open", "closed"}
  /\ queue \in Seq(Event)
  /\ Len(queue) <= Capacity
  /\ sent \in [Writers -> 0..MaxWrites]
  /\ got \in Seq(Event)
  /\ registered \in {"listed", "gone"}
  /\ panics \in {"none", "send", "close"}

\* NewLogStream has just put the stream into logs
LogInit ==
  /\ pc = [p \in Procs |-> "idle"]
  /\ mutex = "free"
  /\ global = "free"
  /\ closed = "open"
  /\ chanClosed = "open"
  /\ queue = <<>>
  /\ sent = [w \in Writers |-> 0]
  /\ got = <<>>
  /\ registered = "listed"
  /\ panics = "none"

Goto(p, l) == pc' = [pc EXCEPT ![p] = l]

\* Infof or Warnf formats its message and goes for the lock; Close as well.  A
\* writer gets the stream from GetLogStream or kept it from before a Close
Call(p) ==
  /\ pc[p] = "idle"
  /\ p \in Writers => sent[p] < MaxWrites
  /\ Goto(p, "lock")
  /\ UNCHANGED <<mutex, global, closed, chanClosed, queue, sent, got, registered, panics>>

\* l.Lock()
Lock(p) ==
  /\ pc[p] = "lock"
  /\ mutex = "free"
  /\ mutex' = p
  /\ Goto(p, "check")
  /\ UNCHANGED <<global, closed, chanClosed, queue, sent, got, registered, panics>>

\* mutant of NextAfterCheck: l.closed is not looked at
NextUnchecked(p) == IF p \in Writers THEN "send" ELSE "close"

\* if !l.closed
NextAfterCheck(p) ==
  IF closed = "closed" THEN "unlock"
  ELSE IF p \in Writers THEN "send" ELSE "close"

Check(p) ==
  /\ pc[p] = "check"
  /\ Goto(p, NextAfterCheck(p))
  /\ UNCHANGED <<mutex, global, closed, chanClosed, queue, sent, got, registered, panics>>

\* mutant of Full: the channel is one event longer than it should be
FullOffByOne == Len(queue) > Capacity

\* make(chan LogEvent, 100)
Full == Len(queue) >= Capacity

\* mutant of Send: an event that does not fit is dropped
SendDropping(p) ==
  /\ pc[p] = "send"
  /\ Goto(p, "unlock")
  /\ sent' = [sent EXCEPT ![p] = @ + 1]
  /\ queue' = IF Full THEN queue ELSE Append(queue, <<p, sent[p] + 1>>)
  /\ UNCHANGED <<mutex, global, closed, chanClosed, got, registered, panics>>

\* l.c <- LogEvent{...}: waits while the channel is full, holding the mutex
Send(p) ==
  /\ pc[p] = "send"
  /\ Goto(p, "unlock")
  /\ IF chanClosed = "closed"
       THEN panics' = "send" /\ UNCHANGED <<queue, sent>>
       ELSE /\ ~Full
            /\ queue' = Append(queue, <<p, sent[p] + 1>>)
            /\ sent' = [sent EXCEPT ![p] = @ + 1]
            /\ UNCHANGED panics
  /\ UNCHANGED <<mutex, global, closed, chanClosed, got, registered>>

\* close(l.c)
CloseChannel(p) ==
  /\ pc[p] = "close"
  /\ Goto(p, "mark")
  /\ panics' = IF chanClosed = "closed" THEN "close" ELSE panics
  /\ chanClosed' = "closed"
  /\ UNCHANGED <<mutex, global, closed, queue, sent, got, registered>>

\* l.closed = true
Mark(p) ==
  /\ pc[p] = "mark"
  /\ closed' = "closed"
  /\ Goto(p, "unlock")
  /\ UNCHANGED <<mutex, global, chanClosed, queue, sent, got, registered, panics>>

\* mutant of Unlock: the early return of a closed stream keeps the mutex
UnlockForgotten(p) ==
  /\ pc[p] = "unlock"
  /\ mutex' = IF closed = "closed" THEN mutex ELSE "free"
  /\ Goto(p, IF p \in Writers THEN "idle" ELSE "delist")
  /\ UNCHANGED <<global, closed, chanClosed, queue, sent, got, registered, panics>>

\* l.Unlock(); write returns, Close goes on to the registry
Unlock(p) ==
  /\ pc[p] = "unlock"
  /\ mutex' = "free"
  /\ Goto(p, IF p \in Writers THEN "idle" ELSE "delist")
  /\ UNCHANGED <<global, closed, chanClosed, queue, sent, got, registered, panics>>

\* lock.Lock()
LockGlobal(p) ==
  /\ pc[p] = "delist"
  /\ global = "free"
  /\ global' = p
  /\ Goto(p, "delete")
  /\ UNCHANGED <<mutex, closed, chanClosed, queue, sent, got, registered, panics>>

\* delete(logs, l.id)
Delete(p) ==
  /\ pc[p] = "delete"
  /\ registered' = "gone"
  /\ Goto(p, "unlockGlobal")
  /\ UNCHANGED <<mutex, global, closed, chanClosed, queue, sent, got, panics>>

\* lock.Unlock()
UnlockGlobal(p) ==
  /\ pc[p] = "unlockGlobal"
  /\ global' = "free"
  /\ Goto(p, "done")
  /\ UNCHANGED <<mutex, closed, chanClosed, queue, sent, got, registered, panics>>

\* the consumer of Stream(): external, it ranges over the channel
Read ==
  /\ queue # <<>>
  /\ got' = Append(got, Head(queue))
  /\ queue' = Tail(queue)
  /\ UNCHANGED <<pc, mutex, global, closed, chanClosed, sent, registered, panics>>

Step(p) ==
  \/ Call(p) \/ Lock(p) \/ Check(p) \/ Send(p) \/ CloseChannel(p) \/ Mark(p)
  \/ Unlock(p) \/ LockGlobal(p) \/ Delete(p) \/ UnlockGlobal(p)

LogNext == (\E p \in Procs : Step(p)) \/ Read

LogSpec == LogInit /\ [][LogNext]_logVars

\* sync.Mutex hands the lock to a waiter in the end (its starvation mode), and a
\* goroutine that can run does; the consumer of Stream() keeps reading
Fairness ==
  /\ \A p \in Procs : SF_logVars(Lock(p)) /\ SF_logVars(LockGlobal(p))
                      /\ WF_logVars(Step(p) /\ pc[p] # "idle")
  /\ \A k \in Closers : WF_logVars(Call(k))
  /\ WF_logVars(Read)

LogFairSpec == LogSpec /\ Fairness

-----------------------------------------------------------------------------
\* However writers and several Close calls overlap, nobody sends on or closes
\* the closed channel, which would panic: write and Close look at l.closed and
\* use the channel under one critical section.
NoPanic == panics = "none"

\* what the reader received and still finds in the channel
Stream == got \o queue

\* The events of one writer arrive in the order it wrote them, each of them once,
\* and an event that is in the channel when Close runs is not lost: of what a
\* writer has sent everything, and nothing else, is received or in the channel.
NothingLost ==
  /\ \A w \in Writers : \A k \in 1..sent[w] : \E i \in 1..Len(Stream) : Stream[i] = <<w, k>>
  /\ \A i \in 1..Len(Stream) : Stream[i][2] <= sent[Stream[i][1]]
  /\ \A i, j \in 1..Len(Stream) :
       i < j /\ Stream[i][1] = Stream[j][1] => Stream[i][2] < Stream[j][2]

\* With a reader that keeps draining the channel, Close returns although a
\* writer may hold the mutex on a full channel when it is called, and the
\* stream is then no longer in the registry; every write returns as well.
CloseReturns ==
  /\ \A k \in Closers : <>(pc[k] = "done" /\ registered = "gone")
  /\ \A w \in Writers : pc[w] = "lock" ~> pc[w] = "idle"
=============================================================================
