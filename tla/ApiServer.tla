------------------------------ MODULE ApiServer ------------------------------
(***************************************************************************)
(* The API process of cmd/api: the goroutines that serveWithDependencies   *)
(* starts and the connections net/http serves for it.                      *)
(*   - main waits for a signal or for Serve to return, then shuts down;    *)
(*   - the accept loop takes a slot of the limit listener before it        *)
(*     accepts, and each connection gives its slot back once;              *)
(*   - the monitor pings the dependencies and publishes readiness.         *)
(* net/http (Serve, Shutdown, Close and the connection goroutines) is      *)
(* modelled from what this code relies on.                                 *)
(***************************************************************************)
EXTENDS Naturals, FiniteSets

CONSTANTS
  Conns,           \* client connections (a closed one may be opened again)
  MaxConnections   \* slots of the limit listener (maxConnections)

ASSUME ConnsAssumption == IsFiniteSet(Conns) /\ MaxConnections \in Nat \ {0}

VARIABLES
  ready,       \* readiness, as /_health/ready and the interceptor read it
  signalled,   \* ctx of main is done (SIGTERM, SIGINT)
  main,        \* where serveWithDependencies is
  cause,       \* which branch of its select it took
  result,      \* what it returned
  acceptor,    \* where the goroutine running Serve is
  errCh,       \* what that goroutine has sent and main not received
  listening,   \* the socket is open
  stopping,    \* http.Server.inShutdown
  timer,       \* shutdownTimeout of shutdownServer
  conn,        \* state of each connection
  held,        \* connections whose limitedConn has not released its slot
  slots,       \* tokens in limitListener.sem
  monitor,     \* where monitorDependencies is
  pinged,      \* result of its last Ping
  depsUp       \* the dependencies answer within CheckTimeout

mainVars    == <<main, cause, result, timer, stopping>>
acceptVars  == <<acceptor, errCh, listening>>
connVars    == <<conn, held, slots>>
monitorVars == <<monitor, pinged>>
vars == <<ready, signalled, mainVars, acceptVars, connVars, monitorVars, depsUp>>

-----------------------------------------------------------------------------
\* Seeded defect: Close without the once.
ReleaseTwice(C) == held' = held \ C /\ slots' = slots - Cardinality(C)

\* Closing connections C for whoever does it first: limitedConn.Close.
Release(C) ==
  /\ held' = held \ C
  /\ slots' = slots - Cardinality(C \cap held)

InState(s) == {c \in Conns : conn[c] \in s}

\* Closing the socket resets the connections nobody has accepted.
CloseListener ==
  /\ listening' = FALSE
  /\ conn' = [c \in Conns |-> IF conn[c] = "backlog" THEN "gone" ELSE conn[c]]

\* monitorCtx is done: a signal, or stopMonitor on return.
Cancelled == signalled \/ main = "returned"

Init ==
  /\ ready = FALSE /\ signalled = FALSE /\ depsUp = TRUE
  /\ main = "listen" /\ cause = "none" /\ result = "none"
  /\ timer = "off" /\ stopping = FALSE
  /\ acceptor = "none" /\ errCh = "empty" /\ listening = FALSE
  /\ conn = [c \in Conns |-> "gone"] /\ held = {} /\ slots = 0
  /\ monitor = "none" /\ pinged = TRUE

-----------------------------------------------------------------------------
\* main: serveWithDependencies and shutdownServer.

Listen ==
  /\ main = "listen"
  /\ \/ /\ main' = "select" /\ ready' = TRUE /\ listening' = TRUE
        /\ acceptor' = "start" /\ monitor' = "wait"
        /\ UNCHANGED result
     \/ /\ main' = "returned" /\ result' = "failed"
        /\ UNCHANGED <<ready, listening, acceptor, monitor>>
  /\ UNCHANGED <<signalled, cause, timer, stopping, errCh, connVars, pinged, depsUp>>

SelectServeReturned ==
  /\ main = "select" /\ errCh # "empty"
  /\ main' = "shutdown" /\ cause' = errCh /\ errCh' = "empty"
  /\ ready' = FALSE
  /\ UNCHANGED <<signalled, result, timer, stopping, acceptor, listening, connVars,
                 monitorVars, depsUp>>

SelectSignal ==
  /\ main = "select" /\ signalled
  /\ main' = "shutdown" /\ cause' = "signal"
  /\ ready' = FALSE
  /\ UNCHANGED <<signalled, result, timer, stopping, acceptVars, connVars, monitorVars,
                 depsUp>>

\* Shutdown closes the listener Serve has registered, and then waits for
\* Serve to return without looking at its context.
BeginShutdown ==
  /\ main = "shutdown"
  /\ main' = "awaitServe" /\ stopping' = TRUE /\ timer' = "running"
  /\ IF acceptor \in {"acquire", "accept"} THEN CloseListener ELSE UNCHANGED <<listening, conn>>
  /\ UNCHANGED <<ready, signalled, cause, result, acceptor, errCh, held, slots, monitorVars,
                 depsUp>>

ServeGone ==
  /\ main = "awaitServe" /\ acceptor \in {"start", "returned"}
  /\ main' = "poll"
  /\ UNCHANGED <<ready, signalled, cause, result, timer, stopping, acceptVars, connVars,
                 monitorVars, depsUp>>

\* The return of shutdownServer without an error.
ShutdownOK ==
  IF cause = "signal" THEN main' = "receive" /\ UNCHANGED result
  ELSE main' = "returned" /\ result' = IF cause = "nil" THEN "ok" ELSE "failed"

\* One round of closeIdleConns; a new connection may count as idle.
PollIdle ==
  /\ main = "poll"
  /\ \E stale \in SUBSET InState({"new"}) :
       LET idle == InState({"idle"}) \cup stale
       IN  /\ conn' = [c \in Conns |-> IF c \in idle THEN "dead" ELSE conn[c]]
           /\ Release(idle)
           /\ IF InState({"new", "active"}) \subseteq stale
              THEN ShutdownOK ELSE UNCHANGED <<main, result>>
  /\ UNCHANGED <<ready, signalled, cause, timer, stopping, acceptVars, monitorVars, depsUp>>

\* Seeded defect: Close without giving Shutdown its time.
CloseAtOnce ==
  /\ main = "poll"
  /\ LET open == InState({"new", "active", "idle"})
     IN  /\ conn' = [c \in Conns |-> IF c \in open THEN "dead" ELSE conn[c]]
         /\ Release(open)
  /\ main' = "returned" /\ result' = "timeout"
  /\ UNCHANGED <<ready, signalled, cause, timer, stopping, acceptVars, monitorVars, depsUp>>

\* Seeded defect: the error of Shutdown is dropped together with the Close.
ShutdownErrorIgnored ==
  /\ main = "poll" /\ timer = "expired"
  /\ ShutdownOK
  /\ UNCHANGED <<ready, signalled, cause, timer, stopping, acceptVars, connVars, monitorVars,
                 depsUp>>

\* Shutdown gave up on its context: server.Close cuts what is left.
ForceClose ==
  /\ main = "poll" /\ timer = "expired"
  /\ LET open == InState({"new", "active", "idle"})
     IN  /\ conn' = [c \in Conns |-> IF c \in open THEN "dead" ELSE conn[c]]
         /\ Release(open)
  /\ main' = "returned" /\ result' = IF cause = "failed" THEN "failed" ELSE "timeout"
  /\ UNCHANGED <<ready, signalled, cause, timer, stopping, acceptVars, monitorVars, depsUp>>

ReceiveServeResult ==
  /\ main = "receive" /\ errCh # "empty"
  /\ main' = "returned" /\ result' = IF errCh = "nil" THEN "ok" ELSE "failed"
  /\ errCh' = "empty"
  /\ UNCHANGED <<ready, signalled, cause, timer, stopping, acceptor, listening, connVars,
                 monitorVars, depsUp>>

Main == \/ Listen \/ SelectServeReturned \/ SelectSignal \/ BeginShutdown \/ ServeGone
        \/ PollIdle \/ ForceClose \/ ReceiveServeResult

-----------------------------------------------------------------------------
\* The accept loop: http.Server.Serve over limitListener.Accept.

StartServe ==
  /\ acceptor = "start"
  /\ \/ ~stopping /\ acceptor' = "acquire" /\ UNCHANGED <<errCh, listening, conn>>
     \/ stopping /\ acceptor' = "returned" /\ errCh' = "nil" /\ CloseListener
     \/ \* the TLS files cannot be loaded
        acceptor' = "returned" /\ errCh' = "failed" /\ UNCHANGED <<listening, conn>>
  /\ UNCHANGED <<ready, signalled, mainVars, held, slots, monitorVars, depsUp>>

AcquireSlot ==
  /\ acceptor = "acquire" /\ slots < MaxConnections
  /\ acceptor' = "accept" /\ slots' = slots + 1
  /\ UNCHANGED <<ready, signalled, mainVars, errCh, listening, conn, held, monitorVars, depsUp>>

Accept(c) ==
  /\ acceptor = "accept" /\ conn[c] = "backlog"
  /\ acceptor' = "acquire"
  /\ conn' = [conn EXCEPT ![c] = "new"] /\ held' = held \cup {c}
  /\ UNCHANGED <<ready, signalled, mainVars, errCh, listening, slots, monitorVars, depsUp>>

\* Seeded defect: every accept error counts as temporary.
AcceptRetried ==
  /\ acceptor = "accept" /\ slots' = slots - 1 /\ acceptor' = "acquire"
  /\ UNCHANGED <<ready, signalled, mainVars, errCh, listening, conn, held, monitorVars, depsUp>>

\* An accept error gives the slot back; Serve retries a temporary one.
AcceptFails ==
  /\ acceptor = "accept" /\ slots' = slots - 1
  /\ \/ listening /\ acceptor' = "acquire" /\ UNCHANGED <<errCh, listening, conn>>
     \/ listening /\ acceptor' = "returned" /\ errCh' = "failed" /\ CloseListener
     \/ ~listening /\ acceptor' = "returned" /\ errCh' = "nil" /\ UNCHANGED <<listening, conn>>
  /\ UNCHANGED <<ready, signalled, mainVars, held, monitorVars, depsUp>>

Acceptor == StartServe \/ AcquireSlot \/ (\E c \in Conns : Accept(c)) \/ AcceptFails

-----------------------------------------------------------------------------
\* Connections: clients and the goroutine net/http runs for each.

ConnUnchanged ==
  UNCHANGED <<ready, signalled, mainVars, acceptVars, monitorVars, depsUp>>

Connect(c) ==
  /\ conn[c] = "gone" /\ listening
  /\ conn' = [conn EXCEPT ![c] = "backlog"]
  /\ UNCHANGED <<held, slots>> /\ ConnUnchanged

ReadRequest(c) ==
  /\ conn[c] \in {"new", "idle"}
  /\ conn' = [conn EXCEPT ![c] = "active"]
  /\ UNCHANGED <<held, slots>> /\ ConnUnchanged

\* Keep-alives end when the server is stopping.
FinishRequest(c) ==
  /\ conn[c] = "active"
  /\ \/ ~stopping /\ conn' = [conn EXCEPT ![c] = "idle"] /\ UNCHANGED <<held, slots>>
     \/ conn' = [conn EXCEPT ![c] = "gone"] /\ Release({c})
  /\ ConnUnchanged

\* The client leaves, or readHeaderTimeout or idleTimeout passes.
HangUp(c, s) ==
  /\ conn[c] = s
  /\ conn' = [conn EXCEPT ![c] = "gone"] /\ Release({c})
  /\ ConnUnchanged

\* The goroutine of a connection main has closed closes it a second time.
Unwind(c) ==
  /\ conn[c] = "dead"
  /\ conn' = [conn EXCEPT ![c] = "gone"] /\ Release({c})
  /\ ConnUnchanged

-----------------------------------------------------------------------------
\* monitorDependencies.

MonitorUnchanged ==
  UNCHANGED <<signalled, mainVars, acceptVars, connVars, depsUp>>

Ping ==
  /\ monitor = "wait"
  /\ monitor' = "pinged" /\ pinged' = depsUp
  /\ UNCHANGED ready /\ MonitorUnchanged

CheckContext ==
  /\ monitor = "pinged"
  /\ monitor' = IF Cancelled THEN "exited" ELSE "publish"
  /\ UNCHANGED <<ready, pinged>> /\ MonitorUnchanged

\* Seeded defect: readiness is only ever raised.
PublishUp ==
  /\ monitor = "publish" /\ monitor' = "wait" /\ ready' = (ready \/ pinged)
  /\ UNCHANGED pinged /\ MonitorUnchanged

Publish ==
  /\ monitor = "publish"
  /\ monitor' = "wait" /\ ready' = pinged
  /\ UNCHANGED pinged /\ MonitorUnchanged

ExitMonitor ==
  /\ monitor = "wait" /\ Cancelled
  /\ monitor' = "exited"
  /\ UNCHANGED <<ready, pinged>> /\ MonitorUnchanged

Monitor == Ping \/ CheckContext \/ Publish \/ ExitMonitor

-----------------------------------------------------------------------------
\* The environment.

Signal ==
  /\ ~signalled /\ signalled' = TRUE
  /\ UNCHANGED <<ready, mainVars, acceptVars, connVars, monitorVars, depsUp>>

DependenciesChange ==
  /\ depsUp' = ~depsUp
  /\ UNCHANGED <<ready, signalled, mainVars, acceptVars, connVars, monitorVars>>

TimerFires ==
  /\ timer = "running" /\ timer' = "expired"
  /\ UNCHANGED <<ready, signalled, main, cause, result, stopping, acceptVars, connVars,
                 monitorVars, depsUp>>

Next ==
  \/ Main \/ Acceptor \/ Monitor
  \/ \E c \in Conns : Connect(c) \/ ReadRequest(c) \/ FinishRequest(c) \/ Unwind(c)
                       \/ HangUp(c, "new") \/ HangUp(c, "idle")
  \/ Signal \/ DependenciesChange \/ TimerFires

Spec == Init /\ [][Next]_vars

\* Goroutines run, requests end by their deadlines, a client that sends no
\* header is dropped after readHeaderTimeout (5s) and timers fire ...
PromptFairness ==
  /\ WF_vars(Main) /\ WF_vars(Acceptor) /\ WF_vars(Monitor) /\ WF_vars(TimerFires)
  /\ \A c \in Conns : /\ WF_vars(FinishRequest(c)) /\ WF_vars(Unwind(c))
                      /\ WF_vars(HangUp(c, "new"))
\* ... and a connection kept alive is dropped after idleTimeout, which at 120s
\* is too late for a shutdown of 10s.
PromptSpec == Spec /\ PromptFairness
FairSpec   == PromptSpec /\ \A c \in Conns : WF_vars(HangUp(c, "idle"))

-----------------------------------------------------------------------------
\* What the server promises.

TypeOK ==
  /\ ready \in BOOLEAN /\ signalled \in BOOLEAN /\ depsUp \in BOOLEAN
  /\ main \in {"listen", "select", "shutdown", "awaitServe", "poll", "receive", "returned"}
  /\ cause \in {"none", "signal", "nil", "failed"}
  /\ result \in {"none", "ok", "failed", "timeout"}
  /\ timer \in {"off", "running", "expired"} /\ stopping \in BOOLEAN
  /\ acceptor \in {"none", "start", "acquire", "accept", "returned"}
  /\ errCh \in {"empty", "nil", "failed"} /\ listening \in BOOLEAN
  /\ conn \in [Conns -> {"gone", "backlog", "new", "active", "idle", "dead"}]
  /\ held \in SUBSET Conns /\ slots \in Nat
  /\ monitor \in {"none", "wait", "pinged", "publish", "exited"} /\ pinged \in BOOLEAN

\* Every token in the semaphore is an open connection or the accept loop's
\* own, so slots are neither leaked nor given back twice when the server and
\* the connection's goroutine both close a connection.
SlotsMatchConnections ==
  /\ held = InState({"new", "active", "idle"})
  /\ slots = Cardinality(held) + (IF acceptor = "accept" THEN 1 ELSE 0)

\* No more than maxConnections connections are open at once.
ConnectionLimit == Cardinality(InState({"new", "active", "idle"})) <= MaxConnections

\* A request in progress is cut only after shutdownTimeout has passed.
RequestsDrain ==
  [][\A c \in Conns : conn[c] = "active" /\ conn'[c] = "dead" => timer = "expired"]_vars

\* When serveWithDependencies returns nil, Serve has returned and nobody is
\* connected: closing the dependencies afterwards interrupts no request.
CleanExitDropsNobody ==
  result = "ok" => /\ acceptor = "returned" /\ ~listening
                   /\ InState({"backlog", "new", "active", "idle"}) = {}

\* A signal always ends the process, however many clients are connected and
\* whatever they do, because requests and idle connections time out.
SignalStops == signalled ~> main = "returned"

\* shutdownTimeout: a signal ends the process without waiting for idleTimeout.
ShutdownIsPrompt == signalled ~> main = "returned"

\* Readiness follows the dependencies: it drops when they stay down and comes
\* back when they do, and the process keeps running meanwhile.
ReadinessFollows ==
  /\ <>[](main = "select" /\ ~depsUp) => <>[]~ready
  /\ <>[](main = "select" /\ depsUp) => <>[]ready
=============================================================================
