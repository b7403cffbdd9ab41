----------------------------- MODULE Lifecycle -----------------------------
(***************************************************************************)
(* How the process starts, serves and ends: main.go, Run and startServer   *)
(* of internal/main.go, the http.Server of internal/server.go.             *)
(*                                                                         *)
(* Four kinds of goroutines take part: Run (main), startServer (the        *)
(* listener), the background updater, and two for each request, the        *)
(* http.TimeoutHandler that waits and the handler it waits for.  The app's *)
(* context is all of them know of a SIGTERM, the requests through          *)
(* BaseContext.                                                            *)
(***************************************************************************)
EXTENDS Startup, FiniteSets

CONSTANT Requests       \* bound: requests that may come in

VARIABLES
    cancelled,  \* the app's context is done: SIGTERM or an interrupt came
    run,        \* where Run is
    inShutdown, \* Server.Shutdown was called: the listener is closed
    serve,      \* where startServer is
    updater,    \* where StartBackgroundUpdates is
    conn,       \* what became of each request, as its client sees it
    handler,    \* the handler goroutine of each request
    exit        \* how the process ended

servingVars   == <<inShutdown, conn, handler>>
lifecycleVars == <<setupVars, servingVars, cancelled, run, serve, updater, exit>>

\* Until the process is over.
Running == exit = "running"

Active == {r \in Requests : conn[r] = "active"}

\* The connections of these requests are closed under them.
Reset(requests) == [r \in Requests |-> IF r \in requests THEN "reset" ELSE conn[r]]

Init ==
    /\ StartupInit
    /\ cancelled = FALSE
    /\ run = "setup"
    /\ inShutdown = FALSE
    /\ serve = "none"
    /\ updater = "none"
    /\ conn = [r \in Requests |-> "none"]
    /\ handler = [r \in Requests |-> "none"]
    /\ exit = "running"

\* SIGTERM; a second one changes nothing.
Signal ==
    /\ Running
    /\ ~cancelled
    /\ cancelled' = TRUE
    /\ UNCHANGED <<setupVars, run, inShutdown, serve, updater, conn, handler, exit>>

-----------------------------------------------------------------------------
(* Run and startServer.                                                    *)

\* A step of Setup or Run that concerns no other goroutine.
Alone == /\ Running
         /\ UNCHANGED <<servingVars, cancelled, run, serve, updater, exit>>

\* Setup goes on whether or not a signal has come.
Setup ==
    \/ InitPackages /\ Alone
    \/ SetupEnvironment /\ Alone
    \/ CreateConfig /\ Alone
    \/ CreateSheetsDataSource /\ Alone
    \/ ListenForBoth /\ Alone
    \/ ParseTemplates /\ Alone
    \/ addDefaultRedirectMapHooks /\ Alone
    \/ FirstUpdate /\ Alone
    \/ CreateHttpServer /\ Alone

\* Mutant: the background updater is not started.
StartUpdaterNot == GoUpdater /\ Alone

StartUpdater ==
    /\ Running
    /\ GoUpdater
    /\ updater' = "waiting"
    /\ UNCHANGED <<servingVars, cancelled, run, serve, exit>>

StartServer ==
    /\ Running
    /\ GoServer
    /\ run' = "select"
    /\ serve' = "starting"
    /\ UNCHANGED <<servingVars, cancelled, updater, exit>>

SetupPanics ==
    /\ Running
    /\ CredentialsPanic \/ KeyPanics \/ ServicePanics \/ TemplatesPanic
    /\ exit' = "panic"
    /\ UNCHANGED <<servingVars, cancelled, run, serve, updater>>

\* Run sees the context and calls Shutdown, which closes the listener.
RunSeesSignal ==
    /\ Running
    /\ run = "select"
    /\ cancelled
    /\ run' = "shutdown"
    /\ inShutdown' = TRUE
    /\ UNCHANGED <<setupVars, cancelled, serve, updater, conn, handler, exit>>

\* Mutant: Run waits for the updater before it returns.
ShutdownReturnsAfterUpdater ==
    /\ Running
    /\ run = "shutdown"
    /\ Active = {} /\ updater = "stopped"
    /\ exit' = "ok"
    /\ UNCHANGED <<setupVars, cancelled, run, inShutdown, serve, updater, conn, handler>>

\* Shutdown finds no connection left: Run returns nil, main returns.
ShutdownReturns ==
    /\ Running
    /\ run = "shutdown"
    /\ Active = {}
    /\ exit' = "ok"
    /\ UNCHANGED <<setupVars, cancelled, run, inShutdown, serve, updater, conn, handler>>

\* Shutdown's 10 seconds are over: os.Exit(1).
ShutdownExpires ==
    /\ Running
    /\ run = "shutdown"
    /\ Active # {}
    /\ exit' = "error"
    /\ conn' = Reset(Active)
    /\ UNCHANGED <<setupVars, cancelled, run, inShutdown, serve, updater, handler>>

\* ListenAndServe of a server that is shut down already does not listen.
ListenAndServe ==
    /\ Running
    /\ serve = "starting"
    /\ serve' = IF inShutdown THEN "returned" ELSE "binding"
    /\ UNCHANGED <<setupVars, cancelled, run, inShutdown, updater, conn, handler, exit>>

\* The port is bound; Serve does not begin if Shutdown was called meanwhile.
Listen ==
    /\ Running
    /\ serve = "binding"
    /\ serve' = IF inShutdown THEN "returned" ELSE "serving"
    /\ UNCHANGED <<setupVars, cancelled, run, inShutdown, updater, conn, handler, exit>>

\* Mutant: startServer panics on every error, ErrServerClosed too.
ServeReturnsPanics ==
    /\ Running
    /\ serve = "serving"
    /\ inShutdown
    /\ serve' = "returned"
    /\ exit' = "panic"
    /\ conn' = Reset(Active)
    /\ UNCHANGED <<setupVars, cancelled, run, inShutdown, updater, handler>>

\* ListenAndServe returns ErrServerClosed as soon as Shutdown is called, which
\* startServer accepts.
ServeReturns ==
    /\ Running
    /\ serve = "serving"
    /\ inShutdown
    /\ serve' = "returned"
    /\ UNCHANGED <<setupVars, cancelled, run, inShutdown, updater, conn, handler, exit>>

\* The port is taken, in a shutdown too, or accepting fails: startServer panics.
ServeFails ==
    /\ Running
    /\ serve = "binding" \/ (serve = "serving" /\ ~inShutdown)
    /\ serve' = "failed"
    /\ exit' = "panic"
    /\ conn' = Reset(Active)
    /\ UNCHANGED <<setupVars, cancelled, run, inShutdown, updater, handler>>

\* startServer's deferred Close closes every connection that is left.
CloseServer ==
    /\ Running
    /\ serve = "returned"
    /\ serve' = "closed"
    /\ conn' = Reset(Active)
    /\ UNCHANGED <<setupVars, cancelled, run, inShutdown, updater, handler, exit>>

-----------------------------------------------------------------------------
(* Requests.  Each one ends in one of three ways: its handler is done, its *)
(* 10 seconds are over, or its context, and so the app's, is done.         *)

Accept(r) ==
    /\ Running
    /\ serve = "serving"
    /\ ~inShutdown
    /\ conn[r] = "none"
    /\ conn' = [conn EXCEPT ![r] = "active"]
    /\ handler' = [handler EXCEPT ![r] = "running"]
    /\ UNCHANGED <<setupVars, cancelled, run, inShutdown, serve, updater, exit>>

\* The handler writes into a buffer, whoever waits for it.
HandlerReturns(r) ==
    /\ Running
    /\ handler[r] = "running"
    /\ handler' = [handler EXCEPT ![r] = "done"]
    /\ UNCHANGED <<setupVars, cancelled, run, inShutdown, serve, updater, conn, exit>>

Answer(r) ==
    /\ Running
    /\ conn[r] = "active"
    /\ handler[r] = "done"
    /\ conn' = [conn EXCEPT ![r] = "answered"]
    /\ UNCHANGED <<setupVars, cancelled, run, inShutdown, serve, updater, handler, exit>>

\* Mutant: without http.TimeoutHandler only a shutdown ends a hanging request.
TimeoutInShutdown(r) ==
    /\ Running
    /\ conn[r] = "active"
    /\ inShutdown
    /\ conn' = [conn EXCEPT ![r] = "timeout"]
    /\ UNCHANGED <<setupVars, cancelled, run, inShutdown, serve, updater, handler, exit>>

\* The 10 seconds are over: a 503, or a closed connection, as the server's
\* WriteTimeout ends with them; the handler goes on.
Timeout(r) ==
    /\ Running
    /\ conn[r] = "active"
    /\ conn' = [conn EXCEPT ![r] = "timeout"]
    /\ UNCHANGED <<setupVars, cancelled, run, inShutdown, serve, updater, handler, exit>>

\* 503 without a body: TimeoutHandler picks any of its cases that is ready.
Cancel(r) ==
    /\ Running
    /\ conn[r] = "active"
    /\ cancelled
    /\ conn' = [conn EXCEPT ![r] = "unavailable"]
    /\ UNCHANGED <<setupVars, cancelled, run, inShutdown, serve, updater, handler, exit>>

-----------------------------------------------------------------------------
(* StartBackgroundUpdates: with a tick and a signal both there, select may *)
(* take either.                                                            *)

Tick ==
    /\ Running
    /\ updater = "waiting"
    /\ updater' = "updating"
    /\ UNCHANGED <<setupVars, cancelled, run, inShutdown, serve, conn, handler, exit>>

UpdateEnds ==
    /\ Running
    /\ updater = "updating"
    /\ updater' = "waiting"
    /\ UNCHANGED <<setupVars, cancelled, run, inShutdown, serve, conn, handler, exit>>

StopUpdates ==
    /\ Running
    /\ updater = "waiting"
    /\ cancelled
    /\ updater' = "stopped"
    /\ UNCHANGED <<setupVars, cancelled, run, inShutdown, serve, conn, handler, exit>>

Run ==
    \/ Setup \/ StartUpdater \/ StartServer \/ SetupPanics
    \/ RunSeesSignal \/ ShutdownReturns \/ ShutdownExpires

startServer == ListenAndServe \/ Listen \/ ServeReturns \/ CloseServer

TimeoutHandler(r) == Answer(r) \/ Timeout(r) \/ Cancel(r)

StartBackgroundUpdates == Tick \/ UpdateEnds \/ StopUpdates

Next ==
    \/ Signal
    \/ Run
    \/ startServer \/ ServeFails
    \/ \E r \in Requests : Accept(r) \/ HandlerReturns(r) \/ TimeoutHandler(r)
    \/ StartBackgroundUpdates

Spec == Init /\ [][Next]_lifecycleVars

\* Goroutines that can go on do, and time passes.  Handlers, updates and whoever
\* sends the signal owe nothing: a handler may hang for good.
FairSpec ==
    /\ Spec
    /\ WF_lifecycleVars(Run)
    /\ WF_lifecycleVars(startServer)
    /\ WF_lifecycleVars(StopUpdates)
    /\ \A r \in Requests : WF_lifecycleVars(TimeoutHandler(r))

-----------------------------------------------------------------------------
\* Every variable has its type; the updater runs and the server starts when Setup
\* is over, and every request that was let in has its handler.
LifecycleTypeOK ==
    /\ StartupTypeOK
    /\ cancelled \in BOOLEAN
    /\ inShutdown \in BOOLEAN
    /\ run \in {"setup", "select", "shutdown"}
    /\ serve \in {"none", "starting", "binding", "serving", "returned", "closed",
                  "failed"}
    /\ updater \in {"none", "waiting", "updating", "stopped"}
    /\ conn \in [Requests -> {"none", "active", "answered", "timeout",
                              "unavailable", "reset"}]
    /\ handler \in [Requests -> {"none", "running", "done"}]
    /\ exit \in {"running", "ok", "error", "panic"}
    /\ run # "setup" <=> setup = "done"
    /\ run # "setup" <=> serve # "none"
    /\ run # "setup" => updater # "none"
    /\ \A r \in Requests : conn[r] = "none" <=> handler[r] = "none"

\* A client that was let in gets an answer or a closed connection, even if its
\* handler hangs for good.
RequestsEnd == \A r \in Requests : (conn[r] = "active") ~> (conn[r] # "active")

\* A signal ends the process, whenever it comes (during Setup, before the
\* server listens, amid requests) and whatever handlers and updates hang.
SignalEnds == cancelled ~> ~Running

\* Goroutines that run beside main.
Goroutines ==
    (IF updater \in {"waiting", "updating"} THEN {"updater"} ELSE {})
    \cup (IF \E r \in Requests : handler[r] = "running" THEN {"request"} ELSE {})

\* What goroutines use without a lock was made before they started, so that
\* nothing is made on first use by two of them at once.
SharedIsPublished == \A g \in Goroutines : UsedBy(g) \subseteq made

\* The process ends only on a signal or because it cannot start or listen, it
\* reports a failure of its own (no signal, or time that ran out) by its exit
\* status, and leaves nobody waiting at an open connection.
ExitStatus ==
    ~Running =>
        /\ exit = "panic" <=> serve = "failed" \/ setup = "panicked"
        /\ exit # "panic" => cancelled /\ inShutdown
        /\ Active = {}

\* docs/develop.md:49-50, of requests that were let in before the signal: "On
\* shutdown, updaters can stop, channels close, and in-flight requests drain
\* gracefully."
RequestsDrain ==
    \A r \in Requests :
        []((conn[r] = "active" /\ ~cancelled)
           => [](conn[r] \in {"active", "answered", "timeout"} \/ exit = "panic"))
=============================================================================
