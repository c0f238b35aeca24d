----------------------------- MODULE Lifecycle ------------------------------
(***************************************************************************)
(* The life of the server process: start-up, serving, and graceful         *)
(* shutdown (run, gracefulStop and shutdownHTTP of cmd/server), with the   *)
(* requests that are in flight and the connection pool they use.           *)
(*                                                                         *)
(* The main goroutine, the two Serve goroutines, the handlers, the clients *)
(* and the operating system's signals are interleaved.  A request arrives  *)
(* over gRPC, or over HTTP at the gateway, which forwards it to the gRPC   *)
(* server of the same process.  A handler runs statements one at a time,   *)
(* each on a connection of the pool.                                       *)
(***************************************************************************)
EXTENDS Integers, Sequences, FiniteSets

CONSTANTS
    Req,       \* client requests
    MaxConns   \* DATABASE_MAX_CONNECTIONS

ASSUME PoolAssumption == MaxConns \in Nat /\ 0 < MaxConns

VARIABLES
    main,      \* where the main goroutine is
    defers,    \* its deferred calls, last one first
    resource,  \* what the deferred calls release (Resource)
    code,      \* exit status
    signal,    \* disposition of SIGTERM and SIGINT, or one in sigCh
    health,    \* gRPC health status
    server,    \* the gRPC server and the HTTP gateway
    serve,     \* their Serve goroutines
    serverErr, \* the channel of their errors, by sender
    listener,  \* the gRPC server's listener
    client,    \* what each client knows of its request
    via,       \* the server it talks to
    handler,   \* the handler of each request
    forced,    \* history: drains that ended by timeout
    failed,    \* history: servers whose Serve failed
    refused    \* history: handlers the closed pool refused

serving == <<health, server, serve, serverErr, listener, failed>>
requests == <<client, via, handler, refused>>
process == <<main, defers, resource, code, signal, forced>>
vars == <<process, serving, requests>>

Server == {"grpc", "http"}

(* What run defers the release of.  The gRPC listener is not among it:     *)
(* grpcServer closes it, once Serve has been given it.                     *)
Resource == {"pool", "metrics", "telemetry", "gatewayCtx"}
Starting == {"config", "pool", "admin", "providers", "metrics", "telemetry",
             "listen", "gateway", "launch", "notify"}
Stopping == {"mark", "closeGateway", "drainGateway", "cancelGateway",
             "stopGRPC", "drainGRPC", "unwind"}

InUse == {r \in Req : handler[r] = "query"}
Active == {r \in Req : handler[r] \in {"running", "query"}}
Waiting(s) == {r \in Req : client[r] = "waiting" /\ via[r] = s}

(* Types, and the pool never lends more than MaxConns connections. *)
TypeOK ==
    /\ main \in Starting \cup Stopping \cup {"select", "exited", "killed"}
    /\ defers \in Seq(Resource)
    /\ resource \in [Resource -> {"none", "open", "closing", "closed"}]
    /\ code \in 0..2
    /\ signal \in {"default", "none", "pending"}
    /\ health \in {"unset", "SERVING", "NOT_SERVING"}
    /\ server \in [Server -> {"none", "up", "draining", "stopped"}]
    /\ serve \in [Server -> {"none", "spawned", "serving", "returned"}]
    /\ serverErr \in SUBSET Server
    /\ listener \in {"none", "open", "closed"}
    /\ client \in [Req -> {"idle", "waiting", "answered", "cut"}]
    /\ via \in [Req -> Server \cup {"none"}]
    /\ handler \in [Req -> {"none", "running", "query", "over", "killed",
                           "torn"}]
    /\ forced \in SUBSET Server
    /\ failed \in SUBSET Server
    /\ refused \in SUBSET Req
    /\ Cardinality(InUse) <= MaxConns

Init ==
    /\ main = "config"
    /\ defers = <<>>
    /\ resource = [x \in Resource |-> "none"]
    /\ code = 0
    /\ signal = "default"
    /\ health = "unset"
    /\ server = [s \in Server |-> "none"]
    /\ serve = [s \in Server |-> "none"]
    /\ serverErr = {}
    /\ listener = "none"
    /\ client = [r \in Req |-> "idle"]
    /\ via = [r \in Req |-> "none"]
    /\ handler = [r \in Req |-> "none"]
    /\ forced = {}
    /\ failed = {}
    /\ refused = {}

Goto(from, to) == main = from /\ main' = to

(* x is in use and its release deferred. *)
Acquire(x) ==
    /\ resource' = [resource EXCEPT ![x] = "open"]
    /\ defers' = <<x>> \o defers

(* The clients in C get an error, or lose their connection. *)
Cut(C) ==
    client' = [r \in Req |->
        IF r \in C /\ client[r] = "waiting" THEN "cut" ELSE client[r]]

(* The process ends under its handlers. *)
EndProcess ==
    /\ handler' = [r \in Req |->
            CASE handler[r] = "running" -> "killed"
              [] handler[r] = "query" -> "torn"
              [] OTHER -> handler[r]]
    /\ Cut(Req)
    /\ UNCHANGED <<via, refused>>

-----------------------------------------------------------------------------
(* Start-up: run returns at the first error *)

LoadConfig ==
    /\ Goto("config", "pool")
    /\ UNCHANGED <<defers, resource, code, signal, forced, serving, requests>>

(* Mutant: defer db.Close() is missing. *)
OpenPoolWithoutDefer ==
    /\ Goto("pool", "admin")
    /\ resource' = [resource EXCEPT !["pool"] = "open"]
    /\ UNCHANGED <<defers, code, signal, forced, serving, requests>>

OpenPool ==
    /\ Goto("pool", "admin")
    /\ Acquire("pool")
    /\ UNCHANGED <<code, signal, forced, serving, requests>>

EnsureAdmin ==
    /\ Goto("admin", "providers")
    /\ UNCHANGED <<defers, resource, code, signal, forced, serving, requests>>

(* Local JWT keys, OIDC discovery; at least one provider. *)
SetUpProviders ==
    /\ Goto("providers", "metrics")
    /\ UNCHANGED <<defers, resource, code, signal, forced, serving, requests>>

(* An error of the metrics listener is ignored. *)
StartMetrics ==
    /\ Goto("metrics", "telemetry")
    /\ Acquire("metrics")
    /\ UNCHANGED <<code, signal, forced, serving, requests>>

(* Only if OTEL_ENABLED. *)
StartTelemetry ==
    /\ Goto("telemetry", "listen")
    /\ Acquire("telemetry") \/ UNCHANGED <<resource, defers>>
    /\ UNCHANGED <<code, signal, forced, serving, requests>>

(* Clients can connect from now on, but wait for Serve. *)
Listen ==
    /\ Goto("listen", "gateway")
    /\ listener' = "open"
    /\ Acquire("gatewayCtx")
    /\ health' = "SERVING"
    /\ server' = [server EXCEPT !["grpc"] = "up"]
    /\ UNCHANGED <<code, signal, forced, serve, serverErr, failed, requests>>

BuildGateway ==
    /\ Goto("gateway", "launch")
    /\ server' = [server EXCEPT !["http"] = "up"]
    /\ UNCHANGED <<defers, resource, code, signal, forced, health, serve,
                   serverErr, failed, listener, requests>>

Launch ==
    /\ Goto("launch", "notify")
    /\ serve' = [s \in Server |-> "spawned"]
    /\ UNCHANGED <<defers, resource, code, signal, forced, health, server,
                   serverErr, failed, listener, requests>>

Notify ==
    /\ Goto("notify", "select")
    /\ signal' = "none"
    /\ UNCHANGED <<defers, resource, code, forced, serving, requests>>

(* NewGateway's error leaves the listener open. *)
StartupFails ==
    /\ main \in {"config", "pool", "admin", "providers", "telemetry",
                 "listen", "gateway"}
    /\ main' = "unwind"
    /\ code' = 1
    /\ UNCHANGED <<defers, resource, signal, forced, serving, requests>>

-----------------------------------------------------------------------------
(* The Serve goroutines *)

(* The gRPC server closes the listener that Serve was given. *)
CloseListener(s) == listener' = IF s = "grpc" THEN "closed" ELSE listener

(* A gRPC server that was stopped first closes the listener and reports    *)
(* ErrServerStopped; the gateway's ErrServerClosed is not an error.        *)
Serve(s) ==
    /\ serve[s] = "spawned"
    /\ \/ /\ server[s] = "up"
          /\ serve' = [serve EXCEPT ![s] = "serving"]
          /\ UNCHANGED <<serverErr, listener>>
       \/ /\ server[s] # "up"
          /\ serve' = [serve EXCEPT ![s] = "returned"]
          /\ serverErr' = serverErr \cup ({s} \ {"http"})
          /\ CloseListener(s)
    /\ UNCHANGED <<health, server, failed, process, requests>>

(* The gateway cannot listen, or Accept fails; serverErr has room. *)
ServeFails(s) ==
    /\ server[s] = "up"
    /\ serve[s] = "serving" \/ (serve[s] = "spawned" /\ s = "http")
    /\ serve' = [serve EXCEPT ![s] = "returned"]
    /\ serverErr' = serverErr \cup {s}
    /\ failed' = failed \cup {s}
    /\ CloseListener(s)
    /\ UNCHANGED <<health, server, process, requests>>

ServeReturns(s) ==
    /\ serve[s] = "serving"
    /\ server[s] # "up"
    /\ serve' = [serve EXCEPT ![s] = "returned"]
    /\ UNCHANGED <<health, server, serverErr, failed, listener, process,
                   requests>>

-----------------------------------------------------------------------------
(* Requests *)

Accepts(s) == serve[s] = "serving" /\ server[s] = "up"

AcceptGRPC(r) ==
    /\ client[r] = "idle"
    /\ Accepts("grpc")
    /\ client' = [client EXCEPT ![r] = "waiting"]
    /\ via' = [via EXCEPT ![r] = "grpc"]
    /\ handler' = [handler EXCEPT ![r] = "running"]
    /\ UNCHANGED <<refused, process, serving>>

AcceptHTTP(r) ==
    /\ client[r] = "idle"
    /\ Accepts("http")
    /\ client' = [client EXCEPT ![r] = "waiting"]
    /\ via' = [via EXCEPT ![r] = "http"]
    /\ UNCHANGED <<handler, refused, process, serving>>

(* The gateway's connection may outlive a failed Accept. *)
Forward(r) ==
    /\ r \in Waiting("http")
    /\ handler[r] = "none"
    /\ server["grpc"] = "up"
    /\ serve["grpc"] \in {"serving", "returned"}
    /\ handler' = [handler EXCEPT ![r] = "running"]
    /\ UNCHANGED <<client, via, refused, process, serving>>

ForwardRefused(r) ==
    /\ r \in Waiting("http")
    /\ handler[r] = "none"
    /\ server["grpc"] # "up" \/ serve["grpc"] = "returned"
    /\ Cut({r})
    /\ UNCHANGED <<via, handler, refused, process, serving>>

(* Mutant: the pool's limit is not set. *)
QueryUnlimited(r) ==
    /\ handler[r] = "running"
    /\ resource["pool"] = "open"
    /\ handler' = [handler EXCEPT ![r] = "query"]
    /\ UNCHANGED <<client, via, refused, process, serving>>

Query(r) ==
    /\ handler[r] = "running"
    /\ resource["pool"] = "open"
    /\ Cardinality(InUse) < MaxConns
    /\ handler' = [handler EXCEPT ![r] = "query"]
    /\ UNCHANGED <<client, via, refused, process, serving>>

QueryDone(r) ==
    /\ handler[r] = "query"
    /\ handler' = [handler EXCEPT ![r] = "running"]
    /\ UNCHANGED <<client, via, refused, process, serving>>

(* A closing pool lends no connection; the handler ends with the error. *)
QueryRefused(r) ==
    /\ handler[r] = "running"
    /\ resource["pool"] \in {"closing", "closed"}
    /\ handler' = [handler EXCEPT ![r] = "over"]
    /\ refused' = refused \cup {r}
    /\ Cut({r})
    /\ UNCHANGED <<via, process, serving>>

(* A client that still waits gets the answer. *)
Return(r) ==
    /\ handler[r] = "running"
    /\ handler' = [handler EXCEPT ![r] = "over"]
    /\ client' = [client EXCEPT ![r] = IF @ = "waiting" THEN "answered" ELSE @]
    /\ UNCHANGED <<via, refused, process, serving>>

-----------------------------------------------------------------------------
(* Shutdown *)

(* Before Notify a signal kills the process; afterwards sigCh keeps one. *)
Signal ==
    /\ main \notin {"exited", "killed"}
    /\ \/ /\ signal = "default"
          /\ main' = "killed"
          /\ code' = 2
          /\ EndProcess
          /\ UNCHANGED signal
       \/ /\ signal = "none"
          /\ signal' = "pending"
          /\ UNCHANGED <<main, code, requests>>
    /\ UNCHANGED <<defers, resource, forced, serving>>

(* Mutant: the error is logged but not returned. *)
SelectErrorDropped ==
    /\ Goto("select", "mark")
    /\ \E s \in serverErr : serverErr' = serverErr \ {s}
    /\ UNCHANGED <<defers, resource, code, signal, forced, health, server,
                   serve, failed, listener, requests>>

SelectError ==
    /\ Goto("select", "mark")
    /\ \E s \in serverErr : serverErr' = serverErr \ {s}
    /\ code' = 1
    /\ UNCHANGED <<defers, resource, signal, forced, health, server, serve,
                   failed, listener, requests>>

SelectSignal ==
    /\ Goto("select", "mark")
    /\ signal = "pending"
    /\ UNCHANGED <<defers, resource, code, signal, forced, serving, requests>>

(* Mutant: the health status is left alone. *)
MarkForgotten ==
    /\ Goto("mark", "closeGateway")
    /\ UNCHANGED <<defers, resource, code, signal, forced, serving, requests>>

MarkNotServing ==
    /\ Goto("mark", "closeGateway")
    /\ health' = "NOT_SERVING"
    /\ UNCHANGED <<defers, resource, code, signal, forced, server, serve,
                   serverErr, failed, listener, requests>>

(* Mutant: both servers stop accepting at once. *)
CloseBoth ==
    /\ Goto("closeGateway", "drainGateway")
    /\ server' = [s \in Server |-> "draining"]
    /\ UNCHANGED <<defers, resource, code, signal, forced, health, serve,
                   serverErr, failed, listener, requests>>

CloseGateway ==
    /\ Goto("closeGateway", "drainGateway")
    /\ server' = [server EXCEPT !["http"] = "draining"]
    /\ UNCHANGED <<defers, resource, code, signal, forced, health, serve,
                   serverErr, failed, listener, requests>>

(* Shutdown returns when no HTTP request is left or at its deadline, which *)
(* leaves the requests running.                                            *)
DrainGateway ==
    /\ Goto("drainGateway", "cancelGateway")
    /\ forced' = IF Waiting("http") = {} THEN forced ELSE forced \cup {"http"}
    /\ server' = [server EXCEPT !["http"] = "stopped"]
    /\ UNCHANGED <<defers, resource, code, signal, health, serve, serverErr,
                   failed, listener, requests>>

(* Closes the gateway's connection to the gRPC server. *)
CancelGateway ==
    /\ Goto("cancelGateway", "stopGRPC")
    /\ resource' = [resource EXCEPT !["gatewayCtx"] = "closed"]
    /\ Cut(Waiting("http"))
    /\ UNCHANGED <<defers, code, signal, forced, serving, via, handler,
                   refused>>

(* GracefulStop closes the listeners that Serve registered. *)
StopGRPC ==
    /\ Goto("stopGRPC", "drainGRPC")
    /\ server' = [server EXCEPT !["grpc"] = "draining"]
    /\ listener' = IF serve["grpc"] = "serving" THEN "closed" ELSE listener
    /\ UNCHANGED <<defers, resource, code, signal, forced, health, serve,
                   serverErr, failed, requests>>

(* Mutant: Stop is called without waiting. *)
StopAtOnce ==
    /\ Goto("drainGRPC", "unwind")
    /\ server' = [server EXCEPT !["grpc"] = "stopped"]
    /\ UNCHANGED <<defers, resource, code, signal, forced, health, serve,
                   serverErr, failed, listener, requests>>

(* GracefulStop waits for the connections and the handlers. *)
DrainGRPC ==
    /\ Goto("drainGRPC", "unwind")
    /\ Active = {}
    /\ server' = [server EXCEPT !["grpc"] = "stopped"]
    /\ UNCHANGED <<defers, resource, code, signal, forced, health, serve,
                   serverErr, failed, listener, requests>>

(* Mutant: the drain has no timeout. *)
StopNever ==
    /\ Goto("drainGRPC", "unwind")
    /\ Active = {}
    /\ server' = [server EXCEPT !["grpc"] = "stopped"]
    /\ UNCHANGED <<defers, resource, code, signal, forced, health, serve,
                   serverErr, failed, listener, requests>>

(* Stop closes the connections; handlers are cancelled, not awaited. *)
StopTimeout ==
    /\ Goto("drainGRPC", "unwind")
    /\ Active # {}
    /\ forced' = forced \cup {"grpc"}
    /\ server' = [server EXCEPT !["grpc"] = "stopped"]
    /\ Cut(Req)
    /\ UNCHANGED <<defers, resource, code, signal, health, serve, serverErr,
                   failed, listener, via, handler, refused>>

(* cancelGateway, telemetry.Shutdown and the metrics server's Shutdown all *)
(* return within their timeouts.                                           *)
Release ==
    /\ main = "unwind"
    /\ defers # <<>>
    /\ Head(defers) # "pool"
    /\ resource' = [resource EXCEPT ![Head(defers)] = "closed"]
    /\ defers' = Tail(defers)
    /\ UNCHANGED <<main, code, signal, forced, serving, requests>>

(* db.Close first refuses, then waits for the connections that are lent. *)
BeginClosePool ==
    /\ main = "unwind"
    /\ defers # <<>>
    /\ Head(defers) = "pool"
    /\ resource["pool"] = "open"
    /\ resource' = [resource EXCEPT !["pool"] = "closing"]
    /\ UNCHANGED <<main, defers, code, signal, forced, serving, requests>>

EndClosePool ==
    /\ main = "unwind"
    /\ resource["pool"] = "closing"
    /\ InUse = {}
    /\ resource' = [resource EXCEPT !["pool"] = "closed"]
    /\ defers' = Tail(defers)
    /\ UNCHANGED <<main, code, signal, forced, serving, requests>>

Exit ==
    /\ Goto("unwind", "exited")
    /\ defers = <<>>
    /\ EndProcess
    /\ UNCHANGED <<defers, resource, code, signal, forced, serving>>

-----------------------------------------------------------------------------

Startup ==
    \/ LoadConfig \/ OpenPool \/ EnsureAdmin \/ SetUpProviders \/ StartMetrics
    \/ StartTelemetry \/ Listen \/ BuildGateway \/ Launch \/ Notify
    \/ StartupFails

Shutdown ==
    \/ SelectError \/ SelectSignal
    \/ MarkNotServing \/ CloseGateway \/ DrainGateway \/ CancelGateway
    \/ StopGRPC \/ DrainGRPC \/ StopTimeout
    \/ Release \/ BeginClosePool \/ EndClosePool \/ Exit

Goroutine(s) == Serve(s) \/ ServeFails(s) \/ ServeReturns(s)

Request(r) ==
    \/ AcceptGRPC(r) \/ AcceptHTTP(r) \/ Forward(r) \/ ForwardRefused(r)
    \/ Query(r) \/ QueryDone(r) \/ QueryRefused(r) \/ Return(r)

Ended == main \in {"exited", "killed"} /\ UNCHANGED vars

Next ==
    \/ Startup \/ Shutdown \/ Signal \/ Ended
    \/ /\ main \notin {"exited", "killed"}
       /\ \/ \E s \in Server : Goroutine(s)
          \/ \E r \in Req : Request(r)

Spec == Init /\ [][Next]_vars

(* The main goroutine is scheduled and its timers fire; a statement ends   *)
(* once Stop has cancelled its context.  Handlers need not end.            *)
FairSpec ==
    /\ Spec
    /\ WF_vars(Shutdown)
    /\ \A r \in Req :
           WF_vars(server["grpc"] = "stopped" /\ main = "unwind" /\ QueryDone(r))

-----------------------------------------------------------------------------
(* Properties *)

(* An orderly shutdown loses no accepted request: a client is cut off only *)
(* after a drain ran into its timeout, the gRPC server failed to serve the *)
(* gateway, or a signal came before Notify.                                *)
AcceptedIsAnswered ==
    \A r \in Req :
        client[r] = "cut" =>
            \/ main = "killed"
            \/ "grpc" \in forced
            \/ via[r] = "http" /\ ("http" \in forced \/ "grpc" \in failed)

(* The pool outlives the handlers: it refuses one only after Stop gave up  *)
(* on it.                                                                  *)
PoolOutlivesHandlers ==
    /\ refused # {} => "grpc" \in forced
    /\ resource["pool"] \in {"closing", "closed"} /\ Active # {} =>
           "grpc" \in forced

(* The server marks gRPC health NOT_SERVING before it turns clients away.  *)
NotServingFirst ==
    \A s \in Server : server[s] \in {"draining", "stopped"} =>
                          health = "NOT_SERVING"

(* On whichever path run returns, what it deferred the release of is       *)
(* released and no statement in flight is torn by the end of the process.  *)
(* The gRPC listener is closed as well if grpcServer.Serve ever ran; an    *)
(* error of NewGateway, or a stop before that goroutine is scheduled,      *)
(* leaves it to the operating system.                                      *)
ReleasedAtExit ==
    main = "exited" =>
        /\ \A x \in Resource : resource[x] \in {"none", "closed"}
        /\ listener = "open" => serve["grpc"] \in {"none", "spawned"}
        /\ \A r \in Req : handler[r] # "torn"

(* A server that failed on its own is not hidden behind status 0.          *)
FailureReported ==
    main = "exited" /\ code = 0 => signal = "pending"

(* Once a server failed or a signal arrived the process ends, although     *)
(* handlers may hang: it never stays up half dead.                         *)
ShutdownCompletes ==
    main = "select" /\ (serverErr # {} \/ signal = "pending") ~> main = "exited"

=============================================================================
