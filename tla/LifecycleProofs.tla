-------------------------- MODULE LifecycleProofs ---------------------------
(***************************************************************************)
(* The safety properties of Lifecycle, for any set of requests and any     *)
(* size of the pool.                                                       *)
(*                                                                         *)
(* The place of the main goroutine determines what the servers and their   *)
(* Serve goroutines are (Stages); with that, no request is accepted once   *)
(* its server drains, so what a drain found empty stays empty (Clients),   *)
(* and the deferred Close finds the pool idle or its users given up        *)
(* (Pool).                                                                 *)
(***************************************************************************)
EXTENDS Lifecycle, FiniteSetTheorems, TLAPS

Graceful == {"mark", "closeGateway", "drainGateway", "cancelGateway",
             "stopGRPC", "drainGRPC"}

NeverLaunched == \A s \in Server : serve[s] = "none"

(* The servers and their goroutines, stage by stage. *)
Stages ==
    /\ main \in Starting \ {"notify"} => NeverLaunched
    /\ main \in {"notify", "select"} \cup Graceful =>
           \A s \in Server : serve[s] # "none"
    /\ main \in Starting \ {"gateway", "launch", "notify"} =>
           \A s \in Server : server[s] = "none"
    /\ main = "gateway" => server["grpc"] = "up" /\ server["http"] = "none"
    /\ main \in {"launch", "notify", "select", "mark", "closeGateway"} =>
           \A s \in Server : server[s] = "up"
    /\ main = "drainGateway" =>
           server["grpc"] = "up" /\ server["http"] = "draining"
    /\ main \in {"cancelGateway", "stopGRPC"} =>
           server["grpc"] = "up" /\ server["http"] = "stopped"
    /\ main = "drainGRPC" =>
           server["grpc"] = "draining" /\ server["http"] = "stopped"
    /\ main \in {"unwind", "exited"} =>
           \/ NeverLaunched /\ \A s \in Server : server[s] \in {"none", "up"}
           \/ \A s \in Server : server[s] = "stopped"

(* The health status goes down first, and a status of 0 has a signal.      *)
Reports ==
    /\ main \in Graceful \ {"mark"} => health = "NOT_SERVING"
    /\ NotServingFirst
    /\ main \in Graceful \cup {"unwind", "exited"} /\ code = 0 =>
           signal = "pending"
    /\ signal = "default" => main \notin {"select"} \cup Graceful

(* Who still waits, and for what. *)
Clients ==
    /\ NeverLaunched => \A r \in Req : client[r] = "idle" /\ handler[r] = "none"
    /\ \A r \in Req :
           client[r] = "waiting" =>
               \/ via[r] = "grpc" /\ handler[r] \in {"running", "query"}
               \/ via[r] = "http"
    /\ main \in {"stopGRPC", "drainGRPC", "unwind", "exited", "killed"} =>
           Waiting("http") = {}
    /\ main = "cancelGateway" /\ "http" \notin forced => Waiting("http") = {}
    /\ main \in {"unwind", "exited", "killed"} /\ "grpc" \notin forced =>
           Active = {}

(* A Serve of the gRPC server that is over failed, or was stopped. *)
Failures ==
    serve["grpc"] = "returned" /\ server["grpc"] = "up" => "grpc" \in failed

(* An open listener waits for its Serve, or is served. *)
Listening ==
    listener = "open" =>
        \/ serve["grpc"] \in {"none", "spawned"}
        \/ serve["grpc"] = "serving" /\ server["grpc"] = "up"

(* The pool, its users and its deferred Close. *)
Pool ==
    /\ IsFiniteSet(InUse)
    /\ resource["pool"] \in {"none", "closed"} => InUse = {}
    /\ resource["pool"] = "closing" => defers # <<>> /\ Head(defers) = "pool"
    /\ resource["pool"] \in {"closing", "closed"} =>
           main \in {"unwind", "exited", "killed"}
    /\ refused # {} => "grpc" \in forced
    /\ \A r \in Req : handler[r] = "torn" => main = "killed"

(* What is not released is deferred. *)
Deferred ==
    \A x \in Resource :
        resource[x] \in {"open", "closing"} =>
            \E i \in 1..Len(defers) : defers[i] = x

(* run has returned when nothing is deferred any more. *)
Unwound == main = "exited" => defers = <<>>

IndInv ==
    /\ TypeOK
    /\ Stages
    /\ Reports
    /\ Clients
    /\ Failures
    /\ Listening
    /\ Pool
    /\ Deferred
    /\ Unwound
    /\ AcceptedIsAnswered

-----------------------------------------------------------------------------
(* What the groups of actions leave alone *)

(* A request's steps change neither the process nor its servers. *)
LEMMA RequestFrame ==
    ASSUME NEW r \in Req, Request(r)
    PROVE  UNCHANGED <<process, serving>>
  BY DEF Request, AcceptGRPC, AcceptHTTP, Forward, ForwardRefused, Query,
         QueryDone, QueryRefused, Return

(* A Serve goroutine changes only how far it is. *)
LEMMA GoroutineFrame ==
    ASSUME NEW s \in Server, Goroutine(s)
    PROVE  UNCHANGED <<process, requests, health, server>>
  BY DEF Goroutine, Serve, ServeFails, ServeReturns

(* Starting up touches no request. *)
LEMMA StartupFrame ==
    ASSUME Startup
    PROVE  UNCHANGED <<requests, forced, failed, serverErr>>
  BY DEF Startup, LoadConfig, OpenPool, EnsureAdmin, SetUpProviders,
         StartMetrics, StartTelemetry, Listen, BuildGateway, Launch, Notify,
         StartupFails, serving

(* A killed process leaves the rest of its state. *)
LEMMA SignalFrame ==
    ASSUME Signal
    PROVE  UNCHANGED <<defers, resource, forced, serving>>
  BY DEF Signal

-----------------------------------------------------------------------------
(* Stages *)

(* Start-up goes through the stages in order, or unwinds. *)
LEMMA StartupStages ==
    ASSUME TypeOK, Stages, Startup
    PROVE  Stages'
<1> USE DEF TypeOK, Stages, NeverLaunched, Server, Starting, Graceful, Goto, serving
<1>1. CASE LoadConfig \/ OpenPool \/ EnsureAdmin \/ SetUpProviders \/ StartMetrics
           \/ StartTelemetry
  BY <1>1 DEF LoadConfig, OpenPool, EnsureAdmin, SetUpProviders, StartMetrics,
              StartTelemetry
<1>2. CASE Listen
  BY <1>2 DEF Listen
<1>3. CASE BuildGateway \/ Launch \/ Notify
  BY <1>3 DEF BuildGateway, Launch, Notify
<1>4. CASE StartupFails
  BY <1>4 DEF StartupFails
<1>5. QED
  BY <1>1, <1>2, <1>3, <1>4 DEF Startup

(* So does shutdown. *)
LEMMA ShutdownStages ==
    ASSUME TypeOK, Stages, Shutdown
    PROVE  Stages'
<1> USE DEF TypeOK, Stages, NeverLaunched, Server, Starting, Graceful, Goto, serving
<1>1. CASE SelectError \/ SelectSignal \/ MarkNotServing
  BY <1>1 DEF SelectError, SelectSignal, MarkNotServing
<1>2. CASE CloseGateway \/ DrainGateway \/ CancelGateway
  BY <1>2 DEF CloseGateway, DrainGateway, CancelGateway
<1>3. CASE StopGRPC \/ DrainGRPC \/ StopTimeout
  BY <1>3 DEF StopGRPC, DrainGRPC, StopTimeout
<1>4. CASE Release \/ BeginClosePool \/ EndClosePool \/ Exit
  BY <1>4 DEF Release, BeginClosePool, EndClosePool, Exit
<1>5. QED
  BY <1>1, <1>2, <1>3, <1>4 DEF Shutdown

(* Nobody else changes the stage, except by a kill. *)
LEMMA OtherStages ==
    ASSUME TypeOK, Stages,
           \/ Signal
           \/ \E s \in Server : Goroutine(s)
           \/ \E r \in Req : Request(r)
           \/ UNCHANGED vars
    PROVE  Stages'
<1> USE DEF TypeOK, Stages, NeverLaunched, Server, Starting, Graceful, serving, process
<1>1. CASE Signal
  BY <1>1 DEF Signal
<1>2. CASE \E s \in Server : Goroutine(s)
  BY <1>2 DEF Goroutine, Serve, ServeFails, ServeReturns
<1>3. CASE \E r \in Req : Request(r)
  BY <1>3, RequestFrame
<1>4. CASE UNCHANGED vars
  BY <1>4 DEF vars
<1>5. QED
  BY <1>1, <1>2, <1>3, <1>4

-----------------------------------------------------------------------------
(* Types *)

(* The three groups of variables. *)
ProcessShape ==
    /\ main \in Starting \cup Stopping \cup {"select", "exited", "killed"}
    /\ defers \in Seq(Resource)
    /\ resource \in [Resource -> {"none", "open", "closing", "closed"}]
    /\ code \in 0..2
    /\ signal \in {"default", "none", "pending"}
    /\ forced \in SUBSET Server

ServingShape ==
    /\ health \in {"unset", "SERVING", "NOT_SERVING"}
    /\ server \in [Server -> {"none", "up", "draining", "stopped"}]
    /\ serve \in [Server -> {"none", "spawned", "serving", "returned"}]
    /\ serverErr \in SUBSET Server
    /\ listener \in {"none", "open", "closed"}
    /\ failed \in SUBSET Server

RequestsShape ==
    /\ client \in [Req -> {"idle", "waiting", "answered", "cut"}]
    /\ via \in [Req -> Server \cup {"none"}]
    /\ handler \in [Req -> {"none", "running", "query", "over", "killed",
                           "torn"}]
    /\ refused \in SUBSET Req

(* A release is deferred in front of the others. *)
LEMMA AcquireShape ==
    ASSUME ProcessShape, NEW x \in Resource, Acquire(x)
    PROVE  /\ defers' \in Seq(Resource)
           /\ resource' \in [Resource -> {"none", "open", "closing", "closed"}]
  BY DEF ProcessShape, Acquire

(* The end of the process leaves clients and handlers in their types. *)
LEMMA EndProcessShape ==
    ASSUME TypeOK, EndProcess
    PROVE  /\ client' \in [Req -> {"idle", "waiting", "answered", "cut"}]
           /\ via' \in [Req -> Server \cup {"none"}]
           /\ handler' \in [Req -> {"none", "running", "query", "over",
                                    "killed", "torn"}]
           /\ refused' \in SUBSET Req
           /\ \A r \in Req : /\ client'[r] # "waiting"
                             /\ handler'[r] \notin {"running", "query"}
                             /\ handler'[r] = "torn" =>
                                    handler[r] \in {"query", "torn"}
                             /\ client'[r] = "cut" =>
                                    client[r] \in {"waiting", "cut"}
                             /\ client'[r] = "idle" => client[r] = "idle"
                             /\ client[r] = "idle" => client'[r] = "idle"
                             /\ handler[r] = "none" => handler'[r] = "none"
<1> DEFINE H(r) == CASE handler[r] = "running" -> "killed"
                     [] handler[r] = "query" -> "torn"
                     [] OTHER -> handler[r]
<1>1. \A r \in Req : /\ H(r) \in {"none", "over", "killed", "torn"}
                     /\ H(r) = "torn" => handler[r] \in {"query", "torn"}
                     /\ handler[r] = "none" => H(r) = "none"
  BY DEF TypeOK
<1>2. handler' = [r \in Req |-> H(r)]
  BY DEF EndProcess
<1> HIDE DEF H
<1>3. /\ handler' \in [Req -> {"none", "running", "query", "over", "killed",
                               "torn"}]
      /\ \A r \in Req : /\ handler'[r] \notin {"running", "query"}
                        /\ handler'[r] = "torn" => handler[r] \in {"query", "torn"}
                        /\ handler[r] = "none" => handler'[r] = "none"
  BY <1>1, <1>2
<1>4. QED
  BY <1>3 DEF TypeOK, EndProcess, Cut

(* The process keeps its types, *)
LEMMA NextProcess ==
    ASSUME ProcessShape, Pool, Next
    PROVE  ProcessShape'
<1> USE DEF ProcessShape, Goto
<1>m. {"config", "pool", "admin", "providers", "metrics", "telemetry", "listen",
       "gateway", "launch", "notify", "mark", "closeGateway", "drainGateway",
       "cancelGateway", "stopGRPC", "drainGRPC", "unwind", "select", "exited",
       "killed"} = Starting \cup Stopping \cup {"select", "exited", "killed"}
  BY DEF Starting, Stopping
<1>r. {"pool", "metrics", "telemetry", "gatewayCtx"} = Resource
  BY DEF Resource
<1>1. CASE OpenPool \/ StartMetrics \/ StartTelemetry \/ Listen
  BY <1>m, <1>r, <1>1, AcquireShape DEF OpenPool, StartMetrics, StartTelemetry, Listen
<1>2. CASE LoadConfig \/ EnsureAdmin \/ SetUpProviders \/ BuildGateway \/ Launch
           \/ Notify \/ StartupFails
  BY <1>m, <1>2 DEF LoadConfig, EnsureAdmin, SetUpProviders, BuildGateway, Launch,
                    Notify, StartupFails
<1>3. CASE SelectError \/ SelectSignal \/ MarkNotServing \/ CloseGateway \/ StopGRPC
           \/ DrainGRPC \/ Exit
  BY <1>m, <1>3 DEF SelectError, SelectSignal, MarkNotServing, CloseGateway, StopGRPC,
                    DrainGRPC, Exit
<1>4. CASE DrainGateway \/ StopTimeout
  <2>1. forced' \in SUBSET Server
    <3>1. forced' \in {forced, forced \cup {"http"}, forced \cup {"grpc"}}
      BY <1>4 DEF DrainGateway, StopTimeout
    <3>2. QED
      BY <3>1 DEF Server
  <2>2. QED
    BY <1>m, <1>4, <2>1 DEF DrainGateway, StopTimeout
<1>5. CASE CancelGateway \/ Release \/ BeginClosePool \/ EndClosePool
  <2>1. defers' \in Seq(Resource)
    <3>1. \/ defers' = defers
          \/ defers # <<>> /\ defers' = Tail(defers)
      BY <1>5 DEF Pool, CancelGateway, Release, BeginClosePool, EndClosePool
    <3>2. QED
      BY <3>1
  <2>2. resource' \in [Resource -> {"none", "open", "closing", "closed"}]
    BY <1>5 DEF CancelGateway, Release, BeginClosePool, EndClosePool
  <2>3. QED
    BY <1>m, <1>5, <2>1, <2>2 DEF CancelGateway, Release, BeginClosePool, EndClosePool
<1>6. CASE Signal
  BY <1>m, <1>6 DEF Signal
<1>7. CASE UNCHANGED process
  BY <1>7 DEF process
<1>8. QED
  BY <1>1, <1>2, <1>3, <1>4, <1>5, <1>6, <1>7, GoroutineFrame, RequestFrame
     DEF Next, Startup, Shutdown, Ended, vars

(* so do the servers, *)
LEMMA NextServing ==
    ASSUME ServingShape, Next
    PROVE  ServingShape'
<1> USE DEF ServingShape, Server
<1>1. CASE UNCHANGED serving
  BY <1>1 DEF serving
<1>2. CASE Listen \/ BuildGateway \/ Launch
  BY <1>2 DEF Listen, BuildGateway, Launch
<1>3. CASE SelectError \/ MarkNotServing \/ CloseGateway \/ DrainGateway \/ StopGRPC
           \/ DrainGRPC \/ StopTimeout
  BY <1>3 DEF SelectError, MarkNotServing, CloseGateway, DrainGateway, StopGRPC,
              DrainGRPC, StopTimeout
<1>4. CASE \E s \in Server : Goroutine(s)
  BY <1>4 DEF Goroutine, Serve, ServeFails, ServeReturns, CloseListener
<1>5. CASE \E r \in Req : Request(r)
  BY <1>1, <1>5, RequestFrame
<1>6. CASE Startup \/ Shutdown \/ Signal
  BY <1>1, <1>2, <1>3, <1>6
     DEF Startup, LoadConfig, OpenPool, EnsureAdmin, SetUpProviders, StartMetrics,
         StartTelemetry, Notify, StartupFails, Shutdown, SelectSignal,
         CancelGateway, Release, BeginClosePool, EndClosePool, Exit, Signal
<1>7. QED
  BY <1>1, <1>4, <1>5, <1>6 DEF Next, Ended, vars

(* and the requests. *)
LEMMA NextRequests ==
    ASSUME TypeOK, RequestsShape, Next
    PROVE  RequestsShape'
<1> USE DEF RequestsShape
<1>1. CASE UNCHANGED requests
  BY <1>1 DEF requests
<1>2. CASE EndProcess
  BY <1>2, EndProcessShape
<1>3. CASE CancelGateway \/ StopTimeout
  BY <1>3 DEF CancelGateway, StopTimeout, Cut
<1>4. CASE \E r \in Req : Request(r)
  <2>1. PICK r \in Req : Request(r)
    BY <1>4
  <2>2. CASE AcceptGRPC(r) \/ AcceptHTTP(r)
    BY <2>2 DEF AcceptGRPC, AcceptHTTP, Server
  <2>3. CASE Forward(r) \/ ForwardRefused(r)
    BY <2>3 DEF Forward, ForwardRefused, Cut
  <2>4. CASE Query(r) \/ QueryDone(r) \/ Return(r)
    BY <2>4 DEF Query, QueryDone, Return
  <2>5. CASE QueryRefused(r)
    BY <2>5 DEF QueryRefused, Cut
  <2>6. QED
    BY <2>1, <2>2, <2>3, <2>4, <2>5 DEF Request
<1>5. CASE \E s \in Server : Goroutine(s)
  BY <1>1, <1>5, GoroutineFrame
<1>6. CASE Startup
  BY <1>1, <1>6, StartupFrame
<1>7. CASE Shutdown \/ Signal
  BY <1>1, <1>2, <1>3, <1>7
     DEF Shutdown, SelectError, SelectSignal, MarkNotServing, CloseGateway,
         DrainGateway, StopGRPC, DrainGRPC, Release, BeginClosePool,
         EndClosePool, Exit, Signal
<1>8. QED
  BY <1>1, <1>4, <1>5, <1>6, <1>7 DEF Next, Ended, vars

(* Connections are lent one at a time, below the limit. *)
LEMMA NextConnections ==
    ASSUME TypeOK, IsFiniteSet(InUse), Next
    PROVE  IsFiniteSet(InUse') /\ Cardinality(InUse') <= MaxConns
<1>1. ASSUME InUse' \subseteq InUse
      PROVE  IsFiniteSet(InUse') /\ Cardinality(InUse') <= MaxConns
  <2>1. IsFiniteSet(InUse') /\ Cardinality(InUse') <= Cardinality(InUse)
    BY <1>1, FS_Subset
  <2>2. Cardinality(InUse) \in Nat /\ Cardinality(InUse') \in Nat
    BY <2>1, FS_CardinalityType
  <2>3. QED
    BY <2>1, <2>2, PoolAssumption DEF TypeOK
<1>2. ASSUME NEW r \in Req, Query(r)
      PROVE  IsFiniteSet(InUse') /\ Cardinality(InUse') <= MaxConns
  <2>1. InUse' = InUse \cup {r} /\ r \notin InUse
    BY <1>2 DEF TypeOK, Query, InUse
  <2>2. IsFiniteSet(InUse') /\ Cardinality(InUse') = Cardinality(InUse) + 1
    BY <2>1, FS_AddElement
  <2>3. Cardinality(InUse) \in Nat
    BY FS_CardinalityType
  <2>4. QED
    BY <1>2, <2>2, <2>3, PoolAssumption DEF Query
<1>3. CASE \E r \in Req : Query(r)
  BY <1>2, <1>3
<1>4. CASE UNCHANGED handler
  BY <1>1, <1>4 DEF InUse
<1>5. CASE EndProcess
  BY <1>1, <1>5, EndProcessShape DEF InUse
<1>6. CASE \E r \in Req : AcceptGRPC(r) \/ Forward(r) \/ QueryDone(r)
                          \/ QueryRefused(r) \/ Return(r)
  <2>1. InUse' \subseteq InUse
    BY <1>6 DEF TypeOK, InUse, AcceptGRPC, Forward, QueryDone, QueryRefused, Return
  <2>2. QED
    BY <1>1, <2>1
<1>7. CASE Startup
  BY <1>4, <1>7, StartupFrame DEF requests
<1>8. CASE Shutdown
  BY <1>4, <1>5, <1>8
     DEF Shutdown, SelectError, SelectSignal, MarkNotServing, CloseGateway,
         DrainGateway, CancelGateway, StopGRPC, DrainGRPC, StopTimeout, Release,
         BeginClosePool, EndClosePool, Exit, requests
<1>9. CASE Signal
  BY <1>4, <1>5, <1>9 DEF Signal, requests
<1>10. CASE \E s \in Server : Goroutine(s)
  BY <1>4, <1>10, GoroutineFrame DEF requests
<1>11. CASE \E r \in Req : Request(r)
  BY <1>3, <1>4, <1>6, <1>11 DEF Request, AcceptHTTP, ForwardRefused
<1>12. CASE Ended
  BY <1>4, <1>12 DEF Ended, vars, requests
<1>13. QED
  BY <1>7, <1>8, <1>9, <1>10, <1>11, <1>12 DEF Next

-----------------------------------------------------------------------------
(* Reports and failures *)

(* Health, exit status and signals. *)
LEMMA NextReports ==
    ASSUME TypeOK, Stages, Reports, Next
    PROVE  Reports'
<1> USE DEF Reports, NotServingFirst, Goto, Graceful
<1>1. CASE Startup
  <2> USE DEF Stages, Starting, Server, NeverLaunched, TypeOK, serving
  <2>1. CASE LoadConfig \/ OpenPool \/ EnsureAdmin \/ SetUpProviders \/ StartMetrics
             \/ StartTelemetry
    BY <2>1 DEF LoadConfig, OpenPool, EnsureAdmin, SetUpProviders, StartMetrics,
                StartTelemetry
  <2>2. CASE Listen \/ BuildGateway
    BY <2>2 DEF Listen, BuildGateway
  <2>3. CASE Launch \/ Notify \/ StartupFails
    BY <2>3 DEF Launch, Notify, StartupFails
  <2>4. QED
    BY <1>1, <2>1, <2>2, <2>3 DEF Startup
<1>2. CASE Shutdown
  <2> USE DEF TypeOK, Server, serving
  <2>1. CASE SelectError \/ SelectSignal \/ MarkNotServing
    BY <2>1 DEF SelectError, SelectSignal, MarkNotServing
  <2>2. CASE CloseGateway \/ DrainGateway \/ CancelGateway
    BY <2>2 DEF CloseGateway, DrainGateway, CancelGateway
  <2>3. CASE StopGRPC \/ DrainGRPC \/ StopTimeout
    BY <2>3 DEF StopGRPC, DrainGRPC, StopTimeout
  <2>4. CASE Release \/ BeginClosePool \/ EndClosePool \/ Exit
    BY <2>4 DEF Release, BeginClosePool, EndClosePool, Exit
  <2>5. QED
    BY <1>2, <2>1, <2>2, <2>3, <2>4 DEF Shutdown
<1>3. CASE Signal
  BY <1>3 DEF Signal, serving
<1>4. CASE UNCHANGED <<process, health, server>>
  BY <1>4 DEF process
<1>5. QED
  BY <1>1, <1>2, <1>3, <1>4, RequestFrame, GoroutineFrame
     DEF Next, Ended, vars, serving

(* A gRPC Serve that is over while its server is up has failed. *)
LEMMA NextFailures ==
    ASSUME TypeOK, Stages, Failures, Next
    PROVE  Failures'
<1> USE DEF Failures, Goto
<1>1. CASE Startup
  <2> USE DEF Stages, Starting, Server, NeverLaunched, TypeOK, serving
  <2>1. CASE Listen \/ BuildGateway \/ Launch
    BY <2>1 DEF Listen, BuildGateway, Launch
  <2>2. CASE UNCHANGED serving
    BY <2>2
  <2>3. QED
    BY <1>1, <2>1, <2>2
       DEF Startup, LoadConfig, OpenPool, EnsureAdmin, SetUpProviders,
           StartMetrics, StartTelemetry, Notify, StartupFails
<1>2. CASE Shutdown
  <2>1. /\ serve' = serve /\ failed' = failed
        /\ server'["grpc"] = "up" => server["grpc"] = "up"
    BY <1>2 DEF Shutdown, SelectError, SelectSignal, MarkNotServing, CloseGateway,
           DrainGateway, CancelGateway, StopGRPC, DrainGRPC, StopTimeout, Release,
           BeginClosePool, EndClosePool, Exit, serving, TypeOK, Server
  <2>2. QED
    BY <2>1
<1>3. CASE \E s \in Server : Goroutine(s)
  BY <1>3 DEF TypeOK, Server, Goroutine, Serve, ServeFails, ServeReturns
<1>4. CASE UNCHANGED serving
  BY <1>4 DEF serving
<1>5. QED
  BY <1>1, <1>2, <1>3, <1>4, RequestFrame, SignalFrame DEF Next, Ended, vars

(* Whoever ends a Serve, or stops its server, closes the listener. *)
LEMMA NextListening ==
    ASSUME TypeOK, Stages, Listening, Next
    PROVE  Listening'
<1> USE DEF Listening, Goto
<1>1. CASE Startup
  <2> USE DEF Stages, Starting, Server, NeverLaunched, TypeOK, serving
  <2>1. CASE Listen \/ BuildGateway \/ Launch
    BY <2>1 DEF Listen, BuildGateway, Launch
  <2>2. CASE UNCHANGED serving
    BY <2>2
  <2>3. QED
    BY <1>1, <2>1, <2>2
       DEF Startup, LoadConfig, OpenPool, EnsureAdmin, SetUpProviders,
           StartMetrics, StartTelemetry, Notify, StartupFails
<1>2. CASE Shutdown
  <2> USE DEF TypeOK, Server, serving
  <2>1. CASE StopGRPC
    BY <2>1 DEF StopGRPC
  <2>2. CASE DrainGRPC \/ StopTimeout
    BY <2>2 DEF DrainGRPC, StopTimeout, Stages
  <2>3. CASE CloseGateway \/ DrainGateway
    BY <2>3 DEF CloseGateway, DrainGateway
  <2>4. CASE SelectError \/ MarkNotServing
    BY <2>4 DEF SelectError, MarkNotServing
  <2>5. CASE UNCHANGED serving
    BY <2>5
  <2>6. QED
    BY <1>2, <2>1, <2>2, <2>3, <2>4, <2>5
       DEF Shutdown, SelectSignal, CancelGateway, Release, BeginClosePool,
           EndClosePool, Exit
<1>3. CASE \E s \in Server : Goroutine(s)
  BY <1>3 DEF TypeOK, Server, Goroutine, Serve, ServeFails, ServeReturns,
              CloseListener
<1>4. CASE UNCHANGED serving
  BY <1>4 DEF serving
<1>5. QED
  BY <1>1, <1>2, <1>3, <1>4, RequestFrame, SignalFrame DEF Next, Ended, vars

-----------------------------------------------------------------------------
(* Deferred releases *)

(* What is acquired is deferred, and what is popped is released. *)
LEMMA NextDeferred ==
    ASSUME TypeOK, Pool, Deferred, Next
    PROVE  Deferred'
<1>1. ASSUME NEW x \in Resource, Acquire(x)
      PROVE  Deferred'
  <2>1. /\ Len(defers') = Len(defers) + 1 /\ defers'[1] = x
        /\ \A i \in 1..Len(defers) : defers'[i + 1] = defers[i]
        /\ Len(defers) \in Nat
    BY <1>1 DEF TypeOK, Acquire
  <2>2. ASSUME NEW y \in Resource, resource'[y] \in {"open", "closing"}
        PROVE  \E i \in 1..Len(defers') : defers'[i] = y
    <3>1. CASE y = x
      BY <2>1, <3>1
    <3>2. CASE y # x
      <4>1. PICK i \in 1..Len(defers) : defers[i] = y
        BY <1>1, <2>2, <3>2 DEF TypeOK, Acquire, Deferred
      <4>2. i + 1 \in 1..Len(defers') /\ defers'[i + 1] = y
        BY <2>1, <4>1
      <4>3. QED
        BY <4>2
    <3>3. QED
      BY <3>1, <3>2
  <2>3. QED
    BY <2>2 DEF Deferred
<1>2. ASSUME defers # <<>>, defers' = Tail(defers),
             resource' = [resource EXCEPT ![Head(defers)] = "closed"]
      PROVE  Deferred'
  <2>1. /\ Len(defers) \in Nat /\ Len(defers') = Len(defers) - 1
        /\ \A i \in 1..Len(defers') : defers'[i] = defers[i + 1]
        /\ Head(defers) = defers[1] /\ Head(defers) \in Resource
    BY <1>2 DEF TypeOK
  <2>2. ASSUME NEW y \in Resource, resource'[y] \in {"open", "closing"}
        PROVE  \E i \in 1..Len(defers') : defers'[i] = y
    <3>1. y # Head(defers) /\ resource[y] \in {"open", "closing"}
      BY <1>2, <2>1, <2>2 DEF TypeOK
    <3>2. PICK i \in 1..Len(defers) : defers[i] = y
      BY <3>1 DEF Deferred
    <3>3. i - 1 \in 1..Len(defers') /\ defers'[i - 1] = defers[(i - 1) + 1]
      BY <2>1, <3>1, <3>2
    <3>4. defers'[i - 1] = y
      BY <3>2, <3>3
    <3>5. QED
      BY <3>3, <3>4
  <2>3. QED
    BY <2>2 DEF Deferred
<1>3. ASSUME defers' = defers,
             \A x \in Resource : resource'[x] \in {"open", "closing"} =>
                                     resource[x] \in {"open", "closing"}
      PROVE  Deferred'
  BY <1>3 DEF Deferred
<1>4. CASE Startup
  <2>1. {"pool", "metrics", "telemetry", "gatewayCtx"} = Resource
    BY DEF Resource
  <2>2. QED
    BY <1>1, <1>3, <1>4, <2>1
       DEF Startup, LoadConfig, OpenPool, EnsureAdmin, SetUpProviders,
           StartMetrics, StartTelemetry, Listen, BuildGateway, Launch, Notify,
           StartupFails
<1>5. CASE Release \/ EndClosePool
  BY <1>2, <1>5 DEF Release, EndClosePool, Pool
<1>6. CASE Shutdown /\ ~(Release \/ EndClosePool)
  <2>1. CASE CancelGateway \/ BeginClosePool
    BY <1>3, <2>1 DEF CancelGateway, BeginClosePool, TypeOK, Resource
  <2>2. CASE ~(CancelGateway \/ BeginClosePool)
    BY <1>3, <1>6, <2>2
       DEF Shutdown, SelectError, SelectSignal, MarkNotServing, CloseGateway,
           DrainGateway, StopGRPC, DrainGRPC, StopTimeout, Exit
  <2>3. QED
    BY <2>1, <2>2
<1>7. CASE UNCHANGED <<defers, resource>>
  BY <1>3, <1>7
<1>8. QED
  BY <1>4, <1>5, <1>6, <1>7, RequestFrame, GoroutineFrame, SignalFrame
     DEF Next, Ended, vars, process

-----------------------------------------------------------------------------
(* Clients *)

(* A drained server takes no more requests. *)
LEMMA RequestClients ==
    ASSUME TypeOK, Stages, Clients, main \notin {"exited", "killed"},
           NEW r \in Req, Request(r)
    PROVE  Clients'
<1>f. UNCHANGED <<process, serving>>
  BY RequestFrame
<1> USE DEF TypeOK, Clients, NeverLaunched, Waiting, Active, process, serving
<1>s. /\ main \in {"cancelGateway", "stopGRPC", "drainGRPC", "unwind"} =>
             ~Accepts("http")
      /\ main = "unwind" =>
             /\ ~Accepts("grpc")
             /\ ~(server["grpc"] = "up" /\ serve["grpc"] \in {"serving", "returned"})
      /\ Accepts("grpc") \/ Accepts("http") => ~NeverLaunched
  BY DEF Stages, Accepts, Server, Starting
<1>1. CASE AcceptGRPC(r)
  BY <1>f, <1>s, <1>1 DEF AcceptGRPC
<1>2. CASE AcceptHTTP(r)
  BY <1>f, <1>s, <1>2 DEF AcceptHTTP
<1>3. CASE Forward(r)
  BY <1>f, <1>s, <1>3 DEF Forward
<1>4. CASE ForwardRefused(r)
  BY <1>f, <1>4 DEF ForwardRefused, Cut
<1>5. CASE Query(r) \/ QueryDone(r)
  BY <1>f, <1>5 DEF Query, QueryDone
<1>6. CASE QueryRefused(r)
  BY <1>f, <1>6 DEF QueryRefused, Cut
<1>7. CASE Return(r)
  BY <1>f, <1>7 DEF Return
<1>8. QED
  BY <1>1, <1>2, <1>3, <1>4, <1>5, <1>6, <1>7 DEF Request

(* A drain that ends without a timeout leaves nobody waiting. *)
LEMMA ShutdownClients ==
    ASSUME TypeOK, Stages, Clients, Shutdown
    PROVE  Clients'
<1> USE DEF TypeOK, Clients, NeverLaunched, Waiting, Active, Goto, serving, requests
<1>1. CASE SelectError \/ SelectSignal \/ MarkNotServing \/ CloseGateway
  BY <1>1 DEF SelectError, SelectSignal, MarkNotServing, CloseGateway
<1>2. CASE DrainGateway
  BY <1>2 DEF DrainGateway
<1>3. CASE CancelGateway
  BY <1>3 DEF CancelGateway, Cut
<1>4. CASE StopGRPC \/ DrainGRPC
  BY <1>4 DEF StopGRPC, DrainGRPC
<1>5. CASE StopTimeout
  BY <1>5 DEF StopTimeout, Cut
<1>6. CASE Release \/ BeginClosePool \/ EndClosePool
  BY <1>6 DEF Release, BeginClosePool, EndClosePool
<1>7. CASE Exit
  <2>1. serve' = serve /\ forced' = forced /\ main' = "exited"
    BY <1>7 DEF Exit
  <2>2. \A q \in Req : /\ client'[q] # "waiting"
                       /\ handler'[q] \notin {"running", "query"}
                       /\ client[q] = "idle" => client'[q] = "idle"
                       /\ handler[q] = "none" => handler'[q] = "none"
    BY <1>7, EndProcessShape DEF Exit
  <2>3. QED
    BY <2>1, <2>2
<1>8. QED
  BY <1>1, <1>2, <1>3, <1>4, <1>5, <1>6, <1>7 DEF Shutdown

(* Nor does anything else make a client wait. *)
LEMMA NextClients ==
    ASSUME TypeOK, Stages, Clients, Next
    PROVE  Clients'
<1> USE DEF Clients, NeverLaunched, Waiting, Active
<1>1. CASE Startup
  <2>1. UNCHANGED <<requests, forced>>
    BY <1>1, StartupFrame
  <2>2. CASE Launch
    BY <2>1, <2>2 DEF Launch, Goto, requests, Server
  <2>3. CASE StartupFails
    <3>1. NeverLaunched
      BY <2>3 DEF StartupFails, Stages, Starting
    <3>2. QED
      BY <2>1, <2>3, <3>1 DEF StartupFails, serving, requests
  <2>4. CASE ~Launch /\ ~StartupFails
    <3>1. serve' = serve /\ main' \in Starting \cup {"select"}
      BY <1>1, <2>4 DEF Startup, LoadConfig, OpenPool, EnsureAdmin, SetUpProviders,
             StartMetrics, StartTelemetry, Listen, BuildGateway, Notify, serving,
             Goto, Starting
    <3>2. QED
      BY <2>1, <3>1 DEF requests, Starting
  <2>5. QED
    BY <2>2, <2>3, <2>4
<1>2. CASE Signal
  <2>1. CASE main' = "killed" /\ EndProcess
    <3>1. serve' = serve /\ forced' = forced
      BY <1>2 DEF Signal, serving
    <3>2. \A q \in Req : /\ client'[q] # "waiting"
                         /\ handler'[q] \notin {"running", "query"}
                         /\ client[q] = "idle" => client'[q] = "idle"
                         /\ handler[q] = "none" => handler'[q] = "none"
      BY <2>1, EndProcessShape
    <3>3. QED
      BY <2>1, <3>1, <3>2
  <2>2. CASE UNCHANGED <<main, requests>>
    BY <1>2, <2>2 DEF Signal, serving, requests
  <2>3. QED
    BY <1>2, <2>1, <2>2 DEF Signal
<1>3. CASE \E s \in Server : Goroutine(s)
  <2>1. UNCHANGED <<process, requests>> /\ ~NeverLaunched /\ ~NeverLaunched'
    BY <1>3 DEF Goroutine, Serve, ServeFails, ServeReturns, TypeOK
  <2>2. QED
    BY <2>1 DEF process, requests
<1>4. CASE UNCHANGED vars
  BY <1>4 DEF vars, process, serving, requests
<1>5. QED
  BY <1>1, <1>2, <1>3, <1>4, RequestClients, ShutdownClients DEF Next, Ended

-----------------------------------------------------------------------------
(* The pool *)

(* A handler that meets a closing pool had been given up. *)
LEMMA RequestPool ==
    ASSUME TypeOK, Clients, Pool, main \notin {"exited", "killed"},
           NEW r \in Req, Request(r), IsFiniteSet(InUse')
    PROVE  Pool'
<1>f. UNCHANGED <<process, serving>>
  BY RequestFrame
<1> USE DEF TypeOK, Pool, InUse, process, serving
<1>1. CASE AcceptGRPC(r) \/ AcceptHTTP(r)
  BY <1>f, <1>1 DEF AcceptGRPC, AcceptHTTP
<1>2. CASE Forward(r) \/ ForwardRefused(r)
  BY <1>f, <1>2 DEF Forward, ForwardRefused
<1>3. CASE Query(r)
  BY <1>f, <1>3 DEF Query
<1>4. CASE QueryDone(r) \/ Return(r)
  BY <1>f, <1>4 DEF QueryDone, Return
<1>5. CASE QueryRefused(r)
  <2>1. "grpc" \in forced
    BY <1>5 DEF QueryRefused, Clients, Active
  <2>2. QED
    BY <1>f, <1>5, <2>1 DEF QueryRefused
<1>6. QED
  BY <1>1, <1>2, <1>3, <1>4, <1>5 DEF Request

(* Close waits for the lent connections, so the process tears none. *)
LEMMA ShutdownPool ==
    ASSUME TypeOK, Pool, Deferred, Shutdown, IsFiniteSet(InUse')
    PROVE  Pool'
<1> USE DEF TypeOK, Pool, InUse, Goto, requests, Resource
<1>1. CASE SelectError \/ SelectSignal \/ MarkNotServing \/ CloseGateway
           \/ DrainGateway
  BY <1>1 DEF SelectError, SelectSignal, MarkNotServing, CloseGateway, DrainGateway
<1>2. CASE CancelGateway \/ StopGRPC \/ DrainGRPC \/ StopTimeout
  BY <1>2 DEF CancelGateway, StopGRPC, DrainGRPC, StopTimeout
<1>3. CASE Release
  BY <1>3 DEF Release
<1>4. CASE BeginClosePool \/ EndClosePool
  BY <1>4 DEF BeginClosePool, EndClosePool
<1>5. CASE Exit
  <2>1. resource["pool"] \in {"none", "closed"} /\ InUse = {}
    BY <1>5 DEF Exit, Deferred
  <2>2. \A q \in Req : /\ handler'[q] \notin {"running", "query"}
                       /\ handler'[q] = "torn" => handler[q] \in {"query", "torn"}
    BY <1>5, EndProcessShape DEF Exit
  <2>3. /\ UNCHANGED <<resource, defers, refused, forced>>
        /\ main = "unwind" /\ main' = "exited"
    BY <1>5 DEF Exit, EndProcess
  <2>4. QED
    BY <2>1, <2>2, <2>3
<1>6. QED
  BY <1>1, <1>2, <1>3, <1>4, <1>5 DEF Shutdown

(* The pool is opened once and closed last. *)
LEMMA NextPool ==
    ASSUME TypeOK, Clients, Pool, Deferred, Next, IsFiniteSet(InUse')
    PROVE  Pool'
<1>1. CASE Startup
  <2>1. UNCHANGED <<handler, refused, forced>>
    BY <1>1, StartupFrame DEF requests
  <2>2. main \in Starting /\ resource["pool"] \in {"none", "open"}
    BY <1>1 DEF Startup, LoadConfig, OpenPool, EnsureAdmin, SetUpProviders,
           StartMetrics, StartTelemetry, Listen, BuildGateway, Launch, Notify,
           StartupFails, Goto, Starting, Pool, TypeOK, Resource
  <2>3. resource'["pool"] = resource["pool"] \/ resource'["pool"] = "open"
    BY <1>1 DEF Startup, LoadConfig, OpenPool, EnsureAdmin, SetUpProviders,
           StartMetrics, StartTelemetry, Listen, BuildGateway, Launch, Notify,
           StartupFails, Acquire, TypeOK, Resource
  <2>4. main # "killed"
    BY <2>2 DEF Starting
  <2>5. QED
    BY <2>1, <2>2, <2>3, <2>4 DEF Pool, InUse
<1>2. CASE Signal
  <2>1. UNCHANGED <<defers, resource, forced>>
    BY <1>2 DEF Signal
  <2>2. CASE main' = "killed" /\ EndProcess
    <3>1. refused' = refused
      BY <2>2 DEF EndProcess
    <3>2. \A q \in Req : handler'[q] \notin {"running", "query"}
      BY <2>2, EndProcessShape
    <3>3. QED
      BY <2>1, <2>2, <3>1, <3>2 DEF Pool, InUse
  <2>3. CASE UNCHANGED <<main, requests>>
    BY <2>1, <2>3 DEF Pool, InUse, requests
  <2>4. QED
    BY <1>2, <2>2, <2>3 DEF Signal
<1>3. CASE UNCHANGED <<process, requests>>
  BY <1>3 DEF Pool, InUse, process, requests
<1>4. QED
  BY <1>1, <1>2, <1>3, GoroutineFrame, RequestPool, ShutdownPool
     DEF Next, Ended, vars

-----------------------------------------------------------------------------
(* Accepted requests *)

(* Nobody is cut off without a reason. *)
LEMMA NextAnswered ==
    ASSUME TypeOK, Stages, Clients, Failures, Pool, AcceptedIsAnswered, Next
    PROVE  AcceptedIsAnswered'
<1>1. CASE UNCHANGED <<client, via>> /\ forced \subseteq forced'
           /\ failed \subseteq failed' /\ main # "killed"
  BY <1>1 DEF AcceptedIsAnswered
<1>2. CASE Startup
  BY <1>1, <1>2, StartupFrame
     DEF requests, Startup, LoadConfig, OpenPool, EnsureAdmin, SetUpProviders,
         StartMetrics, StartTelemetry, Listen, BuildGateway, Launch, Notify,
         StartupFails, Goto
<1>3. CASE \E s \in Server : Goroutine(s) /\ main # "killed"
  BY <1>1, <1>3 DEF Goroutine, Serve, ServeFails, ServeReturns, process, requests
<1>4. CASE Signal
  BY <1>1, <1>4 DEF Signal, AcceptedIsAnswered, serving, requests
<1>5. CASE Shutdown
  <2>1. CASE SelectError \/ SelectSignal \/ MarkNotServing \/ CloseGateway
             \/ DrainGateway \/ StopGRPC \/ DrainGRPC \/ Release \/ BeginClosePool
             \/ EndClosePool
    BY <1>1, <2>1 DEF SelectError, SelectSignal, MarkNotServing, CloseGateway,
           DrainGateway, StopGRPC, DrainGRPC, Release, BeginClosePool,
           EndClosePool, Goto, serving, requests
  <2>2. CASE CancelGateway
    BY <2>2 DEF CancelGateway, Cut, Goto, Clients, Waiting, AcceptedIsAnswered,
                serving
  <2>3. CASE StopTimeout
    BY <2>3 DEF StopTimeout, AcceptedIsAnswered
  <2>4. CASE Exit
    <3>1. "grpc" \notin forced => \A q \in Req : client[q] # "waiting"
      BY <2>4 DEF Exit, Goto, Clients, Waiting, Active, TypeOK, Server
    <3>2. \A q \in Req : client'[q] = "cut" => client[q] \in {"waiting", "cut"}
      BY <2>4, EndProcessShape DEF Exit
    <3>3. UNCHANGED <<forced, failed, via>> /\ main # "killed"
      BY <2>4 DEF Exit, EndProcess, serving, Goto
    <3>4. QED
      BY <3>1, <3>2, <3>3 DEF AcceptedIsAnswered
  <2>5. QED
    BY <1>5, <2>1, <2>2, <2>3, <2>4 DEF Shutdown
<1>6. CASE main \notin {"exited", "killed"} /\ \E r \in Req : Request(r)
  <2>1. PICK r \in Req : Request(r)
    BY <1>6
  <2>2. UNCHANGED <<process, serving>>
    BY <2>1, RequestFrame
  <2>3. CASE QueryRefused(r)
    <3>1. "grpc" \in forced
      BY <1>6, <2>3 DEF QueryRefused, Clients, Active, Pool
    <3>2. QED
      BY <2>2, <3>1 DEF AcceptedIsAnswered, process
  <2>4. CASE ForwardRefused(r)
    <3>1. server["grpc"] = "up" /\ serve["grpc"] = "returned" /\ via[r] = "http"
      BY <1>6, <2>4 DEF ForwardRefused, Clients, Waiting, Stages, Starting,
             NeverLaunched, Server, TypeOK, Stopping
    <3>2. "grpc" \in failed
      BY <3>1 DEF Failures
    <3>3. QED
      BY <1>6, <2>2, <2>4, <3>1, <3>2
         DEF ForwardRefused, Cut, AcceptedIsAnswered, process, serving
  <2>5. CASE ~QueryRefused(r) /\ ~ForwardRefused(r)
    <3>1. \A q \in Req : client'[q] = "cut" => client[q] = "cut" /\ via'[q] = via[q]
      BY <2>1, <2>5 DEF Request, AcceptGRPC, AcceptHTTP, Forward, Query, QueryDone,
                        Return, TypeOK
    <3>2. QED
      BY <1>6, <2>2, <3>1 DEF AcceptedIsAnswered, process, serving
  <2>6. QED
    BY <2>3, <2>4, <2>5
<1>7. CASE UNCHANGED vars
  BY <1>7 DEF vars, process, serving, requests, AcceptedIsAnswered
<1>8. QED
  BY <1>2, <1>3, <1>4, <1>5, <1>6, <1>7 DEF Next, Ended

(* Only Exit ends run, and nothing runs after it. *)
LEMMA NextUnwound ==
    ASSUME TypeOK, Unwound, Next
    PROVE  Unwound'
<1> USE DEF Unwound, Goto
<1>1. CASE Startup
  BY <1>1 DEF Startup, LoadConfig, OpenPool, EnsureAdmin, SetUpProviders,
              StartMetrics, StartTelemetry, Listen, BuildGateway, Launch, Notify,
              StartupFails
<1>2. CASE Shutdown
  BY <1>2 DEF Shutdown, SelectError, SelectSignal, MarkNotServing, CloseGateway,
              DrainGateway, CancelGateway, StopGRPC, DrainGRPC, StopTimeout,
              Release, BeginClosePool, EndClosePool, Exit
<1>3. CASE Signal
  BY <1>3 DEF Signal
<1>4. CASE UNCHANGED process
  BY <1>4 DEF process
<1>5. QED
  BY <1>1, <1>2, <1>3, <1>4, RequestFrame, GoroutineFrame DEF Next, Ended, vars

-----------------------------------------------------------------------------
(* The invariant is inductive *)

(* The process before it has read its configuration. *)
LEMMA InitInv ==
    ASSUME Init
    PROVE  IndInv
<1>1. InUse = {} /\ Active = {} /\ Waiting("http") = {}
  BY DEF Init, InUse, Active, Waiting
<1>2. IsFiniteSet(InUse) /\ Cardinality(InUse) = 0
  BY <1>1, FS_EmptySet
<1>3. TypeOK
  BY <1>2, PoolAssumption DEF Init, TypeOK, Starting
<1>4. Stages
  BY DEF Init, Stages, NeverLaunched, Starting, Graceful
<1>5. Reports /\ Failures /\ Listening /\ AcceptedIsAnswered
  BY DEF Init, Reports, NotServingFirst, Graceful, Failures, Listening,
         AcceptedIsAnswered, Server
<1>6. Clients
  BY <1>1 DEF Init, Clients
<1>7. Pool /\ Deferred /\ Unwound
  BY <1>1, <1>2 DEF Init, Pool, Deferred, Unwound, Resource
<1>8. QED
  BY <1>3, <1>4, <1>5, <1>6, <1>7 DEF IndInv

(* Every step keeps it. *)
LEMMA NextInv ==
    ASSUME IndInv, [Next]_vars
    PROVE  IndInv'
<1>1. CASE Next
  <2> USE DEF IndInv
  <2>1. IsFiniteSet(InUse') /\ Cardinality(InUse') <= MaxConns
    BY <1>1, NextConnections DEF Pool
  <2>2. TypeOK'
    <3>1. ProcessShape /\ ServingShape /\ RequestsShape
      BY DEF TypeOK, ProcessShape, ServingShape, RequestsShape
    <3>2. ProcessShape' /\ ServingShape' /\ RequestsShape'
      BY <1>1, <3>1, NextProcess, NextServing, NextRequests
    <3>3. QED
      BY <2>1, <3>2 DEF TypeOK, ProcessShape, ServingShape, RequestsShape
  <2>3. Stages'
    BY <1>1, StartupStages, ShutdownStages, OtherStages DEF Next, Ended
  <2>4. Reports' /\ Failures' /\ Listening' /\ Deferred' /\ Clients'
    BY <1>1, NextReports, NextFailures, NextListening, NextDeferred, NextClients
  <2>5. Pool' /\ AcceptedIsAnswered' /\ Unwound'
    BY <1>1, <2>1, NextPool, NextAnswered, NextUnwound
  <2>6. QED
    BY <2>2, <2>3, <2>4, <2>5
<1>2. CASE UNCHANGED vars
  <2> USE <1>2 DEF IndInv, vars, process, serving, requests
  <2>1. InUse' = InUse /\ Active' = Active /\ Waiting("http")' = Waiting("http")
    BY DEF InUse, Active, Waiting
  <2>2. TypeOK' /\ Pool' /\ Deferred' /\ Unwound'
    BY <2>1 DEF TypeOK, Pool, Deferred, Unwound
  <2>3. Stages' /\ Reports' /\ Failures' /\ Listening' /\ AcceptedIsAnswered'
    BY DEF Stages, NeverLaunched, Reports, NotServingFirst, Failures, Listening,
           AcceptedIsAnswered
  <2>4. Clients'
    BY <2>1 DEF Clients, NeverLaunched
  <2>5. QED
    BY <2>2, <2>3, <2>4
<1>3. QED
  BY <1>1, <1>2

(* The invariant holds in every behaviour. *)
LEMMA Invariance == Spec => []IndInv
<1>1. Init => IndInv
  BY InitInv
<1>2. IndInv /\ [Next]_vars => IndInv'
  BY NextInv
<1>3. QED
  BY <1>1, <1>2, PTL DEF Spec

-----------------------------------------------------------------------------
(* Theorems *)

(* The variables keep their types and the pool never lends more than       *)
(* MaxConns connections (postgres.go, pool.MaxConns).                      *)
THEOREM TypeCorrect == Spec => []TypeOK
<1>1. IndInv => TypeOK
  BY DEF IndInv
<1>2. QED
  BY <1>1, Invariance, PTL

(* gracefulStop and shutdownHTTP lose no accepted request except after a   *)
(* timeout, a failed gRPC server or an early signal.                       *)
THEOREM Answered == Spec => []AcceptedIsAnswered
<1>1. IndInv => AcceptedIsAnswered
  BY DEF IndInv
<1>2. QED
  BY <1>1, Invariance, PTL

(* The deferred db.Close runs after the handlers, or after Stop gave up on *)
(* them.                                                                   *)
THEOREM PoolLast == Spec => []PoolOutlivesHandlers
<1>1. ASSUME IndInv PROVE PoolOutlivesHandlers
  <2>1. ASSUME resource["pool"] \in {"closing", "closed"}, Active # {}
        PROVE  "grpc" \in forced
    BY <1>1, <2>1 DEF IndInv, Pool, Clients
  <2>2. QED
    BY <1>1, <2>1 DEF IndInv, Pool, PoolOutlivesHandlers
<1>2. QED
  BY <1>1, Invariance, PTL

(* Health checks see NOT_SERVING before a server turns anybody away.       *)
THEOREM HealthFirst == Spec => []NotServingFirst
<1>1. IndInv => NotServingFirst
  BY DEF IndInv, Reports
<1>2. QED
  BY <1>1, Invariance, PTL

(* Whatever path run takes, its deferred calls have closed what they are   *)
(* for when it has returned, the gRPC listener is closed unless Serve      *)
(* never ran, and no statement is torn.                                    *)
THEOREM Released == Spec => []ReleasedAtExit
<1>1. ASSUME IndInv PROVE ReleasedAtExit
  <2>1. SUFFICES ASSUME main = "exited"
                 PROVE  /\ \A x \in Resource : resource[x] \in {"none", "closed"}
                        /\ listener = "open" => serve["grpc"] \in {"none", "spawned"}
                        /\ \A r \in Req : handler[r] # "torn"
    BY DEF ReleasedAtExit
  <2>2. defers = <<>>
    BY <1>1, <2>1 DEF IndInv, Unwound
  <2>3. \A x \in Resource : resource[x] \in {"none", "closed"}
    BY <1>1, <2>2 DEF IndInv, Deferred, TypeOK
  <2>4. listener = "open" => serve["grpc"] \in {"none", "spawned"}
    BY <1>1, <2>1 DEF IndInv, Stages, NeverLaunched, Server, Listening
  <2>5. \A r \in Req : handler[r] # "torn"
    BY <1>1, <2>1 DEF IndInv, Pool
  <2>6. QED
    BY <2>3, <2>4, <2>5
<1>2. QED
  BY <1>1, Invariance, PTL

(* A process that exits with status 0 was asked to by a signal.            *)
THEOREM Reported == Spec => []FailureReported
<1>1. IndInv => FailureReported
  BY DEF IndInv, Reports, FailureReported
<1>2. QED
  BY <1>1, Invariance, PTL

=============================================================================
