------------------------------- MODULE Server -------------------------------
(***************************************************************************)
(* One life of the process (cmd/vector-sync/main.go): the start, the HTTP  *)
(* gateway in front of the gRPC server, the goroutines that run in the     *)
(* background, and the shutdown.  What an RPC does to the tables is the    *)
(* subject of VectorSync; here it needs the pool, takes its time and ends. *)
(*                                                                         *)
(* A call is an HTTP request or an RPC of a gRPC client.  front is how far *)
(* the gateway is with it, back how far the gRPC server is: a gateway that *)
(* was given up by its client leaves the RPC behind.                       *)
(***************************************************************************)
EXTENDS Gateway, Integers, FiniteSets, Sequences

CONSTANTS
    Call,   \* the calls that may be made
    Sent    \* the HTTP requests and RPCs that clients send

ASSUME ServerAssumption ==
    /\ IsFiniteSet(Call)
    /\ "warm" \notin Call
    /\ Sent \subseteq HttpRequest \cup RpcRequest
    /\ None \notin HttpRequest \cup RpcRequest

VARIABLES
    main,       \* where main() is
    signal,     \* whether the channel of signals holds one
    expired,    \* whether the ten seconds of the shutdown ran out
    http,       \* the HTTP server
    grpc,       \* the gRPC server
    listening,  \* whether it accepts new connections
    pool,       \* the connection pool
    reachable,  \* whether the pool reaches PostgreSQL
    sent,       \* what each call is, or None
    front,      \* how far the gateway is with it
    back,       \* how far the gRPC server is with it
    message,    \* the message of its RPC, or None
    answer,     \* what its client is told, or None
    inflight,   \* the gauge of RPCs that are executed
    job         \* the goroutines that calls leave behind, and the warm

processVars == <<main, signal, expired, http, grpc, listening, pool, reachable>>

callVars == <<sent, front, back, message, answer, inflight>>

vars == <<processVars, callVars, job>>

Places ==
    {"connect", "listen", "serve", "run", "http", "grpc", "close", "return", "exited"}

Outcome == {"OK", "SERVING", "NOT_SERVING", "Internal", "Unavailable", "InvalidArgument"}

ASSUME OutcomeAssumption == None \notin Outcome

Jobs == Call \cup {"warm"}

Init ==
    /\ main = "connect"
    /\ signal = FALSE
    /\ expired = FALSE
    /\ http = "off"
    /\ grpc = "off"
    /\ listening = TRUE
    /\ pool = "none"
    /\ reachable \in BOOLEAN
    /\ sent = [r \in Call |-> None]
    /\ front = [r \in Call |-> "none"]
    /\ back = [r \in Call |-> "none"]
    /\ message = [r \in Call |-> None]
    /\ answer = [r \in Call |-> None]
    /\ inflight = 0
    /\ job = [j \in Jobs |-> "none"]
-----------------------------------------------------------------------------
(* The end of the process, wherever its goroutines are.                    *)
Exit ==
    /\ main' = "exited"
    /\ http' = "off"
    /\ grpc' = "off"
    /\ job' = [j \in Jobs |-> IF job[j] = "running" THEN "lost" ELSE job[j]]

(* sql.Open and Ping; main returns when the database does not answer.  The *)
(* warm is started in a goroutine of its own.                              *)
Connect ==
    /\ main = "connect"
    /\ \/ /\ reachable
          /\ main' = "listen"
          /\ pool' = "open"
          /\ job' = [job EXCEPT !["warm"] = "running"]
          /\ UNCHANGED <<http, grpc>>
       \/ /\ ~reachable
          /\ Exit
          /\ UNCHANGED pool
    /\ UNCHANGED <<signal, expired, listening, reachable, callVars>>

(* The port may be taken.                                                  *)
Listen ==
    /\ main = "listen"
    /\ \/ /\ main' = "serve"
          /\ grpc' = "serving"
          /\ UNCHANGED <<http, job>>
       \/ Exit
    /\ UNCHANGED <<signal, expired, listening, pool, reachable, callVars>>

(* The gateway is registered, the HTTP server started, signals are asked   *)
(* for.                                                                    *)
ServeHttp ==
    /\ main = "serve"
    /\ main' = "run"
    /\ http' = "serving"
    /\ UNCHANGED <<signal, expired, grpc, listening, pool, reachable, callVars, job>>

(* grpcServer.Serve returns an error, which is logged: new connections are *)
(* refused, old ones served.                                               *)
ServeFails ==
    /\ grpc = "serving"
    /\ listening' = FALSE
    /\ UNCHANGED <<main, signal, expired, http, grpc, pool, reachable, callVars, job>>

(* A signal before signal.Notify, log.Fatalf, an unrecovered panic or the  *)
(* kernel ends the process at once.                                        *)
Die ==
    /\ main # "exited"
    /\ Exit
    /\ UNCHANGED <<signal, expired, listening, pool, reachable, callVars>>

(* SIGINT or SIGTERM: the channel has room for one, others are dropped.    *)
Interrupt ==
    /\ main \notin {"connect", "listen", "serve", "exited"}
    /\ signal' = TRUE
    /\ UNCHANGED <<main, expired, http, grpc, listening, pool, reachable, callVars, job>>
-----------------------------------------------------------------------------
(***************************************************************************)
(* The shutdown.                                                           *)
(***************************************************************************)
HttpActive == {r \in Call : front[r] # "none"}

RpcActive == {r \in Call : back[r] # "none"}

(* Variant: the gRPC server is stopped first.                              *)
TakeSignalGrpcFirst ==
    /\ main = "run"
    /\ signal
    /\ signal' = FALSE
    /\ main' = "http"
    /\ grpc' = "draining"
    /\ http' = "shutting"
    /\ UNCHANGED <<expired, listening, pool, reachable, callVars, job>>

(* The HTTP server takes no more requests.                                 *)
TakeSignal ==
    /\ main = "run"
    /\ signal
    /\ signal' = FALSE
    /\ main' = "http"
    /\ http' = "shutting"
    /\ UNCHANGED <<expired, grpc, listening, pool, reachable, callVars, job>>

(* httpServer.Shutdown waits for the requests that have arrived.           *)
HttpDrained ==
    /\ main = "http"
    /\ HttpActive = {}
    /\ main' = "grpc"
    /\ grpc' = "draining"
    /\ UNCHANGED <<signal, expired, http, listening, pool, reachable, callVars, job>>

(* Variant: Shutdown is given a context without a deadline.                *)
WaitForever ==
    /\ main = "http"
    /\ HttpActive = {}
    /\ main' = "grpc"
    /\ grpc' = "draining"
    /\ UNCHANGED <<signal, expired, http, listening, pool, reachable, callVars, job>>

(* Or it gives up, and leaves them to themselves.                          *)
HttpTimesOut ==
    /\ main = "http"
    /\ main' = "grpc"
    /\ grpc' = "draining"
    /\ expired' = TRUE
    /\ UNCHANGED <<signal, http, listening, pool, reachable, callVars, job>>

(* Variant: Stop instead of GracefulStop.                                  *)
GrpcStopped ==
    /\ main = "grpc"
    /\ main' = "close"
    /\ grpc' = "stopped"
    /\ UNCHANGED <<signal, expired, http, listening, pool, reachable, callVars, job>>

(* GracefulStop waits for every RPC that was admitted, however long.       *)
GrpcDrained ==
    /\ main = "grpc"
    /\ RpcActive = {}
    /\ main' = "close"
    /\ grpc' = "stopped"
    /\ UNCHANGED <<signal, expired, http, listening, pool, reachable, callVars, job>>

ClosePool ==
    /\ main = "close"
    /\ main' = "return"
    /\ pool' = "closed"
    /\ UNCHANGED <<signal, expired, http, grpc, listening, reachable, callVars, job>>

Return ==
    /\ main = "return"
    /\ Exit
    /\ UNCHANGED <<signal, expired, listening, pool, reachable, callVars>>
-----------------------------------------------------------------------------
(***************************************************************************)
(* Calls.                                                                  *)
(***************************************************************************)
(* The first bytes of an HTTP request.                                     *)
AcceptHttp(r) ==
    /\ http = "serving"
    /\ sent[r] = None
    /\ \E h \in Sent \cap HttpRequest : sent' = [sent EXCEPT ![r] = h]
    /\ front' = [front EXCEPT ![r] = "reading"]
    /\ UNCHANGED <<processVars, back, message, answer, inflight, job>>

(* The rest of it: the message, or an error about what cannot be decoded.  *)
DecodeHttp(r) ==
    /\ main # "exited"
    /\ front[r] = "reading"
    /\ \/ /\ message' = [message EXCEPT ![r] = Translate(sent[r])]
          /\ front' = [front EXCEPT ![r] = "sending"]
          /\ UNCHANGED answer
       \/ /\ answer' = [answer EXCEPT ![r] = "InvalidArgument"]
          /\ front' = [front EXCEPT ![r] = "writing"]
          /\ UNCHANGED message
    /\ UNCHANGED <<processVars, sent, back, inflight, job>>

(* The gateway is a client of the gRPC server of its own process.          *)
SendRpc(r) ==
    /\ main # "exited"
    /\ front[r] = "sending"
    /\ \/ /\ grpc = "serving"
          /\ back' = [back EXCEPT ![r] = "reading"]
          /\ front' = [front EXCEPT ![r] = "waiting"]
          /\ UNCHANGED answer
       \/ /\ ~(grpc = "serving" /\ listening)
          /\ answer' = [answer EXCEPT ![r] = "Unavailable"]
          /\ front' = [front EXCEPT ![r] = "writing"]
          /\ UNCHANGED back
    /\ UNCHANGED <<processVars, sent, message, inflight, job>>

(* A gRPC client opens a stream.                                           *)
AcceptRpc(r) ==
    /\ grpc = "serving"
    /\ sent[r] = None
    /\ \E m \in Sent \cap RpcRequest : sent' = [sent EXCEPT ![r] = m]
    /\ back' = [back EXCEPT ![r] = "reading"]
    /\ UNCHANGED <<processVars, front, message, answer, inflight, job>>

(* The message has arrived: the interceptor counts the RPC and calls the   *)
(* handler.                                                                *)
Dispatch(r) ==
    /\ main # "exited"
    /\ back[r] = "reading"
    /\ back' = [back EXCEPT ![r] = "running"]
    /\ message' = [message EXCEPT ![r] = IF @ = None THEN sent[r] ELSE @]
    /\ inflight' = inflight + 1
    /\ UNCHANGED <<processVars, sent, front, answer, job>>

(* The reply, or an error before there was a message, reaches the gateway  *)
(* if it still waits, or the gRPC client.                                  *)
Reply(r, outcome) ==
    /\ back' = [back EXCEPT ![r] = "none"]
    /\ front' = [front EXCEPT ![r] = IF @ = "waiting" THEN "writing" ELSE @]
    /\ answer' = [answer EXCEPT ![r] = IF @ = None THEN outcome ELSE @]

(* The client of a stream goes away before its message has arrived.        *)
Reset(r) ==
    /\ main # "exited"
    /\ back[r] = "reading"
    /\ Reply(r, "InvalidArgument")
    /\ UNCHANGED <<processVars, sent, message, inflight, job>>

PoolAnswers == pool = "open" /\ reachable

(* HealthHandler.Check: every service but one is the liveness of the       *)
(* process.                                                                *)
CheckOutcome(service) ==
    IF service = "readiness" /\ ~PoolAnswers THEN "NOT_SERVING" ELSE "SERVING"

(* A service may also fail for reasons of its own.                         *)
Outcomes(m) ==
    IF m.method = "Check" THEN {CheckOutcome(m.service)}
    ELSE IF PoolAnswers THEN {"OK", "Internal"}
    ELSE {"Internal"}

LeavesJob == {"CreateCollection", "DeleteCollection"}

(* The handler returns.  The index of a collection is left to a goroutine. *)
Finish(r) ==
    /\ main # "exited"
    /\ back[r] = "running"
    /\ \E outcome \in Outcomes(message[r]) :
          /\ Reply(r, outcome)
          /\ job' = IF outcome = "OK" /\ message[r].method \in LeavesJob
                    THEN [job EXCEPT ![r] = "running"] ELSE job
    /\ inflight' = inflight - 1
    /\ UNCHANGED <<processVars, sent, message>>

(* Variant: the RPC is taken off the gauge with its client.                *)
GiveUpUncounting(r) ==
    /\ main # "exited"
    /\ front[r] \notin {"none", "writing"}
    /\ front' = [front EXCEPT ![r] = "none"]
    /\ answer' = [answer EXCEPT ![r] = "Internal"]
    /\ inflight' = inflight - 1
    /\ UNCHANGED <<processVars, sent, back, message, job>>

(* An HTTP client goes away: the gateway forgets the request at once, the  *)
(* handler goes on until it notices.                                       *)
GiveUp(r) ==
    /\ main # "exited"
    /\ front[r] \notin {"none", "writing"}
    /\ front' = [front EXCEPT ![r] = "none"]
    /\ answer' = [answer EXCEPT ![r] = "Internal"]
    /\ UNCHANGED <<processVars, sent, back, message, inflight, job>>

WriteResponse(r) ==
    /\ main # "exited"
    /\ front[r] = "writing"
    /\ front' = [front EXCEPT ![r] = "none"]
    /\ UNCHANGED <<processVars, sent, back, message, answer, inflight, job>>
-----------------------------------------------------------------------------
(* The SELECT of the warm, CREATE INDEX and DROP INDEX: nobody waits for   *)
(* them, and a failure is counted or logged.  What the pool has begun when *)
(* it is closed may still end well.  An index is never made or dropped:    *)
(* its name holds the hyphens of a UUID and is not quoted, and a column    *)
(* "vector" without dimensions cannot be indexed.                          *)
JobEnds(j) ==
    /\ main # "exited"
    /\ job[j] = "running"
    /\ \/ j = "warm" /\ reachable /\ job' = [job EXCEPT ![j] = "done"]
       \/ job' = [job EXCEPT ![j] = "failed"]
    /\ UNCHANGED <<processVars, callVars>>

(* PostgreSQL, or the network in front of it, goes away and comes back.    *)
Outage ==
    /\ main # "exited"
    /\ reachable' = ~reachable
    /\ UNCHANGED <<main, signal, expired, http, grpc, listening, pool, callVars, job>>
-----------------------------------------------------------------------------
Main ==
    \/ Connect \/ Listen \/ ServeHttp
    \/ TakeSignal \/ HttpDrained \/ HttpTimesOut \/ GrpcDrained \/ ClosePool \/ Return

Step(r) ==
    \/ AcceptHttp(r) \/ DecodeHttp(r) \/ SendRpc(r) \/ AcceptRpc(r) \/ Dispatch(r)
    \/ Reset(r) \/ Finish(r) \/ GiveUp(r) \/ WriteResponse(r)

Next ==
    \/ Main
    \/ \E r \in Call : Step(r)
    \/ \E j \in Jobs : JobEnds(j)
    \/ ServeFails \/ Die \/ Interrupt \/ Outage

Spec == Init /\ [][Next]_vars

(* main() goes on when it can, and timers go off.  Nothing makes a client, *)
(* a handler, the database or a background goroutine go on.                *)
FairSpec == Spec /\ WF_vars(Main)
-----------------------------------------------------------------------------
(* The variables have their types; a call that was sent is worked on or    *)
(* answered; requests_inflight is the number of handlers that run, also of *)
(* those whose HTTP clients have left.                                     *)
TypeOK ==
    /\ main \in Places
    /\ {signal, expired, listening, reachable} \subseteq BOOLEAN
    /\ http \in {"off", "serving", "shutting"}
    /\ grpc \in {"off", "serving", "draining", "stopped"}
    /\ pool \in {"none", "open", "closed"}
    /\ sent \in [Call -> HttpRequest \cup RpcRequest \cup {None}]
    /\ front \in [Call -> {"none", "reading", "sending", "waiting", "writing"}]
    /\ back \in [Call -> {"none", "reading", "running"}]
    /\ message \in [Call -> RpcRequest \cup {None}]
    /\ answer \in [Call -> Outcome \cup {None}]
    /\ inflight = Cardinality({r \in Call : back[r] = "running"})
    /\ job \in [Jobs -> {"none", "running", "done", "failed", "lost"}]
    /\ \A r \in Call :
          IF sent[r] = None THEN r \notin HttpActive \cup RpcActive /\ answer[r] = None
          ELSE r \in HttpActive \cup RpcActive \/ answer[r] # None

(* GracefulStop comes before Close: whatever clients do, no RPC that the   *)
(* server admitted finds the pool closed or the process gone, even one     *)
(* whose HTTP client has left or whose HTTP request outlived the deadline. *)
NoRpcWithoutPool ==
    main # "exited" => \A r \in RpcActive : pool = "open" /\ main \notin {"close", "return"}

(* A stop makes HTTP requests suffer only if the ten seconds run out: those *)
(* that arrived are answered before the gRPC server stops taking the RPCs  *)
(* they become.                                                            *)
OnlyLateRequestsSuffer ==
    /\ ~expired /\ main \in {"grpc", "close", "return"} => HttpActive = {}
    /\ \A r \in Call : answer[r] = "Unavailable" => expired \/ ~listening

(* What an HTTP request is about is decided by its path, whatever its body *)
(* says: an upsert never changes a document other than the one of its URL. *)
PathDecides ==
    \A r \in Call :
        message[r] # None /\ sent[r] \in HttpRequest /\ "path" \in sent[r].route.parts =>
            message[r].id = sent[r].path_id

(* A stop that was asked for ends, unless an RPC never does: neither slow  *)
(* HTTP clients nor background goroutines can hold it up.                  *)
ShutdownEnds ==
    (signal ~> main = "exited") \/ <>[](RpcActive # {})
-----------------------------------------------------------------------------
(***************************************************************************)
(* What the documentation says and the code does not do.                   *)
(***************************************************************************)
(* docs/api-reference/health.mdx:75: "The readiness probe returns          *)
(* `NOT_SERVING` when the database is unreachable."                        *)
ProbeSeesDatabase ==
    [][\A r \in Call :
          sent[r] \in HttpRequest /\ answer[r] # answer'[r] =>
              (sent[r].route.path = "/health/ready" /\ answer'[r] = "SERVING" =>
                  PoolAnswers)]_vars
=============================================================================
