---------------------------- MODULE ServerProofs ----------------------------
(***************************************************************************)
(* Proofs about one life of the process, for any number of calls.  The     *)
(* argument relates three things: where main() is and what the two servers *)
(* and the pool then are (ProcessOK), what the gateway and the gRPC server *)
(* know of a call (CallOK), and which calls may be active where main() is  *)
(* (Linked).                                                               *)
(***************************************************************************)
EXTENDS Server, FiniteSetTheorems, TLAPS

ProcessOK ==
    /\ main \in Places
    /\ {signal, expired, listening, reachable} \subseteq BOOLEAN
    /\ pool \in {"none", "open", "closed"}
    /\ job \in [Jobs -> {"none", "running", "done", "failed", "lost"}]
    /\ main = "connect" => pool = "none"
    /\ main \in {"listen", "serve", "run", "http", "grpc", "close"} => pool = "open"
    /\ http = CASE main \in {"connect", "listen", "serve", "exited"} -> "off"
                [] main = "run" -> "serving"
                [] main \in {"http", "grpc", "close", "return"} -> "shutting"
    /\ grpc = CASE main \in {"connect", "listen", "exited"} -> "off"
                [] main \in {"serve", "run", "http"} -> "serving"
                [] main = "grpc" -> "draining"
                [] main \in {"close", "return"} -> "stopped"

CallTyped ==
    /\ sent \in [Call -> HttpRequest \cup RpcRequest \cup {None}]
    /\ front \in [Call -> {"none", "reading", "sending", "waiting", "writing"}]
    /\ back \in [Call -> {"none", "reading", "running"}]
    /\ message \in [Call -> RpcRequest \cup {None}]
    /\ answer \in [Call -> Outcome \cup {None}]

CallOK(r) ==
    /\ front[r] # "none" => sent[r] \in HttpRequest
    /\ back[r] # "none" \/ message[r] # None \/ answer[r] # None => sent[r] # None
    /\ sent[r] # None => front[r] # "none" \/ back[r] # "none" \/ answer[r] # None
    /\ front[r] = "writing" => answer[r] # None
    /\ front[r] \in {"reading", "sending"} => back[r] = "none"
    /\ back[r] = "running" => message[r] # None
    /\ sent[r] \in HttpRequest /\ (front[r] = "sending" \/ back[r] # "none") =>
           message[r] # None
    /\ sent[r] \in HttpRequest /\ message[r] # None => message[r] = Translate(sent[r])

Linked ==
    /\ main \in {"connect", "listen"} => \A r \in Call : sent[r] = None
    /\ main \in {"close", "return"} => RpcActive = {}
    /\ ~expired /\ main \in {"grpc", "close", "return"} => HttpActive = {}
    /\ \A r \in Call : answer[r] = "Unavailable" => expired \/ ~listening

Running == {r \in Call : back[r] = "running"}

Inv ==
    /\ ProcessOK
    /\ CallTyped
    /\ \A r \in Call : CallOK(r)
    /\ Linked
    /\ inflight = Cardinality(Running)
-----------------------------------------------------------------------------
(* The gateway.                                                            *)
LEMMA RouteParts ==
    \A route \in Routes :
        /\ route.parts \in {{"body"}, {"path"}, {"query"}, {"body", "path"}}
        /\ "path" \in route.parts => HasId(route.method)
        /\ route.method \in Methods
<1> SUFFICES ASSUME NEW route \in Routes
             PROVE  /\ route.parts \in {{"body"}, {"path"}, {"query"}, {"body", "path"}}
                    /\ "path" \in route.parts => HasId(route.method)
                    /\ route.method \in Methods
  OBVIOUS
<1>1. route.method \in Methods
  BY DEF Methods
<1> DEFINE Fine(r) ==
      /\ r.parts \in {{"body"}, {"path"}, {"query"}, {"body", "path"}}
      /\ "path" \in r.parts => HasId(r.method)
<1>2. \A verb, path, method :
         Fine(Route(verb, path, method, {"body"})) /\ Fine(Route(verb, path, method, {"query"}))
  BY DEF Route
<1>3. \A verb, path, method :
         HasId(method) => /\ Fine(Route(verb, path, method, {"path"}))
                          /\ Fine(Route(verb, path, method, {"body", "path"}))
  BY DEF Route
<1> HIDE DEF Fine
<1>8. /\ HasId("UpsertDocument") /\ HasId("ListDocument") /\ HasId("DeleteDocument")
      /\ HasId("ListCollection") /\ HasId("DeleteCollection")
  BY DEF HasId
<1>4. ASSUME route \in DocumentRoutes PROVE Fine(route)
  BY <1>2, <1>3, <1>4, <1>8 DEF DocumentRoutes
<1>5. ASSUME route \in CollectionRoutes PROVE Fine(route)
  BY <1>2, <1>3, <1>5, <1>8 DEF CollectionRoutes
<1>6. ASSUME route \in HealthRoutes PROVE Fine(route)
  BY <1>2, <1>6 DEF HealthRoutes
<1> QED  BY <1>1, <1>4, <1>5, <1>6 DEF Routes, Fine

LEMMA MessageType ==
    ASSUME NEW method \in Methods, NEW id \in Id \cup {None}, NEW service \in Services,
           id # None => HasId(method), service # "" => method = "Check"
    PROVE  [method |-> method, id |-> id, service |-> service] \in RpcRequest
BY DEF RpcRequest

(* A path parameter becomes the id of the message.                         *)
LEMMA TranslateType ==
    ASSUME NEW h \in HttpRequest
    PROVE  /\ Translate(h) \in RpcRequest
           /\ "path" \in h.route.parts => Translate(h).id = h.path_id
<1>1. /\ h.route \in Routes /\ h.path_id \in Id \cup {None} /\ h.body_id \in Id \cup {None}
      /\ h.service \in Services
      /\ "path" \in h.route.parts <=> h.path_id # None
      /\ h.body_id # None => "body" \in h.route.parts /\ HasId(h.route.method)
      /\ h.service # "" => h.route.method = "Check"
  BY DEF HttpRequest
<1>2. /\ h.route.method \in Methods
      /\ "path" \in h.route.parts => HasId(h.route.method)
  BY <1>1, RouteParts
<1> DEFINE both == {"body", "path"}
<1>0. "path" \notin {"body"} /\ "path" \notin {"query"}
  OBVIOUS
<1>7. /\ {"path"} # {"body"} /\ {"query"} # {"body"} /\ both # {"body"}
      /\ {"query"} # {"path"} /\ both # {"path"} /\ both # {"query"}
  OBVIOUS
<1>3. CASE h.route.parts = {"body"}
  <2>1. Translate(h) = FromBody(h)
    BY <1>3 DEF Translate
  <2>2. "path" \in h.route.parts => Translate(h).id = h.path_id
    BY <1>0, <1>3
  <2> QED  BY <1>1, <1>2, <1>3, <2>1, <2>2, MessageType DEF FromBody, Message, Services
<1>4. CASE h.route.parts = {"path"}
  <2>1. Translate(h) = FromPath(h)
    BY <1>4, <1>7 DEF Translate
  <2>2. FromPath(h).id = h.path_id
    BY DEF FromPath, Message
  <2> QED  BY <1>1, <1>2, <1>4, <2>1, <2>2, MessageType DEF FromPath, Message, Services
<1>5. CASE h.route.parts = {"query"}
  <2>1. Translate(h) = FromQuery(h)
    BY <1>5, <1>7 DEF Translate
  <2>2. "path" \in h.route.parts => Translate(h).id = h.path_id
    BY <1>0, <1>5
  <2> QED  BY <1>1, <1>2, <1>5, <2>1, <2>2, MessageType DEF FromQuery, Message, Services
<1>6. CASE h.route.parts = {"body", "path"}
  <2>1. Translate(h) = FromBodyAndPath(h)
    BY <1>6, <1>7 DEF Translate
  <2> QED
    BY <1>1, <1>2, <1>6, <2>1 DEF FromBodyAndPath, FromBody, Message, RpcRequest, Services
<1> QED  BY <1>1, <1>3, <1>4, <1>5, <1>6, RouteParts

LEMMA RequestsDiffer == \A m \in RpcRequest : m \notin HttpRequest
BY DEF RpcRequest, HttpRequest

LEMMA InitInv == Init => Inv
<1> SUFFICES ASSUME Init PROVE Inv
  OBVIOUS
<1>1. None # "Unavailable"
  BY OutcomeAssumption DEF Outcome
<1>2. Running = {} /\ Cardinality({}) = 0
  BY FS_EmptySet DEF Running, Init
<1> QED
  BY <1>1, <1>2, ServerAssumption
  DEF Init, Inv, ProcessOK, CallTyped, CallOK, Linked, Places, Jobs
-----------------------------------------------------------------------------
(* main() goes on, or something happens to the process.                    *)
LEMMA ProcessInv ==
    ASSUME Inv, Main \/ ServeFails \/ Die \/ Interrupt \/ Outage \/ \E j \in Jobs : JobEnds(j)
    PROVE  Inv'
<1> USE DEF Inv
<1>1. UNCHANGED callVars
  BY DEF Main, Connect, Listen, ServeHttp, TakeSignal, HttpDrained, HttpTimesOut, GrpcDrained,
         ClosePool, Return, ServeFails, Die, Interrupt, Outage, JobEnds, processVars
<1>2. CallTyped' /\ (\A r \in Call : CallOK(r)') /\ Running' = Running
      /\ HttpActive' = HttpActive /\ RpcActive' = RpcActive
  BY <1>1 DEF callVars, CallTyped, CallOK, Running, HttpActive, RpcActive
<1>3. ProcessOK' /\ Linked'
  <2> USE <1>1, <1>2 DEF ProcessOK, Linked, Places, callVars
  <2>1. CASE Connect
    BY <2>1 DEF Connect, Exit
  <2>2. CASE Listen
    BY <2>2 DEF Listen, Exit
  <2>3. CASE ServeHttp
    BY <2>3 DEF ServeHttp
  <2>4. CASE TakeSignal
    BY <2>4 DEF TakeSignal
  <2>5. CASE HttpDrained
    BY <2>5 DEF HttpDrained
  <2>6. CASE HttpTimesOut
    BY <2>6 DEF HttpTimesOut
  <2>7. CASE GrpcDrained
    BY <2>7 DEF GrpcDrained
  <2>8. CASE ClosePool
    BY <2>8 DEF ClosePool
  <2>9. CASE Return
    BY <2>9 DEF Return, Exit
  <2>10. CASE ServeFails
    BY <2>10 DEF ServeFails
  <2>11. CASE Die
    BY <2>11 DEF Die, Exit
  <2>12. CASE Interrupt
    BY <2>12 DEF Interrupt
  <2>13. CASE Outage
    BY <2>13 DEF Outage
  <2>14. CASE \E j \in Jobs : JobEnds(j)
    BY <2>14 DEF JobEnds, processVars
  <2> QED
    BY <2>1, <2>2, <2>3, <2>4, <2>5, <2>6, <2>7, <2>8, <2>9, <2>10, <2>11, <2>12, <2>13,
       <2>14 DEF Main
<1>4. inflight' = Cardinality(Running)'
  BY <1>1, <1>2 DEF callVars
<1> QED  BY <1>2, <1>3, <1>4

LEMMA Counting ==
    ASSUME Inv
    PROVE  /\ IsFiniteSet(Running)
           /\ \A r \in Call \ Running : Cardinality(Running \cup {r}) = inflight + 1
           /\ \A r \in Running : Cardinality(Running \ {r}) = inflight - 1
<1>1. IsFiniteSet(Running)
  BY ServerAssumption, FS_Subset DEF Running
<1> QED  BY <1>1, FS_AddElement, FS_RemoveElement DEF Inv

(* One step of a call, of the gateway, of the gRPC server or of a client.  *)
LEMMA CallInv ==
    ASSUME Inv, NEW r \in Call, Step(r)
    PROVE  Inv'
<1> USE DEF Inv
<1>1. UNCHANGED processVars
  BY DEF Step, AcceptHttp, DecodeHttp, SendRpc, AcceptRpc, Dispatch, Reset, Finish, GiveUp,
         WriteResponse
<1>2. ProcessOK'
  <2>1. UNCHANGED job \/ job' = [job EXCEPT ![r] = "running"]
    BY DEF Step, AcceptHttp, DecodeHttp, SendRpc, AcceptRpc, Dispatch, Reset, Finish, GiveUp,
           WriteResponse
  <2> QED  BY <1>1, <2>1 DEF ProcessOK, processVars
<1>3. ASSUME CallTyped', \A q \in Call : CallOK(q)', Linked', inflight' = Cardinality(Running)'
      PROVE  Inv'
  BY <1>2, <1>3
<1>4. CASE AcceptHttp(r)
  <2>1. PICK h \in Sent \cap HttpRequest : sent' = [sent EXCEPT ![r] = h]
    BY <1>4 DEF AcceptHttp
  <2>2. h # None
    BY ServerAssumption
  <2>3. CallTyped'
    BY <1>4, <2>1 DEF AcceptHttp, CallTyped
  <2>4. \A q \in Call : CallOK(q)'
    BY <1>4, <2>1, <2>2 DEF AcceptHttp, CallTyped, CallOK
  <2>5. Linked'
    BY <1>1, <1>4 DEF AcceptHttp, processVars, ProcessOK, Linked, RpcActive, Places
  <2>6. inflight' = Cardinality(Running)'
    BY <1>4 DEF AcceptHttp, Running
  <2> QED  BY <1>3, <2>3, <2>4, <2>5, <2>6
<1>5. CASE DecodeHttp(r)
  <2>1. /\ sent[r] \in HttpRequest /\ sent[r] # None
        /\ Translate(sent[r]) \in RpcRequest /\ Translate(sent[r]) # None
    BY <1>5, TranslateType, ServerAssumption DEF DecodeHttp, CallOK
  <2>2. "InvalidArgument" \in Outcome /\ "InvalidArgument" # None
    BY OutcomeAssumption DEF Outcome
  <2>3. CallTyped'
    BY <1>5, <2>1, <2>2 DEF DecodeHttp, CallTyped
  <2>4. \A q \in Call : CallOK(q)'
    BY <1>5, <2>1, <2>2 DEF DecodeHttp, CallTyped, CallOK
  <2>5. Linked'
    BY <1>1, <1>5, <2>1 DEF DecodeHttp, CallTyped, processVars, Linked, RpcActive, HttpActive
  <2>6. inflight' = Cardinality(Running)'
    BY <1>5 DEF DecodeHttp, Running
  <2> QED  BY <1>3, <2>3, <2>4, <2>5, <2>6
<1>6. CASE SendRpc(r)
  <2>1. sent[r] \in HttpRequest /\ sent[r] # None
    BY <1>6, ServerAssumption DEF SendRpc, CallOK
  <2>2. "Unavailable" \in Outcome /\ "Unavailable" # None
    BY OutcomeAssumption DEF Outcome
  <2>3. CallTyped'
    BY <1>6, <2>1, <2>2 DEF SendRpc, CallTyped
  <2>4. \A q \in Call : CallOK(q)'
    BY <1>6, <2>1, <2>2 DEF SendRpc, CallTyped, CallOK
  <2>5. r \in HttpActive
    BY <1>6 DEF SendRpc, HttpActive
  <2>6. Linked'
    <3>1. CASE grpc = "serving" /\ back' = [back EXCEPT ![r] = "reading"] /\ UNCHANGED answer
      BY <1>1, <1>6, <2>1, <2>5, <3>1 DEF SendRpc, processVars, ProcessOK, Places, Linked
    <3>2. CASE ~(grpc = "serving" /\ listening) /\ UNCHANGED back
      <4>1. expired \/ ~listening
        BY <1>6, <2>1, <2>5, <3>2 DEF SendRpc, ProcessOK, Places, Linked
      <4> QED
        BY <1>1, <1>6, <2>1, <2>5, <3>2, <4>1 DEF SendRpc, processVars, Linked, RpcActive
    <3> QED  BY <1>6, <3>1, <3>2 DEF SendRpc
  <2>7. inflight' = Cardinality(Running)'
    <3>1. Running' = Running
      BY <1>6, <2>1 DEF SendRpc, Running, CallTyped, CallOK
    <3> QED  BY <1>6, <3>1 DEF SendRpc
  <2> QED  BY <1>3, <2>3, <2>4, <2>6, <2>7
<1>7. CASE AcceptRpc(r)
  <2>1. PICK m \in Sent \cap RpcRequest : sent' = [sent EXCEPT ![r] = m]
    BY <1>7 DEF AcceptRpc
  <2>2. m # None /\ m \notin HttpRequest
    BY ServerAssumption, RequestsDiffer
  <2>3. CallTyped'
    BY <1>7, <2>1 DEF AcceptRpc, CallTyped
  <2>4. \A q \in Call : CallOK(q)'
    BY <1>7, <2>1, <2>2, ServerAssumption DEF AcceptRpc, CallTyped, CallOK
  <2>5. Linked'
    BY <1>1, <1>7 DEF AcceptRpc, processVars, ProcessOK, Linked, HttpActive, Places
  <2>6. Running' = Running
    BY <1>7 DEF AcceptRpc, Running, CallTyped, CallOK
  <2> QED  BY <1>3, <1>7, <2>3, <2>4, <2>5, <2>6 DEF AcceptRpc
<1>8. CASE Dispatch(r)
  <2>1. sent[r] # None /\ (sent[r] \in HttpRequest => message[r] # None)
    BY <1>8 DEF Dispatch, CallOK
  <2>2. CallTyped'
    BY <1>8, <2>1 DEF Dispatch, CallTyped
  <2>3. \A q \in Call : CallOK(q)'
    BY <1>8, <2>1 DEF Dispatch, CallTyped, CallOK
  <2>4. r \in RpcActive
    BY <1>8 DEF Dispatch, RpcActive
  <2>5. Linked'
    BY <1>1, <1>8, <2>1, <2>4 DEF Dispatch, processVars, Linked, HttpActive
  <2>6. Running' = Running \cup {r} /\ r \notin Running
    BY <1>8 DEF Dispatch, Running, CallTyped
  <2> QED  BY <1>3, <1>8, <2>2, <2>3, <2>5, <2>6, Counting DEF Dispatch
<1>9. ASSUME NEW outcome \in Outcome, outcome # "Unavailable", Reply(r, outcome), back[r] # "none",
             UNCHANGED <<sent, message>>
      PROVE  CallTyped' /\ (\A q \in Call : CallOK(q)') /\ Linked'
  <2>1. outcome # None /\ sent[r] # None
    BY <1>9, OutcomeAssumption DEF CallOK
  <2>2. CallTyped'
    BY <1>9, <2>1 DEF Reply, CallTyped
  <2>3. \A q \in Call : CallOK(q)'
    BY <1>9, <2>1 DEF Reply, CallTyped, CallOK
  <2>4. RpcActive' \subseteq RpcActive /\ (HttpActive = {} => HttpActive' = {})
    BY <1>9 DEF Reply, CallTyped, RpcActive, HttpActive
  <2>5. Linked'
    BY <1>1, <1>9, <2>4 DEF Reply, CallTyped, processVars, Linked
  <2> QED  BY <2>2, <2>3, <2>5
<1>10. CASE Reset(r)
  <2>1. CallTyped' /\ (\A q \in Call : CallOK(q)') /\ Linked'
    BY <1>9, <1>10 DEF Reset, Outcome
  <2>2. Running' = Running
    BY <1>10 DEF Reset, Reply, Running, CallTyped
  <2> QED  BY <1>3, <1>10, <2>1, <2>2 DEF Reset
<1>11. CASE Finish(r)
  <2>1. PICK outcome \in Outcomes(message[r]) : Reply(r, outcome)
    BY <1>11 DEF Finish
  <2>2. outcome \in Outcome /\ outcome # "Unavailable"
    BY DEF Outcomes, CheckOutcome, Outcome
  <2>3. CallTyped' /\ (\A q \in Call : CallOK(q)') /\ Linked'
    BY <1>9, <1>11, <2>1, <2>2 DEF Finish
  <2>4. Running' = Running \ {r} /\ r \in Running
    BY <1>11, <2>1 DEF Finish, Reply, Running, CallTyped
  <2> QED  BY <1>3, <1>11, <2>3, <2>4, Counting DEF Finish
<1>12. CASE GiveUp(r)
  <2>1. "Internal" \in Outcome /\ "Internal" # None
    BY OutcomeAssumption DEF Outcome
  <2>2. CallTyped'
    BY <1>12, <2>1 DEF GiveUp, CallTyped
  <2>3. \A q \in Call : CallOK(q)'
    BY <1>12, <2>1, ServerAssumption DEF GiveUp, CallTyped, CallOK
  <2>4. Linked'
    BY <1>1, <1>12 DEF GiveUp, CallTyped, processVars, Linked, RpcActive, HttpActive
  <2>5. Running' = Running
    BY <1>12 DEF GiveUp, Running
  <2> QED  BY <1>3, <1>12, <2>2, <2>3, <2>4, <2>5 DEF GiveUp
<1>13. CASE WriteResponse(r)
  <2>1. CallTyped'
    BY <1>13 DEF WriteResponse, CallTyped
  <2>2. \A q \in Call : CallOK(q)'
    BY <1>13 DEF WriteResponse, CallTyped, CallOK
  <2>3. Linked'
    BY <1>1, <1>13 DEF WriteResponse, CallTyped, processVars, Linked, RpcActive, HttpActive
  <2>4. Running' = Running
    BY <1>13 DEF WriteResponse, Running
  <2> QED  BY <1>3, <1>13, <2>1, <2>2, <2>3, <2>4 DEF WriteResponse
<1> QED
  BY <1>4, <1>5, <1>6, <1>7, <1>8, <1>10, <1>11, <1>12, <1>13 DEF Step

LEMMA NextInv == Inv /\ [Next]_vars => Inv'
<1> SUFFICES ASSUME Inv, [Next]_vars PROVE Inv'
  OBVIOUS
<1>1. CASE UNCHANGED vars
  BY <1>1 DEF Inv, vars, processVars, callVars, ProcessOK, CallTyped, CallOK, Linked, Running,
              HttpActive, RpcActive
<1> QED  BY <1>1, ProcessInv, CallInv DEF Next

LEMMA Invariant == Spec => []Inv
BY InitInv, NextInv, PTL DEF Spec
-----------------------------------------------------------------------------
(* Every call is worked on or answered, and the gauge of RPCs in flight    *)
(* counts the handlers that run, for any number of calls.                  *)
THEOREM ServerTypeOK == Spec => []TypeOK
<1>1. Inv => TypeOK
  <2> SUFFICES ASSUME Inv PROVE TypeOK
    OBVIOUS
  <2>1. main \in Places /\ http \in {"off", "serving", "shutting"}
        /\ grpc \in {"off", "serving", "draining", "stopped"}
    BY DEF Inv, ProcessOK, Places
  <2>2. \A r \in Call :
           IF sent[r] = None THEN r \notin HttpActive \cup RpcActive /\ answer[r] = None
           ELSE r \in HttpActive \cup RpcActive \/ answer[r] # None
    BY ServerAssumption DEF Inv, CallOK, HttpActive, RpcActive
  <2> QED  BY <2>1, <2>2 DEF TypeOK, Inv, ProcessOK, CallTyped, Running
<1> QED  BY <1>1, Invariant, PTL

(* No RPC finds the pool closed, whatever clients and signals do when.     *)
THEOREM ServerNoRpcWithoutPool == Spec => []NoRpcWithoutPool
<1>1. Inv => NoRpcWithoutPool
  BY DEF Inv, ProcessOK, Places, CallOK, Linked, RpcActive, NoRpcWithoutPool
<1> QED  BY <1>1, Invariant, PTL

(* Without a timeout, the shutdown of the HTTP server leaves no request    *)
(* that the gRPC server would then refuse.                                 *)
THEOREM ServerOnlyLateRequestsSuffer == Spec => []OnlyLateRequestsSuffer
<1>1. Inv => OnlyLateRequestsSuffer
  BY DEF Inv, Linked, OnlyLateRequestsSuffer
<1> QED  BY <1>1, Invariant, PTL

(* The id in the path of a request is the id in the message of its RPC,    *)
(* for every route that has one.                                           *)
THEOREM ServerPathDecides == Spec => []PathDecides
<1>1. Inv => PathDecides
  BY TranslateType DEF Inv, CallOK, PathDecides
<1> QED  BY <1>1, Invariant, PTL
=============================================================================
