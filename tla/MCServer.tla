------------------------------ MODULE MCServer ------------------------------
(* Instances of Server for TLC.                                            *)
EXTENDS Server, TLC

CONSTANTS r1, r2, d1, d2

(* An upsert whose body may contradict its path, a call that leaves a job   *)
(* behind, and the readiness probe over HTTP and gRPC.                     *)
MCSent ==
    {h \in HttpRequest :
        \/ h.route.method = "UpsertDocument" /\ h.path_id = d1 /\ h.body_id \in {None, d2}
        \/ h.route.path = "/health/ready" /\ h.service = ""}
    \cup {m \in RpcRequest : m.method = "CreateCollection" \/ m.service = "readiness"}
=============================================================================
