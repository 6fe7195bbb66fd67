------------------------------- MODULE Gateway ------------------------------
(***************************************************************************)
(* The HTTP gateway (api/proto/v1/generated/*.pb.gw.go): which RPC an HTTP *)
(* request becomes and from which parts of the request the fields of its   *)
(* message are taken.  Of the fields only those matter here that a path or *)
(* a query may fill: the id of a document or a collection, and the service *)
(* that a health check asks about.                                         *)
(***************************************************************************)
CONSTANTS
    Id,     \* ids of collections and documents
    None    \* a field that is not given

Verb == {"GET", "POST", "PUT", "DELETE"}

(* Where the fields of a message may come from.                            *)
Part == {"body", "path", "query"}

Route(verb, path, method, parts) ==
    [verb |-> verb, path |-> path, method |-> method, parts |-> parts]

DocumentRoutes ==
    {Route("POST", "/api/v1/documents", "CreateDocument", {"body"}),
     Route("POST", "/api/v1/documents/ingest", "IngestDocument", {"body"}),
     Route("PUT", "/api/v1/documents/{id}", "UpsertDocument", {"body", "path"}),
     Route("GET", "/api/v1/documents/{id}", "ListDocument", {"path"}),
     Route("GET", "/api/v1/documents", "ListDocuments", {"query"}),
     Route("DELETE", "/api/v1/documents/{id}", "DeleteDocument", {"path"}),
     Route("POST", "/api/v1/documents/search", "SearchDocuments", {"body"}),
     Route("POST", "/api/v1/documents/text-search", "FullTextSearch", {"body"}),
     Route("POST", "/api/v1/documents/batch", "BatchInsert", {"body"}),
     Route("POST", "/api/v1/documents/batch-delete", "BatchDelete", {"body"}),
     Route("POST", "/api/v1/documents/hybrid-search", "HybridSearch", {"body"})}

CollectionRoutes ==
    {Route("POST", "/api/v1/collections", "CreateCollection", {"body"}),
     Route("GET", "/api/v1/collections/{id}", "ListCollection", {"path"}),
     Route("GET", "/api/v1/collections", "ListCollections", {"query"}),
     Route("DELETE", "/api/v1/collections/{id}", "DeleteCollection", {"path"})}

HealthRoutes ==
    {Route("GET", "/health/live", "Check", {"query"}),
     Route("GET", "/health/ready", "Check", {"query"})}

Routes == DocumentRoutes \cup CollectionRoutes \cup HealthRoutes

Methods == {route.method : route \in Routes}

HasId(method) ==
    method \in {"UpsertDocument", "ListDocument", "DeleteDocument",
                "ListCollection", "DeleteCollection"}

Services == {"", "readiness"}

(* A request as it arrives: a path has an id where its route says so, and  *)
(* a body may name an id as well.                                          *)
HttpRequest ==
    {h \in [route : Routes, path_id : Id \cup {None}, body_id : Id \cup {None},
            service : Services] :
        /\ "path" \in h.route.parts <=> h.path_id # None
        /\ h.body_id # None => "body" \in h.route.parts /\ HasId(h.route.method)
        /\ h.service # "" => h.route.method = "Check"}

RpcRequest ==
    {m \in [method : Methods, id : Id \cup {None}, service : Services] :
        /\ m.id # None => HasId(m.method)
        /\ m.service # "" => m.method = "Check"}

Message(h, id, service) == [method |-> h.route.method, id |-> id, service |-> service]

FromBody(h) == Message(h, h.body_id, "")

FromPath(h) == Message(h, h.path_id, "")

FromQuery(h) == Message(h, None, h.service)

(* Variant: the body is decoded over the path parameter.                   *)
FromBodyAfterPath(h) == Message(h, IF h.body_id # None THEN h.body_id ELSE h.path_id, "")

(* The body is decoded first, the path parameter set over what it said.    *)
FromBodyAndPath(h) == [FromBody(h) EXCEPT !.id = h.path_id]

Translate(h) ==
    CASE h.route.parts = {"body"} -> FromBody(h)
      [] h.route.parts = {"path"} -> FromPath(h)
      [] h.route.parts = {"query"} -> FromQuery(h)
      [] h.route.parts = {"body", "path"} -> FromBodyAndPath(h)
=============================================================================
