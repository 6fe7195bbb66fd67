----------------------------- MODULE VectorSync -----------------------------
(***************************************************************************)
(* The VectorSync server over its database: the gRPC handlers and services *)
(* that clients call (internal/grpc, internal/services), the collection    *)
(* cache they consult (internal/db/collection_cache.go) and the background *)
(* warm of that cache (cmd/vector-sync/main.go).                           *)
(*                                                                         *)
(* A request that looks a collection up takes several steps, and others    *)
(* interleave with it between any two: the lookup in the cache, the SELECT *)
(* on a miss, the fill of the cache, the call of the embedding provider,   *)
(* the statement.  Requests of a single statement (CreateCollection,       *)
(* DeleteCollection, DeleteDocument) are single steps.                     *)
(***************************************************************************)
EXTENDS Database, Sequences, Functions

CONSTANTS
    Rpc,        \* the requests that may be in flight at once
    Operation,  \* the operations that clients call
    BatchSize,  \* batchSize: the most documents a batch may hold
    MaxBatch    \* a bound on the vectors that one request or provider sends

Searches == {"SearchDocuments", "HybridSearchDocuments"}

Reads == Searches \cup {"ListDocuments", "FullTextSearchDocuments"}

Inserts == {"CreateDocument", "BatchInsert", "IngestDocument"}

Operations == Reads \cup Inserts \cup {"UpsertDocument", "BatchDelete"}

ASSUME OperationAssumption == Operation \subseteq Operations

ASSUME BatchAssumption == BatchSize \in Nat \ {0} /\ MaxBatch \in Nat

VARIABLES
    cache,     \* CollectionCache.cache: the configuration of each collection, or None
    warm,      \* where WarmFromDB is; it holds the cache's mutex while "locked"
    warmRows,  \* the rows of its SELECT that it has not stored yet
    pc,        \* what each request does next, or how it was answered
    req,       \* the request itself, while it is in flight
    row        \* the configuration read on a cache miss and not yet stored

serviceVars == <<cache, warm, warmRows, pc, req, row>>

vars == <<collections, documents, issued, cache, warm, warmRows, pc, req, row>>

Answers == {"ok", "failed"}

Places == {"idle", "lookup", "load", "fill", "embed", "statement"} \cup Answers

Active(r) == pc[r] \notin {"idle"} \cup Answers

Nothing == [c \in CollectionId |-> None]

Init ==
    /\ DbInit
    /\ cache = Nothing
    /\ warm = "start"
    /\ warmRows = Nothing
    /\ pc = [r \in Rpc |-> "idle"]
    /\ req = [r \in Rpc |-> None]
    /\ row = [r \in Rpc |-> None]
-----------------------------------------------------------------------------
(***************************************************************************)
(* Requests.  "goal" is what the next lookup of the collection is for: an  *)
(* ingest looks its collection up three times, once for the provider, once *)
(* for the dimension of the embeddings and once inside BatchInsert.        *)
(***************************************************************************)
Goals == {"provider", "dimension", "statement"}

Batches == UNION {[1..n -> VectorLength] : n \in 0..MaxBatch}

OneVector == [1..1 -> VectorLength]

NoVector == {<< >>}

Vectors == Batches \cup OneVector

Request ==
    [op : Operations, collection_id : CollectionId, vectors : Vectors,
     ids : SUBSET DocumentId, goal : Goals]

ASSUME RequestAssumption == None \notin Request

Ask(op, vectors, ids, goal) ==
    [op : {op} \cap Operation, collection_id : CollectionId,
     vectors : vectors, ids : ids, goal : {goal}]

(* The requests the handlers take, one definition for each handler.        *)
CreateDocument == Ask("CreateDocument", OneVector, {{}}, "statement")

UpsertDocumentById ==
    Ask("UpsertDocument", OneVector, {{d} : d \in DocumentId}, "statement")

BatchInsert == Ask("BatchInsert", Batches, {{}}, "statement")

IngestDocument == Ask("IngestDocument", NoVector, {{}}, "provider")

BatchDelete == Ask("BatchDelete", NoVector, SUBSET DocumentId, "statement")

ListDocuments == Ask("ListDocuments", NoVector, {{}}, "statement")

FullTextSearch == Ask("FullTextSearchDocuments", NoVector, {{}}, "statement")

SearchDocuments == Ask("SearchDocuments", OneVector, {{}}, "statement")

HybridSearch == Ask("HybridSearchDocuments", OneVector, {{}}, "statement")

ClientRequest ==
    CreateDocument \cup UpsertDocumentById \cup BatchInsert \cup IngestDocument
        \cup BatchDelete \cup ListDocuments \cup FullTextSearch
        \cup SearchDocuments \cup HybridSearch

(* The checks of a handler before it looks the collection up.              *)
WellFormed(q) ==
    /\ q.op \in {"CreateDocument", "UpsertDocument", "SearchDocuments"} => q.vectors[1] > 0
    /\ q.op = "BatchInsert" => Len(q.vectors) \in 1..BatchSize
    /\ q.op = "BatchDelete" => Cardinality(q.ids) \in 1..BatchSize

(* Variant: inserts and searches do not check.                             *)
FitsOnlyOnUpsert(q, dimension) ==
    q.op = "UpsertDocument" => \A i \in DOMAIN q.vectors : q.vectors[i] = dimension

(* The checks of its vectors once it knows the collection's dimension.     *)
Fits(q, dimension) ==
    /\ q.op \in Inserts \cup {"UpsertDocument", "SearchDocuments"} =>
           \A i \in DOMAIN q.vectors : q.vectors[i] = dimension
    /\ q.op = "HybridSearchDocuments" =>
           \A i \in DOMAIN q.vectors : q.vectors[i] \in {0, dimension}

(* Variant: only the first embedding of an ingest is ever checked.         *)
AcceptsFirstEmbedding(q, config) ==
    \/ q.goal = "provider" /\ config.provider # ""
    \/ q.goal = "dimension" /\ Len(q.vectors) <= BatchSize
    \/ q.goal = "statement" /\ (q.op = "IngestDocument" => q.vectors[1] = config.dimension)
                            /\ (q.op # "IngestDocument" => Fits(q, config.dimension))

(* What the request checks in the configuration it looked up.  For the     *)
(* embeddings of an ingest only the first is checked here, and the limit   *)
(* of BatchInsert before BatchInsert looks the collection up again.        *)
Accepts(q, config) ==
    \/ q.goal = "provider" /\ config.provider # ""
    \/ /\ q.goal = "dimension"
       /\ q.vectors[1] = config.dimension
       /\ Len(q.vectors) <= BatchSize
    \/ q.goal = "statement" /\ Fits(q, config.dimension)

(* Variant: the request is not let go of.                                  *)
AnswerKeepingRequest(r, outcome) ==
    /\ pc' = [pc EXCEPT ![r] = outcome]
    /\ row' = [row EXCEPT ![r] = None]
    /\ UNCHANGED req

Answer(r, outcome) ==
    /\ pc' = [pc EXCEPT ![r] = outcome]
    /\ req' = [req EXCEPT ![r] = None]
    /\ row' = [row EXCEPT ![r] = None]

(* The handler goes on with the configuration of its collection.           *)
Continue(r, config) ==
    \/ /\ ~Accepts(req[r], config)
       /\ Answer(r, "failed")
    \/ /\ Accepts(req[r], config)
       /\ \/ /\ req[r].goal = "provider"
             /\ pc' = [pc EXCEPT ![r] = "embed"]
             /\ req' = [req EXCEPT ![r].goal = "dimension"]
          \/ /\ req[r].goal = "dimension"
             /\ pc' = [pc EXCEPT ![r] = "lookup"]
             /\ req' = [req EXCEPT ![r].goal = "statement"]
          \/ /\ req[r].goal = "statement"
             /\ pc' = [pc EXCEPT ![r] = "statement"]
             /\ UNCHANGED req
       /\ row' = [row EXCEPT ![r] = None]
-----------------------------------------------------------------------------
(* A client calls an operation.                                            *)
Begin(r) ==
    /\ ~Active(r)
    /\ \E q \in ClientRequest :
          \/ /\ WellFormed(q)
             /\ pc' = [pc EXCEPT ![r] = "lookup"]
             /\ req' = [req EXCEPT ![r] = q]
          \/ /\ ~WellFormed(q)
             /\ pc' = [pc EXCEPT ![r] = "failed"]
             /\ UNCHANGED req
    /\ UNCHANGED <<dbVars, cache, warm, warmRows, row>>

MutexFree == warm # "locked"

(* GetInfo: on a hit the handler goes on, on a miss it asks the database.  *)
Lookup(r) ==
    /\ pc[r] = "lookup"
    /\ MutexFree
    /\ LET entry == cache[req[r].collection_id]
       IN  \/ /\ entry # None
              /\ Continue(r, entry)
           \/ /\ entry = None
              /\ pc' = [pc EXCEPT ![r] = "load"]
              /\ UNCHANGED <<req, row>>
    /\ UNCHANGED <<dbVars, cache, warm, warmRows>>

(* ListById: the row of the collection, or sql.ErrNoRows.                  *)
Load(r) ==
    /\ pc[r] = "load"
    /\ LET c == req[r].collection_id
       IN  \/ /\ Live(c)
              /\ pc' = [pc EXCEPT ![r] = "fill"]
              /\ row' = [row EXCEPT ![r] = collections[c].config]
              /\ UNCHANGED req
           \/ /\ ~Live(c)
              /\ Answer(r, "failed")
    /\ UNCHANGED <<dbVars, cache, warm, warmRows>>

(* CollectionCache.Insert, and the handler goes on.                        *)
Fill(r) ==
    /\ pc[r] = "fill"
    /\ MutexFree
    /\ cache' = [cache EXCEPT ![req[r].collection_id] = row[r]]
    /\ Continue(r, row[r])
    /\ UNCHANGED <<dbVars, warm, warmRows>>

(* GenerateEmbeddings: one vector per chunk, of lengths the provider       *)
(* chooses.  A text of no chunk is answered before the provider is called. *)
Embed(r) ==
    /\ pc[r] = "embed"
    /\ \/ \E embeddings \in Batches :
             /\ embeddings # << >>
             /\ pc' = [pc EXCEPT ![r] = "lookup"]
             /\ req' = [req EXCEPT ![r].vectors = embeddings]
             /\ UNCHANGED row
       \/ Answer(r, "ok")
    /\ UNCHANGED <<dbVars, cache, warm, warmRows>>

NewRow(q, i) == [collection_id |-> q.collection_id, vector_dims |-> q.vectors[i]]

(* The ways to give the vectors of a request new, distinct ids.            *)
NewRows(q) ==
    {[d \in Range(pick) |-> NewRow(q, CHOOSE i \in DOMAIN pick : pick[i] = d)] :
         pick \in Injection(DOMAIN q.vectors, Unused)}

(* Variant: the rows before one that fails stay.                           *)
InsertStatementInPart(q) ==
    /\ q.op \in Inserts
    /\ \E newRows \in NewRows(q) : \E S \in SUBSET DOMAIN newRows :
          InsertDocuments([d \in S |-> newRows[d]])

InsertStatement(q) ==
    /\ q.op \in Inserts
    /\ \E newRows \in NewRows(q) : InsertDocuments(newRows)

UpsertStatement(q) ==
    /\ q.op = "UpsertDocument"
    /\ \E d \in q.ids : UpsertDocument(d, NewRow(q, 1))

BatchDeleteStatement(q) ==
    /\ q.op = "BatchDelete"
    /\ DeleteDocuments(q.ids \cap DocumentsOf(q.collection_id))

ReadStatement(q) ==
    /\ q.op \in Reads
    /\ UNCHANGED dbVars

(* The statement of a request.  Once it has taken effect the caller may    *)
(* still see an error: the answer of the database, a Scan or the client's  *)
(* connection may fail.                                                    *)
Statement(r) ==
    /\ pc[r] = "statement"
    /\ \/ InsertStatement(req[r])
       \/ UpsertStatement(req[r])
       \/ BatchDeleteStatement(req[r])
       \/ ReadStatement(req[r])
    /\ \E outcome \in Answers : Answer(r, outcome)
    /\ UNCHANGED <<cache, warm, warmRows>>

(* Variant: what failed is tried again from the lookup.                    *)
FailTryingAgain(r) ==
    /\ pc[r] \in {"load", "embed", "statement"}
    /\ pc' = [pc EXCEPT ![r] = "lookup"]
    /\ UNCHANGED <<dbVars, cache, warm, warmRows, req, row>>

(* An error without effect: the database or the provider refuses or does   *)
(* not answer, the context is cancelled, or a check of a parameter that    *)
(* comes after the lookup (limit, offset, top_k, NaN, weights) fails.      *)
Fail(r) ==
    /\ pc[r] \in {"load", "embed", "statement"}
    /\ Answer(r, "failed")
    /\ UNCHANGED <<dbVars, cache, warm, warmRows>>
-----------------------------------------------------------------------------
(* Requests of one statement; none of them touches the cache.              *)
CreateCollection ==
    /\ \E c \in CollectionId, name \in Name, config \in Config :
          InsertCollection(c, name, config)
    /\ UNCHANGED serviceVars

DeleteCollection ==
    /\ \E c \in CollectionId : DeleteCollectionById(c)
    /\ UNCHANGED serviceVars

DeleteDocument ==
    /\ \E d \in DocumentId : documents[d] # None /\ DeleteDocuments({d})
    /\ UNCHANGED serviceVars
-----------------------------------------------------------------------------
(***************************************************************************)
(* WarmFromDB, in its own goroutine: the SELECT, then the mutex, then one  *)
(* row after the other, the mutex held to the end.                         *)
(***************************************************************************)
WarmQuery ==
    /\ warm = "start"
    /\ \/ /\ warm' = "queried"
          /\ warmRows' = [c \in CollectionId |->
                             IF Live(c) THEN collections[c].config ELSE None]
       \/ /\ warm' = "done"
          /\ UNCHANGED warmRows
    /\ UNCHANGED <<dbVars, cache, pc, req, row>>

WarmLock ==
    /\ warm = "queried"
    /\ warm' = "locked"
    /\ UNCHANGED <<dbVars, cache, warmRows, pc, req, row>>

WarmScan ==
    /\ warm = "locked"
    /\ \E c \in CollectionId :
          /\ warmRows[c] # None
          /\ cache' = [cache EXCEPT ![c] = warmRows[c]]
          /\ warmRows' = [warmRows EXCEPT ![c] = None]
    /\ UNCHANGED <<dbVars, warm, pc, req, row>>

(* Variant: the mutex is not unlocked at the end.                          *)
WarmEndWithoutUnlock ==
    /\ warm = "locked"
    /\ warmRows' = Nothing
    /\ UNCHANGED <<dbVars, cache, warm, pc, req, row>>

(* The rows are exhausted, or reading one failed.                          *)
WarmEnd ==
    /\ warm = "locked"
    /\ warm' = "done"
    /\ warmRows' = Nothing
    /\ UNCHANGED <<dbVars, cache, pc, req, row>>

(* The server stops or crashes and is started again on the same database.  *)
Restart ==
    /\ cache' = Nothing
    /\ warm' = "start"
    /\ warmRows' = Nothing
    /\ pc' = [r \in Rpc |-> "idle"]
    /\ req' = [r \in Rpc |-> None]
    /\ row' = [r \in Rpc |-> None]
    /\ UNCHANGED dbVars
-----------------------------------------------------------------------------
Step(r) == Lookup(r) \/ Load(r) \/ Fill(r) \/ Embed(r) \/ Statement(r) \/ Fail(r)

WarmFromDB == WarmQuery \/ WarmLock \/ WarmScan \/ WarmEnd

Next ==
    \/ \E r \in Rpc : Begin(r) \/ Step(r)
    \/ CreateCollection \/ DeleteCollection \/ DeleteDocument
    \/ WarmFromDB
    \/ Restart

Spec == Init /\ [][Next]_vars

(* Goroutines are scheduled, and the database and the embedding provider   *)
(* answer or fail: the provider's clients give up after 30 seconds.        *)
FairSpec == Spec /\ WF_vars(WarmFromDB) /\ \A r \in Rpc : WF_vars(Step(r))
-----------------------------------------------------------------------------
(* Every variable has its type, a request is held exactly while it is in   *)
(* flight, and a row exactly between the SELECT and the fill.              *)
TypeOK ==
    /\ DbTypeOK
    /\ cache \in [CollectionId -> Config \cup {None}]
    /\ warm \in {"start", "queried", "locked", "done"}
    /\ warmRows \in [CollectionId -> Config \cup {None}]
    /\ pc \in [Rpc -> Places]
    /\ req \in [Rpc -> Request \cup {None}]
    /\ row \in [Rpc -> Config \cup {None}]
    /\ \A r \in Rpc : (req[r] # None <=> Active(r)) /\ (row[r] # None <=> pc[r] = "fill")

(* A configuration on its way to a check is that of an id already given    *)
(* out, and as long as the collection exists it is the collection's own.   *)
Current(c, config) ==
    /\ c \in issued
    /\ Live(c) => collections[c].config = config

(* What is cached, and what the warm and the requests have read and will   *)
(* cache.                                                                  *)
CachedCurrent == \A c \in CollectionId : cache[c] # None => Current(c, cache[c])

WarmRowsCurrent == \A c \in CollectionId : warmRows[c] # None => Current(c, warmRows[c])

LoadedRowsCurrent ==
    \A r \in Rpc : row[r] # None => Current(req[r].collection_id, row[r])

(* The cache is never invalidated (DeleteCollection leaves it alone), yet  *)
(* what it says of a collection that exists is right, whichever of a       *)
(* request and the warm stored it and however old the rows were that they  *)
(* stored: CollectionCache.Insert and WarmFromDB overwrite without a look. *)
CacheCoherent == CachedCurrent /\ WarmRowsCurrent /\ LoadedRowsCurrent

Checked(q) ==
    /\ q.collection_id \in issued
    /\ Live(q.collection_id) => Fits(q, collections[q.collection_id].config.dimension)

(* A request about to run its statement passed its checks against the      *)
(* dimension its collection has now, if the collection still exists,       *)
(* although it looked that dimension up some steps ago.                    *)
CheckedVectorsFit == \A r \in Rpc : pc[r] = "statement" => Checked(req[r])

(* The vector of a document is not of its collection's dimension.          *)
Misfit(d) ==
    /\ documents[d] # None
    /\ Live(documents[d].collection_id)
    /\ documents[d].vector_dims # collections[documents[d].collection_id].config.dimension

ForeignUpsert(r, d) ==
    /\ pc[r] = "statement"
    /\ req[r].op = "UpsertDocument"
    /\ d \in req[r].ids
    /\ documents[d] # None
    /\ documents[d].collection_id # req[r].collection_id

(* No vector of the wrong length ever enters a collection, except by the   *)
(* one hole there is: an upsert of the id of a document that belongs to    *)
(* another collection, whose vector it overwrites.                         *)
MisfitOnlyByForeignUpsert ==
    [][\A d \in DocumentId :
          ~Misfit(d) /\ Misfit(d)' => \E r \in Rpc : ForeignUpsert(r, d)]_vars

(* Every request in flight is answered, although the warm holds the mutex  *)
(* of the cache across reads of the network and an ingest comes back to    *)
(* the cache twice after it was first let through.                         *)
EveryRequestAnswered ==
    \A r \in Rpc : Active(r) ~> ~Active(r)

(* The most steps that a request may still take: those of the lookup it is *)
(* at, and those that its next goals add.                                  *)
StepsOfPlace(place) ==
    CASE place = "embed" -> 5
      [] place = "lookup" -> 4
      [] place = "load" -> 3
      [] place = "fill" -> 2
      [] place = "statement" -> 1

StepsOfGoal(goal) ==
    CASE goal = "provider" -> 7
      [] goal = "dimension" -> 3
      [] goal = "statement" -> 0

StepsLeft(r) ==
    IF Active(r) THEN StepsOfPlace(pc[r]) + StepsOfGoal(req[r].goal) ELSE 0

(* A request goes nowhere twice for the same goal: neither a miss of the   *)
(* cache nor an error sends it back, and an ingest, which comes back to    *)
(* the lookup on purpose, does so for its next goal.  So a request is      *)
(* answered after at most eleven steps of its own.                         *)
RequestsGoForward ==
    [][\A r \in Rpc :
          Active(r) => \/ UNCHANGED <<pc[r], req[r]>>
                       \/ StepsLeft(r)' \in 0..(StepsLeft(r) - 1)]_vars

(* What a request past its last lookup, or on its way there, asks to be    *)
(* written.  The vectors of an ingest are only known after the provider's  *)
(* answer, so that it asks for nothing before its last goal.               *)
Writes(q) == q.op \notin Reads /\ q.goal = "statement"

KindOf(op) ==
    CASE op \in Inserts -> "add"
      [] op = "UpsertDocument" -> "put"
      [] op = "BatchDelete" -> "remove"

WriteOf(q) ==
    [kind |-> KindOf(q.op), collection_id |-> q.collection_id,
     vectors |-> q.vectors, ids |-> q.ids]

(* The server implements the catalog: collections keep the configuration   *)
(* they were opened with; the write that a request asks for takes effect   *)
(* whole and in one step that settles the request, or not at all, whatever *)
(* fails or restarts and whatever others write meanwhile; vectors enter at *)
(* the dimension of their collection; and the sizes kept by the triggers   *)
(* are the counts.                                                         *)
Store == INSTANCE Catalog WITH
    config <- [c \in CollectionId |-> IF Live(c) THEN collections[c].config ELSE None],
    corpus <- documents,
    size <- [c \in CollectionId |-> IF Live(c) THEN collections[c].document_count ELSE 0],
    retired <- {c \in issued : ~Live(c)},
    asked <- [r \in Rpc |-> IF Active(r) /\ Writes(req[r]) THEN WriteOf(req[r]) ELSE None]

ImplementsCatalog == Store!Spec
-----------------------------------------------------------------------------
(* What the documentation says and the code does not do.                   *)

(* migrations/README.md:85, "all vectors must match this dimension".       *)
DimensionUniform == \A d \in DocumentId : ~Misfit(d)

(* document_service.go:173, "Check if collection exists (uses cache ...)": *)
(* a lookup that lets a request through finds a collection that exists.    *)
ExistenceCheckSound ==
    [][\A r \in Rpc : Lookup(r) /\ pc[r]' = "statement" => Live(req[r].collection_id)]_vars
=============================================================================
