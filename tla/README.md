# VectorSync in TLA+

VectorSync (Go) is a vector store on top of PostgreSQL with pgvector: clients
create collections of vectors of one dimension, put documents into them, one by
one, in batches or as raw text that the server chunks and embeds, and search
them. This directory holds TLA+ models of it, the TLC configurations that check
them and proofs that TLAPS checks. Paths below are relative to the root of the
repository.

## The system

| Component | Code | State it keeps | Operations |
|---|---|---|---|
| Schema and triggers | `migrations/` | tables `collections` and `documents`; `document_count`, kept by triggers | statements, foreign-key cascade, `increment_document_count`, `decrement_document_count` |
| Collection repository | `internal/db/collection_repo.go` | none; starts goroutines that create and drop indexes | Create, List, ListById, DeleteById, GetCollectionByName |
| Document repository | `internal/db/document_repo.go` | a pool of string builders | Create, Upsert, List, GetById, DeleteById, Search, FullTextSearch, BatchInsert, BatchDelete, HybridSearch |
| Collection cache | `internal/db/collection_cache.go` | a map from collection id to configuration, under an RWMutex | GetInfo, Insert, WarmFromDB, Delete (never called) |
| Document service | `internal/services/document_service.go` | what a request holds between its steps | the operations on documents; the lookups `getCollectionInfo`, `getCollectionEmbeddingInfo` |
| Collection service | `internal/services/collection_service.go` | none | CreateCollection, ListCollections, ListCollection, DeleteCollection |
| gRPC handlers | `internal/grpc/` | none | one handler per RPC |
| Chunkers | `internal/chunker/chunker.go` | none | Chunk of three strategies |
| Embedding clients | `internal/embedding/` | HTTP clients with a timeout of 30 seconds | GenerateEmbeddings of three providers |
| Server | `cmd/vector-sync/main.go` | listeners, the warm goroutine | start, warm, graceful shutdown |
| Pool | `internal/db/connection.go` | 50 connections, 25 idle | Connect, Ping, Close |
| HTTP gateway | `api/proto/v1/generated/*.pb.gw.go` | a client connection to the gRPC server of its own process | one route per RPC, two for health |
| Health | `internal/grpc/health_handler.go`, `internal/services/health_service.go` | none | Check: liveness, readiness |
| Metrics, logger | `internal/metrics/`, `internal/logger/` | counters | the interceptor, export |

A client calls a handler, over gRPC or through the HTTP gateway; the handler
calls a service, which looks the collection up in the cache (on a miss in the
database, and then stores what it read), checks the request against the
configuration it found and calls a repository, which sends one statement, or
for a batch insert one transaction with one statement. `IngestDocument` looks
its collection up three times, with the call of the embedding provider between
the first and the second. Requests share the cache and the database. The warm
goroutine fills the cache once after the start. `CollectionService` has no
access to the cache: `DeleteCollection` leaves entries behind.

What is hard here:

* *Time between check and use.* The dimension is checked with no lock and no
  transaction around the check and the statement, and what was read of a
  collection is stored in the cache however old it is.
* *Two writers of the cache and no invalidation.* Requests and the warm
  overwrite entries without a look.
* *A lock held across I/O.* The warm holds the write lock of the cache while it
  streams rows.
* *Counts by increments.* Triggers add and subtract; nothing ever recounts.
* *Upserts by a global key.* `id` is unique over all collections, and the
  conflict clause does not look at `collection_id`.
* *Row locks taken in two orders.* The deletion of a document locks its row and
  then its collection's; that of a collection goes the other way.
* *Commits that do not wait.* Batch inserts set `synchronous_commit` to off;
  nothing else does.
* *A shutdown of three stages,* of which only the first has a deadline.
* *Pages over a table that others write,* ordered by a column that is not
  unique.
* *Work nobody waits for.* Indexes are created and dropped by goroutines whose
  errors are only counted.

What makes the parts correct:

* Database: no document without its collection; the count of a collection is
  the number of its documents.
* Cache: what it says of a collection that exists is right.
* Service: vectors enter a collection at its dimension only; a batch takes effect
  as a whole or not at all; every request is answered.
* Chunkers: no byte lost, sizes kept, the loop ends.
* Embedding clients: one embedding for each chunk, in order.
* Server: a stop leaves no RPC without its pool and no request unanswered, if
  there is time, and it ends.
* Gateway: a path says what a request is about, whatever its body says.
* Queries: pages show each row once while nothing moves; a search ranks the best
  first.

## Modules

`Database` <- `VectorSync` -> `Catalog` (refinement); `Database` <- `RowLocks`
(whose commits are steps of `Database`); `Gateway` <- `Server`; `Ranking` <-
`Queries`; `ChunkParameters` <- `FixedSizeChunker`; `ChunkParameters` <-
`ChunkedText` <- `SentenceChunker`, `RecursiveChunker` <- `Chunkers`;
`FixedSizeChunker` -> `Chunkers` (refinement);
`EmbeddingClient` stands alone.

The modules look at one system from several sides, each with what it needs of
the others. `VectorSync` takes statements to be atomic: `RowLocks` shows why it
may. It sees a chunker as a number of chunks and a client as one embedding for
each of them or an error: that a client keeps to this is what `EmbeddingClient`
is checked for. `Server` sees a handler as something that needs the pool, takes
its time and returns; what it does is `VectorSync`.

* **`Database`** is the two tables. One action is one statement with the
  constraint checks, the cascade and the triggers it sets off. `collections`
  and `documents` map ids to rows (`None` when there is none); `issued` records
  the collection ids given out, because `gen_random_uuid()` does not repeat
  itself. A vector is represented by its length, and a configuration
  (dimension, metric, provider) by one record. `DbNext` is what `internal/db`
  can send, with arbitrary parameters.
* **`VectorSync`** extends it with the server. For each request in flight `pc`
  says what it does next, `req` holds it, and `row` holds a configuration
  between the `SELECT` of a cache miss and the store. `Begin` is a handler with
  the checks before the lookup; `Lookup` is `GetInfo`, `Load` is `ListById`,
  `Fill` is `Insert`; `Continue` is what a handler does with a configuration
  (`Accepts` has the checks); `Embed` is the provider; `Statement` is the
  repository; `Fail` is any error without effect. `goal` records which of its
  lookups an ingest is at. A request of a single statement that never looks at
  the cache (creating and deleting collections, deleting a document) is one
  step. `WarmQuery`, `WarmLock`, `WarmScan` and `WarmEnd` are `WarmFromDB`.
  `Restart` is a crash or stop and a new start: requests and cache are lost,
  the tables stay.
* **`Catalog`** is what a client is promised, without handlers, cache, triggers:
  collections open with a configuration and close, sizes are counts, and a
  request asks for a write (`asked`) that is settled in one step. `Add`, `Put` and
  `Remove` do all that the write asks for and settle it, so that neither half of a
  batch nor a batch in two steps is a behaviour of the catalog; `GiveUp` does
  nothing of it. `VectorSync!Store` is the refinement mapping: `asked` is the
  write of a request in flight, the cache and the places of requests vanish,
  `document_count` becomes `size`. A request whose answer is lost after its
  statement is settled like one that is answered.
* **`RowLocks`** is the same statements as PostgreSQL executes them at READ
  COMMITTED. Up to `MaxOpenConns` transactions (`stmt`, `at`) hold a connection.
  An insert writes its rows and checks its foreign key, which locks the row of
  the collection `FOR KEY SHARE`; a deletion finds its rows (`Scan`), waits for
  each and deletes it (`DeleteRow`), or passes it over if somebody else has; the
  trigger then updates the count under `FOR NO KEY UPDATE` (`CountRows`); the
  deletion of a collection first locks its row `FOR UPDATE` (`LockCollection`).
  `written`, `lock` and `newCount` are what a transaction has done and nobody
  sees; `Commit` shows it. `durable` is what the write-ahead log has on disk:
  `Commit` flushes it unless the statement is a batch insert, `Flush` is the WAL
  writer, `Crash` falls back to it. `Abort` is any failure, the deadlock
  detector's choice included. `collections` and `documents` are what is
  committed, so that the properties of `Database` apply as they are.
* **`Gateway`** is the routes of the HTTP gateway and the parts of a request
  (`body`, `path`, `query`) from which the fields of a message are taken.
* **`Server`** is one life of the process: `main` is where `main()` is, from
  `sql.Open` to the return; `front` and `back` are how far the gateway and the
  gRPC server are with a call; `job` is the goroutines that create or drop an
  index and the warm. Clients may give up, the database may go away and come
  back, listeners may fail, the process may die at any time. `TakeSignal`,
  `HttpDrained` or `HttpTimesOut`, `GrpcDrained`, `ClosePool` and `Return` are
  the shutdown. `inflight` is the gauge of the interceptor.
* **`Ranking`** is the three searches as the sets of answers that `ORDER BY` and
  `LIMIT` allow, with the formulas for similarity, the thresholds, the defaults
  and the scaling of weights.
* **`Queries`** is a table that is written while a client reads pages of it
  (`reader`), and in whose every state the searches of `Ranking` are asked.
  `created_at` is the time at which a transaction began. `pushed`, `pulled` and
  `tied` are history: which rows changed their place while the client read.
* **`FixedSizeChunker`** is the loop of `FixedSizeChunker.Chunk`, a turn a step.
  A text is its length in bytes; chunks are intervals. `Strategy` is the
  refinement mapping to `Chunkers`, where the fixed strategy is one step: the
  text becomes a row of letters, and the chunks appear when the loop is `done`.
* **`ChunkParameters`** is the code with which every `Chunk` begins: the default
  for the size and the clamp of the overlap.
* **`ChunkedText`** is a call of a chunker: the text as a sequence of the kinds
  of characters its strategy tells apart, the parameters, the chunks returned. A
  chunk is a sequence of pieces (intervals) of the text.
* **`SentenceChunker`** is `SentenceChunker.Chunk`: `FindSentence` is the
  regular expression at work (`FindAllString`), a match or a failure to match a
  step, `Group` a turn of the loop over the matches, `ReturnText` the case of no
  match, `Finish` the last flush. The pieces of a chunk are its sentences, since
  the code joins them with a space of its own.
* **`RecursiveChunker`** is `RecursiveCharacterChunker.Chunk` as recursive
  functions: `SplitAt` is `splitText` with one separator, given what it makes of
  a piece with those behind it, and `SplitText` nests it three times around the
  fixed-size cut; `Split` is `strings.Split`, `TakePart` a turn of the loop over
  the parts; `Merge` is `mergeDocs`, `MergeDoc` a turn of its loop with
  `currentLen` as the code counts it. A chunk is one piece.
* **`Chunkers`** is `GetChunker` over the three strategies.
* **`EmbeddingClient`** is one call of `GetClient` and `GenerateEmbeddings` with
  any of the providers, an exchange over HTTP per step. `OpenAIAnswers`,
  `ListAnswers` (Cohere and Ollama's `/api/embed`) and `LegacyAnswers` (Ollama's
  `/api/embeddings`) are the answers a provider may send, `BatchFails` and
  `LegacyFails` stand for no usable answer. An embedding is the number of its
  text, or `Empty`.
* **`MCVectorSync`, `MCRowLocks`, `MCServer`, `MCQueries`,
  `MCFixedSizeChunker`, `MCChunkers`** give constants values.
* **`DatabaseProofs`, `VectorSyncProofs`, `RowLocksProofs`, `QueriesProofs`,
  `ServerProofs`, `FixedSizeChunkerProofs`, `ChunkersProofs`,
  `EmbeddingClientProofs`** hold the theorems.

Definitions whose comment begins with "Variant" are faulty versions of the
definition that follows them. No specification uses them; each stands for a
plausible bug, and putting it in the place of the real definition violates the
property it is meant for.

Choices worth knowing:

* In `VectorSync` statements are atomic. `BatchInsert` is a transaction with one
  statement that changes rows, and no other request of the code uses more than
  one. `RowLocks` takes them apart.
* `RowLocks` models a deadlock as a cycle of waiting transactions (`InCycle`)
  and its end as an `Abort` of any of them. A transaction that already holds a
  lock on a row does not queue for a stronger one behind those who wait for the
  row, as in PostgreSQL; waiters are otherwise served in any order.
* `RowLocks` has no queue for connections: `database/sql` serves those who wait
  in order, and no property depends on it.
* In `Server` a handler's own failures are an outcome (`Internal`), not a step;
  a panic of a handler that nothing recovers ends the process (`Die`).
* In `Queries` a client goes on from the offset it has reached until a page is
  empty. Time passes only while documents are paged.
* Distances, ranks, scores and weights of `Ranking` are hundredths, rounded
  down; `NaN` is a value of its own that sorts as PostgreSQL sorts it.
* A statement may take effect and its request still fail: the answer, a `Scan`
  or the commit's acknowledgement can be lost (`Statement`). The converse does
  not occur.
* `Fail` also stands for the checks that come after the lookup and that no
  property tells apart (NaN, `limit`, `offset`, `top_k`, weights). A request
  that waits for the mutex of the cache cannot fail: `sync.RWMutex` knows no
  context.
* Providers may answer with vectors of any lengths, also empty and mixed ones,
  but with one for each chunk: all three clients see to that.
* New document ids are any unused ones. Clients can choose ids by upserts, so
  freshness over time would assume more than the code does.
* In `ChunkedText` every character is one byte wide: the code counts bytes
  (`len`) throughout, and what that does to wider characters is said under the
  findings; the spaces of `\s` and those of `TrimSpace` are the same.
* A server behind `OPENAI_API_BASE` may number the items of its answer from
  zero, from one or not at all (a missing `index` decodes as zero), but numbers
  all of one answer in the same way.
* `embedding_model`, names in requests, metadata and contents are left out.

## Runs

| Run | Asks | Bounds | Distinct states |
|---|---|---|---|
| `requests` | is the cache right about what exists, and how can a vector of the wrong length get in | 2 requests, 2 collections, 2 documents, 2 names; creations, upserts, searches, warm, restarts | 1,456,116 |
| `catalog` | is the server the catalog, do checks at three different times protect the statement, does every request go forward and is it answered | 1 request of any writing operation next to the warm, 2 collections, 2 documents, batches of 2, embeddings of 2 chunks, no symmetry | 811,720 |
| `row_locks` | are the commits of concurrent transactions atomic statements, who can deadlock and with whom, what does a crash take back, can the pool get stuck | 3 transactions, 1 collection, 2 documents, 3 connections | 284,349 |
| `server` | what do the stages of start and shutdown do to calls, and does a stop end | 2 calls: upserts and readiness probes over HTTP, creations and probes over gRPC | 661,882 |
| `queries` | when do pages repeat or skip a row, what comes first in a search | 3 rows, 3 times, 3 metrics, pages of 1 or 2 | 523,967 |
| `chunker_loop` | does the loop cut what it should, and what the fixed strategy of `Chunkers` does in one step | texts of 0 to 12 bytes, sizes and overlaps -1 to 13 | 3,346 |
| `chunkers` | what becomes of a text, by strategy | texts of 0 to 7 characters, sizes and overlaps 0 to 4 | 359,085 |
| `embedding` | does every answer of a provider end in embeddings that fit the texts, or in an error, and after how many exchanges | 0 to 4 texts, up to 5 items in an answer | 131 |
| `foreign_upsert`, `stale_check`, `readiness`, `chunk_size` | what documents and comments say and the code does not do | | violated |

Bounds. Two collections are what it takes for one to be gone and another to
exist, and for a document to be in the wrong one; the ids are not reused, so a
behaviour has at most two creations, which is enough to delete a collection
between a `SELECT` and the store that follows. Dimensions 1 and 2 and vector
lengths 0 to 2 give every request a right, a wrong and an empty vector.
Requests come back any number of times, two at a time; the interference of two
is what the hazards are about, and the theorems below have no such bound.

Three transactions make a cycle of three, or two that conflict and a third that
waits or fails; with a connection for each, the limit of the pool is met by all
of them waiting. Two documents let two deletions take rows in opposite orders,
and one collection is where locks meet: a statement never locks two
collections, and the theorems hold for any number. A fourth transaction, which
would queue for a connection, takes TLC past its time, and three over two
connections would have no cycle of three. Who is in line for a connection holds
no lock, and `PoolNeverStuck` is about those who have one.

Two calls are one that a stage of the shutdown waits for and one that comes in
between. Their kinds are those that differ in `Server`: with a path parameter
and a body, with a query, by gRPC, with and without the pool, with a goroutine
left behind.

Three rows are one that stays, one in front of it that comes or goes and one
behind; three times let a transaction commit after a younger one, and an update
come later than both. Limits go from -1 to beyond the largest.

The chunker's texts are long enough for a chunk in the middle, a chunk that ends
exactly at the end and one that ends short of it, at sizes from one up to more
than the text. Seven characters hold two sentences with stops and spaces on all
sides, or three short ones, or three words with a blank line among them. An
answer of five items to four texts may repeat one.

What the passing runs say beyond types:

* `catalog`: whatever fails, restarts or is written by others, all that a request
  writes is in the tables in one step or nothing of it (`ImplementsCatalog`). No
  request is sent back to where it was (`RequestsGoForward`):
  `StepsLeft` counts the steps to the statement, through the lookups that an
  ingest has before it, and falls with every step, so that eleven are enough.
* `row_locks`: each commit does what one statement of `Database` does
  (`CommitsAreStatements`), so that no count is lost and no document slips past a
  cascade; the count a deletion reports is the number of documents its cascade
  deletes, although it is read before them (`DeletionReportsItsDocuments`);
  inserts and upserts are in no deadlock (`OnlyDeletionsDeadlock`), which is due
  to PostgreSQL's key-share locks, and deletions can be; the deletion of a single
  document is in a deadlock only with a deletion of its collection
  (`SingleDeletionsMeetCollections`), since it updates the count once, after its
  row; a crash takes back batch inserts at most (`OnlyInsertsAtRisk`), since any
  later commit that waits flushes them; nobody who has a connection needs another
  one (`PoolNeverStuck`).
* `chunker_loop`: whatever the parameters, the turns of the loop make the chunks
  that the formula of `Chunkers` (`FixedSizeChunks`, multiples of size - overlap) gives
  in one step (`LoopIsOneStep`), so that what `chunkers` says of the fixed
  strategy, nothing lost and every chunk new, is said of the loop.
* `embedding`: what has been asked for is not asked for again
  (`CallGoesForward`); a call makes at most one exchange more than it has texts.
* `server`: the pool is closed when nobody is left who needs it
  (`NoRpcWithoutPool`); a request that arrived suffers only if the ten seconds
  run out (`OnlyLateRequestsSuffer`); the shutdown ends unless an RPC never does
  (`ShutdownEnds`): `GracefulStop` has no deadline, so a stuck handler holds it
  up for good.
* `queries`: exactly what may disturb pages (`RepeatedOnlyIfMoved`,
  `SkippedOnlyIfMoved`). Documents of one batch share their `created_at` and are
  always `tied`; pages over them promise nothing.
* `chunkers`: the sentence chunker loses a letter exactly if the stops behind it
  are followed by neither a space nor the end (`OnlyGluedTextIsLost`); a sentence
  that is larger than the size shares its chunk with no other
  (`LargeSentencesStandAlone`). The recursive one loses no letter and never goes
  back (`ChunksAdvance`); on a text without stray white space its chunks are not
  empty, share no more than the overlap, and without an overlap they keep the
  size (`TidyTextIsWellCut`). With an overlap or stray white space they may not:
  see `chunk_size` below.

Fairness. `VectorSync!FairSpec`: `WF_vars(Step(r))`, because goroutines are
scheduled, the database answers or its connection fails, and the providers' HTTP
clients give up after 30 seconds (`http.Client{Timeout: ...}`), once per text at
worst; `WF_vars(WarmFromDB)`, because the warm's reads end in rows, the end of
rows or an error. Nothing is assumed of clients or restarts. Go's RWMutex hands
over to waiting readers after a writer, and there is one warm, so weak fairness
is enough; a request that is locked out is disabled only while the warm holds
the lock. In `EmbeddingClient`, `WF_vars(Next)`: each exchange ends within those
30 seconds. `Server!FairSpec` is `WF_vars(Main)` and nothing else: `main()` runs
when it can and the timer of the shutdown goes off, but no client, handler,
database or background goroutine has to go on.

`RowLocks` states no fairness. That every transaction ends would need fairness
of PostgreSQL's lock queues, which do not give it: the deletion of a collection
waits for all who hold a key-share lock on its row, others may take one while it
waits, and so it can be starved by inserts that overlap without a gap.

Findings, each with a run that TLC finds violated:

1. `foreign_upsert`: `ON CONFLICT (id) DO UPDATE` (`internal/db/document_repo.go:116`)
   overwrites a document of any collection. The vector then has the dimension
   of the collection that was named, not of the one it is in, against
   `migrations/README.md:85`.
2. `stale_check`: after `DeleteCollection` the cached entry makes "Check if
   collection exists" (`internal/services/document_service.go:173`) pass for the
   rest of the server's life. Inserts then fail on the foreign key, reads answer
   with nothing instead of an error.
3. `readiness`: `GET /health/ready` without a query is a liveness check, because
   the route does not set the service that
   `internal/grpc/health_handler.go:31` asks for; it answers SERVING while the
   database is unreachable, against `docs/api-reference/health.mdx:75`.
4. `chunk_size`: chunks may be larger than the "Maximum characters per chunk" of
   `docs/api-reference/documents.mdx:111`. TLC's example needs no overlap:
   `mergeDocs` takes `currentLen == 0` for an empty block
   (`internal/chunker/chunker.go:202`), which a block of an empty part is not, so
   that the next separator is not counted. The overlap that is retained comes on
   top of the size as well (`:194`), the sentence chunker does not count the space
   that joins two sentences (`:81`), and a large sentence is never cut.

Others that were met on the way and have no run of their own:

* `BatchDelete` (`internal/db/document_repo.go:735`) deletes those of its ids
  that are in the collection it names and passes over the others;
  `docs/api-reference/documents.mdx:422` promises all or none.
* Chunks are cut by bytes, not characters (`internal/chunker/chunker.go:13` and
  `:39`): a chunk may begin in the middle of one.
* No index is ever created: its name holds the hyphens of a UUID and is not
  quoted (`internal/db/collection_repo.go:102`), and with the name quoted a column
  `vector` without dimensions (`migrations/003_create_documents.up.sql:6`) could
  not be indexed either, against `README.md:22`. `DROP INDEX` (`:213`) fails
  likewise. `Server` lets these goroutines only fail (`JobEnds`).
* The sentence chunker's regular expression (`internal/chunker/chunker.go:63`)
  skips text in front of a stop that a letter follows: of "3.14" only "14" is
  indexed. `OnlyGluedTextIsLost` says exactly what is lost.
* The empty parts of finding 4 also make chunks overlap by more than was asked
  for, and a blank line in front of a large part yields an empty chunk.
  `TidyTextIsWellCut` holds because its texts have no empty parts.
* `tests/stress/07_raw_text_ingestion.py:148` expects two chunks of two short
  sentences at size 100; the code groups them into one, which is what the comment
  at `internal/chunker/chunker.go:48` says. No property demands either.
* A hybrid search by text alone is always refused: the empty vector it sends
  (`internal/db/document_repo.go:790`) is none that pgvector accepts, although
  `docs/api-reference/search.mdx:269` makes the vector optional.
* A vector of zeros has the cosine distance NaN, which PostgreSQL sorts behind
  all numbers: last in a search, which orders by distance ascending, and first
  in a hybrid search, which orders by score descending. `HybridAgreesAtTheEdges`
  leaves such vectors out.
* A batch insert is acknowledged before it is on disk (`OnlyInsertsAtRisk`);
  `docs/architecture.mdx:103` says of all writes that durability is ensured.
* `CollectionRepo.List` does not ask `rows.Err()`: a page that a lost connection
  cut off looks like the last one (`SkippedOnlyIfMoved`).

## Proofs

All theorems hold for arbitrary sets of requests, calls, transactions,
collections, documents, names and configurations, under the named assumptions of
the modules (dimensions are positive; the sets of documents, transactions and
calls are finite, for the counts; `None` is none of the values).

* `DatabaseProofs`: `DbInv` (typed rows, no orphans, exact counts) is inductive
  by itself. Each statement has a lemma; the counting ones rest on the
  cardinality of unions and differences (`FiniteSetTheorems`).
  `DatabaseNoOrphans` and `DatabaseCountExact` follow.
* `VectorSyncProofs`: the argument is that a collection's id is given out once
  and its configuration never changes, so that whatever was read of a
  collection stays right while the collection lives (`LiveStable`,
  `CurrentStable`, `CheckedStable`). `CacheCoherent` alone is not inductive: a
  request about to store a row must be known to hold one that was read from its
  collection, and an ingest to have the goal that its place requires. `Inv`
  adds this for each request (`RpcOK`). One lemma per action shows that `Inv` is
  kept; `RpcUntouched` and `CacheUntouched` take care of everything the action
  leaves alone. Hence `TypeCorrect`, `CacheIsCoherent`, `CheckedVectorsStillFit`.
  `MisfitsOnlyByForeignUpsert` is an action property: it takes `Inv` for the
  checks of the request and `NoOrphans` for rows left alone.
  `ServerUsesDatabase` shows that the server is a behaviour of `DbSpec`, so that
  the theorems about the tables carry over.
* `VectorSyncProofs`, second part: `ServerImplementsCatalog`, by the mapping of `VectorSync`'s
  `Store`. The catalog computes sizes where the server's triggers count:
  `Counted`, that both agree, is `CountExact` for the collections that exist and
  `NoOrphans` for the others. Then one lemma per statement finds its step of the
  catalog: an insert is `Add` by the request that runs it, since `Checked` puts its vectors at the dimension
  the collection has at that moment and there is a row for each
  (`AsManyRowsAsVectors`), an upsert `Put`, a batch delete `Remove`
  (`StatementImplements`), the deletion of a document `RemoveOne`, a collection's
  creation `Open` since its id is new. The same step settles the write, because
  after its statement a request is over, answered or not; the steps before it
  keep the write that the request asks for (`QuietStep`, `PendingStep`), and a
  failure or a restart gives it up.
* `VectorSyncProofs`, third part: `RequestsOnlyGoForward`. `StepsLeftOfRequest`
  takes from `Inv` that a request in flight is at a place and has a goal, so that
  `StepsLeft` is a positive number; `MoveFalls` reduces each step to a comparison
  of two places with their goals, `AnswerFalls` sees to the rest, and
  `OthersStay` says that a request moves by its own steps only.
* `RowLocksProofs`: a commit writes what its transaction computed steps before,
  from rows that others may have changed since; the theorem is that they have
  not. `Exclusive` says that no two transactions hold locks that conflict or have
  written one row. `TxnOK` says, for each place in a transaction, what is still
  true of what it has read: rows it inserts have unused keys, rows it deletes
  exist and are of one collection (`Deleting`), a cascade has found all the
  documents of its collection (`Closing`, which needs that a key-share lock and
  `FOR UPDATE` conflict), the count it wrote is the present count plus its change
  (`Counting`, which needs that nobody else counts). `CommitKeeps` shows that a
  commit leaves this true of the others, `CommitIsStatement` that it is a step of
  `DbNext`, and `DbInv` then follows from the lemmas of `DatabaseProofs`.
  `DurableInv` says the same of the tables that a crash would leave.
  `RowLocksCommitsAreStatements`, `RowLocksConsistent`,
  `RowLocksDeletionReports`, `RowLocksOnlyInsertsAtRisk` and `RowLocksTypeOK`
  follow. `RowLocksOnlyDeletionsDeadlock` needs no induction over the length of a
  cycle: `InCycle(t)` says that whatever set holds the blockers of `t` and those
  of its members holds `t`, and a set without `t` refutes it. While `t` holds
  nothing, everybody else is such a set (`BeginNoCycle`); while an insert waits
  for the row of its collection, those who hold something (`CheckNoCycle`); and
  when it counts, those who are committing (`CountNoCycle`).
  `RowLocksSingleDeletionsMeetCollections`: the deletion of one document locks
  no other row (`OneAtATime`), so that it holds nothing and is in no cycle before
  it counts (`WithoutRowNoCycle`). Every cycle it is in leads through one of those
  that block it then (`CycleThroughBlocker`). That one does not commit, or it
  would wait for nobody; whoever holds the collection's row as a count does is
  about to commit (`CounterCommits`), and what remains is the lock that a deletion
  of the collection takes (`MeetsCollection`).
* `QueriesProofs`: a page is some answer to `ORDER BY`, and there are many when
  rows are tied. What they share is that an untied row stands at the place that
  the number of rows ahead of it says (`PositionAtMost`, `PositionAtLeast`,
  `PositionBehind`; cardinalities are compared by injections). The invariant
  compares that number with the reader's offset: rows that were seen and not
  pushed are ahead of the offset (`SeenAhead`), rows still to be seen and not
  pulled are not (`UnseenBehind`). A write keeps it since it never reorders the
  rows it leaves (`KeepsOrder`), whoever has a new row in front was pushed and
  whoever lost one was pulled; an empty page means that every row was in front of
  the offset. The two properties of the searches hold in every state of the right
  type: scores are antitone in the distance (`SimilarityAntitone`), so the
  documents that pass a threshold are the beginning of the list (`CutsOff`), and
  two orders that agree on the candidates have the same answers.
  `QueriesHybridAgreesAtTheEdges` assumes `ScoresTellApart`: scores are rounded
  to hundredths in the model, and the distances must be far enough apart for the
  rounding not to make ties that the code's `1 / (1 + distance)` does not have.
* `ServerProofs`: `ProcessOK` ties the state of both servers and of the pool to
  the place of `main()`; `CallOK` says what gateway and gRPC server know of a
  call, above all that an RPC that came through the gateway has the message that
  its request translates to; `Linked` says which calls may be active where
  `main()` is. The properties of `server` that are not liveness follow.
* `FixedSizeChunkerProofs`: the invariant of the loop is that the next chunk
  starts `overlap` bytes before the end of a full chunk that does not reach the
  end. Every checked property of the loop follows, for any text and any
  parameters. For the refinement the invariant also says where each chunk starts,
  at a multiple of `size - overlap` (`Regular`); `LastCut` shows that the loop
  breaks after as many turns as the formula makes chunks, so that the cut that
  ends it is the step of `Chunkers` (`CutIsStep`) and the others stutter. Hence
  `LoopImplementsStep`.
* `ChunkersProofs`, the sentence strategy, for texts of any length. While
  the search goes on, the letters behind it are in a match exactly if they are
  not glued to what follows (`Search`, by `SearchFrom`, which says what the
  expression does from one position). While the loop goes on, the chunks with the
  one that is being filled behind them (`AllChunks`) are in order, leave large
  sentences alone (`LargeAlone`) and hold the letters of the sentences handled so far, and nothing but pieces of
  these (`Grouped`); `ExtendKeeps` adds a sentence to them, in a new chunk or in
  the last one. `SentencesLoseOnlyGluedText`, `SentencesStayInOrder` and
  `LargeSentencesAreAlone` follow.
* `ChunkersProofs`, the other strategies: pieces cut up a stretch of the text
  (`Cuts`) if they begin and end with it, advance, and leave no letter between
  two of them. `strings.Split` leaves parts of which each ends before the next
  one begins (`Apart`, `SplitApart`). In `mergeDocs` the block is always such a
  row of parts, and the chunks so far with that block behind them cut up the
  parts handled (`Blocked`); what is removed for the overlap is a prefix of the
  block, so that the next block starts no earlier (`SuffixApart`). In the loop of
  `splitText` the chunks so far end before the parts that wait to be merged
  (`Taken`), given that the separators that follow cut up whatever piece they
  get (`CutsUp`): `SplitAtCuts` is the step of the recursion over the separators,
  `FixedSizeCuts` its end. `WellFormed` is the invariant of the call.
  `ChunkersTyped`, `FixedAndRecursiveKeepText` and `ChunksOnlyAdvance` follow for
  all strategies. Every loop is a recursive function over the turns; that it
  exists is `LoopExists`, what it keeps is shown with `Induction`, both from the
  fact that a nonempty set of natural numbers has a least one.
* `ChunkersProofs`, tidy texts: in one, every separator that `splitText` comes
  to stands between two letters (`BetweenWords`; a line end only because the parts
  that reach it hold no blank line any more, which is why `SplitBetweenWords` says
  that `strings.Split` leaves none). So all parts begin and end with a letter
  (`Clean`), are never empty and are exactly a separator apart (`Parts`), and
  `currentLen` is the length of the block (`Counted`): removing every part leaves
  it at minus the width of the separator, which the next part makes up for. What
  is retained is at most the overlap, and nothing at all if that is zero: then a
  block keeps the size (`NextCounted`). `WellCut` carries it through concatenation and the
  recursion, `TidyTextsAreWellCut` states it.
* `EmbeddingClientProofs`: an answer of OpenAI that leaves no place empty has
  every embedding in the place of its text, for each way in which a server may
  number its items (`PopulatedMatches`): numbered from one the first place stays
  empty, without numbers all but the first do. What Ollama's fallback has so far
  are the embeddings of the first texts (`LegacySoFar`), and fewer than there are
  texts, so that `StepsLeft` is positive until the call ends and falls with every
  step (`EmbeddingGoesForward`).

Only model-checked: `EveryRequestAnswered`, `CallEnds` and `ShutdownEnds`, which
are liveness, and `PoolNeverStuck`, which has `ENABLED`. The part of them that is a
matter of safety is proved: `RequestsGoForward` and `CallGoesForward` bound the
steps that a request and a call can take, so that only fairness is left to TLC.
Every other property of a passing run is a theorem. The other way
round, `TypeOK` of `Queries` and `TypeOK`, `CoversText` and `EveryChunkIsNew` of
`FixedSizeChunker` are theorems that no run checks: the invariants the
proofs carry contain them, and `LoopIsOneStep` and the run `chunkers` imply the
last two.

## Not modelled, and the plan

In this order:

1. A queue for connections with its order, together with the requests of
   `VectorSync` that wait in it.
2. The goroutines that create and drop one index, in either order, once
   `CREATE INDEX` succeeds: as the code is, none of them changes anything.

Left out for good:

* the logger, the counters that are only exported and the histograms: output
  that nothing reads back;
* the message types of protobuf (`api/proto/v1/generated/*.pb.go` without the
  services), accessors without behaviour of their own, and the conversions
  between them and the models;
* the `updated_at` triggers, secondary indexes, and idle connections with their
  lifetimes, which change no answer;
* `GetById` and `ListCollection`, single reads; `GetCollectionByName`,
  `CollectionCache.Delete` and other functions that nothing calls;
* how PostgreSQL computes a rank and pgvector a distance.
