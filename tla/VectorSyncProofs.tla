-------------------------- MODULE VectorSyncProofs --------------------------
(***************************************************************************)
(* Proofs about VectorSync, for any number of requests, collections and    *)
(* documents.  The argument rests on two facts about time: the id of a     *)
(* collection is given out once, and its configuration never changes.  So  *)
(* whatever was read of a collection stays right while the collection      *)
(* lives (LiveStable), and the inductive invariant only has to say that    *)
(* each configuration held anywhere was read from its collection.          *)
(***************************************************************************)
EXTENDS VectorSync, DatabaseProofs

(* What a request in flight looks like.                                    *)
Shaped(q) ==
    /\ q.goal # "statement" => q.op = "IngestDocument"
    /\ q.op = "UpsertDocument" => q.vectors \in [1..1 -> VectorLength] /\ q.vectors[1] > 0

RpcOK(r) ==
    /\ req[r] # None <=> Active(r)
    /\ row[r] # None <=> pc[r] = "fill"
    /\ req[r] # None => Shaped(req[r])
    /\ pc[r] = "embed" => req[r].goal = "dimension"
    /\ row[r] # None => Current(req[r].collection_id, row[r])
    /\ pc[r] = "statement" => req[r].goal = "statement" /\ Checked(req[r])

Typed ==
    /\ cache \in [CollectionId -> Config \cup {None}]
    /\ warm \in {"start", "queried", "locked", "done"}
    /\ warmRows \in [CollectionId -> Config \cup {None}]
    /\ pc \in [Rpc -> Places]
    /\ req \in [Rpc -> Request \cup {None}]
    /\ row \in [Rpc -> Config \cup {None}]

RpcsOK == \A r \in Rpc : RpcOK(r)

Inv ==
    /\ DbInv
    /\ Typed
    /\ CachedCurrent
    /\ WarmRowsCurrent
    /\ RpcsOK

(* The invariant implies those that are checked.                           *)
LEMMA InvImplies == Inv => TypeOK /\ CacheCoherent /\ CheckedVectorsFit
<1> SUFFICES ASSUME Inv PROVE TypeOK /\ CacheCoherent /\ CheckedVectorsFit
  OBVIOUS
<1>1. TypeOK
  BY DEF Inv, DbInv, TypeOK, Typed, RpcsOK, RpcOK
<1>2. CacheCoherent
  BY DEF Inv, CacheCoherent, LoadedRowsCurrent, RpcsOK, RpcOK
<1>3. CheckedVectorsFit
  BY DEF Inv, CheckedVectorsFit, RpcsOK, RpcOK
<1> QED  BY <1>1, <1>2, <1>3
-----------------------------------------------------------------------------
(* The life of a collection id: once issued, it is live only if it was.    *)
LEMMA LiveStable ==
    ASSUME DbTypeOK, [DbNext]_dbVars, NEW c \in CollectionId, c \in issued
    PROVE  /\ c \in issued'
           /\ Live(c)' => Live(c) /\ collections[c].config' = collections[c].config
<1>1. ASSUME NEW o \in CollectionId, NEW name \in Name, NEW config \in Config,
             InsertCollection(o, name, config)
      PROVE  /\ c \in issued'
             /\ Live(c)' => Live(c) /\ collections[c].config' = collections[c].config
  BY <1>1 DEF InsertCollection, DbTypeOK, Live
<1>2. ASSUME NEW o \in CollectionId, DeleteCollectionById(o)
      PROVE  /\ c \in issued'
             /\ Live(c)' => Live(c) /\ collections[c].config' = collections[c].config
  BY <1>2 DEF DeleteCollectionById, DbTypeOK, Live
<1>3. ASSUME NEW newRows, InsertDocuments(newRows)
      PROVE  /\ c \in issued'
             /\ Live(c)' => Live(c) /\ collections[c].config' = collections[c].config
  <2>1. c \in issued' /\ collections' = IncrementDocumentCount(newRows)
    BY <1>3 DEF InsertDocuments
  <2>2. Live(c)' => Live(c)
    BY <2>1 DEF IncrementDocumentCount, Live
  <2>3. Live(c) => collections[c].config' = collections[c].config
    BY <2>1 DEF IncrementDocumentCount, Live, DbTypeOK, CollectionRow
  <2> QED  BY <2>1, <2>2, <2>3
<1>4. ASSUME NEW d \in DocumentId, NEW newRow, UpsertDocument(d, newRow)
      PROVE  /\ c \in issued'
             /\ Live(c)' => Live(c) /\ collections[c].config' = collections[c].config
  BY <1>3, <1>4 DEF UpsertDocument, Live
<1>5. ASSUME NEW S, DeleteDocuments(S)
      PROVE  /\ c \in issued'
             /\ Live(c)' => Live(c) /\ collections[c].config' = collections[c].config
  <2>1. c \in issued' /\ collections' = DecrementDocumentCount(S)
    BY <1>5 DEF DeleteDocuments
  <2>2. Live(c)' => Live(c)
    BY <2>1 DEF DecrementDocumentCount, Live
  <2>3. Live(c) => collections[c].config' = collections[c].config
    BY <2>1 DEF DecrementDocumentCount, Live, DbTypeOK, CollectionRow
  <2> QED  BY <2>1, <2>2, <2>3
<1>6. CASE UNCHANGED dbVars
  BY <1>6 DEF dbVars, Live
<1> QED  BY <1>1, <1>2, <1>3, <1>4, <1>5, <1>6 DEF DbNext

LEMMA CurrentStable ==
    ASSUME DbTypeOK, [DbNext]_dbVars, NEW c \in CollectionId, NEW g, Current(c, g)
    PROVE  /\ c \in issued'
           /\ Live(c)' => collections[c].config' = g
  BY LiveStable DEF Current

LEMMA CheckedStable ==
    ASSUME DbTypeOK, [DbNext]_dbVars, NEW q \in Request, Checked(q)
    PROVE  /\ q.collection_id \in issued'
           /\ Live(q.collection_id)' =>
                  Fits(q, collections[q.collection_id].config.dimension')
<1>1. q.collection_id \in CollectionId
  BY DEF Request
<1> QED  BY <1>1, LiveStable DEF Checked

(* A request that a step leaves alone is still in order after it.          *)
LEMMA RpcUntouched ==
    ASSUME Inv, [DbNext]_dbVars, NEW r \in Rpc,
           pc[r]' = pc[r], req[r]' = req[r], row[r]' = row[r]
    PROVE  RpcOK(r)'
<1>1. RpcOK(r) /\ DbTypeOK
  BY DEF Inv, RpcsOK, DbInv
<1>2. req[r] # None => req[r] \in Request /\ req[r].collection_id \in CollectionId
  BY DEF Inv, Typed, Request
<1>3. (req[r] # None <=> Active(r))' /\ (row[r] # None <=> pc[r] = "fill")'
  BY <1>1 DEF RpcOK, Active
<1>4. (req[r] # None => Shaped(req[r]))' /\ (pc[r] = "embed" => req[r].goal = "dimension")'
      /\ (pc[r] = "statement" => req[r].goal = "statement")'
  BY <1>1 DEF RpcOK, Shaped
<1>5. (row[r] # None => Current(req[r].collection_id, row[r]))'
  <2> SUFFICES ASSUME row[r] # None
               PROVE  Current(req[r].collection_id, row[r])'
    OBVIOUS
  <2>1. req[r] # None /\ Current(req[r].collection_id, row[r])
    BY <1>1 DEF RpcOK, Active, Answers
  <2>2. /\ req[r].collection_id \in issued'
        /\ Live(req[r].collection_id)' => collections[req[r].collection_id].config' = row[r]
    BY <2>1, <1>1, <1>2, CurrentStable
  <2> QED  BY <2>2 DEF Current, Live
<1>6. (pc[r] = "statement" => Checked(req[r]))'
  <2> SUFFICES ASSUME pc[r] = "statement"
               PROVE  Checked(req[r])'
    OBVIOUS
  <2>1. req[r] # None /\ Checked(req[r])
    BY <1>1 DEF RpcOK, Active, Answers
  <2>2. /\ req[r].collection_id \in issued'
        /\ Live(req[r].collection_id)' =>
               Fits(req[r], collections[req[r].collection_id].config.dimension')
    BY <2>1, <1>1, <1>2, CheckedStable
  <2> QED  BY <2>2 DEF Checked, Live, Fits
<1> QED  BY <1>3, <1>4, <1>5, <1>6 DEF RpcOK
-----------------------------------------------------------------------------
RpcTyped ==
    /\ pc \in [Rpc -> Places]
    /\ req \in [Rpc -> Request \cup {None}]
    /\ row \in [Rpc -> Config \cup {None}]

Untouched(s) == pc[s]' = pc[s] /\ req[s]' = req[s] /\ row[s]' = row[s]

(* What is left to show of a step that request r takes.                    *)
LEMMA StepByOne ==
    ASSUME Inv, [DbNext]_dbVars, NEW r \in Rpc,
           RpcTyped', \A s \in Rpc \ {r} : Untouched(s), RpcOK(r)'
    PROVE  DbInv' /\ RpcTyped' /\ RpcsOK'
<1>1. DbInv'
  BY DbNextInv DEF Inv
<1>2. \A s \in Rpc \ {r} : RpcOK(s)'
  BY RpcUntouched DEF Untouched
<1>3. RpcsOK'
  BY <1>2 DEF RpcsOK
<1> QED  BY <1>1, <1>3

LEMMA CacheUntouched ==
    ASSUME Inv, [DbNext]_dbVars, UNCHANGED <<cache, warm, warmRows>>
    PROVE  CachedCurrent' /\ WarmRowsCurrent'
<1>1. DbTypeOK /\ CachedCurrent /\ WarmRowsCurrent
  BY DEF Inv, DbInv
<1>2. CachedCurrent'
  <2> SUFFICES ASSUME NEW c \in CollectionId, cache[c] # None
               PROVE  Current(c, cache[c])'
    BY DEF CachedCurrent
  <2>1. Current(c, cache[c])
    BY <1>1 DEF CachedCurrent
  <2>2. c \in issued' /\ (Live(c)' => collections[c].config' = cache[c])
    BY <2>1, <1>1, CurrentStable
  <2> QED  BY <2>2 DEF Current, Live
<1>3. WarmRowsCurrent'
  <2> SUFFICES ASSUME NEW c \in CollectionId, warmRows[c] # None
               PROVE  Current(c, warmRows[c])'
    BY DEF WarmRowsCurrent
  <2>1. Current(c, warmRows[c])
    BY <1>1 DEF WarmRowsCurrent
  <2>2. c \in issued' /\ (Live(c)' => collections[c].config' = warmRows[c])
    BY <2>1, <1>1, CurrentStable
  <2> QED  BY <2>2 DEF Current, Live
<1> QED  BY <1>2, <1>3

LEMMA AnswerOK ==
    ASSUME Inv, NEW r \in Rpc, NEW outcome \in Answers, Answer(r, outcome)
    PROVE  RpcTyped' /\ RpcOK(r)' /\ \A s \in Rpc \ {r} : Untouched(s)
<1>1. /\ pc' = [pc EXCEPT ![r] = outcome]
      /\ req' = [req EXCEPT ![r] = None]
      /\ row' = [row EXCEPT ![r] = None]
  BY DEF Answer
<1>2. RpcTyped'
  BY <1>1 DEF RpcTyped, Inv, Typed, Places
<1>3. pc[r]' = outcome /\ req[r]' = None /\ row[r]' = None
  BY <1>1 DEF Inv, Typed
<1>4. RpcOK(r)'
  BY <1>3 DEF RpcOK, Active, Answers
<1>5. \A s \in Rpc \ {r} : Untouched(s)
  BY <1>1 DEF Untouched, Inv, Typed
<1> QED  BY <1>2, <1>4, <1>5

(* A new goal for the request keeps its other fields.                      *)
LEMMA NewGoal ==
    ASSUME NEW q \in Request, NEW g \in Goals
    PROVE  /\ [q EXCEPT !.goal = g] \in Request
           /\ [q EXCEPT !.goal = g] # None
           /\ [q EXCEPT !.goal = g].op = q.op
           /\ [q EXCEPT !.goal = g].goal = g
<1>1. [q EXCEPT !.goal = g] \in Request
  BY DEF Request
<1> QED  BY <1>1, RequestAssumption DEF Request

LEMMA ContinueOK ==
    ASSUME Inv, UNCHANGED dbVars, NEW r \in Rpc, NEW config \in Config,
           pc[r] \in {"lookup", "fill"}, Current(req[r].collection_id, config),
           Continue(r, config)
    PROVE  RpcTyped' /\ RpcOK(r)' /\ \A s \in Rpc \ {r} : Untouched(s)
<1> DEFINE q == req[r]
<1>1. RpcTyped /\ RpcOK(r)
  BY DEF Inv, Typed, RpcTyped, RpcsOK
<1>2. q \in Request /\ q # None /\ Shaped(q)
  BY <1>1 DEF RpcTyped, RpcOK, Active, Answers
<1>3. CASE Answer(r, "failed")
  BY <1>3, AnswerOK DEF Answers
<1>4. CASE /\ q.goal = "provider"
           /\ pc' = [pc EXCEPT ![r] = "embed"]
           /\ req' = [req EXCEPT ![r].goal = "dimension"]
           /\ row' = [row EXCEPT ![r] = None]
  <2>1. pc[r]' = "embed" /\ req[r]' = [q EXCEPT !.goal = "dimension"] /\ row[r]' = None
    BY <1>4, <1>1 DEF RpcTyped
  <2>2. req[r]' \in Request /\ req[r]' # None /\ req[r]'.goal = "dimension" /\ req[r]'.op = q.op
    <3>1. "dimension" \in Goals
      BY DEF Goals
    <3> QED  BY <2>1, <1>2, <3>1, NewGoal
  <2>3. RpcTyped'
    BY <1>4, <1>1, <2>1, <2>2 DEF RpcTyped, Places
  <2>4. Shaped(req[r])'
    BY <1>4, <1>2, <2>2 DEF Shaped
  <2>5. RpcOK(r)'
    BY <2>1, <2>2, <2>4 DEF RpcOK, Active, Answers
  <2> QED  BY <1>4, <1>1, <2>3, <2>5 DEF Untouched, RpcTyped
<1>5. CASE /\ q.goal = "dimension"
           /\ pc' = [pc EXCEPT ![r] = "lookup"]
           /\ req' = [req EXCEPT ![r].goal = "statement"]
           /\ row' = [row EXCEPT ![r] = None]
  <2>1. pc[r]' = "lookup" /\ req[r]' = [q EXCEPT !.goal = "statement"] /\ row[r]' = None
    BY <1>5, <1>1 DEF RpcTyped
  <2>2. req[r]' \in Request /\ req[r]' # None /\ req[r]'.goal = "statement" /\ req[r]'.op = q.op
    <3>1. "statement" \in Goals
      BY DEF Goals
    <3> QED  BY <2>1, <1>2, <3>1, NewGoal
  <2>3. RpcTyped'
    BY <1>5, <1>1, <2>1, <2>2 DEF RpcTyped, Places
  <2>4. Shaped(req[r])'
    BY <1>5, <1>2, <2>2 DEF Shaped
  <2>5. RpcOK(r)'
    BY <2>1, <2>2, <2>4 DEF RpcOK, Active, Answers
  <2> QED  BY <1>5, <1>1, <2>3, <2>5 DEF Untouched, RpcTyped
<1>6. CASE /\ q.goal = "statement"
           /\ Accepts(q, config)
           /\ pc' = [pc EXCEPT ![r] = "statement"]
           /\ UNCHANGED req
           /\ row' = [row EXCEPT ![r] = None]
  <2>1. pc[r]' = "statement" /\ req[r]' = q /\ row[r]' = None
    BY <1>6, <1>1 DEF RpcTyped
  <2>2. RpcTyped'
    BY <1>6, <1>1 DEF RpcTyped, Places
  <2>3. Fits(q, config.dimension)
    BY <1>6 DEF Accepts
  <2>4. Checked(req[r])'
    BY <2>1, <2>3 DEF Checked, Current, dbVars, Live, Fits
  <2>5. Shaped(req[r])'
    BY <1>2, <2>1 DEF Shaped
  <2>6. req[r]'.goal = "statement"
    BY <1>6, <2>1
  <2>7. RpcOK(r)'
    BY <1>2, <2>1, <2>4, <2>5, <2>6 DEF RpcOK, Active, Answers
  <2> QED  BY <1>6, <1>1, <2>2, <2>7 DEF Untouched, RpcTyped
<1> QED  BY <1>3, <1>4, <1>5, <1>6 DEF Continue
-----------------------------------------------------------------------------
(* The vectors of a request are a list.                                    *)
LEMMA VectorsTyped ==
    ASSUME NEW v \in Vectors
    PROVE  \E n \in Nat : v \in [1..n -> VectorLength]
<1>1. CASE v \in OneVector
  BY <1>1 DEF OneVector
<1>2. CASE v \in Batches
  <2>1. PICK n \in 0..MaxBatch : v \in [1..n -> VectorLength]
    BY <1>2 DEF Batches
  <2> QED  BY <2>1, BatchAssumption
<1> QED  BY <1>1, <1>2 DEF Vectors

(* The rows of an insert belong to the collection of the request, and each *)
(* has one of its vectors.                                                 *)
LEMMA NewRowsFields ==
    ASSUME NEW q, NEW newRows \in NewRows(q)
    PROVE  /\ DOMAIN newRows \subseteq Unused
           /\ newRows = [d \in DOMAIN newRows |-> newRows[d]]
           /\ \A d \in DOMAIN newRows :
                 \E i \in DOMAIN q.vectors : newRows[d] = NewRow(q, i)
<1>1. PICK pick \in Injection(DOMAIN q.vectors, Unused) :
          newRows = [d \in Range(pick) |-> NewRow(q, CHOOSE i \in DOMAIN pick : pick[i] = d)]
  BY DEF NewRows
<1>2. pick \in [DOMAIN q.vectors -> Unused]
  BY <1>1 DEF Injection
<1>3. DOMAIN newRows = Range(pick)
  BY <1>1
<1>4. Range(pick) \subseteq Unused
  BY <1>2 DEF Range
<1>5. ASSUME NEW d \in Range(pick)
      PROVE  \E i \in DOMAIN q.vectors : newRows[d] = NewRow(q, i)
  <2>1. \E i \in DOMAIN pick : pick[i] = d
    BY DEF Range
  <2>2. (CHOOSE i \in DOMAIN pick : pick[i] = d) \in DOMAIN q.vectors
    BY <2>1, <1>2
  <2> QED  BY <1>1, <2>2
<1>6. newRows = [d \in DOMAIN newRows |-> newRows[d]]
  BY <1>1
<1> QED  BY <1>3, <1>4, <1>5, <1>6

(* The rows an insert statement really inserts: they fit their collection. *)
LEMMA InsertedRows ==
    ASSUME Inv, NEW q \in Request, Checked(q), q.op \in Inserts,
           NEW newRows \in NewRows(q), InsertDocuments(newRows)
    PROVE  /\ DOMAIN newRows \in SUBSET DocumentId
           /\ newRows \in [DOMAIN newRows -> DocumentRow]
           /\ \A d \in DOMAIN newRows :
                 /\ newRows[d].collection_id = q.collection_id
                 /\ newRows[d].vector_dims = collections[q.collection_id].config.dimension
<1>1. DOMAIN newRows \in SUBSET DocumentId
  BY NewRowsFields DEF Unused
<1>2. ASSUME NEW d \in DOMAIN newRows
      PROVE  /\ newRows[d] \in DocumentRow
             /\ newRows[d].collection_id = q.collection_id
             /\ newRows[d].vector_dims = collections[q.collection_id].config.dimension
  <2>1. PICK i \in DOMAIN q.vectors : newRows[d] = NewRow(q, i)
    BY NewRowsFields
  <2>2. newRows[d].collection_id = q.collection_id /\ newRows[d].vector_dims = q.vectors[i]
    BY <2>1 DEF NewRow
  <2>3. q.collection_id \in CollectionId /\ q.vectors[i] \in VectorLength
    BY VectorsTyped DEF Request
  <2>4. Live(q.collection_id)
    BY <2>2 DEF InsertDocuments
  <2>5. q.vectors[i] = collections[q.collection_id].config.dimension
    BY <2>4 DEF Checked, Fits
  <2>6. collections[q.collection_id].config \in Config
    BY <2>3, <2>4 DEF Inv, DbInv, DbTypeOK, Live, CollectionRow
  <2>7. q.vectors[i] # 0
    BY <2>5, <2>6, ConfigAssumption
  <2> QED  BY <2>1, <2>2, <2>3, <2>5, <2>7 DEF NewRow, DocumentRow, StorableLength
<1>3. newRows = [d \in DOMAIN newRows |-> newRows[d]]
  BY NewRowsFields
<1> QED  BY <1>1, <1>2, <1>3

(* What the statement of a request may be, as a statement of Database.     *)
LEMMA StatementCases ==
    ASSUME Inv, NEW r \in Rpc, Statement(r)
    PROVE  /\ [DbNext]_dbVars
           /\ \E outcome \in Answers : Answer(r, outcome)
           /\ UNCHANGED <<cache, warm, warmRows>>
<1> DEFINE q == req[r]
<1>1. q \in Request /\ q # None /\ Shaped(q) /\ Checked(q)
  BY DEF Inv, Typed, RpcsOK, RpcOK, Active, Answers, Statement
<1>2. ASSUME q.op \in Inserts, NEW newRows \in NewRows(q), InsertDocuments(newRows)
      PROVE  DbNext
  BY <1>1, <1>2, InsertedRows DEF DbNext
<1>3. ASSUME q.op = "UpsertDocument", NEW d \in q.ids, UpsertDocument(d, NewRow(q, 1))
      PROVE  DbNext
  <2>1. q.vectors[1] \in VectorLength /\ q.vectors[1] # 0
    BY <1>1, <1>3, VectorLengthAssumption DEF Shaped
  <2>2. NewRow(q, 1) \in DocumentRow /\ d \in DocumentId
    BY <2>1, <1>1 DEF NewRow, DocumentRow, StorableLength, Request
  <2> QED  BY <1>3, <2>2 DEF DbNext
<1>4. ASSUME DeleteDocuments(q.ids \cap DocumentsOf(q.collection_id))
      PROVE  DbNext
  <2>1. q.ids \cap DocumentsOf(q.collection_id) \in SUBSET DocumentId
    BY DEF DocumentsOf
  <2> QED  BY <1>4, <2>1 DEF DbNext
<1> QED
  BY <1>2, <1>3, <1>4 DEF Statement, InsertStatement, UpsertStatement,
                          BatchDeleteStatement, ReadStatement

(* Every step of the server is at most one statement of the database.      *)
LEMMA DbStep ==
    ASSUME Inv, [Next]_vars
    PROVE  [DbNext]_dbVars
<1>1. ASSUME NEW r \in Rpc, Begin(r) \/ Step(r)
      PROVE  [DbNext]_dbVars
  BY <1>1, StatementCases DEF Begin, Step, Lookup, Load, Fill, Embed, Fail
<1>2. CASE CreateCollection
  BY <1>2 DEF CreateCollection, DbNext
<1>3. CASE DeleteCollection
  BY <1>3 DEF DeleteCollection, DbNext
<1>4. CASE DeleteDocument
  <2>1. PICK d \in DocumentId : DeleteDocuments({d})
    BY <1>4 DEF DeleteDocument
  <2>2. {d} \in SUBSET DocumentId
    OBVIOUS
  <2> QED  BY <2>1, <2>2 DEF DbNext
<1>5. CASE WarmFromDB
  BY <1>5 DEF WarmFromDB, WarmQuery, WarmLock, WarmScan, WarmEnd
<1>6. CASE Restart
  BY <1>6 DEF Restart
<1>7. CASE UNCHANGED vars
  BY <1>7 DEF vars, dbVars
<1> QED  BY <1>1, <1>2, <1>3, <1>4, <1>5, <1>6, <1>7 DEF Next
-----------------------------------------------------------------------------
LEMMA InitInv == Init => Inv
<1> SUFFICES ASSUME Init PROVE Inv
  OBVIOUS
<1>1. DbInv
  BY DbInitInv DEF Init
<1>2. Typed
  BY DEF Init, Typed, Nothing, Places
<1>3. CachedCurrent /\ WarmRowsCurrent
  BY DEF Init, Nothing, CachedCurrent, WarmRowsCurrent
<1>4. RpcsOK
  BY DEF Init, RpcsOK, RpcOK, Active, Answers
<1> QED  BY <1>1, <1>2, <1>3, <1>4 DEF Inv

(* What clients send has the shape the invariant asks for.                 *)
LEMMA ClientRequestShape ==
    ASSUME NEW q \in ClientRequest, WellFormed(q)
    PROVE  q \in Request /\ q # None /\ Shaped(q)
<1> USE DEF ClientRequest, CreateDocument, UpsertDocumentById, BatchInsert, IngestDocument,
            BatchDelete, ListDocuments, FullTextSearch, SearchDocuments, HybridSearch,
            OneVector, NoVector, Ask
<1>1. /\ q.op \in Operations
      /\ q.collection_id \in CollectionId
      /\ q.ids \in SUBSET DocumentId
      /\ q.goal \in Goals
      /\ q.goal # "statement" => q.op = "IngestDocument"
      /\ q = [op |-> q.op, collection_id |-> q.collection_id, vectors |-> q.vectors,
              ids |-> q.ids, goal |-> q.goal]
  BY DEF Operations, Reads, Searches, Inserts, Goals
<1>2. q.vectors \in Batches \cup OneVector \cup {<< >>}
  OBVIOUS
<1>3. q.vectors \in Vectors
  <2>1. << >> \in [1..0 -> VectorLength] /\ 0 \in 0..MaxBatch
    BY BatchAssumption
  <2>2. << >> \in Batches
    BY <2>1 DEF Batches
  <2> QED  BY <1>2, <2>2 DEF Vectors
<1>4. q \in Request
  BY <1>1, <1>3 DEF Request
<1>5. q.op = "UpsertDocument" => q.vectors \in [1..1 -> VectorLength] /\ q.vectors[1] > 0
  BY DEF WellFormed
<1> QED  BY <1>1, <1>4, <1>5, RequestAssumption DEF Shaped

LEMMA BeginInv ==
    ASSUME Inv, NEW r \in Rpc, Begin(r)
    PROVE  Inv'
<1>1. RpcTyped /\ RpcOK(r)
  BY DEF Inv, Typed, RpcTyped, RpcsOK
<1>2. [DbNext]_dbVars /\ UNCHANGED <<cache, warm, warmRows, row>>
  BY DEF Begin
<1>3. RpcTyped' /\ RpcOK(r)' /\ \A s \in Rpc \ {r} : Untouched(s)
  <2>1. CASE \E q \in ClientRequest : /\ WellFormed(q)
                                      /\ pc' = [pc EXCEPT ![r] = "lookup"]
                                      /\ req' = [req EXCEPT ![r] = q]
    <3>1. PICK q \in ClientRequest : /\ WellFormed(q)
                                     /\ pc' = [pc EXCEPT ![r] = "lookup"]
                                     /\ req' = [req EXCEPT ![r] = q]
      BY <2>1
    <3>2. q \in Request /\ q # None /\ Shaped(q)
      BY <3>1, ClientRequestShape
    <3>3. pc[r]' = "lookup" /\ req[r]' = q /\ row[r]' = row[r]
      BY <3>1, <1>1, <1>2 DEF RpcTyped
    <3>4. RpcTyped'
      BY <3>1, <3>2, <1>1, <1>2 DEF RpcTyped, Places
    <3>5. row[r] = None
      BY <1>1 DEF RpcOK, Begin, Active, Answers
    <3>6. RpcOK(r)'
      BY <3>2, <3>3, <3>5 DEF RpcOK, Active, Answers, Shaped
    <3> QED  BY <3>1, <3>4, <3>6, <1>1, <1>2 DEF Untouched, RpcTyped
  <2>2. CASE pc' = [pc EXCEPT ![r] = "failed"] /\ UNCHANGED req
    <3>1. pc[r]' = "failed" /\ req[r]' = req[r] /\ row[r]' = row[r]
      BY <2>2, <1>1, <1>2 DEF RpcTyped
    <3>2. RpcTyped'
      BY <2>2, <1>1, <1>2 DEF RpcTyped, Places, Answers
    <3>3. RpcOK(r)'
      BY <3>1, <1>1 DEF RpcOK, Begin, Active, Answers
    <3> QED  BY <2>2, <3>2, <3>3, <1>1, <1>2 DEF Untouched, RpcTyped
  <2> QED  BY <2>1, <2>2 DEF Begin
<1>4. DbInv' /\ RpcsOK'
  BY <1>2, <1>3, StepByOne
<1>5. CachedCurrent' /\ WarmRowsCurrent'
  BY <1>2, CacheUntouched
<1> QED  BY <1>2, <1>3, <1>4, <1>5 DEF Inv, Typed, RpcTyped

(* A step of a request that leaves the cache alone.                        *)
LEMMA StepInvKeepingCache ==
    ASSUME Inv, NEW r \in Rpc, [DbNext]_dbVars, UNCHANGED <<cache, warm, warmRows>>,
           RpcTyped', RpcOK(r)', \A s \in Rpc \ {r} : Untouched(s)
    PROVE  Inv'
  BY StepByOne, CacheUntouched DEF Inv, Typed, RpcTyped

LEMMA LookupInv ==
    ASSUME Inv, NEW r \in Rpc, Lookup(r)
    PROVE  Inv'
<1> DEFINE c == req[r].collection_id
<1>1. RpcTyped /\ RpcOK(r) /\ pc[r] = "lookup"
  BY DEF Inv, Typed, RpcTyped, RpcsOK, Lookup
<1>2. req[r] \in Request /\ c \in CollectionId /\ req[r] # None
  BY <1>1 DEF RpcTyped, RpcOK, Active, Answers, Request
<1>3. UNCHANGED <<dbVars, cache, warm, warmRows>>
  BY DEF Lookup
<1>4. CASE cache[c] # None /\ Continue(r, cache[c])
  <2>1. Current(c, cache[c]) /\ cache[c] \in Config
    BY <1>2, <1>4 DEF Inv, CachedCurrent, Typed
  <2>2. RpcTyped' /\ RpcOK(r)' /\ \A s \in Rpc \ {r} : Untouched(s)
    BY <1>1, <1>3, <1>4, <2>1, ContinueOK
  <2> QED  BY <1>3, <2>2, StepInvKeepingCache
<1>5. CASE pc' = [pc EXCEPT ![r] = "load"] /\ UNCHANGED <<req, row>>
  <2>1. pc[r]' = "load" /\ RpcTyped' /\ \A s \in Rpc \ {r} : Untouched(s)
    BY <1>1, <1>5 DEF RpcTyped, Places, Untouched
  <2>2. RpcOK(r)'
    BY <1>1, <1>2, <1>5, <2>1 DEF RpcOK, Active, Answers, Shaped
  <2> QED  BY <1>3, <2>1, <2>2, StepInvKeepingCache
<1> QED  BY <1>4, <1>5 DEF Lookup

LEMMA LoadInv ==
    ASSUME Inv, NEW r \in Rpc, Load(r)
    PROVE  Inv'
<1> DEFINE c == req[r].collection_id
<1>1. RpcTyped /\ RpcOK(r) /\ pc[r] = "load"
  BY DEF Inv, Typed, RpcTyped, RpcsOK, Load
<1>2. req[r] \in Request /\ c \in CollectionId /\ req[r] # None
  BY <1>1 DEF RpcTyped, RpcOK, Active, Answers, Request
<1>3. UNCHANGED <<dbVars, cache, warm, warmRows>>
  BY DEF Load
<1>4. CASE /\ Live(c)
           /\ pc' = [pc EXCEPT ![r] = "fill"]
           /\ row' = [row EXCEPT ![r] = collections[c].config]
           /\ UNCHANGED req
  <2>1. collections[c].config \in Config /\ c \in issued
    BY <1>2, <1>4 DEF Inv, DbInv, DbTypeOK, Live, CollectionRow
  <2>2. pc[r]' = "fill" /\ row[r]' = collections[c].config /\ req[r]' = req[r]
    BY <1>1, <1>4 DEF RpcTyped
  <2>3. RpcTyped' /\ \A s \in Rpc \ {r} : Untouched(s)
    BY <1>1, <1>4, <2>1 DEF RpcTyped, Places, Untouched
  <2>4. row[r]' # None
    BY <2>1, <2>2, NoneAssumption
  <2>5. Current(c, row[r])'
    BY <1>3, <1>4, <2>1, <2>2 DEF Current, dbVars, Live
  <2>6. RpcOK(r)'
    BY <1>1, <1>2, <2>2, <2>4, <2>5 DEF RpcOK, Active, Answers, Shaped
  <2> QED  BY <1>3, <2>3, <2>6, StepInvKeepingCache
<1>5. CASE Answer(r, "failed")
  BY <1>3, <1>5, AnswerOK, StepInvKeepingCache DEF Answers
<1> QED  BY <1>4, <1>5 DEF Load

LEMMA FillInv ==
    ASSUME Inv, NEW r \in Rpc, Fill(r)
    PROVE  Inv'
<1> DEFINE c == req[r].collection_id
<1>1. RpcTyped /\ RpcOK(r) /\ pc[r] = "fill"
  BY DEF Inv, Typed, RpcTyped, RpcsOK, Fill
<1>2. c \in CollectionId /\ row[r] # None /\ row[r] \in Config /\ Current(c, row[r])
  BY <1>1 DEF RpcTyped, RpcOK, Active, Answers, Request
<1>3. /\ UNCHANGED <<dbVars, warm, warmRows>>
      /\ cache' = [cache EXCEPT ![c] = row[r]]
      /\ Continue(r, row[r])
  BY DEF Fill
<1>4. RpcTyped' /\ RpcOK(r)' /\ \A s \in Rpc \ {r} : Untouched(s)
  BY <1>1, <1>2, <1>3, ContinueOK
<1>5. DbInv' /\ RpcsOK'
  BY <1>3, <1>4, StepByOne
<1>6. cache' \in [CollectionId -> Config \cup {None}]
  BY <1>2, <1>3 DEF Inv, Typed
<1>7. CachedCurrent' /\ WarmRowsCurrent'
  BY <1>2, <1>3 DEF Inv, Typed, CachedCurrent, WarmRowsCurrent, Current, dbVars, Live
<1> QED  BY <1>3, <1>4, <1>5, <1>6, <1>7 DEF Inv, Typed, RpcTyped

LEMMA EmbedInv ==
    ASSUME Inv, NEW r \in Rpc, Embed(r)
    PROVE  Inv'
<1>1. RpcTyped /\ RpcOK(r) /\ pc[r] = "embed"
  BY DEF Inv, Typed, RpcTyped, RpcsOK, Embed
<1>2. /\ req[r] \in Request /\ req[r] # None /\ Shaped(req[r])
      /\ req[r].goal = "dimension" /\ req[r].op = "IngestDocument"
  BY <1>1 DEF RpcTyped, RpcOK, Active, Answers, Shaped
<1>3. UNCHANGED <<dbVars, cache, warm, warmRows>>
  BY DEF Embed
<1>4. ASSUME NEW embeddings \in Batches,
             pc' = [pc EXCEPT ![r] = "lookup"],
             req' = [req EXCEPT ![r].vectors = embeddings],
             UNCHANGED row
      PROVE  Inv'
  <2>1. embeddings \in Vectors
    BY DEF Vectors
  <2>2. [req[r] EXCEPT !.vectors = embeddings] \in Request
    BY <1>2, <2>1 DEF Request
  <2>3. req[r]' = [req[r] EXCEPT !.vectors = embeddings] /\ pc[r]' = "lookup" /\ row[r]' = row[r]
    BY <1>1, <1>4 DEF RpcTyped
  <2>4. req[r]' # None /\ req[r]'.goal = "dimension" /\ req[r]'.op = "IngestDocument"
    BY <1>2, <2>2, <2>3, RequestAssumption DEF Request
  <2>5. RpcTyped' /\ \A s \in Rpc \ {r} : Untouched(s)
    BY <1>1, <1>4, <2>2 DEF RpcTyped, Places, Untouched
  <2>6. Shaped(req[r])'
    BY <2>4 DEF Shaped
  <2>7. RpcOK(r)'
    BY <1>1, <2>3, <2>4, <2>6 DEF RpcOK, Active, Answers
  <2> QED  BY <1>3, <2>5, <2>7, StepInvKeepingCache
<1>5. CASE Answer(r, "ok")
  BY <1>3, <1>5, AnswerOK, StepInvKeepingCache DEF Answers
<1> QED  BY <1>4, <1>5 DEF Embed

LEMMA StatementInv ==
    ASSUME Inv, NEW r \in Rpc, Statement(r)
    PROVE  Inv'
  BY StatementCases, AnswerOK, StepInvKeepingCache

LEMMA FailInv ==
    ASSUME Inv, NEW r \in Rpc, Fail(r)
    PROVE  Inv'
  BY AnswerOK, StepInvKeepingCache DEF Fail, Answers

(* A step that no request takes and that leaves the cache alone.           *)
LEMMA ServiceUntouched ==
    ASSUME Inv, [DbNext]_dbVars, UNCHANGED serviceVars
    PROVE  Inv'
<1>1. \A r \in Rpc : RpcOK(r)'
  BY RpcUntouched DEF serviceVars
<1>2. CachedCurrent' /\ WarmRowsCurrent'
  BY CacheUntouched DEF serviceVars
<1>3. DbInv'
  BY DbNextInv DEF Inv
<1>4. Typed'
  BY DEF Inv, Typed, serviceVars
<1> QED  BY <1>1, <1>2, <1>3, <1>4 DEF Inv, RpcsOK

(* The goroutine that warms the cache stores only what it read, and what   *)
(* it read stays right while it waits for the mutex.                       *)
LEMMA WarmInv ==
    ASSUME Inv, WarmFromDB
    PROVE  Inv'
<1>1. UNCHANGED <<dbVars, pc, req, row>>
  BY DEF WarmFromDB, WarmQuery, WarmLock, WarmScan, WarmEnd
<1>2. DbInv'
  BY <1>1, DbNextInv DEF Inv
<1>3. RpcsOK'
  BY <1>1, RpcUntouched DEF RpcsOK
<1>4. ASSUME NEW c \in CollectionId
      PROVE  /\ Current(c, cache[c])' <=> Current(c, cache'[c])
             /\ Current(c, warmRows[c])' <=> Current(c, warmRows'[c])
  BY <1>1 DEF Current, Live, dbVars
<1>5. CASE WarmQuery
  <2>1. ASSUME NEW c \in CollectionId, Live(c)
        PROVE  collections[c].config \in Config /\ Current(c, collections[c].config)
    BY <2>1 DEF Inv, DbInv, DbTypeOK, Live, CollectionRow, Current
  <2>2. Typed'
    BY <1>1, <1>5, <2>1 DEF Inv, Typed, WarmQuery
  <2>3. WarmRowsCurrent'
    BY <1>4, <1>5, <2>1 DEF Inv, WarmRowsCurrent, WarmQuery
  <2>4. CachedCurrent'
    BY <1>4, <1>5 DEF Inv, CachedCurrent, WarmQuery
  <2> QED  BY <1>2, <1>3, <2>2, <2>3, <2>4 DEF Inv
<1>6. CASE WarmLock
  <2>1. Typed'
    BY <1>1, <1>6 DEF Inv, Typed, WarmLock
  <2>2. WarmRowsCurrent' /\ CachedCurrent'
    BY <1>4, <1>6 DEF Inv, WarmRowsCurrent, CachedCurrent, WarmLock
  <2> QED  BY <1>2, <1>3, <2>1, <2>2 DEF Inv
<1>7. CASE WarmScan
  <2>1. PICK c \in CollectionId :
            /\ warmRows[c] # None
            /\ cache' = [cache EXCEPT ![c] = warmRows[c]]
            /\ warmRows' = [warmRows EXCEPT ![c] = None]
    BY <1>7 DEF WarmScan
  <2>2. Typed'
    BY <1>1, <1>7, <2>1 DEF Inv, Typed, WarmScan
  <2>3. Current(c, warmRows[c])
    BY <2>1 DEF Inv, WarmRowsCurrent
  <2>4. WarmRowsCurrent' /\ CachedCurrent'
    BY <1>4, <2>1, <2>3 DEF Inv, Typed, WarmRowsCurrent, CachedCurrent
  <2> QED  BY <1>2, <1>3, <2>2, <2>4 DEF Inv
<1>8. CASE WarmEnd
  <2>1. Typed'
    BY <1>1, <1>8 DEF Inv, Typed, WarmEnd, Nothing
  <2>2. WarmRowsCurrent' /\ CachedCurrent'
    BY <1>4, <1>8 DEF Inv, WarmRowsCurrent, CachedCurrent, WarmEnd, Nothing
  <2> QED  BY <1>2, <1>3, <2>1, <2>2 DEF Inv
<1> QED  BY <1>5, <1>6, <1>7, <1>8 DEF WarmFromDB

LEMMA RestartInv ==
    ASSUME Inv, Restart
    PROVE  Inv'
<1>1. DbInv'
  BY DbNextInv DEF Inv, Restart
<1>2. Typed'
  BY DEF Restart, Typed, Nothing, Places
<1>3. CachedCurrent' /\ WarmRowsCurrent'
  BY DEF Restart, Nothing, CachedCurrent, WarmRowsCurrent
<1>4. RpcsOK'
  BY DEF Restart, RpcsOK, RpcOK, Active, Answers
<1> QED  BY <1>1, <1>2, <1>3, <1>4 DEF Inv

LEMMA NextInv == Inv /\ [Next]_vars => Inv'
<1> SUFFICES ASSUME Inv, [Next]_vars PROVE Inv'
  OBVIOUS
<1>1. ASSUME NEW r \in Rpc, Begin(r) PROVE Inv'
  BY <1>1, BeginInv
<1>2. ASSUME NEW r \in Rpc, Step(r) PROVE Inv'
  BY <1>2, LookupInv, LoadInv, FillInv, EmbedInv, StatementInv, FailInv DEF Step
<1>3. CASE CreateCollection \/ DeleteCollection \/ DeleteDocument
  BY <1>3, DbStep, ServiceUntouched DEF CreateCollection, DeleteCollection, DeleteDocument
<1>4. CASE WarmFromDB
  BY <1>4, WarmInv
<1>5. CASE Restart
  BY <1>5, RestartInv
<1>6. CASE UNCHANGED vars
  BY <1>6, DbStep, ServiceUntouched DEF vars, serviceVars
<1> QED  BY <1>1, <1>2, <1>3, <1>4, <1>5, <1>6 DEF Next
-----------------------------------------------------------------------------
LEMMA SpecInv == Spec => []Inv
  BY InitInv, NextInv, PTL DEF Spec

(* Every variable of the server keeps its type, and a request is held      *)
(* exactly while it is in flight.                                          *)
THEOREM TypeCorrect == Spec => []TypeOK
  BY SpecInv, InvImplies, PTL

(* The cache, which nothing invalidates, never holds a configuration that  *)
(* differs from that of a collection that exists, whatever requests, warm  *)
(* and restarts do to it and in whatever order.                            *)
THEOREM CacheIsCoherent == Spec => []CacheCoherent
  BY SpecInv, InvImplies, PTL

(* A request runs its statement only with vectors that fit the collection  *)
(* as it is then.                                                          *)
THEOREM CheckedVectorsStillFit == Spec => []CheckedVectorsFit
  BY SpecInv, InvImplies, PTL

(* The server only ever uses the database by its statements, so what holds *)
(* of the tables under those holds under the server: no orphans, and exact *)
(* counts.                                                                 *)
THEOREM ServerUsesDatabase == Spec => DbSpec
<1>1. Init => DbInit
  BY DEF Init
<1>2. Inv /\ [Next]_vars => [DbNext]_dbVars
  BY DbStep
<1> QED  BY <1>1, <1>2, SpecInv, PTL DEF Spec, DbSpec
-----------------------------------------------------------------------------
(* A row that a step leaves alone does not become a misfit.                *)
LEMMA MisfitStable ==
    ASSUME Inv, [DbNext]_dbVars, NEW d \in DocumentId, documents[d]' = documents[d], Misfit(d)'
    PROVE  Misfit(d)
<1> DEFINE c == documents[d].collection_id
<1>1. DbTypeOK /\ NoOrphans
  BY DEF Inv, DbInv
<1>2. documents[d] # None /\ Live(c)'
  BY DEF Misfit, Live
<1>3. c \in CollectionId /\ Live(c) /\ c \in issued
  BY <1>1, <1>2 DEF DbTypeOK, NoOrphans, DocumentRow
<1>4. Live(c)' => collections[c].config' = collections[c].config
  BY <1>1, <1>3, LiveStable
<1>5. documents[d].vector_dims # collections[c].config.dimension'
  BY DEF Misfit
<1> QED  BY <1>2, <1>3, <1>4, <1>5 DEF Misfit

(* A row written at its collection's dimension is no misfit.               *)
LEMMA FittingRow ==
    ASSUME Inv, [DbNext]_dbVars, NEW d \in DocumentId, NEW c \in CollectionId,
           documents[d]'.collection_id = c,
           Live(c) => documents[d]'.vector_dims = collections[c].config.dimension
    PROVE  c \in issued => ~Misfit(d)'
<1> SUFFICES ASSUME c \in issued, Misfit(d)' PROVE FALSE
  OBVIOUS
<1>1. Live(c)' /\ documents[d]'.vector_dims # collections[c].config.dimension'
  BY DEF Misfit, Live
<1>2. Live(c) /\ collections[c].config' = collections[c].config
  BY <1>1, LiveStable DEF Inv, DbInv
<1> QED  BY <1>1, <1>2

LEMMA MisfitStep ==
    ASSUME Inv, [Next]_vars, NEW d \in DocumentId, ~Misfit(d), Misfit(d)'
    PROVE  \E r \in Rpc : ForeignUpsert(r, d)
<1>1. [DbNext]_dbVars
  BY DbStep
<1>2. documents[d]' # documents[d] /\ documents[d]' # None
  BY <1>1, MisfitStable DEF Misfit
<1>3. documents \in [DocumentId -> DocumentRow \cup {None}]
  BY DEF Inv, DbInv, DbTypeOK
<1>4. ASSUME NEW S, DeleteDocuments(S) PROVE FALSE
  BY <1>2, <1>4 DEF DeleteDocuments
<1>5. ~CreateCollection /\ ~DeleteCollection /\ ~DeleteDocument
  BY <1>2, <1>4 DEF CreateCollection, DeleteCollection, DeleteDocument,
                    InsertCollection, DeleteCollectionById
<1>6. PICK r \in Rpc : Statement(r)
  BY <1>2, <1>5 DEF Next, Begin, Step, Lookup, Load, Fill, Embed, Fail, Restart, vars, dbVars,
                    WarmFromDB, WarmQuery, WarmLock, WarmScan, WarmEnd
<1> DEFINE q == req[r]
<1>7. pc[r] = "statement" /\ q \in Request /\ Shaped(q) /\ Checked(q)
  BY <1>6 DEF Inv, Typed, RpcsOK, RpcOK, Active, Answers, Statement
<1>8. q.collection_id \in CollectionId /\ q.collection_id \in issued
  BY <1>7 DEF Request, Checked
<1>9. ASSUME q.op \in Inserts, NEW newRows \in NewRows(q), InsertDocuments(newRows)
      PROVE  FALSE
  <2>1. d \in DOMAIN newRows /\ documents[d]' = newRows[d]
    BY <1>2, <1>9 DEF InsertDocuments
  <2>2. /\ documents[d]'.collection_id = q.collection_id
        /\ documents[d]'.vector_dims = collections[q.collection_id].config.dimension
    BY <1>7, <1>9, <2>1, InsertedRows
  <2> QED  BY <1>1, <1>8, <2>2, FittingRow
<1>10. ASSUME q.op = "UpsertDocument", NEW u \in q.ids, UpsertDocument(u, NewRow(q, 1))
       PROVE  ForeignUpsert(r, d)
  <2>1. Live(q.collection_id) => q.vectors[1] = collections[q.collection_id].config.dimension
    BY <1>7, <1>10 DEF Checked, Fits, Shaped, Inserts
  <2>2. ASSUME documents[d]'.collection_id = q.collection_id,
               documents[d]'.vector_dims = q.vectors[1]
        PROVE  FALSE
    BY <1>1, <1>8, <2>1, <2>2, FittingRow
  <2>3. u = d
    BY <1>2, <1>3, <1>10 DEF UpsertDocument, InsertDocuments
  <2>4. CASE documents[u] = None /\ InsertDocuments([x \in {u} |-> NewRow(q, 1)])
    <3>1. documents[d]' = NewRow(q, 1)
      BY <2>3, <2>4 DEF InsertDocuments
    <3> QED  BY <3>1, <2>2 DEF NewRow
  <2>5. CASE /\ documents[u] # None
             /\ documents' = [documents EXCEPT ![u].vector_dims = NewRow(q, 1).vector_dims]
    <3>1. documents[d] \in DocumentRow
      BY <1>3, <2>3, <2>5
    <3>2. documents[d]' = [documents[d] EXCEPT !.vector_dims = q.vectors[1]]
      BY <1>3, <2>3, <2>5 DEF NewRow
    <3>3. /\ documents[d]'.collection_id = documents[d].collection_id
          /\ documents[d]'.vector_dims = q.vectors[1]
      BY <3>1, <3>2 DEF DocumentRow
    <3>4. documents[d].collection_id # q.collection_id
      BY <3>3, <2>2
    <3> QED  BY <1>7, <1>10, <2>3, <2>5, <3>4 DEF ForeignUpsert
  <2> QED  BY <1>10, <2>4, <2>5 DEF UpsertDocument
<1> QED
  BY <1>6, <1>2, <1>4, <1>9, <1>10 DEF Statement, InsertStatement, UpsertStatement,
                                       BatchDeleteStatement, ReadStatement, dbVars

(* The one way for a vector of the wrong length to get into a collection   *)
(* is an upsert of the id of another collection's document.                *)
THEOREM MisfitsOnlyByForeignUpsert == Spec => MisfitOnlyByForeignUpsert
<1>1. Inv /\ [Next]_vars =>
         [\A d \in DocumentId :
             ~Misfit(d) /\ Misfit(d)' => \E r \in Rpc : ForeignUpsert(r, d)]_vars
  BY MisfitStep
<1> QED  BY <1>1, SpecInv, PTL DEF Spec, MisfitOnlyByForeignUpsert
-----------------------------------------------------------------------------
(***************************************************************************)
(* The server implements the catalog.  Every statement maps to the step of *)
(* Catalog that settles the request, every other step of a request to one  *)
(* that asks, gives up or changes nothing (QuietStep).  The sizes of the   *)
(* catalog are computed and those of the server counted by triggers: that  *)
(* they agree before and after each step (Counted) is CountExact for the   *)
(* collections that exist, NoOrphans for the others.                       *)
(***************************************************************************)
StoreConfig == [c \in CollectionId |-> IF Live(c) THEN collections[c].config ELSE None]

StoreSize == [c \in CollectionId |-> IF Live(c) THEN collections[c].document_count ELSE 0]

StoreRetired == {c \in issued : ~Live(c)}

Pending(r) == IF Active(r) /\ Writes(req[r]) THEN WriteOf(req[r]) ELSE None

StoreAsked == [r \in Rpc |-> Pending(r)]

Counted == StoreSize = Store!Recount(documents)

(* The module Catalog has its own instance of FiniteSets.                  *)
LEMMA StoreCardinality == \A S : Store!Cardinality(S) = Cardinality(S)
  BY DEF Cardinality, Store!Cardinality

LEMMA InvCounted == DbInv => Counted
<1> SUFFICES ASSUME DbInv PROVE Counted
  OBVIOUS
<1>1. \A c \in CollectionId : Store!Members(c, documents) = DocumentsOf(c)
  BY DEF Store!Members, DocumentsOf
<1>2. ASSUME NEW c \in CollectionId
      PROVE  (IF Live(c) THEN collections[c].document_count ELSE 0) =
                 Cardinality(DocumentsOf(c))
  <2>1. CASE Live(c)
    BY <2>1 DEF DbInv, CountExact
  <2>2. CASE ~Live(c)
    <3>1. DocumentsOf(c) = {}
      BY <2>2 DEF DbInv, NoOrphans, DocumentsOf
    <3> QED  BY <3>1, <2>2, FS_EmptySet
  <2> QED  BY <2>1, <2>2
<1> QED  BY <1>1, <1>2, StoreCardinality DEF Counted, StoreSize, Store!Recount

(* A step of the database counts before and after it.                      *)
LEMMA CountedBothTimes ==
    ASSUME DbInv, [DbNext]_dbVars
    PROVE  Counted /\ Counted'
<1>1. DbInv'
  BY DbNextInv
<1>2. Counted'
  BY <1>1, InvCounted, PTL
<1> QED  BY <1>2, InvCounted
-----------------------------------------------------------------------------
LEMMA OpenStep ==
    ASSUME DbInv, NEW c \in CollectionId, NEW name \in Name, NEW config \in Config,
           InsertCollection(c, name, config), Counted, Counted',
           StoreAsked' = StoreAsked
    PROVE  Store!Open(c, config)
<1> DEFINE new == [name |-> name, config |-> config, document_count |-> 0]
<1>1. c \notin issued /\ ~Live(c)
  BY DEF InsertCollection, DbInv, DbTypeOK
<1>2. new \in CollectionRow /\ new # None
  BY NoneAssumption DEF CollectionRow
<1>3. \A o \in CollectionId : collections[o]' = IF o = c THEN new ELSE collections[o]
  BY DEF InsertCollection, DbInv, DbTypeOK
<1>4. StoreConfig' = [StoreConfig EXCEPT ![c] = config]
  <2>1. new.config = config
    OBVIOUS
  <2>2. \A o \in CollectionId :
            StoreConfig[o]' = IF o = c THEN config ELSE StoreConfig[o]
    BY <1>2, <1>3, <2>1 DEF StoreConfig, Live
  <2> QED  BY <2>2 DEF StoreConfig
<1>5. StoreRetired' = StoreRetired
  BY <1>1, <1>2, <1>3 DEF StoreRetired, Live, InsertCollection, DbInv, DbTypeOK
<1>6. documents' = documents /\ StoreSize' = StoreSize
  BY DEF InsertCollection, Counted, Store!Recount, Store!Members
<1>7. StoreConfig[c] = None /\ c \notin StoreRetired
  BY <1>1 DEF StoreConfig, StoreRetired
<1> QED  BY <1>4, <1>5, <1>6, <1>7 DEF Store!Open, StoreConfig, StoreRetired, StoreSize,
                                       StoreAsked, Pending

LEMMA CloseStep ==
    ASSUME DbInv, NEW c \in CollectionId, DeleteCollectionById(c), Counted',
           StoreAsked' = StoreAsked
    PROVE  Store!Close(c)
<1>1. Live(c) /\ c \in issued /\ issued' = issued
  BY DEF DeleteCollectionById, DbInv, DbTypeOK
<1>2. \A o \in CollectionId : collections[o]' = IF o = c THEN None ELSE collections[o]
  BY DEF DeleteCollectionById, DbInv, DbTypeOK
<1>3. StoreConfig[c] # None
  BY <1>1, NoneAssumption DEF StoreConfig, DbInv, DbTypeOK, Live, CollectionRow
<1>4. StoreConfig' = [StoreConfig EXCEPT ![c] = None]
  BY <1>2 DEF StoreConfig, Live
<1>5. StoreRetired' = StoreRetired \cup {c}
  BY <1>1, <1>2 DEF StoreRetired, Live, DbInv, DbTypeOK
<1>6. documents' = [d \in DocumentId |->
                       IF d \in Store!Members(c, documents) THEN None ELSE documents[d]]
  BY DEF DeleteCollectionById, DocumentsOf, Store!Members
<1>7. StoreSize' = Store!Recount(documents')
  BY DEF Counted, Store!Recount, Store!Members
<1> QED
  BY <1>3, <1>4, <1>5, <1>6, <1>7 DEF Store!Close, StoreConfig, StoreRetired, StoreSize,
                                      StoreAsked, Pending
-----------------------------------------------------------------------------
(* A statement on documents changes nothing of a collection but its count. *)
LEMMA ConfigKept ==
    ASSUME DbInv, issued' = issued,
           \A c \in CollectionId :
               \/ collections[c]' = collections[c]
               \/ \E n \in Int : /\ Live(c)
                                 /\ collections[c]' = [collections[c] EXCEPT !.document_count = n]
    PROVE  StoreConfig' = StoreConfig /\ StoreRetired' = StoreRetired
<1>1. ASSUME NEW c \in CollectionId
      PROVE  /\ Live(c)' <=> Live(c)
             /\ Live(c) => collections[c].config' = collections[c].config
  <2>1. ASSUME NEW n \in Int, Live(c),
               collections[c]' = [collections[c] EXCEPT !.document_count = n]
        PROVE  /\ Live(c)' <=> Live(c)
               /\ Live(c) => collections[c].config' = collections[c].config
    <3>1. collections[c] \in CollectionRow
      BY <2>1 DEF DbInv, DbTypeOK, Live
    <3>2. collections[c]' \in CollectionRow /\ collections[c].config' = collections[c].config
      BY <2>1, <3>1 DEF CollectionRow
    <3> QED  BY <2>1, <3>2, NoneAssumption DEF Live
  <2> QED  BY <2>1 DEF Live
<1>2. StoreConfig' = StoreConfig
  BY <1>1 DEF StoreConfig
<1>3. StoreRetired' = StoreRetired
  BY <1>1 DEF StoreRetired, DbInv, DbTypeOK
<1> QED  BY <1>2, <1>3

(* A step of one request leaves the others where they are.                 *)
LEMMA OthersStay ==
    ASSUME Inv, NEW r \in Rpc, NEW s \in Rpc \ {r}, Begin(s) \/ Step(s)
    PROVE  UNCHANGED <<pc[r], req[r]>>
<1>1. pc \in [Rpc -> Places] /\ req \in [Rpc -> Request \cup {None}]
  BY DEF Inv, Typed
<1>2. ASSUME NEW config, Continue(s, config)
      PROVE  UNCHANGED <<pc[r], req[r]>>
  BY <1>1, <1>2 DEF Continue, Answer
<1>3. CASE Begin(s)
  BY <1>1, <1>3 DEF Begin
<1>4. CASE Lookup(s)
  BY <1>1, <1>2, <1>4 DEF Lookup
<1>5. CASE Load(s)
  BY <1>1, <1>5 DEF Load, Answer
<1>6. CASE Fill(s)
  BY <1>2, <1>6 DEF Fill
<1>7. CASE Embed(s)
  BY <1>1, <1>7 DEF Embed, Answer
<1>8. CASE Statement(s) \/ Fail(s)
  BY <1>1, <1>8 DEF Statement, Fail, Answer
<1> QED  BY <1>3, <1>4, <1>5, <1>6, <1>7, <1>8 DEF Step

(* What the requests ask for changes only when they do.                    *)
LEMMA AskedKept == ASSUME UNCHANGED <<pc, req>> PROVE StoreAsked' = StoreAsked
  BY DEF StoreAsked, Pending, Active, Writes, WriteOf

LEMMA WriteTyped ==
    ASSUME NEW q \in Request, Writes(q)
    PROVE  WriteOf(q) \in Store!Write
<1>1. q.op \in Inserts \cup {"UpsertDocument", "BatchDelete"}
  BY DEF Request, Operations, Writes
<1>2. KindOf(q.op) \in {"add", "put", "remove"}
  BY <1>1 DEF KindOf, Inserts
<1> QED  BY <1>2 DEF Request, WriteOf, Store!Write

LEMMA PendingTyped ==
    ASSUME NEW r \in Rpc, req[r] \in Request \cup {None}, Active(r) => req[r] # None
    PROVE  Pending(r) \in Store!Write \cup {None}
  BY WriteTyped DEF Pending

(* The tables of the catalog stay if those of the database do.             *)
LEMMA TablesKept ==
    ASSUME UNCHANGED dbVars
    PROVE  UNCHANGED <<StoreConfig, documents, StoreSize, StoreRetired>>
  BY DEF dbVars, StoreConfig, StoreSize, StoreRetired, Live

LEMMA Stutter == ASSUME UNCHANGED dbVars, StoreAsked' = StoreAsked PROVE UNCHANGED Store!vars
  BY TablesKept DEF Store!vars, StoreConfig, StoreSize, StoreRetired, StoreAsked, Pending

(* A request that touches no table asks, gives up or leaves the catalog as *)
(* it is.                                                                  *)
LEMMA QuietStep ==
    ASSUME UNCHANGED dbVars, NEW r \in Rpc,
           \A s \in Rpc \ {r} : UNCHANGED <<pc[s], req[s]>>,
           Pending(r)' \in Store!Write \cup {None},
           \/ Pending(r) = None
           \/ Pending(r)' = None
           \/ Pending(r)' = Pending(r)
    PROVE  [Store!Next]_(Store!vars)
<1>1. \A s \in Rpc \ {r} : Pending(s)' = Pending(s)
  BY DEF Pending, Active, Writes, WriteOf
<1>2. UNCHANGED <<StoreConfig, documents, StoreSize, StoreRetired>>
  BY TablesKept
<1>3. CASE Pending(r) = None /\ Pending(r)' \in Store!Write
  <2>1. StoreAsked[r] = None /\ StoreAsked'[r] \in Store!Write
    BY <1>3 DEF StoreAsked
  <2>2. StoreAsked' = [StoreAsked EXCEPT ![r] = StoreAsked'[r]]
    <3>1. \A s \in Rpc : StoreAsked'[s] =
              IF s = r THEN StoreAsked'[r] ELSE StoreAsked[s]
      BY <1>1 DEF StoreAsked
    <3>2. StoreAsked' = [s \in Rpc |-> StoreAsked'[s]]
          /\ StoreAsked = [s \in Rpc |-> StoreAsked[s]]
      BY DEF StoreAsked
    <3> HIDE DEF StoreAsked
    <3> QED  BY <3>1, <3>2
  <2>3. Store!Ask(r)
    BY <1>2, <2>1, <2>2 DEF Store!Ask, StoreConfig, StoreSize, StoreRetired, StoreAsked, Pending
  <2> QED  BY <2>3 DEF Store!Next
<1>4. CASE Pending(r)' = None
  <2>1. StoreAsked' = [s \in Rpc |-> IF s \in {r} THEN None ELSE StoreAsked[s]]
    BY <1>1, <1>4 DEF StoreAsked
  <2>2. Store!GiveUp({r})
    BY <1>2, <2>1 DEF Store!GiveUp, StoreConfig, StoreSize, StoreRetired, StoreAsked, Pending
  <2>3. {r} \in SUBSET Rpc
    OBVIOUS
  <2> QED  BY <2>2, <2>3 DEF Store!Next
<1>5. CASE Pending(r)' = Pending(r)
  <2>1. StoreAsked' = StoreAsked
    BY <1>1, <1>5 DEF StoreAsked
  <2> QED  BY <2>1, Stutter
<1> QED  BY <1>3, <1>4, <1>5

(* A request asks at most once, and what it asks for stays what it asked.  *)
LEMMA PendingStep ==
    ASSUME Inv, NEW r \in Rpc,
           Begin(r) \/ Lookup(r) \/ Load(r) \/ Fill(r) \/ Embed(r) \/ Fail(r)
    PROVE  Pending(r) = None \/ Pending(r)' = None \/ Pending(r)' = Pending(r)
<1>1. pc \in [Rpc -> Places] /\ req \in [Rpc -> Request \cup {None}] /\ RpcOK(r)
  BY DEF Inv, Typed, RpcsOK
<1>2. ASSUME NEW outcome \in Answers, Answer(r, outcome)
      PROVE  Pending(r)' = None
  BY <1>1, <1>2 DEF Answer, Pending, Active
<1>3. ASSUME NEW config, Continue(r, config)
      PROVE  Pending(r) = None \/ Pending(r)' = None \/ Pending(r)' = Pending(r)
  <2>1. CASE req[r].goal = "statement" /\ pc' = [pc EXCEPT ![r] = "statement"] /\ UNCHANGED req
    BY <1>1, <2>1 DEF Pending, Active, Answers, Writes
  <2>2. CASE req[r].goal # "statement"
    BY <2>2 DEF Pending, Writes
  <2> QED  BY <1>2, <1>3, <2>1, <2>2 DEF Continue, Answers
<1>4. CASE Begin(r)
  BY <1>4 DEF Begin, Pending
<1>5. CASE Lookup(r)
  <2>1. CASE pc' = [pc EXCEPT ![r] = "load"] /\ UNCHANGED req
    BY <1>1, <1>5, <2>1 DEF Lookup, Pending, Active, Answers, Writes, WriteOf
  <2> QED  BY <1>3, <1>5, <2>1 DEF Lookup
<1>6. CASE Load(r)
  <2>1. CASE pc' = [pc EXCEPT ![r] = "fill"] /\ UNCHANGED req
    BY <1>1, <1>6, <2>1 DEF Load, Pending, Active, Answers, Writes, WriteOf
  <2> QED  BY <1>2, <1>6, <2>1 DEF Load, Answers
<1>7. CASE Fill(r)
  BY <1>3, <1>7 DEF Fill
<1>8. CASE Embed(r)
  BY <1>1, <1>8 DEF Embed, RpcOK, Pending, Writes
<1>9. CASE Fail(r)
  BY <1>2, <1>9 DEF Fail, Answers
<1> QED  BY <1>4, <1>5, <1>6, <1>7, <1>8, <1>9

(* A request at its statement asks for what the statement writes, and its  *)
(* answer settles it.                                                      *)
LEMMA StatementAsks ==
    ASSUME Inv, NEW r \in Rpc, Statement(r), req[r].op \notin Reads
    PROVE  /\ StoreAsked[r] = WriteOf(req[r])
           /\ WriteOf(req[r]) \in Store!Write
           /\ StoreAsked' = [StoreAsked EXCEPT ![r] = None]
<1>1. /\ pc \in [Rpc -> Places] /\ req \in [Rpc -> Request \cup {None}]
      /\ pc[r] = "statement" /\ Active(r) /\ req[r] \in Request /\ Writes(req[r])
  BY DEF Inv, Typed, RpcsOK, RpcOK, Statement, Active, Answers, Writes
<1>2. StoreAsked[r] = WriteOf(req[r])
  BY <1>1 DEF StoreAsked, Pending
<1>3. PICK outcome \in Answers : Answer(r, outcome)
  BY DEF Statement
<1>4. Pending(r)' = None
  BY <1>1, <1>3 DEF Answer, Pending, Active
<1>5. \A s \in Rpc \ {r} : Pending(s)' = Pending(s)
  BY <1>1, <1>3 DEF Answer, Pending, Active, Writes, WriteOf
<1>6. StoreAsked' = [StoreAsked EXCEPT ![r] = None]
  BY <1>4, <1>5 DEF StoreAsked
<1> QED  BY <1>1, <1>2, <1>6, WriteTyped
-----------------------------------------------------------------------------
(* As many rows enter as the request has vectors.                          *)
LEMMA AsManyRowsAsVectors ==
    ASSUME NEW q \in Request, NEW newRows \in NewRows(q)
    PROVE  Cardinality(DOMAIN newRows) = Cardinality(DOMAIN q.vectors)
<1>1. PICK pick \in Injection(DOMAIN q.vectors, Unused) : DOMAIN newRows = Range(pick)
  BY DEF NewRows
<1>2. pick \in Bijection(DOMAIN q.vectors, Range(pick))
  <2>1. pick \in [DOMAIN q.vectors -> Unused] /\ IsInjective(pick)
    BY <1>1 DEF Injection
  <2>2. pick \in [DOMAIN q.vectors -> Range(pick)]
    BY <2>1 DEF Range
  <2>3. \A t \in Range(pick) : \E s \in DOMAIN q.vectors : pick[s] = t
    BY <2>1 DEF Range
  <2> QED  BY <2>1, <2>2, <2>3 DEF Bijection, Injection, Surjection
<1>3. IsFiniteSet(DOMAIN q.vectors)
  <2>1. PICK n \in Nat : DOMAIN q.vectors = 1..n
    BY VectorsTyped DEF Request
  <2> QED  BY <2>1, FS_Interval
<1> QED  BY <1>1, <1>2, <1>3, FS_Bijection DEF ExistsBijection

(* Rows inserted into a collection leave every configuration as it is.     *)
LEMMA RowsEnter ==
    ASSUME DbInv, NEW c \in CollectionId, NEW S \in SUBSET DocumentId, S # {},
           NEW newRows \in [S -> DocumentRow], InsertDocuments(newRows),
           \A d \in S : newRows[d].collection_id = c
    PROVE  /\ Live(c)
           /\ StoreConfig[c] = collections[c].config /\ StoreConfig[c] # None
           /\ \A d \in S : documents[d] = None
           /\ documents' = [d \in DocumentId |-> IF d \in S THEN newRows[d] ELSE documents[d]]
           /\ StoreConfig' = StoreConfig /\ StoreRetired' = StoreRetired
<1>1. DOMAIN newRows = S /\ issued' = issued
  BY DEF InsertDocuments
<1>2. Live(c)
  BY <1>1 DEF InsertDocuments
<1>3. StoreConfig[c] = collections[c].config /\ StoreConfig[c] # None
  BY <1>2, NoneAssumption DEF StoreConfig, DbInv, DbTypeOK, Live, CollectionRow
<1>4. \A d \in S : documents[d] = None
  BY <1>1 DEF InsertDocuments, Unused
<1>5. documents' = [d \in DocumentId |-> IF d \in S THEN newRows[d] ELSE documents[d]]
  BY <1>1 DEF InsertDocuments
<1>6. \A o \in CollectionId :
          \/ collections[o]' = collections[o]
          \/ \E n \in Int : /\ Live(o)
                            /\ collections[o]' = [collections[o] EXCEPT !.document_count = n]
  <2> SUFFICES ASSUME NEW o \in CollectionId, Live(o)
               PROVE  \E n \in Int :
                         collections[o]' = [collections[o] EXCEPT !.document_count = n]
    BY DEF InsertDocuments, IncrementDocumentCount, Live
  <2> DEFINE added == {d \in DOMAIN newRows : newRows[d].collection_id = o}
  <2>1. Cardinality(added) \in Nat
    <3>1. added \in SUBSET DocumentId
      BY <1>1
    <3> QED  BY <3>1, FS_Subset, FS_CardinalityType, DocumentIdAssumption
  <2>2. collections[o].document_count \in Int
    BY DEF DbInv, DbTypeOK, Live, CollectionRow
  <2>3. collections[o].document_count + Cardinality(added) \in Int
    BY <2>1, <2>2
  <2>4. collections[o]' = [collections[o] EXCEPT !.document_count = @ + Cardinality(added)]
    BY DEF InsertDocuments, IncrementDocumentCount
  <2> QED  BY <2>3, <2>4
<1>7. StoreConfig' = StoreConfig /\ StoreRetired' = StoreRetired
  BY <1>1, <1>6, ConfigKept
<1> QED  BY <1>2, <1>3, <1>4, <1>5, <1>7

(* Rows deleted leave every configuration as it is.                        *)
LEMMA RowsLeave ==
    ASSUME DbInv, NEW S \in SUBSET DocumentId, DeleteDocuments(S)
    PROVE  /\ documents' = [d \in DocumentId |-> IF d \in S THEN None ELSE documents[d]]
           /\ StoreConfig' = StoreConfig /\ StoreRetired' = StoreRetired
<1>1. \A o \in CollectionId :
          \/ collections[o]' = collections[o]
          \/ \E n \in Int : /\ Live(o)
                            /\ collections[o]' = [collections[o] EXCEPT !.document_count = n]
  <2> SUFFICES ASSUME NEW o \in CollectionId, Live(o)
               PROVE  \E n \in Int :
                         collections[o]' = [collections[o] EXCEPT !.document_count = n]
    BY DEF DeleteDocuments, DecrementDocumentCount, Live
  <2> DEFINE removed == S \cap DocumentsOf(o)
  <2>1. Cardinality(removed) \in Nat
    BY DocumentsOfFinite, FS_Subset, FS_CardinalityType
  <2>2. collections[o].document_count \in Int
    BY DEF DbInv, DbTypeOK, Live, CollectionRow
  <2>3. collections[o].document_count - Cardinality(removed) \in Int
    BY <2>1, <2>2
  <2>4. collections[o]' = [collections[o] EXCEPT !.document_count = @ - Cardinality(removed)]
    BY DEF DeleteDocuments, DecrementDocumentCount
  <2> QED  BY <2>3, <2>4
<1>2. issued' = issued
  BY DEF DeleteDocuments
<1>3. StoreConfig' = StoreConfig /\ StoreRetired' = StoreRetired
  BY <1>1, <1>2, ConfigKept
<1> QED  BY <1>3 DEF DeleteDocuments

LEMMA Recounted == ASSUME Counted' PROVE StoreSize' = Store!Recount(documents')
  BY DEF Counted, Store!Recount, Store!Members
-----------------------------------------------------------------------------
(* The statement of an insert: the whole batch enters, and the request is  *)
(* settled.                                                                *)
LEMMA AddStep ==
    ASSUME Inv, NEW r \in Rpc, Statement(r), req[r].op \in Inserts, Counted',
           NEW newRows \in NewRows(req[r]), InsertDocuments(newRows), DOMAIN newRows # {}
    PROVE  Store!Add(r)
<1> DEFINE q == req[r]
           S == DOMAIN newRows
           c == q.collection_id
<1>1. q \in Request /\ c \in CollectionId /\ Checked(q) /\ DbInv /\ q.op \notin Reads
  BY DEF Inv, Typed, RpcsOK, RpcOK, Active, Answers, Statement, Request, Inserts, Reads, Searches
<1>2. /\ S \in SUBSET DocumentId
      /\ newRows \in [S -> DocumentRow]
      /\ \A d \in S : /\ newRows[d].collection_id = c
                      /\ newRows[d].vector_dims = collections[c].config.dimension
  BY <1>1, InsertedRows
<1>3. /\ Live(c)
      /\ StoreConfig[c] = collections[c].config /\ StoreConfig[c] # None
      /\ \A d \in S : documents[d] = None
      /\ documents' = [d \in DocumentId |-> IF d \in S THEN newRows[d] ELSE documents[d]]
      /\ StoreConfig' = StoreConfig /\ StoreRetired' = StoreRetired
  <2> HIDE DEF S, c
  <2> QED  BY <1>1, <1>2, RowsEnter DEF S
<1>4. /\ StoreAsked[r] = WriteOf(q) /\ WriteOf(q) \in Store!Write
      /\ StoreAsked' = [StoreAsked EXCEPT ![r] = None]
  BY <1>1, StatementAsks
<1>5. /\ WriteOf(q).kind = "add" /\ WriteOf(q).collection_id = c
      /\ WriteOf(q).vectors = q.vectors
  BY DEF WriteOf, KindOf, Inserts
<1>6. \A i \in DOMAIN q.vectors : q.vectors[i] = StoreConfig[c].dimension
  BY <1>1, <1>3 DEF Checked, Fits
<1>7. \A d \in S : newRows[d] = [collection_id |-> c, vector_dims |-> StoreConfig[c].dimension]
  BY <1>2, <1>3 DEF DocumentRow
<1>8. Store!Cardinality(S) = Store!Cardinality(DOMAIN q.vectors)
  BY <1>1, AsManyRowsAsVectors, StoreCardinality
<1>9. StoreSize' = Store!Recount(documents')
  BY Recounted
<1>10. Store!Asks(r, "add")
  BY <1>4, <1>5 DEF Store!Asks, StoreAsked, Pending
<1>11. Store!Fitting(StoreAsked[r])
  <2>1. StoreConfig[WriteOf(q).collection_id] # None
    BY <1>3, <1>5
  <2>2. \A i \in DOMAIN WriteOf(q).vectors :
           WriteOf(q).vectors[i] = StoreConfig[WriteOf(q).collection_id].dimension
    BY <1>5, <1>6
  <2>3. Store!Fitting(WriteOf(q))
    BY <2>1, <2>2 DEF Store!Fitting, StoreConfig
  <2> QED  BY <1>4, <2>3
<1>12. \E T \in SUBSET DocumentId :
          /\ Store!Cardinality(T) = Store!Cardinality(DOMAIN StoreAsked[r].vectors)
          /\ \A d \in T : documents[d] = None
          /\ documents' = [d \in DocumentId |->
                 IF d \in T
                 THEN Store!Entry(StoreAsked[r], StoreConfig[StoreAsked[r].collection_id].dimension)
                 ELSE documents[d]]
  <2>1. Store!Entry(StoreAsked[r], StoreConfig[c].dimension) =
            [collection_id |-> c, vector_dims |-> StoreConfig[c].dimension]
    BY <1>4, <1>5 DEF Store!Entry
  <2>2. StoreAsked[r].vectors = q.vectors /\ StoreAsked[r].collection_id = c
    BY <1>4, <1>5
  <2>3. documents' = [d \in DocumentId |->
            IF d \in S THEN Store!Entry(StoreAsked[r], StoreConfig[c].dimension)
            ELSE documents[d]]
    BY <1>3, <1>7, <2>1
  <2> HIDE DEF S, c, q
  <2> QED  BY <1>2, <1>3, <1>8, <2>2, <2>3
<1>13. Store!Settle(r)
  BY <1>3, <1>4, <1>9 DEF Store!Settle, StoreConfig, StoreSize, StoreRetired, StoreAsked, Pending
<1> QED
  BY <1>10, <1>11, <1>12, <1>13 DEF Store!Add, StoreConfig, StoreAsked, Pending

(* The statement of an upsert: a row added, or a vector overwritten.       *)
LEMMA PutStep ==
    ASSUME Inv, NEW r \in Rpc, Statement(r), req[r].op = "UpsertDocument", Counted',
           NEW d \in req[r].ids, UpsertDocument(d, NewRow(req[r], 1))
    PROVE  Store!Put(r)
<1> DEFINE q == req[r]
           c == q.collection_id
           row1 == NewRow(q, 1)
<1>1. /\ q \in Request /\ c \in CollectionId /\ d \in DocumentId
      /\ Checked(q) /\ Shaped(q) /\ DbInv /\ q.op \notin Reads
  BY DEF Inv, Typed, RpcsOK, RpcOK, Active, Answers, Statement, Request, Reads, Searches
<1>2. /\ q.vectors[1] \in VectorLength \ {0} /\ DOMAIN q.vectors = {1}
      /\ row1 = [collection_id |-> c, vector_dims |-> q.vectors[1]]
      /\ row1 \in DocumentRow
  <2>1. q.vectors[1] \in VectorLength \ {0} /\ DOMAIN q.vectors = {1}
    BY <1>1, VectorLengthAssumption DEF Shaped
  <2> QED  BY <1>1, <2>1 DEF NewRow, DocumentRow, StorableLength
<1>3. /\ StoreAsked[r] = WriteOf(q) /\ WriteOf(q) \in Store!Write
      /\ StoreAsked' = [StoreAsked EXCEPT ![r] = None]
  BY <1>1, StatementAsks
<1>4. /\ WriteOf(q).kind = "put" /\ WriteOf(q).collection_id = c
      /\ WriteOf(q).vectors = q.vectors /\ WriteOf(q).ids = q.ids
  BY DEF WriteOf, KindOf, Inserts
<1>5. Store!Asks(r, "put")
  BY <1>3, <1>4 DEF Store!Asks, StoreAsked, Pending
<1>6. StoreSize' = Store!Recount(documents')
  BY Recounted
<1>7. ASSUME Live(c)
      PROVE  Store!Fitting(StoreAsked[r])
  <2>1. StoreConfig[c] = collections[c].config /\ StoreConfig[c] # None
    BY <1>1, <1>7, NoneAssumption DEF StoreConfig, DbInv, DbTypeOK, Live, CollectionRow
  <2>2. \A i \in DOMAIN q.vectors : q.vectors[i] = StoreConfig[c].dimension
    BY <1>1, <1>7, <2>1 DEF Checked, Fits
  <2>3. Store!Fitting(WriteOf(q))
    BY <1>4, <2>1, <2>2 DEF Store!Fitting, StoreConfig
  <2> QED  BY <1>3, <2>3
<1>8. CASE documents[d] = None /\ InsertDocuments([x \in {d} |-> row1])
  <2> DEFINE newRows == [x \in {d} |-> row1]
  <2>1. newRows \in [{d} -> DocumentRow] /\ {d} \in SUBSET DocumentId /\ {d} # {}
    BY <1>1, <1>2
  <2>2. newRows[d] = row1 /\ \A x \in {d} : newRows[x].collection_id = c
    BY <1>2
  <2>3. /\ Live(c)
        /\ documents' = [x \in DocumentId |-> IF x \in {d} THEN newRows[x] ELSE documents[x]]
        /\ StoreConfig' = StoreConfig /\ StoreRetired' = StoreRetired
    <3>1. InsertDocuments(newRows)
      BY <1>8
    <3> HIDE DEF newRows, c
    <3> QED  BY <1>1, <2>1, <2>2, <3>1, RowsEnter
  <2>4. documents' = [documents EXCEPT ![d] = Store!Entry(StoreAsked[r], StoreAsked[r].vectors[1])]
    <3>1. Store!Entry(StoreAsked[r], StoreAsked[r].vectors[1]) = row1
      BY <1>2, <1>3, <1>4 DEF Store!Entry
    <3>2. documents \in [DocumentId -> DocumentRow \cup {None}]
      BY <1>1 DEF DbInv, DbTypeOK
    <3> QED  BY <2>2, <2>3, <3>1, <3>2
  <2>5. Store!Settle(r)
    BY <1>3, <1>6, <2>3 DEF Store!Settle, StoreConfig, StoreSize, StoreRetired, StoreAsked, Pending
  <2>6. d \in StoreAsked[r].ids /\ Store!Fitting(StoreAsked[r])
    BY <1>3, <1>4, <1>7, <2>3
  <2> QED  BY <1>5, <1>8, <2>4, <2>5, <2>6 DEF Store!Put, StoreAsked, Pending
<1>9. CASE /\ documents[d] # None
           /\ documents' = [documents EXCEPT ![d].vector_dims = row1.vector_dims]
           /\ UNCHANGED <<collections, issued>>
  <2>1. StoreConfig' = StoreConfig /\ StoreRetired' = StoreRetired
    BY <1>9 DEF StoreConfig, StoreRetired, Live
  <2>2. Store!Settle(r)
    BY <1>3, <1>6, <2>1 DEF Store!Settle, StoreConfig, StoreSize, StoreRetired, StoreAsked, Pending
  <2>3. documents[d].collection_id = StoreAsked[r].collection_id => Store!Fitting(StoreAsked[r])
    <3> SUFFICES ASSUME documents[d].collection_id = StoreAsked[r].collection_id
                 PROVE  Store!Fitting(StoreAsked[r])
      OBVIOUS
    <3>1. documents[d].collection_id = c
      BY <1>3, <1>4
    <3>2. Live(documents[d].collection_id)
      BY <1>1, <1>9 DEF DbInv, NoOrphans
    <3> QED  BY <1>7, <3>1, <3>2
  <2>4. documents' = [documents EXCEPT ![d].vector_dims = StoreAsked[r].vectors[1]]
    <3>1. StoreAsked[r].vectors[1] = q.vectors[1]
      BY <1>3, <1>4
    <3>2. row1.vector_dims = q.vectors[1]
      BY DEF NewRow
    <3> QED  BY <1>9, <3>1, <3>2
  <2>5. d \in StoreAsked[r].ids
    BY <1>3, <1>4
  <2> QED  BY <1>5, <1>9, <2>2, <2>3, <2>4, <2>5 DEF Store!Put, StoreAsked, Pending
<1> QED  BY <1>8, <1>9 DEF UpsertDocument

(* The statement of a batch delete: those of its ids found there leave.    *)
LEMMA RemoveStep ==
    ASSUME Inv, NEW r \in Rpc, Statement(r), req[r].op = "BatchDelete", Counted',
           DeleteDocuments(req[r].ids \cap DocumentsOf(req[r].collection_id))
    PROVE  Store!Remove(r)
<1> DEFINE q == req[r]
<1>1. DbInv /\ q.op \notin Reads
  BY DEF Inv, Reads, Searches
<1>2. /\ StoreAsked[r] = WriteOf(q) /\ WriteOf(q) \in Store!Write
      /\ StoreAsked' = [StoreAsked EXCEPT ![r] = None]
  BY <1>1, StatementAsks
<1>3. /\ WriteOf(q).kind = "remove" /\ WriteOf(q).ids = q.ids
      /\ WriteOf(q).collection_id = q.collection_id
  BY DEF WriteOf, KindOf, Inserts
<1>4. Store!Asks(r, "remove")
  BY <1>2, <1>3 DEF Store!Asks, StoreAsked, Pending
<1>5. q.ids \cap DocumentsOf(q.collection_id) \in SUBSET DocumentId
  BY DEF DocumentsOf
<1>6. /\ documents' = [d \in DocumentId |->
                          IF d \in q.ids \cap DocumentsOf(q.collection_id) THEN None
                          ELSE documents[d]]
      /\ StoreConfig' = StoreConfig /\ StoreRetired' = StoreRetired
  BY <1>1, <1>5, RowsLeave
<1>7. DocumentsOf(q.collection_id) = Store!Members(StoreAsked[r].collection_id, documents)
  BY <1>2, <1>3 DEF DocumentsOf, Store!Members
<1>8. documents' = [d \in DocumentId |->
          IF d \in StoreAsked[r].ids \cap Store!Members(StoreAsked[r].collection_id, documents)
          THEN None ELSE documents[d]]
  BY <1>2, <1>3, <1>6, <1>7
<1>9. StoreSize' = Store!Recount(documents')
  BY Recounted
<1>10. Store!Settle(r)
  BY <1>2, <1>6, <1>9 DEF Store!Settle, StoreConfig, StoreSize, StoreRetired, StoreAsked, Pending
<1> QED  BY <1>4, <1>8, <1>10 DEF Store!Remove, StoreAsked, Pending

LEMMA RemoveOneStep ==
    ASSUME DbInv, NEW d \in DocumentId, documents[d] # None, DeleteDocuments({d}), Counted',
           StoreAsked' = StoreAsked
    PROVE  Store!RemoveOne(d)
<1>1. /\ documents' = [x \in DocumentId |-> IF x \in {d} THEN None ELSE documents[x]]
      /\ StoreConfig' = StoreConfig /\ StoreRetired' = StoreRetired
  BY RowsLeave
<1>2. documents' = [documents EXCEPT ![d] = None]
  BY <1>1 DEF DbInv, DbTypeOK
<1>3. StoreSize' = Store!Recount(documents')
  BY Recounted
<1> QED
  BY <1>1, <1>2, <1>3 DEF Store!RemoveOne, StoreConfig, StoreSize, StoreRetired, StoreAsked, Pending
-----------------------------------------------------------------------------
(* An insert of no vectors inserts nothing.                                *)
LEMMA NoRows ==
    ASSUME DbInv, NEW newRows, DOMAIN newRows = {}, InsertDocuments(newRows)
    PROVE  UNCHANGED dbVars
<1>1. documents' = documents /\ issued' = issued
  BY DEF InsertDocuments, DbInv, DbTypeOK
<1>2. ASSUME NEW c \in CollectionId, Live(c)
      PROVE  collections[c]' = collections[c]
  <2>1. {d \in DOMAIN newRows : newRows[d].collection_id = c} = {}
    OBVIOUS
  <2>2. collections[c]' = [collections[c] EXCEPT !.document_count = @ + 0]
    BY <1>2, <2>1, FS_EmptySet DEF InsertDocuments, IncrementDocumentCount
  <2>3. collections[c] \in CollectionRow
    BY <1>2 DEF DbInv, DbTypeOK, Live
  <2> QED  BY <2>2, <2>3 DEF CollectionRow
<1>3. collections' = collections
  BY <1>2 DEF InsertDocuments, IncrementDocumentCount, DbInv, DbTypeOK, Live
<1> QED  BY <1>1, <1>3 DEF dbVars

LEMMA StatementImplements ==
    ASSUME Inv, NEW r \in Rpc, Statement(r), Counted',
           \A s \in Rpc \ {r} : UNCHANGED <<pc[s], req[s]>>
    PROVE  [Store!Next]_(Store!vars)
<1>1. ASSUME UNCHANGED dbVars
      PROVE  [Store!Next]_(Store!vars)
  <2>1. Pending(r)' = None
    BY DEF Statement, Answer, Pending, Active, Inv, Typed
  <2> QED  BY <1>1, <2>1, QuietStep
<1>2. CASE InsertStatement(req[r])
  <2>1. PICK newRows \in NewRows(req[r]) : InsertDocuments(newRows)
    BY <1>2 DEF InsertStatement
  <2>2. CASE DOMAIN newRows = {}
    BY <1>1, <2>1, <2>2, NoRows DEF Inv
  <2>3. CASE DOMAIN newRows # {}
    <3>1. Store!Add(r)
      BY <1>2, <2>1, <2>3, AddStep DEF InsertStatement
    <3> QED  BY <3>1 DEF Store!Next
  <2> QED  BY <2>2, <2>3
<1>3. CASE UpsertStatement(req[r])
  <2>1. Store!Put(r)
    BY <1>3, PutStep DEF UpsertStatement
  <2> QED  BY <2>1 DEF Store!Next
<1>4. CASE BatchDeleteStatement(req[r])
  <2>1. Store!Remove(r)
    BY <1>4, RemoveStep DEF BatchDeleteStatement
  <2> QED  BY <2>1 DEF Store!Next
<1>5. CASE ReadStatement(req[r])
  BY <1>1, <1>5 DEF ReadStatement
<1> QED  BY <1>2, <1>3, <1>4, <1>5 DEF Statement

LEMMA ImplementationStep ==
    ASSUME Inv, [Next]_vars
    PROVE  [Store!Next]_(Store!vars)
<1>1. DbInv /\ Counted /\ Counted' /\ Inv'
  BY DbStep, CountedBothTimes, NextInv DEF Inv
<1>2. ASSUME NEW r \in Rpc, Begin(r) \/ Step(r)
      PROVE  [Store!Next]_(Store!vars)
  <2>1. \A s \in Rpc \ {r} : UNCHANGED <<pc[s], req[s]>>
    BY <1>2, OthersStay
  <2>2. CASE Statement(r)
    BY <1>1, <2>1, <2>2, StatementImplements
  <2>3. CASE Begin(r) \/ Lookup(r) \/ Load(r) \/ Fill(r) \/ Embed(r) \/ Fail(r)
    <3>1. Pending(r)' \in Store!Write \cup {None}
      <4>1. req[r]' \in Request \cup {None} /\ (Active(r)' => req[r]' # None)
        BY <1>1 DEF Inv, Typed, RpcsOK, RpcOK
      <4>2. Writes(req[r])' <=> Writes(req[r]')
        BY DEF Writes
      <4> QED  BY <4>1, WriteTyped DEF Pending, Writes, WriteOf
    <3>2. UNCHANGED dbVars
      BY <2>3 DEF Begin, Lookup, Load, Fill, Embed, Fail
    <3>3. Pending(r) = None \/ Pending(r)' = None \/ Pending(r)' = Pending(r)
      BY <2>3, PendingStep
    <3> QED  BY <2>1, <3>1, <3>2, <3>3, QuietStep
  <2> QED  BY <1>2, <2>2, <2>3 DEF Step
<1>3. CASE CreateCollection
  BY <1>1, <1>3, OpenStep, AskedKept DEF CreateCollection, serviceVars, Store!Next
<1>4. CASE DeleteCollection
  BY <1>1, <1>4, CloseStep, AskedKept DEF DeleteCollection, serviceVars, Store!Next
<1>5. CASE DeleteDocument
  BY <1>1, <1>5, RemoveOneStep, AskedKept DEF DeleteDocument, serviceVars, Store!Next
<1>6. CASE WarmFromDB
  BY <1>6, AskedKept, Stutter DEF WarmFromDB, WarmQuery, WarmLock, WarmScan, WarmEnd
<1>7. CASE Restart
  <2>1. \A r \in Rpc : Pending(r)' = None
    BY <1>7 DEF Restart, Pending, Active
  <2>2. StoreAsked' = [r \in Rpc |-> IF r \in Rpc THEN None ELSE StoreAsked[r]]
    BY <2>1 DEF StoreAsked
  <2>3. UNCHANGED <<StoreConfig, documents, StoreSize, StoreRetired>>
    BY <1>7, TablesKept DEF Restart
  <2>4. Store!GiveUp(Rpc)
    BY <2>2, <2>3 DEF Store!GiveUp, StoreConfig, StoreSize, StoreRetired, StoreAsked, Pending
  <2> QED  BY <2>4 DEF Store!Next
<1>8. CASE UNCHANGED vars
  BY <1>8, AskedKept, Stutter DEF vars, dbVars
<1> QED  BY <1>2, <1>3, <1>4, <1>5, <1>6, <1>7, <1>8 DEF Next

(* The server implements the catalog: whatever requests, the cache, its    *)
(* warm and restarts do, the write of a request takes effect whole, in the *)
(* step that settles it, or not at all; vectors enter at the dimension of  *)
(* their collection, configurations never change, ids are never reused and *)
(* sizes are the true counts.                                              *)
THEOREM ServerImplementsCatalog == Spec => ImplementsCatalog
<1>1. Init => Store!Init
  BY DEF Init, DbInit, Store!Init, Live, Active
<1>2. Inv /\ [Next]_vars => [Store!Next]_(Store!vars)
  BY ImplementationStep
<1> QED  BY <1>1, <1>2, SpecInv, PTL DEF Spec, ImplementsCatalog, Store!Spec
-----------------------------------------------------------------------------
(***************************************************************************)
(* Requests go forward: StepsLeft falls with every step of a request.      *)
(***************************************************************************)
Falls(r) == StepsLeft(r)' \in 0..(StepsLeft(r) - 1)

LEMMA StepsLeftOfRequest ==
    ASSUME Inv, NEW r \in Rpc, Active(r)
    PROVE  /\ pc[r] \in {"lookup", "load", "fill", "embed", "statement"}
           /\ req[r].goal \in Goals
           /\ StepsLeft(r) = StepsOfPlace(pc[r]) + StepsOfGoal(req[r].goal)
           /\ StepsOfPlace(pc[r]) \in 1..5 /\ StepsOfGoal(req[r].goal) \in 0..7
           /\ StepsLeft(r) \in Nat \ {0}
<1>1. pc[r] \in {"lookup", "load", "fill", "embed", "statement"}
  BY DEF Inv, Typed, Places, Active
<1>2. req[r] \in Request
  BY DEF Inv, Typed, RpcsOK, RpcOK
<1>3. req[r].goal \in Goals
  BY <1>2 DEF Request
<1>4. StepsLeft(r) = StepsOfPlace(pc[r]) + StepsOfGoal(req[r].goal)
  BY DEF StepsLeft
<1>5. StepsOfPlace(pc[r]) \in 1..5
  BY <1>1 DEF StepsOfPlace
<1>6. StepsOfGoal(req[r].goal) \in 0..7
  BY <1>3 DEF StepsOfGoal, Goals
<1> QED  BY <1>1, <1>3, <1>4, <1>5, <1>6

LEMMA AnswerFalls ==
    ASSUME Inv, NEW r \in Rpc, Active(r), NEW outcome \in Answers, Answer(r, outcome)
    PROVE  Falls(r)
<1>1. pc[r]' = outcome
  BY DEF Answer, Inv, Typed
<1>2. StepsLeft(r)' = 0
  BY <1>1 DEF StepsLeft, Active
<1>3. StepsLeft(r) \in Nat \ {0}
  BY StepsLeftOfRequest
<1> HIDE DEF StepsLeft
<1> QED  BY <1>2, <1>3 DEF Falls

(* What is left once a request is at a new place with a new goal.          *)
LEMMA MoveFalls ==
    ASSUME Inv, NEW r \in Rpc, Active(r),
           NEW place \in {"lookup", "load", "fill", "embed", "statement"}, NEW goal \in Goals,
           pc[r]' = place, req[r]'.goal = goal,
           StepsOfPlace(place) + StepsOfGoal(goal) <
               StepsOfPlace(pc[r]) + StepsOfGoal(req[r].goal)
    PROVE  Falls(r)
<1>1. StepsLeft(r)' = StepsOfPlace(place) + StepsOfGoal(goal)
  BY DEF StepsLeft, Active, Answers
<1>2. StepsOfPlace(place) \in Nat /\ StepsOfGoal(goal) \in Nat
  BY DEF StepsOfPlace, StepsOfGoal, Goals
<1>3. StepsLeft(r) = StepsOfPlace(pc[r]) + StepsOfGoal(req[r].goal) /\ StepsLeft(r) \in Nat
  BY StepsLeftOfRequest
<1> HIDE DEF StepsLeft
<1> QED  BY <1>1, <1>2, <1>3 DEF Falls

LEMMA ContinueFalls ==
    ASSUME Inv, NEW r \in Rpc, pc[r] \in {"lookup", "fill"}, NEW config, Continue(r, config)
    PROVE  Falls(r)
<1>1. Active(r) /\ pc \in [Rpc -> Places] /\ req \in [Rpc -> Request \cup {None}]
      /\ req[r] \in Request
  BY DEF Active, Answers, Inv, Typed, RpcsOK, RpcOK
<1>2. CASE Answer(r, "failed")
  BY <1>1, <1>2, AnswerFalls DEF Answers
<1>3. CASE /\ req[r].goal = "provider"
           /\ pc' = [pc EXCEPT ![r] = "embed"]
           /\ req' = [req EXCEPT ![r].goal = "dimension"]
  <2>1. pc[r]' = "embed" /\ req[r]'.goal = "dimension"
    BY <1>1, <1>3 DEF Request
  <2>2. StepsOfPlace("embed") + StepsOfGoal("dimension") <
            StepsOfPlace(pc[r]) + StepsOfGoal(req[r].goal)
    BY <1>3 DEF StepsOfPlace, StepsOfGoal
  <2> QED  BY <1>1, <2>1, <2>2, MoveFalls DEF Goals
<1>4. CASE /\ req[r].goal = "dimension"
           /\ pc' = [pc EXCEPT ![r] = "lookup"]
           /\ req' = [req EXCEPT ![r].goal = "statement"]
  <2>1. pc[r]' = "lookup" /\ req[r]'.goal = "statement"
    BY <1>1, <1>4 DEF Request
  <2>2. StepsOfPlace("lookup") + StepsOfGoal("statement") <
            StepsOfPlace(pc[r]) + StepsOfGoal(req[r].goal)
    BY <1>4 DEF StepsOfPlace, StepsOfGoal
  <2> QED  BY <1>1, <2>1, <2>2, MoveFalls DEF Goals
<1>5. CASE /\ req[r].goal = "statement"
           /\ pc' = [pc EXCEPT ![r] = "statement"]
           /\ UNCHANGED req
  <2>1. pc[r]' = "statement" /\ req[r]'.goal = "statement"
    BY <1>1, <1>5
  <2>2. StepsOfPlace("statement") + StepsOfGoal("statement") <
            StepsOfPlace(pc[r]) + StepsOfGoal(req[r].goal)
    BY <1>5 DEF StepsOfPlace, StepsOfGoal
  <2> QED  BY <1>1, <2>1, <2>2, MoveFalls DEF Goals
<1> QED  BY <1>2, <1>3, <1>4, <1>5 DEF Continue

LEMMA StepFalls ==
    ASSUME Inv, NEW r \in Rpc, Step(r)
    PROVE  Falls(r)
<1>1. /\ pc \in [Rpc -> Places] /\ req \in [Rpc -> Request \cup {None}]
      /\ Active(r) /\ req[r] \in Request /\ req[r].goal \in Goals
  <2>1. Active(r)
    BY DEF Step, Lookup, Load, Fill, Embed, Statement, Fail, Active, Answers
  <2> QED  BY <2>1, StepsLeftOfRequest DEF Inv, Typed, RpcsOK, RpcOK
<1>2. CASE Lookup(r)
  <2>1. CASE Continue(r, cache[req[r].collection_id])
    BY <1>2, <2>1, ContinueFalls DEF Lookup
  <2>2. CASE pc' = [pc EXCEPT ![r] = "load"] /\ UNCHANGED req
    <3>1. pc[r] = "lookup" /\ pc[r]' = "load" /\ req[r]'.goal = req[r].goal
      BY <1>1, <1>2, <2>2 DEF Lookup
    <3>2. StepsOfPlace("load") + StepsOfGoal(req[r].goal) <
              StepsOfPlace(pc[r]) + StepsOfGoal(req[r].goal)
      BY <1>1, <3>1, StepsLeftOfRequest DEF StepsOfPlace
    <3> QED  BY <1>1, <3>1, <3>2, MoveFalls
  <2> QED  BY <1>2, <2>1, <2>2 DEF Lookup
<1>3. CASE Load(r)
  <2>1. CASE pc' = [pc EXCEPT ![r] = "fill"] /\ UNCHANGED req
    <3>1. pc[r] = "load" /\ pc[r]' = "fill" /\ req[r]'.goal = req[r].goal
      BY <1>1, <1>3, <2>1 DEF Load
    <3>2. StepsOfPlace("fill") + StepsOfGoal(req[r].goal) <
              StepsOfPlace(pc[r]) + StepsOfGoal(req[r].goal)
      BY <1>1, <3>1, StepsLeftOfRequest DEF StepsOfPlace
    <3> QED  BY <1>1, <3>1, <3>2, MoveFalls
  <2>2. CASE Answer(r, "failed")
    BY <1>1, <2>2, AnswerFalls DEF Answers
  <2> QED  BY <1>3, <2>1, <2>2 DEF Load
<1>4. CASE Fill(r)
  BY <1>4, ContinueFalls DEF Fill
<1>5. CASE Embed(r)
  <2>1. ASSUME NEW embeddings, pc' = [pc EXCEPT ![r] = "lookup"],
               req' = [req EXCEPT ![r].vectors = embeddings]
        PROVE  Falls(r)
    <3>1. pc[r] = "embed" /\ pc[r]' = "lookup" /\ req[r]'.goal = req[r].goal
      BY <1>1, <1>5, <2>1 DEF Embed, Request
    <3>2. StepsOfPlace("lookup") + StepsOfGoal(req[r].goal) <
              StepsOfPlace(pc[r]) + StepsOfGoal(req[r].goal)
      BY <1>1, <3>1, StepsLeftOfRequest DEF StepsOfPlace
    <3> QED  BY <1>1, <3>1, <3>2, MoveFalls
  <2>2. CASE Answer(r, "ok")
    BY <1>1, <2>2, AnswerFalls DEF Answers
  <2> QED  BY <1>5, <2>1, <2>2 DEF Embed
<1>6. CASE Statement(r)
  BY <1>1, <1>6, AnswerFalls DEF Statement
<1>7. CASE Fail(r)
  BY <1>1, <1>7, AnswerFalls DEF Fail, Answers
<1> QED  BY <1>2, <1>3, <1>4, <1>5, <1>6, <1>7 DEF Step

LEMMA ForwardStep ==
    ASSUME Inv, [Next]_vars, NEW r \in Rpc, Active(r)
    PROVE  UNCHANGED <<pc[r], req[r]>> \/ Falls(r)
<1>1. ASSUME NEW s \in Rpc, Begin(s) \/ Step(s)
      PROVE  UNCHANGED <<pc[r], req[r]>> \/ Falls(r)
  BY <1>1, StepFalls, OthersStay DEF Begin
<1>2. CASE CreateCollection \/ DeleteCollection \/ DeleteDocument \/ UNCHANGED vars
  BY <1>2 DEF CreateCollection, DeleteCollection, DeleteDocument, serviceVars, vars
<1>3. CASE WarmFromDB
  BY <1>3 DEF WarmFromDB, WarmQuery, WarmLock, WarmScan, WarmEnd
<1>4. CASE Restart
  <2>1. pc[r]' = "idle"
    BY <1>4 DEF Restart
  <2>2. StepsLeft(r)' = 0
    BY <2>1 DEF StepsLeft, Active
  <2>3. StepsLeft(r) \in Nat \ {0}
    BY StepsLeftOfRequest
  <2> HIDE DEF StepsLeft
  <2> QED  BY <2>2, <2>3 DEF Falls
<1> QED  BY <1>1, <1>2, <1>3, <1>4 DEF Next

(* A request is answered after at most eleven steps of its own, whatever   *)
(* the other requests, the warm and the database do: no miss, no error and *)
(* no embedding sends it back to where it was.                             *)
THEOREM RequestsOnlyGoForward == Spec => RequestsGoForward
<1>1. Inv /\ [Next]_vars =>
          [\A r \in Rpc :
              Active(r) => \/ UNCHANGED <<pc[r], req[r]>>
                           \/ StepsLeft(r)' \in 0..(StepsLeft(r) - 1)]_vars
  BY ForwardStep DEF Falls
<1> QED  BY <1>1, SpecInv, PTL DEF Spec, RequestsGoForward
=============================================================================
