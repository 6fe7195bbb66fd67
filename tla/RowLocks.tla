------------------------------- MODULE RowLocks -----------------------------
(***************************************************************************)
(* The writing statements of internal/db as PostgreSQL executes them at    *)
(* READ COMMITTED, next to each other: each is a transaction on a          *)
(* connection of the pool, locks one row after the other and commits.  The *)
(* tables of Database hold what is committed.  In Database a statement is  *)
(* one step; here CommitsAreStatements says that it may be seen as one.    *)
(*                                                                         *)
(* A collection's row is locked for key share by the foreign-key check of  *)
(* an insert, for no key update by the triggers that count and for update  *)
(* by its deletion.  A document's row is locked by whoever writes it, in   *)
(* modes that all conflict.  A transaction that holds a lock on a row does *)
(* not queue for a stronger one behind those that wait for the row.        *)
(***************************************************************************)
EXTENDS Database

CONSTANTS
    Txn,           \* the transactions that may be open at once
    MaxOpenConns,  \* the connections of the pool
    BatchSize      \* the most documents of a batch

ASSUME RowLocksAssumption ==
    /\ MaxOpenConns \in Nat \ {0}
    /\ BatchSize \in Nat \ {0}
    /\ IsFiniteSet(Txn)
    /\ None \notin DocumentId
    /\ None \notin Int

VARIABLES
    stmt,      \* the statement of each transaction, or None
    at,        \* how far it is
    todo,      \* the rows found by a deletion and not locked yet
    next,      \* the one among them that it locks next
    written,   \* the document rows it wrote, None for one it deleted; all are locked
    lock,      \* its lock on the row of each collection
    newCount,  \* the document_count its trigger wrote, or None
    durable    \* the tables as of the last flush of the write-ahead log

txnVars == <<stmt, at, todo, next, written, lock, newCount>>

vars == <<collections, documents, issued, stmt, at, todo, next, written, lock,
          newCount, durable>>

Inserts == {"CreateDocument", "BatchInsert"}

DocumentDeletions == {"DeleteDocument", "BatchDelete"}

Deletions == DocumentDeletions \cup {"DeleteCollection"}

Operations == Inserts \cup Deletions \cup {"UpsertDocument"}

Places == {"idle", "queued", "begin", "check", "scan", "rows", "count", "commit"}

LockMode == {"none", "key share", "share", "no key update", "update"}

(* The row-level lock modes of PostgreSQL that exclude one another.        *)
Conflict(m, n) ==
    \/ m = "update" /\ n # "none"
    \/ n = "update" /\ m # "none"
    \/ m = "no key update" /\ n \in {"share", "no key update"}
    \/ n = "no key update" /\ m = "share"

NoLock == [c \in CollectionId |-> "none"]

NoRows == [d \in {} |-> None]

Tables == [collections |-> collections, documents |-> documents]

Init ==
    /\ DbInit
    /\ stmt = [t \in Txn |-> None]
    /\ at = [t \in Txn |-> "idle"]
    /\ todo = [t \in Txn |-> {}]
    /\ next = [t \in Txn |-> None]
    /\ written = [t \in Txn |-> NoRows]
    /\ lock = [t \in Txn |-> NoLock]
    /\ newCount = [t \in Txn |-> None]
    /\ durable = Tables
-----------------------------------------------------------------------------
(***************************************************************************)
(* Who waits for whom.                                                     *)
(***************************************************************************)
Collection(t) == stmt[t].collection_id

(* Those that keep t from locking the row of c in mode m.                  *)
CollectionBlockers(t, c, m) == {u \in Txn \ {t} : Conflict(m, lock[u][c])}

(* Those that keep t from writing the row of d, or a new row with its key. *)
DocumentBlockers(t, d) == {u \in Txn \ {t} : d \in DOMAIN written[u]}

(* The collections whose counts the triggers of t's statement change.      *)
Counted(t) ==
    {c \in CollectionId : \E d \in DOMAIN written[t] :
        \/ documents[d] = None /\ written[t][d].collection_id = c
        \/ documents[d] # None /\ written[t][d] = None /\ documents[d].collection_id = c}

(* Variant: the check of the foreign key locks nothing.                    *)
CheckWithoutLock == "none"

(* Variant: the check locks FOR SHARE, which an update conflicts with.     *)
CheckForShare == "share"

(* FOR KEY SHARE, of the query behind a foreign key.                       *)
CheckMode == "key share"

(* Variant: the count does not lock out others that count.                 *)
CountForKeyShare == "key share"

(* FOR NO KEY UPDATE, of an UPDATE that leaves the key alone.              *)
CountMode == "no key update"

Blockers(t) ==
    CASE at[t] = "begin" /\ stmt[t].op = "DeleteCollection" ->
             CollectionBlockers(t, Collection(t), "update")
      [] at[t] = "begin" /\ stmt[t].op = "UpsertDocument" ->
             UNION {DocumentBlockers(t, d) : d \in stmt[t].ids}
      [] at[t] = "rows" /\ next[t] \in todo[t] -> DocumentBlockers(t, next[t])
      [] at[t] = "check" -> CollectionBlockers(t, Collection(t), CheckMode)
      [] at[t] = "count" ->
             UNION {CollectionBlockers(t, c, CountMode) : c \in {k \in Counted(t) : Live(k)}}
      [] OTHER -> {}

(* t waits for u, or for others that wait for u in turn.                   *)
WaitsFor(t, u) ==
    \A S \in SUBSET Txn :
        Blockers(t) \subseteq S /\ (\A v \in S : Blockers(v) \subseteq S) => u \in S

InCycle(t) == WaitsFor(t, t)
-----------------------------------------------------------------------------
(* The statements that the services send.                                  *)
Statement ==
    [op : Operations, collection_id : CollectionId, ids : SUBSET DocumentId,
     vector_dims : StorableLength]

ASSUME StatementAssumption == None \notin Statement

Sent ==
    {s \in Statement :
        /\ s.op \in Inserts \cup {"DeleteCollection"} => s.ids = {}
        /\ s.op \in {"UpsertDocument", "DeleteDocument"} => Cardinality(s.ids) = 1
        /\ s.op = "BatchDelete" => Cardinality(s.ids) \in 1..BatchSize}

Call(t) ==
    /\ at[t] = "idle"
    /\ \E s \in Sent : stmt' = [stmt EXCEPT ![t] = s]
    /\ at' = [at EXCEPT ![t] = "queued"]
    /\ UNCHANGED <<dbVars, todo, next, written, lock, newCount, durable>>

Connected == {t \in Txn : at[t] \notin {"idle", "queued"}}

(* database/sql hands out a connection, or opens one below the limit.      *)
Connect(t) ==
    /\ at[t] = "queued"
    /\ Cardinality(Connected) < MaxOpenConns
    /\ at' = [at EXCEPT ![t] = "begin"]
    /\ UNCHANGED <<dbVars, stmt, todo, next, written, lock, newCount, durable>>

(* Variant: a transaction that is over keeps the row of its collection.    *)
EndKeepingLocks(t) ==
    /\ stmt' = [stmt EXCEPT ![t] = None]
    /\ at' = [at EXCEPT ![t] = "idle"]
    /\ next' = [next EXCEPT ![t] = None]
    /\ written' = [written EXCEPT ![t] = NoRows]
    /\ newCount' = [newCount EXCEPT ![t] = None]
    /\ UNCHANGED lock

(* The end of a transaction: its locks and its connection are given back.  *)
EndOf(t) ==
    /\ stmt' = [stmt EXCEPT ![t] = None]
    /\ at' = [at EXCEPT ![t] = "idle"]
    /\ next' = [next EXCEPT ![t] = None]
    /\ written' = [written EXCEPT ![t] = NoRows]
    /\ lock' = [lock EXCEPT ![t] = NoLock]
    /\ newCount' = [newCount EXCEPT ![t] = None]

(* An error, a rollback, a cancelled context, a lost connection, or the    *)
(* deadlock detector.                                                      *)
Abort(t) ==
    /\ at[t] # "idle"
    /\ EndOf(t)
    /\ todo' = [todo EXCEPT ![t] = {}]
    /\ UNCHANGED <<dbVars, durable>>
-----------------------------------------------------------------------------
(* Variant: the statement is not sent on the connection of its transaction. *)
InsertOnAnotherConnection(t) ==
    /\ at[t] = "begin"
    /\ stmt[t].op \in Inserts
    /\ Cardinality(Connected) < MaxOpenConns
    /\ \E S \in SUBSET Unused :
          /\ Cardinality(S) \in IF stmt[t].op = "BatchInsert" THEN 1..BatchSize ELSE {1}
          /\ \A d \in S : DocumentBlockers(t, d) = {}
          /\ written' = [written EXCEPT ![t] =
                [d \in S |-> [collection_id |-> Collection(t), vector_dims |-> stmt[t].vector_dims]]]
    /\ at' = [at EXCEPT ![t] = "check"]
    /\ UNCHANGED <<dbVars, stmt, todo, next, lock, newCount, durable>>

(* The rows are inserted with keys that nobody else has; they become       *)
(* visible to others when the transaction commits.                         *)
Insert(t) ==
    /\ at[t] = "begin"
    /\ stmt[t].op \in Inserts
    /\ \E S \in SUBSET Unused :
          /\ Cardinality(S) \in IF stmt[t].op = "BatchInsert" THEN 1..BatchSize ELSE {1}
          /\ \A d \in S : DocumentBlockers(t, d) = {}
          /\ written' = [written EXCEPT ![t] =
                [d \in S |-> [collection_id |-> Collection(t), vector_dims |-> stmt[t].vector_dims]]]
    /\ at' = [at EXCEPT ![t] = "check"]
    /\ UNCHANGED <<dbVars, stmt, todo, next, lock, newCount, durable>>

(* A row with the key is updated, which leaves its collection alone;       *)
(* without one the row is inserted.                                        *)
Upsert(t) ==
    /\ at[t] = "begin"
    /\ stmt[t].op = "UpsertDocument"
    /\ Blockers(t) = {}
    /\ \E d \in stmt[t].ids :
          \/ /\ documents[d] = None
             /\ written' = [written EXCEPT ![t] = [x \in {d} |->
                   [collection_id |-> Collection(t), vector_dims |-> stmt[t].vector_dims]]]
             /\ at' = [at EXCEPT ![t] = "check"]
          \/ /\ documents[d] # None
             /\ written' = [written EXCEPT ![t] = [x \in {d} |->
                   [documents[d] EXCEPT !.vector_dims = stmt[t].vector_dims]]]
             /\ at' = [at EXCEPT ![t] = "count"]
    /\ UNCHANGED <<dbVars, stmt, todo, next, lock, newCount, durable>>

(* The check of the foreign key.                                           *)
CheckForeignKey(t) ==
    /\ at[t] = "check"
    /\ Blockers(t) = {}
    /\ Live(Collection(t))
    /\ lock' = [lock EXCEPT ![t][Collection(t)] = CheckMode]
    /\ at' = [at EXCEPT ![t] = "count"]
    /\ UNCHANGED <<dbVars, stmt, todo, next, written, newCount, durable>>

(* No row for a foreign key or for the deletion of a collection.           *)
RowMissing(t) ==
    /\ \/ at[t] = "check"
       \/ at[t] = "begin" /\ stmt[t].op = "DeleteCollection"
    /\ Blockers(t) = {}
    /\ ~Live(Collection(t))
    /\ Abort(t)

(* DELETE FROM collections locks the row and goes on to the cascade.       *)
LockCollection(t) ==
    /\ at[t] = "begin"
    /\ stmt[t].op = "DeleteCollection"
    /\ Blockers(t) = {}
    /\ Live(Collection(t))
    /\ lock' = [lock EXCEPT ![t][Collection(t)] = "update"]
    /\ at' = [at EXCEPT ![t] = "scan"]
    /\ UNCHANGED <<dbVars, stmt, todo, next, written, newCount, durable>>

(* What a deletion, or the cascade of one, finds.                          *)
Found(t) ==
    CASE stmt[t].op = "DeleteDocument" -> stmt[t].ids \ Unused
      [] stmt[t].op = "BatchDelete" -> stmt[t].ids \cap DocumentsOf(Collection(t))
      [] stmt[t].op = "DeleteCollection" -> DocumentsOf(Collection(t))

FirstOf(S) == IF S = {} THEN {None} ELSE S

(* The rows of the statement's snapshot, in an order of the plan's choice. *)
Scan(t) ==
    /\ \/ at[t] = "begin" /\ stmt[t].op \in DocumentDeletions
       \/ at[t] = "scan"
    /\ todo' = [todo EXCEPT ![t] = Found(t)]
    /\ \E d \in FirstOf(Found(t)) : next' = [next EXCEPT ![t] = d]
    /\ at' = [at EXCEPT ![t] = "rows"]
    /\ UNCHANGED <<dbVars, stmt, written, lock, newCount, durable>>

(* Variant: a row that another transaction has locked is passed over.      *)
DeleteRowSkippingLocked(t) ==
    /\ at[t] = "rows"
    /\ next[t] # None
    /\ written' = IF next[t] \in todo[t] /\ DocumentBlockers(t, next[t]) = {}
                  THEN [written EXCEPT ![t] =
                          [d \in DOMAIN written[t] \cup {next[t]} |-> None]]
                  ELSE written
    /\ todo' = [todo EXCEPT ![t] = @ \ {next[t]}]
    /\ \E d \in FirstOf(todo'[t]) : next' = [next EXCEPT ![t] = d]
    /\ UNCHANGED <<dbVars, stmt, at, lock, newCount, durable>>

(* Variant: a batch is deleted id by id, each by a statement that counts.  *)
DeleteRowByStatement(t) ==
    /\ at[t] = "rows"
    /\ next[t] # None
    /\ Blockers(t) = {}
    /\ written' = IF next[t] \in todo[t]
                  THEN [written EXCEPT ![t] =
                          [d \in DOMAIN written[t] \cup {next[t]} |-> None]]
                  ELSE written
    /\ todo' = [todo EXCEPT ![t] = @ \ {next[t]}]
    /\ \E d \in FirstOf(todo'[t]) : next' = [next EXCEPT ![t] = d]
    /\ \/ stmt[t].op # "BatchDelete" /\ UNCHANGED lock
       \/ /\ stmt[t].op = "BatchDelete"
          /\ CollectionBlockers(t, Collection(t), CountMode) = {}
          /\ lock' = [lock EXCEPT ![t][Collection(t)] = CountMode]
    /\ UNCHANGED <<dbVars, stmt, at, newCount, durable>>

(* The next row is locked and deleted, once nobody else has it locked; one *)
(* that was deleted in the meantime is passed over.                        *)
DeleteRow(t) ==
    /\ at[t] = "rows"
    /\ next[t] # None
    /\ Blockers(t) = {}
    /\ written' = IF next[t] \in todo[t]
                  THEN [written EXCEPT ![t] =
                          [d \in DOMAIN written[t] \cup {next[t]} |-> None]]
                  ELSE written
    /\ todo' = [todo EXCEPT ![t] = @ \ {next[t]}]
    /\ \E d \in FirstOf(todo'[t]) : next' = [next EXCEPT ![t] = d]
    /\ UNCHANGED <<dbVars, stmt, at, lock, newCount, durable>>

RowsDone(t) ==
    /\ at[t] = "rows"
    /\ next[t] = None
    /\ at' = [at EXCEPT ![t] = "count"]
    /\ UNCHANGED <<dbVars, stmt, todo, next, written, lock, newCount, durable>>

Change(t) ==
    IF stmt[t].op \in Deletions
    THEN -Cardinality(DOMAIN written[t])
    ELSE Cardinality(DOMAIN written[t])

(* The triggers update the row of the collection, if there is one and rows *)
(* were inserted or deleted.  A deletion of the collection itself no       *)
(* longer sees its row.                                                    *)
CountRows(t) ==
    /\ at[t] = "count"
    /\ Blockers(t) = {}
    /\ \/ \E c \in Counted(t) :
             /\ Live(c)
             /\ lock[t][c] # "update"
             /\ lock' = [lock EXCEPT ![t][c] = CountMode]
             /\ newCount' = [newCount EXCEPT ![t] = collections[c].document_count + Change(t)]
       \/ /\ \A c \in Counted(t) : ~Live(c) \/ lock[t][c] = "update"
          /\ UNCHANGED <<lock, newCount>>
    /\ at' = [at EXCEPT ![t] = "commit"]
    /\ UNCHANGED <<dbVars, stmt, todo, next, written, durable>>
-----------------------------------------------------------------------------
(* Variant: the deletion of a document does not wait for the log either.   *)
OnlyCollectionsWait(op) == op = "DeleteCollection"

(* SET LOCAL synchronous_commit = OFF, for a batch insert only.            *)
WaitsForFlush(op) == op # "BatchInsert"

(* The commit makes the rows visible.  A commit that waits for the log     *)
(* flushes all of it.  Those who wait for a row that was deleted will not  *)
(* find it again, even if another one gets its key.                        *)
Commit(t) ==
    /\ at[t] = "commit"
    /\ documents' = [d \in DocumentId |->
                        IF d \in DOMAIN written[t] THEN written[t][d] ELSE documents[d]]
    /\ collections' = [c \in CollectionId |->
                          IF lock[t][c] = "update" THEN None
                          ELSE IF newCount[t] # None /\ c \in Counted(t)
                          THEN [collections[c] EXCEPT !.document_count = newCount[t]]
                          ELSE collections[c]]
    /\ durable' = IF WaitsForFlush(stmt[t].op) THEN Tables' ELSE durable
    /\ todo' = [u \in Txn |-> {d \in todo[u] : u # t /\ documents'[d] # None}]
    /\ EndOf(t)
    /\ UNCHANGED issued

(* CREATE of a collection waits for nobody: its key is new.                *)
CreateCollection ==
    /\ Cardinality(Connected) < MaxOpenConns
    /\ \E c \in CollectionId, name \in Name, config \in Config :
          InsertCollection(c, name, config)
    /\ durable' = Tables'
    /\ UNCHANGED txnVars

(* The WAL writer of PostgreSQL.                                           *)
Flush ==
    /\ durable' = Tables
    /\ UNCHANGED <<dbVars, txnVars>>

(* PostgreSQL crashes and recovers what the log holds; every connection is *)
(* broken and every transaction gone.                                      *)
Crash ==
    /\ collections' = durable.collections
    /\ documents' = durable.documents
    /\ stmt' = [t \in Txn |-> None]
    /\ at' = [t \in Txn |-> "idle"]
    /\ todo' = [t \in Txn |-> {}]
    /\ next' = [t \in Txn |-> None]
    /\ written' = [t \in Txn |-> NoRows]
    /\ lock' = [t \in Txn |-> NoLock]
    /\ newCount' = [t \in Txn |-> None]
    /\ UNCHANGED <<issued, durable>>
-----------------------------------------------------------------------------
Step(t) ==
    \/ Insert(t) \/ Upsert(t) \/ CheckForeignKey(t) \/ RowMissing(t)
    \/ LockCollection(t) \/ Scan(t) \/ DeleteRow(t) \/ RowsDone(t)
    \/ CountRows(t) \/ Commit(t)

Next ==
    \/ \E t \in Txn : Call(t) \/ Connect(t) \/ Step(t) \/ Abort(t)
    \/ CreateCollection
    \/ Flush
    \/ Crash

Spec == Init /\ [][Next]_vars
-----------------------------------------------------------------------------
(* The variables have their types; a transaction that is over holds nothing. *)
TypeOK ==
    /\ DbTypeOK
    /\ stmt \in [Txn -> Statement \cup {None}]
    /\ at \in [Txn -> Places]
    /\ todo \in [Txn -> SUBSET DocumentId]
    /\ next \in [Txn -> DocumentId \cup {None}]
    /\ \A t \in Txn : written[t] \in [DOMAIN written[t] -> DocumentRow \cup {None}]
    /\ lock \in [Txn -> [CollectionId -> LockMode]]
    /\ newCount \in [Txn -> Int \cup {None}]
    /\ durable \in [collections : [CollectionId -> CollectionRow \cup {None}],
                    documents : [DocumentId -> DocumentRow \cup {None}]]
    /\ \A t \in Txn :
          /\ stmt[t] = None <=> at[t] = "idle"
          /\ stmt[t] = None => written[t] = NoRows /\ lock[t] = NoLock /\ newCount[t] = None

(* What Database keeps one statement at a time holds for what is committed *)
(* by many, before and after a crash: no document without its collection,  *)
(* no count that has drifted.                                              *)
Consistent == NoOrphans /\ CountExact

(* However the row locks of concurrent transactions interleave and whichever *)
(* of them fail, each commit does to the tables what one statement of       *)
(* Database does at once: no count is lost, no document slips past a        *)
(* cascade.                                                                 *)
CommitsAreStatements == [][DbNext \/ Crash]_dbVars

(* DeleteById returns the document_count of the row it deleted, read before *)
(* the cascade: it is the number of documents the cascade deletes, although *)
(* other transactions insert and delete meanwhile.                          *)
DeletionReportsItsDocuments ==
    \A t \in Txn :
        at[t] = "commit" /\ stmt[t].op = "DeleteCollection" =>
            collections[Collection(t)].document_count = Cardinality(DOMAIN written[t])

(* Inserts and upserts never take part in a deadlock, so the detector never *)
(* makes one of them fail: only deletions lock rows in an order that another *)
(* transaction may reverse.                                                 *)
OnlyDeletionsDeadlock ==
    \A t \in Txn : InCycle(t) => stmt[t].op \in Deletions

(* The deletion of one document deadlocks with nothing but a deletion of    *)
(* its collection, which holds the collection's row and waits, in turn, for *)
(* somebody who waits for the document: next to inserts, upserts and other  *)
(* deletions of documents it never fails, because each statement counts     *)
(* once, after all its rows.                                                *)
SingleDeletionsMeetCollections ==
    \A t \in Txn :
        InCycle(t) /\ stmt[t].op = "DeleteDocument" =>
            \E u \in Blockers(t) : stmt[u].op = "DeleteCollection" /\ WaitsFor(u, t)

(* A crash of PostgreSQL takes back batch inserts at most: no collection is *)
(* lost or comes back, no deleted document comes back.                      *)
OnlyInsertsAtRisk ==
    /\ \A c \in CollectionId : durable.collections[c] # None <=> Live(c)
    /\ \A d \in DocumentId :
          durable.documents[d] # None => durable.documents[d] = documents[d]

(* A limit of the model: the ids of documents run out, those of PostgreSQL *)
(* do not.                                                                 *)
NoIdLeft(t) ==
    /\ at[t] = "begin" /\ stmt[t].op \in Inserts
    /\ \A d \in Unused : DocumentBlockers(t, d) # {}

(* When every connection is taken, one of those who hold them can go on or *)
(* stands in a cycle that PostgreSQL breaks: nobody who has a connection   *)
(* needs another one, or waits for somebody who waits for the pool.        *)
PoolNeverStuck ==
    Cardinality(Connected) = MaxOpenConns =>
        \E t \in Connected : (ENABLED Step(t)) \/ InCycle(t) \/ NoIdLeft(t)
=============================================================================
