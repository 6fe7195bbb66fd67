-------------------------- MODULE RowLocksProofs ---------------------------
(***************************************************************************)
(* Proof that transactions that lock rows do to the tables what atomic     *)
(* statements do, for any number of transactions, collections, documents.  *)
(* The argument is that what a transaction has read and will write stays   *)
(* as it was until it commits, because of the locks it holds: TxnOK says   *)
(* what it has read at each place, Exclusive that nobody else has a lock   *)
(* that conflicts with its own.                                            *)
(***************************************************************************)
EXTENDS RowLocks, DatabaseProofs

Typed ==
    /\ stmt \in [Txn -> Sent \cup {None}]
    /\ at \in [Txn -> Places]
    /\ todo \in [Txn -> SUBSET DocumentId]
    /\ next \in [Txn -> DocumentId \cup {None}]
    /\ written \in [Txn -> UNION {[S -> DocumentRow \cup {None}] : S \in SUBSET DocumentId}]
    /\ lock \in [Txn -> [CollectionId -> LockMode]]
    /\ newCount \in [Txn -> Int \cup {None}]

Rows(t) == DOMAIN written[t]

(* It has written nothing and holds no lock.                               *)
Fresh(t) == written[t] = NoRows /\ lock[t] = NoLock /\ newCount[t] = None

LocksOnly(t, c, m) ==
    /\ lock[t][c] = m
    /\ \A k \in CollectionId \ {c} : lock[t][k] = "none"

(* It inserted rows into its collection.                                   *)
Inserting(t) ==
    /\ stmt[t].op \in Inserts \cup {"UpsertDocument"}
    /\ Rows(t) # {}
    /\ \A d \in Rows(t) :
          /\ documents[d] = None
          /\ written[t][d] \in DocumentRow
          /\ written[t][d].collection_id = Collection(t)

(* It updated a row, which stays in its collection.                        *)
Updating(t) ==
    /\ stmt[t].op = "UpsertDocument"
    /\ lock[t] = NoLock
    /\ newCount[t] = None
    /\ \E d \in DocumentId, n \in StorableLength :
          /\ documents[d] # None
          /\ written[t] = [x \in {d} |-> [documents[d] EXCEPT !.vector_dims = n]]

(* It deletes documents, all of one collection.                            *)
Deleting(t) ==
    /\ stmt[t].op \in DocumentDeletions
    /\ \A d \in Rows(t) : written[t][d] = None
    /\ \A d \in Rows(t) \cup todo[t] : documents[d] # None
    /\ \A d, e \in Rows(t) \cup todo[t] : documents[d].collection_id = documents[e].collection_id

(* It deletes a collection and all that is in it.                          *)
Closing(t) ==
    /\ stmt[t].op = "DeleteCollection"
    /\ newCount[t] = None
    /\ Collection(t) \in CollectionId
    /\ Live(Collection(t))
    /\ LocksOnly(t, Collection(t), "update")
    /\ \A d \in Rows(t) : written[t][d] = None

(* The counts its triggers wrote are right as long as it holds the lock.   *)
Counting(t) ==
    \E c \in CollectionId :
        /\ Live(c)
        /\ LocksOnly(t, c, "no key update")
        /\ Rows(t) # {}
        /\ newCount[t] = collections[c].document_count + Change(t)
        /\ \A d \in Rows(t) :
              IF stmt[t].op \in Deletions
              THEN documents[d].collection_id = c ELSE written[t][d].collection_id = c

AtCheck(t) == Inserting(t) /\ lock[t] = NoLock /\ newCount[t] = None /\ todo[t] = {}

AtRows(t) ==
    /\ next[t] = None => todo[t] = {}
    /\ \/ Deleting(t) /\ lock[t] = NoLock /\ newCount[t] = None
       \/ Closing(t) /\ Rows(t) \cup todo[t] = DocumentsOf(Collection(t))

AtCount(t) ==
    /\ todo[t] = {}
    /\ \/ /\ Inserting(t)
          /\ newCount[t] = None
          /\ Live(Collection(t))
          /\ LocksOnly(t, Collection(t), "key share")
       \/ Updating(t)
       \/ Deleting(t) /\ lock[t] = NoLock /\ newCount[t] = None
       \/ Closing(t) /\ Rows(t) = DocumentsOf(Collection(t))

AtCommit(t) ==
    /\ todo[t] = {}
    /\ \/ Inserting(t) /\ Counting(t)
       \/ Updating(t)
       \/ Deleting(t) /\ Counting(t)
       \/ Deleting(t) /\ Fresh(t)
       \/ Closing(t) /\ Rows(t) = DocumentsOf(Collection(t))

TxnOK(t) ==
    /\ stmt[t] = None <=> at[t] = "idle"
    /\ at[t] \in {"idle", "queued", "begin"} => Fresh(t) /\ todo[t] = {}
    /\ at[t] = "check" => AtCheck(t)
    /\ at[t] = "scan" => Closing(t) /\ Rows(t) = {} /\ todo[t] = {}
    /\ at[t] = "rows" => AtRows(t)
    /\ at[t] = "count" => AtCount(t)
    /\ at[t] = "commit" => AtCommit(t)

Exclusive ==
    \A t \in Txn : \A u \in Txn \ {t} :
        /\ Rows(t) \cap Rows(u) = {}
        /\ \A c \in CollectionId : ~Conflict(lock[t][c], lock[u][c])

(* The tables that a crash would leave behind are as sound as the others.  *)
DurableDocumentsOf(c) ==
    {d \in DocumentId :
        durable.documents[d] # None /\ durable.documents[d].collection_id = c}

DurableInv ==
    /\ durable \in [collections : [CollectionId -> CollectionRow \cup {None}],
                    documents : [DocumentId -> DocumentRow \cup {None}]]
    /\ \A c \in CollectionId :
          durable.collections[c] # None =>
              /\ c \in issued
              /\ durable.collections[c].document_count = Cardinality(DurableDocumentsOf(c))
    /\ \A d \in DocumentId :
          durable.documents[d] # None =>
              durable.collections[durable.documents[d].collection_id] # None

LockInv == Typed /\ Exclusive /\ \A t \in Txn : TxnOK(t)

Inv == DbInv /\ LockInv /\ DurableInv
-----------------------------------------------------------------------------
LEMMA InitInv == Init => Inv
<1> SUFFICES ASSUME Init PROVE Inv
  OBVIOUS
<1>1. DbInv
  BY DbInitInv DEF Init
<1>2. NoRows \in [{} -> DocumentRow \cup {None}]
  BY DEF NoRows
<1>3. NoLock \in [CollectionId -> LockMode]
  BY DEF NoLock, LockMode
<1>4. Typed
  BY <1>2, <1>3 DEF Init, Typed, Places
<1>5. Exclusive
  <2>1. DOMAIN NoRows = {}
    BY DEF NoRows
  <2> QED  BY <2>1 DEF Exclusive, Rows, Conflict, Init, NoLock
<1>6. ASSUME NEW t \in Txn PROVE TxnOK(t)
  BY DEF TxnOK, Init, Fresh
<1>7. DurableInv
  BY <1>1 DEF DurableInv, Init, DbInit, Tables, DbInv, DbTypeOK, Live
<1> QED  BY <1>1, <1>4, <1>5, <1>6, <1>7 DEF Inv, LockInv

(* What a transaction knows survives what leaves it and the tables alone.  *)
LEMMA Untouched ==
    ASSUME NEW u \in Txn, TxnOK(u), UNCHANGED <<collections, documents>>,
           stmt'[u] = stmt[u], at'[u] = at[u], todo'[u] = todo[u], next'[u] = next[u],
           written'[u] = written[u], lock'[u] = lock[u], newCount'[u] = newCount[u]
    PROVE  TxnOK(u)'
<1>1. Rows(u)' = Rows(u) /\ Collection(u)' = Collection(u) /\ (Fresh(u) => Fresh(u)')
  BY DEF Rows, Collection, Fresh
<1>2. \A c : (Live(c)' <=> Live(c)) /\ DocumentsOf(c)' = DocumentsOf(c)
  BY DEF Live, DocumentsOf
<1>3. Inserting(u) => Inserting(u)'
  BY <1>1 DEF Inserting
<1>4. Updating(u) => Updating(u)'
  BY <1>1 DEF Updating
<1>5. Deleting(u) => Deleting(u)'
  BY <1>1 DEF Deleting
<1>6. \A c, m : LocksOnly(u, c, m) => LocksOnly(u, c, m)'
  BY DEF LocksOnly
<1>7. Closing(u) => Closing(u)'
  BY <1>1, <1>2, <1>6 DEF Closing
<1>8. Counting(u) => Counting(u)'
  <2> SUFFICES ASSUME Counting(u) PROVE Counting(u)'
    OBVIOUS
  <2>1. Change(u)' = Change(u)
    BY DEF Change
  <2> QED  BY <1>1, <1>2, <1>6, <2>1 DEF Counting
<1> QED
  BY <1>1, <1>2, <1>3, <1>4, <1>5, <1>6, <1>7, <1>8
  DEF TxnOK, AtCheck, AtRows, AtCount, AtCommit

LEMMA ConflictSymmetric == \A m, n : Conflict(m, n) <=> Conflict(n, m)
BY DEF Conflict

(* A step of one transaction that leaves the tables and the others alone.  *)
LEMMA OwnStep ==
    ASSUME LockInv, NEW t \in Txn, Typed', TxnOK(t)', UNCHANGED <<collections, documents>>,
           \A u \in Txn \ {t} :
               /\ stmt'[u] = stmt[u] /\ at'[u] = at[u] /\ todo'[u] = todo[u]
               /\ next'[u] = next[u] /\ written'[u] = written[u]
               /\ lock'[u] = lock[u] /\ newCount'[u] = newCount[u],
           \A u \in Txn \ {t} :
               /\ Rows(t)' \cap Rows(u) = {}
               /\ \A c \in CollectionId : ~Conflict(lock'[t][c], lock[u][c])
    PROVE  LockInv'
<1>1. ASSUME NEW u \in Txn PROVE TxnOK(u)'
  <2>1. CASE u = t
    BY <2>1
  <2>2. CASE u # t
    BY <2>2, Untouched DEF LockInv
  <2> QED  BY <2>1, <2>2
<1>2. ASSUME NEW u \in Txn, NEW v \in Txn \ {u}
      PROVE  /\ Rows(u)' \cap Rows(v)' = {}
             /\ \A c \in CollectionId : ~Conflict(lock'[u][c], lock'[v][c])
  <2>1. \A x \in Txn \ {t} : Rows(x)' = Rows(x) /\ lock'[x] = lock[x]
    BY DEF Rows
  <2>2. CASE u = t
    BY <2>1, <2>2
  <2>3. CASE v = t
    BY <2>1, <2>3, ConflictSymmetric
  <2>4. CASE u # t /\ v # t
    BY <2>1, <2>4 DEF LockInv, Exclusive
  <2> QED  BY <2>2, <2>3, <2>4
<1>3. Exclusive'
  BY <1>2 DEF Exclusive
<1> QED  BY <1>1, <1>3 DEF LockInv

LEMMA EmptyRows ==
    /\ NoRows \in UNION {[S -> DocumentRow \cup {None}] : S \in SUBSET DocumentId}
    /\ DOMAIN NoRows = {}
<1>1. NoRows \in [{} -> DocumentRow \cup {None}]
  BY DEF NoRows
<1> QED  BY <1>1 DEF NoRows

LEMMA NoLocks ==
    /\ NoLock \in [CollectionId -> LockMode]
    /\ \A c \in CollectionId : NoLock[c] = "none"
    /\ \A m : ~Conflict("none", m) /\ ~Conflict(m, "none")
BY DEF NoLock, LockMode, Conflict

LEMMA CallInv ==
    ASSUME LockInv, NEW t \in Txn, Call(t)
    PROVE  LockInv'
<1> USE DEF Call, LockInv
<1>1. PICK s \in Sent : stmt' = [stmt EXCEPT ![t] = s]
  OBVIOUS
<1>2. s \in Statement /\ s # None
  BY StatementAssumption DEF Sent
<1>3. Typed'
  BY <1>1, <1>2 DEF Typed, Places
<1>4. TxnOK(t)'
  <2>1. TxnOK(t)
    OBVIOUS
  <2> QED  BY <1>1, <1>2, <2>1 DEF TxnOK, Fresh, Typed
<1>5. \A u \in Txn \ {t} :
         /\ Rows(t)' \cap Rows(u) = {}
         /\ \A c \in CollectionId : ~Conflict(lock'[t][c], lock[u][c])
  BY DEF Exclusive, Rows
<1> QED  BY <1>3, <1>4, <1>5, OwnStep DEF Typed, dbVars

LEMMA ConnectInv ==
    ASSUME LockInv, NEW t \in Txn, Connect(t)
    PROVE  LockInv'
<1> USE DEF Connect, LockInv
<1>3. Typed'
  BY DEF Typed, Places
<1>4. TxnOK(t)'
  <2>1. TxnOK(t)
    OBVIOUS
  <2> QED  BY <2>1 DEF TxnOK, Fresh, Typed
<1>5. \A u \in Txn \ {t} :
         /\ Rows(t)' \cap Rows(u) = {}
         /\ \A c \in CollectionId : ~Conflict(lock'[t][c], lock[u][c])
  BY DEF Exclusive, Rows
<1> QED  BY <1>3, <1>4, <1>5, OwnStep DEF Typed, dbVars

LEMMA AbortInv ==
    ASSUME LockInv, NEW t \in Txn, Abort(t)
    PROVE  LockInv'
<1> USE DEF Abort, EndOf, LockInv
<1>3. Typed'
  BY EmptyRows, NoLocks DEF Typed, Places
<1>4. TxnOK(t)'
  BY DEF TxnOK, Fresh, Typed
<1>5. \A u \in Txn \ {t} :
         /\ Rows(t)' \cap Rows(u) = {}
         /\ \A c \in CollectionId : ~Conflict(lock'[t][c], lock[u][c])
  BY EmptyRows, NoLocks DEF Rows, Typed
<1> QED  BY <1>3, <1>4, <1>5, OwnStep DEF Typed, dbVars

LEMMA InsertsSomething ==
    ASSUME NEW S, NEW op, Cardinality(S) \in IF op = "BatchInsert" THEN 1..BatchSize ELSE {1}
    PROVE  S # {}
<1>1. Cardinality(S) # 0
  BY RowLocksAssumption
<1> QED  BY <1>1, FS_EmptySet

(* Nobody has a new row locked that nobody has written.                    *)
LEMMA InsertInv ==
    ASSUME LockInv, NEW t \in Txn, Insert(t)
    PROVE  LockInv'
<1> USE DEF Insert, LockInv
<1> DEFINE new == [collection_id |-> Collection(t), vector_dims |-> stmt[t].vector_dims]
<1>1. PICK S \in SUBSET Unused :
         /\ Cardinality(S) \in IF stmt[t].op = "BatchInsert" THEN 1..BatchSize ELSE {1}
         /\ \A d \in S : DocumentBlockers(t, d) = {}
         /\ written' = [written EXCEPT ![t] = [d \in S |-> new]]
  OBVIOUS
<1>2. stmt[t] \in Statement /\ new \in DocumentRow
  BY DEF TxnOK, Typed, Collection, Statement, Sent, DocumentRow
<1>3. S # {} /\ S \subseteq DocumentId
  <2>1. S # {}
    BY <1>1, InsertsSomething
  <2>2. Unused \subseteq DocumentId
    BY DEF Unused
  <2> QED  BY <2>1, <2>2
<1>4. Typed'
  <2>1. [d \in S |-> new] \in [S -> DocumentRow \cup {None}]
    BY <1>2
  <2>2. [d \in S |-> new] \in UNION {[X -> DocumentRow \cup {None}] : X \in SUBSET DocumentId}
    BY <1>3, <2>1
  <2> QED  BY <1>1, <2>2 DEF Typed, Places
<1>5. Rows(t)' = S /\ \A d \in S : written'[t][d] = new
  BY <1>1 DEF Typed, Rows
<1>6. TxnOK(t)'
  <2>1. TxnOK(t) /\ Fresh(t) /\ todo[t] = {}
    BY DEF TxnOK
  <2>2. Collection(t)' = Collection(t)
    BY DEF Collection
  <2>3. Inserting(t)'
    BY <1>1, <1>2, <1>3, <1>5, <2>2 DEF Inserting, Unused, dbVars
  <2>4. AtCheck(t)'
    BY <2>1, <2>3 DEF AtCheck, Fresh
  <2> QED  BY <1>2, <2>1, <2>4 DEF TxnOK, Typed
<1>7. \A u \in Txn \ {t} :
         /\ Rows(t)' \cap Rows(u) = {}
         /\ \A c \in CollectionId : ~Conflict(lock'[t][c], lock[u][c])
  BY <1>1, <1>5 DEF Exclusive, Rows, DocumentBlockers
<1> QED  BY <1>1, <1>4, <1>6, <1>7, OwnStep DEF Typed, dbVars

LEMMA UpsertInv ==
    ASSUME LockInv, DbInv, NEW t \in Txn, Upsert(t)
    PROVE  LockInv'
<1> USE DEF Upsert, LockInv
<1>1. PICK d \in stmt[t].ids :
         \/ /\ documents[d] = None
            /\ written' = [written EXCEPT ![t] = [x \in {d} |->
                  [collection_id |-> Collection(t), vector_dims |-> stmt[t].vector_dims]]]
            /\ at' = [at EXCEPT ![t] = "check"]
         \/ /\ documents[d] # None
            /\ written' = [written EXCEPT ![t] = [x \in {d} |->
                  [documents[d] EXCEPT !.vector_dims = stmt[t].vector_dims]]]
            /\ at' = [at EXCEPT ![t] = "count"]
  OBVIOUS
<1>2. /\ stmt[t] \in Statement /\ stmt[t] # None
      /\ d \in DocumentId
      /\ stmt[t].vector_dims \in StorableLength
      /\ Collection(t) \in CollectionId
  BY StatementAssumption DEF TxnOK, Typed, Collection, Statement, Sent
<1>3. /\ [collection_id |-> Collection(t), vector_dims |-> stmt[t].vector_dims] \in DocumentRow
      /\ documents[d] # None =>
             [documents[d] EXCEPT !.vector_dims = stmt[t].vector_dims] \in DocumentRow
  BY <1>2 DEF DocumentRow, DbInv, DbTypeOK
<1>4. Typed'
  <2>1. \A r \in DocumentRow : [x \in {d} |-> r] \in [{d} -> DocumentRow \cup {None}]
    OBVIOUS
  <2>2. \A r \in DocumentRow :
           [x \in {d} |-> r] \in UNION {[X -> DocumentRow \cup {None}] : X \in SUBSET DocumentId}
    BY <1>2, <2>1
  <2>3. written'[t] \in UNION {[X -> DocumentRow \cup {None}] : X \in SUBSET DocumentId}
    <3>1. PICK r \in DocumentRow : written' = [written EXCEPT ![t] = [x \in {d} |-> r]]
      BY <1>1, <1>3
    <3>2. written'[t] = [x \in {d} |-> r]
      BY <3>1 DEF Typed
    <3> QED  BY <2>2, <3>2
  <2> QED  BY <1>1, <2>3 DEF Typed, Places
<1>5. Rows(t)' = {d}
  BY <1>1 DEF Typed, Rows
<1>6. TxnOK(t)'
  <2>1. TxnOK(t) /\ Fresh(t) /\ todo[t] = {}
    BY DEF TxnOK
  <2>2. Collection(t)' = Collection(t) /\ Fresh(t) /\ lock'[t] = NoLock /\ newCount'[t] = None
    BY <2>1 DEF Collection, Fresh
  <2>3. CASE documents[d] = None
    <3>1. Inserting(t)'
      BY <1>1, <1>3, <1>5, <2>2, <2>3 DEF Inserting, dbVars, Typed
    <3> QED  BY <1>1, <1>2, <2>1, <2>2, <2>3, <3>1 DEF AtCheck, TxnOK, Typed
  <2>4. CASE documents[d] # None
    <3>1. /\ written'[t] = [x \in {d} |-> [documents[d] EXCEPT !.vector_dims = stmt[t].vector_dims]]
          /\ stmt'[t].op = "UpsertDocument"
          /\ documents' = documents
      BY <1>1, <2>4 DEF Typed, dbVars
    <3>2. Updating(t)'
      BY <1>2, <2>2, <2>4, <3>1 DEF Updating
    <3> QED  BY <1>1, <1>2, <2>1, <2>2, <2>4, <3>2 DEF AtCount, TxnOK, Typed
  <2> QED  BY <2>3, <2>4
<1>7. DocumentBlockers(t, d) = {}
  BY DEF Blockers
<1>8. \A u \in Txn \ {t} :
         /\ Rows(t)' \cap Rows(u) = {}
         /\ \A c \in CollectionId : ~Conflict(lock'[t][c], lock[u][c])
  BY <1>5, <1>7 DEF Exclusive, Rows, DocumentBlockers
<1> QED  BY <1>1, <1>4, <1>6, <1>8, OwnStep DEF Typed, dbVars

(* A lock that nobody's lock keeps t from excludes nobody.                 *)
LEMMA Unblocked ==
    ASSUME NEW t \in Txn, NEW c \in CollectionId, NEW m \in LockMode,
           CollectionBlockers(t, c, m) = {}
    PROVE  \A u \in Txn \ {t} : ~Conflict(m, lock[u][c])
BY DEF CollectionBlockers

(* Taking one more lock.                                                   *)
LEMMA Locked ==
    ASSUME Typed, NEW t \in Txn, NEW c \in CollectionId, NEW m \in LockMode,
           lock' = [lock EXCEPT ![t][c] = m]
    PROVE  /\ lock' \in [Txn -> [CollectionId -> LockMode]]
           /\ lock'[t][c] = m
           /\ \A k \in CollectionId \ {c} : lock'[t][k] = lock[t][k]
           /\ \A u \in Txn \ {t} : lock'[u] = lock[u]
BY DEF Typed

LEMMA CheckForeignKeyInv ==
    ASSUME LockInv, NEW t \in Txn, CheckForeignKey(t)
    PROVE  LockInv'
<1> USE DEF CheckForeignKey, LockInv
<1> DEFINE c == Collection(t)
<1>1. stmt[t] \in Statement /\ stmt[t] # None /\ c \in CollectionId /\ CheckMode \in LockMode
  BY StatementAssumption DEF TxnOK, Typed, Collection, Statement, Sent, LockMode, CheckMode
<1>2. /\ lock' \in [Txn -> [CollectionId -> LockMode]]
      /\ lock'[t][c] = CheckMode
      /\ \A k \in CollectionId \ {c} : lock'[t][k] = lock[t][k]
      /\ \A u \in Txn \ {t} : lock'[u] = lock[u]
  BY <1>1, Locked
<1>3. Typed'
  BY <1>2 DEF Typed, Places
<1>4. TxnOK(t)'
  <2>1. TxnOK(t) /\ AtCheck(t)
    BY DEF TxnOK
  <2>2. Collection(t)' = c /\ Rows(t)' = Rows(t) /\ Live(c)'
    BY DEF Collection, Rows, Live, dbVars
  <2>3. Inserting(t)'
    BY <2>1, <2>2 DEF AtCheck, Inserting, dbVars
  <2>4. LocksOnly(t, c, "key share")'
    BY <1>2, <2>1, <2>2, NoLocks DEF LocksOnly, AtCheck, CheckMode
  <2>5. AtCount(t)'
    BY <2>1, <2>2, <2>3, <2>4 DEF AtCount, AtCheck
  <2> QED  BY <1>1, <2>1, <2>5 DEF TxnOK, Typed
<1>5. CollectionBlockers(t, c, CheckMode) = {}
  BY DEF Blockers
<1>6. \A u \in Txn \ {t} :
         /\ Rows(t)' \cap Rows(u) = {}
         /\ \A k \in CollectionId : ~Conflict(lock'[t][k], lock[u][k])
  BY <1>1, <1>2, <1>5, Unblocked DEF Exclusive, Rows
<1> QED  BY <1>2, <1>3, <1>4, <1>6, OwnStep DEF Typed, dbVars

LEMMA LockCollectionInv ==
    ASSUME LockInv, NEW t \in Txn, LockCollection(t)
    PROVE  LockInv'
<1> USE DEF LockCollection, LockInv
<1> DEFINE c == Collection(t)
<1>1. stmt[t] \in Statement /\ stmt[t] # None /\ c \in CollectionId /\ "update" \in LockMode
  BY StatementAssumption DEF TxnOK, Typed, Collection, Statement, Sent, LockMode
<1>2. /\ lock' \in [Txn -> [CollectionId -> LockMode]]
      /\ lock'[t][c] = "update"
      /\ \A k \in CollectionId \ {c} : lock'[t][k] = lock[t][k]
      /\ \A u \in Txn \ {t} : lock'[u] = lock[u]
  BY <1>1, Locked
<1>3. Typed'
  BY <1>2 DEF Typed, Places
<1>4. TxnOK(t)'
  <2>1. TxnOK(t) /\ Fresh(t) /\ todo[t] = {}
    BY DEF TxnOK
  <2>2. Collection(t)' = c /\ Rows(t)' = {} /\ Live(c)'
    BY <2>1, EmptyRows DEF Collection, Rows, Live, dbVars, Fresh
  <2>4. LocksOnly(t, c, "update")'
    BY <1>2, <2>1, <2>2, NoLocks DEF LocksOnly, Fresh
  <2>5. Closing(t)'
    BY <1>1, <2>1, <2>2, <2>4 DEF Closing, Fresh
  <2> QED  BY <1>1, <2>1, <2>2, <2>5 DEF TxnOK, Typed
<1>5. CollectionBlockers(t, c, "update") = {}
  BY DEF Blockers
<1>6. \A u \in Txn \ {t} :
         /\ Rows(t)' \cap Rows(u) = {}
         /\ \A k \in CollectionId : ~Conflict(lock'[t][k], lock[u][k])
  BY <1>1, <1>2, <1>5, Unblocked DEF Exclusive, Rows
<1> QED  BY <1>2, <1>3, <1>4, <1>6, OwnStep DEF Typed, dbVars

(* A deletion finds rows of one collection, its cascade all of them.       *)
LEMMA ScanInv ==
    ASSUME LockInv, NEW t \in Txn, Scan(t)
    PROVE  LockInv'
<1> USE DEF Scan, LockInv
<1>1. stmt[t] \in Sent /\ stmt[t] # None /\ stmt[t].ids \subseteq DocumentId
  BY StatementAssumption DEF TxnOK, Typed, Statement, Sent
<1>2. PICK d \in FirstOf(Found(t)) : next' = [next EXCEPT ![t] = d]
  OBVIOUS
<1>3. \/ stmt[t].op \in DocumentDeletions /\ Fresh(t)
      \/ Closing(t) /\ Rows(t) = {}
  BY DEF TxnOK
<1>4. /\ Found(t) \subseteq DocumentId
      /\ \A x \in Found(t) : documents[x] # None
      /\ \A x, y \in Found(t) : documents[x].collection_id = documents[y].collection_id
      /\ stmt[t].op = "DeleteCollection" => Found(t) = DocumentsOf(Collection(t))
  <2>1. CASE stmt[t].op = "DeleteDocument"
    <3>1. Found(t) = stmt[t].ids \ Unused
      BY <2>1 DEF Found
    <3>2. Cardinality(stmt[t].ids) = 1
      BY <1>1, <2>1 DEF Sent
    <3>3. IsFiniteSet(stmt[t].ids)
      BY <1>1, FS_Subset, DocumentIdAssumption
    <3>4. PICK x : stmt[t].ids = {x}
      BY <3>2, <3>3, FS_Singleton
    <3> QED  BY <1>1, <2>1, <3>1, <3>4 DEF Unused
  <2>2. CASE stmt[t].op = "BatchDelete"
    <3>1. Found(t) = stmt[t].ids \cap DocumentsOf(Collection(t))
      BY <2>2 DEF Found
    <3> QED  BY <1>1, <2>2, <3>1 DEF DocumentsOf
  <2>3. CASE stmt[t].op = "DeleteCollection"
    <3>1. Found(t) = DocumentsOf(Collection(t))
      BY <2>3 DEF Found
    <3> QED  BY <2>3, <3>1 DEF DocumentsOf
  <2> QED  BY <1>3, <2>1, <2>2, <2>3 DEF DocumentDeletions, Closing
<1>5. d \in DocumentId \cup {None} /\ (d = None => Found(t) = {})
  BY <1>2, <1>4, RowLocksAssumption DEF FirstOf
<1>6. Typed'
  BY <1>2, <1>4, <1>5 DEF Typed, Places
<1>7. /\ todo'[t] = Found(t)
      /\ next'[t] = d
      /\ at'[t] = "rows"
      /\ Rows(t)' = Rows(t)
      /\ Collection(t)' = Collection(t)
      /\ documents' = documents
      /\ collections' = collections
  BY <1>2 DEF Typed, Rows, Collection, dbVars
<1>8. TxnOK(t)'
  <2>1. CASE stmt[t].op \in DocumentDeletions /\ Fresh(t)
    <3>1. Rows(t)' = {} /\ Fresh(t)'
      BY <1>7, <2>1, EmptyRows DEF Fresh, Rows
    <3>2. Deleting(t)'
      BY <1>4, <1>7, <2>1, <3>1 DEF Deleting
    <3> QED  BY <1>1, <1>5, <1>7, <3>1, <3>2 DEF TxnOK, AtRows, Fresh
  <2>2. CASE Closing(t) /\ Rows(t) = {}
    <3>1. Closing(t)'
      BY <1>7, <2>2 DEF Closing, Live, LocksOnly
    <3>2. (Rows(t) \cup todo[t] = DocumentsOf(Collection(t)))'
      BY <1>4, <1>7, <2>2 DEF Closing, DocumentsOf
    <3> QED  BY <1>1, <1>5, <1>7, <3>1, <3>2 DEF TxnOK, AtRows
  <2> QED  BY <1>3, <2>1, <2>2
<1>9. \A u \in Txn \ {t} :
         /\ Rows(t)' \cap Rows(u) = {}
         /\ \A c \in CollectionId : ~Conflict(lock'[t][c], lock[u][c])
  BY <1>7 DEF Exclusive
<1> QED  BY <1>2, <1>6, <1>8, <1>9, OwnStep DEF Typed, dbVars

(* A row that is locked and deleted is one that nobody else has written.   *)
LEMMA DeleteRowInv ==
    ASSUME LockInv, NEW t \in Txn, DeleteRow(t)
    PROVE  LockInv'
<1> USE DEF DeleteRow, LockInv
<1> DEFINE d == next[t]
           rest == todo[t] \ {d}
<1>1. PICK e \in FirstOf(todo'[t]) : next' = [next EXCEPT ![t] = e]
  OBVIOUS
<1>2. stmt[t] # None /\ d \in DocumentId /\ todo[t] \subseteq DocumentId /\ todo'[t] = rest
  BY DEF TxnOK, Typed
<1>3. e \in DocumentId \cup {None} /\ (e = None => rest = {})
  BY <1>1, <1>2, RowLocksAssumption DEF FirstOf
<1>4. TxnOK(t) /\ AtRows(t)
  BY DEF TxnOK
<1>5. /\ d \in todo[t] => Rows(t)' = Rows(t) \cup {d} /\ \A x \in Rows(t)' : written'[t][x] = None
      /\ d \notin todo[t] => Rows(t)' = Rows(t) /\ written'[t] = written[t]
      /\ Rows(t) \subseteq DocumentId
  BY DEF Typed, Rows
<1>6. Typed'
  <2>1. \A S \in SUBSET DocumentId : [x \in S |-> None] \in [S -> DocumentRow \cup {None}]
    OBVIOUS
  <2>2. written'[t] \in UNION {[S -> DocumentRow \cup {None}] : S \in SUBSET DocumentId}
    <3>1. CASE d \in todo[t]
      <4>1. written'[t] = [x \in Rows(t) \cup {d} |-> None]
        BY <3>1 DEF Typed, Rows
      <4>2. Rows(t) \cup {d} \in SUBSET DocumentId
        BY <1>2, <1>5
      <4> QED  BY <2>1, <4>1, <4>2
    <3>2. CASE d \notin todo[t]
      BY <1>5, <3>2 DEF Typed
    <3> QED  BY <3>1, <3>2
  <2> QED  BY <1>1, <1>2, <1>3, <2>2 DEF Typed, Places
<1>7. Rows(t)' \cup todo'[t] \subseteq Rows(t) \cup todo[t]
      /\ (Rows(t) \cup todo[t] \subseteq Rows(t)' \cup todo'[t])
  BY <1>2, <1>5
<1>8. /\ Collection(t)' = Collection(t)
      /\ at'[t] = "rows" /\ stmt' = stmt /\ lock' = lock /\ newCount' = newCount
      /\ next'[t] = e
      /\ documents' = documents
      /\ collections' = collections
  BY <1>1 DEF Collection, dbVars, Typed
<1>9. TxnOK(t)'
  <2>1. CASE Deleting(t) /\ lock[t] = NoLock /\ newCount[t] = None
    <3>1. Deleting(t)'
      BY <1>5, <1>7, <1>8, <2>1 DEF Deleting
    <3> QED  BY <1>2, <1>3, <1>8, <2>1, <3>1 DEF TxnOK, AtRows
  <2>2. CASE Closing(t) /\ Rows(t) \cup todo[t] = DocumentsOf(Collection(t))
    <3>1. Closing(t)'
      BY <1>5, <1>8, <2>2 DEF Closing, Live, LocksOnly
    <3>2. (Rows(t) \cup todo[t] = DocumentsOf(Collection(t)))'
      BY <1>7, <1>8, <2>2 DEF DocumentsOf
    <3> QED  BY <1>2, <1>3, <1>8, <3>1, <3>2 DEF TxnOK, AtRows
  <2> QED  BY <1>4, <2>1, <2>2 DEF AtRows
<1>10. \A u \in Txn \ {t} :
         /\ Rows(t)' \cap Rows(u) = {}
         /\ \A c \in CollectionId : ~Conflict(lock'[t][c], lock[u][c])
  <2>1. d \in todo[t] => \A u \in Txn \ {t} : d \notin Rows(u)
    BY DEF Blockers, DocumentBlockers, Rows
  <2> QED  BY <1>5, <1>8, <2>1 DEF Exclusive
<1> QED  BY <1>1, <1>6, <1>9, <1>10, OwnStep DEF Typed, dbVars

LEMMA RowsDoneInv ==
    ASSUME LockInv, NEW t \in Txn, RowsDone(t)
    PROVE  LockInv'
<1> USE DEF RowsDone, LockInv
<1>1. Typed'
  BY DEF Typed, Places
<1>2. TxnOK(t)'
  <2>1. TxnOK(t) /\ AtRows(t) /\ todo[t] = {}
    BY DEF TxnOK, AtRows
  <2>2. /\ Collection(t)' = Collection(t) /\ Rows(t)' = Rows(t)
        /\ documents' = documents /\ collections' = collections
    BY DEF Collection, Rows, dbVars
  <2>3. Deleting(t) => Deleting(t)'
    BY <2>2 DEF Deleting
  <2>4. Closing(t) /\ Rows(t) \cup todo[t] = DocumentsOf(Collection(t)) =>
            Closing(t)' /\ Rows(t)' = DocumentsOf(Collection(t))'
    BY <2>1, <2>2 DEF Closing, Live, LocksOnly, DocumentsOf
  <2>5. AtCount(t)'
    BY <2>1, <2>3, <2>4 DEF AtCount, AtRows
  <2> QED  BY <2>1, <2>5 DEF TxnOK, Typed
<1>3. \A u \in Txn \ {t} :
         /\ Rows(t)' \cap Rows(u) = {}
         /\ \A c \in CollectionId : ~Conflict(lock'[t][c], lock[u][c])
  BY DEF Exclusive, Rows
<1> QED  BY <1>1, <1>2, <1>3, OwnStep DEF Typed, dbVars

(* The triggers of an insert or a deletion lock the one collection whose   *)
(* documents were written.                                                 *)
LEMMA CountedOne ==
    ASSUME NEW t \in Txn, NEW c \in CollectionId, DbInv, Rows(t) # {}, Rows(t) \subseteq DocumentId,
           \/ Inserting(t) /\ c = Collection(t)
           \/ Deleting(t) /\ \A d \in Rows(t) : documents[d].collection_id = c
    PROVE  Counted(t) = {c}
<1>1. PICK d : d \in Rows(t)
  OBVIOUS
<1>2. c \in Counted(t)
  BY <1>1 DEF Counted, Rows, Inserting, Deleting
<1>3. Counted(t) \subseteq {c}
  <2>1. CASE Inserting(t) /\ c = Collection(t)
    BY <2>1 DEF Counted, Rows, Inserting
  <2>2. CASE Deleting(t) /\ \A x \in Rows(t) : documents[x].collection_id = c
    BY <2>2 DEF Counted, Rows, Deleting
  <2> QED  BY <2>1, <2>2
<1> QED  BY <1>2, <1>3

LEMMA NoneCounted ==
    ASSUME NEW t \in Txn, DbInv, Updating(t) \/ Rows(t) = {}
    PROVE  Counted(t) = {}
<1>1. CASE Rows(t) = {}
  BY <1>1 DEF Counted, Rows
<1>2. CASE Updating(t)
  <2>1. PICK d \in DocumentId, n \in StorableLength :
           /\ documents[d] # None
           /\ written[t] = [x \in {d} |-> [documents[d] EXCEPT !.vector_dims = n]]
    BY <1>2 DEF Updating
  <2>2. [documents[d] EXCEPT !.vector_dims = n] \in DocumentRow
    BY <2>1 DEF DbInv, DbTypeOK, DocumentRow
  <2>3. DOMAIN written[t] = {d} /\ written[t][d] # None
    BY <2>1, <2>2, NoneAssumption
  <2> QED  BY <2>1, <2>3 DEF Counted
<1> QED  BY <1>1, <1>2

(* What a transaction has written and found is finite, so that its change  *)
(* of a count is a number.                                                 *)
LEMMA ChangeType ==
    ASSUME Typed, NEW t \in Txn
    PROVE  Rows(t) \subseteq DocumentId /\ IsFiniteSet(Rows(t)) /\ Change(t) \in Int
<1>1. Rows(t) \subseteq DocumentId
  BY DEF Typed, Rows
<1>2. IsFiniteSet(Rows(t)) /\ Cardinality(Rows(t)) \in Nat
  BY <1>1, FS_Subset, FS_CardinalityType, DocumentIdAssumption
<1> QED  BY <1>1, <1>2 DEF Change, Rows

(* Without rows there is nothing to write.                                 *)
LEMMA WroteNothing ==
    ASSUME Typed, NEW t \in Txn, Rows(t) = {}
    PROVE  written[t] = NoRows
<1>1. PICK S \in SUBSET DocumentId : written[t] \in [S -> DocumentRow \cup {None}]
  BY DEF Typed
<1>2. S = {}
  BY <1>1 DEF Rows
<1> QED  BY <1>1, <1>2 DEF NoRows

LEMMA InsertsNothingElse ==
    ASSUME NEW t \in Txn, Inserting(t)
    PROVE  ~Updating(t) /\ ~Deleting(t) /\ ~Closing(t)
<1>1. Updating(t) => \E d \in Rows(t) : documents[d] # None
  BY DEF Updating, Rows
<1> QED  BY <1>1 DEF Inserting, Deleting, Closing, Inserts, DocumentDeletions

LEMMA CountRowsInv ==
    ASSUME LockInv, DbInv, NEW t \in Txn, CountRows(t)
    PROVE  LockInv'
<1> USE DEF LockInv
<1>1. TxnOK(t) /\ AtCount(t) /\ at[t] = "count"
  BY DEF TxnOK, CountRows
<1>2. /\ stmt' = stmt /\ todo' = todo /\ next' = next /\ written' = written
      /\ collections' = collections /\ documents' = documents
      /\ at' = [at EXCEPT ![t] = "commit"]
  BY DEF CountRows, dbVars
<1>3. /\ Rows(t)' = Rows(t) /\ Collection(t)' = Collection(t) /\ Change(t)' = Change(t)
      /\ (Inserting(t) => Inserting(t)') /\ (Deleting(t) => Deleting(t)')
      /\ \A c : Live(c)' <=> Live(c)
      /\ stmt[t] # None /\ at'[t] = "commit"
  <2>1. Rows(t)' = Rows(t) /\ Collection(t)' = Collection(t) /\ Change(t)' = Change(t)
    BY <1>2 DEF Rows, Collection, Change
  <2> QED  BY <1>1, <1>2, <2>1 DEF Inserting, Deleting, Live, TxnOK, Typed
<1>4. ASSUME NEW c \in Counted(t), Live(c), lock[t][c] # "update",
             lock' = [lock EXCEPT ![t][c] = CountMode],
             newCount' = [newCount EXCEPT ![t] = collections[c].document_count + Change(t)]
      PROVE  LockInv'
  <2>1. c \in CollectionId /\ CountMode \in LockMode
    BY <1>4 DEF Counted, LockMode, CountMode
  <2>2. /\ lock' \in [Txn -> [CollectionId -> LockMode]]
        /\ lock'[t][c] = "no key update"
        /\ \A k \in CollectionId \ {c} : lock'[t][k] = lock[t][k]
        /\ \A u \in Txn \ {t} : lock'[u] = lock[u]
    BY <1>4, <2>1, Locked DEF CountMode
  <2>3. collections[c].document_count + Change(t) \in Int
    BY <1>4, <2>1, ChangeType DEF DbInv, DbTypeOK, Live, CollectionRow
  <2>4. Typed'
    BY <1>2, <1>4, <2>2, <2>3 DEF Typed, Places
  <2>5. Rows(t) # {} /\ ~Updating(t)
    BY <1>4, NoneCounted DEF Counted
  <2>6. \/ Inserting(t) /\ LocksOnly(t, Collection(t), "key share")
        \/ Deleting(t) /\ lock[t] = NoLock
    <3>1. CASE Closing(t)
      <4>1. Rows(t) = DocumentsOf(Collection(t))
        BY <1>1, <2>5, <3>1, InsertsNothingElse
        DEF AtCount, Closing, Deleting, DocumentDeletions
      <4>2. \A d \in Rows(t) : documents[d] # None /\ documents[d].collection_id = Collection(t)
        BY <4>1 DEF DocumentsOf
      <4>3. c = Collection(t)
        BY <1>4, <4>2 DEF Counted, Rows
      <4> QED  BY <1>4, <3>1, <4>3 DEF Closing, LocksOnly
    <3> QED  BY <1>1, <2>5, <3>1 DEF AtCount
  <2>7. \E k \in CollectionId :
           \/ Inserting(t) /\ k = Collection(t)
           \/ Deleting(t) /\ \A d \in Rows(t) : documents[d].collection_id = k
    <3>1. CASE Inserting(t)
      BY <2>5, <3>1, ChangeType DEF Inserting, DocumentRow
    <3>2. CASE Deleting(t)
      <4>1. PICK e \in Rows(t) : TRUE
        BY <2>5
      <4>2. documents[e].collection_id \in CollectionId
        BY <3>2, <4>1, ChangeType DEF Deleting, DbInv, DbTypeOK, DocumentRow
      <4> QED  BY <3>2, <4>1, <4>2 DEF Deleting
    <3> QED  BY <2>6, <3>1, <3>2
  <2>8. \/ Inserting(t) /\ c = Collection(t)
        \/ Deleting(t) /\ \A d \in Rows(t) : documents[d].collection_id = c
    BY <1>4, <2>5, <2>7, CountedOne, ChangeType
  <2>9. LocksOnly(t, c, "no key update")'
    <3>1. Inserting(t) => LocksOnly(t, Collection(t), "key share") /\ c = Collection(t)
      BY <2>6, <2>8, InsertsNothingElse
    <3>2. \A k \in CollectionId \ {c} : lock[t][k] = "none"
      BY <2>6, <3>1, NoLocks DEF LocksOnly
    <3> QED  BY <2>2, <3>2 DEF LocksOnly
  <2>10. Counting(t)'
    <3>1. newCount'[t] = (collections[c].document_count + Change(t))'
      BY <1>2, <1>3, <1>4 DEF Typed
    <3>2. \A d \in Rows(t) :
             IF stmt[t].op \in Deletions
             THEN documents[d].collection_id = c ELSE written[t][d].collection_id = c
      BY <2>8 DEF Inserting, Deleting, Inserts, Deletions, DocumentDeletions
    <3> QED  BY <1>2, <1>3, <1>4, <2>1, <2>5, <2>9, <3>1, <3>2 DEF Counting
  <2>11. TxnOK(t)'
    <3>1. AtCommit(t)'
      BY <1>1, <1>2, <1>3, <2>8, <2>10 DEF AtCommit, AtCount
    <3> QED  BY <1>2, <1>3, <3>1 DEF TxnOK
  <2>12. CollectionBlockers(t, c, CountMode) = {}
    BY <1>1, <1>4, <2>1 DEF CountRows, Blockers
  <2> HIDE DEF LockInv
  <2>13. ASSUME NEW u \in Txn \ {t}
         PROVE  /\ Rows(t)' \cap Rows(u) = {}
                /\ \A k \in CollectionId : ~Conflict(lock'[t][k], lock[u][k])
    <3>1. Exclusive
      BY DEF LockInv
    <3>2. Rows(t)' \cap Rows(u) = {}
      BY <1>3, <3>1 DEF Exclusive
    <3>3. \A k \in CollectionId : ~Conflict(lock[t][k], lock[u][k])
      BY <3>1 DEF Exclusive
    <3>4. ~Conflict("no key update", lock[u][c])
      BY <2>1, <2>12, Unblocked DEF CountMode
    <3> QED  BY <2>2, <3>2, <3>3, <3>4
  <2> QED  BY <1>2, <1>4, <2>2, <2>4, <2>11, <2>13, OwnStep DEF Typed
<1>5. ASSUME \A c \in Counted(t) : ~Live(c) \/ lock[t][c] = "update",
             lock' = lock, newCount' = newCount
      PROVE  LockInv'
  <2>1. Typed'
    BY <1>2, <1>5 DEF Typed, Places
  <2>2. ~Inserting(t)
    <3> SUFFICES ASSUME Inserting(t) PROVE FALSE
      OBVIOUS
    <3>1. Live(Collection(t)) /\ LocksOnly(t, Collection(t), "key share")
      BY <1>1, InsertsNothingElse DEF AtCount
    <3>2. Collection(t) \in CollectionId /\ Rows(t) # {}
      BY ChangeType DEF Inserting, DocumentRow
    <3>3. Counted(t) = {Collection(t)}
      BY <3>2, CountedOne, ChangeType
    <3> QED  BY <1>5, <3>1, <3>3 DEF LocksOnly
  <2>3. Deleting(t) => Rows(t) = {}
    <3> SUFFICES ASSUME Deleting(t), Rows(t) # {} PROVE FALSE
      OBVIOUS
    <3>1. PICK e \in Rows(t) : TRUE
      OBVIOUS
    <3>2. documents[e].collection_id \in CollectionId /\ Live(documents[e].collection_id)
      BY <3>1, ChangeType DEF Deleting, DbInv, DbTypeOK, DocumentRow, NoOrphans
    <3>3. Counted(t) = {documents[e].collection_id}
      BY <3>1, <3>2, CountedOne, ChangeType DEF Deleting
    <3>4. lock[t] = NoLock
      BY <1>1 DEF AtCount, Inserting, Updating, Deleting, Closing, Inserts, DocumentDeletions
    <3> QED  BY <1>5, <3>2, <3>3, <3>4, NoLocks
  <2>4. Updating(t) => Updating(t)'
    BY <1>2, <1>5 DEF Updating
  <2>5. Deleting(t) /\ lock[t] = NoLock /\ newCount[t] = None => Deleting(t)' /\ Fresh(t)'
    <3> SUFFICES ASSUME Deleting(t), lock[t] = NoLock, newCount[t] = None
                 PROVE  Fresh(t)'
      BY <1>3
    <3>1. written[t] = NoRows
      BY <2>3, WroteNothing
    <3> QED  BY <1>2, <1>5, <3>1 DEF Fresh
  <2>6. Closing(t) /\ Rows(t) = DocumentsOf(Collection(t)) =>
            Closing(t)' /\ Rows(t)' = DocumentsOf(Collection(t))'
    BY <1>2, <1>3, <1>5 DEF Closing, LocksOnly, DocumentsOf
  <2>7. AtCommit(t)'
    BY <1>1, <1>2, <2>2, <2>4, <2>5, <2>6 DEF AtCount, AtCommit
  <2>8. TxnOK(t)'
    BY <1>2, <1>3, <2>7 DEF TxnOK
  <2>9. \A u \in Txn \ {t} :
           /\ Rows(t)' \cap Rows(u) = {}
           /\ \A c \in CollectionId : ~Conflict(lock'[t][c], lock[u][c])
    BY <1>3, <1>5 DEF Exclusive
  <2> QED  BY <1>2, <1>5, <2>1, <2>8, <2>9, OwnStep DEF Typed
<1> QED  BY <1>2, <1>4, <1>5 DEF CountRows
-----------------------------------------------------------------------------
(* What a transaction that counted is about to do to the tables.           *)
LEMMA CountingOne ==
    ASSUME Typed, DbInv, NEW t \in Txn, NEW c \in CollectionId,
           Live(c), Rows(t) # {},
           \A d \in Rows(t) :
              IF stmt[t].op \in Deletions
              THEN documents[d].collection_id = c ELSE written[t][d].collection_id = c,
           Inserting(t) \/ Deleting(t)
    PROVE  Counted(t) = {c}
<1>1. CASE Inserting(t)
  <2>1. c = Collection(t)
    BY <1>1 DEF Inserting, Inserts, Deletions, DocumentDeletions
  <2> QED  BY <1>1, <2>1, CountedOne, ChangeType
<1>2. CASE Deleting(t)
  <2>1. \A d \in Rows(t) : documents[d].collection_id = c
    BY <1>2 DEF Deleting, Deletions
  <2> QED  BY <1>2, <2>1, CountedOne, ChangeType
<1> QED  BY <1>1, <1>2

(* A commit does not touch what other transactions rely on: the rows they  *)
(* wrote, the collections they have locked, and of those that they delete  *)
(* the documents.                                                          *)
LEMMA CommitKeeps ==
    ASSUME LockInv, DbInv, NEW t \in Txn, Commit(t), NEW u \in Txn \ {t}
    PROVE  /\ \A d \in Rows(u) : documents'[d] = documents[d]
           /\ \A d \in DocumentId : documents[d] # None /\ documents'[d] # None =>
                 documents'[d].collection_id = documents[d].collection_id
           /\ \A c \in CollectionId : lock[u][c] # "none" /\ Live(c) => Live(c)'
           /\ \A c \in CollectionId : lock[u][c] = "no key update" =>
                 collections'[c] = collections[c]
           /\ \A c \in CollectionId : lock[u][c] = "update" =>
                 DocumentsOf(c)' = DocumentsOf(c)
<1> USE DEF LockInv
<1>1. TxnOK(t) /\ AtCommit(t) /\ stmt[t] # None
  BY DEF TxnOK, Commit
<1>2. \A d \in DocumentId :
         documents'[d] = IF d \in Rows(t) THEN written[t][d] ELSE documents[d]
  BY DEF Commit, Rows
<1>3. \A c \in CollectionId :
         collections'[c] = IF lock[t][c] = "update" THEN None
                           ELSE IF newCount[t] # None /\ c \in Counted(t)
                           THEN [collections[c] EXCEPT !.document_count = newCount[t]]
                           ELSE collections[c]
  BY DEF Commit
<1>4. Rows(u) \subseteq DocumentId /\ Rows(t) \subseteq DocumentId /\ Rows(t) \cap Rows(u) = {}
  BY ChangeType DEF Exclusive
<1>5. \A c \in CollectionId : ~Conflict(lock[t][c], lock[u][c])
  BY DEF Exclusive
<1>6. \A d \in Rows(u) : documents'[d] = documents[d]
  BY <1>2, <1>4
<1>7. ASSUME NEW d \in Rows(t), documents[d] # None, written[t][d] # None
      PROVE  written[t][d].collection_id = documents[d].collection_id
  <2>1. Updating(t)
    BY <1>1, <1>7 DEF AtCommit, Inserting, Deleting, Closing
  <2>2. PICK e \in DocumentId, n \in StorableLength :
           /\ documents[e] # None
           /\ written[t] = [x \in {e} |-> [documents[e] EXCEPT !.vector_dims = n]]
    BY <2>1 DEF Updating
  <2>3. d = e /\ documents[d] \in DocumentRow
    BY <1>4, <1>7, <2>2 DEF Rows, DbInv, DbTypeOK
  <2> QED  BY <2>2, <2>3 DEF DocumentRow
<1>8. \A d \in DocumentId : documents[d] # None /\ documents'[d] # None =>
         documents'[d].collection_id = documents[d].collection_id
  BY <1>2, <1>7
<1>9. ASSUME NEW c \in CollectionId, lock[u][c] # "none", Live(c) PROVE Live(c)'
  <2>1. lock[t][c] # "update"
    BY <1>5, <1>9 DEF Conflict
  <2>2. collections[c] \in CollectionRow
    BY <1>9 DEF Live, DbInv, DbTypeOK
  <2>3. newCount[t] # None => [collections[c] EXCEPT !.document_count = newCount[t]] \in CollectionRow
    BY <2>2 DEF Typed, CollectionRow
  <2> QED  BY <1>3, <1>9, <2>1, <2>3, NoneAssumption DEF Live
<1>10. ASSUME NEW c \in CollectionId, lock[u][c] \in {"no key update", "update"}
       PROVE  \/ Inserting(t) /\ c # Collection(t) /\ (newCount[t] # None => c \notin Counted(t))
              \/ Updating(t)
              \/ Deleting(t) /\ (\A d \in Rows(t) : documents[d].collection_id # c)
                             /\ (newCount[t] # None => c \notin Counted(t))
              \/ Closing(t) /\ c # Collection(t) /\ Rows(t) = DocumentsOf(Collection(t))
  <2>1. CASE (Inserting(t) \/ Deleting(t)) /\ Counting(t)
    <3>1. PICK k \in CollectionId :
             /\ Live(k)
             /\ LocksOnly(t, k, "no key update")
             /\ Rows(t) # {}
             /\ \A d \in Rows(t) :
                   IF stmt[t].op \in Deletions
                   THEN documents[d].collection_id = k ELSE written[t][d].collection_id = k
      BY <2>1 DEF Counting
    <3>2. Counted(t) = {k}
      BY <2>1, <3>1, CountingOne
    <3>3. c # k
      BY <1>5, <1>10, <3>1 DEF LocksOnly, Conflict
    <3>4. Inserting(t) => k = Collection(t)
      BY <3>1 DEF Inserting, Inserts, Deletions, DocumentDeletions
    <3>5. Deleting(t) => \A d \in Rows(t) : documents[d].collection_id = k
      BY <3>1 DEF Deleting, Deletions
    <3> QED  BY <2>1, <3>2, <3>3, <3>4, <3>5
  <2>2. CASE Deleting(t) /\ Fresh(t)
    BY <2>2, EmptyRows DEF Fresh, Rows
  <2>3. CASE Closing(t) /\ Rows(t) = DocumentsOf(Collection(t))
    BY <1>5, <1>10, <2>3 DEF Closing, LocksOnly, Conflict
  <2> QED  BY <1>1, <2>1, <2>2, <2>3 DEF AtCommit
<1>11. ASSUME NEW c \in CollectionId, lock[u][c] = "no key update"
       PROVE  collections'[c] = collections[c]
  <2>1. lock[t][c] # "update"
    BY <1>5, <1>11 DEF Conflict
  <2>2. newCount[t] # None => c \notin Counted(t)
    BY <1>10, <1>11 DEF Updating, Closing
  <2> QED  BY <1>3, <2>1, <2>2
<1>12. ASSUME NEW c \in CollectionId, lock[u][c] = "update"
       PROVE  DocumentsOf(c)' = DocumentsOf(c)
  <2>1. CASE Inserting(t) /\ c # Collection(t)
    BY <1>2, <2>1 DEF Inserting, DocumentsOf
  <2>2. CASE Updating(t)
    <3>1. \A d \in Rows(t) : documents[d] # None /\ written[t][d] # None
      <4>1. PICK e \in DocumentId, n \in StorableLength :
               /\ documents[e] # None
               /\ written[t] = [x \in {e} |-> [documents[e] EXCEPT !.vector_dims = n]]
        BY <2>2 DEF Updating
      <4>2. [documents[e] EXCEPT !.vector_dims = n] \in DocumentRow
        BY <4>1 DEF DbInv, DbTypeOK, DocumentRow
      <4> QED  BY <4>1, <4>2, NoneAssumption DEF Rows
    <3> QED  BY <1>2, <1>7, <3>1 DEF DocumentsOf
  <2>3. CASE Deleting(t) /\ \A d \in Rows(t) : documents[d].collection_id # c
    BY <1>2, <2>3 DEF Deleting, DocumentsOf
  <2>4. CASE Closing(t) /\ c # Collection(t) /\ Rows(t) = DocumentsOf(Collection(t))
    BY <1>2, <2>4 DEF Closing, DocumentsOf
  <2> QED  BY <1>10, <1>12, <2>1, <2>2, <2>3, <2>4
<1> QED  BY <1>6, <1>8, <1>9, <1>11, <1>12

LEMMA CommitInv ==
    ASSUME LockInv, DbInv, NEW t \in Txn, Commit(t)
    PROVE  LockInv'
<1> USE DEF LockInv
<1>1. /\ stmt' = [stmt EXCEPT ![t] = None]
      /\ at' = [at EXCEPT ![t] = "idle"]
      /\ next' = [next EXCEPT ![t] = None]
      /\ written' = [written EXCEPT ![t] = NoRows]
      /\ lock' = [lock EXCEPT ![t] = NoLock]
      /\ newCount' = [newCount EXCEPT ![t] = None]
      /\ todo' = [u \in Txn |-> {d \in todo[u] : u # t /\ documents'[d] # None}]
  BY DEF Commit, EndOf
<1>2. Typed'
  BY <1>1, EmptyRows, NoLocks DEF Typed, Places
<1>3. TxnOK(t)'
  BY <1>1 DEF TxnOK, Fresh, Typed
<1>4. ASSUME NEW u \in Txn \ {t} PROVE TxnOK(u)'
  <2>1. /\ stmt'[u] = stmt[u] /\ at'[u] = at[u] /\ next'[u] = next[u]
        /\ written'[u] = written[u] /\ lock'[u] = lock[u] /\ newCount'[u] = newCount[u]
        /\ Rows(u)' = Rows(u) /\ Collection(u)' = Collection(u) /\ Change(u)' = Change(u)
        /\ todo'[u] = {d \in todo[u] : documents'[d] # None}
    BY <1>1 DEF Typed, Rows, Collection, Change
  <2>2. /\ \A d \in Rows(u) : documents'[d] = documents[d]
        /\ \A d \in DocumentId : documents[d] # None /\ documents'[d] # None =>
              documents'[d].collection_id = documents[d].collection_id
        /\ \A c \in CollectionId : lock[u][c] # "none" /\ Live(c) => Live(c)'
        /\ \A c \in CollectionId : lock[u][c] = "no key update" =>
              collections'[c] = collections[c]
        /\ \A c \in CollectionId : lock[u][c] = "update" =>
              DocumentsOf(c)' = DocumentsOf(c)
    BY CommitKeeps
  <2>3. TxnOK(u) /\ Rows(u) \subseteq DocumentId /\ todo[u] \subseteq DocumentId
    BY ChangeType DEF Typed
  <2> HIDE DEF LockInv
  <2>4. Inserting(u) => Inserting(u)'
    BY <2>1, <2>2 DEF Inserting
  <2>5. Updating(u) => Updating(u)'
    <3> SUFFICES ASSUME Updating(u) PROVE Updating(u)'
      OBVIOUS
    <3>1. PICK d \in DocumentId, n \in StorableLength :
             /\ documents[d] # None
             /\ written[u] = [x \in {d} |-> [documents[d] EXCEPT !.vector_dims = n]]
      BY DEF Updating
    <3>2. d \in Rows(u)
      BY <3>1 DEF Rows
    <3>3. documents'[d] = documents[d]
      BY <2>2, <3>2
    <3>4. /\ documents'[d] # None
          /\ written'[u] = [x \in {d} |-> [documents'[d] EXCEPT !.vector_dims = n]]
      BY <2>1, <3>1, <3>3
    <3>5. stmt'[u].op = "UpsertDocument" /\ lock'[u] = NoLock /\ newCount'[u] = None
      BY <2>1 DEF Updating
    <3> QED  BY <3>4, <3>5 DEF Updating
  <2>6. Deleting(u) => Deleting(u)'
    <3> SUFFICES ASSUME Deleting(u) PROVE Deleting(u)'
      OBVIOUS
    <3>1. \A d \in (Rows(u) \cup todo[u])' :
             /\ d \in Rows(u) \cup todo[u]
             /\ documents'[d] # None
             /\ documents'[d].collection_id = documents[d].collection_id
      BY <2>1, <2>2, <2>3 DEF Deleting
    <3>2. \A d, e \in (Rows(u) \cup todo[u])' :
             documents'[d].collection_id = documents'[e].collection_id
      BY <3>1 DEF Deleting
    <3>3. stmt'[u].op \in DocumentDeletions /\ \A d \in Rows(u)' : written'[u][d] = None
      BY <2>1 DEF Deleting
    <3> QED  BY <3>1, <3>2, <3>3 DEF Deleting
  <2>7. \A c, m : LocksOnly(u, c, m) => LocksOnly(u, c, m)'
    BY <2>1 DEF LocksOnly
  <2>8. ASSUME Closing(u)
        PROVE  \E c \in CollectionId : c = Collection(u) /\ lock[u][c] = "update" /\ Live(c)
    BY <2>8 DEF Closing, LocksOnly
  <2>9. Closing(u) => Closing(u)'
    <3> SUFFICES ASSUME Closing(u) PROVE Closing(u)'
      OBVIOUS
    <3>1. PICK c \in CollectionId : c = Collection(u) /\ lock[u][c] = "update" /\ Live(c)
      BY <2>8
    <3>2. Live(c)'
      BY <2>2, <3>1
    <3>3. LocksOnly(u, c, "update")'
      BY <2>7, <3>1 DEF Closing
    <3> QED  BY <2>1, <3>1, <3>2, <3>3 DEF Closing
  <2>10. Closing(u) => DocumentsOf(Collection(u))' = DocumentsOf(Collection(u))
    <3> SUFFICES ASSUME Closing(u) PROVE DocumentsOf(Collection(u))' = DocumentsOf(Collection(u))
      OBVIOUS
    <3>1. PICK c \in CollectionId : c = Collection(u) /\ lock[u][c] = "update" /\ Live(c)
      BY <2>8
    <3>2. DocumentsOf(c)' = DocumentsOf(c)
      BY <2>2, <3>1
    <3> QED  BY <2>1, <3>1, <3>2 DEF DocumentsOf
  <2>11. Counting(u) => Counting(u)'
    <3> SUFFICES ASSUME Counting(u) PROVE Counting(u)'
      OBVIOUS
    <3>1. PICK c \in CollectionId :
             /\ Live(c)
             /\ LocksOnly(u, c, "no key update")
             /\ Rows(u) # {}
             /\ newCount[u] = collections[c].document_count + Change(u)
             /\ \A d \in Rows(u) :
                   IF stmt[u].op \in Deletions
                   THEN documents[d].collection_id = c ELSE written[u][d].collection_id = c
      BY DEF Counting
    <3>2. collections'[c] = collections[c] /\ Live(c)'
      BY <2>2, <3>1 DEF LocksOnly
    <3>3. newCount'[u] = (collections[c].document_count + Change(u))'
      BY <2>1, <3>1, <3>2
    <3>4. \A d \in Rows(u)' :
             IF stmt'[u].op \in Deletions
             THEN documents'[d].collection_id = c ELSE written'[u][d].collection_id = c
      BY <2>1, <2>2, <3>1
    <3> QED  BY <2>1, <2>7, <3>1, <3>2, <3>3, <3>4 DEF Counting
  <2>12. (Inserting(u) /\ Live(Collection(u)) /\ LocksOnly(u, Collection(u), "key share"))
            => (Inserting(u) /\ Live(Collection(u)) /\ LocksOnly(u, Collection(u), "key share"))'
    <3> SUFFICES ASSUME Inserting(u), Live(Collection(u)), LocksOnly(u, Collection(u), "key share")
                 PROVE  Live(Collection(u))'
      BY <2>1, <2>4, <2>7
    <3>1. Collection(u) \in CollectionId
      BY <2>3 DEF Inserting, DocumentRow
    <3> QED  BY <2>1, <2>2, <3>1 DEF LocksOnly, Live
  <2>13. Fresh(u) => Fresh(u)'
    BY <2>1 DEF Fresh
  <2>14. AtCheck(u) => AtCheck(u)'
    BY <2>1, <2>4 DEF AtCheck
  <2>15. AtRows(u) => AtRows(u)'
    <3>1. Closing(u) /\ Rows(u) \cup todo[u] = DocumentsOf(Collection(u)) =>
             (Rows(u) \cup todo[u] = DocumentsOf(Collection(u)))'
      <4> SUFFICES ASSUME Closing(u), Rows(u) \cup todo[u] = DocumentsOf(Collection(u))
                   PROVE  todo'[u] = todo[u]
        BY <2>1, <2>10
      <4>1. \A d \in DocumentsOf(Collection(u)) : documents'[d] # None
        BY <2>1, <2>10 DEF DocumentsOf
      <4> QED  BY <2>1, <4>1
    <3> QED  BY <2>1, <2>6, <2>9, <3>1 DEF AtRows
  <2>16. AtCount(u) => AtCount(u)'
    BY <2>1, <2>5, <2>6, <2>9, <2>10, <2>12 DEF AtCount
  <2>17. AtCommit(u) => AtCommit(u)'
    BY <2>1, <2>4, <2>5, <2>6, <2>9, <2>10, <2>11, <2>13 DEF AtCommit
  <2>18. at[u] = "scan" => (Closing(u) /\ Rows(u) = {} /\ todo[u] = {})'
    BY <2>1, <2>3, <2>9 DEF TxnOK
  <2> QED
    BY <2>1, <2>3, <2>13, <2>14, <2>15, <2>16, <2>17, <2>18 DEF TxnOK
<1>5. ASSUME NEW u \in Txn, NEW v \in Txn \ {u}
      PROVE  /\ Rows(u)' \cap Rows(v)' = {}
             /\ \A c \in CollectionId : ~Conflict(lock'[u][c], lock'[v][c])
  <2>1. Rows(t)' = {} /\ lock'[t] = NoLock
    BY <1>1, EmptyRows DEF Typed, Rows
  <2>2. \A x \in Txn \ {t} : Rows(x)' = Rows(x) /\ lock'[x] = lock[x]
    BY <1>1 DEF Typed, Rows
  <2>3. CASE u = t \/ v = t
    BY <2>1, <2>3, NoLocks
  <2>4. CASE u # t /\ v # t
    BY <2>2, <2>4 DEF Exclusive
  <2> QED  BY <2>3, <2>4
<1> QED  BY <1>2, <1>3, <1>4, <1>5 DEF Exclusive

LEMMA SameRow ==
    ASSUME NEW r \in CollectionRow
    PROVE  /\ [r EXCEPT !.document_count = r.document_count + 0] = r
           /\ [r EXCEPT !.document_count = r.document_count - 0] = r
BY DEF CollectionRow

(* The one collection that a committing insert or deletion has counted.    *)
LEMMA CountCommitted ==
    ASSUME LockInv, DbInv, NEW t \in Txn, Commit(t), Inserting(t) \/ Deleting(t), Counting(t)
    PROVE  \E k \in CollectionId :
              /\ Live(k)
              /\ \A d \in Rows(t) :
                    IF stmt[t].op \in Deletions
                    THEN documents[d].collection_id = k ELSE written[t][d].collection_id = k
              /\ \A c \in CollectionId :
                    collections'[c] =
                        IF c = k
                        THEN [collections[c] EXCEPT !.document_count =
                                 collections[c].document_count + Change(t)]
                        ELSE collections[c]
<1>1. PICK k \in CollectionId :
         /\ Live(k)
         /\ LocksOnly(t, k, "no key update")
         /\ Rows(t) # {}
         /\ newCount[t] = collections[k].document_count + Change(t)
         /\ \A d \in Rows(t) :
               IF stmt[t].op \in Deletions
               THEN documents[d].collection_id = k ELSE written[t][d].collection_id = k
  BY DEF Counting
<1>2. Counted(t) = {k}
  BY <1>1, CountingOne DEF LockInv
<1>3. newCount[t] # None
  <2>1. collections[k].document_count \in Int /\ Change(t) \in Int
    BY <1>1, ChangeType DEF LockInv, DbInv, DbTypeOK, Live, CollectionRow
  <2>2. collections[k].document_count + Change(t) \in Int
    BY <2>1
  <2> QED  BY <1>1, <2>2, RowLocksAssumption
<1>4. \A c \in CollectionId : lock[t][c] # "update"
  BY <1>1 DEF LocksOnly
<1>5. \A c \in CollectionId :
         collections'[c] =
             IF c = k THEN [collections[c] EXCEPT !.document_count = newCount[t]]
             ELSE collections[c]
  BY <1>2, <1>3, <1>4 DEF Commit
<1>6. \A c \in CollectionId :
         collections'[c] =
             IF c = k
             THEN [collections[c] EXCEPT !.document_count =
                      collections[c].document_count + Change(t)]
             ELSE collections[c]
  BY <1>1, <1>5
<1>7. \A d \in Rows(t) :
         IF stmt[t].op \in Deletions
         THEN documents[d].collection_id = k ELSE written[t][d].collection_id = k
  BY <1>1
<1> QED  BY <1>1, <1>6, <1>7

LEMMA CommitIsStatement ==
    ASSUME LockInv, DbInv, NEW t \in Txn, Commit(t)
    PROVE  DbNext \/ UNCHANGED dbVars
<1> USE DEF LockInv
<1>1. TxnOK(t) /\ AtCommit(t) /\ stmt[t] # None
  BY DEF TxnOK, Commit
<1>2. /\ documents' = [d \in DocumentId |->
                          IF d \in Rows(t) THEN written[t][d] ELSE documents[d]]
      /\ collections' \in [CollectionId -> {collections'[c] : c \in CollectionId}]
      /\ issued' = issued
  BY DEF Commit, Rows
<1>3. /\ Rows(t) \subseteq DocumentId /\ IsFiniteSet(Rows(t)) /\ Change(t) \in Int
      /\ Cardinality(Rows(t)) \in Nat
  BY ChangeType, FS_CardinalityType
<1>4. CASE Inserting(t) /\ Counting(t)
  <2>1. PICK k \in CollectionId :
           /\ Live(k)
           /\ \A d \in Rows(t) : written[t][d].collection_id = k
           /\ \A c \in CollectionId :
                 collections'[c] =
                     IF c = k
                     THEN [collections[c] EXCEPT !.document_count =
                              collections[c].document_count + Change(t)]
                     ELSE collections[c]
    BY <1>4, CountCommitted DEF Inserting, Inserts, Deletions, DocumentDeletions
  <2>2. written[t] \in [Rows(t) -> DocumentRow]
    BY <1>4 DEF Inserting, Typed, Rows
  <2>3. Change(t) = Cardinality(Rows(t))
    BY <1>4 DEF Inserting, Inserts, Deletions, DocumentDeletions, Change, Rows
  <2>4. ASSUME NEW c \in CollectionId
        PROVE  collections'[c] = IncrementDocumentCount(written[t])[c]
    <3> DEFINE added == {d \in DOMAIN written[t] : written[t][d].collection_id = c}
    <3>1. CASE c = k
      <4>1. added = Rows(t)
        BY <2>1, <3>1 DEF Rows
      <4>2. collections'[c] = [collections[c] EXCEPT !.document_count =
                                  collections[c].document_count + Cardinality(added)]
        BY <2>1, <2>3, <3>1, <4>1
      <4> QED  BY <2>1, <3>1, <4>2 DEF IncrementDocumentCount
    <3>2. CASE c # k /\ Live(c)
      <4>1. added = {}
        BY <2>1, <3>2 DEF Rows
      <4>2. collections[c] \in CollectionRow
        BY <3>2 DEF Live, DbInv, DbTypeOK
      <4>3. collections'[c] = [collections[c] EXCEPT !.document_count =
                                  collections[c].document_count + Cardinality(added)]
        BY <2>1, <3>2, <4>1, <4>2, SameRow, FS_EmptySet
      <4> QED  BY <3>2, <4>3 DEF IncrementDocumentCount
    <3>3. CASE ~Live(c)
      BY <2>1, <3>3 DEF IncrementDocumentCount, Live
    <3> QED  BY <3>1, <3>2, <3>3
  <2>5. collections' = IncrementDocumentCount(written[t])
    BY <1>2, <2>4 DEF IncrementDocumentCount
  <2>6. InsertDocuments(written[t])
    BY <1>2, <1>3, <1>4, <2>1, <2>5 DEF InsertDocuments, Rows, Inserting, Unused
  <2> QED  BY <1>3, <2>2, <2>6 DEF DbNext
<1>5. CASE Updating(t)
  <2>1. PICK d \in DocumentId, n \in StorableLength :
           /\ documents[d] # None
           /\ written[t] = [x \in {d} |-> [documents[d] EXCEPT !.vector_dims = n]]
    BY <1>5 DEF Updating
  <2> DEFINE newRow == [collection_id |-> documents[d].collection_id, vector_dims |-> n]
  <2>2. documents[d] \in DocumentRow /\ newRow \in DocumentRow
    BY <2>1 DEF DbInv, DbTypeOK, DocumentRow
  <2>3. documents' = [documents EXCEPT ![d].vector_dims = newRow.vector_dims]
    BY <1>2, <2>1 DEF Rows, DbInv, DbTypeOK
  <2>4. collections' = collections
    <3>1. \A c \in CollectionId : collections'[c] = collections[c]
      BY <1>5, NoLocks DEF Commit, Updating
    <3> QED  BY <1>2, <3>1 DEF DbInv, DbTypeOK
  <2>5. UpsertDocument(d, newRow)
    BY <1>2, <2>1, <2>3, <2>4 DEF UpsertDocument
  <2> QED  BY <2>2, <2>5 DEF DbNext
<1>6. CASE Deleting(t) /\ Counting(t)
  <2>1. PICK k \in CollectionId :
           /\ Live(k)
           /\ \A d \in Rows(t) : documents[d].collection_id = k
           /\ \A c \in CollectionId :
                 collections'[c] =
                     IF c = k
                     THEN [collections[c] EXCEPT !.document_count =
                              collections[c].document_count + Change(t)]
                     ELSE collections[c]
    BY <1>6, CountCommitted DEF Deleting, Deletions
  <2>2. Change(t) = -Cardinality(Rows(t))
    BY <1>6 DEF Deleting, Deletions, Change, Rows
  <2>3. ASSUME NEW c \in CollectionId
        PROVE  collections'[c] = DecrementDocumentCount(Rows(t))[c]
    <3> DEFINE removed == Rows(t) \cap DocumentsOf(c)
    <3>1. CASE c = k
      <4>1. removed = Rows(t)
        BY <1>3, <1>6, <2>1, <3>1 DEF Deleting, DocumentsOf
      <4>2. collections[c].document_count \in Int
        BY <2>1, <3>1 DEF Live, DbInv, DbTypeOK, CollectionRow
      <4>3. collections[c].document_count + Change(t)
               = collections[c].document_count - Cardinality(removed)
        BY <1>3, <2>2, <4>1, <4>2
      <4>4. collections'[c] = [collections[c] EXCEPT !.document_count =
                                  collections[c].document_count - Cardinality(removed)]
        BY <2>1, <3>1, <4>3
      <4> QED  BY <2>1, <3>1, <4>4 DEF DecrementDocumentCount
    <3>2. CASE c # k /\ Live(c)
      <4>1. removed = {}
        BY <2>1, <3>2 DEF DocumentsOf
      <4>2. collections[c] \in CollectionRow
        BY <3>2 DEF Live, DbInv, DbTypeOK
      <4>3. collections'[c] = [collections[c] EXCEPT !.document_count =
                                  collections[c].document_count - Cardinality(removed)]
        BY <2>1, <3>2, <4>1, <4>2, SameRow, FS_EmptySet
      <4> QED  BY <3>2, <4>3 DEF DecrementDocumentCount
    <3>3. CASE ~Live(c)
      BY <2>1, <3>3 DEF DecrementDocumentCount, Live
    <3> QED  BY <3>1, <3>2, <3>3
  <2>4. collections' = DecrementDocumentCount(Rows(t))
    BY <1>2, <2>3 DEF DecrementDocumentCount
  <2>5. documents' = [d \in DocumentId |-> IF d \in Rows(t) THEN None ELSE documents[d]]
    BY <1>2, <1>6 DEF Deleting
  <2>6. DeleteDocuments(Rows(t))
    BY <1>2, <2>4, <2>5 DEF DeleteDocuments
  <2> QED  BY <1>3, <2>6 DEF DbNext
<1>7. CASE Deleting(t) /\ Fresh(t)
  <2>1. Rows(t) = {} /\ lock[t] = NoLock /\ newCount[t] = None
    BY <1>7, EmptyRows DEF Fresh, Rows
  <2>2. documents' = documents
    BY <1>2, <2>1 DEF DbInv, DbTypeOK
  <2>3. \A c \in CollectionId : collections'[c] = collections[c]
    BY <2>1, NoLocks DEF Commit
  <2>4. collections' = collections
    BY <1>2, <2>3 DEF DbInv, DbTypeOK
  <2> QED  BY <1>2, <2>2, <2>4 DEF dbVars
<1>8. CASE Closing(t) /\ Rows(t) = DocumentsOf(Collection(t))
  <2>1. \A c \in CollectionId :
           collections'[c] = IF c = Collection(t) THEN None ELSE collections[c]
    BY <1>8 DEF Commit, Closing, LocksOnly
  <2>2. collections' = [collections EXCEPT ![Collection(t)] = None]
    BY <1>2, <2>1 DEF DbInv, DbTypeOK
  <2>3. documents' = [d \in DocumentId |->
                         IF d \in DocumentsOf(Collection(t)) THEN None ELSE documents[d]]
    BY <1>2, <1>8 DEF Closing
  <2>4. DeleteCollectionById(Collection(t))
    BY <1>2, <1>8, <2>2, <2>3 DEF DeleteCollectionById, Closing
  <2> QED  BY <1>8, <2>4 DEF DbNext, Closing
<1> QED  BY <1>1, <1>4, <1>5, <1>6, <1>7, <1>8 DEF AtCommit

(* A new collection is one that nobody has locked or counted.              *)
LEMMA CreateCollectionInv ==
    ASSUME LockInv, DbInv, CreateCollection
    PROVE  LockInv' /\ DbNext
<1> USE DEF LockInv
<1>1. PICK c \in CollectionId, name \in Name, config \in Config :
         InsertCollection(c, name, config)
  BY DEF CreateCollection
<1>2. /\ stmt' = stmt /\ at' = at /\ todo' = todo /\ next' = next /\ written' = written
      /\ lock' = lock /\ newCount' = newCount /\ documents' = documents
  BY <1>1 DEF CreateCollection, InsertCollection, txnVars
<1>3. \A k \in CollectionId : Live(k) => collections'[k] = collections[k] /\ Live(k)'
  <2>1. ~Live(c)
    BY <1>1 DEF InsertCollection, DbInv, DbTypeOK
  <2> QED  BY <1>1, <2>1 DEF InsertCollection, DbInv, DbTypeOK, Live
<1>4. ASSUME NEW u \in Txn PROVE TxnOK(u)'
  <2>1. /\ Rows(u)' = Rows(u) /\ Collection(u)' = Collection(u) /\ Change(u)' = Change(u)
        /\ (Fresh(u) => Fresh(u)')
    BY <1>2 DEF Rows, Collection, Change, Fresh
  <2>2. /\ (Inserting(u) => Inserting(u)') /\ (Updating(u) => Updating(u)')
        /\ (Deleting(u) => Deleting(u)')
    BY <1>2, <2>1 DEF Inserting, Updating, Deleting
  <2>3. \A k, m : LocksOnly(u, k, m) => LocksOnly(u, k, m)'
    BY <1>2 DEF LocksOnly
  <2>4. Closing(u) => Closing(u)'
    BY <1>2, <1>3, <2>1, <2>3 DEF Closing
  <2>5. \A k : DocumentsOf(k)' = DocumentsOf(k)
    BY <1>2 DEF DocumentsOf
  <2>6. Counting(u) => Counting(u)'
    <3> SUFFICES ASSUME Counting(u) PROVE Counting(u)'
      OBVIOUS
    <3>1. PICK k \in CollectionId :
             /\ Live(k)
             /\ LocksOnly(u, k, "no key update")
             /\ Rows(u) # {}
             /\ newCount[u] = collections[k].document_count + Change(u)
             /\ \A d \in Rows(u) :
                   IF stmt[u].op \in Deletions
                   THEN documents[d].collection_id = k ELSE written[u][d].collection_id = k
      BY DEF Counting
    <3>2. newCount'[u] = (collections[k].document_count + Change(u))'
      BY <1>2, <1>3, <2>1, <3>1
    <3>3. \A d \in Rows(u)' :
             IF stmt'[u].op \in Deletions
             THEN documents'[d].collection_id = k ELSE written'[u][d].collection_id = k
      BY <1>2, <2>1, <3>1
    <3> QED  BY <1>3, <2>1, <2>3, <3>1, <3>2, <3>3 DEF Counting
  <2>7. Inserting(u) /\ Live(Collection(u)) => Live(Collection(u))'
    <3>1. Inserting(u) => Collection(u) \in CollectionId
      BY ChangeType DEF Inserting, DocumentRow
    <3> QED  BY <1>3, <2>1, <3>1 DEF Live
  <2>8. TxnOK(u)
    OBVIOUS
  <2> QED
    BY <1>2, <2>1, <2>2, <2>3, <2>4, <2>5, <2>6, <2>7, <2>8
    DEF TxnOK, AtCheck, AtRows, AtCount, AtCommit
<1>5. Typed' /\ Exclusive'
  BY <1>2 DEF Typed, Exclusive, Rows
<1>6. DbNext
  BY <1>1 DEF DbNext
<1> QED  BY <1>4, <1>5, <1>6

(* After a crash nobody has a transaction.                                 *)
LEMMA CrashInv ==
    ASSUME Crash, DbInv, DurableInv
    PROVE  LockInv' /\ DbInv'
<1>1. /\ stmt' = [t \in Txn |-> None] /\ at' = [t \in Txn |-> "idle"]
      /\ todo' = [t \in Txn |-> {}] /\ next' = [t \in Txn |-> None]
      /\ written' = [t \in Txn |-> NoRows] /\ lock' = [t \in Txn |-> NoLock]
      /\ newCount' = [t \in Txn |-> None]
      /\ collections' = durable.collections /\ documents' = durable.documents
      /\ issued' = issued
  BY DEF Crash
<1>2. Typed'
  BY <1>1, EmptyRows, NoLocks DEF Typed, Places
<1>3. Exclusive'
  BY <1>1, EmptyRows, NoLocks DEF Exclusive, Rows
<1>4. \A t \in Txn : TxnOK(t)'
  BY <1>1 DEF TxnOK, Fresh
<1>5. DbTypeOK'
  BY <1>1 DEF DurableInv, DbInv, DbTypeOK, Live
<1>6. NoOrphans'
  BY <1>1 DEF DurableInv, NoOrphans, Live
<1>7. CountExact'
  <2>1. \A c : DocumentsOf(c)' = DurableDocumentsOf(c)
    BY <1>1 DEF DocumentsOf, DurableDocumentsOf
  <2> QED  BY <1>1, <2>1 DEF DurableInv, CountExact, Live
<1> QED  BY <1>2, <1>3, <1>4, <1>5, <1>6, <1>7 DEF LockInv, DbInv

(* The tables of the last flush are those of now, or stay as they are.     *)
LEMMA FlushedInv ==
    ASSUME DbInv', durable' = Tables'
    PROVE  DurableInv'
<1>1. durable'.collections = collections' /\ durable'.documents = documents'
  BY DEF Tables
<1>2. \A c : DurableDocumentsOf(c)' = DocumentsOf(c)'
  BY <1>1 DEF DocumentsOf, DurableDocumentsOf
<1>3. (durable \in [collections : [CollectionId -> CollectionRow \cup {None}],
                    documents : [DocumentId -> DocumentRow \cup {None}]])'
  BY DEF Tables, DbInv, DbTypeOK
<1>4. \A c \in CollectionId :
         durable'.collections[c] # None =>
             /\ c \in issued'
             /\ durable'.collections[c].document_count = Cardinality(DurableDocumentsOf(c)')
  BY <1>1, <1>2 DEF DbInv, DbTypeOK, CountExact, Live
<1>5. \A d \in DocumentId :
         durable'.documents[d] # None =>
             durable'.collections[durable'.documents[d].collection_id] # None
  BY <1>1 DEF DbInv, NoOrphans, Live
<1> QED  BY <1>3, <1>4, <1>5 DEF DurableInv

LEMMA UnflushedInv ==
    ASSUME DurableInv, durable' = durable, issued \subseteq issued'
    PROVE  DurableInv'
<1>1. \A c : DurableDocumentsOf(c)' = DurableDocumentsOf(c)
  BY DEF DurableDocumentsOf
<1> QED  BY <1>1 DEF DurableInv

LEMMA StepInv ==
    ASSUME Inv, NEW t \in Txn, Call(t) \/ Connect(t) \/ Step(t) \/ Abort(t)
    PROVE  Inv' /\ (DbNext \/ UNCHANGED dbVars)
<1> USE DEF Inv
<1>1. ASSUME LockInv', UNCHANGED dbVars, durable' = durable
      PROVE  Inv' /\ (DbNext \/ UNCHANGED dbVars)
  <2>1. DbInv'
    BY <1>1, DbStutter
  <2>2. DurableInv'
    BY <1>1, UnflushedInv DEF dbVars
  <2> QED  BY <1>1, <2>1, <2>2
<1>2. CASE Call(t)
  BY <1>1, <1>2, CallInv DEF Call
<1>3. CASE Connect(t)
  BY <1>1, <1>3, ConnectInv DEF Connect
<1>4. CASE Abort(t) \/ RowMissing(t)
  BY <1>1, <1>4, AbortInv DEF Abort, RowMissing
<1>5. CASE Insert(t)
  BY <1>1, <1>5, InsertInv DEF Insert
<1>6. CASE Upsert(t)
  BY <1>1, <1>6, UpsertInv DEF Upsert
<1>7. CASE CheckForeignKey(t)
  BY <1>1, <1>7, CheckForeignKeyInv DEF CheckForeignKey
<1>8. CASE LockCollection(t)
  BY <1>1, <1>8, LockCollectionInv DEF LockCollection
<1>9. CASE Scan(t)
  BY <1>1, <1>9, ScanInv DEF Scan
<1>10. CASE DeleteRow(t)
  BY <1>1, <1>10, DeleteRowInv DEF DeleteRow
<1>11. CASE RowsDone(t)
  BY <1>1, <1>11, RowsDoneInv DEF RowsDone
<1>12. CASE CountRows(t)
  BY <1>1, <1>12, CountRowsInv DEF CountRows
<1>13. CASE Commit(t)
  <2>1. LockInv' /\ (DbNext \/ UNCHANGED dbVars)
    BY <1>13, CommitInv, CommitIsStatement
  <2>2. DbInv'
    BY <2>1, DbNextInv
  <2>3. durable' = Tables' \/ durable' = durable
    BY <1>13 DEF Commit
  <2>4. DurableInv'
    BY <1>13, <2>2, <2>3, FlushedInv, UnflushedInv DEF Commit
  <2> QED  BY <2>1, <2>2, <2>4
<1> QED
  BY <1>2, <1>3, <1>4, <1>5, <1>6, <1>7, <1>8, <1>9, <1>10, <1>11, <1>12, <1>13 DEF Step

LEMMA NextInv == Inv /\ [Next]_vars => Inv'
<1> SUFFICES ASSUME Inv, [Next]_vars PROVE Inv'
  OBVIOUS
<1> USE DEF Inv
<1>1. ASSUME NEW t \in Txn, Call(t) \/ Connect(t) \/ Step(t) \/ Abort(t)
      PROVE  Inv'
  BY <1>1, StepInv
<1>2. CASE CreateCollection
  <2>1. LockInv' /\ DbNext
    BY <1>2, CreateCollectionInv
  <2>2. DbInv'
    BY <2>1, DbNextInv
  <2> QED  BY <1>2, <2>1, <2>2, FlushedInv DEF CreateCollection
<1>3. ASSUME UNCHANGED <<dbVars, txnVars>> PROVE DbInv' /\ LockInv'
  <2>1. DbInv'
    BY <1>3, DbStutter
  <2>2. \A t \in Txn : TxnOK(t)'
    BY <1>3, Untouched DEF LockInv, dbVars, txnVars
  <2>3. Typed' /\ Exclusive'
    BY <1>3 DEF LockInv, Typed, Exclusive, Rows, txnVars
  <2> QED  BY <2>1, <2>2, <2>3 DEF LockInv
<1>4. CASE Flush
  <2>1. DbInv' /\ LockInv'
    BY <1>3, <1>4 DEF Flush
  <2>2. durable' = Tables'
    BY <1>4 DEF Flush, Tables, dbVars
  <2> QED  BY <2>1, <2>2, FlushedInv
<1>5. CASE Crash
  <2>1. LockInv' /\ DbInv'
    BY <1>5, CrashInv
  <2>2. DurableInv'
    BY <1>5, UnflushedInv DEF Crash
  <2> QED  BY <2>1, <2>2
<1>6. CASE UNCHANGED vars
  <2>1. DbInv' /\ LockInv'
    BY <1>3, <1>6 DEF vars, dbVars, txnVars
  <2>2. DurableInv'
    BY <1>6, UnflushedInv DEF vars
  <2> QED  BY <2>1, <2>2
<1> QED  BY <1>1, <1>2, <1>4, <1>5, <1>6 DEF Next

LEMMA Invariant == Spec => []Inv
BY InitInv, NextInv, PTL DEF Spec
-----------------------------------------------------------------------------
(* A statement, a row, a lock or a count is what its variable is for, and a *)
(* transaction that is over has left no lock and no row behind.            *)
THEOREM RowLocksTypeOK == Spec => []TypeOK
<1>1. Inv => TypeOK
  <2> SUFFICES ASSUME Inv PROVE TypeOK
    OBVIOUS
  <2>1. stmt \in [Txn -> Statement \cup {None}]
    BY DEF Inv, LockInv, Typed, Sent
  <2>2. \A t \in Txn : written[t] \in [DOMAIN written[t] -> DocumentRow \cup {None}]
    BY DEF Inv, LockInv, Typed
  <2>3. \A t \in Txn :
           /\ stmt[t] = None <=> at[t] = "idle"
           /\ stmt[t] = None => written[t] = NoRows /\ lock[t] = NoLock /\ newCount[t] = None
    BY DEF Inv, LockInv, TxnOK, Fresh
  <2> QED
    BY <2>1, <2>2, <2>3 DEF TypeOK, Inv, LockInv, Typed, DbInv, DurableInv
<1> QED  BY <1>1, Invariant, PTL

(* Every commit of a transaction that locked one row after the other, next *)
(* to any number of others, does what one statement of Database does.      *)
THEOREM RowLocksCommitsAreStatements == Spec => CommitsAreStatements
<1>1. Inv /\ [Next]_vars => [DbNext \/ Crash]_dbVars
  <2> SUFFICES ASSUME Inv, [Next]_vars PROVE [DbNext \/ Crash]_dbVars
    OBVIOUS
  <2>1. ASSUME NEW t \in Txn, Call(t) \/ Connect(t) \/ Step(t) \/ Abort(t)
        PROVE  DbNext \/ UNCHANGED dbVars
    BY <2>1, StepInv
  <2>2. CASE CreateCollection
    BY <2>2, CreateCollectionInv DEF Inv
  <2>3. CASE Flush
    BY <2>3 DEF Flush
  <2>4. CASE UNCHANGED vars
    BY <2>4 DEF vars, dbVars
  <2> QED  BY <2>1, <2>2, <2>3, <2>4 DEF Next
<1> QED  BY <1>1, Invariant, PTL DEF Spec, CommitsAreStatements

(* No orphan and no count that has drifted, with any number of transactions *)
(* that lock, wait, fail and deadlock, and with crashes that take back what *)
(* was not flushed.                                                        *)
THEOREM RowLocksConsistent == Spec => []Consistent
<1>1. Inv => Consistent
  BY DEF Inv, DbInv, Consistent
<1> QED  BY <1>1, Invariant, PTL

(* The number that the deletion of a collection reports is the number of   *)
(* documents that went with it.                                            *)
THEOREM RowLocksDeletionReports == Spec => []DeletionReportsItsDocuments
<1>1. Inv => DeletionReportsItsDocuments
  <2> SUFFICES ASSUME Inv, NEW t \in Txn, at[t] = "commit", stmt[t].op = "DeleteCollection"
               PROVE  collections[Collection(t)].document_count = Cardinality(DOMAIN written[t])
    BY DEF DeletionReportsItsDocuments
  <2>1. AtCommit(t)
    BY DEF Inv, LockInv, TxnOK
  <2>2. Closing(t) /\ Rows(t) = DocumentsOf(Collection(t))
    BY <2>1 DEF AtCommit, Inserting, Updating, Deleting, Inserts, DocumentDeletions
  <2> QED  BY <2>2 DEF Closing, Rows, Inv, DbInv, CountExact
<1> QED  BY <1>1, Invariant, PTL

(* What a batch insert adds is all that the log may still lack.            *)
LEMMA CommitAtRisk ==
    ASSUME Inv, OnlyInsertsAtRisk, NEW t \in Txn, Commit(t)
    PROVE  OnlyInsertsAtRisk'
<1>1. CASE WaitsForFlush(stmt[t].op)
  BY <1>1 DEF Commit, OnlyInsertsAtRisk, Tables, Live
<1>2. CASE ~WaitsForFlush(stmt[t].op)
  <2>1. AtCommit(t)
    BY DEF Commit, Inv, LockInv, TxnOK
  <2>2. Inserting(t) /\ Counting(t)
    BY <1>2, <2>1 DEF WaitsForFlush, AtCommit, Updating, Deleting, Closing, DocumentDeletions
  <2>3. \A c \in CollectionId : lock[t][c] # "update"
    BY <2>2 DEF Counting, LocksOnly
  <2>4. \A c \in CollectionId : Live(c)' <=> Live(c)
    <3>1. ASSUME NEW c \in CollectionId, Live(c)
          PROVE  [collections[c] EXCEPT !.document_count = newCount[t]] # None
                    \/ newCount[t] = None
      <4>1. collections[c] \in CollectionRow
        BY <3>1 DEF Live, Inv, DbInv, DbTypeOK
      <4>2. newCount[t] \in Int \cup {None}
        BY DEF Inv, LockInv, Typed
      <4> QED  BY <4>1, <4>2, NoneAssumption DEF CollectionRow
    <3>2. PICK k \in CollectionId :
             Live(k) /\ \A d \in Rows(t) : documents[d] = None /\ written[t][d].collection_id = k
      BY <2>2 DEF Counting, Inserting, Inserts, Deletions, DocumentDeletions
    <3>3. \A c \in Counted(t) : Live(c)
      BY <3>2 DEF Counted, Rows
    <3> QED  BY <2>3, <3>1, <3>3 DEF Commit, Live
  <2>5. \A d \in DocumentId : documents[d] # None => documents'[d] = documents[d]
    BY <2>2 DEF Commit, Inserting, Rows
  <2>6. durable' = durable
    BY <1>2 DEF Commit
  <2> QED  BY <2>4, <2>5, <2>6 DEF OnlyInsertsAtRisk
<1> QED  BY <1>1, <1>2

(* A crash of PostgreSQL takes back nothing but documents that batches     *)
(* inserted, for any number of transactions and whatever the order in which *)
(* they commit with and without waiting for the log.                       *)
THEOREM RowLocksOnlyInsertsAtRisk == Spec => []OnlyInsertsAtRisk
<1>1. Init => OnlyInsertsAtRisk
  BY DEF Init, DbInit, OnlyInsertsAtRisk, Tables, Live
<1>2. Inv /\ OnlyInsertsAtRisk /\ [Next]_vars => OnlyInsertsAtRisk'
  <2> SUFFICES ASSUME Inv, OnlyInsertsAtRisk, [Next]_vars PROVE OnlyInsertsAtRisk'
    OBVIOUS
  <2>1. ASSUME durable' = Tables' PROVE OnlyInsertsAtRisk'
    BY <2>1 DEF OnlyInsertsAtRisk, Tables, Live
  <2>2. ASSUME UNCHANGED <<collections, documents, durable>> PROVE OnlyInsertsAtRisk'
    BY <2>2 DEF OnlyInsertsAtRisk, Live
  <2>3. ASSUME NEW t \in Txn, Step(t), ~Commit(t) PROVE OnlyInsertsAtRisk'
    BY <2>2, <2>3
    DEF Step, Insert, Upsert, CheckForeignKey, RowMissing, LockCollection, Scan, DeleteRow,
        RowsDone, CountRows, Abort, dbVars
  <2>4. ASSUME NEW t \in Txn, Call(t) \/ Connect(t) \/ Abort(t) PROVE OnlyInsertsAtRisk'
    BY <2>2, <2>4 DEF Call, Connect, Abort, dbVars
  <2>5. CASE CreateCollection
    BY <2>1, <2>5 DEF CreateCollection
  <2>6. CASE Flush
    BY <2>1, <2>6 DEF Flush, Tables, dbVars
  <2>7. CASE Crash
    BY <2>7 DEF Crash, OnlyInsertsAtRisk, Live
  <2>8. CASE UNCHANGED vars
    BY <2>2, <2>8 DEF vars
  <2> QED  BY <2>3, <2>4, <2>5, <2>6, <2>7, <2>8, CommitAtRisk DEF Next
<1> QED  BY <1>1, <1>2, Invariant, PTL DEF Spec
-----------------------------------------------------------------------------
(***************************************************************************)
(* Deadlocks.  Who waits is ranked by what it waits for: an upsert that    *)
(* has not begun holds nothing; an insert at the check of its foreign key  *)
(* holds new rows, for which only such upserts wait; and at its counts it  *)
(* waits for transactions about to commit.  So each of them has a set of   *)
(* others that holds its blockers and is closed, without itself.           *)
(***************************************************************************)
HoldsNothing(u) == Rows(u) = {} /\ lock[u] = NoLock

LEMMA HoldersBegan ==
    ASSUME Inv, NEW u \in Txn, at[u] \in {"idle", "queued", "begin"}
    PROVE  HoldsNothing(u)
<1>1. Fresh(u)
  BY DEF Inv, LockInv, TxnOK
<1>2. DOMAIN NoRows = {}
  BY DEF NoRows
<1> QED  BY <1>1, <1>2 DEF HoldsNothing, Fresh, Rows

LEMMA CollectionType ==
    ASSUME Inv, NEW t \in Txn, at[t] # "idle"
    PROVE  Collection(t) \in CollectionId
<1>1. stmt[t] # None
  BY DEF Inv, LockInv, TxnOK
<1>2. stmt[t] \in Statement
  BY <1>1 DEF Inv, LockInv, Typed, Sent
<1> QED  BY <1>2 DEF Collection, Statement

(* Nobody waits for a transaction that holds nothing.                      *)
LEMMA NotABlocker ==
    ASSUME NEW u \in Txn, HoldsNothing(u), NEW t \in Txn, Inv
    PROVE  u \notin Blockers(t)
<1>1. \A d : u \notin DocumentBlockers(t, d)
  BY DEF DocumentBlockers, HoldsNothing, Rows
<1>2. ASSUME NEW c \in CollectionId, NEW m PROVE u \notin CollectionBlockers(t, c, m)
  <2>1. lock[u][c] = "none"
    BY DEF HoldsNothing, NoLock
  <2> QED  BY <2>1 DEF CollectionBlockers, Conflict
<1>3. at[t] # "idle" => Collection(t) \in CollectionId
  BY CollectionType
<1>4. Counted(t) \subseteq CollectionId
  BY DEF Counted
<1> QED  BY <1>1, <1>2, <1>3, <1>4 DEF Blockers

LEMMA BlockersAreTxns == ASSUME NEW t PROVE Blockers(t) \subseteq Txn
BY DEF Blockers, CollectionBlockers, DocumentBlockers

(* An upsert that waits for its row.                                       *)
LEMMA BeginNoCycle ==
    ASSUME Inv, NEW t \in Txn, HoldsNothing(t)
    PROVE  ~InCycle(t)
<1> DEFINE S == Txn \ {t}
<1>1. \A u \in Txn : Blockers(u) \subseteq S
  BY NotABlocker, BlockersAreTxns
<1>2. S \in SUBSET Txn /\ t \notin S
  OBVIOUS
<1> HIDE DEF S
<1> QED  BY <1>1, <1>2 DEF InCycle, WaitsFor

(* An insert that waits for the row of its collection.                     *)
LEMMA CheckNoCycle ==
    ASSUME Inv, NEW t \in Txn, at[t] = "check"
    PROVE  ~InCycle(t)
<1> DEFINE S == {u \in Txn \ {t} : ~HoldsNothing(u)}
<1>1. Inserting(t) /\ lock[t] = NoLock
  BY DEF Inv, LockInv, TxnOK, AtCheck
<1>2. ASSUME NEW u \in Txn, ~HoldsNothing(u) PROVE t \notin Blockers(u)
  <2> SUFFICES ASSUME t \in Blockers(u) PROVE FALSE
    OBVIOUS
  <2>1. at[u] \notin {"idle", "queued", "begin"} /\ TxnOK(u)
    BY <1>2, HoldersBegan DEF Inv, LockInv
  <2>2. ASSUME NEW c \in CollectionId, NEW m PROVE t \notin CollectionBlockers(u, c, m)
    <3>1. lock[t][c] = "none"
      BY <1>1 DEF NoLock
    <3> QED  BY <3>1 DEF CollectionBlockers, Conflict
  <2>3. Collection(u) \in CollectionId /\ Counted(u) \subseteq CollectionId
    BY <2>1, CollectionType DEF Counted
  <2>4. at[u] = "rows" /\ next[u] \in todo[u] /\ t \in DocumentBlockers(u, next[u])
    BY <2>1, <2>2, <2>3 DEF Blockers
  <2>5. documents[next[u]] = None
    BY <1>1, <2>4 DEF DocumentBlockers, Inserting, Rows
  <2>6. AtRows(u)
    BY <2>1, <2>4 DEF TxnOK
  <2> QED  BY <2>4, <2>5, <2>6 DEF AtRows, Deleting, Closing, DocumentsOf
<1>3. \A u \in S : Blockers(u) \subseteq S
  BY <1>2, NotABlocker, BlockersAreTxns
<1>4. Blockers(t) \subseteq S
  <2>1. t \notin Blockers(t)
    BY DEF Blockers, CollectionBlockers, DocumentBlockers
  <2> QED  BY <2>1, NotABlocker, BlockersAreTxns
<1>5. S \in SUBSET Txn /\ t \notin S
  OBVIOUS
<1> HIDE DEF S
<1> QED  BY <1>3, <1>4, <1>5 DEF InCycle, WaitsFor

(* Who locks a collection's row in a mode of a count is about to commit.   *)
LEMMA CounterCommits ==
    ASSUME Inv, NEW u \in Txn, NEW c \in CollectionId, lock[u][c] \in {"share", "no key update"}
    PROVE  at[u] = "commit"
<1>1. TxnOK(u) /\ at[u] \in Places
  BY DEF Inv, LockInv, Typed
<1>2. \A m \in {"key share", "update"}, k \in CollectionId : ~LocksOnly(u, k, m)
  BY DEF LocksOnly
<1>3. lock[u] # NoLock
  BY DEF NoLock
<1>4. ~Closing(u) /\ ~Updating(u) /\ ~Fresh(u)
  BY <1>2, <1>3 DEF Closing, Updating, Fresh
<1>5. Inserting(u) => Collection(u) \in CollectionId
  <2>1. Rows(u) \subseteq DocumentId
    BY ChangeType DEF Inv, LockInv
  <2> QED  BY <2>1 DEF Inserting, DocumentRow
<1> QED  BY <1>1, <1>2, <1>3, <1>4, <1>5 DEF TxnOK, AtCheck, AtRows, AtCount, Places

(* An insert that waits for another one to count, or an upsert.            *)
LEMMA CountNoCycle ==
    ASSUME Inv, NEW t \in Txn, at[t] = "count", stmt[t].op \notin Deletions
    PROVE  ~InCycle(t)
<1> DEFINE S == {u \in Txn : at[u] = "commit"}
<1>1. \A u \in S : Blockers(u) = {}
  BY DEF Blockers
<1>2. Blockers(t) \subseteq S
  <2>1. AtCount(t) /\ stmt[t].op \notin DocumentDeletions
    BY DEF Inv, LockInv, TxnOK, Deletions
  <2>2. CASE Updating(t)
    <3>1. Counted(t) = {}
      BY <2>2, NoneCounted DEF Inv
    <3> QED  BY <3>1 DEF Blockers
  <2>3. CASE Inserting(t) /\ LocksOnly(t, Collection(t), "key share")
    <3> DEFINE c == Collection(t)
    <3>1. c \in CollectionId /\ Counted(t) = {c}
      <4>1. Typed /\ DbInv
        BY DEF Inv, LockInv
      <4>2. Rows(t) # {} /\ c \in CollectionId
        BY <2>3 DEF Inserting, DocumentRow
      <4> QED  BY <2>3, <4>1, <4>2, CountedOne, ChangeType
    <3>2. SUFFICES ASSUME NEW u \in CollectionBlockers(t, c, CountMode) PROVE u \in S
      BY <3>1 DEF Blockers
    <3>3. u \in Txn \ {t} /\ Conflict("no key update", lock[u][c])
      BY DEF CollectionBlockers, CountMode
    <3>4. ~Conflict("key share", lock[u][c])
      <4>1. lock[t][c] = "key share"
        BY <2>3 DEF LocksOnly
      <4> QED  BY <3>1, <3>3, <4>1 DEF Inv, LockInv, Exclusive
    <3>5. lock[u][c] \in {"share", "no key update"}
      BY <3>3, <3>4 DEF Conflict
    <3> QED  BY <3>1, <3>3, <3>5, CounterCommits
  <2> QED  BY <2>1, <2>2, <2>3 DEF AtCount, Deleting, Closing, Deletions
<1>3. S \in SUBSET Txn /\ t \notin S
  OBVIOUS
<1> HIDE DEF S
<1> QED  BY <1>1, <1>2, <1>3 DEF InCycle, WaitsFor

LEMMA DeadlocksOfDeletions == Inv => OnlyDeletionsDeadlock
<1> SUFFICES ASSUME Inv, NEW t \in Txn, InCycle(t), stmt[t].op \notin Deletions PROVE FALSE
  BY DEF OnlyDeletionsDeadlock
<1>1. TxnOK(t) /\ at[t] \in Places
  BY DEF Inv, LockInv, Typed
<1>2. Blockers(t) # {}
  BY DEF InCycle, WaitsFor
<1>3. at[t] \notin {"scan", "rows"}
  BY <1>1 DEF TxnOK, AtRows, Closing, Deleting, Deletions
<1>4. at[t] # "commit"
  BY <1>2 DEF Blockers
<1> QED
  BY <1>1, <1>3, <1>4, HoldersBegan, BeginNoCycle, CheckNoCycle, CountNoCycle DEF Places

(* However many transactions there are and however long the cycle, every   *)
(* one in it deletes: no insert and no upsert fails by a deadlock.         *)
THEOREM RowLocksOnlyDeletionsDeadlock == Spec => []OnlyDeletionsDeadlock
  BY Invariant, DeadlocksOfDeletions, PTL
-----------------------------------------------------------------------------
(***************************************************************************)
(* The deletion of one document.  It has locked nothing before its row and *)
(* nothing but that row when it counts, where a deletion of its collection *)
(* and those about to commit are all that it can wait for.                 *)
(***************************************************************************)
OneAtATime ==
    \A t \in Txn :
        stmt[t] # None /\ stmt[t].op = "DeleteDocument" =>
            Rows(t) \cup todo[t] \subseteq stmt[t].ids /\ Rows(t) \cap todo[t] = {}

LEMMA OneAtATimeInv == Spec => []OneAtATime
<1>1. Init => OneAtATime
  BY DEF Init, OneAtATime
<1>2. Inv /\ OneAtATime /\ [Next]_vars => OneAtATime'
  <2> SUFFICES ASSUME Inv, OneAtATime, [Next]_vars PROVE OneAtATime'
    OBVIOUS
  <2> USE DEF OneAtATime, Rows
  <2>1. DOMAIN NoRows = {}
    BY DEF NoRows
  <2>2. ASSUME NEW t \in Txn, Call(t) PROVE OneAtATime'
    <3>1. Fresh(t) /\ todo[t] = {}
      BY <2>2 DEF Call, Inv, LockInv, TxnOK
    <3> QED  BY <2>1, <2>2, <3>1 DEF Call, Fresh, Inv, LockInv, Typed
  <2>3. ASSUME NEW t \in Txn, Insert(t) \/ Upsert(t) PROVE OneAtATime'
    BY <2>3 DEF Insert, Upsert, Inserts, Inv, LockInv, Typed
  <2>4. ASSUME NEW t \in Txn, Scan(t) PROVE OneAtATime'
    <3>1. stmt[t].op = "DeleteDocument" => at[t] = "begin"
      BY <2>4 DEF Scan, Inv, LockInv, TxnOK, Closing
    <3>2. at[t] = "begin" => Rows(t) = {}
      BY <2>1 DEF Inv, LockInv, TxnOK, Fresh
    <3> QED  BY <2>4, <3>1, <3>2 DEF Scan, Found, Inv, LockInv, Typed
  <2>5. ASSUME NEW t \in Txn, DeleteRow(t) PROVE OneAtATime'
    BY <2>5 DEF DeleteRow, Inv, LockInv, Typed
  <2>6. ASSUME NEW t \in Txn, Abort(t) PROVE OneAtATime'
    BY <2>6 DEF Abort, EndOf, Inv, LockInv, Typed
  <2>7. ASSUME NEW t \in Txn, Commit(t) PROVE OneAtATime'
    BY <2>7 DEF Commit, EndOf, Inv, LockInv, Typed
  <2>8. CASE Crash
    BY <2>8 DEF Crash
  <2>9. ASSUME UNCHANGED <<stmt, todo, written>> PROVE OneAtATime'
    BY <2>9
  <2> QED
    BY <2>2, <2>3, <2>4, <2>5, <2>6, <2>7, <2>8, <2>9
    DEF Next, Step, vars, txnVars, Connect, CheckForeignKey, RowMissing, LockCollection,
        RowsDone, CountRows, CreateCollection, Flush
<1> QED  BY <1>1, <1>2, Invariant, PTL DEF Spec

LEMMA WaitsForBlocker ==
    ASSUME NEW t, NEW u \in Blockers(t)
    PROVE  WaitsFor(t, u)
BY DEF WaitsFor

LEMMA WaitsForTransitive ==
    ASSUME NEW t, NEW u, NEW v, WaitsFor(t, u), WaitsFor(u, v)
    PROVE  WaitsFor(t, v)
BY DEF WaitsFor

LEMMA CycleThroughBlocker ==
    ASSUME NEW t \in Txn, InCycle(t)
    PROVE  \E u \in Blockers(t) : WaitsFor(u, t)
<1> SUFFICES ASSUME \A u \in Blockers(t) : ~WaitsFor(u, t) PROVE FALSE
  OBVIOUS
<1> DEFINE S == {v \in Txn \ {t} : ~WaitsFor(v, t)}
<1>1. t \notin Blockers(t)
  BY DEF Blockers, CollectionBlockers, DocumentBlockers
<1>2. Blockers(t) \subseteq S
  BY <1>1, BlockersAreTxns
<1>3. ASSUME NEW v \in S, NEW w \in Blockers(v) PROVE w \in S
  <2>1. w \in Txn /\ WaitsFor(v, w)
    BY <1>3, BlockersAreTxns, WaitsForBlocker
  <2>2. ~WaitsFor(w, t)
    BY <1>3, <2>1, WaitsForTransitive
  <2>3. w # t
    BY <1>3, <2>1
  <2> QED  BY <2>1, <2>2, <2>3
<1>4. S \in SUBSET Txn /\ t \notin S
  OBVIOUS
<1> HIDE DEF S
<1> QED  BY <1>2, <1>3, <1>4 DEF InCycle, WaitsFor

(* Before it has its row it holds nothing.                                 *)
LEMMA WithoutRowNoCycle ==
    ASSUME Inv, OneAtATime, NEW t \in Txn, InCycle(t), stmt[t].op = "DeleteDocument"
    PROVE  at[t] = "count"
<1>1. TxnOK(t) /\ at[t] \in Places /\ stmt[t] \in Sent \cup {None}
  BY DEF Inv, LockInv, Typed
<1>2. Blockers(t) # {}
  BY DEF InCycle, WaitsFor
<1>3. at[t] \notin {"idle", "queued", "begin", "check"}
  BY HoldersBegan, BeginNoCycle, CheckNoCycle
<1>4. at[t] # "commit"
  BY <1>2 DEF Blockers
<1>5. at[t] # "scan"
  BY <1>1 DEF TxnOK, Closing
<1>6. ASSUME at[t] = "rows" PROVE FALSE
  <2>1. next[t] \in todo[t]
    BY <1>2, <1>6 DEF Blockers
  <2>2. stmt[t] \in Sent
    BY <1>1, <1>6 DEF TxnOK
  <2>3. Rows(t) \cup todo[t] \subseteq stmt[t].ids /\ Rows(t) \cap todo[t] = {}
    BY <1>1, <1>6 DEF OneAtATime, TxnOK
  <2>4. PICK d : stmt[t].ids = {d}
    <3>1. stmt[t].ids \in SUBSET DocumentId /\ Cardinality(stmt[t].ids) = 1
      BY <2>2 DEF Sent, Statement
    <3>2. IsFiniteSet(stmt[t].ids)
      BY <3>1, DocumentIdAssumption, FS_Subset
    <3> QED  BY <3>1, <3>2, FS_Singleton
  <2>5. Rows(t) = {}
    BY <2>1, <2>3, <2>4
  <2>6. lock[t] = NoLock
    BY <1>1, <1>6 DEF TxnOK, AtRows, Closing
  <2> QED  BY <2>5, <2>6, BeginNoCycle DEF HoldsNothing
<1> QED  BY <1>1, <1>3, <1>4, <1>5, <1>6 DEF Places

LEMMA MeetsCollection ==
    ASSUME Inv, NEW t \in Txn, at[t] = "count", NEW u \in Blockers(t), at[u] # "commit"
    PROVE  stmt[u].op = "DeleteCollection"
<1>1. PICK c \in CollectionId : u \in CollectionBlockers(t, c, "no key update")
  BY DEF Blockers, Counted, CountMode
<1>2. u \in Txn /\ lock[u][c] \in {"share", "no key update", "update"}
  BY <1>1 DEF CollectionBlockers, Conflict
<1>3. lock[u][c] = "update"
  BY <1>2, CounterCommits
<1>4. TxnOK(u) /\ at[u] \in Places
  BY <1>2 DEF Inv, LockInv, Typed
<1>5. \A m \in {"key share", "no key update"}, k \in CollectionId : ~LocksOnly(u, k, m)
  BY <1>3 DEF LocksOnly
<1>6. lock[u] # NoLock
  BY <1>3 DEF NoLock
<1>7. Inserting(u) => Collection(u) \in CollectionId
  <2>1. Rows(u) \subseteq DocumentId
    BY <1>2, ChangeType DEF Inv, LockInv
  <2> QED  BY <2>1 DEF Inserting, DocumentRow
<1>8. Closing(u)
  BY <1>4, <1>5, <1>6, <1>7
  DEF TxnOK, AtCheck, AtRows, AtCount, AtCommit, Places, Updating, Fresh, Counting
<1> QED  BY <1>8 DEF Closing

(* With any number of transactions, the deletion of one document deadlocks *)
(* only with a deletion of its collection: other deletions of documents,   *)
(* inserts and upserts never make it fail.                                 *)
THEOREM RowLocksSingleDeletionsMeetCollections == Spec => []SingleDeletionsMeetCollections
<1>1. Inv /\ OneAtATime => SingleDeletionsMeetCollections
  <2> SUFFICES ASSUME Inv, OneAtATime, NEW t \in Txn, InCycle(t), stmt[t].op = "DeleteDocument"
               PROVE  \E u \in Blockers(t) : stmt[u].op = "DeleteCollection" /\ WaitsFor(u, t)
    BY DEF SingleDeletionsMeetCollections
  <2>1. PICK u \in Blockers(t) : WaitsFor(u, t)
    BY CycleThroughBlocker
  <2>2. at[u] # "commit"
    <3>1. at[u] = "commit" => Blockers(u) = {}
      BY DEF Blockers
    <3> QED  BY <2>1, <3>1 DEF WaitsFor
  <2> QED  BY <2>1, <2>2, WithoutRowNoCycle, MeetsCollection
<1> QED  BY <1>1, OneAtATimeInv, Invariant, PTL
=============================================================================
