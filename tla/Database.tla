------------------------------ MODULE Database ------------------------------
(***************************************************************************)
(* The two PostgreSQL tables of VectorSync (migrations/002 to 006) and the *)
(* statements internal/db sends to them.  One action is one statement with *)
(* everything it makes the database do: constraint checks, the cascade of  *)
(* the foreign key and the statement-level triggers that maintain          *)
(* collections.document_count.  Statements are atomic here; the row locks  *)
(* they take while they run are not part of this module.                   *)
(*                                                                         *)
(* A vector is represented by its number of components, and a collection's *)
(* configuration (dimension, distance metric, embedding provider) by one   *)
(* record: no statement of the code updates it once the row exists.        *)
(***************************************************************************)
EXTENDS Integers, FiniteSets

CONSTANTS
    CollectionId,  \* the UUIDs gen_random_uuid() may give to collections
    DocumentId,    \* the UUIDs of documents, generated or sent by a client
    Name,          \* collection names
    Config,        \* the configurations a collection may be created with
    VectorLength,  \* the lengths of the vectors that clients and providers send
    None           \* no row, no cache entry, no request

StorableLength == VectorLength \ {0}

CollectionRow == [name : Name, config : Config, document_count : Int]

DocumentRow == [collection_id : CollectionId, vector_dims : StorableLength]

ASSUME ConfigAssumption ==
    Config \subseteq [dimension : Nat \ {0}, distance_metric : STRING, provider : STRING]

ASSUME VectorLengthAssumption == VectorLength \subseteq Nat

ASSUME DocumentIdAssumption == IsFiniteSet(DocumentId)

ASSUME NoneAssumption ==
    /\ None \notin CollectionRow
    /\ None \notin DocumentRow
    /\ None \notin Config

VARIABLES
    collections,   \* the row of each collection, or None
    documents,     \* the row of each document, or None
    issued         \* the collection ids generated so far: a UUID is never generated twice

dbVars == <<collections, documents, issued>>

Live(c) == collections[c] # None

DocumentsOf(c) ==
    {d \in DocumentId : documents[d] # None /\ documents[d].collection_id = c}

Unused == {d \in DocumentId : documents[d] = None}

DbInit ==
    /\ collections = [c \in CollectionId |-> None]
    /\ documents = [d \in DocumentId |-> None]
    /\ issued = {}
-----------------------------------------------------------------------------
(***************************************************************************)
(* The triggers: what a statement does to every count, given the rows it   *)
(* inserted (a function from ids to rows) or the ids it deleted.           *)
(***************************************************************************)
IncrementDocumentCount(newRows) ==
    [c \in CollectionId |->
        IF Live(c)
        THEN [collections[c] EXCEPT !.document_count =
                 @ + Cardinality({d \in DOMAIN newRows : newRows[d].collection_id = c})]
        ELSE None]

DecrementDocumentCount(oldRows) ==
    [c \in CollectionId |->
        IF Live(c)
        THEN [collections[c] EXCEPT !.document_count =
                 @ - Cardinality(oldRows \cap DocumentsOf(c))]
        ELSE None]

(* Variant: ids may be given out again.                                    *)
InsertCollectionReusingIds(c, name, config) ==
    /\ ~Live(c)
    /\ \A o \in CollectionId : Live(o) => collections[o].name # name
    /\ collections' = [collections EXCEPT ![c] =
                          [name |-> name, config |-> config, document_count |-> 0]]
    /\ issued' = issued \cup {c}
    /\ UNCHANGED documents

(* INSERT INTO collections: the id is fresh, the name is unique.           *)
InsertCollection(c, name, config) ==
    /\ c \notin issued
    /\ \A o \in CollectionId : Live(o) => collections[o].name # name
    /\ collections' = [collections EXCEPT ![c] =
                          [name |-> name, config |-> config, document_count |-> 0]]
    /\ issued' = issued \cup {c}
    /\ UNCHANGED documents

(* Variant: without ON DELETE CASCADE.                                     *)
DeleteCollectionWithoutCascade(c) ==
    /\ Live(c)
    /\ collections' = [collections EXCEPT ![c] = None]
    /\ UNCHANGED <<documents, issued>>

(* DELETE FROM collections, with the cascade to its documents.             *)
DeleteCollectionById(c) ==
    /\ Live(c)
    /\ collections' = [collections EXCEPT ![c] = None]
    /\ documents' = [d \in DocumentId |->
                        IF d \in DocumentsOf(c) THEN None ELSE documents[d]]
    /\ UNCHANGED issued

(* INSERT INTO documents of one or several rows: all of them or none.      *)
InsertDocuments(newRows) ==
    /\ DOMAIN newRows \subseteq Unused
    /\ \A d \in DOMAIN newRows : Live(newRows[d].collection_id)
    /\ documents' = [d \in DocumentId |->
                        IF d \in DOMAIN newRows THEN newRows[d] ELSE documents[d]]
    /\ collections' = IncrementDocumentCount(newRows)
    /\ UNCHANGED issued

(* Variant: the update gives the trigger a row, too, and replaces the key. *)
UpsertCountingUpdates(d, newRow) ==
    /\ Live(newRow.collection_id)
    /\ documents' = [documents EXCEPT ![d] = newRow]
    /\ collections' = IncrementDocumentCount([x \in {d} |-> newRow])
    /\ UNCHANGED issued

(* INSERT ... ON CONFLICT (id) DO UPDATE.  The update keeps collection_id; *)
(* it neither checks the foreign key of the row it was given nor gives the *)
(* insert trigger a row to count.                                          *)
UpsertDocument(d, newRow) ==
    \/ /\ documents[d] = None
       /\ InsertDocuments([x \in {d} |-> newRow])
    \/ /\ documents[d] # None
       /\ documents' = [documents EXCEPT ![d].vector_dims = newRow.vector_dims]
       /\ UNCHANGED <<collections, issued>>

(* DELETE FROM documents, of the rows found among those asked for.         *)
DeleteDocuments(oldRows) ==
    /\ documents' = [d \in DocumentId |-> IF d \in oldRows THEN None ELSE documents[d]]
    /\ collections' = DecrementDocumentCount(oldRows)
    /\ UNCHANGED issued

DbNext ==
    \/ \E c \in CollectionId, name \in Name, config \in Config :
           InsertCollection(c, name, config)
    \/ \E c \in CollectionId : DeleteCollectionById(c)
    \/ \E S \in SUBSET DocumentId : \E newRows \in [S -> DocumentRow] :
           InsertDocuments(newRows)
    \/ \E d \in DocumentId, newRow \in DocumentRow : UpsertDocument(d, newRow)
    \/ \E S \in SUBSET DocumentId : DeleteDocuments(S)

DbSpec == DbInit /\ [][DbNext]_dbVars
-----------------------------------------------------------------------------
(* Every row is well formed and a live collection's id has been issued.    *)
DbTypeOK ==
    /\ collections \in [CollectionId -> CollectionRow \cup {None}]
    /\ documents \in [DocumentId -> DocumentRow \cup {None}]
    /\ issued \subseteq CollectionId
    /\ \A c \in CollectionId : Live(c) => c \in issued

(* A document never outlives its collection: the cascade leaves no orphan, *)
(* and no insert or upsert can bring one in after the collection is gone.  *)
NoOrphans ==
    \A d \in DocumentId : documents[d] # None => Live(documents[d].collection_id)

(* The count that DeleteCollection and ListCollection(s) report is exact   *)
(* whatever mix of inserts, upserts, deletes and cascades came before it,  *)
(* although the triggers only ever add and subtract.                       *)
CountExact ==
    \A c \in CollectionId :
        Live(c) => collections[c].document_count = Cardinality(DocumentsOf(c))
=============================================================================
