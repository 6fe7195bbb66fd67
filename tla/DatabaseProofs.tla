--------------------------- MODULE DatabaseProofs ---------------------------
(***************************************************************************)
(* Proofs about Database, for any sets of ids, names and configurations.   *)
(* The inductive invariant is TypeOK /\ NoOrphans /\ CountExact: the       *)
(* counts need NoOrphans when a collection is created (its id must not     *)
(* already own documents), and NoOrphans needs the cascade.                *)
(***************************************************************************)
EXTENDS Database, FiniteSetTheorems, TLAPS

DbInv == DbTypeOK /\ NoOrphans /\ CountExact

(* The set of documents of a collection is finite, before and after.       *)
LEMMA DocumentsOfFinite ==
    \A c : IsFiniteSet(DocumentsOf(c)) /\ IsFiniteSet(DocumentsOf(c)')
<1>1. \A c : DocumentsOf(c) \in SUBSET DocumentId /\ DocumentsOf(c)' \in SUBSET DocumentId
  BY DEF DocumentsOf
<1> QED  BY <1>1, FS_Subset, DocumentIdAssumption

(* Cardinality of a union of disjoint sets.                                *)
LEMMA CardinalityDisjoint ==
    ASSUME NEW S, NEW T, IsFiniteSet(S), IsFiniteSet(T), S \cap T = {}
    PROVE  Cardinality(S \cup T) = Cardinality(S) + Cardinality(T)
<1>1. /\ Cardinality(S) \in Nat
      /\ Cardinality(T) \in Nat
  BY FS_CardinalityType
<1>2. Cardinality(S \cup T) = Cardinality(S) + Cardinality(T) - Cardinality({})
  BY FS_Union
<1> QED  BY <1>1, <1>2, FS_EmptySet

(* A row whose count was changed is still a row.                           *)
LEMMA RecountedRow ==
    ASSUME NEW r \in CollectionRow, NEW n \in Int
    PROVE  /\ [r EXCEPT !.document_count = r.document_count + n] \in CollectionRow
           /\ [r EXCEPT !.document_count = r.document_count - n] \in CollectionRow
<1>1. r.document_count + n \in Int /\ r.document_count - n \in Int
  BY DEF CollectionRow
<1> QED  BY <1>1 DEF CollectionRow

LEMMA DbInitInv == DbInit => DbInv
<1> SUFFICES ASSUME DbInit PROVE DbInv
  OBVIOUS
<1> QED  BY DEF DbInit, DbInv, DbTypeOK, NoOrphans, CountExact, Live

(* InsertCollection: the new collection has no documents yet.              *)
LEMMA InsertCollectionInv ==
    ASSUME DbInv, NEW c \in CollectionId, NEW name \in Name, NEW config \in Config,
           InsertCollection(c, name, config)
    PROVE  DbInv'
<1> DEFINE new == [name |-> name, config |-> config, document_count |-> 0]
<1> USE DEF DbInv, InsertCollection
<1>1. new \in CollectionRow /\ new # None
  BY NoneAssumption DEF CollectionRow
<1>2. \A o \in CollectionId : collections[o]' = IF o = c THEN new ELSE collections[o]
  BY DEF DbTypeOK
<1>3. DbTypeOK'
  BY <1>1, <1>2 DEF DbTypeOK, Live
<1>4. NoOrphans'
  BY <1>1, <1>2 DEF NoOrphans, Live, DbTypeOK, DocumentRow
<1>5. \A o : DocumentsOf(o)' = DocumentsOf(o)
  BY DEF DocumentsOf
<1>6. DocumentsOf(c) = {}
  BY DEF NoOrphans, DocumentsOf, DbTypeOK
<1>7. CountExact'
  <2> SUFFICES ASSUME NEW o \in CollectionId, Live(o)'
               PROVE  collections'[o].document_count = Cardinality(DocumentsOf(o))
    BY <1>5 DEF CountExact
  <2>1. CASE o = c
    BY <2>1, <1>2, <1>6, FS_EmptySet
  <2>2. CASE o # c
    BY <2>2, <1>2 DEF CountExact, Live
  <2> QED  BY <2>1, <2>2
<1> QED  BY <1>3, <1>4, <1>7

(* DeleteCollectionById: the documents of the other collections stay.      *)
LEMMA DeleteCollectionInv ==
    ASSUME DbInv, NEW c \in CollectionId, DeleteCollectionById(c)
    PROVE  DbInv'
<1> USE DEF DbInv, DeleteCollectionById
<1>1. \A o \in CollectionId : collections[o]' = IF o = c THEN None ELSE collections[o]
  BY DEF DbTypeOK
<1>2. \A d \in DocumentId :
          documents[d]' = IF d \in DocumentsOf(c) THEN None ELSE documents[d]
  OBVIOUS
<1>3. DbTypeOK'
  BY <1>1, <1>2 DEF DbTypeOK, Live
<1>4. NoOrphans'
  BY <1>1, <1>2 DEF NoOrphans, Live, DocumentsOf, DbTypeOK, DocumentRow
<1>5. \A o \in CollectionId : o # c => DocumentsOf(o)' = DocumentsOf(o)
  BY <1>2 DEF DocumentsOf
<1>6. CountExact'
  BY <1>1, <1>5 DEF CountExact, Live
<1> QED  BY <1>3, <1>4, <1>6

(* InsertDocuments: the trigger adds, for each collection, the number of   *)
(* new rows, and none of them was among its documents.                     *)
LEMMA InsertDocumentsInv ==
    ASSUME DbInv, NEW S \in SUBSET DocumentId, NEW newRows \in [S -> DocumentRow],
           InsertDocuments(newRows)
    PROVE  DbInv'
<1> DEFINE added(c) == {d \in DOMAIN newRows : newRows[d].collection_id = c}
<1> USE DEF DbInv, InsertDocuments
<1>1. \A d \in DocumentId :
          documents[d]' = IF d \in S THEN newRows[d] ELSE documents[d]
  OBVIOUS
<1>2. \A c \in CollectionId :
          collections[c]' = IF Live(c)
                            THEN [collections[c] EXCEPT !.document_count =
                                     @ + Cardinality(added(c))]
                            ELSE None
  BY DEF IncrementDocumentCount
<1>3. \A c \in CollectionId : added(c) \in SUBSET DocumentId /\ IsFiniteSet(added(c))
  BY FS_Subset, DocumentIdAssumption
<1>4. \A c \in CollectionId : Cardinality(added(c)) \in Nat
  BY <1>3, FS_CardinalityType
<1> HIDE DEF added
<1>5. \A c \in CollectionId :
          IF Live(c) THEN collections[c]' \in CollectionRow /\ Live(c)'
          ELSE collections[c]' = None /\ ~Live(c)'
  <2> SUFFICES ASSUME NEW c \in CollectionId
               PROVE  IF Live(c) THEN collections[c]' \in CollectionRow /\ Live(c)'
                      ELSE collections[c]' = None /\ ~Live(c)'
    OBVIOUS
  <2>1. CASE Live(c)
    <3>1. collections[c] \in CollectionRow
      BY <2>1 DEF Live, DbTypeOK
    <3>2. \A n \in Int : [collections[c] EXCEPT !.document_count =
              collections[c].document_count + n] \in CollectionRow
      BY <3>1, RecountedRow
    <3>3. PICK n \in Int : n = Cardinality(added(c))
      BY <1>4
    <3>4. collections[c]' = [collections[c] EXCEPT !.document_count =
                                collections[c].document_count + n]
      BY <2>1, <3>3, <1>2
    <3>5. collections[c]' \in CollectionRow
      BY <3>2, <3>4
    <3> QED  BY <2>1, <3>5, NoneAssumption DEF Live
  <2>2. CASE ~Live(c)
    BY <2>2, <1>2 DEF Live
  <2> QED  BY <2>1, <2>2
<1>6. DbTypeOK'
  <2>1. documents' \in [DocumentId -> DocumentRow \cup {None}]
    BY <1>1 DEF DbTypeOK
  <2>2. collections' \in [CollectionId -> CollectionRow \cup {None}]
    BY <1>5 DEF IncrementDocumentCount
  <2> QED  BY <1>5, <2>1, <2>2 DEF DbTypeOK
<1>7. NoOrphans'
  BY <1>1, <1>5 DEF NoOrphans, DbTypeOK, DocumentRow
<1>8. ASSUME NEW c \in CollectionId
      PROVE  /\ DocumentsOf(c)' = DocumentsOf(c) \cup added(c)
             /\ DocumentsOf(c) \cap added(c) = {}
  BY <1>1, NoneAssumption DEF DocumentsOf, Unused, added
<1>9. CountExact'
  <2> SUFFICES ASSUME NEW c \in CollectionId, Live(c)
               PROVE  collections[c].document_count' = Cardinality(DocumentsOf(c)')
    BY <1>5 DEF CountExact
  <2>1. Cardinality(DocumentsOf(c)') = Cardinality(DocumentsOf(c)) + Cardinality(added(c))
    BY <1>3, <1>8, DocumentsOfFinite, CardinalityDisjoint
  <2>2. collections[c].document_count' = collections[c].document_count + Cardinality(added(c))
    BY <1>2 DEF Live, DbTypeOK, CollectionRow
  <2> QED  BY <2>1, <2>2 DEF CountExact
<1> QED  BY <1>6, <1>7, <1>9

(* UpsertDocument: an insert of one row, or an update that moves nothing.  *)
LEMMA UpsertDocumentInv ==
    ASSUME DbInv, NEW d \in DocumentId, NEW newRow \in DocumentRow, UpsertDocument(d, newRow)
    PROVE  DbInv'
<1>1. CASE InsertDocuments([x \in {d} |-> newRow])
  <2>1. {d} \in SUBSET DocumentId /\ [x \in {d} |-> newRow] \in [{d} -> DocumentRow]
    OBVIOUS
  <2> QED  BY <1>1, <2>1, InsertDocumentsInv
<1>2. CASE /\ documents[d] # None
           /\ documents' = [documents EXCEPT ![d].vector_dims = newRow.vector_dims]
           /\ UNCHANGED <<collections, issued>>
  <2>1. documents[d]' \in DocumentRow /\ documents[d]'.collection_id = documents[d].collection_id
    BY <1>2 DEF DbInv, DbTypeOK, DocumentRow
  <2>2. documents[d]' # None
    BY <2>1, NoneAssumption
  <2>3. \A e \in DocumentId : e # d => documents[e]' = documents[e]
    BY <1>2 DEF DbInv, DbTypeOK
  <2>4. documents' \in [DocumentId -> DocumentRow \cup {None}]
    BY <1>2, <2>1, <2>3 DEF DbInv, DbTypeOK
  <2>5. DbTypeOK'
    BY <1>2, <2>4 DEF DbInv, DbTypeOK, Live
  <2>6. NoOrphans'
    BY <1>2, <2>1, <2>3 DEF DbInv, NoOrphans, Live
  <2>7. \A c : DocumentsOf(c)' = DocumentsOf(c)
    BY <1>2, <2>1, <2>2, <2>3 DEF DocumentsOf
  <2>8. CountExact'
    BY <1>2, <2>7 DEF DbInv, CountExact, Live
  <2> QED  BY <2>5, <2>6, <2>8 DEF DbInv
<1> QED  BY <1>1, <1>2 DEF UpsertDocument

(* DeleteDocuments: the trigger subtracts, for each collection, those of   *)
(* its documents that were deleted.                                        *)
LEMMA DeleteDocumentsInv ==
    ASSUME DbInv, NEW S \in SUBSET DocumentId, DeleteDocuments(S)
    PROVE  DbInv'
<1> DEFINE removed(c) == S \cap DocumentsOf(c)
<1> USE DEF DbInv, DeleteDocuments
<1>1. \A d \in DocumentId : documents[d]' = IF d \in S THEN None ELSE documents[d]
  OBVIOUS
<1>2. \A c \in CollectionId :
          collections[c]' = IF Live(c)
                            THEN [collections[c] EXCEPT !.document_count =
                                     @ - Cardinality(removed(c))]
                            ELSE None
  BY DEF DecrementDocumentCount
<1>3. \A c \in CollectionId : IsFiniteSet(removed(c)) /\ IsFiniteSet(DocumentsOf(c) \ S)
  BY DocumentsOfFinite, FS_Intersection, FS_Difference
<1>4. \A c \in CollectionId : Cardinality(removed(c)) \in Nat
  BY <1>3, FS_CardinalityType
<1> HIDE DEF removed
<1>5. \A c \in CollectionId :
          IF Live(c) THEN collections[c]' \in CollectionRow /\ Live(c)'
          ELSE collections[c]' = None /\ ~Live(c)'
  <2> SUFFICES ASSUME NEW c \in CollectionId
               PROVE  IF Live(c) THEN collections[c]' \in CollectionRow /\ Live(c)'
                      ELSE collections[c]' = None /\ ~Live(c)'
    OBVIOUS
  <2>1. CASE Live(c)
    <3>1. collections[c] \in CollectionRow
      BY <2>1 DEF Live, DbTypeOK
    <3>2. \A n \in Int : [collections[c] EXCEPT !.document_count =
              collections[c].document_count - n] \in CollectionRow
      BY <3>1, RecountedRow
    <3>3. PICK n \in Int : n = Cardinality(removed(c))
      BY <1>4
    <3>4. collections[c]' = [collections[c] EXCEPT !.document_count =
                                collections[c].document_count - n]
      BY <2>1, <3>3, <1>2
    <3>5. collections[c]' \in CollectionRow
      BY <3>2, <3>4
    <3> QED  BY <2>1, <3>5, NoneAssumption DEF Live
  <2>2. CASE ~Live(c)
    BY <2>2, <1>2 DEF Live
  <2> QED  BY <2>1, <2>2
<1>6. DbTypeOK'
  <2>1. documents' \in [DocumentId -> DocumentRow \cup {None}]
    BY <1>1 DEF DbTypeOK
  <2>2. collections' \in [CollectionId -> CollectionRow \cup {None}]
    BY <1>5 DEF DecrementDocumentCount
  <2> QED  BY <1>5, <2>1, <2>2 DEF DbTypeOK
<1>7. NoOrphans'
  BY <1>1, <1>5 DEF NoOrphans, DbTypeOK, DocumentRow
<1>8. ASSUME NEW c \in CollectionId
      PROVE  DocumentsOf(c) = DocumentsOf(c)' \cup removed(c) /\ DocumentsOf(c)' \cap removed(c) = {}
  BY <1>1 DEF DocumentsOf, removed
<1>9. CountExact'
  <2> SUFFICES ASSUME NEW c \in CollectionId, Live(c)
               PROVE  collections[c].document_count' = Cardinality(DocumentsOf(c)')
    BY <1>5 DEF CountExact
  <2>1. Cardinality(DocumentsOf(c)) = Cardinality(DocumentsOf(c)') + Cardinality(removed(c))
    BY <1>3, <1>8, DocumentsOfFinite, CardinalityDisjoint
  <2>2. collections[c].document_count' = collections[c].document_count - Cardinality(removed(c))
    BY <1>2 DEF Live, DbTypeOK, CollectionRow
  <2>3. Cardinality(DocumentsOf(c)') \in Nat
    BY DocumentsOfFinite, FS_CardinalityType
  <2> QED  BY <1>4, <2>1, <2>2, <2>3 DEF CountExact
<1> QED  BY <1>6, <1>7, <1>9

LEMMA DbStutter == DbInv /\ UNCHANGED dbVars => DbInv'
  BY DEF DbInv, dbVars, DbTypeOK, NoOrphans, CountExact, DocumentsOf, Live

LEMMA DbNextInv == DbInv /\ [DbNext]_dbVars => DbInv'
<1> SUFFICES ASSUME DbInv, [DbNext]_dbVars PROVE DbInv'
  OBVIOUS
<1>1. ASSUME NEW c \in CollectionId, NEW name \in Name, NEW config \in Config,
             InsertCollection(c, name, config)
      PROVE  DbInv'
  BY <1>1, InsertCollectionInv
<1>2. ASSUME NEW c \in CollectionId, DeleteCollectionById(c) PROVE DbInv'
  BY <1>2, DeleteCollectionInv
<1>3. ASSUME NEW S \in SUBSET DocumentId, NEW newRows \in [S -> DocumentRow],
             InsertDocuments(newRows)
      PROVE  DbInv'
  BY <1>3, InsertDocumentsInv
<1>4. ASSUME NEW d \in DocumentId, NEW newRow \in DocumentRow, UpsertDocument(d, newRow)
      PROVE  DbInv'
  BY <1>4, UpsertDocumentInv
<1>5. ASSUME NEW S \in SUBSET DocumentId, DeleteDocuments(S) PROVE DbInv'
  BY <1>5, DeleteDocumentsInv
<1>6. CASE UNCHANGED dbVars
  BY <1>6, DbStutter
<1> QED  BY <1>1, <1>2, <1>3, <1>4, <1>5, <1>6 DEF DbNext

THEOREM DbInvariant == DbSpec => []DbInv
<1> QED  BY DbInitInv, DbNextInv, PTL DEF DbSpec

(* No statement of the code leaves an orphan document behind, for every    *)
(* set of collections and documents and every order of statements.         *)
THEOREM DatabaseNoOrphans == DbSpec => []NoOrphans
<1>1. DbInv => NoOrphans
  BY DEF DbInv
<1> QED  BY <1>1, DbInvariant, PTL

(* The triggers keep document_count exact under every order of statements. *)
THEOREM DatabaseCountExact == DbSpec => []CountExact
<1>1. DbInv => CountExact
  BY DEF DbInv
<1> QED  BY <1>1, DbInvariant, PTL
=============================================================================
