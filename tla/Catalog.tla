------------------------------- MODULE Catalog ------------------------------
(***************************************************************************)
(* What a client of VectorSync is promised, without handlers, cache or     *)
(* triggers: collections with a configuration that never changes, the      *)
(* documents in them, the size reported for each, and the writes that are  *)
(* asked for and not settled.  A write is settled in one step: all it asks *)
(* for happens then and it is over, or it is given up and nothing happens. *)
(* Sizes are computed from the documents.  Every vector enters a           *)
(* collection at the dimension of that collection.  Two things are looser  *)
(* than the documents say: Put may leave a vector of any length behind in  *)
(* a document of another collection than its own, and Remove passes over   *)
(* the documents of others.                                                *)
(***************************************************************************)
EXTENDS Integers, FiniteSets

CONSTANTS
    CollectionId, DocumentId, Config, None,
    Rpc,      \* the clients' requests
    Vectors   \* the lists of vectors, each given by its length, that one may carry

VARIABLES
    config,   \* the configuration of each open collection, or None
    corpus,   \* where each document is and how long its vector is, or None
    size,     \* the number of documents reported for each collection
    retired,  \* the ids of collections that were opened and closed
    asked     \* the write of each request that is not settled, or None

vars == <<config, corpus, size, retired, asked>>

(* "add" brings new documents, "put" one under the id the client chose,    *)
(* and "remove" takes those out of the collection that have the ids.       *)
Write ==
    [kind : {"add", "put", "remove"}, collection_id : CollectionId,
     vectors : Vectors, ids : SUBSET DocumentId]

Members(c, docs) ==
    {d \in DocumentId : docs[d] # None /\ docs[d].collection_id = c}

Recount(docs) == [c \in CollectionId |-> Cardinality(Members(c, docs))]

Entry(w, n) == [collection_id |-> w.collection_id, vector_dims |-> n]

Init ==
    /\ config = [c \in CollectionId |-> None]
    /\ corpus = [d \in DocumentId |-> None]
    /\ size = [c \in CollectionId |-> 0]
    /\ retired = {}
    /\ asked = [r \in Rpc |-> None]

Open(c, g) ==
    /\ config[c] = None
    /\ c \notin retired
    /\ config' = [config EXCEPT ![c] = g]
    /\ UNCHANGED <<corpus, size, retired, asked>>

Close(c) ==
    /\ config[c] # None
    /\ config' = [config EXCEPT ![c] = None]
    /\ corpus' = [d \in DocumentId |-> IF d \in Members(c, corpus) THEN None ELSE corpus[d]]
    /\ size' = Recount(corpus')
    /\ retired' = retired \cup {c}
    /\ UNCHANGED asked

(* A request comes to ask for a write, or gives up the one it asked for.   *)
Ask(r) ==
    /\ asked[r] = None
    /\ asked'[r] \in Write
    /\ asked' = [asked EXCEPT ![r] = asked'[r]]
    /\ UNCHANGED <<config, corpus, size, retired>>

GiveUp(R) ==
    /\ asked' = [r \in Rpc |-> IF r \in R THEN None ELSE asked[r]]
    /\ UNCHANGED <<config, corpus, size, retired>>

Asks(r, kind) == asked[r] \in Write /\ asked[r].kind = kind

(* The collection of a write is open and every vector has its dimension.   *)
Fitting(w) ==
    /\ config[w.collection_id] # None
    /\ \A i \in DOMAIN w.vectors : w.vectors[i] = config[w.collection_id].dimension

Settle(r) ==
    /\ asked' = [asked EXCEPT ![r] = None]
    /\ size' = Recount(corpus')
    /\ UNCHANGED <<config, retired>>

(* The whole batch enters: as many new documents as it has vectors.        *)
Add(r) ==
    /\ Asks(r, "add")
    /\ Fitting(asked[r])
    /\ \E S \in SUBSET DocumentId :
          /\ Cardinality(S) = Cardinality(DOMAIN asked[r].vectors)
          /\ \A d \in S : corpus[d] = None
          /\ corpus' = [d \in DocumentId |->
                 IF d \in S THEN Entry(asked[r], config[asked[r].collection_id].dimension)
                 ELSE corpus[d]]
    /\ Settle(r)

(* One document is added or has its vector overwritten, wherever it is.    *)
Put(r) ==
    /\ Asks(r, "put")
    /\ \E d \in asked[r].ids :
          \/ /\ corpus[d] = None
             /\ Fitting(asked[r])
             /\ corpus' = [corpus EXCEPT ![d] = Entry(asked[r], asked[r].vectors[1])]
          \/ /\ corpus[d] # None
             /\ corpus[d].collection_id = asked[r].collection_id => Fitting(asked[r])
             /\ corpus' = [corpus EXCEPT ![d].vector_dims = asked[r].vectors[1]]
    /\ Settle(r)

(* All that the request can take leaves at once: every document of the     *)
(* collection with such an id.  Ids of other collections are passed over,  *)
(* where docs/api-reference/documents.mdx:422 has all or none deleted.     *)
Remove(r) ==
    /\ Asks(r, "remove")
    /\ corpus' = [d \in DocumentId |->
           IF d \in asked[r].ids \cap Members(asked[r].collection_id, corpus) THEN None
           ELSE corpus[d]]
    /\ Settle(r)

(* The deletion of a single document is asked for and done in one step.    *)
RemoveOne(d) ==
    /\ corpus[d] # None
    /\ corpus' = [corpus EXCEPT ![d] = None]
    /\ size' = Recount(corpus')
    /\ UNCHANGED <<config, retired, asked>>

Next ==
    \/ \E c \in CollectionId, g \in Config : Open(c, g)
    \/ \E c \in CollectionId : Close(c)
    \/ \E r \in Rpc : Ask(r) \/ Add(r) \/ Put(r) \/ Remove(r)
    \/ \E R \in SUBSET Rpc : GiveUp(R)
    \/ \E d \in DocumentId : RemoveOne(d)

Spec == Init /\ [][Next]_vars
=============================================================================
