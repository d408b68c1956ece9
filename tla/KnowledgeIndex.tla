----------------------------- MODULE KnowledgeIndex -----------------------------
(***************************************************************************)
(* Knowledge documents in the database and their chunks in Qdrant          *)
(* (services/knowledge_service.py, api/v1/knowledge.py), as one session    *)
(* sees them, handler by handler.  Qdrant, the embedding service and the   *)
(* database may fail at any call; the handler then stops: its rows may be  *)
(* undone, and nothing takes a change of Qdrant back.                      *)
(*                                                                         *)
(* The table's column is meta_data, and the attribute metadata of a row    *)
(* that was read is the MetaData object of the tables.  index_document     *)
(* puts it into a point, which is refused, and the responses take it for a *)
(* dictionary, which is refused too.  Only an update that gives metadata   *)
(* sets the attribute, for the rest of its own call.                       *)
(***************************************************************************)
EXTENDS TenantRows

CONSTANTS
    MaxDocuments, MaxChunks, MaxVersions    \* bounds

ASSUME KnowledgeAssumption ==   \* a document has a first version
    {MaxDocuments, MaxChunks, MaxVersions} \subseteq Nat /\ MaxVersions # 0

VARIABLES
    documents,      \* rows of knowledge_documents
    points,         \* of Qdrant: chunk, document, and the content it was taken from
    collections     \* tenants with a Qdrant collection

knowledgeVars == <<documents, points, collections>>

KnowledgeDocument == [tenant : Tenants, deleted : BOOLEAN, indexed : BOOLEAN,
    version : 1 .. MaxVersions,     \* the content the row holds
    chunks : 0 .. MaxChunks,        \* how many chunks it makes
    contents : 1 .. MaxVersions,    \* history: contents given, those undone included
    stale : BOOLEAN]    \* history: a call has changed the points or the content, not both
Point == [doc : 1 .. MaxDocuments, chunk : 1 .. MaxChunks, version : 1 .. MaxVersions]

KnowledgeTypeOK ==
    /\ documents \in Seq(KnowledgeDocument) /\ Len(documents) <= MaxDocuments
    /\ points \subseteq Point
    /\ collections \subseteq Tenants

KnowledgeInit == documents = <<>> /\ points = {} /\ collections = {}

-----------------------------------------------------------------------------
\* chunk_text and the point ids: a document's points are numbered, so that
\* indexing it again replaces those with its numbers and no others.
ChunkText(doc, d) == [doc : {d}, chunk : 1 .. doc.chunks, version : {doc.version}]
UpsertPoints(old, new) ==
    {q \in old : \A r \in new : <<q.doc, q.chunk>> # <<r.doc, r.chunk>>} \cup new
PointsOf(d) == {q \in points : q.doc = d}

\* The columns that index_document sets at its end; and a row whose points are not
\* what it says, because a call has failed between the two stores.
Indexed(docs, d) == [docs EXCEPT ![d].indexed = TRUE, ![d].stale = FALSE]
Stale(docs, d) == [docs EXCEPT ![d].stale = TRUE]

\* create_collection, unless there is one.
CreateCollection(t) == collections' = collections \cup {t}
CollectionAttempted(t) == collections' \in {collections, collections \cup {t}}

\* Mutant: the points are left where they are.
LeavePoints(d) == points

\* _remove_qdrant_points.
RemovePoints(d) == points \ PointsOf(d)

-----------------------------------------------------------------------------
NewDocument(t, n) == Inserted(documents, [tenant |-> t, deleted |-> FALSE, indexed |-> FALSE,
    version |-> 1, chunks |-> n, contents |-> 1, stale |-> FALSE])

CreateDocument(t, n) ==
    /\ Len(documents) < MaxDocuments
    /\ documents' = NewDocument(t, n)
    /\ UNCHANGED <<points, collections>>

\* A document that is uploaded is to be indexed in the same request: it has no
\* metadata, and the indexing fails.
UploadDocument(t, n) ==
    /\ Len(documents) < MaxDocuments
    /\ documents' \in {documents, NewDocument(t, n)}
    /\ CollectionAttempted(t)
    /\ UNCHANGED points

\* The index handler, and the Celery task with the same effect: the collection is
\* there, and then the row's metadata cannot be stored.
IndexDocument(t, d) ==
    /\ Gets(documents, d, t)
    /\ CollectionAttempted(t)
    /\ UNCHANGED <<documents, points>>

\* update_document with another content: the row, the removal of the old points,
\* the new ones, the row again.  Other updates leave the index alone.
UpdateDocument(t, d, n, metadata) ==
    /\ Gets(documents, d, t) /\ documents[d].contents < MaxVersions
    /\ LET old == [documents EXCEPT ![d].contents = @ + 1]
           changed == [old EXCEPT ![d].version = old[d].contents, ![d].chunks = n]
       IN  \* the removal fails
           \/ /\ documents' \in {old, Stale(changed, d)}
              /\ UNCHANGED <<points, collections>>
           \* the points are removed, and no new ones are stored
           \/ /\ documents' \in {Stale(old, d), Stale(changed, d)}
              /\ points' = RemovePoints(d)
              /\ CollectionAttempted(t)
           \* the new points are stored; the last flush or the response may fail
           \/ /\ metadata /\ n > 0
              /\ documents' \in {Stale(old, d), Stale(changed, d), Indexed(changed, d)}
              /\ points' = UpsertPoints(RemovePoints(d), ChunkText(changed[d], d))
              /\ CreateCollection(t)

\* delete_document: first the points, then the row, whose flush may fail.
DeleteDocument(t, d) ==
    /\ Gets(documents, d, t)
    /\ points' = RemovePoints(d)
    /\ documents' \in {SoftDeleted(documents, d), Stale(documents, d)}
    /\ UNCHANGED collections

\* reindex_all_unindexed takes deleted documents up too, for which nothing is done;
\* index_documents_bulk goes on after each failure.
Unindexed(t) == {d \in OfTenant(documents, t) : ~documents[d].indexed}

ReindexAll(t) ==
    /\ Unindexed(t) \cap NotDeleted(documents) # {}
    /\ CollectionAttempted(t)
    /\ UNCHANGED <<documents, points>>

-----------------------------------------------------------------------------
\* The searches: a tenant's points are in its collection.
Search(t) == IF t \in collections THEN UNION {PointsOf(d) : d \in OfTenant(documents, t)} ELSE {}
SearchDocuments(t, k) == {found \in SUBSET Search(t) : Cardinality(found) <= k}

\* get_collection_stats counts rows, deleted ones included, and points.
DocumentCount(t) == Cardinality({d \in OfTenant(documents, t) : documents[d].indexed})
ChunkCount(t) == Cardinality(Search(t))

\* The responses to rows that were read.
ListDocuments(t, page, limit) ==
    IF Page(Listed(documents, t), page, limit) = {} THEN "empty" ELSE "error"
GetDocument(t, d) == IF Gets(documents, d, t) THEN "error" ELSE "not_found"

-----------------------------------------------------------------------------
KnowledgeNext == \E t \in Tenants :
    \/ \E n \in 1 .. MaxChunks : CreateDocument(t, n)
    \/ \E n \in 0 .. MaxChunks : UploadDocument(t, n)
    \/ \E d \in 1 .. MaxDocuments :
        \/ IndexDocument(t, d) \/ DeleteDocument(t, d)
        \/ \E n \in 0 .. MaxChunks, metadata \in BOOLEAN : UpdateDocument(t, d, n, metadata)
    \/ ReindexAll(t)

KnowledgeSpec == KnowledgeInit /\ [][KnowledgeNext]_knowledgeVars

-----------------------------------------------------------------------------
\* Whatever calls fail between the two stores, no document has points of two of its
\* contents; and one whose last update or deletion went through to its end, or
\* changed nothing, has the points of the content it was indexed with if the row
\* says that it was indexed, and none else.
IndexedIsComplete == \A d \in DOMAIN documents :
    /\ \A p, q \in PointsOf(d) : p.version = q.version
    /\ ~documents[d].deleted /\ ~documents[d].stale =>
        PointsOf(d) = IF documents[d].indexed THEN ChunkText(documents[d], d) ELSE {}

\* The two stores agree on what exists: a search finds chunks of documents that the
\* table lists, whatever call has failed before, and all of these; list and get
\* refuse the same documents; and no more documents are counted than chunks, unless
\* one was deleted, which the count includes, or has parted from its points.
KnowledgeViewsAgree == \A t \in Tenants :
    /\ \A found \in SearchDocuments(t, 1) : \A q \in found : q.doc \in Listed(documents, t)
    /\ UNION {PointsOf(d) : d \in OfTenant(documents, t)} = Search(t)
    /\ (\A p \in 1 .. MaxDocuments : ListDocuments(t, p, 1) = "empty")
        <=> (\A d \in DOMAIN documents : GetDocument(t, d) = "not_found")
    /\ (\A d \in OfTenant(documents, t) : ~documents[d].deleted /\ ~documents[d].stale)
        => DocumentCount(t) <= ChunkCount(t)
=============================================================================
